------------------------- MODULE MCFileNetLogObserver -------------------------
(***************************************************************************)
(* Model-checking instance of FileNetLogObserver.  The constants are given *)
(* in the .cfg files; this module fixes the width of size_t.               *)
(***************************************************************************)
EXTENDS FileNetLogObserver, TLC

(* size_t is scaled down to 8 bits: kNoLimit = 255, and the unbounded      *)
(* queue cap kNoLimit * 2 wraps to 254 as in the code.                     *)
MCSizeBits == 8
=============================================================================
