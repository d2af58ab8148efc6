---------------------------- MODULE NetLogAbstract ----------------------------
(***************************************************************************)
(* What the file NetLog observer promises its user, with queues, chunk    *)
(* files and tasks abstracted away.  While logging, every event handed to *)
(* OnAddEntry is accepted; the observer keeps an ordered selection of the *)
(* accepted events and may forget any of them (the queue's overflow drop, *)
(* the ring of chunk files, failed writes, deletion of an abandoned log); *)
(* once stopped it eventually publishes exactly what it still keeps, in   *)
(* acceptance order.  Nothing is published twice, reordered or invented. *)
(***************************************************************************)
EXTENDS Integers, Sequences, FiniteSets

CONSTANT Events   \* the events OnAddEntry can be given

VARIABLES
  phase,     \* idle, logging, stopping, done, abandoned
  accepted,  \* every event accepted, in order
  kept,      \* the accepted events that may still be published
  published  \* the events of the published log

avars == <<phase, accepted, kept, published>>

(* The subsequences of s: s with any set of positions removed. *)
Thin(s) ==
  LET at(D, i) == CHOOSE j \in D : Cardinality({k \in D : k <= j}) = i
  IN {[i \in 1 .. Cardinality(D) |-> s[at(D, i)]] : D \in SUBSET DOMAIN s}

Init ==
  /\ phase = "idle"
  /\ accepted = <<>>
  /\ kept = <<>>
  /\ published = <<>>

Start ==
  /\ phase = "idle"
  /\ phase' = "logging"
  /\ UNCHANGED <<accepted, kept, published>>

(* Accepting an event may at once forget older kept events. *)
Accept(e) ==
  /\ phase = "logging"
  /\ accepted' = Append(accepted, e)
  /\ kept' \in Thin(Append(kept, e))
  /\ UNCHANGED <<phase, published>>

Forget ==
  /\ phase # "done"
  /\ kept' \in Thin(kept)
  /\ UNCHANGED <<phase, accepted, published>>

RequestStop ==
  /\ phase = "logging"
  /\ phase' = "stopping"
  /\ UNCHANGED <<accepted, kept, published>>

Publish ==
  /\ phase = "stopping"
  /\ phase' = "done"
  /\ published' = kept
  /\ kept' = <<>>
  /\ UNCHANGED accepted

Abandon ==
  /\ phase \in {"idle", "logging"}
  /\ phase' = "abandoned"
  /\ UNCHANGED <<accepted, kept, published>>

Next ==
  \/ Start
  \/ \E e \in Events : Accept(e)
  \/ Forget
  \/ RequestStop
  \/ Publish
  \/ Abandon

(* A stop request is eventually answered by the published log. *)
Spec == Init /\ [][Next]_avars /\ WF_avars(Publish)

=============================================================================
