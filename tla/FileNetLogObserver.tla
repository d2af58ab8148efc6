-------------------------- MODULE FileNetLogObserver --------------------------
(***************************************************************************)
(* FileNetLogObserver (src/log/file_net_log_observer.cc): producers call  *)
(* OnAddEntry, which pushes an encoded event into the shared WriteQueue    *)
(* and posts a Flush task when the queue length reaches a threshold; a     *)
(* single sequenced file task runner runs the FileWriter's tasks in FIFO   *)
(* order: Initialize, Flush, FlushThenStop, DeleteAllFiles and the         *)
(* deferred destruction of the writer.                                     *)
(*                                                                         *)
(* Files are sequences of tokens.  An event line is the event token        *)
(* followed by a SEP token (the two bytes ",\n").  The prologue            *)
(* {"constants":...,\n"events": [\n is one PRO token, the epilogue is      *)
(* CLOSE ("]"), an optional POLLED, and END ("}\n").  PH is the            *)
(* placeholder text written in bounded mode, CUT a token whose last bytes  *)
(* were overwritten by a rewind that did not land on a SEP.  After a       *)
(* short write, PART is a strict prefix of an event (sz bytes of it) and   *)
(* COMMA the "," of a separator without its newline.                       *)
(***************************************************************************)
EXTENDS Integers, Sequences, SequencesExt, FiniteSets

CONSTANTS
  N,              \* total_num_event_files_
  MaxTotalSize,   \* max_total_size passed to CreateBoundedInternal
  SizeBits,       \* width of size_t
  FlushThreshold, \* kNumWriteQueueEvents
  EventSizes,     \* byte sizes an encoded event can have
  MaxEvents,      \* bound on the number of OnAddEntry calls
  Fallible,       \* opens and event writes that may fail: subset of FaultKinds
  MaxFailures,    \* bound on the number of failed opens
  MaxCrashes,     \* bound on the number of process crashes
  StopMisuse,     \* callers may call StopObserving while not observing
  NoFile          \* model value: the path does not exist on disk

FaultKinds == {"final", "dir", "constants", "chunk", "closing", "write"}

SizeMod == 2 ^ SizeBits
kNoLimit == SizeMod - 1

ASSUME /\ N \in Nat \ {0}
       /\ MaxTotalSize \in 0 .. kNoLimit
       /\ FlushThreshold \in Nat \ {0}
       /\ EventSizes \subseteq Nat \ {0}
       /\ MaxEvents \in Nat
       /\ Fallible \subseteq FaultKinds
       /\ MaxFailures \in Nat
       /\ MaxCrashes \in Nat
       /\ StopMisuse \in BOOLEAN

(* CreateBoundedInternal: per-file soft limit and the queue's hard limit.  *)
(* max_total_size * 2 is computed in size_t and wraps.                     *)
MaxEventFileSize ==
  IF MaxTotalSize = kNoLimit THEN kNoLimit ELSE MaxTotalSize \div N
(* Mutation: the queue cap is max_total_size, not twice it. *)
MemoryMaxSingle == MaxTotalSize % SizeMod
MemoryMax == (MaxTotalSize * 2) % SizeMod

IsUnbounded == MaxEventFileSize = kNoLimit
IsBounded == ~IsUnbounded

(* FileNumberToIndex: file numbers start at 1, indices wrap. *)
FileNumberToIndex(fn) == (fn - 1) % N

Mk(kind) == [k |-> kind, id |-> 0, sz |-> 0]
Event(i, s) == [k |-> "ev", id |-> i, sz |-> s]
SEP == Mk("SEP")
Epilogue(polled) ==
  <<Mk("CLOSE")>> \o (IF polled THEN <<Mk("POLLED")>> ELSE <<>>) \o <<Mk("END")>>

Task(op, polled) == [op |-> op, polled |-> polled]
NoTask == Task("none", FALSE)
FlushTask == Task("Flush", FALSE)

VARIABLES
  obs,           \* observer lifecycle: created, observing, stopped,
                 \* destroyed, or aborted (the process died)
  destroyedFrom, \* lifecycle state the destructor ran in ("none" before)
  nextId,        \* id of the next event passed to OnAddEntry
  postOwed,      \* a producer inside OnAddEntry has pushed and has still
                 \* to post the Flush task
  tasks,         \* FIFO of tasks posted to the file task runner
  queue,         \* WriteQueue::queue_
  memory,        \* WriteQueue::memory_
  running,       \* task the file task runner is executing, or NoTask
  localQ,        \* local_file_queue of FileWriter::Flush
  finalOpen,     \* final_log_file_ is non-null
  curOpen,       \* current_event_file_ is non-null
  curSize,       \* current_event_file_size_
  fileNumber,    \* current_event_file_number_
  wrote,         \* wrote_event_bytes_
  stitch,        \* sources StitchFinalLogFile has still to append
  writerStopped, \* FileWriter::Stop has completed
  writerAlive,   \* the FileWriter has not been deleted
  finalFile,     \* contents of final_log_path_, or NoFile
  dir,           \* the .inprogress directory exists
  aux,           \* constants.json and end_netlog.json contents, or NoFile
  chunk,         \* event_file_<i>.json contents, or NoFile
  failures,      \* number of opens that have failed
  pushed,        \* history: every event accepted by AddEntryToQueue
  sinceSwap,     \* history: events pushed since the last SwapQueue
  written,       \* history: events written with bytes_written > 0
  lost,          \* history: line bytes lost since the last rotation
  stitched,      \* history: events of the sources the stitch deleted
  crashes,       \* number of process crashes so far
  sessionStart   \* history: id of the first event of the current process

observerVars == <<obs, destroyedFrom, nextId, postOwed>>
queueVars == <<queue, memory>>
writerVars == <<running, localQ, finalOpen, curOpen, curSize, fileNumber,
                wrote, stitch, writerStopped, writerAlive>>
diskVars == <<finalFile, dir, aux, chunk, failures>>
historyVars == <<pushed, sinceSwap, written, lost, stitched, crashes, sessionStart>>
vars == <<observerVars, tasks, queueVars, writerVars, diskVars, historyVars>>

-----------------------------------------------------------------------------
(* Helpers *)

(* The faults an open of the given kinds may suffer within the budget. *)
Faults(kinds) ==
  {f \in SUBSET (kinds \cap Fallible) : failures + Cardinality(f) <= MaxFailures}

Contents(c) == IF c = NoFile THEN <<>> ELSE c

IsEv(t) == t.k = "ev"
EventsOf(c) == SelectSeq(Contents(c), IsEv)

(* OpenFileForWrite opens with "wb": a successful open truncates the file; *)
(* a failed open returns null and leaves the file as it was.              *)
OpenForWrite(c, ok) == IF ok THEN <<>> ELSE c

(* The first k bytes of the line event ",\n", as tokens. *)
LinePrefix(k, ev) ==
  [bytes |-> k,
   data  |-> CASE k = 0          -> <<>>
               [] k < ev.sz      -> <<[k |-> "PART", id |-> ev.id, sz |-> k]>>
               [] k = ev.sz      -> <<ev>>
               [] k = ev.sz + 1  -> <<ev, Mk("COMMA")>>
               [] OTHER          -> <<ev, SEP>>]

(* WriteToFile(file, event, ",\n"): the outcomes of the two fwrites.      *)
(* Nothing is written on a null handle; a write error (short) stops the    *)
(* line after any shorter number of bytes; otherwise the whole line.       *)
WriteToFile(isOpen, ev, short) ==
  CASE ~isOpen -> {LinePrefix(0, ev)}
    [] short   -> {LinePrefix(k, ev) : k \in 0 .. ev.sz + 1}
    [] OTHER   -> {LinePrefix(ev.sz + 2, ev)}

(* Mutation: the soft limit is tested with > instead of >=. *)
NeedsRotateGT == fileNumber = 0 \/ curSize > MaxEventFileSize

(* Flush's rotation test before each write in bounded mode. *)
NeedsRotate == fileNumber = 0 \/ curSize >= MaxEventFileSize

(* Byte lengths of tokens, as far as a 2-byte rewind can tell them apart: *)
(* the prologue, placeholder, epilogue and CUT tokens are longer than 2.   *)
TokenBytes(t) ==
  CASE t.k \in {"ev", "PART"} -> t.sz
    [] t = SEP               -> 2
    [] t = Mk("COMMA")       -> 1
    [] OTHER                 -> 3

(* A token with its last n bytes (fewer than it has) removed: ",\n" keeps *)
(* its comma, the prologue only loses the newline after "[" (whitespace),  *)
(* anything else is left damaged.                                          *)
Trimmed(t, n) ==
  CASE t = SEP /\ n = 1         -> Mk("COMMA")
    [] t = Mk("PRO") /\ n = 1   -> t
    [] OTHER                    -> Mk("CUT")

(* The file with its last n bytes removed. *)
RECURSIVE TrimEnd(_, _)
TrimEnd(c, n) ==
  CASE n = 0 \/ c = <<>>         -> c
    [] TokenBytes(Last(c)) <= n -> TrimEnd(Front(c), n - TokenBytes(Last(c)))
    [] OTHER                    -> Append(Front(c), Trimmed(Last(c), n))

(* AppendToFileThenDelete's copy loop cut short by a write error: the     *)
(* final file receives some strict byte prefix of the source.             *)
ShortCopies(data) ==
  {TrimEnd(data, n) : n \in 1 .. FoldSeq(LAMBDA t, acc : acc + TokenBytes(t), 0, data)}

(* fseek(file, -2, SEEK_END) followed by a write of data: the data        *)
(* overwrites the last two bytes.  Without a following write the file is   *)
(* unchanged.                                                              *)
Rewind(c) == TrimEnd(c, 2)
RewindThenWrite(c, data) == IF data = <<>> THEN c ELSE Rewind(c) \o data

(* Mutation: the wrote_event_bytes_ test is dropped. *)
RewindAlways(c, data) == RewindThenWrite(c, data)

(* RewindIfWroteEventBytes on an open file, followed by the write of data. *)
RewindIfWroteEventBytes(c, data) ==
  IF wrote THEN RewindThenWrite(c, data) ELSE c \o data

(* Mutation: the loop drops while memory_ >= memory_max_. *)
RECURSIVE DropOldestGE(_, _)
DropOldestGE(q, m) ==
  IF m >= MemoryMax /\ q # <<>>
    THEN DropOldestGE(Tail(q), m - Head(q).sz)
    ELSE [q |-> q, m |-> m]

(* Mutation: "if" instead of "while": at most one event is dropped. *)
DropOldestOnce(q, m) ==
  IF m > MemoryMax /\ q # <<>>
    THEN [q |-> Tail(q), m |-> m - Head(q).sz]
    ELSE [q |-> q, m |-> m]

(* WriteQueue::AddEntryToQueue's loop: drop the oldest events while        *)
(* memory_ > memory_max_ and the queue is non-empty.                        *)
RECURSIVE DropOldest(_, _)
DropOldest(q, m) ==
  IF m > MemoryMax /\ q # <<>>
    THEN DropOldest(Tail(q), m - Head(q).sz)
    ELSE [q |-> q, m |-> m]

(* Mutation: the window starts one file too late once the ring wrapped. *)
StitchWindowShort(fn) ==
  LET end == fn + 1
      begin == IF fn <= N THEN 1 ELSE end - N + 1
  IN begin .. (end - 1)

(* Mutation: every event file of the ring is stitched, numbered 1 .. N. *)
StitchWindowAll(fn) == 1 .. N

(* StitchFinalLogFile's window of live file numbers [begin, end). *)
StitchWindow(fn) ==
  LET end == fn + 1
      begin == IF fn <= N THEN 1 ELSE end - N
  IN begin .. (end - 1)

(* The files StitchFinalLogFile appends, in order: constants.json, the    *)
(* window of event files oldest first, end_netlog.json.                    *)
Src(name, fn) == [name |-> name, fn |-> fn]
StitchSources(fn) ==
  LET w == StitchWindow(fn)
  IN <<Src("constants", 0)>>
       \o [j \in 1 .. Cardinality(w) |-> Src("chunk", Min(w) + j - 1)]
       \o <<Src("closing", 0)>>

SourceFile(s) ==
  IF s.name = "chunk" THEN chunk[FileNumberToIndex(s.fn)] ELSE aux[s.name]

-----------------------------------------------------------------------------
(* Initial state: the constructor posted Initialize. *)
Init ==
  /\ obs = "created"
  /\ destroyedFrom = "none"
  /\ nextId = 1
  /\ postOwed = FALSE
  /\ tasks = <<Task("Initialize", FALSE)>>
  /\ queue = <<>>
  /\ memory = 0
  /\ running = NoTask
  /\ localQ = <<>>
  /\ finalOpen = FALSE
  /\ curOpen = FALSE
  /\ curSize = 0
  /\ fileNumber = 0
  /\ wrote = FALSE
  /\ stitch = <<>>
  /\ writerStopped = FALSE
  /\ writerAlive = TRUE
  /\ finalFile = NoFile
  /\ dir = FALSE
  /\ aux = [a \in {"constants", "closing"} |-> NoFile]
  /\ chunk = [i \in 0 .. N - 1 |-> NoFile]
  /\ failures = 0
  /\ pushed = <<>>
  /\ sinceSwap = <<>>
  /\ written = <<>>
  /\ lost = 0
  /\ stitched = <<>>
  /\ crashes = 0
  /\ sessionStart = 1

-----------------------------------------------------------------------------
(* Observer front-end, on caller threads. *)

StartObserving ==
  /\ obs = "created"
  /\ obs' = "observing"
  /\ UNCHANGED <<destroyedFrom, nextId, postOwed, tasks, queueVars, writerVars,
                 diskVars, historyVars>>

(* Mutation: the Flush is posted one event past the threshold. *)
OnAddEntryLatePost(size) ==
  /\ obs = "observing"
  /\ nextId <= MaxEvents
  /\ LET ev == Event(nextId, size)
         r == DropOldest(Append(queue, ev), memory + size)
     IN /\ queue' = r.q
        /\ memory' = r.m
        /\ postOwed' = (Len(r.q) = FlushThreshold + 1)
        /\ pushed' = Append(pushed, ev)
        /\ sinceSwap' = Append(sinceSwap, ev)
  /\ nextId' = nextId + 1
  /\ UNCHANGED <<obs, destroyedFrom, tasks, writerVars, diskVars, written, lost,
                 stitched, crashes, sessionStart>>

(* OnAddEntry, first part: runs under NetLog's lock, so calls are         *)
(* serialised with each other and with Deprecated{Add,Remove}Observer.    *)
(* The push is AddEntryToQueue, under the WriteQueue's lock; the length it *)
(* returns decides whether a Flush is posted.                             *)
OnAddEntry(size) ==
  /\ obs = "observing"
  /\ nextId <= MaxEvents
  /\ LET ev == Event(nextId, size)
         r == DropOldest(Append(queue, ev), memory + size)
     IN /\ queue' = r.q
        /\ memory' = r.m
        /\ postOwed' = (Len(r.q) = FlushThreshold)
        /\ pushed' = Append(pushed, ev)
        /\ sinceSwap' = Append(sinceSwap, ev)
  /\ nextId' = nextId + 1
  /\ UNCHANGED <<obs, destroyedFrom, tasks, writerVars, diskVars, written, lost,
                 stitched, crashes, sessionStart>>

(* OnAddEntry, second part: the Flush is posted after AddEntryToQueue    *)
(* released the queue's lock, so the file task runner may swap the queue  *)
(* in between.  The producer still holds NetLog's lock.                   *)
PostFlush ==
  /\ postOwed
  /\ tasks' = Append(tasks, FlushTask)
  /\ postOwed' = FALSE
  /\ UNCHANGED <<obs, destroyedFrom, nextId, queueVars, writerVars, diskVars,
                 historyVars>>

StopObserving(polled) ==
  /\ obs = "observing"
  /\ obs' = "stopped"
  /\ tasks' = Append(tasks, Task("FlushThenStop", polled))
  /\ UNCHANGED <<destroyedFrom, nextId, postOwed, queueVars, writerVars, diskVars,
                 historyVars>>

(* StopObserving before StartObserving or a second time: net_log() is     *)
(* null and DeprecatedRemoveObserver is called through it.  The model     *)
(* takes the outcome of that undefined behaviour to be the death of the    *)
(* process: nothing runs afterwards.                                        *)
StopObservingUnregistered ==
  /\ StopMisuse
  /\ obs \in {"created", "stopped"}
  /\ obs' = "aborted"
  /\ UNCHANGED <<destroyedFrom, nextId, postOwed, tasks, queueVars, writerVars,
                 diskVars, historyVars>>

(* ~FileNetLogObserver: DeleteAllFiles only if still observing, then the   *)
(* writer's deletion is posted (DeleteSoon).                               *)
Destroy ==
  /\ obs \in {"created", "observing", "stopped"}
  /\ obs' = "destroyed"
  /\ destroyedFrom' = obs
  /\ tasks' = tasks \o (IF obs = "observing"
                          THEN <<Task("DeleteAllFiles", FALSE)>> ELSE <<>>)
                    \o <<Task("DeleteWriter", FALSE)>>
  /\ UNCHANGED <<nextId, postOwed, queueVars, writerVars, diskVars, historyVars>>

-----------------------------------------------------------------------------
(* File task runner: FileWriter methods.  A task starts only when the      *)
(* runner is idle, in posting order.                                       *)

NextTaskIs(op) ==
  /\ running = NoTask
  /\ tasks # <<>>
  /\ Head(tasks).op = op

(* FileWriter::Initialize, with WriteConstantsToFile and                   *)
(* CreateInprogressDirectory.  A failed open of the final file skips the   *)
(* directory, but the constants file is still opened: it fails only when *)
(* no directory exists (or on its own fault).  Creating a directory left   *)
(* by a crashed process succeeds and keeps its files.                      *)
Initialize ==
  /\ NextTaskIs("Initialize")
  /\ tasks' = Tail(tasks)
  /\ \E f \in Faults({"final", "dir", "constants"}) :
       LET okFinal == "final" \notin f
           okDir == okFinal /\ "dir" \notin f
           dirAfter == dir \/ okDir
           okConst == dirAfter /\ "constants" \notin f
       IN /\ "dir" \in f => okFinal /\ ~dir
          /\ "constants" \in f => IsBounded /\ dirAfter
          /\ finalOpen' = okFinal
          /\ IF IsBounded
               THEN /\ dir' = dirAfter
                    /\ finalFile' = IF okDir THEN <<Mk("PH")>>
                                    ELSE OpenForWrite(finalFile, okFinal)
                    /\ aux' = [aux EXCEPT !["constants"] =
                                 IF okConst THEN <<Mk("PRO")>> ELSE @]
               ELSE /\ finalFile' = IF okFinal THEN <<Mk("PRO")>> ELSE finalFile
                    /\ UNCHANGED <<dir, aux>>
          /\ failures' = failures + Cardinality(f)
  /\ stitched' = <<>>
  /\ UNCHANGED <<observerVars, queueVars, running, localQ, curOpen, curSize,
                 fileNumber, wrote, stitch, writerStopped, writerAlive, chunk,
                 pushed, sinceSwap, written, lost, crashes, sessionStart>>

(* Mutation: FlushThenStop calls Stop without Flush; the queue is left.   *)
BeginFlushNoDrainOnStop ==
  /\ running = NoTask
  /\ tasks # <<>>
  /\ Head(tasks).op \in {"Flush", "FlushThenStop"}
  /\ running' = Head(tasks)
  /\ tasks' = Tail(tasks)
  /\ IF Head(tasks).op = "Flush"
       THEN /\ localQ' = queue
            /\ queue' = <<>>
            /\ memory' = 0
            /\ sinceSwap' = <<>>
       ELSE UNCHANGED <<localQ, queue, memory, sinceSwap>>
  /\ UNCHANGED <<observerVars, finalOpen, curOpen, curSize, fileNumber, wrote, stitch,
                 writerStopped, writerAlive, diskVars, pushed, written, lost, stitched,
                 crashes, sessionStart>>

(* FileWriter::Flush, first step: SwapQueue empties the shared queue into  *)
(* the local queue and resets memory_.  Also the start of FlushThenStop.   *)
BeginFlush ==
  /\ running = NoTask
  /\ tasks # <<>>
  /\ Head(tasks).op \in {"Flush", "FlushThenStop"}
  /\ running' = Head(tasks)
  /\ tasks' = Tail(tasks)
  /\ localQ' = queue
  /\ queue' = <<>>
  /\ memory' = 0
  /\ sinceSwap' = <<>>
  /\ UNCHANGED <<observerVars, finalOpen, curOpen, curSize, fileNumber, wrote, stitch,
                 writerStopped, writerAlive, diskVars, pushed, written, lost, stitched,
                 crashes, sessionStart>>

(* IncrementCurrentEventFile: the next file number's event file is opened *)
(* with "wb" (current_event_file_size_ restarts at 0 in WriteEvent).      *)
IncrementCurrentEventFile(opened) ==
  [chunk EXCEPT ![FileNumberToIndex(fileNumber + 1)] = OpenForWrite(@, opened)]

(* One iteration of Flush's loop: rotate if needed                         *)
(* (IncrementCurrentEventFile), then WriteToFile(event, ",\n").            *)
WriteEvent ==
  /\ running.op \in {"Flush", "FlushThenStop"}
  /\ localQ # <<>>
  /\ LET ev == Head(localQ)
     IN IF IsBounded
        THEN LET rotate == NeedsRotate
                 fn == IF rotate THEN fileNumber + 1 ELSE fileNumber
                 idx == FileNumberToIndex(fn)
             IN \E f \in Faults(IF rotate /\ dir THEN {"chunk", "write"} ELSE {"write"}) :
                  LET opened == rotate /\ dir /\ "chunk" \notin f
                      isOpen == IF rotate THEN opened ELSE curOpen
                      files == IF rotate THEN IncrementCurrentEventFile(opened)
                                         ELSE chunk
                  IN /\ "write" \in f => isOpen
                     /\ \E w \in WriteToFile(isOpen, ev, "write" \in f) :
                          /\ curSize' = (IF rotate THEN 0 ELSE curSize) + w.bytes
                          /\ chunk' = IF isOpen
                                        THEN [files EXCEPT ![idx] = @ \o w.data]
                                        ELSE files
                          /\ wrote' = (wrote \/ w.bytes > 0)
                          /\ written' = IF w.bytes > 0 THEN Append(written, ev)
                                                       ELSE written
                     /\ fileNumber' = fn
                     /\ curOpen' = isOpen
                     /\ lost' = (IF rotate THEN 0 ELSE lost)
                                 + (IF isOpen THEN 0 ELSE ev.sz + 2)
                     /\ failures' = failures + Cardinality(f)
                     /\ UNCHANGED finalFile
        ELSE \E f \in Faults({"write"}) :
             /\ "write" \in f => finalOpen
             /\ \E w \in WriteToFile(finalOpen, ev, "write" \in f) :
                  /\ finalFile' = IF finalOpen THEN finalFile \o w.data ELSE finalFile
                  /\ wrote' = (wrote \/ w.bytes > 0)
                  /\ written' = IF w.bytes > 0 THEN Append(written, ev) ELSE written
             /\ failures' = failures + Cardinality(f)
             /\ UNCHANGED <<fileNumber, curOpen, curSize, chunk, lost>>
  /\ localQ' = Tail(localQ)
  /\ UNCHANGED <<observerVars, tasks, queueVars, running, finalOpen, stitch,
                 writerStopped, writerAlive, dir, aux, pushed, sinceSwap, stitched,
                 crashes, sessionStart>>

(* End of a Flush task: the local queue is drained. *)
EndFlush ==
  /\ running.op = "Flush"
  /\ localQ = <<>>
  /\ running' = NoTask
  /\ UNCHANGED <<observerVars, tasks, queueVars, localQ, finalOpen, curOpen,
                 curSize, fileNumber, wrote, stitch, writerStopped, writerAlive,
                 diskVars, historyVars>>

(* FileWriter::Stop after the Flush of FlushThenStop.  Bounded: write the  *)
(* epilogue to end_netlog.json, close the current event file, re-open     *)
(* (truncate) the final file and start StitchFinalLogFile's appends.       *)
(* Unbounded: RewindIfWroteEventBytes and the epilogue on the final file,  *)
(* which is then closed.                                                   *)
Stop ==
  /\ running.op = "FlushThenStop"
  /\ localQ = <<>>
  /\ LET epi == Epilogue(running.polled)
     IN IF IsBounded
        THEN \E f \in Faults({"closing", "final"}) :
               /\ "closing" \in f => dir
               /\ aux' = [aux EXCEPT !["closing"] =
                            IF dir /\ "closing" \notin f THEN epi ELSE @]
               /\ finalOpen' = ("final" \notin f)
               /\ finalFile' = OpenForWrite(finalFile, "final" \notin f)
               /\ stitch' = StitchSources(fileNumber)
               /\ running' = [running EXCEPT !.op = "Stitch"]
               /\ failures' = failures + Cardinality(f)
               /\ UNCHANGED <<writerStopped, dir, chunk>>
        ELSE /\ finalFile' = IF finalOpen THEN RewindIfWroteEventBytes(finalFile, epi)
                                             ELSE finalFile
             /\ finalOpen' = FALSE
             /\ writerStopped' = TRUE
             /\ running' = NoTask
             /\ UNCHANGED <<stitch, dir, aux, chunk, failures>>
  /\ curOpen' = FALSE
  /\ UNCHANGED <<observerVars, tasks, queueVars, localQ, curSize, fileNumber,
                 wrote, writerAlive, historyVars>>

(* One AppendToFileThenDelete of StitchFinalLogFile: a source that exists  *)
(* is copied to the final file (nothing is written if the final file is    *)
(* null) and then deleted.  Before end_netlog.json comes                   *)
(* RewindIfWroteEventBytes.                                                *)
StitchAppend ==
  /\ running.op = "Stitch"
  /\ stitch # <<>>
  /\ LET s == Head(stitch)
         data == Contents(SourceFile(s))
     IN \E f \in Faults(IF finalOpen /\ data # <<>> THEN {"write"} ELSE {}) :
        /\ \E copy \in IF f = {} THEN {data} ELSE ShortCopies(data) :
             finalFile' = CASE ~finalOpen          -> finalFile
                            [] s.name = "closing" -> RewindIfWroteEventBytes(finalFile, copy)
                            [] OTHER              -> finalFile \o copy
        /\ failures' = failures + Cardinality(f)
        /\ IF s.name = "chunk"
             THEN /\ chunk' = [chunk EXCEPT ![FileNumberToIndex(s.fn)] = NoFile]
                  /\ UNCHANGED aux
             ELSE /\ aux' = [aux EXCEPT ![s.name] = NoFile]
                  /\ UNCHANGED chunk
        /\ stitched' = stitched \o EventsOf(SourceFile(s))
  /\ stitch' = Tail(stitch)
  /\ UNCHANGED <<observerVars, tasks, queueVars, running, localQ, finalOpen,
                 curOpen, curSize, fileNumber, wrote, writerStopped, writerAlive,
                 dir, pushed, sinceSwap, written, lost, crashes, sessionStart>>

(* End of StitchFinalLogFile and Stop: the .inprogress directory is        *)
(* deleted with whatever is left in it, and the final file is closed.      *)
StitchEnd ==
  /\ running.op = "Stitch"
  /\ stitch = <<>>
  /\ dir' = FALSE
  /\ aux' = [a \in DOMAIN aux |-> NoFile]
  /\ chunk' = [i \in DOMAIN chunk |-> NoFile]
  /\ finalOpen' = FALSE
  /\ writerStopped' = TRUE
  /\ running' = NoTask
  /\ UNCHANGED <<observerVars, tasks, queueVars, localQ, curOpen, curSize,
                 fileNumber, wrote, stitch, writerAlive, finalFile, failures,
                 historyVars>>

(* Mutation: DeleteAllFiles closes and removes the directory but leaves   *)
(* final_log_path_.                                                         *)
DeleteAllFilesKeepFinal ==
  /\ NextTaskIs("DeleteAllFiles")
  /\ tasks' = Tail(tasks)
  /\ finalOpen' = FALSE
  /\ curOpen' = IF IsBounded THEN FALSE ELSE curOpen
  /\ dir' = IF IsBounded THEN FALSE ELSE dir
  /\ aux' = IF IsBounded THEN [a \in DOMAIN aux |-> NoFile] ELSE aux
  /\ chunk' = IF IsBounded THEN [i \in DOMAIN chunk |-> NoFile] ELSE chunk
  /\ UNCHANGED <<observerVars, queueVars, running, localQ, curSize, fileNumber,
                 wrote, stitch, writerStopped, writerAlive, finalFile, failures,
                 historyVars>>

(* FileWriter::DeleteAllFiles. *)
DeleteAllFiles ==
  /\ NextTaskIs("DeleteAllFiles")
  /\ tasks' = Tail(tasks)
  /\ finalOpen' = FALSE
  /\ curOpen' = IF IsBounded THEN FALSE ELSE curOpen
  /\ dir' = IF IsBounded THEN FALSE ELSE dir
  /\ aux' = IF IsBounded THEN [a \in DOMAIN aux |-> NoFile] ELSE aux
  /\ chunk' = IF IsBounded THEN [i \in DOMAIN chunk |-> NoFile] ELSE chunk
  /\ finalFile' = NoFile
  /\ UNCHANGED <<observerVars, queueVars, running, localQ, curSize, fileNumber,
                 wrote, stitch, writerStopped, writerAlive, failures, historyVars>>

(* DeleteSoon(file_writer_): ~FileWriter closes the open handles. *)
DeleteWriter ==
  /\ NextTaskIs("DeleteWriter")
  /\ tasks' = Tail(tasks)
  /\ writerAlive' = FALSE
  /\ finalOpen' = FALSE
  /\ curOpen' = FALSE
  /\ UNCHANGED <<observerVars, queueVars, running, localQ, curSize, fileNumber,
                 wrote, stitch, writerStopped, diskVars, historyVars>>

(* The process dies between two steps and a new observer is created on    *)
(* the same path.  Memory is lost: the queue, the pending tasks and the    *)
(* writer.  Files stay on disk, except what stdio still buffered: the file *)
(* open for writing events, and the final file while the stitch or the     *)
(* unbounded log writes to it (only the placeholder is fflush-ed), keep    *)
(* some prefix of what was written to them.  The history of what the      *)
(* stitch deleted is kept, to compare with what is left.                   *)
CrashRestart ==
  /\ crashes < MaxCrashes
  /\ LET idx == FileNumberToIndex(fileNumber)
     IN chunk' \in IF IsBounded /\ curOpen
                     THEN {[chunk EXCEPT ![idx] = c] : c \in Prefixes(chunk[idx])}
                     ELSE {chunk}
  /\ finalFile' \in IF finalOpen /\ (IsUnbounded \/ running.op = "Stitch")
                      THEN Prefixes(finalFile) ELSE {finalFile}
  /\ obs' = "created"
  /\ destroyedFrom' = "none"
  /\ postOwed' = FALSE
  /\ tasks' = <<Task("Initialize", FALSE)>>
  /\ queue' = <<>>
  /\ memory' = 0
  /\ running' = NoTask
  /\ localQ' = <<>>
  /\ finalOpen' = FALSE
  /\ curOpen' = FALSE
  /\ curSize' = 0
  /\ fileNumber' = 0
  /\ wrote' = FALSE
  /\ stitch' = <<>>
  /\ writerStopped' = FALSE
  /\ writerAlive' = TRUE
  /\ pushed' = <<>>
  /\ sinceSwap' = <<>>
  /\ written' = <<>>
  /\ lost' = 0
  /\ crashes' = crashes + 1
  /\ sessionStart' = nextId
  /\ UNCHANGED <<nextId, dir, aux, failures, stitched>>

(* The process has nothing left to do, or has died. *)
Terminated ==
  /\ \/ obs = "destroyed" /\ tasks = <<>> /\ running = NoTask
     \/ obs = "aborted"
  /\ UNCHANGED vars

-----------------------------------------------------------------------------
(* The producer inside OnAddEntry holds NetLog's lock until it returns. *)
Producer ==
  \/ /\ ~postOwed
     /\ \/ StartObserving
        \/ \E s \in EventSizes : OnAddEntry(s)
        \/ \E p \in BOOLEAN : StopObserving(p)
        \/ StopObservingUnregistered
        \/ Destroy
  \/ PostFlush

Runner ==
  /\ obs # "aborted"
  /\ \/ Initialize
     \/ BeginFlush
     \/ WriteEvent
     \/ EndFlush
     \/ Stop
     \/ StitchAppend
     \/ StitchEnd
     \/ DeleteAllFiles
     \/ DeleteWriter

Next == Producer \/ Runner \/ CrashRestart \/ Terminated

(* The sequenced task runner runs every posted task (BLOCK_SHUTDOWN), and *)
(* a producer inside OnAddEntry runs on to its PostTask: nothing blocks it. *)
Spec == Init /\ [][Next]_vars /\ WF_vars(Runner) /\ WF_vars(PostFlush)

-----------------------------------------------------------------------------
(* Views of the state used by the properties. *)

LineBytes(s) == FoldSeq(LAMBDA e, acc : acc + e.sz + 2, 0, s)
QueueBytes(s) == FoldSeq(LAMBDA e, acc : acc + e.sz, 0, s)

(* The shape {"constants":..,"events": [e,...,e],"polledData":..?} *)
WellFormedLog(c) ==
  /\ c # NoFile
  /\ Len(c) >= 3
  /\ c[1] = Mk("PRO")
  /\ \E p \in BOOLEAN :
       LET e == Epilogue(p)
           body == SubSeq(c, 2, Len(c) - Len(e))
       IN /\ Len(c) >= 1 + Len(e)
          /\ SubSeq(c, Len(c) - Len(e) + 1, Len(c)) = e
          /\ Len(body) % 2 = (IF body = <<>> THEN 0 ELSE 1)
          /\ \A i \in DOMAIN body :
               IF i % 2 = 1 THEN IsEv(body[i]) ELSE body[i] = SEP

NoFilesOnDisk ==
  /\ finalFile = NoFile
  /\ ~dir
  /\ \A a \in DOMAIN aux : aux[a] = NoFile
  /\ \A i \in DOMAIN chunk : chunk[i] = NoFile

-----------------------------------------------------------------------------
(* Refinement mapping onto NetLogAbstract.  The kept events are those of   *)
(* the final file (unbounded, or while the stitch copies into it), then    *)
(* those of the N newest event files by file number (bounded), then        *)
(* Flush's local queue, then the shared queue.                             *)

RingEvents ==
  LET live == {n \in 1 .. fileNumber : fileNumber - n < N}
      first == fileNumber - Cardinality(live)
  IN FlattenSeq([j \in 1 .. Cardinality(live) |->
                   EventsOf(chunk[FileNumberToIndex(first + j)])])

Pending ==
  LET stored == CASE IsUnbounded           -> EventsOf(finalFile)
                  [] running.op = "Stitch" -> EventsOf(finalFile) \o RingEvents
                  [] OTHER                 -> RingEvents
  IN stored \o localQ \o queue

AbsPhase ==
  CASE writerStopped                                   -> "done"
    [] obs = "created"                                 -> "idle"
    [] obs = "observing"                               -> "logging"
    [] obs = "stopped" \/ destroyedFrom = "stopped"     -> "stopping"
    [] OTHER                                           -> "abandoned"

ABS == INSTANCE NetLogAbstract
         WITH Events    <- [k : {"ev"}, id : 1 .. MaxEvents, sz : EventSizes],
              phase     <- AbsPhase,
              accepted  <- pushed,
              kept      <- IF writerStopped THEN <<>> ELSE Pending,
              published <- IF writerStopped THEN EventsOf(finalFile) ELSE <<>>

-----------------------------------------------------------------------------
(* Properties *)

TypeOK ==
  /\ obs \in {"created", "observing", "stopped", "destroyed", "aborted"}
  /\ destroyedFrom \in {"none", "created", "observing", "stopped"}
  /\ nextId \in 1 .. MaxEvents + 1
  /\ postOwed \in BOOLEAN
  /\ queue \in Seq([k : {"ev"}, id : 1 .. MaxEvents, sz : EventSizes])
  /\ memory \in 0 .. MemoryMax
  /\ localQ \in Seq([k : {"ev"}, id : 1 .. MaxEvents, sz : EventSizes])
  /\ {finalOpen, curOpen, wrote, writerStopped, writerAlive, dir} \subseteq BOOLEAN
  /\ fileNumber \in 0 .. MaxEvents
  /\ curSize \in Nat
  /\ failures \in 0 .. MaxFailures
  /\ DOMAIN chunk = 0 .. N - 1

(* WriteQueue::AddEntryToQueue and SwapQueue: the shared queue holds the   *)
(* newest events pushed since the last swap, in push order, memory_ is     *)
(* their size and within memory_max_, and nothing was dropped that would   *)
(* have fitted: the newest dropped event would overflow the cap.           *)
QueueKeepsNewest ==
  /\ IsSuffix(queue, sinceSwap)
  /\ memory = QueueBytes(queue)
  /\ memory <= MemoryMax
  /\ Len(queue) < Len(sinceSwap) =>
       memory + sinceSwap[Len(sinceSwap) - Len(queue)].sz > MemoryMax

(* Once FileWriter::Stop has run, the final log file is a single JSON      *)
(* object with an events array that does not end with a comma: the        *)
(* rewind of RewindIfWroteEventBytes lands exactly on the last ",\n".      *)
FinalLogWellFormed == writerStopped => WellFormedLog(finalFile)

(* Bounded mode: the stitched log keeps the newest events that were       *)
(* written to chunk files, contiguously and oldest first, and at least     *)
(* N-1 full chunks of them (StitchFinalLogFile's window over the ring).    *)
RetainsNewest ==
  (writerStopped /\ IsBounded /\ written # <<>>) =>
    LET evs == EventsOf(finalFile)
    IN /\ evs # <<>>
       /\ IsSuffix(evs, written)
       /\ LineBytes(evs) >= Min({LineBytes(written), (N - 1) * MaxEventFileSize})

(* Unbounded mode: every event accepted by OnAddEntry before               *)
(* StopObserving is in the final log, once each, in push order.            *)
UnboundedKeepsAll ==
  (writerStopped /\ IsUnbounded) => EventsOf(finalFile) = pushed

(* The events of the final log appear in the order they were pushed        *)
(* (spec: per-producer FIFO in the output).                                *)
EventsInPushOrder ==
  LET evs == EventsOf(finalFile)
  IN writerStopped =>
       \A i, j \in DOMAIN evs : i < j => evs[i].id < evs[j].id

(* Spec 4.1: the edge-triggered post in OnAddEntry leaves at most one      *)
(* Flush task pending between drains.                                      *)
AtMostOneFlushPending ==
  Cardinality({i \in DOMAIN tasks : tasks[i] = FlushTask}) <= 1

(* Spec 4.3.5: a stopped bounded log whose directory could not be created  *)
(* still contains the placeholder text; it is never left empty.            *)
StoppedLogNotEmpty == writerStopped => finalFile \notin {NoFile, <<>>}

(* Spec 8: in bounded mode every event file is at most one event line past *)
(* max_event_file_size_: all lines of a chunk but its last start below the *)
(* limit (the soft limit of Flush's rotation and the truncating open).     *)
ChunkWithinSoftLimit ==
  \A i \in DOMAIN chunk :
    LET evs == EventsOf(chunk[i])
    IN Len(evs) > 1 => LineBytes(Front(evs)) < MaxEventFileSize

(* Spec 4.1: the queue cap is 2 x max_total_size, so an event is dropped  *)
(* only when keeping it would take the queue past twice the total budget. *)
QueueHoldsTwiceTotal ==
  Len(queue) < Len(sinceSwap) =>
    memory + sinceSwap[Len(sinceSwap) - Len(queue)].sz > 2 * MaxTotalSize

(* Spec 4.3.5: a failed chunk open loses the events of "that interval"   *)
(* only: while the directory exists, the lines lost since the last       *)
(* rotation never exceed what one chunk file would have held.             *)
LossEndsAtRotation ==
  dir => lost < MaxEventFileSize + Max(EventSizes) + 2

(* StitchFinalLogFile deletes each source right after appending it to    *)
(* the final file: every event of a deleted source must be in the final   *)
(* file, also after the process died (until a new observer truncates it). *)
StitchKeepsRemovedEvents ==
  \A i \in DOMAIN stitched : stitched[i] \in Range(EventsOf(finalFile))

(* A log assembled after a crash holds only events of the new process: no *)
(* event file left in the .inprogress directory by the crashed process is *)
(* stitched in (the window starts at file number 1 of this process).      *)
NoStaleSessionEvents ==
  writerStopped =>
    \A i \in DOMAIN EventsOf(finalFile) : EventsOf(finalFile)[i].id >= sessionStart

(* CreateBoundedInternal, line 332: with max_total_size < N the per-file  *)
(* limit is 0 and Flush rotates before every event, so each event has a   *)
(* file of its own.  The stitched log then holds exactly the last N events *)
(* this process wrote, also when a crashed process left other event files  *)
(* in the ring and StopObserving is misused.                               *)
ZeroLimitKeepsLastN ==
  (writerStopped /\ IsBounded /\ MaxEventFileSize = 0) =>
    EventsOf(finalFile) =
      SubSeq(written, Max({1, Len(written) - N + 1}), Len(written))

(* Comment at lines 334-345 of CreateBoundedInternal: the queue cap is    *)
(* twice max_total_size so that, while every event fits in one event file, *)
(* the queue holds enough events to fill all files.  The events the queue  *)
(* drops are then also out of the ring by Stop: the stitched log is a      *)
(* run of consecutive OnAddEntry calls, with no gap where the queue        *)
(* overflowed between two Flushes.                                         *)
StitchedLogHasNoGap ==
  LET evs == EventsOf(finalFile)
  IN (writerStopped /\ IsBounded) =>
       \A i \in 1 .. Len(evs) - 1 : evs[i + 1].id = evs[i].id + 1

(* The observer implements NetLogAbstract: the published log is exactly   *)
(* what was still kept at FileWriter::Stop, an ordered selection of the    *)
(* accepted events, and a stop request is eventually answered.             *)
ImplementsAbstract == ABS!Spec

(* StopObserving is followed by FileWriter::Stop completing. *)
StopCompletes == (obs = "stopped") ~> writerStopped

(* An observer destroyed while observing deletes every file it created     *)
(* (the destructor's DeleteAllFiles).                                      *)
AbandonedLogDeleted == (destroyedFrom = "observing") ~> NoFilesOnDisk

(* Comment at lines 405-408 of OnAddEntry: pushes come one at a time, so *)
(* a queue at or past kNumWriteQueueEvents already has a Flush posted.     *)
(* Whenever the shared queue holds that many events it is eventually       *)
(* drained below it, whether or not the producers go on logging, stop or   *)
(* destroy the observer, and also when the cap drops events on each push.  *)
FlushDrainsQueue == (Len(queue) >= FlushThreshold) ~> (Len(queue) < FlushThreshold)

=============================================================================
