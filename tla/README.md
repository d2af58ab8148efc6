# TLA+ models of the file NetLog observer

This directory holds TLA+ models of `src/log/file_net_log_observer.cc`, checked with TLC. That file is the only
part of the repository with behaviour to model. It is the event-log observer that `spec.md` describes. The other
files under `src/` are unit tests, static data, or headers whose implementations are not in the repository (see
"Not modelled" below).

## Inventory

### Components and their state

| Component | State (source) | Operations |
|---|---|---|
| Observer front-end `FileNetLogObserver` | registration with the NetLog (`net_log()`), `file_task_runner_`, `write_queue_`, `file_writer_` | `CreateBoundedInternal` (constructor posts `Initialize`), `StartObserving`, `OnAddEntry`, `StopObserving`, `~FileNetLogObserver` |
| `WriteQueue` (shared, locked) | `queue_` (FIFO of encoded events), `memory_`, `memory_max_ = max_total_size*2` (size_t, wraps) | `AddEntryToQueue` (push, then drop the oldest while `memory_ > memory_max_`), `SwapQueue` |
| `FileWriter` (file task runner only) | `final_log_file_`, `current_event_file_`, `current_event_file_size_`, `current_event_file_number_`, `wrote_event_bytes_`, `total_num_event_files_` (N), `max_event_file_size_` | `Initialize`, `Flush`, `Stop`, `FlushThenStop`, `DeleteAllFiles`, `StitchFinalLogFile` (with `AppendToFileThenDelete`), `IncrementCurrentEventFile`, `RewindIfWroteEventBytes` |
| File task runner | FIFO of posted tasks, one at a time, `BLOCK_SHUTDOWN` | `PostTask`, `PostTaskAndReply`, `DeleteSoon` |
| Disk | final log file; `<final>.inprogress/` holding `constants.json`, `event_file_<i>.json` for i < N, `end_netlog.json` | open with truncation, append, 2-byte seek back, delete |

### How they interact

Producers call `OnAddEntry` under the NetLog's lock. The call pushes into the `WriteQueue`. When the length after the
push equals `kNumWriteQueueEvents` (15), it posts a `Flush` task. The file task runner runs the posted tasks in
order. `Flush` swaps the shared queue out under the lock, then writes one event line `<event>,\n` at a time. In
bounded mode it writes to a ring of N chunk files and rotates lazily when the current chunk reached
`max_event_file_size_` (a soft limit). In unbounded mode it writes straight to the final file.

`StopObserving` unsubscribes, then posts `FlushThenStop`. In bounded mode, `Stop` writes `end_netlog.json` and then
stitches the final file: constants, the live chunk window oldest first, a 2-byte rewind over the last `,\n`, then
the closing file. In unbounded mode it rewinds and appends the epilogue. The destructor posts `DeleteAllFiles`
only while still observing, and always posts the writer's deletion.

### What is hard

- The interleaving of producer pushes with the runner's swap.
- The drop policy at the memory cap, and the edge-triggered flush post.
- The order of tasks on the runner: `Flush`, then `FlushThenStop`, then deletion.
- File-number/index arithmetic and the stitch window once the ring wraps.
- The 2-byte rewind, which depends on one session-wide flag.
- Failed opens: the final file, the directory, the constants file, a chunk, the closing file. Each leaves a null
  handle and the protocol continues.
- Short writes: `fwrite` may write part of a line. `WriteToFile` returns the count, but no caller acts on it.
- Lifecycle misuse: destroying an observer that was never started, or stopping twice.
- A crash of the process, and a new observer on the same path that finds the old `.inprogress` directory.
- size_t arithmetic (`max_total_size * 2`, and `max_total_size / N` being 0).

### What makes each component correct

- WriteQueue: the queue holds the newest events pushed since the last swap, and `memory_` is their size and stays
  within the cap. The queue drops only what it must, and oldest first.
- FileWriter: once `Stop` has run, the final file is one JSON object whose events array has no trailing comma. In
  unbounded mode it holds every accepted event in order. In bounded mode it holds a contiguous newest run of the
  written events, at least N-1 full chunks of them.
- Observer and runner: after `StopObserving` the writer eventually stops. A queue that reaches the Flush threshold
  is eventually drained, also while logging goes on. An observer destroyed without stopping deletes its files.

## Modules

`FileNetLogObserver.tla` is one module for the whole observer. The components share the task FIFO and the queue,
and every task of the writer runs on one runner, so one module keeps the interaction visible.

- **Variables.**
  - `obs` is the observer's lifecycle (`net_log()` set ⇔ `obs = "observing"`).
  - `postOwed`: a producer inside `OnAddEntry` has pushed and still has to post the Flush.
  - `tasks` is the runner's FIFO.
  - `queue` and `memory` are the `WriteQueue`.
  - `running` and `localQ` are the task being run and `Flush`'s `local_file_queue`.
  - `finalOpen`, `curOpen`, `curSize`, `fileNumber` and `wrote` are the `FileWriter` members.
  - `finalFile`, `dir`, `aux` and `chunk` are the disk.
  - `failures` counts failed opens.
  - History variables: `pushed`, `sinceSwap` and `written` (accepted, pushed since the last swap, written with
    bytes > 0), `lost` (line bytes lost to a null handle since the last rotation), `crashes` and `sessionStart`
    (the id of the first event of the current process), and `stitched` (the events the stitch removed from the
    directory).
  - `stitch` is the list of source files `StitchFinalLogFile` still has to append and delete.
- **Files as tokens.** A file is a sequence of tokens: an event, `SEP` (the two bytes `,\n`), `PRO` (the prologue
  ending in `[\n`), `PH` (the placeholder), and `CLOSE`/`POLLED`/`END` (the epilogue). After a short write, `PART`
  is a strict prefix of an event and `COMMA` a lone `,`. `Rewind` models `fseek(-2, SEEK_END)` followed by a write.
  It removes the last two bytes, counted with `TokenBytes`: a trailing `SEP` goes, a lone `COMMA` takes the last
  byte of the event before it (which becomes `CUT`), and losing only the newline of the prologue's `[\n` is harmless.
- **Actions.**
  - Producer side: `StartObserving`, `OnAddEntry(size)` and `PostFlush`, `StopObserving(polled)`, `Destroy`, and
    `StopObservingUnregistered` (a call while `net_log()` is null, allowed when `StopMisuse` is TRUE; the model
    takes the outcome of the null dereference to be the death of the process).
  - Runner side: `Initialize`, `BeginFlush` (`SwapQueue`), `WriteEvent` (one loop iteration, including
    `IncrementCurrentEventFile`), `EndFlush`, `Stop`, `DeleteAllFiles`, `DeleteWriter`.
  - The bounded stitch is three actions. `Stop` writes `end_netlog.json`, re-opens the final file and computes the
    source list (constants, the live window of event files, closing). `StitchAppend` is one
    `AppendToFileThenDelete`: it copies one source into the final file (rewinding before the closing file) and
    deletes the source. `StitchEnd` deletes the directory and closes the final file. A crash can land between any
    two of them.
  - `CrashRestart` (at most `MaxCrashes` times): the process dies between two steps and a new observer is created
    on the same path. Memory is lost. Files stay on disk, except that the file open for event writes keeps only
    some prefix of what was written to it, because stdio had not flushed it (only the placeholder is `fflush`-ed).
    This applies to the current event file, and to the final file in unbounded mode or while the stitch appends.
    `Initialize` of the new process then finds the old directory: creating it succeeds and keeps its files, and a
    failed open leaves the old file in place. If the final file cannot be opened, the directory is not created,
    but `constants.json` is still opened and succeeds in a directory left by the dead process.
  - `Terminated` is the stuttering step once everything is done, or after the process died.
- **Atomicity.** `OnAddEntry` is two steps. NetLog's lock, held for the whole call, serialises it with other
  producers and with `Deprecated{Add,Remove}Observer`, so no other producer action runs between them (`postOwed`
  is that lock). The push (`AddEntryToQueue`, under the queue's lock) is the first step. `PostFlush`, the
  `PostTask` after the queue's lock is released, is the second. The file task runner can swap the queue between
  them. Each loop iteration of `Flush` is its
  own step. The other tasks are single steps, because nothing else touches the writer's state.
- **Failed opens.** An open may fail when its kind is in `Fallible`, within `MaxFailures`. A failed open leaves the
  file unchanged and does not truncate it.

- **Helpers named after the code.**
  - `OpenForWrite` is `OpenFileForWrite` ("wb": truncate on success, leave the file on failure).
  - `WriteToFile` gives the possible outcomes of the two `fwrite`s as `LinePrefix(k, ev)`: the first k bytes of
    the line, and k. It is the whole line, nothing on a null handle, or any shorter prefix on a write error (the
    fault kind `"write"` in `Fallible`).
  - `ShortCopies` is `AppendToFileThenDelete`'s copy loop cut short by a write error.
  - `NeedsRotate` is Flush's rotation test.

`NetLogAbstract.tla` is what the observer promises its user, without queues, files or tasks:

- `accepted` holds the events handed to `OnAddEntry` while logging.
- `kept` is an ordered selection of them that the observer may still publish.
- `Forget` (and `Accept`) may drop any kept events. That covers the queue's overflow drop, the ring of event files,
  failed writes, and the deletion of an abandoned log.
- `Publish` answers a stop request with exactly the kept events, under weak fairness.

`FileNetLogObserver.tla` instantiates it as `ABS` with a refinement mapping:

- `kept` is the events of the N newest event files by file number (bounded mode) or of the final file
  (unbounded mode), then Flush's local queue, then the shared queue.
- `published` is the final file's events once `Stop` has run.
- The phase comes from `obs`, `destroyedFrom` and `writerStopped`.

`ImplementsAbstract == ABS!Spec` is checked as a PROPERTY. It says three things at once:

- each step keeps the selection in acceptance order without inventing or duplicating events;
- the stitch publishes exactly the ring it kept;
- every stop request is eventually answered.

`MCFileNetLogObserver.tla` fixes the width of size_t at 8 bits (`kNoLimit = 255`). The `.cfg` files give the other
constants.

## Runs

| Run | Bounds | Checks | Shows |
|---|---|---|---|
| `bounded` | N=2, max_total_size=10 (chunk 5 B, cap 20 B), events of 1 or 6 B, 6 events, threshold 2, no faults | `TypeOK`, `QueueKeepsNewest`, `RetainsNewest`, `StitchedLogHasNoGap`, `AbandonedLogDeleted`, `ImplementsAbstract`, `FlushDrainsQueue` | the queue drops oldest-first and minimally; the stitch keeps the newest chunks in order, with no gap where the queue overflowed (the sizing argument of the comment at lines 334-345: the 2x cap pushes the older events out of the ring); Stop completes (part of the refinement); an abandoned log is deleted; the observer refines `NetLogAbstract`; a queue at the threshold is drained even if the producer never stops (the edge-triggered post is never missed, also at the cap) |
| `bounded_chunkfail` | N=3, max_total_size=18 (chunk 6 B), events of 1 or 4 B, 6 events, up to 2 failed chunk opens | `FinalLogWellFormed`, `ChunkWithinSoftLimit` | the stitched log stays well formed when chunk opens fail; every event file is within one line of the limit, also when lines fill a chunk exactly (spec 8) |
| `unbounded` | max_total_size = kNoLimit, events of 1 or 2 B, 4 events, threshold 2 | `FinalLogWellFormed`, `UnboundedKeepsAll`, `ImplementsAbstract` | the streamed log is well formed and holds every event once, in order; the observer refines `NetLogAbstract` |
| `crash_restart` | N=2, max_total_size=1 (chunk limit 0, cap 2 B), 1-B events, 4 events, one crash, StopObserving misuse allowed | `ZeroLimitKeepsLastN`, `NoStaleSessionEvents` | with a zero limit every event rotates, and the stitched log is exactly the last N events this process wrote, whatever stale event files a crashed process left in the ring; a log assembled after a crash holds no event of the dead process |
| `flush_repost` (violation) | cap 2 B, 1-B events, threshold 2 | `AtMostOneFlushPending` | at the cap, each dropping push re-posts Flush (spec 4.1 says at most one) |
| `stale_chunk` (violation) | N=2, chunk 5 B, one failed chunk open | `EventsInPushOrder` | a failed re-open of a wrapped index stitches an older chunk in as the newest (the same configuration also breaks `ImplementsAbstract`: the published log is not a selection of the accepted events in order) |
| `dir_failure` (violation) | directory creation may fail | `StoppedLogNotEmpty` | the final file is left empty, not holding the placeholder (spec 4.3.5) |
| `short_write` (violation) | unbounded, 2-B events, 2 events, one short write | `FinalLogWellFormed` | an event written with its `,` but not its `\n` stays in the file; the rewind at Stop then overwrites the event's last byte, and the log ends `[{..]}` (spec 1: always valid JSON; spec 7: a failed write is lost) |
| `size_wrap` (violation) | 8-bit size_t, max_total_size=130 (cap 260 mod 256 = 4 B), 3-B events | `QueueHoldsTwiceTotal` | `max_total_size * 2` wraps, and the queue drops events far below twice the budget (comment at lines 334-342, spec 4.1) |
| `lost_chunk` (violation) | N=2, chunk 4 B, 1-B events, one failed chunk open | `LossEndsAtRotation` | after a failed open the size counter stays 0, no rotation follows, and every later event is lost (spec 4.3.5 speaks of "that interval") |
| `stitch_loss` (violation) | one failed open of the final file, one crash, 1-B events, 2 events | `StitchKeepsRemovedEvents` | `AppendToFileThenDelete` deletes its source without checking that the copy reached the disk: a failed re-open of the final file, or a crash after copying (the final file still in stdio's buffer), loses events that were already taken out of the directory. With `Fallible = {"write"}` TLC finds a third route: a copy cut short by a write error |
| `stop_twice` (violation) | StopObserving misuse allowed, one event | `StopCompletes` | a second StopObserving before the first FlushThenStop ran kills the process and the log is never finished (spec 8: a second stop is a no-op) |

The bounds let the interesting cases happen:

- With 6-byte events (8-byte lines) and 5-byte chunks, every such event rotates, so 6 events wrap the 2-chunk ring
  more than twice.
- 1-byte events (3-byte lines) share a chunk, so the soft limit is exercised.
- A 20-byte cap is reached exactly (6+6+6+1+1), and a single push can drop two events (1,6,6,6 then 6).
- The threshold of 2 stands in for 15, so Flush tasks are posted during logging, and after the first swap four
  more events (up to 24 bytes) can be pushed before the next Flush runs: the 20-byte cap overflows after earlier
  events were written (with 5 events or a threshold of 3 it never does, and `StitchedLogHasNoGap` would hold
  vacuously).
- In `bounded_chunkfail`, two 3-byte lines fill a 6-byte chunk exactly, so the `>=` of the rotation test matters.
  Six 4-byte events (6-byte lines) use six file numbers, so the 3-file ring wraps twice and the stitch window
  starts at file number 4.
- In `crash_restart`, 4 one-byte events with a zero limit use 4 file numbers, so the ring wraps in the first
  process. The crash may come after any step, so the second process can start with any set of stale files.
- In `bounded`, a 6-byte event is larger than a 5-byte chunk, and `StitchedLogHasNoGap` still holds: the 20-byte
  cap keeps at least three events after a drop, which span two new event files. With a 10-byte cap TLC finds
  events 1 and 2 written, event 3 dropped between two Flushes and event 4 stitched after them. With an event larger than the
  whole cap (max_total_size=4, a 9-byte event) the queue drops the event itself and TLC finds a gap. The TODO at
  lines 343-345 admits this case, so it is recorded here and gets no run.
- `size_wrap` uses 8-bit size_t, where 130 × 2 wraps. This is the same arithmetic as a 64-bit `max_total_size`
  above 2^63.

Every property of a passing run has a mutant under the same configuration: a plausible bug in the mapped code that
TLC finds. The mutants are listed in `PROJECT.json`:

- `if` instead of `while` in the drop loop;
- `>=` instead of `>` in the drop loop;
- a stitch window one chunk short;
- the queue cap `max_total_size` instead of twice it;
- `DeleteAllFiles` keeping the final file;
- a rewind without the `wrote_event_bytes_` test;
- `FlushThenStop` without the `Flush`;
- `>` instead of `>=` in the rotation test;
- every event file of the ring stitched, instead of the live window;
- `FlushThenStop` draining nothing when the queue is swapped at stop;
- the Flush posted one event past the threshold.

## Fairness

`Spec` has weak fairness on the runner's actions. The task runner is created with `BLOCK_SHUTDOWN`, and every
posted task runs. `PostFlush` has weak fairness too: a producer that has pushed runs straight on to its
`PostTask`, with nothing to wait for. Producers get no fairness, because nothing obliges a caller to log, stop or destroy. Crashes get no fairness
either. `NetLogAbstract` assumes weak fairness of `Publish` only. The refinement check shows that the runner's
fairness delivers it.

## Not modelled, and why

- The JSON encoder (external). Encode failure leaves the state unchanged.
- The contents of constants and polled data: they are abstracted to tokens.
- The reply callback of `PostTaskAndReply`.
- The NetLog's observer list.
- A crash inside `Initialize`, a `Flush` iteration or `DeleteAllFiles`. Each is one step. A crash is reached
  between any two of them and between the stitch's steps, which is where a partial copy matters.
- Short writes of the prologue, the placeholder and the epilogue. Only event lines and the stitch's copy can be
  cut short in the model. A copy is cut to a prefix: a later chunk of the loop succeeding after a failed one is
  not modelled.
- A failed open of `end_netlog.json` or `constants.json`: TLC finds that the stitched log then lacks its epilogue
  or prologue and is not valid JSON (`FinalLogWellFormed` with `Fallible = {"constants", "closing"}`). This is
  the same outcome as `short_write`, so it has no run of its own.
- A never-started observer leaves its files: the destructor deletes them only while `net_log()` is set, although
  spec 4.1 says destruction without stop deletes them. It is reached in two steps (Initialize, destruction) and
  a unit test shows it, so no run is given to it.
- The files other than `file_net_log_observer.cc`: `quic_session.h`, `simple_data_producer.h`,
  `nist_pkits_unittest.h`, gdig's `file_net_log.h`, and `src/unnamed/*`. They are tests, CT-log data, or
  declarations whose implementations are absent.

## Plan

1. Done: the core observer/queue/writer module; the bounded, bounded-with-chunk-faults and unbounded runs; the
   violation runs for divergences met while modelling.
2. Done in the second sitting:
   - numeric edges (`size_wrap`, and the zero chunk limit in `crash_restart`);
   - the soft-limit bound of spec 8;
   - the failed chunk open that never rotates again;
   - the final-file failure at stitch time;
   - crash and restart with stale directories;
   - `StopObserving` misuse;
   - `NetLogAbstract` and the refinement.
3. Also done in the second sitting: the crash inside the stitch. `StitchFinalLogFile` is one step per
   `AppendToFileThenDelete`, and `stitch_loss` shows that the events it removed may not reach the final file.
4. Liveness during logging: done in the third sitting with `FlushDrainsQueue` (below). When the cap holds fewer
   events than the threshold, the premise never holds: no Flush is posted while logging, and events reach disk only
   at Stop. That follows from the code and the spec's threshold rule, so it is a design point, not a property.
5. Done in the third sitting: short writes of event lines (`short_write`) and of the stitch's copy (a third
   route to `stitch_loss`), the byte-exact rewind, and `FlushDrainsQueue` (item 4: a queue at the threshold is
   drained during logging).
6. Done in the third sitting: `bounded_chunkfail` runs a 3-file ring that wraps twice.
7. Done in the fourth sitting: `StitchedLogHasNoGap` (the queue-cap sizing argument, with bounds that reach an
   overflow after writes); `ZeroLimitKeepsLastN` for the zero chunk limit; `OnAddEntry` split into the
   push and the post, with the runner able to swap in between.
