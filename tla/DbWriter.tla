------------------------------- MODULE DbWriter -------------------------------
(***************************************************************************)
(* workers/db_writer.py between Kafka and PostgreSQL: events are consumed  *)
(* into a buffer, the buffer is written in one transaction, and the        *)
(* consumer commits its offsets on its own (enable_auto_commit).  An event *)
(* is known by its offset; the events of the run topic upsert the run's    *)
(* row, all others insert a row each.                                      *)
(***************************************************************************)
EXTENDS Integers, Sequences

CONSTANTS
    BatchMax,       \* BATCH_MAX
    MaxEvents,      \* bound: events published in one behaviour
    MaxWrites,      \* bound: writes and deliveries of one event are counted to
                    \* here
    DbFails,        \* a flush may raise
    LostReplies,    \* a flush that raised may have been committed
    Crashes,        \* the process may die at any moment
    Interrupts      \* the process may be asked to stop

ASSUME BatchAssumption == BatchMax \in Nat \ {0} /\ MaxEvents \in Nat
ASSUME WritesAssumption == MaxWrites \in Nat /\ MaxWrites >= 2
ASSUME FaultAssumption ==
    {DbFails, LostReplies, Crashes, Interrupts} \subseteq BOOLEAN

VARIABLES
    log,         \* the events published, by offset: "run" or "row"
    committed,   \* the offset committed for the group db-writer
    position,    \* the offset consumed
    buffer,      \* the buffered offsets
    written,     \* how often each event was written
    runRow,      \* the offset of the event the run's row shows, 0 for none
    pc,          \* "down", "poll", "flush" or "stopping"
    delivered,   \* how often each event was consumed   (read by
    lost         \* the events no process will see again  properties only)

process == <<position, buffer, pc>>
history == <<delivered, lost>>
vars == <<log, committed, process, written, runRow, history>>

Offsets == 1 .. MaxEvents
Kinds == {"run", "row"}
Buffered == {buffer[i] : i \in DOMAIN buffer}

Init ==
    /\ log = <<>> /\ committed = 0 /\ position = 0 /\ buffer = <<>>
    /\ written = [e \in Offsets |-> 0] /\ runRow = 0
    /\ pc = "down"
    /\ delivered = [e \in Offsets |-> 0] /\ lost = {}

\* A sink publishes an event.
Publish ==
    /\ Len(log) < MaxEvents
    /\ \E kind \in Kinds : log' = Append(log, kind)
    /\ UNCHANGED <<committed, process, written, runRow, history>>

\* auto_offset_reset is "earliest": a group without offsets starts at the first.
Boot ==
    /\ pc = "down"
    /\ position' = committed /\ buffer' = <<>>
    /\ pc' = "poll"
    /\ UNCHANGED <<log, committed, written, runRow, history>>

\* Mutant: the batch is flushed one event late.
BatchFullLate(b) == Len(b) > BatchMax
BatchFull(b) == Len(b) >= BatchMax

\* Counts are kept up to MaxWrites.
More(count, es) ==
    [e \in Offsets |-> IF e \in es /\ count[e] < MaxWrites
                        THEN count[e] + 1 ELSE count[e]]

\* An event arrives; only then is it looked at whether the linger has passed.
Poll ==
    /\ pc = "poll"
    /\ position < Len(log)
    /\ position' = position + 1
    /\ buffer' = Append(buffer, position + 1)
    /\ delivered' = More(delivered, {position + 1})
    /\ \/ pc' = "flush"
       \/ ~BatchFull(buffer') /\ pc' = "poll"
    /\ UNCHANGED <<log, committed, written, runRow, lost>>

\* Mutant: the run's row takes the first of its events.
LatestRunFirst(es, old) ==
    LET runs == {e \in es : log[e] = "run"} IN
    IF runs = {} THEN old ELSE CHOOSE e \in runs : \A f \in runs : e <= f
\* The upserts of a batch, in the order of its events.
LatestRun(es, old) ==
    LET runs == {e \in es : log[e] = "run"} IN
    IF runs = {} THEN old ELSE CHOOSE e \in runs : \A f \in runs : f <= e

\* The transaction of _flush.
Write ==
    /\ written' = More(written, Buffered)
    /\ runRow' = LatestRun(Buffered, runRow)

\* Mutant: the buffer is not cleared after the flush.
ClearBufferNot == buffer' = buffer
ClearBuffer == buffer' = <<>>

FlushSucceeds ==
    /\ pc = "flush"
    /\ Write
    /\ ClearBuffer
    /\ pc' = "poll"
    /\ UNCHANGED <<log, committed, position, history>>

\* A flush is left: its transaction is rolled back, or the COMMIT was done and
\* nobody heard of it.
AbandonWrite == UNCHANGED <<written, runRow>> \/ Write

\* The exception leaves the loop for the finally block.
FlushRaises ==
    /\ pc = "flush"
    /\ DbFails
    /\ \/ UNCHANGED <<written, runRow>>
       \/ LostReplies /\ Write
    /\ pc' = "stopping"
    /\ UNCHANGED <<log, committed, position, buffer, history>>

\* KeyboardInterrupt cancels the task at its await: at the consumer's, or
\* anywhere in a flush, whose buffer is then not cleared.
Interrupt ==
    /\ Interrupts
    /\ \/ pc = "poll" /\ UNCHANGED <<written, runRow>>
       \/ pc = "flush" /\ AbandonWrite
    /\ pc' = "stopping"
    /\ UNCHANGED <<log, committed, position, buffer, history>>

\* The process is gone, and with it the buffer: what it had committed of that
\* no process will read again, the next one starts at the committed offset.
EndProcess ==
    /\ pc' = "down"
    /\ position' = committed /\ buffer' = <<>>
    /\ lost' = lost \cup {e \in Buffered : e <= committed}
    /\ UNCHANGED <<log, committed, delivered>>

\* The finally block awaits the metrics task it has cancelled; CancelledError is
\* no Exception, so it leaves the block there: the buffer is not flushed and the
\* consumer not stopped, which would commit.
Stop ==
    /\ pc = "stopping"
    /\ EndProcess
    /\ UNCHANGED <<written, runRow>>

\* The consumer commits what it has handed out, flushed or not.
AutoCommit ==
    /\ pc # "down"
    /\ committed' = position
    /\ UNCHANGED <<log, process, written, runRow, history>>

\* The process is killed.
Crash ==
    /\ Crashes
    /\ \/ pc \in {"poll", "stopping"} /\ UNCHANGED <<written, runRow>>
       \/ pc = "flush" /\ AbandonWrite
    /\ EndProcess

Next ==
    \/ Publish \/ Boot \/ Poll
    \/ FlushSucceeds \/ FlushRaises \/ Interrupt \/ Stop
    \/ AutoCommit \/ Crash

Spec == Init /\ [][Next]_vars

--------------------------------------------------------------------------------
(* Properties                                                              *)

TypeOK ==
    /\ log \in Seq(Kinds) /\ Len(log) <= MaxEvents
    /\ committed \in 0 .. position
    /\ position \in 0 .. Len(log)
    /\ buffer \in Seq(Offsets)
    /\ written \in [Offsets -> 0 .. MaxWrites]
    /\ runRow \in 0 .. Len(log)
    /\ pc \in {"down", "poll", "flush", "stopping"}
    /\ delivered \in [Offsets -> 0 .. MaxWrites]
    /\ lost \subseteq Offsets

\* The events consumed that are no longer in the buffer are 1 .. Flushed.
Flushed == position - Len(buffer)

\* The buffer is the end of what was consumed, in order; it never grows beyond
\* a batch.
BufferIsTail ==
    /\ Len(buffer) <= BatchMax
    /\ Len(buffer) <= position
    /\ \A i \in 1 .. Len(buffer) : buffer[i] = position - Len(buffer) + i

\* Whatever stops, kills, failing flushes and lost replies there are, and at
\* whatever moment the offsets are committed: everything that was consumed and
\* has left the buffer is written, but for the events a process took down with
\* it after their offset was committed; and an event is written at most once for
\* every time it is delivered, and not while it is buffered.
OncePerDelivery ==
    \A e \in Offsets :
        /\ e <= Flushed /\ e \notin lost => written[e] > 0
        /\ written[e] <= delivered[e]
        /\ e \in Buffered /\ pc # "stopping" /\ delivered[e] < MaxWrites
              => written[e] < delivered[e]

\* The run's row is never older than the latest run event flushed ("so a run row
\* reflects the latest status", repositories.py:153), lost events aside.  What is
\* delivered again counts as not flushed: the row goes back with the position.
RunRowIsLatest ==
    \A e \in 1 .. Flushed : log[e] = "run" /\ e \notin lost => e <= runRow
================================================================================
