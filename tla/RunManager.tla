------------------------------ MODULE RunManager ------------------------------
(***************************************************************************)
(* From the control API to the engines: api/control/router.py publishes    *)
(* commands, workers/trading_worker.py takes them off the topic one at a   *)
(* time and services/run_manager.py keeps one asyncio task per run.  The   *)
(* worker's consumer commits its offsets on its own.  What an engine does  *)
(* between its RunEvents is TradingLoop's concern; RunEvents arrive (the   *)
(* sink drops an event that Kafka refuses, which is left out).             *)
(***************************************************************************)
EXTENDS Integers, Sequences

CONSTANTS
    Runs,            \* the run ids the API may hand out
    MaxCommands,     \* bound: commands published in one behaviour
    MaxDisruptions,  \* bound: crashes, interrupts and rebalances, together
    BuildMayFail,    \* build_engine may raise
    EngineMayFail,   \* an engine may raise
    Rebalances       \* the consumer may be taken back to the committed offset

ASSUME BoundsAssumption == MaxCommands \in Nat /\ MaxDisruptions \in Nat
ASSUME FlagAssumption == {BuildMayFail, EngineMayFail, Rebalances} \subseteq BOOLEAN

VARIABLES
    control,      \* the control topic
    read,         \* how many commands the worker's consumer has handed out
    committed,    \* the committed offset, NoOffset before the first commit
    worker,       \* "down", "ready", "building" or "shutdown"
    building,     \* the run being built, NoRun otherwise
    status,       \* RunHandle.status by run, "none" without a handle
    task,         \* how far the run's task is, "none" without a task
    cancelled,    \* the runs whose task has a cancellation to deliver
    lastEvent,    \* the status of the run's latest RunEvent, "none" before
    disruptions

vars == <<control, read, committed, worker, building, status, task, cancelled,
          lastEvent, disruptions>>
engineVars == <<status, task, cancelled, lastEvent>>
topicVars == <<control, read, committed, disruptions>>

NoRun == "no run"
NoOffset == -1
Commands == [action : {"start", "stop"}, run : Runs]
Statuses == {"running", "finished", "stopped", "failed"}

TaskStates == {"none", "created", "streaming", "returning", "raising", "reporting",
               "done"}

Live(r) == task[r] \notin {"none", "done"}
Sent(a, r) == \E i \in DOMAIN control : control[i] = [action |-> a, run |-> r]

Init ==
    /\ control = <<>> /\ read = 0 /\ committed = NoOffset
    /\ worker = "down" /\ building = NoRun
    /\ status = [r \in Runs |-> "none"] /\ task = [r \in Runs |-> "none"]
    /\ cancelled = {}
    /\ lastEvent = [r \in Runs |-> "none"]
    /\ disruptions = 0

--------------------------------------------------------------------------------
(* The control API                                                         *)

\* Every start gets a run id of its own, which its caller may then stop.
SendCommand ==
    /\ Len(control) < MaxCommands
    /\ \E a \in {"start", "stop"}, r \in Runs :
          /\ (a = "start") <=> ~Sent("start", r)
          /\ control' = Append(control, [action |-> a, run |-> r])
    /\ UNCHANGED <<read, committed, worker, building, engineVars, disruptions>>

--------------------------------------------------------------------------------
(* The worker                                                              *)

\* auto_offset_reset is "latest": without a committed offset the commands sent
\* so far are skipped.
StartOffset == IF committed = NoOffset THEN Len(control) ELSE committed

Boot ==
    /\ worker = "down"
    /\ worker' = "ready"
    /\ read' = StartOffset
    /\ UNCHANGED <<control, committed, building, engineVars, disruptions>>

NextCommand == control[read + 1]
Takes(action) ==
    /\ worker = "ready"
    /\ read < Len(control)
    /\ NextCommand.action = action
    /\ read' = read + 1

\* Mutant: the duplicate check is gone.
KnownNever(r) == FALSE
Known(r) == status[r] # "none"

HandleStart ==
    /\ Takes("start")
    /\ IF Known(NextCommand.run)
       THEN UNCHANGED <<worker, building>>
       ELSE worker' = "building" /\ building' = NextCommand.run
    /\ UNCHANGED <<control, committed, disruptions, engineVars>>

BuildSucceeds ==
    /\ worker = "building"
    /\ task' = [task EXCEPT ![building] = "created"]
    /\ status' = [status EXCEPT ![building] = "running"]
    /\ worker' = "ready" /\ building' = NoRun
    /\ UNCHANGED <<topicVars, cancelled, lastEvent>>

\* The finally block awaits the metrics task it has cancelled; CancelledError is
\* no Exception, so it leaves the block there, before manager.shutdown() and
\* consumer.stop().  asyncio.run then cancels every task and waits for all.
BeginShutdown ==
    /\ worker' = "shutdown" /\ building' = NoRun
    /\ cancelled' = {r \in Runs : Live(r)}

\* start raises, nothing catches it, the worker leaves its loop.
BuildRaises ==
    /\ BuildMayFail
    /\ worker = "building"
    /\ BeginShutdown
    /\ UNCHANGED <<topicVars, status, task, lastEvent>>

\* Mutant: only request_stop(), which a feed without events never looks at.
CancelTaskNot(r) == UNCHANGED cancelled
\* Mutant: a task that has ended is cancelled too.
CancelTaskAlways(r) == cancelled' = cancelled \cup {r}
CancelTask(r) == cancelled' = IF Live(r) THEN cancelled \cup {r} ELSE cancelled

HandleStop ==
    /\ Takes("stop")
    /\ CancelTask(NextCommand.run)
    /\ UNCHANGED <<control, committed, worker, building, status, task, lastEvent,
                   disruptions>>

\* By the consumer's task, which asyncio.run cancels like all others.
AutoCommit ==
    /\ worker \in {"ready", "building"}
    /\ committed' = read
    /\ UNCHANGED <<control, read, worker, building, engineVars, disruptions>>

\* The process is gone, and its handles and tasks with it.
Forget ==
    /\ worker' = "down" /\ building' = NoRun
    /\ status' = [r \in Runs |-> "none"] /\ task' = [r \in Runs |-> "none"]
    /\ cancelled' = {}

AllTasksEnded == \A r \in Runs : ~Live(r)

ShutdownEnds ==
    /\ worker = "shutdown"
    /\ AllTasksEnded
    /\ Forget
    /\ UNCHANGED <<topicVars, lastEvent>>

Disrupt == disruptions < MaxDisruptions /\ disruptions' = disruptions + 1

Interrupt ==
    /\ Disrupt
    /\ worker \in {"ready", "building"}
    /\ BeginShutdown
    /\ UNCHANGED <<control, read, committed, status, task, lastEvent>>

Crash ==
    /\ Disrupt
    /\ worker # "down"
    /\ Forget
    /\ UNCHANGED <<control, read, committed, lastEvent>>

\* The group coordinator lost the consumer, which takes longer than the first
\* commit of a new group; it comes back to the same process.
Rebalance ==
    /\ Rebalances
    /\ Disrupt
    /\ worker \in {"ready", "building"}
    /\ committed # NoOffset
    /\ read' = committed
    /\ UNCHANGED <<control, committed, worker, building, engineVars>>

--------------------------------------------------------------------------------
(* The task of a run: RunManager._supervise around Engine.run              *)

Step(r, from, to) ==
    /\ task[r] = from
    /\ r \notin cancelled
    /\ task' = [task EXCEPT ![r] = to]
    /\ UNCHANGED <<topicVars, worker, building, cancelled>>

\* Mutant: the start is not announced.
AnnounceStartNot(r) == UNCHANGED lastEvent
AnnounceStart(r) == lastEvent' = [lastEvent EXCEPT ![r] = "started"]

EngineStarts(r) ==
    /\ Step(r, "created", "streaming")
    /\ AnnounceStart(r)
    /\ UNCHANGED status

\* The feed ends (or request_stop was seen) and run returns, or something raises
\* and run announces the failure before it raises that on.
EngineEnds(r) ==
    /\ \/ /\ Step(r, "streaming", "returning")
          /\ lastEvent' = [lastEvent EXCEPT ![r] = "finished"]
       \/ /\ EngineMayFail
          /\ Step(r, "streaming", "raising")
          /\ lastEvent' = [lastEvent EXCEPT ![r] = "failed"]
    /\ UNCHANGED status

\* _supervise sets the status by how run ended, and logs.
SuperviseReports(r) ==
    /\ \/ /\ Step(r, "returning", "reporting")
          /\ status' = [status EXCEPT ![r] = "finished"]
       \/ /\ Step(r, "raising", "reporting")
          /\ status' = [status EXCEPT ![r] = "failed"]
    /\ UNCHANGED lastEvent

SuperviseEnds(r) ==
    /\ Step(r, "reporting", "done")
    /\ UNCHANGED <<status, lastEvent>>

\* The CancelledError arrives at the task's next await.  Before its first step
\* the task ends without entering _supervise's try; in the handler of a failure
\* nothing catches it any more.  Engine.run emits nothing for it.
CancelArrives(r) ==
    /\ r \in cancelled
    /\ Live(r)
    /\ status' = IF task[r] = "created" \/ status[r] = "failed"
                 THEN status ELSE [status EXCEPT ![r] = "stopped"]
    /\ task' = [task EXCEPT ![r] = "done"]
    /\ cancelled' = cancelled \ {r}
    /\ UNCHANGED <<topicVars, worker, building, lastEvent>>

Worker ==
    \/ HandleStart \/ BuildSucceeds \/ BuildRaises \/ HandleStop \/ ShutdownEnds
RunTask(r) ==
    EngineStarts(r) \/ EngineEnds(r) \/ SuperviseReports(r) \/ SuperviseEnds(r)
    \/ CancelArrives(r)

Next ==
    \/ SendCommand \/ Boot \/ Worker \/ AutoCommit
    \/ Interrupt \/ Crash \/ Rebalance
    \/ \E r \in Runs : RunTask(r)

Spec == Init /\ [][Next]_vars
\* The worker's event loop serves its consumer and every task that can run; an
\* engine need not ever end on its own.
FairSpec ==
    /\ Spec
    /\ WF_vars(Worker)
    /\ \A r \in Runs : WF_vars(CancelArrives(r))

--------------------------------------------------------------------------------
(* Properties                                                              *)

TypeOK ==
    /\ control \in Seq(Commands) /\ Len(control) <= MaxCommands
    /\ read \in 0 .. Len(control)
    /\ committed \in NoOffset .. Len(control)
    /\ worker \in {"down", "ready", "building", "shutdown"}
    /\ building \in Runs \cup {NoRun}
    /\ status \in [Runs -> Statuses \cup {"none"}]
    /\ task \in [Runs -> TaskStates]
    /\ cancelled \in SUBSET {r \in Runs : Live(r)}
    /\ lastEvent \in [Runs -> {"none", "started", "finished", "failed"}]
    /\ disruptions \in 0 .. MaxDisruptions

\* However often a start is delivered, a process makes one engine of it
\* ("duplicate start ignored", run_manager.py:49).
OneEngine ==
    [][\A r \in Runs : task[r] # "created" /\ task'[r] = "created" => task[r] = "none"]_vars

\* An engine that may trade has announced itself and is listed as running.
TradingIsVisible ==
    \A r \in Runs :
        task[r] = "streaming" => status[r] = "running" /\ lastEvent[r] = "started"

\* Once the offset of a stop is committed, no process runs its engine any more
\* than to deliver the cancellation: neither one that handled the stop, nor one
\* that starts from the committed offset, nor one that is handed commands again.
StopIsFinal ==
    \A r \in Runs, j \in DOMAIN control :
        control[j] = [action |-> "stop", run |-> r] /\ committed >= j
            => ~Live(r) \/ r \in cancelled

\* A stop ends the run for good, whatever the worker was doing when it was sent
\* and however often it comes up again, unless the worker keeps going down: a
\* start whose build raises is served again at every boot until its offset is
\* committed, and a stop behind it is never reached.
StopTakesEffect ==
    <>[](worker # "shutdown") => \A r \in Runs : Sent("stop", r) ~> [](~Live(r))
================================================================================
