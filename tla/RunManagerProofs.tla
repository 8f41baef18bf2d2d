---------------------------- MODULE RunManagerProofs ----------------------------
(***************************************************************************)
(* Proofs about RunManager: a process makes one engine of a start however  *)
(* often it is delivered, an engine that trades is visible, and a stop     *)
(* whose offset is committed holds in every process; for any runs,         *)
(* commands and disruptions.                                               *)
(***************************************************************************)
EXTENDS RunManager, TLAPS

--------------------------------------------------------------------------------
(* The inductive invariant: a run has a status as long as it has a task,   *)
(* which is "running" until the engine has ended; the run being built has  *)
(* neither.                                                                *)

BuildInv == worker = "building" => building \in Runs /\ status[building] = "none"
HandleInv == \A r \in Runs : status[r] = "none" <=> task[r] = "none"
RunningInv ==
    \A r \in Runs : task[r] \in {"created", "streaming", "returning", "raising"}
                      => status[r] = "running"

TasksInv == BuildInv /\ HandleInv /\ RunningInv /\ TradingIsVisible

IInv == TypeOK /\ TasksInv

--------------------------------------------------------------------------------
LEMMA InitIInv == Init => IInv
<1> SUFFICES ASSUME Init PROVE IInv
  OBVIOUS
<1>1. TypeOK
  <2>1. control \in Seq(Commands) /\ Len(control) = 0
    BY DEF Init
  <2>2. /\ read \in 0 .. Len(control) /\ committed \in NoOffset .. Len(control)
        /\ Len(control) <= MaxCommands /\ disruptions \in 0 .. MaxDisruptions
    BY <2>1, BoundsAssumption DEF Init, NoOffset
  <2> QED BY <2>1, <2>2 DEF Init, TypeOK, TaskStates
<1>2. TasksInv
  BY DEF Init, TasksInv, BuildInv, HandleInv, RunningInv, TradingIsVisible
<1> QED BY <1>1, <1>2 DEF IInv

\* The types of the topic and its offsets.
TopicOK ==
    /\ control \in Seq(Commands) /\ Len(control) <= MaxCommands
    /\ read \in 0 .. Len(control)
    /\ committed \in NoOffset .. Len(control)
    /\ disruptions \in 0 .. MaxDisruptions

\* The types of the worker and its runs.
RunsOK ==
    /\ worker \in {"down", "ready", "building", "shutdown"}
    /\ building \in Runs \cup {NoRun}
    /\ status \in [Runs -> Statuses \cup {"none"}]
    /\ task \in [Runs -> TaskStates]
    /\ cancelled \in SUBSET Runs
    /\ lastEvent \in [Runs -> {"none", "started", "finished", "failed"}]

\* Only a task that has not ended has a cancellation to come.
CancelOK == \A r \in cancelled : Live(r)

LEMMA TypeParts == TypeOK => TopicOK /\ RunsOK /\ CancelOK
BY DEF TypeOK, TopicOK, RunsOK, CancelOK

\* Commands are only added, and no offset runs ahead of them.
LEMMA TopicStep ==
    ASSUME TopicOK, [Next]_vars
    PROVE  TopicOK'
<1> USE DEF TopicOK
<1>0. Len(control) \in Nat /\ control \in Seq(Commands)
  OBVIOUS
<1>1. CASE SendCommand
  <2>1. PICK c \in Commands : control' = Append(control, c)
    BY <1>1 DEF SendCommand, Commands
  <2>2. /\ Len(control) < MaxCommands
        /\ UNCHANGED <<read, committed, disruptions>>
    BY <1>1 DEF SendCommand
  <2>3. control' \in Seq(Commands) /\ Len(control') = Len(control) + 1
    BY <1>0, <2>1
  <2>4. Len(control') <= MaxCommands
    BY <1>0, <2>2, <2>3, BoundsAssumption
  <2> QED BY <1>0, <2>2, <2>3, <2>4 DEF NoOffset
<1>2. CASE Boot
  BY <1>0, <1>2 DEF Boot, StartOffset, NoOffset
<1>3. CASE HandleStart \/ HandleStop
  <2>1. /\ read' = read + 1 /\ read < Len(control)
        /\ UNCHANGED <<control, committed, disruptions>>
    BY <1>3 DEF HandleStart, HandleStop, Takes
  <2> QED BY <1>0, <2>1
<1>4. CASE AutoCommit
  <2>1. committed' = read /\ UNCHANGED <<control, read, disruptions>>
    BY <1>4 DEF AutoCommit
  <2> QED BY <1>0, <2>1 DEF NoOffset
<1>5. CASE Interrupt \/ Crash
  <2>1. /\ disruptions < MaxDisruptions /\ disruptions' = disruptions + 1
        /\ UNCHANGED <<control, read, committed>>
    BY <1>5 DEF Interrupt, Crash, Disrupt
  <2> QED BY <2>1, BoundsAssumption
<1>6. CASE Rebalance
  <2>1. /\ disruptions < MaxDisruptions /\ disruptions' = disruptions + 1
        /\ committed # NoOffset /\ read' = committed /\ UNCHANGED <<control, committed>>
    BY <1>6 DEF Rebalance, Disrupt
  <2> QED BY <1>0, <2>1, BoundsAssumption DEF NoOffset
<1>7. CASE UNCHANGED topicVars
  BY <1>7 DEF topicVars
<1>8. CASE BuildSucceeds \/ BuildRaises \/ ShutdownEnds
  BY <1>7, <1>8 DEF BuildSucceeds, BuildRaises, ShutdownEnds
<1>9. ASSUME NEW r \in Runs, RunTask(r)
      PROVE  UNCHANGED topicVars
  BY <1>9 DEF RunTask, EngineStarts, EngineEnds, SuperviseReports, SuperviseEnds,
              CancelArrives, Step
<1>10. CASE UNCHANGED vars
  BY <1>7, <1>10 DEF vars, topicVars
<1> QED
  BY <1>1, <1>2, <1>3, <1>4, <1>5, <1>6, <1>7, <1>8, <1>9, <1>10 DEF Next, Worker

--------------------------------------------------------------------------------
(* One lemma for each kind of step: those that leave the runs as they are, *)
(* those that take them away, the start of a task, and its own steps.      *)

RunsInv == RunsOK /\ CancelOK /\ TasksInv

\* The runs stay as they are, apart from cancellations of tasks that live.
LEMMA RunsStay ==
    ASSUME RunsInv, UNCHANGED <<status, task, lastEvent>>,
           worker' \in {"down", "ready", "building", "shutdown"},
           building' \in Runs \cup {NoRun}, BuildInv',
           cancelled' \in SUBSET {r \in Runs : Live(r)}
    PROVE  RunsInv'
<1>1. RunsOK' /\ CancelOK'
  BY DEF RunsInv, RunsOK, CancelOK, Live
<1>2. TasksInv'
  BY DEF RunsInv, TasksInv, HandleInv, RunningInv, TradingIsVisible
<1> QED BY <1>1, <1>2 DEF RunsInv

LEMMA RunsForgotten ==
    ASSUME RunsInv, Forget, UNCHANGED lastEvent
    PROVE  RunsInv'
<1>1. /\ worker' = "down" /\ building' = NoRun /\ cancelled' = {}
      /\ status' = [r \in Runs |-> "none"] /\ task' = [r \in Runs |-> "none"]
  BY DEF Forget
<1>2. RunsOK' /\ CancelOK'
  BY <1>1 DEF RunsInv, RunsOK, CancelOK, TaskStates
<1>3. TasksInv'
  BY <1>1 DEF TasksInv, BuildInv, HandleInv, RunningInv, TradingIsVisible
<1> QED BY <1>2, <1>3 DEF RunsInv

LEMMA RunStarts ==
    ASSUME RunsInv, BuildSucceeds
    PROVE  RunsInv'
<1> USE DEF RunsInv
<1>1. /\ worker = "building" /\ worker' = "ready" /\ building' = NoRun
      /\ task' = [task EXCEPT ![building] = "created"]
      /\ status' = [status EXCEPT ![building] = "running"]
      /\ UNCHANGED <<cancelled, lastEvent>>
  BY DEF BuildSucceeds
<1>2. building \in Runs
  BY <1>1 DEF TasksInv, BuildInv
<1>3. RunsOK'
  BY <1>1, <1>2 DEF RunsOK, Statuses, TaskStates
<1>4. CancelOK'
  BY <1>1, <1>2 DEF RunsOK, CancelOK, Live
<1>5. TasksInv'
  BY <1>1, <1>2 DEF RunsOK, TasksInv, BuildInv, HandleInv, RunningInv,
                    TradingIsVisible
<1> QED BY <1>3, <1>4, <1>5

LEMMA RunSteps ==
    ASSUME RunsInv, NEW r \in Runs, RunTask(r)
    PROVE  RunsInv'
<1> USE DEF RunsInv
<1> DEFINE Parts == BuildInv' /\ HandleInv' /\ RunningInv' /\ TradingIsVisible'
<1>1. UNCHANGED <<worker, building>>
  BY DEF RunTask, EngineStarts, EngineEnds, SuperviseReports, SuperviseEnds,
         CancelArrives, Step
<1>2. ASSUME NEW from \in TaskStates \ {"none", "done"},
             NEW to \in TaskStates \ {"none", "created"}, Step(r, from, to)
      PROVE  /\ task[r] = from /\ task' = [task EXCEPT ![r] = to]
             /\ UNCHANGED cancelled /\ CancelOK'
  BY <1>2 DEF Step, RunsOK, CancelOK, Live
<1>3. CASE EngineStarts(r)
  <2>1. /\ Step(r, "created", "streaming") /\ status' = status
        /\ lastEvent' = [lastEvent EXCEPT ![r] = "started"]
    BY <1>3 DEF EngineStarts, AnnounceStart
  <2>2. /\ task[r] = "created" /\ task' = [task EXCEPT ![r] = "streaming"]
        /\ UNCHANGED cancelled /\ CancelOK'
    BY <1>2, <2>1 DEF TaskStates
  <2>3. RunsOK'
    BY <1>1, <2>1, <2>2 DEF RunsOK, TaskStates
  <2>4. Parts
    BY <1>1, <2>1, <2>2 DEF RunsOK, TasksInv, BuildInv, HandleInv, RunningInv,
                            TradingIsVisible
  <2> QED BY <2>2, <2>3, <2>4 DEF TasksInv
<1>4. CASE EngineEnds(r)
  <2>1. PICK to \in {"returning", "raising"}, outcome \in {"finished", "failed"} :
          /\ Step(r, "streaming", to) /\ status' = status
          /\ lastEvent' = [lastEvent EXCEPT ![r] = outcome]
    BY <1>4 DEF EngineEnds
  <2>2. /\ task[r] = "streaming" /\ task' = [task EXCEPT ![r] = to]
        /\ UNCHANGED cancelled /\ CancelOK'
    BY <1>2, <2>1 DEF TaskStates
  <2>3. RunsOK'
    BY <1>1, <2>1, <2>2 DEF RunsOK, TaskStates
  <2>4. Parts
    BY <1>1, <2>1, <2>2 DEF RunsOK, TasksInv, BuildInv, HandleInv, RunningInv,
                            TradingIsVisible
  <2> QED BY <2>2, <2>3, <2>4 DEF TasksInv
<1>5. CASE SuperviseReports(r)
  <2>1. PICK from \in {"returning", "raising"}, outcome \in {"finished", "failed"} :
          /\ Step(r, from, "reporting") /\ lastEvent' = lastEvent
          /\ status' = [status EXCEPT ![r] = outcome]
    BY <1>5 DEF SuperviseReports
  <2>2. /\ task[r] = from /\ task' = [task EXCEPT ![r] = "reporting"]
        /\ UNCHANGED cancelled /\ CancelOK'
    BY <1>2, <2>1 DEF TaskStates
  <2>3. RunsOK'
    BY <1>1, <2>1, <2>2 DEF RunsOK, Statuses, TaskStates
  <2>4. Parts
    BY <1>1, <2>1, <2>2 DEF RunsOK, TasksInv, BuildInv, HandleInv, RunningInv,
                            TradingIsVisible
  <2> QED BY <2>2, <2>3, <2>4 DEF TasksInv
<1>6. CASE SuperviseEnds(r)
  <2>1. Step(r, "reporting", "done") /\ UNCHANGED <<status, lastEvent>>
    BY <1>6 DEF SuperviseEnds
  <2>2. /\ task[r] = "reporting" /\ task' = [task EXCEPT ![r] = "done"]
        /\ UNCHANGED cancelled /\ CancelOK'
    BY <1>2, <2>1 DEF TaskStates
  <2>3. RunsOK'
    BY <1>1, <2>1, <2>2 DEF RunsOK, TaskStates
  <2>4. Parts
    BY <1>1, <2>1, <2>2 DEF RunsOK, TasksInv, BuildInv, HandleInv, RunningInv,
                            TradingIsVisible
  <2> QED BY <2>2, <2>3, <2>4 DEF TasksInv
<1>7. CASE CancelArrives(r)
  <2>1. PICK now \in {status[r], "stopped"} :
          /\ task[r] \notin {"none", "done"} /\ task' = [task EXCEPT ![r] = "done"]
          /\ status' = [status EXCEPT ![r] = now]
          /\ cancelled' = cancelled \ {r} /\ lastEvent' = lastEvent
    <3>1. status \in [Runs -> Statuses \cup {"none"}]
      BY DEF RunsOK
    <3>2. status = [status EXCEPT ![r] = status[r]]
      BY <3>1
    <3> QED BY <1>7, <3>2 DEF CancelArrives, Live
  <2>2. status[r] # "none"
    BY <2>1 DEF TasksInv, HandleInv
  <2>3. RunsOK' /\ CancelOK'
    BY <1>1, <2>1 DEF RunsOK, Statuses, TaskStates, CancelOK, Live
  <2>4. Parts
    BY <1>1, <2>1, <2>2 DEF RunsOK, TasksInv, BuildInv, HandleInv, RunningInv,
                            TradingIsVisible
  <2> QED BY <2>3, <2>4 DEF TasksInv
<1> QED BY <1>3, <1>4, <1>5, <1>6, <1>7 DEF RunTask

LEMMA NextIInv ==
    ASSUME IInv, [Next]_vars
    PROVE  IInv'
<1>1. TopicOK /\ RunsInv
  BY TypeParts DEF IInv, RunsInv
<1>2. TopicOK'
  BY <1>1, TopicStep
<1>3. RunsInv'
  <2>a. RunsOK /\ CancelOK /\ TasksInv
    BY <1>1 DEF RunsInv
  <2>0. cancelled \in SUBSET {r \in Runs : Live(r)}
    BY <2>a DEF RunsOK, CancelOK
  <2>1. CASE SendCommand \/ AutoCommit \/ Rebalance \/ UNCHANGED vars
    <3>1. UNCHANGED <<worker, building, status, task, cancelled, lastEvent>>
      BY <2>1 DEF SendCommand, AutoCommit, Rebalance, vars, engineVars
    <3> QED BY <1>1, <2>a, <2>0, <3>1, RunsStay DEF RunsOK, TasksInv, BuildInv
  <2>2. CASE Boot
    <3>1. worker' = "ready" /\ UNCHANGED <<building, status, task, cancelled, lastEvent>>
      BY <2>2 DEF Boot, engineVars
    <3> QED BY <1>1, <2>a, <2>0, <3>1, RunsStay DEF RunsOK, BuildInv
  <2>3. CASE HandleStart
    <3>1. UNCHANGED <<status, task, cancelled, lastEvent>>
      BY <2>3 DEF HandleStart, engineVars
    <3>2. \/ UNCHANGED <<worker, building>>
          \/ /\ worker' = "building" /\ building' = NextCommand.run
             /\ status[building'] = "none" /\ building' \in Runs
      <4>1. NextCommand \in Commands
        <5>1. read + 1 \in 1 .. Len(control) /\ control \in Seq(Commands)
          BY <1>1, <2>3 DEF HandleStart, Takes, TopicOK
        <5> QED BY <5>1 DEF NextCommand
      <4> QED BY <2>3, <4>1 DEF HandleStart, Known, Commands
    <3>3. BuildInv'
      BY <2>a, <3>1, <3>2 DEF TasksInv, BuildInv
    <3> QED BY <1>1, <2>a, <2>0, <3>1, <3>2, <3>3, RunsStay DEF RunsOK
  <2>4. CASE BuildSucceeds
    BY <1>1, <2>4, RunStarts
  <2>5. CASE BuildRaises \/ Interrupt
    <3>1. /\ worker' = "shutdown" /\ building' = NoRun
          /\ cancelled' = {r \in Runs : Live(r)}
          /\ UNCHANGED <<status, task, lastEvent>>
      BY <2>5 DEF BuildRaises, Interrupt, BeginShutdown
    <3> QED BY <1>1, <3>1, RunsStay DEF BuildInv
  <2>6. CASE HandleStop
    <3>1. /\ cancelled' \in {cancelled, cancelled \cup {NextCommand.run}}
          /\ cancelled' # cancelled => Live(NextCommand.run)
          /\ UNCHANGED <<worker, building, status, task, lastEvent>>
      BY <2>6 DEF HandleStop, CancelTask
    <3>2. NextCommand.run \in Runs
      <4>1. read + 1 \in 1 .. Len(control) /\ control \in Seq(Commands)
        BY <1>1, <2>6 DEF HandleStop, Takes, TopicOK
      <4>2. NextCommand \in Commands
        BY <4>1 DEF NextCommand
      <4> QED BY <4>2 DEF Commands
    <3>3. cancelled' \in SUBSET {r \in Runs : Live(r)}
      BY <2>0, <3>1, <3>2
    <3> QED BY <1>1, <2>a, <3>1, <3>3, RunsStay DEF RunsOK, TasksInv, BuildInv
  <2>7. CASE ShutdownEnds \/ Crash
    BY <1>1, <2>7, RunsForgotten DEF ShutdownEnds, Crash
  <2>8. CASE \E r \in Runs : RunTask(r)
    BY <1>1, <2>8, RunSteps
  <2> QED BY <2>1, <2>2, <2>3, <2>4, <2>5, <2>6, <2>7, <2>8, Zenon DEF Next, Worker
<1>4. TypeOK'
  BY <1>2, <1>3 DEF RunsInv, TypeOK, TopicOK, RunsOK, CancelOK
<1> QED BY <1>3, <1>4 DEF IInv, RunsInv

LEMMA IInvHolds == Spec => []IInv
BY InitIInv, NextIInv, PTL DEF Spec

--------------------------------------------------------------------------------
\* Every variable has its type; in particular only tasks that have not ended are
\* ever cancelled.
THEOREM TypeCorrect == Spec => []TypeOK
<1>1. IInv => TypeOK
  BY DEF IInv
<1> QED BY <1>1, IInvHolds, PTL

\* An engine that may trade has announced itself and is listed as running.
THEOREM TradingVisible == Spec => []TradingIsVisible
<1>1. IInv => TradingIsVisible
  BY DEF IInv, TasksInv
<1> QED BY <1>1, IInvHolds, PTL

\* A process makes one engine of a start, however often it is delivered, whenever
\* the worker is disturbed and whatever else it builds.
THEOREM StartsOneEngine == Spec => OneEngine
<1> DEFINE Once == \A r \in Runs :
                     task[r] # "created" /\ task'[r] = "created" => task[r] = "none"
<1>1. IInv /\ [Next]_vars => [Once]_vars
  <2> SUFFICES ASSUME IInv, Next, NEW r \in Runs,
                      task[r] # "created", task'[r] = "created"
               PROVE  task[r] = "none"
    OBVIOUS
  <2>0. task \in [Runs -> TaskStates]
    BY DEF IInv, TypeOK
  <2>1. CASE BuildSucceeds
    <3>1. worker = "building" /\ task' = [task EXCEPT ![building] = "created"]
      BY <2>1 DEF BuildSucceeds
    <3>2. r = building
      BY <2>0, <3>1
    <3> QED BY <3>1, <3>2 DEF IInv, TasksInv, BuildInv, HandleInv
  <2>2. CASE ShutdownEnds \/ Crash
    BY <2>2 DEF ShutdownEnds, Crash, Forget
  <2>3. ASSUME NEW q \in Runs, RunTask(q)
        PROVE  FALSE
    <3>1. PICK to \in TaskStates \ {"none", "created"} :
            task' = [task EXCEPT ![q] = to]
      BY <2>3 DEF RunTask, EngineStarts, EngineEnds, SuperviseReports, SuperviseEnds,
                  CancelArrives, Step, TaskStates
    <3> QED BY <2>0, <3>1
  <2>4. CASE UNCHANGED task
    BY <2>4
  <2> QED
    BY <2>1, <2>2, <2>3, <2>4
       DEF Next, Worker, SendCommand, Boot, HandleStart, BuildRaises, HandleStop,
           AutoCommit, Interrupt, Rebalance, engineVars
<1> QED BY <1>1, IInvHolds, PTL DEF Spec, OneEngine

--------------------------------------------------------------------------------
(* Stops.  A run has one start, which its stops follow; the run being built *)
(* was started no earlier than the offset read, which the committed one    *)
(* never passes; so a stop that was read has met its task.                 *)

Is(i, a, r) == control[i] = [action |-> a, run |-> r]

StartInv ==
    /\ \A r \in Runs : Sent("stop", r) => Sent("start", r)
    /\ \A r \in Runs, i, j \in DOMAIN control :
          Is(i, "start", r) => /\ Is(j, "start", r) => i = j
                               /\ Is(j, "stop", r) => i < j

OffsetInv ==
    /\ committed <= read
    /\ worker = "building" =>
          \A i \in DOMAIN control : Is(i, "start", building) => read <= i
    /\ worker = "down" => \A r \in Runs : ~Live(r)

StopInv ==
    \A r \in Runs, j \in DOMAIN control :
        Is(j, "stop", r) /\ read >= j => ~Live(r) \/ r \in cancelled

FinalInv == StartInv /\ OffsetInv /\ StopInv

LEMMA InitFinal == Init => FinalInv
<1> SUFFICES ASSUME Init PROVE FinalInv
  OBVIOUS
<1>1. DOMAIN control = {}
  BY DEF Init
<1>2. committed <= read
  BY DEF Init, NoOffset
<1> QED BY <1>1, <1>2 DEF Init, FinalInv, StartInv, OffsetInv, StopInv, Sent, Live

\* A command is added at the end, a start only once and a stop only after it.
LEMMA SendFinal ==
    ASSUME IInv, FinalInv, SendCommand
    PROVE  FinalInv'
<1>1. PICK a \in {"start", "stop"}, q \in Runs :
        /\ (a = "start") <=> ~Sent("start", q)
        /\ control' = Append(control, [action |-> a, run |-> q])
  BY DEF SendCommand
<1>2. UNCHANGED <<read, committed, worker, building, status, task, cancelled>>
  BY DEF SendCommand, engineVars
<1>3. /\ control \in Seq(Commands) /\ Len(control) \in Nat
      /\ read \in 0 .. Len(control)
  BY DEF IInv, TypeOK
<1> DEFINE n == Len(control) + 1
<1>4. /\ DOMAIN control = 1 .. Len(control) /\ DOMAIN control' = 1 .. n
      /\ control'[n] = [action |-> a, run |-> q]
      /\ \A i \in DOMAIN control : control'[i] = control[i]
  BY <1>1, <1>3 DEF Commands
<1>5. /\ \A i \in DOMAIN control : i \in DOMAIN control' /\ i < n /\ i # n
      /\ \A i \in DOMAIN control' : i \in DOMAIN control \/ i = n
      /\ n \in DOMAIN control'
  BY <1>3, <1>4
<1> HIDE DEF n
<1>6. ASSUME NEW i \in DOMAIN control', NEW b \in {"start", "stop"}, NEW r \in Runs
      PROVE  Is(i, b, r)' <=> \/ i \in DOMAIN control /\ Is(i, b, r)
                              \/ i = n /\ a = b /\ q = r
  BY <1>4, <1>5 DEF Is
<1>7. ASSUME NEW b \in {"start", "stop"}, NEW r \in Runs
      PROVE  Sent(b, r)' <=> Sent(b, r) \/ (a = b /\ q = r)
  <2>1. Sent(b, r) <=> \E i \in DOMAIN control : Is(i, b, r)
    BY DEF Sent, Is
  <2>2. Sent(b, r)' <=> \E i \in DOMAIN control' : Is(i, b, r)'
    BY DEF Sent, Is
  <2> QED BY <1>5, <1>6, <2>1, <2>2, Zenon
<1>8. \A r \in Runs : Sent("start", r) <=> \E i \in DOMAIN control : Is(i, "start", r)
  BY DEF Sent, Is
<1>9. \A r \in Runs : Sent("stop", r) <=> \E i \in DOMAIN control : Is(i, "stop", r)
  BY DEF Sent, Is
<1>10. StartInv'
  <2>1. ASSUME NEW r \in Runs, Sent("stop", r)'
        PROVE  Sent("start", r)'
    BY <1>1, <1>7, <2>1 DEF FinalInv, StartInv
  <2>2. ASSUME NEW r \in Runs, NEW i \in DOMAIN control', NEW j \in DOMAIN control',
               Is(i, "start", r)'
        PROVE  /\ Is(j, "start", r)' => i = j
               /\ Is(j, "stop", r)' => i < j
    <3>1. CASE i \in DOMAIN control /\ Is(i, "start", r)
      <4>1. Sent("start", r)
        BY <1>8, <3>1
      <4>2. ~ (a = "start" /\ q = r)
        BY <1>1, <4>1
      <4>3. Is(j, "start", r)' => i = j
        BY <1>6, <3>1, <4>2 DEF FinalInv, StartInv
      <4>4. Is(j, "stop", r)' => i < j
        BY <1>5, <1>6, <3>1 DEF FinalInv, StartInv
      <4> QED BY <4>3, <4>4
    <3>2. CASE i = n /\ a = "start" /\ q = r
      <4>1. ~ Sent("start", r) /\ ~ Sent("stop", r)
        BY <1>1, <3>2 DEF FinalInv, StartInv
      <4>2. Is(j, "start", r)' => j = n
        BY <1>6, <1>8, <4>1
      <4>3. ~ Is(j, "stop", r)'
        BY <1>6, <1>9, <3>2, <4>1
      <4> QED BY <3>2, <4>2, <4>3
    <3> QED BY <1>6, <2>2, <3>1, <3>2
  <2> QED BY <2>1, <2>2 DEF StartInv
<1>11. OffsetInv'
  <2>1. ASSUME worker = "building", NEW i \in DOMAIN control', Is(i, "start", building)'
        PROVE  read <= i
    <3>0. building \in Runs
      BY <2>1 DEF IInv, TasksInv, BuildInv
    <3>1. CASE i \in DOMAIN control /\ Is(i, "start", building)
      BY <2>1, <3>1 DEF FinalInv, OffsetInv
    <3>2. CASE i = n
      BY <1>3, <3>2 DEF n
    <3> QED
      <4>1. Is(i, "start", building)' <=> \/ i \in DOMAIN control /\ Is(i, "start", building)
                                          \/ i = n /\ a = "start" /\ q = building
        BY <1>2, <1>6, <3>0
      <4> QED BY <2>1, <3>1, <3>2, <4>1
  <2>2. committed' <= read' /\ (worker' = "down" => \A r \in Runs : ~Live(r)')
    BY <1>2 DEF FinalInv, OffsetInv, Live
  <2> QED BY <1>2, <2>1, <2>2 DEF OffsetInv, Is
<1>12. StopInv'
  <2> SUFFICES ASSUME NEW r \in Runs, NEW j \in DOMAIN control',
                      Is(j, "stop", r)', read' >= j
               PROVE  ~Live(r)' \/ r \in cancelled'
    BY DEF StopInv
  <2>1. j # n
    BY <1>2, <1>3 DEF n
  <2>2. j \in DOMAIN control /\ Is(j, "stop", r) /\ read >= j
    BY <1>2, <1>6, <2>1
  <2> QED BY <1>2, <2>2 DEF FinalInv, StopInv, Live
<1> QED BY <1>10, <1>11, <1>12 DEF FinalInv

LEMMA StepFinal ==
    ASSUME IInv, FinalInv, [Next]_vars, UNCHANGED control
    PROVE  FinalInv'
<1>0. /\ control \in Seq(Commands) /\ DOMAIN control = 1 .. Len(control)
      /\ Len(control) \in Nat
      /\ read \in 0 .. Len(control) /\ committed \in NoOffset .. Len(control)
      /\ task \in [Runs -> TaskStates] /\ cancelled \subseteq Runs
  BY DEF IInv, TypeOK
<1>1. StartInv'
  BY DEF FinalInv, StartInv, Sent, Is
<1>2. \A i, a, r : Is(i, a, r)' <=> Is(i, a, r)
  BY DEF Is
<1>3. CASE /\ UNCHANGED <<read, worker, building, task, cancelled>>
           /\ committed' \in {committed, read}
  BY <1>0, <1>1, <1>3 DEF FinalInv, OffsetInv, StopInv, Is, Live
<1>4. CASE Boot
  <2>1. /\ worker = "down" /\ worker' = "ready" /\ committed' = committed
        /\ read' = StartOffset /\ UNCHANGED <<task, cancelled>>
    BY <1>4 DEF Boot, engineVars
  <2>2. committed <= read'
    BY <1>0, <2>1 DEF StartOffset, NoOffset
  <2>3. \A r \in Runs : ~Live(r)'
    BY <2>1 DEF FinalInv, OffsetInv, Live
  <2> QED BY <1>1, <2>1, <2>2, <2>3 DEF FinalInv, OffsetInv, StopInv
<1>5. CASE HandleStart
  <2>1. /\ worker = "ready" /\ read < Len(control) /\ read' = read + 1
        /\ NextCommand.action = "start"
        /\ UNCHANGED <<committed, task, cancelled>>
    BY <1>5 DEF HandleStart, Takes, engineVars
  <2>2. \/ UNCHANGED <<worker, building>>
        \/ worker' = "building" /\ building' = NextCommand.run
    BY <1>5 DEF HandleStart
  <2>3. PICK q \in Runs : Is(read + 1, "start", q) /\ NextCommand.run = q
    <3>1. NextCommand \in Commands
      BY <1>0, <2>1 DEF NextCommand
    <3> QED BY <2>1, <3>1 DEF NextCommand, Is, Commands
  <2>4. read + 1 \in DOMAIN control /\ read \in Int
    BY <1>0, <2>1
  <2>5. ASSUME worker' = "building", NEW i \in DOMAIN control, Is(i, "start", building')
        PROVE  read' <= i
    <3>1. building' = q
      BY <2>1, <2>2, <2>3, <2>5
    <3>2. i = read + 1
      BY <2>3, <2>4, <2>5, <3>1 DEF FinalInv, StartInv
    <3> QED BY <2>1, <2>4, <3>2
  <2>6. OffsetInv'
    <3>1. committed' <= read'
      BY <1>0, <2>1 DEF FinalInv, OffsetInv, NoOffset
    <3>2. worker' # "down"
      BY <2>1, <2>2
    <3> QED BY <2>5, <3>1, <3>2 DEF OffsetInv, Is
  <2>7. ASSUME NEW r \in Runs, NEW j \in DOMAIN control, Is(j, "stop", r), read' >= j
        PROVE  ~Live(r)' \/ r \in cancelled'
    <3>1. j # read + 1
      BY <2>3, <2>7 DEF Is
    <3>2. read >= j
      BY <1>0, <2>1, <2>7, <3>1
    <3> QED BY <2>1, <2>7, <3>2 DEF FinalInv, StopInv, Live
  <2>8. StopInv'
    BY <2>7 DEF StopInv, Is
  <2> QED BY <1>1, <2>6, <2>8 DEF FinalInv
<1>6. CASE BuildSucceeds
  <2>1. /\ worker = "building" /\ worker' = "ready"
        /\ task' = [task EXCEPT ![building] = "created"]
        /\ UNCHANGED <<read, committed, cancelled>>
    BY <1>6 DEF BuildSucceeds, topicVars
  <2>2. ASSUME NEW r \in Runs, NEW j \in DOMAIN control, Is(j, "stop", r), read >= j
        PROVE  ~Live(r)' \/ r \in cancelled'
    <3>1. CASE r = building
      <4>1. PICK i \in DOMAIN control : Is(i, "start", r)
        BY <2>2 DEF FinalInv, StartInv, Sent, Is
      <4>2. i < j
        BY <2>2, <4>1 DEF FinalInv, StartInv
      <4>3. read <= i
        BY <2>1, <3>1, <4>1 DEF FinalInv, OffsetInv
      <4> QED BY <1>0, <2>2, <4>1, <4>2, <4>3
    <3>2. CASE r # building
      BY <1>0, <2>1, <2>2, <3>2 DEF FinalInv, StopInv, Live
    <3> QED BY <3>1, <3>2
  <2>3. StopInv'
    BY <2>1, <2>2 DEF StopInv, Is
  <2> QED BY <1>1, <2>1, <2>3 DEF FinalInv, OffsetInv
<1>7. CASE BuildRaises \/ Interrupt
  <2>1. /\ worker' = "shutdown" /\ cancelled' = {r \in Runs : Live(r)}
        /\ UNCHANGED <<read, committed, task>>
    BY <1>7 DEF BuildRaises, Interrupt, BeginShutdown, topicVars
  <2> QED BY <1>1, <2>1 DEF FinalInv, OffsetInv, StopInv, Live
<1>8. CASE HandleStop
  <2>1. /\ worker = "ready" /\ read < Len(control) /\ read' = read + 1
        /\ NextCommand.action = "stop"
        /\ UNCHANGED <<committed, worker, building, task>>
    BY <1>8 DEF HandleStop, Takes
  <2>2. /\ cancelled \subseteq cancelled'
        /\ Live(NextCommand.run) => NextCommand.run \in cancelled'
    BY <1>8 DEF HandleStop, CancelTask
  <2>3. ASSUME NEW r \in Runs, NEW j \in DOMAIN control, Is(j, "stop", r), read' >= j
        PROVE  ~Live(r)' \/ r \in cancelled'
    <3>1. CASE j = read + 1
      <4>1. NextCommand.run = r
        BY <2>3, <3>1 DEF Is, NextCommand
      <4> QED BY <2>1, <2>2, <4>1 DEF Live
    <3>2. CASE j # read + 1
      <4>1. read >= j
        BY <1>0, <2>1, <2>3, <3>2
      <4> QED BY <2>1, <2>2, <2>3, <4>1 DEF FinalInv, StopInv, Live
    <3> QED BY <3>1, <3>2
  <2>4. StopInv'
    BY <2>3 DEF StopInv, Is
  <2>5. committed' <= read'
    BY <1>0, <2>1 DEF FinalInv, OffsetInv, NoOffset
  <2> QED BY <1>1, <2>1, <2>4, <2>5 DEF FinalInv, OffsetInv
<1>9. CASE ShutdownEnds \/ Crash
  <2>1. /\ worker' = "down" /\ task' = [r \in Runs |-> "none"]
        /\ UNCHANGED <<read, committed>>
    BY <1>9 DEF ShutdownEnds, Crash, Forget, topicVars
  <2> QED BY <1>1, <2>1 DEF FinalInv, OffsetInv, StopInv, Live
<1>10. CASE Rebalance
  <2>1. /\ read' = committed /\ UNCHANGED <<committed, worker, building, task, cancelled>>
    BY <1>10 DEF Rebalance, engineVars
  <2>2. committed <= read /\ committed \in Int /\ read \in Int
    BY <1>0 DEF FinalInv, OffsetInv, NoOffset
  <2>3. OffsetInv'
    BY <1>0, <2>1, <2>2 DEF FinalInv, OffsetInv, Is, Live
  <2>4. StopInv'
    BY <1>0, <2>1, <2>2 DEF FinalInv, StopInv, Is, Live
  <2> QED BY <1>1, <2>3, <2>4 DEF FinalInv
<1>11. ASSUME NEW q \in Runs, RunTask(q)
       PROVE  FinalInv'
  <2>1. UNCHANGED <<read, committed, worker, building>>
    BY <1>11 DEF RunTask, EngineStarts, EngineEnds, SuperviseReports, SuperviseEnds,
                 CancelArrives, Step, topicVars
  <2>2. PICK to \in TaskStates \ {"none", "created"} :
          /\ Live(q) /\ task' = [task EXCEPT ![q] = to]
          /\ \/ cancelled' = cancelled
             \/ cancelled' = cancelled \ {q} /\ to = "done"
    BY <1>11 DEF RunTask, EngineStarts, EngineEnds, SuperviseReports, SuperviseEnds,
                 CancelArrives, Step, TaskStates, Live
  <2>3. \A r \in Runs : Live(r)' => Live(r)
    BY <1>0, <2>2 DEF Live
  <2>4. \A r \in Runs : r \in cancelled => r \in cancelled' \/ ~Live(r)'
    BY <1>0, <2>2 DEF Live
  <2>5. OffsetInv'
    BY <2>1, <2>3 DEF FinalInv, OffsetInv, Is
  <2>6. StopInv'
    BY <2>1, <2>3, <2>4 DEF FinalInv, StopInv, Is
  <2> QED BY <1>1, <2>5, <2>6 DEF FinalInv
<1>12. CASE SendCommand
  <2>1. UNCHANGED <<read, committed, worker, building, task, cancelled>>
    BY <1>12 DEF SendCommand, engineVars
  <2> QED BY <1>3, <2>1
<1>13. CASE AutoCommit \/ UNCHANGED vars
  <2>1. /\ UNCHANGED <<read, worker, building, task, cancelled>>
        /\ committed' \in {committed, read}
    BY <1>13 DEF AutoCommit, engineVars, vars
  <2> QED BY <1>3, <2>1
<1> QED
  BY <1>4, <1>5, <1>6, <1>7, <1>8, <1>9, <1>10, <1>11, <1>12, <1>13, Zenon
     DEF Next, Worker

\* A stop whose offset is committed holds for good: no process runs the engine of
\* its run any more than to deliver the cancellation.
THEOREM StopsAreFinal == Spec => []StopIsFinal
<1>1. Init => IInv /\ FinalInv
  BY InitIInv, InitFinal
<1>2. IInv /\ FinalInv /\ [Next]_vars => IInv' /\ FinalInv'
  <2> SUFFICES ASSUME IInv, FinalInv, [Next]_vars PROVE IInv' /\ FinalInv'
    OBVIOUS
  <2>1. SendCommand \/ UNCHANGED control
    BY DEF Next, Worker, Boot, HandleStart, BuildSucceeds, BuildRaises, HandleStop,
           ShutdownEnds, AutoCommit, Interrupt, Crash, Rebalance, RunTask, EngineStarts,
           EngineEnds, SuperviseReports, SuperviseEnds, CancelArrives, Step, topicVars,
           vars
  <2> QED BY <2>1, NextIInv, SendFinal, StepFinal
<1>3. IInv /\ FinalInv => StopIsFinal
  <2> SUFFICES ASSUME IInv, FinalInv, NEW r \in Runs, NEW j \in DOMAIN control,
                      Is(j, "stop", r), committed >= j
               PROVE  ~Live(r) \/ r \in cancelled
    BY DEF StopIsFinal, Is
  <2>1. read >= j
    BY DEF IInv, TypeOK, FinalInv, OffsetInv, NoOffset
  <2> QED BY <2>1 DEF FinalInv, StopInv
<1> QED BY <1>1, <1>2, <1>3, PTL DEF Spec
================================================================================
