---------------------- MODULE StreamSupervisionProofs ----------------------
(***************************************************************************)
(* Proofs about StreamSupervision, for any numbers of operators, viewers,  *)
(* process slots and deaths of the API, any restart budget and backups.    *)
(***************************************************************************)
EXTENDS StreamSupervision, StreamWorkerProofs

(***************************************************************************)
(* A viewer that is about to start the stream has not used the service     *)
(* yet, and without overlap it is alone and the supervisor is quiet.       *)
(***************************************************************************)
WakeInv ==
  \A v \in Viewers : viewer[v] = "wake" =>
    /\ op[v] = "none" /\ Allowed
    /\ Overlap \/ \A w \in Viewers : viewer[w] = "wake" => w = v

SupInv == SupTypeOK /\ WakeInv

\* What the steps of a call leave alone, and where it stands.
LEMMA CallStepFacts ==
  ASSUME NEW c \in Calls, CallStep(c)
  PROVE  op' = op /\ pc[c] \notin {"idle", "timer"}
BY DEF CallStep, StartStep, WriteStopped, WriteReset, ReadStream, CheckStream, WriteProxyIdle,
       WriteReplaced, SpawnTranscode, WriteRunning

LEMMA OtherStepFacts ==
  ASSUME NEW p \in Procs, ProcExit(p) \/ ExitStep(p)
  PROVE  op' = op
BY DEF ProcExit, ExitStep, StartStep, ReadStream, CheckStream, WriteProxyIdle, WriteReplaced,
       SpawnTranscode, WriteRunning, ReadRestartCount, WriteCrashed, ReadBackups,
       WriteFailover, WriteFinal, TimerFires

\* The supervisor takes a step of its own in every step but the two tools'.
LEMMA Driven ==
  ASSUME WakeInv, [SupNext]_allVars
  PROVE  [Next]_vars \/ ResetCrashed \/ RestartAllStreams
<1>1. ASSUME NEW v \in Viewers, AutoStart(v) PROVE Begin(v)
  <2>1. op[v] = "none" /\ Allowed
    BY <1>1 DEF WakeInv, AutoStart
  <2> QED BY <1>1, <2>1 DEF AutoStart, Begin, Ops
<1>2. ASSUME NEW v \in Viewers, ViewerStep(v) PROVE [Next]_vars
  BY <1>1, <1>2, ViewersAssumption DEF ViewerStep, Request, ReadStatus, WakeStep, Poll, Answer, Next
<1>3. ASSUME NEW c \in Operators, OperatorStep(c) PROVE Next
  BY <1>3 DEF OperatorStep, Operators, Next
<1>4. CASE SupervisorStep \/ WriteManifest \/ UNCHANGED allVars
  BY <1>4 DEF SupervisorStep, WriteManifest, allVars, Next
<1> QED BY <1>2, <1>3, <1>4 DEF SupNext

LEMMA SupInitTypes == SupInit => SupInv
<1> SUFFICES ASSUME SupInit PROVE SupInv
  OBVIOUS
<1>1. SupTypeOK
  BY InitTypes DEF SupInit, SupTypeOK
<1>2. WakeInv
  BY DEF SupInit, WakeInv
<1> QED BY <1>1, <1>2 DEF SupInv

LEMMA SupStepTypes == SupInv /\ [SupNext]_allVars => SupTypeOK'
<1> SUFFICES ASSUME SupInv, [SupNext]_allVars PROVE SupTypeOK'
  OBVIOUS
<1>1. TypeOK'
  <2>1. CASE [Next]_vars
    BY <2>1, StepTypes DEF SupInv, SupTypeOK
  <2>2. CASE ResetCrashed \/ RestartAllStreams
    <3>1. row' \in RowType
      BY <2>2 DEF SupInv, SupTypeOK, TypeOK, ResetCrashed, RestartAllStreams, SetRow, RowType, Statuses
    <3> QED BY <2>2, <3>1 DEF SupInv, SupTypeOK, TypeOK, ResetCrashed, RestartAllStreams
  <2> QED BY <2>1, <2>2, Driven DEF SupInv
<1>2. alive' \subseteq Procs /\ hlsDir' \in BOOLEAN
  BY <1>1 DEF TypeOK
<1>3. toRestart' \subseteq Procs
  BY <1>2 DEF SupInv, SupTypeOK, TypeOK, SupNext, OperatorStep, SupervisorStep, WriteManifest, ViewerStep,
     Request, ReadStatus, AutoStart, WakeStep, Poll, Answer, ResetCrashed, RestartAllStreams,
     Follow, allVars, supervisionVars
<1>4. viewer' \in [Viewers -> {"away", "asked", "wake", "waking", "late", "refused", "served", "proxied"}]
  BY DEF SupInv, SupTypeOK, SupNext, OperatorStep, SupervisorStep, WriteManifest, ViewerStep,
     Request, ReadStatus, AutoStart, WakeStep, Poll, Answer, ResetCrashed, RestartAllStreams,
     Follow, allVars, supervisionVars
<1>5. manifest' = manifest \/ manifest' = TRUE \/ manifest' = (manifest /\ hlsDir')
  BY DEF SupNext, OperatorStep, SupervisorStep, WriteManifest, ViewerStep,
     Request, ReadStatus, AutoStart, WakeStep, Poll, Answer, ResetCrashed, RestartAllStreams,
     Follow, allVars, supervisionVars
<1>6. manifest' \in BOOLEAN
  BY <1>2, <1>5 DEF SupInv, SupTypeOK
<1> QED BY <1>1, <1>3, <1>4, <1>6 DEF SupTypeOK

LEMMA SupStepWake == SupInv /\ [SupNext]_allVars => WakeInv'
<1> SUFFICES ASSUME SupInv, [SupNext]_allVars PROVE WakeInv'
  OBVIOUS
<1> USE DEF SupInv, WakeInv
<1>1. CASE UNCHANGED <<pc, op, viewer>>
  BY <1>1 DEF Allowed, Quiet
<1>2. ASSUME Turn, viewer' = viewer, \A v \in Viewers : op'[v] = op[v] PROVE WakeInv'
  BY <1>2 DEF Turn, Allowed
<1>3. ASSUME NEW c \in Operators, OperatorStep(c) PROVE WakeInv'
  <2>1. c \in Calls /\ c \notin Viewers
    BY DEF Operators
  <2>2. \A v \in Viewers : op'[v] = op[v]
    BY <1>3, <2>1, CallStepFacts, ViewersAssumption DEF OperatorStep, Begin, SupTypeOK, TypeOK
  <2> QED BY <1>2, <1>3, <2>2 DEF OperatorStep
<1>4. CASE SupervisorStep
  <2>1. op' = op
    BY <1>4, OtherStepFacts DEF SupervisorStep, ApiRestart
  <2> QED BY <1>2, <1>4, <2>1 DEF SupervisorStep
<1>5. CASE WriteManifest \/ ResetCrashed \/ RestartAllStreams \/ UNCHANGED allVars
  BY <1>1, <1>5 DEF WriteManifest, ResetCrashed, RestartAllStreams, allVars, vars, supervisionVars
<1>6. ASSUME NEW v \in Viewers, ViewerStep(v) PROVE WakeInv'
  <2>0. viewer \in [Viewers -> {"away", "asked", "wake", "waking", "late", "refused", "served", "proxied"}]
        /\ v \in Calls
    BY ViewersAssumption DEF SupTypeOK
  <2>1. CASE Request(v) \/ Poll(v) \/ Answer(v)
    <3>1. pc' = pc /\ op' = op /\ \A w \in Viewers : viewer'[w] = "wake" => viewer[w] = "wake"
      BY <2>0, <2>1 DEF Request, Poll, Answer, vars
    <3> QED BY <3>1 DEF Allowed, Quiet
  <2>2. CASE ReadStatus(v)
    <3>1. Turn /\ Allowed /\ pc' = pc /\ op' = op
      BY <2>2 DEF ReadStatus, vars
    <3>2. Allowed'
      BY <3>1 DEF Allowed, Quiet
    <3>3. ASSUME NEW u \in Viewers, viewer'[u] = "wake" PROVE op'[u] = "none"
      BY <2>0, <2>2, <3>1, <3>3 DEF ReadStatus
    <3>4. ASSUME NEW u \in Viewers, viewer'[u] = "wake", ~Overlap PROVE u = v
      BY <2>0, <2>2, <3>1, <3>4 DEF ReadStatus, Turn
    <3> QED BY <3>2, <3>3, <3>4
  <2>3. CASE AutoStart(v)
    <3>1. viewer[v] = "wake" /\ viewer'[v] = "waking"
          /\ \A w \in Viewers : w # v => viewer'[w] = viewer[w] /\ op'[w] = op[w]
      BY <2>0, <2>3, ViewersAssumption DEF AutoStart, SupTypeOK, TypeOK
    <3> QED BY <3>1 DEF Allowed
  <2>4. CASE WakeStep(v)
    <3>1. viewer' = viewer /\ op' = op /\ pc[v] \notin {"idle", "timer"}
      BY <2>0, <2>4, CallStepFacts DEF WakeStep
    <3>2. Overlap \/ \A w \in Viewers : viewer[w] # "wake"
      BY <2>0, <3>1 DEF Allowed, Quiet, Tasks
    <3> QED BY <3>1, <3>2 DEF Allowed
  <2> QED BY <1>6, <2>1, <2>2, <2>3, <2>4 DEF ViewerStep
<1> QED BY <1>3, <1>4, <1>5, <1>6 DEF SupNext

\* Every variable keeps its type, whoever drives the supervisor.
THEOREM SupervisionTyped == SupSpec => []SupTypeOK
<1>1. SupInv /\ [SupNext]_allVars => SupInv'
  BY SupStepTypes, SupStepWake DEF SupInv
<1> QED BY <1>1, SupInitTypes, PTL DEF SupSpec, SupInv
-----------------------------------------------------------------------------
(***************************************************************************)
(* Whoever drives it, the supervisor is the one of StreamWorker.           *)
(***************************************************************************)
(* Operators and viewers take the supervisor through steps of StreamWorker *)
(* only: an auto-start is a startWorker like any other.  Only the tools    *)
(* write the row without it.                                               *)
THEOREM SupervisionImplementsWorker ==
  ASSUME Tools = {}
  PROVE  SupSpec => Spec
<1>1. WakeInv /\ [SupNext]_allVars => [Next]_vars
  BY Driven DEF ResetCrashed, RestartAllStreams
<1>2. SupInv /\ [SupNext]_allVars => SupInv'
  BY SupStepTypes, SupStepWake DEF SupInv
<1>3. SupInit => Init
  BY DEF SupInit
<1> QED BY <1>1, <1>2, <1>3, SupInitTypes, PTL DEF SupSpec, Spec, SupInv

(* The tools write the row alone, so that they cannot make processes       *)
(* multiply either: a call, a viewer's too, has at most one descendant     *)
(* that runs, or is going to run, an ffmpeg.                               *)
THEOREM OneProcessPerCallSupervised == SupSpec => []OneProcessPerCall
<1>1. SupInv /\ HoldInv /\ [SupNext]_allVars => HoldInv'
  <2> SUFFICES ASSUME SupInv, HoldInv, [SupNext]_allVars PROVE HoldInv'
    OBVIOUS
  <2>1. CASE [Next]_vars
    BY <2>1, StepHold DEF SupInv, SupTypeOK
  <2>2. CASE ResetCrashed \/ RestartAllStreams
    BY <2>2 DEF ResetCrashed, RestartAllStreams, HoldInv, ProcOrTask, Descends, NoneBeforeBegin,
       OneProcessPerCall, Holds, Busy, OriginOf
  <2> QED BY <2>1, <2>2, Driven DEF SupInv
<1>2. SupInv /\ [SupNext]_allVars => SupInv'
  BY SupStepTypes, SupStepWake DEF SupInv
<1>3. SupInit => HoldInv
  BY InitHold DEF SupInit
<1> QED BY <1>1, <1>2, <1>3, SupInitTypes, PTL DEF SupSpec, HoldInv

(* They leave the count of restarts alone too: it never passes the budget. *)
THEOREM RestartCountBoundedSupervised == SupSpec => []RestartCountBounded
<1>1. SupInv /\ BudgetInv /\ [SupNext]_allVars => BudgetInv'
  <2> SUFFICES ASSUME SupInv, BudgetInv, [SupNext]_allVars PROVE BudgetInv'
    OBVIOUS
  <2>1. CASE [Next]_vars
    BY <2>1, StepBudget DEF SupInv, SupTypeOK
  <2>2. CASE ResetCrashed \/ RestartAllStreams
    BY <2>2 DEF ResetCrashed, RestartAllStreams, SetRow, SupInv, SupTypeOK, TypeOK, RowType, BudgetInv,
       RestartCountBounded
  <2> QED BY <2>1, <2>2, Driven DEF SupInv
<1>2. SupInv /\ [SupNext]_allVars => SupInv'
  BY SupStepTypes, SupStepWake DEF SupInv
<1>3. SupInit => BudgetInv
  BY InitBudget DEF SupInit
<1> QED BY <1>1, <1>2, <1>3, SupInitTypes, PTL DEF SupSpec, BudgetInv
-----------------------------------------------------------------------------
(***************************************************************************)
(* One writer, also with viewers that start the stream and tools that      *)
(* rewrite its row: the argument of StreamWorkerProofs never looks at the  *)
(* row.                                                                    *)
(***************************************************************************)
LEMMA SupStepSerial ==
  ASSUME Overlap = FALSE, SupInv, SerialInv, [SupNext]_allVars
  PROVE  SerialInv'
<1>1. CASE [Next]_vars
  BY <1>1, StepSerial DEF SupInv, SupTypeOK
<1>2. CASE ResetCrashed \/ RestartAllStreams
  BY <1>2 DEF ResetCrashed, RestartAllStreams, SerialInv, SingleWriter, Running
<1> QED BY <1>1, <1>2, Driven DEF SupInv

(* Without overlapping requests at most one ffmpeg writes into the output  *)
(* directory, whoever starts and stops it.                                 *)
THEOREM OneWriterSupervised ==
  ASSUME Overlap = FALSE
  PROVE  SupSpec => []SingleWriter
<1>1. SupInv /\ SerialInv /\ [SupNext]_allVars => SupInv' /\ SerialInv'
  BY SupStepTypes, SupStepWake, SupStepSerial DEF SupInv
<1>2. SupInit => SerialInv
  BY InitSerial DEF SupInit
<1> QED BY <1>1, <1>2, SupInitTypes, PTL DEF SupSpec, SerialInv
-----------------------------------------------------------------------------
(***************************************************************************)
(* What the row says of the worker.  From the step that takes the worker   *)
(* away or puts it there until the write that says so, the row is late     *)
(* (Late); while nobody is late a running worker has a RUNNING row, unless *)
(* a restart-all rewrote it.  A PROXY stream has no worker.                *)
(***************************************************************************)
Gone == {"stopWrite", "replaceWrite"} \cup (ExitPcs \ {"timer"})
Late == Gone \cup {"runningWrite"}

Told == \A t \in Tasks : pc[t] \notin Late

ModeInv ==
  /\ row.streamMode = "PROXY" => worker = NoProc
  /\ \A t \in Tasks : pc[t] \in {"check", "replaceWrite"} => loc[t].mode = row.streamMode
  /\ \A t \in Tasks : pc[t] \in {"replaceWrite", "spawn", "runningWrite"} => row.streamMode # "PROXY"
  /\ \A t \in Tasks : pc[t] = "proxyWrite" => row.streamMode = "PROXY"

ToldInv ==
  /\ stopping = {}
  /\ \A t \in Tasks : pc[t] \in Gone \cup {"resetWrite"} => worker = NoProc
  /\ Told /\ worker \in alive \ toRestart => row.workerStatus = "RUNNING"
  /\ \A v \in Viewers : pc[v] \in {"read", "check"} => worker \notin alive \ toRestart

StaleInv == ModeInv /\ ToldInv

\* A start that spawns, or fails to, leaves only itself to be told of.
LEMMA LaunchEnds ==
  ASSUME TypeOK, SerialInv, NEW t \in Tasks, pc[t] \in {"replaceWrite", "spawn"}, Launch(t)
  PROVE  /\ \A u \in Tasks : u # t => pc'[u] = pc[u] /\ loc'[u] = loc[u] /\ pc[u] \in {"idle", "timer"}
         /\ pc'[t] = "runningWrite" \/ (pc'[t] = "idle" /\ worker' = NoProc)
         /\ NoProc \notin alive'
<1> USE SetsAssumption DEF TypeOK, SerialInv, Running, Tasks, Goto
<1>1. \A u \in Tasks : u # t => pc[u] \in {"idle", "timer"}
  OBVIOUS
<1>2. CASE Finish(t) /\ UNCHANGED <<worker, alive, activeUrl>>
  BY <1>1, <1>2 DEF Finish
<1>3. ASSUME NEW p \in Procs, FreeSlot(p), worker' = p, Goto(t, "runningWrite"),
             \/ alive' = alive \cup {p} /\ loc' = [loc EXCEPT ![t].pid = p]
             \/ UNCHANGED <<alive, loc>>
      PROVE  /\ \A u \in Tasks : u # t => pc'[u] = pc[u] /\ loc'[u] = loc[u]
             /\ pc'[t] = "runningWrite" /\ NoProc \notin alive'
  BY <1>3
<1> QED BY <1>1, <1>2, <1>3 DEF Launch

\* A step of the supervisor that no viewer's wake comes before.
LEMMA FollowStale ==
  ASSUME Overlap = FALSE, TypeOK, SerialInv, StaleInv, Follow,
         \/ \E c \in Operators : Begin(c)
         \/ \E c \in Calls : CallStep(c)
         \/ \E p \in Procs : ProcExit(p) \/ ExitStep(p)
         \/ ApiRestart
  PROVE  StaleInv'
<1> USE SetsAssumption, ViewersAssumption
    DEF TypeOK, RowType, Locals, Tasks, SerialInv, SingleWriter, Running, StaleInv, ModeInv,
        ToldInv, Told, Late, Gone, ExitPcs, Follow, Goto
<1>1. ASSUME NEW c \in Operators, Begin(c) PROVE StaleInv'
  <2>1. c \in Calls /\ c \notin Viewers
    BY DEF Operators
  <2> QED BY <1>1, <2>1 DEF Begin, StopNow, Allowed, Quiet
<1>2. ASSUME NEW c \in Calls, WriteStopped(c) PROVE StaleInv'
  BY <1>2 DEF WriteStopped, SetRow
<1>3. ASSUME NEW c \in Calls, WriteReset(c) PROVE StaleInv'
  BY <1>3 DEF WriteReset
<1>4. ASSUME NEW t \in Tasks, ReadStream(t) PROVE StaleInv'
  BY <1>4 DEF ReadStream
<1>5. ASSUME NEW t \in Tasks, CheckStream(t) PROVE StaleInv'
  BY <1>5 DEF CheckStream, StopNow, Prepare, Launch, Finish, FreeSlot
<1>6. ASSUME NEW t \in Tasks, WriteProxyIdle(t) PROVE StaleInv'
  BY <1>6 DEF WriteProxyIdle, Finish, SetRow
<1>7. ASSUME NEW t \in Tasks, WriteReplaced(t) PROVE StaleInv'
  <2>1. /\ pc[t] = "replaceWrite" /\ Prepare(t, loc[t].mode) /\ stopping' = stopping
        /\ row'.streamMode = row.streamMode
    BY <1>7 DEF WriteReplaced, SetRow
  <2>2. CASE Launch(t)
    <3>1. /\ \A u \in Tasks : u # t => pc'[u] = pc[u] /\ loc'[u] = loc[u] /\ pc[u] \in {"idle", "timer"}
          /\ pc'[t] = "runningWrite" \/ (pc'[t] = "idle" /\ worker' = NoProc)
      BY <2>1, <2>2, LaunchEnds
    <3>2. row.streamMode # "PROXY"
      BY <2>1
    <3>3. ModeInv'
      BY <2>1, <3>1, <3>2
    <3>4. NoProc \notin alive'
      BY <2>1, <2>2, LaunchEnds
    <3>5. ToldInv'
      BY <2>1, <3>1, <3>4
    <3> QED BY <3>3, <3>5
  <2>3. CASE Goto(t, "spawn") /\ UNCHANGED <<worker, alive, activeUrl, loc, origin>>
    BY <2>1, <2>3
  <2> QED BY <2>1, <2>2, <2>3 DEF Prepare
<1>8. ASSUME NEW t \in Tasks, SpawnTranscode(t) PROVE StaleInv'
  <2>1. pc[t] = "spawn" /\ Launch(t) /\ stopping' = stopping /\ row' = row
    BY <1>8 DEF SpawnTranscode
  <2>2. /\ \A u \in Tasks : u # t => pc'[u] = pc[u] /\ loc'[u] = loc[u] /\ pc[u] \in {"idle", "timer"}
        /\ pc'[t] = "runningWrite" \/ (pc'[t] = "idle" /\ worker' = NoProc)
        /\ NoProc \notin alive'
    BY <2>1, LaunchEnds
  <2>3. row.streamMode # "PROXY"
    BY <2>1
  <2>4. ModeInv'
    BY <2>1, <2>2, <2>3
  <2>5. ToldInv'
    BY <2>1, <2>2
  <2> QED BY <2>4, <2>5
<1>9. ASSUME NEW t \in Tasks, WriteRunning(t) PROVE StaleInv'
  BY <1>9 DEF WriteRunning, Finish, SetRow
<1>10. ASSUME NEW p \in Procs, ProcExit(p) PROVE StaleInv'
  BY <1>10 DEF ProcExit, Allowed, Quiet
<1>11. ASSUME NEW p \in Procs, ReadRestartCount(p) PROVE StaleInv'
  BY <1>11 DEF ReadRestartCount
<1>12. ASSUME NEW p \in Procs, WriteCrashed(p) PROVE StaleInv'
  BY <1>12 DEF WriteCrashed, SetRow
<1>13. ASSUME NEW p \in Procs, ReadBackups(p) PROVE StaleInv'
  BY <1>13 DEF ReadBackups
<1>14. ASSUME NEW p \in Procs, WriteFailover(p) PROVE StaleInv'
  BY <1>14 DEF WriteFailover, SetRow
<1>15. ASSUME NEW p \in Procs, WriteFinal(p) PROVE StaleInv'
  BY <1>15 DEF WriteFinal, Finish, SetRow
<1>16. ASSUME NEW p \in Procs, TimerFires(p) PROVE StaleInv'
  BY <1>16 DEF TimerFires, Allowed, Quiet
<1>17. CASE ApiRestart
  BY <1>17 DEF ApiRestart
<1> QED
  BY <1>1, <1>2, <1>3, <1>4, <1>5, <1>6, <1>7, <1>8, <1>9, <1>10, <1>11, <1>12,
     <1>13, <1>14, <1>15, <1>16, <1>17
     DEF CallStep, ExitStep, StartStep, Tasks

\* Nothing comes between a viewer's look at the row and its start.
OffInv == \A v \in Viewers : viewer[v] = "wake" => row.workerStatus \in {"IDLE", "STOPPED"}

LEMMA SupStepOff ==
  ASSUME Overlap = FALSE, SupInv, OffInv, [SupNext]_allVars
  PROVE  OffInv'
<1> USE DEF OffInv
<1>1. CASE Turn /\ viewer' = viewer
  BY <1>1 DEF Turn
<1>2. CASE row' = row /\ viewer' = viewer
  BY <1>2
<1>3. ASSUME NEW v \in Viewers, ViewerStep(v) PROVE OffInv'
  <2>0. viewer \in [Viewers -> {"away", "asked", "wake", "waking", "late", "refused", "served", "proxied"}]
        /\ v \in Calls
    BY ViewersAssumption DEF SupInv, SupTypeOK
  <2>1. CASE Request(v) \/ Poll(v) \/ Answer(v) \/ AutoStart(v)
    BY <2>0, <2>1 DEF Request, Poll, Answer, AutoStart, vars
  <2>2. CASE ReadStatus(v)
    <3>1. row' = row /\ \A w \in Viewers : w # v => viewer'[w] = viewer[w]
      BY <2>0, <2>2 DEF ReadStatus, vars
    <3>2. viewer'[v] = "wake" => row.workerStatus \in {"IDLE", "STOPPED"}
      BY <2>0, <2>2 DEF ReadStatus
    <3> QED BY <3>1, <3>2
  <2>3. CASE WakeStep(v)
    <3>1. viewer' = viewer /\ pc[v] \notin {"idle", "timer"}
      BY <2>0, <2>3, CallStepFacts DEF WakeStep
    <3>2. \A w \in Viewers : viewer[w] # "wake"
      BY <2>0, <3>1 DEF SupInv, WakeInv, Allowed, Quiet, Tasks
    <3> QED BY <3>1, <3>2
  <2> QED BY <1>3, <2>1, <2>2, <2>3 DEF ViewerStep
<1> QED
  BY <1>1, <1>2, <1>3 DEF SupNext, OperatorStep, SupervisorStep, WriteManifest, ResetCrashed,
     RestartAllStreams, allVars, vars, supervisionVars

LEMMA SupStepStale ==
  ASSUME Overlap = FALSE, SupInv, SerialInv, StaleInv, OffInv, [SupNext]_allVars
  PROVE  StaleInv'
<1> USE SetsAssumption, ViewersAssumption
<1>0. TypeOK
  BY DEF SupInv, SupTypeOK
<1>1. CASE UNCHANGED <<vars, toRestart>>
  BY <1>1 DEF StaleInv, ModeInv, ToldInv, Told, vars
<1>2. CASE (\E c \in Operators : OperatorStep(c)) \/ SupervisorStep \/ \E v \in Viewers : WakeStep(v)
  BY <1>0, <1>2, FollowStale DEF OperatorStep, SupervisorStep, WakeStep, Operators
<1>3. ASSUME NEW v \in Viewers, AutoStart(v) PROVE StaleInv'
  <2>1. /\ v \in Calls /\ row.workerStatus \in {"IDLE", "STOPPED"} /\ Quiet
        /\ pc' = [pc EXCEPT ![v] = "read"]
        /\ UNCHANGED <<row, worker, alive, stopping, loc, toRestart>>
    BY <1>3 DEF AutoStart, Goto, SupInv, WakeInv, OffInv, Allowed
  <2>2. worker \notin alive \ toRestart
    BY <2>1 DEF StaleInv, ToldInv, Told, Late, Gone, ExitPcs, Quiet
  <2> QED BY <1>0, <2>1, <2>2 DEF StaleInv, ModeInv, ToldInv, Gone, ExitPcs, Quiet, TypeOK, Tasks
<1>4. CASE ResetCrashed
  BY <1>0, <1>4 DEF ResetCrashed, SetRow, TypeOK, RowType, StaleInv, ModeInv, ToldInv, Told, supervisionVars
<1>5. CASE RestartAllStreams
  BY <1>0, <1>5 DEF RestartAllStreams, TypeOK, RowType, StaleInv, ModeInv, ToldInv, Told
<1> QED
  BY <1>1, <1>2, <1>3, <1>4, <1>5 DEF SupNext, ViewerStep, WriteManifest, Request, ReadStatus, Poll, Answer, allVars,
     supervisionVars

LEMMA SupInitStale == SupInit => SerialInv /\ StaleInv /\ OffInv
<1> SUFFICES ASSUME SupInit PROVE StaleInv /\ OffInv
  BY InitSerial DEF SupInit
<1>1. /\ worker = NoProc /\ alive = {} /\ stopping = {} /\ \A t \in Tasks : pc[t] = "idle"
      /\ \A v \in Viewers : v \in Tasks /\ viewer[v] = "away"
  BY ViewersAssumption DEF SupInit, Init, Tasks
<1> QED BY <1>1 DEF StaleInv, ModeInv, ToldInv, OffInv

(* Without overlap a viewer's auto-start stops a running ffmpeg only if a  *)
(* restart-all has made its row say that the stream is off.                *)
THEOREM AutoStartNeverReplacesHolds ==
  ASSUME Overlap = FALSE
  PROVE  SupSpec => AutoStartNeverReplaces
<1> DEFINE Inv == SupInv /\ SerialInv /\ StaleInv /\ OffInv
<1>1. SupInit => Inv
  BY SupInitTypes, SupInitStale
<1>2. Inv /\ [SupNext]_allVars => Inv'
  BY SupStepTypes, SupStepWake, SupStepSerial, SupStepStale, SupStepOff DEF SupInv
<1>3. Inv /\ [SupNext]_allVars =>
        [\A v \in Viewers :
           pc[v] = "check" /\ pc'[v] = "replaceWrite" => worker \notin alive \ toRestart]_allVars
  BY DEF StaleInv, ToldInv
<1> HIDE DEF Inv
<1> QED BY <1>1, <1>2, <1>3, PTL DEF SupSpec, AutoStartNeverReplaces
-----------------------------------------------------------------------------
(***************************************************************************)
(* The row tells the truth, if every spawn has a process: a RUNNING row    *)
(* that nobody is late to change names the process that runs.              *)
(***************************************************************************)
RowInv ==
  /\ worker # NoProc => worker \in alive
  /\ \A t \in Tasks : pc[t] = "runningWrite" => worker # NoProc /\ loc[t].pid = worker
  /\ Told /\ row.workerStatus = "RUNNING" /\ apiRestarts = 0 => worker # NoProc /\ row.ffmpegPid = worker

LEMMA StepRow ==
  ASSUME Overlap = FALSE, "error" \notin SpawnOutcomes, TypeOK, SerialInv, StaleInv, RowInv, [Next]_vars
  PROVE  RowInv'
<1> USE SetsAssumption
    DEF TypeOK, RowType, Locals, Tasks, SerialInv, SingleWriter, Running, RowInv, Told, Late, Gone, ExitPcs, Goto
<1>1. ASSUME NEW c \in Calls, Begin(c) PROVE RowInv'
  BY <1>1 DEF Begin, StopNow, Allowed, Quiet
<1>2. ASSUME NEW c \in Calls, WriteStopped(c) PROVE RowInv'
  BY <1>2 DEF WriteStopped, SetRow
<1>3. ASSUME NEW c \in Calls, WriteReset(c) PROVE RowInv'
  BY <1>3 DEF WriteReset
<1>4. ASSUME NEW t \in Tasks, ReadStream(t) PROVE RowInv'
  BY <1>4 DEF ReadStream
<1>6. ASSUME NEW t \in Tasks, WriteProxyIdle(t) PROVE RowInv'
  BY <1>6 DEF WriteProxyIdle, Finish, SetRow
<1>9. ASSUME NEW t \in Tasks, WriteRunning(t) PROVE RowInv'
  BY <1>9 DEF WriteRunning, Finish, SetRow
<1>10. ASSUME NEW p \in Procs, ProcExit(p) PROVE RowInv'
  BY <1>10 DEF ProcExit, Allowed, Quiet, StaleInv, ToldInv
<1>11. ASSUME NEW p \in Procs, ReadRestartCount(p) PROVE RowInv'
  BY <1>11 DEF ReadRestartCount
<1>12. ASSUME NEW p \in Procs, WriteCrashed(p) PROVE RowInv'
  BY <1>12 DEF WriteCrashed, SetRow
<1>13. ASSUME NEW p \in Procs, ReadBackups(p) PROVE RowInv'
  BY <1>13 DEF ReadBackups
<1>14. ASSUME NEW p \in Procs, WriteFailover(p) PROVE RowInv'
  BY <1>14 DEF WriteFailover, SetRow
<1>15. ASSUME NEW p \in Procs, WriteFinal(p) PROVE RowInv'
  BY <1>15 DEF WriteFinal, Finish, SetRow
<1>16. ASSUME NEW p \in Procs, TimerFires(p) PROVE RowInv'
  BY <1>16 DEF TimerFires, Allowed, Quiet
<1>17. CASE ApiRestart
  BY <1>17 DEF ApiRestart
<1>18. CASE UNCHANGED vars
  BY <1>18 DEF vars
<1>19. ASSUME NEW t \in Tasks, pc[t] \in {"check", "replaceWrite", "spawn"}, worker = NoProc, Launch(t),
              apiRestarts' = apiRestarts, row'.workerStatus # "RUNNING" \/ apiRestarts > 0
       PROVE  RowInv'
  <2>1. \A u \in Tasks : u # t => pc[u] \in {"idle", "timer"}
    BY <1>19
  <2>2. CASE Finish(t) /\ UNCHANGED <<worker, alive, activeUrl>>
    BY <1>19, <2>1, <2>2 DEF Finish
  <2>3. ASSUME NEW p \in Procs, worker' = p, Goto(t, "runningWrite"), alive' = alive \cup {p},
               loc' = [loc EXCEPT ![t].pid = p]
        PROVE  RowInv'
    <3>1. pc'[t] = "runningWrite" /\ loc'[t].pid = p /\ \A u \in Tasks : u # t => pc'[u] # "runningWrite"
      BY <2>1, <2>3
    <3> QED BY <2>3, <3>1
  <2> QED BY <1>19, <2>2, <2>3 DEF Launch
<1>20. ASSUME NEW t \in Tasks, pc[t] \in {"read", "check", "spawn"}, worker = NoProc
       PROVE  row.workerStatus # "RUNNING" \/ apiRestarts > 0
  BY <1>20
<1>5. ASSUME NEW t \in Tasks, CheckStream(t) PROVE RowInv'
  <2>1. CASE Goto(t, "proxyWrite") /\ UNCHANGED <<worker, alive, loc>>
    BY <1>5, <2>1 DEF CheckStream
  <2>2. CASE StopNow /\ Goto(t, "replaceWrite") /\ UNCHANGED loc
    BY <1>5, <2>2 DEF CheckStream, StopNow
  <2>3. CASE worker = NoProc /\ Goto(t, "spawn") /\ UNCHANGED <<worker, alive, loc>>
    BY <1>5, <2>3 DEF CheckStream
  <2>4. CASE worker = NoProc /\ Launch(t)
    BY <1>5, <1>19, <1>20, <2>4 DEF CheckStream
  <2> QED BY <1>5, <2>1, <2>2, <2>3, <2>4 DEF CheckStream, Prepare
<1>7. ASSUME NEW t \in Tasks, WriteReplaced(t) PROVE RowInv'
  <2>1. pc[t] = "replaceWrite" /\ worker = NoProc /\ row'.workerStatus = "STOPPED" /\ apiRestarts' = apiRestarts
    BY <1>7 DEF WriteReplaced, SetRow
  <2>2. \A u \in Tasks : u # t => pc[u] \in {"idle", "timer"}
    BY <2>1
  <2>3. CASE Goto(t, "spawn") /\ UNCHANGED <<worker, alive, activeUrl, loc, origin>>
    BY <2>1, <2>2, <2>3
  <2>4. CASE Launch(t)
    BY <1>19, <2>1, <2>4
  <2> QED BY <1>7, <2>3, <2>4 DEF WriteReplaced, Prepare
<1>8. ASSUME NEW t \in Tasks, SpawnTranscode(t) PROVE RowInv'
  BY <1>8, <1>19, <1>20 DEF SpawnTranscode
<1> QED
  BY <1>1, <1>2, <1>3, <1>4, <1>5, <1>6, <1>7, <1>8, <1>9, <1>10, <1>11, <1>12,
     <1>13, <1>14, <1>15, <1>16, <1>17, <1>18
     DEF Next, CallStep, ExitStep, StartStep

LEMMA SupStepRow ==
  ASSUME Overlap = FALSE, "error" \notin SpawnOutcomes, SupInv, SerialInv, StaleInv, RowInv, [SupNext]_allVars
  PROVE  RowInv'
<1>0. TypeOK
  BY DEF SupInv, SupTypeOK
<1>1. CASE [Next]_vars
  BY <1>0, <1>1, StepRow
<1>2. CASE ResetCrashed \/ RestartAllStreams
  BY <1>0, <1>2 DEF ResetCrashed, RestartAllStreams, SetRow, TypeOK, RowType, RowInv, Told
<1> QED BY <1>1, <1>2, Driven DEF SupInv

(* Without overlap and spawn errors, whenever nothing is in flight the row *)
(* says RUNNING exactly when a process runs, and names that process; unless*)
(* a restart-all or the death of the API has made it lie.                  *)
THEOREM RowMatchesWorkerHolds ==
  ASSUME Overlap = FALSE, "error" \notin SpawnOutcomes
  PROVE  SupSpec => []RowMatchesWorker
<1> DEFINE Inv == SupInv /\ SerialInv /\ StaleInv /\ OffInv /\ RowInv
<1>1. SupInit => Inv
  <2>1. SupInit => RowInv
    BY DEF SupInit, Init, RowInv
  <2> QED BY <2>1, SupInitTypes, SupInitStale
<1>2. Inv /\ [SupNext]_allVars => Inv'
  BY SupStepTypes, SupStepWake, SupStepSerial, SupStepStale, SupStepOff, SupStepRow DEF SupInv
<1>3. Inv => RowMatchesWorker
  <2> SUFFICES ASSUME Inv, AtRest, toRestart = {}, apiRestarts = 0
               PROVE  /\ row.workerStatus = "RUNNING" <=> worker # NoProc
                      /\ row.workerStatus = "RUNNING" => alive = {row.ffmpegPid}
    BY DEF RowMatchesWorker
  <2>1. Told
    BY DEF AtRest, Busy, Told, Late, Gone, ExitPcs
  <2>2. worker # NoProc => worker \in alive /\ row.workerStatus = "RUNNING"
    BY <2>1 DEF RowInv, StaleInv, ToldInv
  <2>3. row.workerStatus = "RUNNING" => worker # NoProc /\ row.ffmpegPid = worker
    BY <2>1 DEF RowInv
  <2>4. alive \subseteq {worker}
    BY DEF SerialInv, SingleWriter
  <2> QED BY <2>2, <2>3, <2>4
<1> HIDE DEF Inv
<1> QED BY <1>1, <1>2, <1>3, PTL DEF SupSpec
=============================================================================
