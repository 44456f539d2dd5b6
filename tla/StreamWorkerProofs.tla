------------------------- MODULE StreamWorkerProofs -------------------------
(***************************************************************************)
(* Proofs about StreamWorker, for every set of calls and process slots,    *)
(* every restart budget and list of backups, every mode and spawn outcome, *)
(* with and without overlapping requests.                                  *)
(***************************************************************************)
EXTENDS StreamWorker, FiniteSetTheorems, TLAPS
-----------------------------------------------------------------------------
LEMMA UrlFacts ==
  /\ PrimaryUrl \in Urls
  /\ \A i \in DOMAIN Backups : Backups[i] \in Urls
BY DEF Urls

LEMMA NoLocalsType == NoLocals \in Locals
BY UrlFacts DEF NoLocals, Locals, AllModes

(* What the shared pieces of several actions do to the types.              *)
LEMMA FinishType ==
  ASSUME TypeOK, NEW t \in Tasks, Finish(t)
  PROVE  /\ pc' \in [Tasks -> Pcs]
         /\ loc' \in [Tasks -> Locals]
         /\ origin' \in [Procs -> Calls \cup {NoCall}]
BY NoLocalsType DEF TypeOK, Finish, Goto, Pcs

LEMMA StopNowType ==
  ASSUME TypeOK, StopNow
  PROVE  /\ alive' \in SUBSET Procs
         /\ stopping' \in SUBSET Procs
         /\ origin' \in [Procs -> Calls \cup {NoCall}]
         /\ worker' \in Procs \cup {NoProc}
         /\ activeUrl' \in Urls
         /\ hlsDir' \in BOOLEAN
BY UrlFacts DEF TypeOK, StopNow

LEMMA LaunchType ==
  ASSUME TypeOK, NEW t \in Tasks, Launch(t)
  PROVE  /\ worker' \in Procs \cup {NoProc}
         /\ alive' \in SUBSET Procs
         /\ activeUrl' \in Urls
         /\ pc' \in [Tasks -> Pcs]
         /\ loc' \in [Tasks -> Locals]
         /\ origin' \in [Procs -> Calls \cup {NoCall}]
<1>1. CASE Finish(t) /\ UNCHANGED <<worker, alive, activeUrl>>
  BY <1>1, FinishType DEF TypeOK
<1>2. ASSUME NEW p \in Procs, worker' = p, activeUrl' = loc[t].url,
             Goto(t, "runningWrite"),
             \/ /\ alive' = alive \cup {p}
                /\ loc' = [loc EXCEPT ![t].pid = p]
                /\ origin' = [origin EXCEPT ![p] = OriginOf(t)]
             \/ UNCHANGED <<alive, loc, origin>>
      PROVE  /\ worker' \in Procs \cup {NoProc}
             /\ alive' \in SUBSET Procs
             /\ activeUrl' \in Urls
             /\ pc' \in [Tasks -> Pcs]
             /\ loc' \in [Tasks -> Locals]
             /\ origin' \in [Procs -> Calls \cup {NoCall}]
  <2>1. loc' \in [Tasks -> Locals]
    BY <1>2 DEF TypeOK, Locals
  <2>2. OriginOf(t) \in Calls \cup {NoCall}
    BY DEF TypeOK, OriginOf, Tasks
  <2>3. origin' \in [Procs -> Calls \cup {NoCall}]
    BY <1>2, <2>2 DEF TypeOK
  <2>4. activeUrl' \in Urls
    BY <1>2 DEF TypeOK, Locals
  <2>5. pc' \in [Tasks -> Pcs]
    BY <1>2 DEF TypeOK, Goto, Pcs, StartPcs
  <2> QED
    BY <1>2, <2>1, <2>3, <2>4, <2>5 DEF TypeOK
<1> QED
  BY <1>1, <1>2 DEF Launch

LEMMA PrepareType ==
  ASSUME TypeOK, NEW t \in Tasks, NEW mode, Prepare(t, mode)
  PROVE  /\ worker' \in Procs \cup {NoProc}
         /\ alive' \in SUBSET Procs
         /\ activeUrl' \in Urls
         /\ hlsDir' \in BOOLEAN
         /\ pc' \in [Tasks -> Pcs]
         /\ loc' \in [Tasks -> Locals]
         /\ origin' \in [Procs -> Calls \cup {NoCall}]
<1>1. CASE Launch(t)
  BY <1>1, LaunchType DEF Prepare
<1>2. CASE Goto(t, "spawn") /\ UNCHANGED <<worker, alive, activeUrl, loc, origin>>
  BY <1>2 DEF TypeOK, Prepare, Goto, Pcs, StartPcs
<1> QED
  BY <1>1, <1>2 DEF Prepare

LEMMA InitTypes == Init => TypeOK
<1> USE SetsAssumption, ParametersAssumption, UrlFacts
<1> SUFFICES ASSUME Init PROVE TypeOK
  OBVIOUS
<1>1. row \in RowType
  BY DEF Init, RowType, Statuses, AllModes
<1>2. loc \in [Tasks -> Locals]
  BY NoLocalsType DEF Init
<1> QED
  <2>1. pc \in [Tasks -> Pcs]
    BY DEF Init, Pcs
  <2>2. op \in [Calls -> Ops \cup {"none"}] /\ origin \in [Procs -> Calls \cup {NoCall}]
    BY DEF Init
  <2>3. apiRestarts \in 0..MaxApiRestarts
    BY DEF Init
  <2> QED
    BY <1>1, <1>2, <2>1, <2>2, <2>3 DEF Init, TypeOK

LEMMA StepTypes == TypeOK /\ [Next]_vars => TypeOK'
<1> USE SetsAssumption, ParametersAssumption, UrlFacts
<1> SUFFICES ASSUME TypeOK, [Next]_vars
             PROVE  TypeOK'
  OBVIOUS
<1> USE DEF TypeOK, Goto, Pcs, StartPcs, ExitPcs, Tasks
<1>1. ASSUME NEW c \in Calls, Begin(c) PROVE TypeOK'
  <2>1. PICK o \in Ops : op' = [op EXCEPT ![c] = o]
    BY <1>1 DEF Begin
  <2>2. op' \in [Calls -> Ops \cup {"none"}]
    BY <2>1
  <2>3. pc' \in [Tasks -> Pcs]
    BY <1>1 DEF Begin
  <2>4. CASE StopNow
    BY <1>1, <2>2, <2>3, <2>4, StopNowType DEF Begin
  <2>5. CASE UNCHANGED <<worker, alive, stopping, activeUrl, hlsDir, origin>>
    BY <1>1, <2>2, <2>3, <2>5 DEF Begin
  <2> QED
    BY <1>1, <2>4, <2>5 DEF Begin
<1>2. ASSUME NEW c \in Calls, WriteStopped(c) PROVE TypeOK'
  BY <1>2 DEF WriteStopped, SetRow, RowType, Statuses
<1>3. ASSUME NEW c \in Calls, WriteReset(c) PROVE TypeOK'
  BY <1>3 DEF WriteReset, RowType, Statuses
<1>4. ASSUME NEW t \in Tasks, ReadStream(t) PROVE TypeOK'
  BY <1>4 DEF ReadStream, RowType, Locals
<1>5. ASSUME NEW t \in Tasks, CheckStream(t) PROVE TypeOK'
  <2>1. CASE Goto(t, "proxyWrite") /\ UNCHANGED <<worker, alive, stopping, activeUrl, hlsDir, loc, origin>>
    BY <1>5, <2>1 DEF CheckStream
  <2>2. CASE StopNow /\ Goto(t, "replaceWrite") /\ UNCHANGED loc
    BY <1>5, <2>2, StopNowType DEF CheckStream
  <2>3. CASE Prepare(t, loc[t].mode) /\ UNCHANGED stopping
    BY <1>5, <2>3, PrepareType DEF CheckStream
  <2> QED
    BY <1>5, <2>1, <2>2, <2>3 DEF CheckStream
<1>6. ASSUME NEW t \in Tasks, WriteProxyIdle(t) PROVE TypeOK'
  BY <1>6, FinishType DEF WriteProxyIdle, SetRow, RowType, Statuses, Locals
<1>7. ASSUME NEW t \in Tasks, WriteReplaced(t) PROVE TypeOK'
  <2>1. row' \in RowType
    BY <1>7 DEF WriteReplaced, SetRow, RowType, Statuses
  <2> QED
    BY <1>7, <2>1, PrepareType DEF WriteReplaced
<1>8. ASSUME NEW t \in Tasks, SpawnTranscode(t) PROVE TypeOK'
  BY <1>8, LaunchType DEF SpawnTranscode
<1>9. ASSUME NEW t \in Tasks, WriteRunning(t) PROVE TypeOK'
  BY <1>9, FinishType DEF WriteRunning, SetRow, RowType, Statuses, Locals
<1>10. ASSUME NEW p \in Procs, ProcExit(p) PROVE TypeOK'
  BY <1>10 DEF ProcExit, Locals
<1>11. ASSUME NEW p \in Procs, ReadRestartCount(p) PROVE TypeOK'
  BY <1>11 DEF ReadRestartCount, RowType, Locals
<1>12. ASSUME NEW p \in Procs, WriteCrashed(p) PROVE TypeOK'
  <2>1. row' \in RowType
    <3>1. loc[p].count + 1 \in Nat
      BY DEF Locals
    <3> QED
      BY <1>12, <3>1 DEF WriteCrashed, SetRow, RowType, Statuses
  <2>2. loc' \in [Tasks -> Locals]
    BY <1>12 DEF WriteCrashed, Locals
  <2> QED
    BY <1>12, <2>1, <2>2 DEF WriteCrashed
<1>13. ASSUME NEW p \in Procs, ReadBackups(p) PROVE TypeOK'
  BY <1>13 DEF ReadBackups, NextBackups, Locals
<1>14. ASSUME NEW p \in Procs, WriteFailover(p) PROVE TypeOK'
  BY <1>14 DEF WriteFailover, SetRow, RowType, Statuses
<1>15. ASSUME NEW p \in Procs, WriteFinal(p) PROVE TypeOK'
  BY <1>15, FinishType DEF WriteFinal, SetRow, RowType, Statuses, Locals
<1>16. ASSUME NEW p \in Procs, TimerFires(p) PROVE TypeOK'
  BY <1>16 DEF TimerFires
<1>17. CASE ApiRestart
  <2>1. pc' \in [Tasks -> Pcs] /\ loc' \in [Tasks -> Locals]
    BY <1>17, NoLocalsType DEF ApiRestart
  <2>2. apiRestarts' \in 0..MaxApiRestarts
    BY <1>17 DEF ApiRestart
  <2> QED
    BY <1>17, <2>1, <2>2 DEF ApiRestart
<1>18. CASE UNCHANGED vars
  BY <1>18 DEF vars
<1> QED
  BY <1>1, <1>2, <1>3, <1>4, <1>5, <1>6, <1>7, <1>8, <1>9, <1>10, <1>11, <1>12,
     <1>13, <1>14, <1>15, <1>16, <1>17, <1>18
     DEF Next, CallStep, ExitStep, StartStep

(* Type invariant: every variable keeps its shape, whatever the parameters. *)
THEOREM TypeCorrect == Spec => []TypeOK
  BY InitTypes, StepTypes, PTL DEF Spec
-----------------------------------------------------------------------------
(***************************************************************************)
(* A stopping process is one that still runs, and it has left the map.     *)
(***************************************************************************)
StoppingInv == stopping \subseteq alive /\ EntryNeverStopping

LEMMA InitStopping == Init => StoppingInv
  BY SetsAssumption DEF Init, StoppingInv, EntryNeverStopping

LEMMA StepStopping == TypeOK /\ StoppingInv /\ [Next]_vars => StoppingInv'
<1> USE SetsAssumption
<1> SUFFICES ASSUME TypeOK, StoppingInv, [Next]_vars
             PROVE  StoppingInv'
  OBVIOUS
<1> USE DEF TypeOK, StoppingInv, EntryNeverStopping
<1>1. ASSUME NEW c \in Calls, Begin(c) PROVE StoppingInv'
  BY <1>1 DEF Begin, StopNow
<1>2. ASSUME NEW c \in Calls, WriteStopped(c) PROVE StoppingInv'
  BY <1>2 DEF WriteStopped, SetRow
<1>3. ASSUME NEW c \in Calls, WriteReset(c) PROVE StoppingInv'
  BY <1>3 DEF WriteReset
<1>4. ASSUME NEW t \in Tasks, ReadStream(t) PROVE StoppingInv'
  BY <1>4 DEF ReadStream
<1>5. ASSUME NEW t \in Tasks, CheckStream(t) PROVE StoppingInv'
  BY <1>5 DEF CheckStream, StopNow, Prepare, Launch, Finish, FreeSlot
<1>6. ASSUME NEW t \in Tasks, WriteProxyIdle(t) PROVE StoppingInv'
  BY <1>6 DEF WriteProxyIdle, Finish
<1>7. ASSUME NEW t \in Tasks, WriteReplaced(t) PROVE StoppingInv'
  BY <1>7 DEF WriteReplaced, Prepare, Launch, Finish, FreeSlot
<1>8. ASSUME NEW t \in Tasks, SpawnTranscode(t) PROVE StoppingInv'
  BY <1>8 DEF SpawnTranscode, Launch, Finish, FreeSlot
<1>9. ASSUME NEW t \in Tasks, WriteRunning(t) PROVE StoppingInv'
  BY <1>9 DEF WriteRunning, Finish
<1>10. ASSUME NEW p \in Procs, ProcExit(p) PROVE StoppingInv'
  BY <1>10 DEF ProcExit
<1>11. ASSUME NEW p \in Procs, ReadRestartCount(p) PROVE StoppingInv'
  BY <1>11 DEF ReadRestartCount
<1>12. ASSUME NEW p \in Procs, WriteCrashed(p) PROVE StoppingInv'
  BY <1>12 DEF WriteCrashed
<1>13. ASSUME NEW p \in Procs, ReadBackups(p) PROVE StoppingInv'
  BY <1>13 DEF ReadBackups
<1>14. ASSUME NEW p \in Procs, WriteFailover(p) PROVE StoppingInv'
  BY <1>14 DEF WriteFailover
<1>15. ASSUME NEW p \in Procs, WriteFinal(p) PROVE StoppingInv'
  BY <1>15 DEF WriteFinal, Finish
<1>16. ASSUME NEW p \in Procs, TimerFires(p) PROVE StoppingInv'
  BY <1>16 DEF TimerFires
<1>17. CASE ApiRestart
  BY <1>17 DEF ApiRestart
<1>18. CASE UNCHANGED vars
  BY <1>18 DEF vars
<1> QED
  BY <1>1, <1>2, <1>3, <1>4, <1>5, <1>6, <1>7, <1>8, <1>9, <1>10, <1>11, <1>12,
     <1>13, <1>14, <1>15, <1>16, <1>17, <1>18
     DEF Next, CallStep, ExitStep, StartStep, Tasks

(* handleExit never meets a stopping entry: its `state.stopping` test is    *)
(* always false when an entry is found.                                    *)
THEOREM EntryNeverStoppingHolds == Spec => []EntryNeverStopping
  BY InitStopping, StepStopping, TypeCorrect, PTL DEF Spec, StoppingInv
-----------------------------------------------------------------------------
(***************************************************************************)
(* The restart budget: between its read and its write a handler still      *)
(* holds a count below the budget.                                         *)
(***************************************************************************)
BudgetInv ==
  /\ RestartCountBounded
  /\ \A p \in Procs : pc[p] = "crashWrite" => loc[p].count < MaxRestarts

LEMMA InitBudget == Init => BudgetInv
  BY ParametersAssumption DEF Init, BudgetInv, RestartCountBounded, Tasks

LEMMA StepBudget == TypeOK /\ BudgetInv /\ [Next]_vars => BudgetInv'
<1> USE ParametersAssumption
<1> SUFFICES ASSUME TypeOK, BudgetInv, [Next]_vars
             PROVE  BudgetInv'
  OBVIOUS
<1> USE DEF TypeOK, RowType, Locals, Tasks, BudgetInv, RestartCountBounded
<1>1. ASSUME NEW c \in Calls, Begin(c) PROVE BudgetInv'
  BY <1>1 DEF Begin, Goto
<1>2. ASSUME NEW c \in Calls, WriteStopped(c) PROVE BudgetInv'
  BY <1>2 DEF WriteStopped, SetRow, Goto
<1>3. ASSUME NEW c \in Calls, WriteReset(c) PROVE BudgetInv'
  BY <1>3 DEF WriteReset, Goto
<1>4. ASSUME NEW t \in Tasks, ReadStream(t) PROVE BudgetInv'
  BY <1>4 DEF ReadStream, Goto
<1>5. ASSUME NEW t \in Tasks, CheckStream(t) PROVE BudgetInv'
  BY <1>5 DEF CheckStream, Goto, Prepare, Launch, Finish
<1>6. ASSUME NEW t \in Tasks, WriteProxyIdle(t) PROVE BudgetInv'
  BY <1>6 DEF WriteProxyIdle, Goto, SetRow, Finish
<1>7. ASSUME NEW t \in Tasks, WriteReplaced(t) PROVE BudgetInv'
  BY <1>7 DEF WriteReplaced, Goto, SetRow, Prepare, Launch, Finish
<1>8. ASSUME NEW t \in Tasks, SpawnTranscode(t) PROVE BudgetInv'
  BY <1>8 DEF SpawnTranscode, Goto, Launch, Finish
<1>9. ASSUME NEW t \in Tasks, WriteRunning(t) PROVE BudgetInv'
  BY <1>9 DEF WriteRunning, Goto, SetRow, Finish
<1>10. ASSUME NEW p \in Procs, ProcExit(p) PROVE BudgetInv'
  BY <1>10 DEF ProcExit, Goto
<1>11. ASSUME NEW p \in Procs, ReadRestartCount(p) PROVE BudgetInv'
  BY <1>11 DEF ReadRestartCount, Goto
<1>12. ASSUME NEW p \in Procs, WriteCrashed(p) PROVE BudgetInv'
  BY <1>12 DEF WriteCrashed, Goto, SetRow
<1>13. ASSUME NEW p \in Procs, ReadBackups(p) PROVE BudgetInv'
  BY <1>13 DEF ReadBackups, Goto
<1>14. ASSUME NEW p \in Procs, WriteFailover(p) PROVE BudgetInv'
  BY <1>14 DEF WriteFailover, Goto, SetRow
<1>15. ASSUME NEW p \in Procs, WriteFinal(p) PROVE BudgetInv'
  BY <1>15 DEF WriteFinal, Goto, SetRow, Finish
<1>16. ASSUME NEW p \in Procs, TimerFires(p) PROVE BudgetInv'
  BY <1>16 DEF TimerFires, Goto
<1>17. CASE ApiRestart
  BY <1>17 DEF ApiRestart
<1>18. CASE UNCHANGED vars
  BY <1>18 DEF vars
<1> QED
  BY <1>1, <1>2, <1>3, <1>4, <1>5, <1>6, <1>7, <1>8, <1>9, <1>10, <1>11, <1>12,
     <1>13, <1>14, <1>15, <1>16, <1>17, <1>18
     DEF Next, CallStep, ExitStep, StartStep

(* Concurrent exit handlers never push restartCount past the budget.       *)
THEOREM RestartCountBoundedHolds == Spec => []RestartCountBounded
  BY InitBudget, StepBudget, TypeCorrect, PTL DEF Spec, BudgetInv
-----------------------------------------------------------------------------
(***************************************************************************)
(* Processes never multiply.  Why the invariant is inductive: a process    *)
(* slot is either a running process or a task, never both; whatever holds  *)
(* a process descends from a call that has begun; and a step hands the     *)
(* hold of a call from one task to another, or drops it.                   *)
(***************************************************************************)
ProcOrTask == \A p \in Procs : Busy(p) => p \notin alive /\ p # worker

Descends == \A p \in Procs : p \in alive \/ Busy(p) => origin[p] \in Calls

NoneBeforeBegin ==
  \A c \in Calls : op[c] = "none" =>
    /\ ~Busy(c)
    /\ \A t \in Tasks : Holds(t) => OriginOf(t) # c

HoldInv == ProcOrTask /\ Descends /\ NoneBeforeBegin /\ OneProcessPerCall

LEMMA InitHold == Init => HoldInv
  BY SetsAssumption DEF Init, HoldInv, ProcOrTask, Descends, NoneBeforeBegin, OneProcessPerCall,
         Holds, Busy, OriginOf, Tasks

LEMMA StepHold == TypeOK /\ HoldInv /\ [Next]_vars => HoldInv'
<1> USE SetsAssumption
<1> SUFFICES ASSUME TypeOK, HoldInv, [Next]_vars
             PROVE  HoldInv'
  OBVIOUS
<1> USE DEF TypeOK, Tasks, Pcs, StartPcs, ExitPcs, HoldInv, ProcOrTask, Descends, NoneBeforeBegin, OneProcessPerCall,
       Holds, Busy, OriginOf
<1>1. ASSUME NEW c \in Calls, Begin(c) PROVE HoldInv'
  <2>1. op[c] = "none" /\ op'[c] # "none" /\ \A d \in Calls \ {c} : op'[d] = op[d]
    BY <1>1 DEF Begin, Ops
  <2>2. \A t \in Tasks \ {c} : pc'[t] = pc[t]
    BY <1>1 DEF Begin, Goto
  <2>3. CASE StopNow
    BY <1>1, <2>1, <2>2, <2>3 DEF StopNow
  <2>4. CASE UNCHANGED <<worker, alive, stopping, activeUrl, hlsDir, origin>>
    BY <1>1, <2>1, <2>2, <2>4
  <2> QED
    BY <1>1, <2>3, <2>4 DEF Begin
<1>2. ASSUME NEW c \in Calls, WriteStopped(c) PROVE HoldInv'
  BY <1>2 DEF WriteStopped, Goto
<1>3. ASSUME NEW c \in Calls, WriteReset(c) PROVE HoldInv'
  BY <1>3 DEF WriteReset, Goto
<1>4. ASSUME NEW t \in Tasks, ReadStream(t) PROVE HoldInv'
  BY <1>4 DEF ReadStream, Goto
<1>5. ASSUME NEW t \in Tasks, CheckStream(t) PROVE HoldInv'
  BY <1>5 DEF CheckStream, Goto, StopNow, Prepare, Launch, Finish, FreeSlot
<1>6. ASSUME NEW t \in Tasks, WriteProxyIdle(t) PROVE HoldInv'
  BY <1>6 DEF WriteProxyIdle, Goto, Finish
<1>7. ASSUME NEW t \in Tasks, WriteReplaced(t) PROVE HoldInv'
  BY <1>7 DEF WriteReplaced, Goto, Prepare, Launch, Finish, FreeSlot
<1>8. ASSUME NEW t \in Tasks, SpawnTranscode(t) PROVE HoldInv'
  BY <1>8 DEF SpawnTranscode, Goto, Launch, Finish, FreeSlot
<1>9. ASSUME NEW t \in Tasks, WriteRunning(t) PROVE HoldInv'
  BY <1>9 DEF WriteRunning, Goto, Finish
<1>10. ASSUME NEW p \in Procs, ProcExit(p) PROVE HoldInv'
  BY <1>10 DEF ProcExit, Goto
<1>11. ASSUME NEW p \in Procs, ReadRestartCount(p) PROVE HoldInv'
  BY <1>11 DEF ReadRestartCount, Goto
<1>12. ASSUME NEW p \in Procs, WriteCrashed(p) PROVE HoldInv'
  BY <1>12 DEF WriteCrashed, Goto
<1>13. ASSUME NEW p \in Procs, ReadBackups(p) PROVE HoldInv'
  BY <1>13 DEF ReadBackups, Goto
<1>14. ASSUME NEW p \in Procs, WriteFailover(p) PROVE HoldInv'
  BY <1>14 DEF WriteFailover, Goto
<1>15. ASSUME NEW p \in Procs, WriteFinal(p) PROVE HoldInv'
  BY <1>15 DEF WriteFinal, Goto, Finish
<1>16. ASSUME NEW p \in Procs, TimerFires(p) PROVE HoldInv'
  BY <1>16 DEF TimerFires, Goto
<1>17. CASE ApiRestart
  BY <1>17 DEF ApiRestart
<1>18. CASE UNCHANGED vars
  BY <1>18 DEF vars
<1> QED
  BY <1>1, <1>2, <1>3, <1>4, <1>5, <1>6, <1>7, <1>8, <1>9, <1>10, <1>11, <1>12,
     <1>13, <1>14, <1>15, <1>16, <1>17, <1>18
     DEF Next, CallStep, ExitStep, StartStep

(* However exits, timers, stops and starts interleave, a call has at most  *)
(* one descendant that runs, or is going to run, an ffmpeg.                *)
THEOREM OneProcessPerCallHolds == Spec => []OneProcessPerCall
  BY InitHold, StepHold, TypeCorrect, PTL DEF Spec, HoldInv

(* The number of processes follows: whatever overlaps, crashes, fails over *)
(* and is stopped, no more of them run than requests have come.            *)
ProcessesCounted ==
  IsFiniteSet(alive) /\ Cardinality(alive) <= Cardinality({c \in Calls : op[c] # "none"})

LEMMA HoldCounts ==
  ASSUME IsFiniteSet(Calls), TypeOK, HoldInv
  PROVE  ProcessesCounted
<1> DEFINE Come == {c \in Calls : op[c] # "none"}
           f == [p \in alive |-> origin[p]]
<1>1. alive \subseteq Tasks /\ \A p \in alive : Holds(p) /\ OriginOf(p) = origin[p]
  BY SetsAssumption DEF TypeOK, Tasks, Holds, OriginOf
<1>2. \A p \in alive : origin[p] \in Come
  BY <1>1 DEF TypeOK, HoldInv, Descends, NoneBeforeBegin
<1>3. \A p, q \in alive : origin[p] = origin[q] => p = q
  BY <1>1 DEF HoldInv, OneProcessPerCall
<1>4. f \in Injection(alive, Come)
  BY <1>2, <1>3 DEF Injection, IsInjective
<1>5. IsFiniteSet(Come)
  BY FS_Subset
<1> HIDE DEF f
<1>6. IsFiniteSet(alive) /\ Cardinality(alive) <= Cardinality(Come)
  BY <1>4, <1>5, FS_Injection
<1> QED BY <1>6 DEF ProcessesCounted

(* At most as many ffmpeg processes of a stream run as calls have begun.   *)
THEOREM ProcessesCountedHolds ==
  ASSUME IsFiniteSet(Calls)
  PROVE  Spec => []ProcessesCounted
  BY InitHold, StepHold, HoldCounts, TypeCorrect, PTL DEF Spec
-----------------------------------------------------------------------------
(***************************************************************************)
(* One writer at a time, when requests do not overlap.  One task at most   *)
(* runs code; while it is about to spawn, the map is empty, so no process  *)
(* runs, and once the directory is made nothing removes it before the      *)
(* spawn.                                                                  *)
(***************************************************************************)
Running(t) == pc[t] \notin {"idle", "timer"}

SerialInv ==
  /\ \A s, t \in Tasks : Running(s) /\ Running(t) => s = t
  /\ \A t \in Tasks : pc[t] \in {"replaceWrite", "spawn"} => worker = NoProc
  /\ \A t \in Tasks : pc[t] = "spawn" => hlsDir
  /\ SingleWriter

LEMMA InitSerial == Init => SerialInv
  BY SetsAssumption DEF Init, SerialInv, SingleWriter, Running

LEMMA StepSerial ==
  ASSUME Overlap = FALSE, TypeOK, SerialInv, [Next]_vars
  PROVE  SerialInv'
<1> USE SetsAssumption
<1> USE DEF TypeOK, Tasks, SerialInv, SingleWriter, Running
<1>1. ASSUME NEW c \in Calls, Begin(c) PROVE SerialInv'
  BY <1>1 DEF Begin, StopNow, Goto, Allowed, Quiet
<1>2. ASSUME NEW c \in Calls, WriteStopped(c) PROVE SerialInv'
  BY <1>2 DEF WriteStopped, Goto
<1>3. ASSUME NEW c \in Calls, WriteReset(c) PROVE SerialInv'
  BY <1>3 DEF WriteReset, Goto
<1>4. ASSUME NEW t \in Tasks, ReadStream(t) PROVE SerialInv'
  BY <1>4 DEF ReadStream, Goto
<1>5. ASSUME NEW t \in Tasks, CheckStream(t) PROVE SerialInv'
  BY <1>5 DEF CheckStream, Goto, StopNow, Prepare, Launch, Finish, FreeSlot
<1>6. ASSUME NEW t \in Tasks, WriteProxyIdle(t) PROVE SerialInv'
  BY <1>6 DEF WriteProxyIdle, Goto, Finish
<1>7. ASSUME NEW t \in Tasks, WriteReplaced(t) PROVE SerialInv'
  BY <1>7 DEF WriteReplaced, Goto, Prepare, Launch, Finish, FreeSlot
<1>8. ASSUME NEW t \in Tasks, SpawnTranscode(t) PROVE SerialInv'
  BY <1>8 DEF SpawnTranscode, Goto, Launch, Finish, FreeSlot
<1>9. ASSUME NEW t \in Tasks, WriteRunning(t) PROVE SerialInv'
  BY <1>9 DEF WriteRunning, Goto, Finish
<1>10. ASSUME NEW p \in Procs, ProcExit(p) PROVE SerialInv'
  BY <1>10 DEF ProcExit, Goto, Allowed, Quiet
<1>11. ASSUME NEW p \in Procs, ReadRestartCount(p) PROVE SerialInv'
  BY <1>11 DEF ReadRestartCount, Goto
<1>12. ASSUME NEW p \in Procs, WriteCrashed(p) PROVE SerialInv'
  BY <1>12 DEF WriteCrashed, Goto
<1>13. ASSUME NEW p \in Procs, ReadBackups(p) PROVE SerialInv'
  BY <1>13 DEF ReadBackups, Goto
<1>14. ASSUME NEW p \in Procs, WriteFailover(p) PROVE SerialInv'
  BY <1>14 DEF WriteFailover, Goto
<1>15. ASSUME NEW p \in Procs, WriteFinal(p) PROVE SerialInv'
  BY <1>15 DEF WriteFinal, Goto, Finish
<1>16. ASSUME NEW p \in Procs, TimerFires(p) PROVE SerialInv'
  BY <1>16 DEF TimerFires, Goto, Allowed, Quiet
<1>17. CASE ApiRestart
  BY <1>17 DEF ApiRestart
<1>18. CASE UNCHANGED vars
  BY <1>18 DEF vars
<1> QED
  BY <1>1, <1>2, <1>3, <1>4, <1>5, <1>6, <1>7, <1>8, <1>9, <1>10, <1>11, <1>12,
     <1>13, <1>14, <1>15, <1>16, <1>17, <1>18
     DEF Next, CallStep, ExitStep, StartStep

(* Without overlapping requests at most one ffmpeg writes into the output  *)
(* directory, and it is the one in the map.                                *)
THEOREM SingleWriterHolds ==
  ASSUME Overlap = FALSE
  PROVE  Spec => []SingleWriter
<1>1. TypeOK /\ SerialInv /\ [Next]_vars => SerialInv'
  BY StepSerial
<1> QED
  BY <1>1, InitSerial, TypeCorrect, PTL DEF Spec, SerialInv
=============================================================================
