------------------------ MODULE DownloadQueueProofs ------------------------
(***************************************************************************)
(* Proofs about DownloadQueue, for any number of jobs, of calls at work    *)
(* and of events, and any limits.                                          *)
(***************************************************************************)
EXTENDS DownloadQueue, FiniteSetTheorems, TLAPS

(* What a call holds: its type, and what goes with where it stands.        *)
Ats == {"idle", "cfg", "query", "loop", "final", "auto", "vod", "link", "insert", "write",
        "requeue", "unlinkAll", "deleteAll", "unlink", "unrow"}
TaskRec == [at : Ats, jobs : SUBSET Jobs, to : Statuses, lim : Limits \cup {0}]

OfOneJob == {"final", "auto", "vod", "link", "write", "requeue", "unlink", "unrow"}

Shape(k) ==
  /\ k.at \in OfOneJob => \E j \in Jobs : k.jobs = {j}
  /\ k.at = "final" => k.to \in {"PAUSED", "CANCELED", "COMPLETED", "FAILED"}
  /\ k.at = "write" => k.to \in {"PAUSED", "CANCELED"}
  /\ k.at = "requeue" => k.to \in Resumable

TypeInv == TypeOK /\ \A t \in Tasks : Shape(task[t])

LEMMA TaskFacts ==
  /\ \A at \in Ats, J \in SUBSET Jobs, to \in Statuses, n \in Limits \cup {0} :
       Task(at, J, to, n) \in TaskRec
  /\ Idle \in TaskRec /\ Shape(Idle)
  /\ Pump \in TaskRec /\ Shape(Pump)
  BY DEF Task, TaskRec, Idle, Pump, Shape, Ats, OfOneJob, Statuses, NoRow

LEMMA Readings ==
  ASSUME TypeInv
  PROVE  task \in [Tasks -> TaskRec] /\ \A t \in Tasks : Shape(task[t])
  BY DEF TypeInv, TypeOK, TaskRec, Ats

\* A call that holds one job holds no other.
LEMMA TheJob ==
  ASSUME TypeInv, NEW t \in Tasks, task[t].at \in OfOneJob
  PROVE  Job(t) \in Jobs /\ task[t].jobs = {Job(t)}
<1>1. PICK j \in Jobs : task[t].jobs = {j}
  BY DEF TypeInv, Shape
<1>2. \E x : x \in task[t].jobs
  BY <1>1
<1>3. Job(t) \in task[t].jobs
  BY <1>2 DEF Job
<1> QED BY <1>1, <1>3

LEMMA InitTypes == Init => TypeInv
<1> SUFFICES ASSUME Init PROVE TypeInv
  OBVIOUS
<1>1. task \in [Tasks -> TaskRec] /\ \A t \in Tasks : Shape(task[t])
  BY TaskFacts DEF Init
<1> QED BY <1>1, DownloadAssumption DEF Init, TypeInv, TypeOK, TaskRec, Ats, Statuses, NoRow

\* One call goes on to x.
LEMMA Goes ==
  ASSUME TypeInv, NEW t \in Tasks, NEW x \in TaskRec, Shape(x), Go(t, x)
  PROVE  task' \in [Tasks -> TaskRec] /\ \A u \in Tasks : Shape(task'[u])
  BY Readings DEF Go

LEMMA RequestTasks ==
  ASSUME TypeInv, NEW t \in Calls, Request(t)
  PROVE  task' \in [Tasks -> TaskRec] /\ \A u \in Tasks : Shape(task'[u])
<1> USE TaskFacts
<1>1. t \in Tasks /\ status \in [Jobs -> Statuses]
  BY DEF Tasks, TypeInv, TypeOK
<1>2. CASE RetryFailed(t) \/ UpdateConfig(t)
  BY <1>1, <1>2, Goes DEF RetryFailed, UpdateConfig, Begin
<1>3. CASE Create(t)
  <2>1. Task("insert", {}, "new", 0) \in TaskRec /\ Shape(Task("insert", {}, "new", 0))
    BY DEF Task, Shape, OfOneJob, TaskRec, Ats, Statuses, NoRow
  <2> QED BY <1>1, <1>3, <2>1, Goes DEF Create, Begin
<1>4. CASE ClearRead(t)
  <2> DEFINE x == Task("unlinkAll", {j \in Jobs : status[j] \in Finished}, "new", 0)
  <2>1. x \in TaskRec /\ Shape(x) /\ Go(t, x)
    BY <1>4 DEF ClearRead, Begin, Task, Shape, OfOneJob, TaskRec, Ats, Statuses, NoRow
  <2> QED BY <1>1, <2>1, Goes
<1>5. ASSUME NEW j \in Jobs, Pause(t, j) \/ Cancel(t, j)
      PROVE  \E x \in TaskRec : Shape(x) /\ Go(t, x)
  <2>1. PICK s \in {"PAUSED", "CANCELED"} : Go(t, Idle) \/ Go(t, Task("write", {j}, s, 0))
    BY <1>5 DEF Pause, Cancel, Stop, Begin
  <2>2. Task("write", {j}, s, 0) \in TaskRec /\ Shape(Task("write", {j}, s, 0))
    BY DEF Task, Shape, OfOneJob, TaskRec, Ats, Statuses, Resumable
  <2> QED BY <2>1, <2>2
<1>6. ASSUME NEW j \in Jobs, Resume(t, j)
      PROVE  \E x \in TaskRec : Shape(x) /\ Go(t, x)
  <2> DEFINE x == Task("requeue", {j}, status[j], 0)
  <2>1. x \in TaskRec /\ Shape(x) /\ Go(t, x)
    BY <1>1, <1>6 DEF Resume, Resumes, Begin, Task, Shape, OfOneJob, TaskRec, Ats
  <2> QED BY <2>1
<1>7. ASSUME NEW j \in Jobs, RemoveRead(t, j) \/ AddToVod(t, j)
      PROVE  \E x \in TaskRec : Shape(x) /\ Go(t, x)
  <2>1. PICK a \in {"unlink", "vod"} : Go(t, Task(a, {j}, "new", 0))
    BY <1>7 DEF RemoveRead, AddToVod, Begin
  <2>2. Task(a, {j}, "new", 0) \in TaskRec /\ Shape(Task(a, {j}, "new", 0))
    BY DEF Task, Shape, OfOneJob, TaskRec, Ats, Statuses, NoRow
  <2> QED BY <2>1, <2>2
<1> QED BY <1>1, <1>2, <1>3, <1>4, <1>5, <1>6, <1>7, Goes DEF Request

LEMMA StepTasks ==
  ASSUME TypeInv, NEW t \in Tasks, Step(t)
  PROVE  task' \in [Tasks -> TaskRec] /\ \A u \in Tasks : Shape(task'[u])
<1> USE TaskFacts
<1>1. task[t] \in TaskRec /\ limit \in Limits
  BY Readings DEF TypeInv, TypeOK
<1>2. CASE \/ PumpFails(t) \/ PumpLoop(t) \/ VodLink(t) \/ Insert(t) \/ InsertNoMore(t)
           \/ WriteStatus(t) \/ Requeue(t) \/ ClearRows(t) \/ RemoveRow(t)
  <2>1. Go(t, Idle) \/ Go(t, Pump) \/ UNCHANGED task
    BY <1>2 DEF PumpFails, PumpLoop, VodLink, Insert, InsertNoMore, WriteStatus, Requeue,
       ClearRows, RemoveRow
  <2> QED BY <2>1, Goes, Readings
<1>3. CASE PumpConfig(t)
  <2>1. Task("query", {}, "new", limit) \in TaskRec /\ Shape(Task("query", {}, "new", limit))
    BY <1>1 DEF Task, Shape, OfOneJob, TaskRec, Ats, Statuses, NoRow
  <2> QED BY <1>3, <2>1, Goes DEF PumpConfig
<1>4. CASE PumpQuery(t)
  <2>1. PICK J \in SUBSET Jobs : Go(t, Task("loop", J, "new", task[t].lim))
    BY <1>4 DEF PumpQuery
  <2>2. /\ Task("loop", J, "new", task[t].lim) \in TaskRec
        /\ Shape(Task("loop", J, "new", task[t].lim))
    BY <1>1 DEF Task, Shape, OfOneJob, TaskRec, Ats, Statuses, NoRow
  <2> QED BY <2>1, <2>2, Goes
<1>5. CASE \/ WriteFinal(t) \/ VodCreate(t) \/ RemoveFiles(t)
  <2>1. PICK j \in Jobs : j = Job(t)
    BY <1>5, TheJob DEF WriteFinal, VodCreate, RemoveFiles, At, OfOneJob
  <2>2. \A a \in {"auto", "link", "unrow"} :
          Task(a, {j}, "new", 0) \in TaskRec /\ Shape(Task(a, {j}, "new", 0))
    BY DEF Task, Shape, OfOneJob, TaskRec, Ats, Statuses, NoRow
  <2>3. Go(t, Idle) \/ Go(t, Pump) \/ \E a \in {"auto", "link", "unrow"} : Go(t, Task(a, {j}, "new", 0))
    BY <1>5, <2>1 DEF WriteFinal, AfterExit, VodCreate, RemoveFiles
  <2> QED BY <2>2, <2>3, Goes
<1>6. CASE CheckAutoVod(t)
  <2>1. PICK j \in Jobs : j = Job(t)
    BY <1>6, TheJob DEF CheckAutoVod, At, OfOneJob
  <2>2. Task("vod", {j}, "new", 0) \in TaskRec /\ Shape(Task("vod", {j}, "new", 0))
    BY DEF Task, Shape, OfOneJob, TaskRec, Ats, Statuses, NoRow
  <2>3. \/ task' = [task EXCEPT ![t] = Pump, ![j] = Task("vod", {j}, "new", 0)]
        \/ Go(t, Pump)
    BY <1>6, <2>1 DEF CheckAutoVod
  <2>4. CASE task' = [task EXCEPT ![t] = Pump, ![j] = Task("vod", {j}, "new", 0)]
    <3> HIDE DEF Shape
    <3> QED BY <2>2, <2>4, Readings DEF Tasks
  <2> QED BY <2>3, <2>4, Goes
<1>7. CASE ClearFiles(t)
  <2> DEFINE x == [task[t] EXCEPT !.at = "deleteAll"]
  <2>1. x \in TaskRec /\ Shape(x)
    BY <1>1 DEF Shape, OfOneJob, TaskRec, Ats
  <2> QED BY <1>7, <2>1, Goes DEF ClearFiles
<1> QED BY <1>2, <1>3, <1>4, <1>5, <1>6, <1>7 DEF Step

LEMMA ExitTasks ==
  ASSUME TypeInv, NEW j \in Jobs, ProcExit(j)
  PROVE  task' \in [Tasks -> TaskRec] /\ \A u \in Tasks : Shape(task'[u])
<1>1. PICK t \in Calls, s \in {"PAUSED", "CANCELED", "COMPLETED", "FAILED"} :
        Go(t, Task("final", {j}, s, 0))
  BY DEF ProcExit, Outcome
<1>2. Task("final", {j}, s, 0) \in TaskRec /\ Shape(Task("final", {j}, s, 0))
  BY DEF Task, Shape, OfOneJob, TaskRec, Ats, Statuses, Resumable
<1> QED BY <1>1, <1>2, Goes DEF Tasks

\* The bookkeeping of one step: how many events it counts.
LEMMA Counts ==
  ASSUME TypeInv, NEW n \in Nat, Counted(n) PROVE events' \in 0..MaxEvents
  BY DownloadAssumption DEF TypeInv, TypeOK, Counted

LEMMA RequestTypes ==
  ASSUME TypeInv, NEW t \in Calls, Request(t) PROVE TypeInv'
<1>1. task' \in [Tasks -> TaskRec] /\ \A u \in Tasks : Shape(task'[u])
  BY RequestTasks
<1>2. events' \in 0..MaxEvents
  BY Counts DEF Request, Create, RetryFailed, ClearRead, UpdateConfig, Pause, Cancel, Stop, Resume,
     RemoveRead, AddToVod, Begin
<1>3. /\ status' \in [Jobs -> Statuses] /\ limit' \in Limits
      /\ UNCHANGED <<linked, file, proc, marking, vods>>
  BY DEF TypeInv, TypeOK, Request, Create, RetryFailed, ClearRead, UpdateConfig, Pause, Cancel,
     Stop, Resume, RemoveRead, AddToVod, rowVars, procVars, Statuses
<1>4. active' \in [Jobs -> {"no", "run", "pause", "cancel"}]
  BY DEF TypeInv, TypeOK, Request, Create, RetryFailed, ClearRead, UpdateConfig, Pause, Cancel,
     Stop, Resume, RemoveRead, AddToVod, procVars
<1>5. slipped' \in SUBSET (Jobs \cup {"limit", "pump"})
  BY DEF TypeInv, TypeOK, Request, Create, RetryFailed, ClearRead, UpdateConfig, Pause, Cancel,
     Stop, Resume, RemoveRead, AddToVod, Slip
<1> QED BY <1>1, <1>2, <1>3, <1>4, <1>5 DEF TypeInv, TypeOK, TaskRec, Ats

LEMMA StartTypes ==
  ASSUME TypeInv, NEW t \in Tasks, PumpLoop(t)
  PROVE  /\ events' \in 0..MaxEvents /\ UNCHANGED <<status, linked, limit, vods>>
         /\ active' \in [Jobs -> {"no", "run", "pause", "cancel"}] /\ proc' \in [Jobs -> Nat]
         /\ marking' \in SUBSET Jobs /\ file' \in SUBSET Jobs
         /\ slipped' \in SUBSET (Jobs \cup {"limit", "pump"})
<1>1. PICK J \in Starts(t) : \E E \in SUBSET J :
       /\ Counted(Cardinality(E))
       /\ active' = [j \in Jobs |-> IF j \in J THEN "run" ELSE active[j]]
       /\ proc' = [j \in Jobs |-> IF j \in J \ E THEN proc[j] + 1 ELSE proc[j]]
       /\ marking' = marking \cup J
       /\ file' = file \cup (J \ E)
       /\ Slip(E \cup {j \in J : Stale(j)})
  BY DEF PumpLoop
<1>2. J \subseteq Jobs
  <2>1. task[t].jobs \subseteq Jobs
    BY Readings DEF TaskRec
  <2> QED BY <2>1 DEF Starts
<1>3. PICK E \in SUBSET J :
       /\ Counted(Cardinality(E))
       /\ active' = [j \in Jobs |-> IF j \in J THEN "run" ELSE active[j]]
       /\ proc' = [j \in Jobs |-> IF j \in J \ E THEN proc[j] + 1 ELSE proc[j]]
       /\ marking' = marking \cup J
       /\ file' = file \cup (J \ E)
       /\ Slip(E \cup {j \in J : Stale(j)})
  BY <1>1
<1>4. Cardinality(E) \in Nat
  BY <1>2, DownloadAssumption, FS_Subset, FS_CardinalityType
<1>5. events' \in 0..MaxEvents
  BY <1>3, <1>4, Counts
<1> QED BY <1>2, <1>3, <1>5 DEF PumpLoop, TypeInv, TypeOK, Slip, rowVars

LEMMA StepTypesOf ==
  ASSUME TypeInv, NEW t \in Tasks, Step(t) PROVE TypeInv'
<1>1. task' \in [Tasks -> TaskRec] /\ \A u \in Tasks : Shape(task'[u])
  BY StepTasks
<1>2. CASE PumpLoop(t)
  BY <1>1, <1>2, StartTypes DEF TypeInv, TypeOK, TaskRec, Ats
<1>3. CASE PumpConfig(t) \/ PumpQuery(t) \/ PumpFails(t) \/ InsertNoMore(t)
  <2>1. events' \in 0..MaxEvents
    BY <1>3, Counts DEF PumpConfig, PumpQuery, PumpFails, InsertNoMore, TypeInv, TypeOK
  <2>2. slipped' \in SUBSET (Jobs \cup {"limit", "pump"})
    BY <1>3 DEF PumpConfig, PumpQuery, PumpFails, InsertNoMore, TypeInv, TypeOK, Slip
  <2>3. UNCHANGED <<rowVars, file, procVars, limit, vods>>
    BY <1>3 DEF PumpConfig, PumpQuery, PumpFails, InsertNoMore
  <2> QED BY <1>1, <2>1, <2>2, <2>3 DEF TypeInv, TypeOK, TaskRec, Ats, rowVars, procVars
<1>4. CASE WriteFinal(t) \/ WriteStatus(t) \/ Requeue(t)
  <2>1. PICK j \in Jobs : j = Job(t)
    BY <1>4, TheJob DEF WriteFinal, WriteStatus, Requeue, At, OfOneJob
  <2>2. task[t].to \in Statuses
    BY Readings DEF TaskRec
  <2>3. status' \in [Jobs -> Statuses] /\ slipped' \in SUBSET (Jobs \cup {"limit", "pump"})
    BY <1>4, <2>1, <2>2 DEF WriteFinal, WriteStatus, Requeue, Write, Slip, TypeInv, TypeOK, Statuses
  <2>4. UNCHANGED <<linked, file, procVars, limit, vods, events>>
    BY <1>4 DEF WriteFinal, WriteStatus, Requeue
  <2> QED BY <1>1, <2>3, <2>4 DEF TypeInv, TypeOK, TaskRec, Ats, procVars
<1>5. CASE CheckAutoVod(t) \/ VodCreate(t) \/ VodLink(t)
  <2>1. PICK j \in Jobs : j = Job(t) /\ task[t].jobs = {j}
    BY <1>5, TheJob DEF CheckAutoVod, VodCreate, VodLink, At, OfOneJob
  <2>2. /\ linked' \in SUBSET Jobs /\ vods' \in [Jobs -> Nat]
        /\ slipped' \in SUBSET (Jobs \cup {"limit", "pump"})
    BY <1>5, <2>1 DEF CheckAutoVod, VodCreate, VodLink, Slip, rowVars, TypeInv, TypeOK
  <2>3. UNCHANGED <<status, file, procVars, limit, events>>
    BY <1>5 DEF CheckAutoVod, VodCreate, VodLink, rowVars
  <2> QED BY <1>1, <2>2, <2>3 DEF TypeInv, TypeOK, TaskRec, Ats, procVars
<1>6. CASE Insert(t) \/ ClearFiles(t) \/ ClearRows(t)
  <2>1. status' \in [Jobs -> Statuses] /\ file' \in SUBSET Jobs
    BY <1>6 DEF Insert, ClearFiles, ClearRows, rowVars, TypeInv, TypeOK, Statuses, NoRow
  <2>2. UNCHANGED <<linked, procVars, limit, vods, slipped, events>>
    BY <1>6 DEF Insert, ClearFiles, ClearRows, rowVars
  <2> QED BY <1>1, <2>1, <2>2 DEF TypeInv, TypeOK, TaskRec, Ats, procVars
<1>7. CASE RemoveFiles(t) \/ RemoveRow(t)
  <2>1. PICK j \in Jobs : j = Job(t)
    BY <1>7, TheJob DEF RemoveFiles, RemoveRow, At, OfOneJob
  <2>2. /\ status' \in [Jobs -> Statuses] /\ file' \in SUBSET Jobs
        /\ active' \in [Jobs -> {"no", "run", "pause", "cancel"}]
    BY <1>7, <2>1 DEF RemoveFiles, RemoveRow, rowVars, procVars, TypeInv, TypeOK, Statuses, NoRow
  <2>3. UNCHANGED <<linked, proc, marking, limit, vods, slipped, events>>
    BY <1>7 DEF RemoveFiles, RemoveRow, rowVars, procVars
  <2> QED BY <1>1, <2>2, <2>3 DEF TypeInv, TypeOK, TaskRec, Ats
<1> QED BY <1>2, <1>3, <1>4, <1>5, <1>6, <1>7 DEF Step

LEMMA MarkTypes ==
  ASSUME TypeInv, NEW j \in Jobs, MarkDownloading(j) PROVE TypeInv'
  BY DEF MarkDownloading, Write, TypeInv, TypeOK, Statuses

LEMMA ExitTypes ==
  ASSUME TypeInv, NEW j \in Jobs, ProcExit(j) PROVE TypeInv'
<1>1. task' \in [Tasks -> TaskRec] /\ \A u \in Tasks : Shape(task'[u])
  BY ExitTasks
<1>2. file' \in SUBSET Jobs
  BY DEF ProcExit, Left, TypeInv, TypeOK
<1>3. /\ active' \in [Jobs -> {"no", "run", "pause", "cancel"}] /\ proc' \in [Jobs -> Nat]
      /\ UNCHANGED <<rowVars, marking, limit, vods, slipped, events>>
  BY DEF ProcExit, TypeInv, TypeOK
<1> QED BY <1>1, <1>2, <1>3 DEF TypeInv, TypeOK, TaskRec, Ats, rowVars

LEMMA RestartTypes ==
  ASSUME TypeInv, ApiRestart PROVE TypeInv'
<1>1. task' \in [Tasks -> TaskRec] /\ \A u \in Tasks : Shape(task'[u])
  BY TaskFacts DEF ApiRestart
<1>2. events' \in 0..MaxEvents
  BY Counts DEF ApiRestart
<1>3. status' \in [Jobs -> Statuses] /\ slipped' \in SUBSET (Jobs \cup {"limit", "pump"})
  BY DEF ApiRestart, Slip, TypeInv, TypeOK, Statuses
<1>4. /\ active' \in [Jobs -> {"no", "run", "pause", "cancel"}] /\ proc' \in [Jobs -> Nat]
      /\ marking' = {} /\ UNCHANGED <<linked, file, limit, vods>>
  BY DEF ApiRestart
<1> QED BY <1>1, <1>2, <1>3, <1>4 DEF TypeInv, TypeOK, TaskRec, Ats

LEMMA StepTypes == TypeInv /\ [Next]_vars => TypeInv'
<1> SUFFICES ASSUME TypeInv, [Next]_vars PROVE TypeInv'
  OBVIOUS
<1>1. CASE UNCHANGED vars
  BY <1>1 DEF vars, rowVars, procVars, TypeInv, TypeOK
<1>2. CASE Next
  BY <1>2, RequestTypes, StepTypesOf, MarkTypes, ExitTypes, RestartTypes DEF Next
<1> QED BY <1>1, <1>2

\* Every variable of the queue keeps its type.
THEOREM QueueTyped == Spec => []TypeOK
<1>1. TypeInv => TypeOK
  BY DEF TypeInv
<1> QED BY <1>1, InitTypes, StepTypes, PTL DEF Spec
-----------------------------------------------------------------------------
(* One process per job: a process has its entry in `active`, and the pump  *)
(* skips the jobs that have one.                                           *)
ProcInv == \A j \in Jobs : proc[j] <= 1 /\ (proc[j] > 0 => active[j] # "no")

\* The loop of the pump starts the jobs of J, and the spawn of those in E fails.
Started(t, J, E) ==
  /\ J \in Starts(t) /\ J \subseteq Jobs /\ \A j \in J : active[j] = "no"
  /\ active' = [j \in Jobs |-> IF j \in J THEN "run" ELSE active[j]]
  /\ proc' = [j \in Jobs |-> IF j \in J \ E THEN proc[j] + 1 ELSE proc[j]]
  /\ marking' = marking \cup J
  /\ file' = file \cup (J \ E)
  /\ Slip(E \cup {j \in J : Stale(j)})

\* What a pump starts had no entry.
LEMMA StartsFree ==
  ASSUME TypeInv, NEW t \in Tasks, PumpLoop(t)
  PROVE  \E J \in SUBSET Jobs : \E E \in SUBSET J : Started(t, J, E)
<1>1. task[t].jobs \subseteq Jobs
  BY Readings DEF TaskRec
<1>2. \A J \in Starts(t) : J \subseteq Jobs /\ \A j \in J : active[j] = "no"
  BY <1>1 DEF Starts, ActiveJobs
<1>3. PICK J \in Starts(t) : \E E \in SUBSET J :
       /\ Counted(Cardinality(E))
       /\ active' = [j \in Jobs |-> IF j \in J THEN "run" ELSE active[j]]
       /\ proc' = [j \in Jobs |-> IF j \in J \ E THEN proc[j] + 1 ELSE proc[j]]
       /\ marking' = marking \cup J
       /\ file' = file \cup (J \ E)
       /\ Slip(E \cup {j \in J : Stale(j)})
  BY DEF PumpLoop
<1>4. \E E \in SUBSET J : Started(t, J, E)
  BY <1>2, <1>3 DEF Started
<1> QED BY <1>2, <1>4

LEMMA StepProc == TypeInv /\ ProcInv /\ [Next]_vars => ProcInv'
<1> SUFFICES ASSUME TypeInv, ProcInv, [Next]_vars PROVE ProcInv'
  OBVIOUS
<1>1. proc \in [Jobs -> Nat] /\ active \in [Jobs -> {"no", "run", "pause", "cancel"}]
  BY DEF TypeInv, TypeOK
<1>2. CASE UNCHANGED vars
  BY <1>2 DEF vars, procVars, ProcInv
<1>3. ASSUME NEW t \in Calls, Request(t) PROVE ProcInv'
  <2>1. proc' = proc /\ \A j \in Jobs : active[j] # "no" => active'[j] # "no"
    BY <1>1, <1>3 DEF Request, Create, RetryFailed, ClearRead, UpdateConfig, Pause, Cancel, Stop,
       Resume, RemoveRead, AddToVod, procVars
  <2> QED BY <2>1 DEF ProcInv
<1>4. ASSUME NEW t \in Tasks, Step(t) PROVE ProcInv'
  <2>1. CASE PumpLoop(t)
    <3>1. PICK J \in SUBSET Jobs, E \in SUBSET Jobs : Started(t, J, E)
      BY <2>1, StartsFree
    <3>2. \A j \in J : proc[j] = 0
      BY <1>1, <3>1 DEF ProcInv, Started
    <3> QED BY <1>1, <3>1, <3>2 DEF ProcInv, Started
  <2>2. CASE ~PumpLoop(t)
    <3>1. proc' = proc /\ \A j \in Jobs : active[j] # "no" => active'[j] # "no"
      BY <1>1, <1>4, <2>2 DEF Step, PumpConfig, PumpQuery, PumpFails, WriteFinal, CheckAutoVod,
         VodCreate, VodLink, Insert, InsertNoMore, WriteStatus, Requeue, ClearFiles, ClearRows,
         RemoveFiles, RemoveRow, procVars
    <3> QED BY <3>1 DEF ProcInv
  <2> QED BY <2>1, <2>2
<1>5. ASSUME NEW j \in Jobs, MarkDownloading(j) \/ ProcExit(j) PROVE ProcInv'
  BY <1>1, <1>5 DEF MarkDownloading, ProcExit, ProcInv
<1>6. CASE ApiRestart
  BY <1>6 DEF ApiRestart, ProcInv
<1> QED BY <1>2, <1>3, <1>4, <1>5, <1>6 DEF Next

LEMMA InitProc == Init => ProcInv
  BY DEF Init, ProcInv

\* Two aria2c never write the same file, whatever pumps, exits and requests overlap.
THEOREM OneProcessPerJobHolds == Spec => []OneProcessPerJob
<1>1. ProcInv => OneProcessPerJob
  BY DEF ProcInv, OneProcessPerJob
<1> QED BY <1>1, InitTypes, StepTypes, InitProc, StepProc, PTL DEF Spec
-----------------------------------------------------------------------------
(* Slots: what a pump has read of downloadConcurrency is not more than it  *)
(* is now, unless it was lowered.                                          *)
SlotInv ==
  "limit" \notin slipped =>
    /\ Cardinality(ActiveJobs) <= limit
    /\ \A t \in Tasks : task[t].at \in {"query", "loop"} => task[t].lim <= limit

LEMMA LimitsRead ==
  ASSUME TypeInv, NEW t \in Tasks PROVE task[t].lim \in Nat
<1>1. \A n \in Limits \cup {0} : n \in Nat
  BY DownloadAssumption
<1>2. task[t] \in TaskRec
  BY Readings
<1>3. task[t].lim \in Limits \cup {0}
  BY <1>2 DEF TaskRec
<1> QED BY <1>1, <1>3, Zenon

\* A call that does not go on to pump with what it has read.
LEMMA GoesElsewhere ==
  ASSUME TypeInv, NEW t \in Tasks, NEW x, x.at \notin {"query", "loop"}, Go(t, x)
  PROVE  \A u \in Tasks : task'[u].at \in {"query", "loop"} => task'[u] = task[u]
  BY Readings DEF Go

LEMMA ActiveFinite ==
  IsFiniteSet(ActiveJobs) /\ Cardinality(ActiveJobs) \in Nat
  BY DownloadAssumption, FS_Subset, FS_CardinalityType DEF ActiveJobs

LEMMA FewerActive ==
  ASSUME ActiveJobs' \subseteq ActiveJobs
  PROVE  Cardinality(ActiveJobs') \in Nat /\ Cardinality(ActiveJobs') <= Cardinality(ActiveJobs)
  BY ActiveFinite, FS_Subset, FS_CardinalityType

\* The loop of the pump fills the slots that are free, and no more.
LEMMA StartsFit ==
  ASSUME TypeInv, NEW t \in Tasks, PumpLoop(t)
  PROVE  /\ Cardinality(ActiveJobs') \in Nat
         /\ Cardinality(ActiveJobs') <= Cardinality(ActiveJobs) \/ Cardinality(ActiveJobs') <= task[t].lim
<1>1. PICK J \in SUBSET Jobs, E \in SUBSET Jobs : Started(t, J, E)
  BY StartsFree
<1>2. ActiveJobs' = ActiveJobs \cup J
  BY <1>1 DEF ActiveJobs, Started
<1>3. IsFiniteSet(J) /\ Cardinality(J) \in Nat
  BY <1>1, DownloadAssumption, FS_Subset, FS_CardinalityType
<1>4. task[t].lim \in Nat
  BY LimitsRead
<1> DEFINE free == task[t].jobs \ ActiveJobs
<1>5. Cardinality(free) \in Nat
  <2>1. free \subseteq Jobs
    BY Readings DEF TaskRec
  <2> QED BY <2>1, DownloadAssumption, FS_Subset, FS_CardinalityType
<1>6. Cardinality(J) <=
        IF task[t].lim > Cardinality(ActiveJobs) THEN task[t].lim - Cardinality(ActiveJobs) ELSE 0
  <2>1. Cardinality(J) = Least(
          IF task[t].lim > Cardinality(ActiveJobs) THEN task[t].lim - Cardinality(ActiveJobs) ELSE 0,
          Cardinality(free))
    BY <1>1 DEF Starts, Started
  <2> HIDE DEF free
  <2> QED BY <1>4, <1>5, <2>1, ActiveFinite DEF Least
<1>7. /\ Cardinality(ActiveJobs \cup J) \in Nat
      /\ Cardinality(ActiveJobs \cup J) <= Cardinality(ActiveJobs) + Cardinality(J)
  <2>1. Cardinality(ActiveJobs \cap J) \in Nat
    BY <1>3, ActiveFinite, FS_Subset, FS_CardinalityType
  <2>2. IsFiniteSet(ActiveJobs \cup J)
    BY <1>3, ActiveFinite, FS_Union
  <2>3. Cardinality(ActiveJobs \cup J) =
          Cardinality(ActiveJobs) + Cardinality(J) - Cardinality(ActiveJobs \cap J)
    BY <1>3, ActiveFinite, FS_Union
  <2>4. Cardinality(ActiveJobs \cup J) \in Nat
    BY <2>2, FS_CardinalityType
  <2> QED BY <1>3, <2>1, <2>3, <2>4, ActiveFinite
<1> QED BY <1>2, <1>3, <1>4, <1>6, <1>7, ActiveFinite

\* What has slipped stays slipped.
LEMMA SlipsKept == [Next]_vars => slipped \subseteq slipped'
<1> SUFFICES ASSUME [Next]_vars PROVE slipped \subseteq slipped'
  OBVIOUS
<1>1. ASSUME NEW t \in Calls, Request(t) PROVE slipped \subseteq slipped'
  BY <1>1 DEF Request, Create, RetryFailed, ClearRead, UpdateConfig, Pause, Cancel, Stop, Resume,
     RemoveRead, AddToVod, Slip
<1>2. ASSUME NEW t \in Tasks, Step(t) PROVE slipped \subseteq slipped'
  BY <1>2 DEF Step, PumpConfig, PumpQuery, PumpFails, PumpLoop, WriteFinal, CheckAutoVod,
     VodCreate, VodLink, Insert, InsertNoMore, WriteStatus, Requeue, ClearFiles, ClearRows,
     RemoveFiles, RemoveRow, Slip
<1>3. CASE UNCHANGED vars
  BY <1>3 DEF vars
<1>4. CASE ApiRestart
  BY <1>4 DEF ApiRestart, Slip
<1>5. ASSUME NEW j \in Jobs, MarkDownloading(j) \/ ProcExit(j) PROVE slipped \subseteq slipped'
  BY <1>5 DEF MarkDownloading, ProcExit
<1> QED BY <1>1, <1>2, <1>3, <1>4, <1>5 DEF Next

LEMMA StepSlots == TypeInv /\ SlotInv /\ [Next]_vars => SlotInv'
<1> SUFFICES ASSUME TypeInv, SlotInv, [Next]_vars, "limit" \notin slipped'
             PROVE  /\ Cardinality(ActiveJobs') <= limit'
                    /\ \A t \in Tasks : task'[t].at \in {"query", "loop"} => task'[t].lim <= limit'
  BY DEF SlotInv
<1>1. "limit" \notin slipped
  BY SlipsKept
<1>2. /\ Cardinality(ActiveJobs) <= limit /\ Cardinality(ActiveJobs) \in Nat
      /\ \A t \in Tasks : task[t].at \in {"query", "loop"} => task[t].lim <= limit
      /\ limit \in Nat /\ limit' \in Nat
      /\ task \in [Tasks -> TaskRec] /\ \A t \in Tasks : task[t].lim \in Nat
      /\ active \in [Jobs -> {"no", "run", "pause", "cancel"}]
  <2>1. limit \in Limits /\ limit' \in Limits
    BY StepTypes DEF TypeInv, TypeOK
  <2>2. Limits \subseteq Nat
    BY DownloadAssumption
  <2>3. task \in [Tasks -> TaskRec] /\ \A t \in Tasks : task[t].lim \in Nat
    BY Readings, LimitsRead
  <2>4. active \in [Jobs -> {"no", "run", "pause", "cancel"}]
    BY DEF TypeInv, TypeOK
  <2> QED BY <1>1, <2>1, <2>2, <2>3, <2>4, ActiveFinite DEF SlotInv
<1>3. CASE UNCHANGED vars
  BY <1>2, <1>3 DEF vars, procVars, ActiveJobs
<1>4. ASSUME NEW t \in Calls, Request(t), ~UpdateConfig(t)
      PROVE  /\ Cardinality(ActiveJobs') <= limit'
             /\ \A u \in Tasks : task'[u].at \in {"query", "loop"} => task'[u].lim <= limit'
  <2>1. limit' = limit /\ ActiveJobs' \subseteq ActiveJobs
    BY <1>2, <1>4 DEF Request, Create, RetryFailed, ClearRead, Pause, Cancel, Stop, Resume,
       RemoveRead, AddToVod, procVars, ActiveJobs
  <2>2. \E x : x.at \notin {"query", "loop"} /\ Go(t, x)
    BY <1>4 DEF Request, Create, RetryFailed, ClearRead, Pause, Cancel, Stop, Resume,
       RemoveRead, AddToVod, Begin, Task, Pump, Idle
  <2>3. \A u \in Tasks : task'[u].at \in {"query", "loop"} => task'[u] = task[u]
    BY <2>2, GoesElsewhere DEF Tasks
  <2> QED BY <1>2, <2>1, <2>3, FewerActive
<1>5. ASSUME NEW t \in Calls, UpdateConfig(t)
      PROVE  /\ Cardinality(ActiveJobs') <= limit'
             /\ \A u \in Tasks : task'[u].at \in {"query", "loop"} => task'[u].lim <= limit'
  <2>1. limit' >= limit
    BY <1>2, <1>5 DEF UpdateConfig, Slip
  <2>2. ActiveJobs' = ActiveJobs
    BY <1>5 DEF UpdateConfig, procVars, ActiveJobs
  <2>3. \A u \in Tasks : task'[u].at \in {"query", "loop"} => task'[u] = task[u]
    BY <1>2, <1>5 DEF UpdateConfig, Begin, Go, Task, Pump, Tasks
  <2> QED BY <1>2, <2>1, <2>2, <2>3
<1>6. ASSUME NEW t \in Tasks, Step(t)
      PROVE  /\ Cardinality(ActiveJobs') <= limit'
             /\ \A u \in Tasks : task'[u].at \in {"query", "loop"} => task'[u].lim <= limit'
  <2>1. limit' = limit
    BY <1>6 DEF Step, PumpConfig, PumpQuery, PumpFails, PumpLoop, WriteFinal, CheckAutoVod,
       VodCreate, VodLink, Insert, InsertNoMore, WriteStatus, Requeue, ClearFiles, ClearRows,
       RemoveFiles, RemoveRow
  <2>2. CASE PumpLoop(t)
    <3>1. \A u \in Tasks : task'[u].at \in {"query", "loop"} => task'[u] = task[u]
      BY <1>2, <2>2 DEF PumpLoop, Go, Idle, Task
    <3>2. task[t].lim <= limit
      BY <1>2, <2>2 DEF PumpLoop, At
    <3> QED BY <1>2, <2>1, <2>2, <3>1, <3>2, StartsFit
  <2>3. CASE ~PumpLoop(t)
    <3>1. ActiveJobs' \subseteq ActiveJobs
      BY <1>2, <1>6, <2>3 DEF Step, PumpConfig, PumpQuery, PumpFails, WriteFinal, CheckAutoVod,
         VodCreate, VodLink, Insert, InsertNoMore, WriteStatus, Requeue, ClearFiles, ClearRows,
         RemoveFiles, RemoveRow, procVars, ActiveJobs
    <3>2. CASE PumpConfig(t)
      BY <1>2, <2>1, <3>1, <3>2, FewerActive DEF PumpConfig, Go, Idle, Task
    <3>3. CASE PumpQuery(t)
      <4>1. task[t].lim <= limit
        BY <1>2, <3>3 DEF PumpQuery, At
      <4>2. \A u \in Tasks : u # t => task'[u] = task[u]
        BY <1>2, <3>3 DEF PumpQuery, Go
      <4>3. task'[t].lim = task[t].lim
        BY <1>2, <3>3 DEF PumpQuery, Go, Task
      <4> QED BY <1>2, <2>1, <3>1, <4>1, <4>2, <4>3, FewerActive
    <3>4. CASE ~PumpConfig(t) /\ ~PumpQuery(t)
      <4>1. \A u \in Tasks : task'[u].at \in {"query", "loop"} => task'[u] = task[u]
        <5>1. CASE CheckAutoVod(t)
          <6>1. PICK j : \/ task' = [task EXCEPT ![t] = Pump, ![j] = Task("vod", {j}, "new", 0)]
                         \/ Go(t, Pump)
            BY <5>1 DEF CheckAutoVod
          <6> QED BY <1>2, <6>1 DEF Go, Task, Pump
        <5>2. CASE ClearFiles(t)
          BY <1>2, <5>2 DEF ClearFiles, Go
        <5>3. CASE Insert(t)
          BY <5>3, GoesElsewhere DEF Insert, Task, Pump
        <5>4. CASE ~CheckAutoVod(t) /\ ~ClearFiles(t) /\ ~Insert(t)
          <6>1. \E x : x.at \notin {"query", "loop"} /\ Go(t, x)
            BY <1>6, <2>3, <3>4, <5>4 DEF Step, PumpFails, WriteFinal, AfterExit,
               VodCreate, VodLink, InsertNoMore, WriteStatus, Requeue, ClearRows,
               RemoveFiles, RemoveRow, Task, Pump, Idle
          <6> QED BY <6>1, GoesElsewhere
        <5> QED BY <5>1, <5>2, <5>3, <5>4
      <4> QED BY <1>2, <2>1, <3>1, <4>1, FewerActive
    <3> QED BY <3>2, <3>3, <3>4
  <2> QED BY <2>2, <2>3
<1>7. ASSUME NEW j \in Jobs, MarkDownloading(j) \/ ProcExit(j)
      PROVE  /\ Cardinality(ActiveJobs') <= limit'
             /\ \A u \in Tasks : task'[u].at \in {"query", "loop"} => task'[u].lim <= limit'
  <2>1. limit' = limit /\ ActiveJobs' \subseteq ActiveJobs
    BY <1>2, <1>7 DEF MarkDownloading, ProcExit, ActiveJobs
  <2>2. \A u \in Tasks : task'[u].at \in {"query", "loop"} => task'[u] = task[u]
    BY <1>2, <1>7 DEF MarkDownloading, ProcExit, Go, Task, Tasks
  <2> QED BY <1>2, <2>1, <2>2, FewerActive
<1>8. CASE ApiRestart
  <2>1. limit' = limit /\ ActiveJobs' \subseteq ActiveJobs
    BY <1>8 DEF ApiRestart, ActiveJobs
  <2>2. \A u \in Tasks : task'[u].at \notin {"query", "loop"}
    BY <1>8 DEF ApiRestart, Task, Pump, Idle
  <2> QED BY <1>2, <2>1, <2>2, FewerActive
<1> QED BY <1>3, <1>4, <1>5, <1>6, <1>7, <1>8 DEF Next

LEMMA InitSlots == Init => SlotInv
<1> SUFFICES ASSUME Init PROVE SlotInv
  OBVIOUS
<1>1. ActiveJobs = {} /\ limit \in Nat
  BY DownloadAssumption DEF Init, ActiveJobs
<1>2. \A t \in Tasks : task[t].at \notin {"query", "loop"}
  BY DEF Init, Task, Pump, Idle
<1> QED BY <1>1, <1>2, FS_EmptySet DEF SlotInv

\* However many pumps overlap, they never run more downloads than
\* downloadConcurrency, unless it was lowered.
THEOREM SlotsRespectedHolds == Spec => []SlotsRespected
<1>1. SlotInv => SlotsRespected
  BY DEF SlotInv, SlotsRespected
<1> QED BY <1>1, InitTypes, StepTypes, InitSlots, StepSlots, PTL DEF Spec
-----------------------------------------------------------------------------
(* Rows only go forward: a row that is gone stays so, and none is new again. *)
LEMMA RowsOnward ==
  ASSUME TypeInv, [Next]_vars, NEW j \in Jobs
  PROVE  (status[j] = "gone" => status'[j] = "gone") /\ (status'[j] = "new" => status[j] = "new")
<1> DEFINE Onward == (status[j] = "gone" => status'[j] = "gone") /\ (status'[j] = "new" => status[j] = "new")
<1>1. status \in [Jobs -> Statuses]
  BY DEF TypeInv, TypeOK
<1>2. ASSUME NEW t \in Calls, Request(t) PROVE Onward
  BY <1>1, <1>2 DEF Request, Create, RetryFailed, ClearRead, UpdateConfig, Pause, Cancel, Stop,
     Resume, RemoveRead, AddToVod, rowVars
<1>3. ASSUME NEW t \in Tasks, Step(t) PROVE Onward
  <2>1. CASE WriteFinal(t) \/ WriteStatus(t) \/ Requeue(t)
    <3>1. PICK i, s : Write(i, s) /\ s # "new"
      <4>1. Shape(task[t])
        BY Readings
      <4> QED BY <2>1, <4>1 DEF WriteFinal, WriteStatus, Requeue, At, Shape
    <3> QED BY <1>1, <3>1 DEF Write, Exists, NoRow
  <2>2. CASE ClearRows(t) \/ RemoveRow(t)
    BY <1>1, <2>2 DEF ClearRows, RemoveRow, Finished
  <2>3. CASE Insert(t)
    BY <1>1, <2>3 DEF Insert
  <2>4. CASE ~(WriteFinal(t) \/ WriteStatus(t) \/ Requeue(t) \/ ClearRows(t) \/ RemoveRow(t) \/ Insert(t))
    <3>1. status' = status
      BY <1>3, <2>4 DEF Step, PumpConfig, PumpQuery, PumpFails, PumpLoop, CheckAutoVod, VodCreate,
         VodLink, InsertNoMore, ClearFiles, RemoveFiles, rowVars
    <3> QED BY <3>1
  <2> QED BY <2>1, <2>2, <2>3, <2>4
<1>4. ASSUME NEW i \in Jobs, MarkDownloading(i) \/ ProcExit(i) PROVE Onward
  BY <1>1, <1>4 DEF MarkDownloading, ProcExit, Write, Exists, NoRow, rowVars
<1>5. CASE ApiRestart
  BY <1>1, <1>5 DEF ApiRestart
<1>6. CASE UNCHANGED vars
  BY <1>6 DEF vars, rowVars
<1> QED BY <1>2, <1>3, <1>4, <1>5, <1>6 DEF Next

\* A call that stands outside S and goes on outside S changes nothing there.
LEMMA KeepsOutside ==
  ASSUME TypeInv, NEW S, NEW t \in Tasks, NEW x, task[t].at \notin S, x.at \notin S, Go(t, x)
  PROVE  \A u \in Tasks : task[u].at \in S \/ task'[u].at \in S => task'[u] = task[u]
  BY Readings DEF Go

(* One VOD per download: a makeVod holds the only right to make the job's  *)
(* stream until createdStreamId is written.                                *)
VodAts == {"vod", "link"}

VodOf(j) ==
  /\ vods[j] <= 1
  /\ vods[j] > 0 => j \in linked \/ Does("link", j) \/ status[j] = "gone"
  /\ \A t, u \in Tasks :
       /\ task[t].at \in VodAts /\ j \in task[t].jobs
       /\ task[u].at \in VodAts /\ j \in task[u].jobs
       => t = u
  /\ Does("vod", j) => vods[j] = 0 /\ status[j] # "new"
  /\ Does("link", j) => status[j] # "new"

VodInv == \A j \in Jobs \ slipped : VodOf(j)

\* A step that touches no makeVod.
VodQuiet ==
  /\ UNCHANGED <<vods, linked>>
  /\ \A u \in Tasks : task[u].at \in VodAts \/ task'[u].at \in VodAts => task'[u] = task[u]

LEMMA VodFrame ==
  ASSUME TypeInv, [Next]_vars, NEW j \in Jobs, VodOf(j), VodQuiet
  PROVE  VodOf(j)'
<1>1. \A p \in VodAts : Does(p, j)' <=> Does(p, j)
  BY DEF Does, At, VodQuiet
<1>2. \A u \in Tasks : task'[u].at \in VodAts => task'[u] = task[u]
  BY DEF VodQuiet
<1>3. Does("vod", j)' <=> Does("vod", j)
  BY <1>1 DEF VodAts
<1>4. Does("link", j)' <=> Does("link", j)
  BY <1>1 DEF VodAts
<1> QED BY <1>2, <1>3, <1>4, RowsOnward DEF VodOf, VodQuiet

\* A makeVod begins.
LEMMA VodBegins ==
  ASSUME TypeInv, NEW i \in Jobs, NEW t \in Tasks, Exists(i), i \notin linked,
         task[t].at \notin VodAts, task'[t] = Task("vod", {i}, "new", 0),
         \A u \in Tasks : u # t /\ (task[u].at \in VodAts \/ task'[u].at \in VodAts) => task'[u] = task[u],
         UNCHANGED <<status, linked, vods>>, Slip(IF VodUnderWay(i) THEN {i} ELSE {}),
         NEW j \in Jobs, j \notin slipped', VodOf(j)
  PROVE  VodOf(j)'
<1>1. /\ task'[t].at = "vod" /\ task'[t].jobs = {i} /\ vods \in [Jobs -> Nat]
  BY DEF Task, TypeInv, TypeOK
<1>2. CASE j # i
  <2>1. Does("vod", j)' <=> Does("vod", j)
    BY <1>1, <1>2 DEF Does, At, VodAts
  <2>2. Does("link", j)' <=> Does("link", j)
    BY <1>1, <1>2 DEF Does, At, VodAts
  <2>3. \A u \in Tasks : task'[u].at \in VodAts /\ j \in task'[u].jobs => task'[u] = task[u]
    BY <1>1, <1>2
  <2> QED BY <2>1, <2>2, <2>3 DEF VodOf
<1>3. CASE j = i
  <2>1. ~VodUnderWay(i)
    BY <1>3 DEF Slip
  <2>2. ~Does("link", i) /\ ~Does("vod", i) /\ vods[i] = 0 /\ status[i] \notin {"new", "gone"}
    BY <1>1, <1>3, <2>1 DEF VodUnderWay, VodOf, Exists, NoRow
  <2>3. \A u \in Tasks : task'[u].at \in VodAts /\ i \in task'[u].jobs => u = t
    BY <2>2 DEF Does, At, VodAts
  <2>4. ~Does("link", i)'
    BY <1>1, <2>3 DEF Does, At, VodAts
  <2> QED BY <1>3, <2>2, <2>3, <2>4 DEF VodOf
<1> QED BY <1>2, <1>3

LEMMA StepVod == TypeInv /\ VodInv /\ [Next]_vars => VodInv'
<1> SUFFICES ASSUME TypeInv, VodInv, [Next]_vars, NEW j \in Jobs, j \notin slipped'
             PROVE  VodOf(j)'
  BY DEF VodInv
<1>1. VodOf(j)
  BY SlipsKept DEF VodInv
<1>2. ASSUME VodQuiet PROVE VodOf(j)'
  BY <1>1, <1>2, VodFrame
<1>3. CASE UNCHANGED vars
  BY <1>2, <1>3 DEF vars, rowVars, VodQuiet
<1>4. ASSUME NEW t \in Calls, Request(t) PROVE VodOf(j)'
  <2>1. t \in Tasks
    BY DEF Tasks
  <2>2. CASE \E i \in Jobs : AddToVod(t, i)
    <3>1. PICK i \in Jobs : AddToVod(t, i)
      BY <2>2
    <3>2. /\ At(t, "idle") /\ Go(t, Task("vod", {i}, "new", 0)) /\ i \notin linked /\ status[i] = "COMPLETED"
          /\ Slip(IF VodUnderWay(i) THEN {i} ELSE {}) /\ UNCHANGED <<status, linked, vods>>
      BY <3>1 DEF AddToVod, Begin, rowVars
    <3>3. /\ task[t].at \notin VodAts /\ task'[t] = Task("vod", {i}, "new", 0)
          /\ \A u \in Tasks : u # t => task'[u] = task[u]
      BY <2>1, <3>2, Readings DEF At, VodAts, Go
    <3>4. Exists(i)
      BY <3>2 DEF Exists, NoRow
    <3> QED BY <1>1, <2>1, <3>2, <3>3, <3>4, VodBegins
  <2>3. CASE ~\E i \in Jobs : AddToVod(t, i)
    <3>1. \E x : x.at \notin VodAts /\ Go(t, x)
      BY <1>4, <2>3 DEF Request, Create, RetryFailed, ClearRead, UpdateConfig, Pause, Cancel, Stop,
         Resume, RemoveRead, Begin, Task, Pump, Idle, VodAts
    <3>2. task[t].at \notin VodAts /\ UNCHANGED <<vods, linked>>
      BY <1>4, <2>3 DEF Request, Create, RetryFailed, ClearRead, UpdateConfig, Pause, Cancel, Stop,
         Resume, RemoveRead, Begin, At, VodAts, rowVars
    <3> QED BY <1>2, <2>1, <3>1, <3>2, KeepsOutside DEF VodQuiet
  <2> QED BY <2>2, <2>3
<1>5. ASSUME NEW t \in Tasks, Step(t) PROVE VodOf(j)'
  <2>1. CASE CheckAutoVod(t)
    <3> DEFINE i == Job(t)
    <3>1. i \in Jobs /\ task[t].at = "auto"
      BY <2>1, TheJob DEF CheckAutoVod, At, OfOneJob
    <3>2. CASE WantsVod(i)
      <4>1. /\ Exists(i) /\ i \notin linked /\ task[i].at = "idle" /\ UNCHANGED <<status, linked, vods>>
            /\ task' = [task EXCEPT ![t] = Pump, ![i] = Task("vod", {i}, "new", 0)]
            /\ Slip(IF VodUnderWay(i) THEN {i} ELSE {})
        BY <2>1, <3>2 DEF CheckAutoVod, WantsVod, At, rowVars
      <4>2. i \in Tasks /\ i # t /\ task[i].at \notin VodAts
        BY <3>1, <4>1 DEF Tasks, VodAts
      <4>3. /\ task'[i] = Task("vod", {i}, "new", 0) /\ task'[t] = Pump
            /\ \A u \in Tasks : u # t /\ u # i => task'[u] = task[u]
        BY <4>1, <4>2, Readings
      <4>4. task[t].at \notin VodAts /\ task'[t].at \notin VodAts
        BY <3>1, <4>3 DEF Pump, Task, VodAts
      <4> HIDE DEF i
      <4> QED BY <1>1, <3>1, <4>1, <4>2, <4>3, <4>4, VodBegins
    <3>3. CASE ~WantsVod(i)
      <4>1. Go(t, Pump) /\ UNCHANGED <<vods, linked>>
        BY <2>1, <3>3 DEF CheckAutoVod, rowVars
      <4>2. task[t].at \notin VodAts /\ Pump.at \notin VodAts
        BY <3>1 DEF Pump, Task, VodAts
      <4> QED BY <1>2, <4>1, <4>2, KeepsOutside DEF VodQuiet
    <3> QED BY <3>2, <3>3
  <2>2. CASE VodCreate(t) \/ VodLink(t)
    <3>1. PICK i \in Jobs : i = Job(t) /\ task[t].jobs = {i}
      BY <2>2, TheJob DEF VodCreate, VodLink, At, OfOneJob
    <3>2. task[t].at \in VodAts /\ status' = status /\ vods \in [Jobs -> Nat]
      BY <2>2 DEF VodCreate, VodLink, At, VodAts, rowVars, TypeInv, TypeOK
    <3>3. \A u \in Tasks : u # t => task'[u] = task[u]
      BY <2>2, Readings DEF VodCreate, VodLink, Go
    <3>4. task'[t].at \in {"link", "idle"} /\ (task'[t].at = "link" => task'[t].jobs = {i})
      BY <2>2, <3>1, Readings DEF VodCreate, VodLink, Go, Task, Idle
    <3>5. CASE j # i
      <4>1. vods'[j] = vods[j] /\ (j \in linked' <=> j \in linked)
        BY <2>2, <3>1, <3>2, <3>5 DEF VodCreate, VodLink, rowVars
      <4>2. \A u \in Tasks : task'[u].at \in VodAts /\ j \in task'[u].jobs => task'[u] = task[u]
        BY <3>1, <3>3, <3>4, <3>5 DEF VodAts
      <4>3. \A u \in Tasks : task[u].at \in VodAts /\ j \in task[u].jobs => task'[u] = task[u]
        BY <3>1, <3>3, <3>5
      <4>4. (Does("vod", j)' <=> Does("vod", j)) /\ (Does("link", j)' <=> Does("link", j))
        BY <4>2, <4>3 DEF Does, At, VodAts
      <4> QED BY <1>1, <3>2, <4>1, <4>2, <4>4 DEF VodOf
    <3>6. CASE j = i
      <4>1. \A u \in Tasks : task[u].at \in VodAts /\ j \in task[u].jobs => u = t
        BY <1>1, <3>1, <3>2, <3>6 DEF VodOf
      <4>2. \A u \in Tasks : task'[u].at \in VodAts /\ j \in task'[u].jobs => u = t
        BY <3>3, <4>1
      <4>3. CASE VodCreate(t)
        <5>1. Does("vod", j) /\ linked' = linked
          BY <3>1, <3>6, <4>3 DEF VodCreate, Does, At, rowVars
        <5>2. vods[j] = 0 /\ status[j] # "new"
          BY <1>1, <5>1 DEF VodOf
        <5>3. ~Does("vod", j)'
          BY <3>4, <4>2 DEF Does, At, VodAts
        <5>4. vods'[j] = 0 \/ (vods'[j] = 1 /\ task'[t] = Task("link", {j}, "new", 0))
          <6>1. Job(t) = j
            BY <3>1, <3>6
          <6>2. \/ vods' = [vods EXCEPT ![j] = @ + 1] /\ Go(t, Task("link", {j}, "new", 0))
                \/ vods' = vods
            BY <4>3, <6>1 DEF VodCreate
          <6>3. CASE vods' = vods
            BY <5>2, <6>3
          <6>4. CASE vods' = [vods EXCEPT ![j] = @ + 1] /\ Go(t, Task("link", {j}, "new", 0))
            <7>1. vods'[j] = 1
              BY <3>2, <5>2, <6>4
            <7>2. task'[t] = Task("link", {j}, "new", 0)
              BY <6>4, Readings DEF Go
            <7> QED BY <7>1, <7>2
          <6> QED BY <6>2, <6>3, <6>4
        <5>5. vods'[j] = 1 => Does("link", j)'
          BY <3>6, <5>2, <5>4 DEF Does, At, Task
        <5> QED BY <3>2, <4>2, <5>2, <5>3, <5>4, <5>5 DEF VodOf
      <4>4. CASE VodLink(t)
        <5>1. Does("link", j) /\ vods' = vods
          BY <3>1, <3>6, <4>4 DEF VodLink, Does, At
        <5>2. status[j] # "new" /\ vods[j] <= 1
          BY <1>1, <5>1 DEF VodOf
        <5>3. task'[t].at = "idle"
          BY <4>4, Readings DEF VodLink, Go, Idle, Task
        <5>4. ~Does("vod", j)' /\ ~Does("link", j)'
          BY <4>2, <5>3 DEF Does, At, VodAts
        <5>5. j \in linked' \/ status[j] = "gone"
          BY <3>1, <3>6, <4>4, <5>2 DEF VodLink, Exists, NoRow
        <5> QED BY <3>2, <4>2, <5>1, <5>2, <5>4, <5>5 DEF VodOf
      <4> QED BY <2>2, <4>3, <4>4
    <3> QED BY <3>5, <3>6
  <2>3. CASE ~(CheckAutoVod(t) \/ VodCreate(t) \/ VodLink(t))
    <3>1. task[t].at \notin VodAts /\ UNCHANGED <<vods, linked>>
      BY <1>5, <2>3 DEF Step, PumpConfig, PumpQuery, PumpFails, PumpLoop, WriteFinal, Insert,
         InsertNoMore, WriteStatus, Requeue, ClearFiles, ClearRows, RemoveFiles, RemoveRow, At,
         VodAts, rowVars
    <3>2. CASE ClearFiles(t)
      BY <1>2, <3>1, <3>2, Readings DEF ClearFiles, Go, VodQuiet, VodAts
    <3>3. CASE UNCHANGED task
      BY <1>2, <3>1, <3>3 DEF VodQuiet
    <3>4. CASE ~ClearFiles(t) /\ ~UNCHANGED task
      <4>1. \E x : x.at \notin VodAts /\ Go(t, x)
        BY <1>5, <2>3, <3>4 DEF Step, PumpConfig, PumpQuery, PumpFails, PumpLoop, WriteFinal,
           AfterExit, Insert, InsertNoMore, WriteStatus, Requeue, ClearRows, RemoveFiles, RemoveRow,
           Task, Pump, Idle, VodAts
      <4> QED BY <1>2, <3>1, <4>1, KeepsOutside DEF VodQuiet
    <3> QED BY <3>2, <3>3, <3>4
  <2> QED BY <2>1, <2>2, <2>3
<1>6. ASSUME NEW i \in Jobs, MarkDownloading(i) PROVE VodOf(j)'
  BY <1>2, <1>6 DEF MarkDownloading, VodQuiet
<1>7. ASSUME NEW i \in Jobs, ProcExit(i) PROVE VodOf(j)'
  <2>1. PICK t \in Calls, s \in Outcome(active[i]) : At(t, "idle") /\ Go(t, Task("final", {i}, s, 0))
    BY <1>7 DEF ProcExit
  <2>2. t \in Tasks /\ task[t].at \notin VodAts /\ Task("final", {i}, s, 0).at \notin VodAts
    BY <2>1 DEF Tasks, At, Task, VodAts
  <2>3. UNCHANGED <<vods, linked>>
    BY <1>7 DEF ProcExit, rowVars
  <2> QED BY <1>2, <2>1, <2>2, <2>3, KeepsOutside DEF VodQuiet
<1>8. CASE ApiRestart
  <2>1. \A u \in Tasks : task'[u].at \notin VodAts
    BY <1>8 DEF ApiRestart, Pump, Idle, Task, VodAts
  <2>2. ~Does("vod", j)' /\ ~Does("link", j)'
    BY <2>1 DEF Does, At, VodAts
  <2>3. ~Does("link", j) /\ UNCHANGED <<linked, vods>>
    BY <1>8 DEF ApiRestart, Slip
  <2> QED BY <1>1, <2>1, <2>2, <2>3, RowsOnward DEF VodOf
<1> QED BY <1>3, <1>4, <1>5, <1>6, <1>7, <1>8 DEF Next

LEMMA InitVod == Init => VodInv
<1> SUFFICES ASSUME Init, NEW j \in Jobs PROVE VodOf(j)
  BY DEF VodInv
<1>1. \A t \in Tasks : task[t].at \notin VodAts
  BY DEF Init, Pump, Idle, Task, VodAts
<1> QED BY <1>1 DEF Init, VodOf, Does, At, VodAts

\* A download becomes one stream, however often it completes and whoever asks.
THEOREM OneVodPerJobHolds == Spec => []OneVodPerJob
<1>1. VodInv => OneVodPerJob
  BY DEF VodInv, VodOf, OneVodPerJob
<1> QED BY <1>1, InitTypes, StepTypes, InitVod, StepVod, PTL DEF Spec
-----------------------------------------------------------------------------
(* The rows tell the truth.                                                *)
RowAts == {"final", "unrow"}

RowOf(j) ==
  /\ status[j] = "DOWNLOADING" => proc[j] > 0 \/ Does("final", j)
  /\ proc[j] > 0 => \/ status[j] = "DOWNLOADING"
                    \/ status[j] = "QUEUED" /\ j \in marking
                    \/ status[j] = "gone" /\ active[j] = "cancel"
  /\ j \in marking => (proc[j] > 0 \/ Does("final", j)) /\ status[j] \in {"QUEUED", "gone"}
  /\ Does("final", j) => proc[j] = 0
  /\ Does("unrow", j) => active[j] \in {"no", "cancel"}

RowInv == \A j \in Jobs \ slipped : RowOf(j)

LEMMA DoesSame ==
  ASSUME NEW S, NEW p \in S, NEW j,
         \A u \in Tasks : task[u].at \in S \/ task'[u].at \in S => task'[u] = task[u]
  PROVE  Does(p, j)' <=> Does(p, j)
  BY DEF Does, At

\* A call goes on: what the others do of j stays.
LEMMA DoesGo ==
  ASSUME TypeInv, NEW t \in Tasks, NEW x, Go(t, x), NEW p, NEW j
  PROVE  /\ x.at = p /\ j \in x.jobs => Does(p, j)'
         /\ ~(x.at = p /\ j \in x.jobs) => (Does(p, j)' => Does(p, j))
         /\ ~(task[t].at = p /\ j \in task[t].jobs) => (Does(p, j) => Does(p, j)')
<1>1. task'[t] = x /\ \A u \in Tasks : u # t => task'[u] = task[u]
  BY Readings DEF Go
<1> QED BY <1>1 DEF Does, At

LEMMA RowFrame ==
  ASSUME NEW j, RowOf(j), status'[j] = status[j], proc'[j] = proc[j], active'[j] = active[j],
         j \in marking' <=> j \in marking,
         Does("final", j)' <=> Does("final", j), Does("unrow", j)' <=> Does("unrow", j)
  PROVE  RowOf(j)'
  BY DEF RowOf

LEMMA StepRow == TypeInv /\ ProcInv /\ RowInv /\ [Next]_vars => RowInv'
<1> SUFFICES ASSUME TypeInv, ProcInv, RowInv, [Next]_vars, NEW j \in Jobs, j \notin slipped'
             PROVE  RowOf(j)'
  BY DEF RowInv
<1>1. RowOf(j)
  BY SlipsKept DEF RowInv
<1>2. /\ status \in [Jobs -> Statuses] /\ active \in [Jobs -> {"no", "run", "pause", "cancel"}]
      /\ proc \in [Jobs -> Nat] /\ marking \subseteq Jobs
  BY DEF TypeInv, TypeOK
<1>3. proc[j] \in Nat /\ proc[j] <= 1 /\ (proc[j] > 0 => active[j] # "no")
  BY <1>2 DEF ProcInv
<1>4. CASE UNCHANGED vars
  <2>1. (Does("final", j)' <=> Does("final", j)) /\ (Does("unrow", j)' <=> Does("unrow", j))
    BY <1>4 DEF vars, Does, At
  <2> QED BY <1>1, <1>4, <2>1, RowFrame DEF vars, rowVars, procVars
<1>5. ASSUME NEW t \in Calls, Request(t) PROVE RowOf(j)'
  <2>1. t \in Tasks
    BY DEF Tasks
  <2>2. \E x : x.at \notin RowAts /\ Go(t, x)
    BY <1>5 DEF Request, Create, RetryFailed, ClearRead, UpdateConfig, Pause, Cancel, Stop,
       Resume, RemoveRead, AddToVod, Begin, Task, Pump, Idle, RowAts
  <2>3. task[t].at \notin RowAts
    BY <1>5 DEF Request, Create, RetryFailed, ClearRead, UpdateConfig, Pause, Cancel, Stop,
       Resume, RemoveRead, AddToVod, Begin, At, RowAts
  <2>4. (Does("final", j)' <=> Does("final", j)) /\ (Does("unrow", j)' <=> Does("unrow", j))
    BY <2>1, <2>2, <2>3, KeepsOutside, DoesSame DEF RowAts
  <2>5. CASE RetryFailed(t)
    <3>1. /\ UNCHANGED procVars
          /\ status'[j] = IF status[j] = "FAILED" THEN "QUEUED" ELSE status[j]
      BY <1>2, <2>5 DEF RetryFailed
    <3> QED BY <1>1, <1>3, <2>4, <3>1 DEF RowOf, procVars
  <2>6. CASE \E i \in Jobs : Pause(t, i) \/ Cancel(t, i)
    <3>1. PICK i \in Jobs, intent \in {"pause", "cancel"} : \E s : Stop(t, i, intent, s)
      BY <2>6 DEF Pause, Cancel
    <3>2. UNCHANGED <<status, proc, marking>>
      BY <3>1 DEF Stop, rowVars
    <3>3. CASE active' = active
      BY <1>1, <2>4, <3>2, <3>3, RowFrame
    <3>4. CASE active' # active
      <4>1. /\ i \in ActiveJobs /\ active' = [active EXCEPT ![i] = intent]
            /\ Slip(IF active[i] = "cancel" /\ intent = "pause" THEN {i} ELSE {})
        BY <3>1, <3>4 DEF Stop
      <4>2. CASE i # j
        BY <1>1, <1>2, <2>4, <3>2, <4>1, <4>2, RowFrame
      <4>3. CASE i = j
        <5>1. active'[j] = intent /\ (active[j] = "cancel" => intent = "cancel") /\ active[j] # "no"
          BY <1>2, <3>1, <4>1, <4>3 DEF Slip, ActiveJobs
        <5> QED BY <1>1, <2>4, <3>1, <3>2, <5>1 DEF RowOf
      <4> QED BY <4>2, <4>3
    <3> QED BY <3>3, <3>4
  <2>7. CASE ~(RetryFailed(t) \/ \E i \in Jobs : Pause(t, i) \/ Cancel(t, i))
    <3>1. UNCHANGED <<rowVars, procVars>>
      BY <1>5, <2>7 DEF Request, Create, ClearRead, UpdateConfig, Resume, RemoveRead, AddToVod
    <3> QED BY <1>1, <2>4, <3>1, RowFrame DEF rowVars, procVars
  <2> QED BY <2>5, <2>6, <2>7
<1>6. ASSUME NEW t \in Tasks, Step(t) PROVE RowOf(j)'
  <2>1. CASE PumpLoop(t)
    <3>1. PICK J \in SUBSET Jobs, E \in SUBSET Jobs : Started(t, J, E)
      BY <2>1, StartsFree
    <3>2. (Does("final", j)' <=> Does("final", j)) /\ (Does("unrow", j)' <=> Does("unrow", j))
      <4>1. Idle.at \notin RowAts /\ task[t].at \notin RowAts
        BY <2>1 DEF PumpLoop, At, Idle, Task, RowAts
      <4> QED BY <2>1, <4>1, KeepsOutside, DoesSame DEF PumpLoop, RowAts
    <3>3. status' = status
      BY <2>1 DEF PumpLoop, rowVars
    <3>4. CASE j \notin J
      <4>1. active'[j] = active[j] /\ proc'[j] = proc[j] /\ (j \in marking' <=> j \in marking)
        BY <1>2, <3>1, <3>4 DEF Started
      <4> QED BY <1>1, <3>2, <3>3, <4>1, RowFrame
    <3>5. CASE j \in J
      <4>1. j \notin E /\ ~Stale(j)
        BY <3>1, <3>5 DEF Started, Slip
      <4>2. status[j] = "QUEUED" /\ ~Does("final", j) /\ ~Does("unrow", j)
        BY <4>1 DEF Stale
      <4>3. proc'[j] = proc[j] + 1 /\ j \in marking'
        BY <3>1, <3>5, <4>1 DEF Started
      <4> QED BY <1>3, <3>2, <3>3, <4>2, <4>3 DEF RowOf
    <3> QED BY <3>4, <3>5
  <2>2. CASE WriteFinal(t) \/ WriteStatus(t) \/ Requeue(t)
    <3>1. PICK i \in Jobs : i = Job(t) /\ task[t].jobs = {i}
      BY <2>2, TheJob DEF WriteFinal, WriteStatus, Requeue, At, OfOneJob
    <3>2. Shape(task[t])
      BY Readings
    <3>3. PICK s \in {"PAUSED", "CANCELED", "COMPLETED", "FAILED", "QUEUED"} :
            /\ Write(i, s)
            /\ Spoils(i, s) => i \in slipped'
            /\ WriteStatus(t) /\ i \in ActiveJobs => i \in slipped'
            /\ Requeue(t) => s = "QUEUED" /\ (status[i] \notin Resumable => i \in slipped')
            /\ ~Requeue(t) => s # "QUEUED"
      <4>1. CASE WriteFinal(t)
        BY <3>1, <3>2, <4>1 DEF WriteFinal, WriteStatus, Requeue, At, Slip, Shape
      <4>2. CASE WriteStatus(t)
        BY <3>1, <3>2, <4>2 DEF WriteStatus, Requeue, At, Slip, Shape
      <4>3. CASE Requeue(t)
        BY <3>1, <3>2, <4>3 DEF WriteStatus, Requeue, At, Slip, Shape
      <4> QED BY <2>2, <4>1, <4>2, <4>3
    <3>4. UNCHANGED procVars
      BY <2>2 DEF WriteFinal, WriteStatus, Requeue
    <3>5. \E x : x.at \notin RowAts /\ Go(t, x)
      BY <2>2 DEF WriteFinal, WriteStatus, Requeue, AfterExit, Task, Pump, Idle, RowAts
    <3>6. Does("unrow", j)' <=> Does("unrow", j)
      <4>1. task[t].at # "unrow"
        BY <2>2 DEF WriteFinal, WriteStatus, Requeue, At
      <4> QED BY <3>5, <4>1, DoesGo DEF RowAts
    <3>7. Does("final", j)' => Does("final", j)
      BY <3>5, DoesGo DEF RowAts
    <3>8. ~WriteFinal(t) \/ i # j => (Does("final", j)' <=> Does("final", j))
      <4>1. ~WriteFinal(t) \/ i # j => ~(task[t].at = "final" /\ j \in task[t].jobs)
        BY <2>2, <3>1 DEF WriteStatus, Requeue, At
      <4> QED BY <3>5, <3>7, <4>1, DoesGo DEF RowAts
    <3>9. CASE i # j
      <4>1. status'[j] = status[j]
        BY <1>2, <3>3, <3>9 DEF Write
      <4> QED BY <1>1, <3>4, <3>6, <3>8, <3>9, <4>1, RowFrame DEF procVars
    <3>10. CASE i = j
      <4>1. j \notin marking
        BY <3>3, <3>10 DEF Spoils
      <4>2. proc[j] = 0
        <5>1. CASE WriteFinal(t)
          <6>1. Does("final", j)
            BY <3>1, <3>10, <5>1 DEF WriteFinal, Does
          <6> QED BY <1>1, <6>1 DEF RowOf
        <5>2. CASE WriteStatus(t)
          <6>1. active[j] = "no"
            BY <3>3, <3>10, <5>2 DEF ActiveJobs
          <6> QED BY <1>3, <6>1
        <5>3. CASE Requeue(t)
          <6>1. status[j] \in Resumable
            BY <3>3, <3>10, <5>3
          <6> QED BY <1>1, <1>3, <6>1 DEF RowOf, Resumable
        <5> QED BY <2>2, <5>1, <5>2, <5>3
      <4>3. status'[j] # "DOWNLOADING"
        BY <1>2, <3>3, <3>10 DEF Write, Exists, NoRow
      <4> QED BY <1>1, <3>4, <3>6, <4>1, <4>2, <4>3 DEF RowOf, procVars
    <3> QED BY <3>9, <3>10
  <2>3. CASE RemoveFiles(t)
    <3>1. PICK i \in Jobs : i = Job(t)
      BY <2>3, TheJob DEF RemoveFiles, At, OfOneJob
    <3>2. /\ active'[j] = active[j] \/ (active[j] # "no" /\ active'[j] = "cancel")
          /\ i = j => active'[j] \in {"no", "cancel"}
      BY <1>2, <2>3, <3>1 DEF RemoveFiles, ActiveJobs
    <3>3. UNCHANGED <<status, proc, marking>> /\ Go(t, Task("unrow", {i}, "new", 0))
      BY <2>3, <3>1 DEF RemoveFiles, rowVars
    <3>4. /\ Task("unrow", {i}, "new", 0).at = "unrow" /\ Task("unrow", {i}, "new", 0).jobs = {i}
          /\ task[t].at = "unlink"
      BY <2>3 DEF Task, RemoveFiles, At
    <3>5. (Does("final", j)' <=> Does("final", j)) /\ (i # j => (Does("unrow", j)' <=> Does("unrow", j)))
      BY <3>3, <3>4, DoesGo
    <3> QED BY <1>1, <3>2, <3>3, <3>5 DEF RowOf
  <2>4. CASE RemoveRow(t)
    <3>1. PICK i \in Jobs : i = Job(t) /\ task[t].jobs = {i}
      BY <2>4, TheJob DEF RemoveRow, At, OfOneJob
    <3>2. /\ Go(t, Idle) /\ Idle.at = "idle" /\ task[t].at = "unrow"
          /\ status' = [status EXCEPT ![i] = "gone"] /\ UNCHANGED procVars
      BY <2>4, <3>1 DEF RemoveRow, At, Idle, Task
    <3>3. (Does("final", j)' <=> Does("final", j)) /\ (Does("unrow", j)' => Does("unrow", j))
      BY <3>2, DoesGo
    <3>4. CASE i # j
      BY <1>1, <1>2, <3>2, <3>3, <3>4 DEF RowOf, procVars
    <3>5. CASE i = j
      <4>1. Does("unrow", j)
        BY <3>1, <3>2, <3>5 DEF Does, At
      <4>2. active[j] \in {"no", "cancel"} /\ status'[j] = "gone"
        BY <1>1, <1>2, <3>2, <3>5, <4>1 DEF RowOf
      <4> QED BY <1>1, <1>3, <3>2, <3>3, <4>2 DEF RowOf, procVars
    <3> QED BY <3>4, <3>5
  <2>5. CASE Insert(t) \/ ClearRows(t)
    <3>1. /\ \/ status'[j] = status[j]
             \/ status[j] = "new" /\ status'[j] = "QUEUED"
             \/ status[j] \in Finished /\ status'[j] = "gone"
          /\ UNCHANGED procVars
      BY <1>2, <2>5 DEF Insert, ClearRows
    <3>2. \A u \in Tasks : task[u].at \in RowAts \/ task'[u].at \in RowAts => task'[u] = task[u]
      <4>1. CASE UNCHANGED task
        BY <4>1
      <4>2. CASE ~UNCHANGED task
        <5>1. task[t].at \notin RowAts /\ \E x : x.at \notin RowAts /\ Go(t, x)
          BY <2>5, <4>2 DEF Insert, ClearRows, At, Pump, Idle, Task, RowAts
        <5> QED BY <5>1, KeepsOutside
      <4> QED BY <4>1, <4>2
    <3>3. (Does("final", j)' <=> Does("final", j)) /\ (Does("unrow", j)' <=> Does("unrow", j))
      BY <3>2, DoesSame DEF RowAts
    <3> QED BY <1>1, <1>3, <3>1, <3>3 DEF RowOf, procVars, Finished
  <2>6. CASE ~(\/ PumpLoop(t) \/ WriteFinal(t) \/ WriteStatus(t) \/ Requeue(t) \/ RemoveFiles(t)
               \/ RemoveRow(t) \/ Insert(t) \/ ClearRows(t))
    <3>1. task[t].at \notin RowAts /\ UNCHANGED <<status, procVars>>
      BY <1>6, <2>6 DEF Step, PumpConfig, PumpQuery, PumpFails, CheckAutoVod, VodCreate, VodLink,
         InsertNoMore, ClearFiles, At, RowAts, rowVars
    <3>2. \A u \in Tasks : task[u].at \in RowAts \/ task'[u].at \in RowAts => task'[u] = task[u]
      <4>1. CASE CheckAutoVod(t)
        <5>1. PICK i : \/ /\ task' = [task EXCEPT ![t] = Pump, ![i] = Task("vod", {i}, "new", 0)]
                          /\ task[i].at = "idle"
                       \/ Go(t, Pump)
          BY <4>1 DEF CheckAutoVod, At
        <5> QED BY <3>1, <5>1, Readings DEF Go, Task, Pump, RowAts
      <4>2. CASE ClearFiles(t)
        BY <3>1, <4>2, Readings DEF ClearFiles, Go, RowAts
      <4>3. CASE ~CheckAutoVod(t) /\ ~ClearFiles(t)
        <5>1. \E x : x.at \notin RowAts /\ Go(t, x)
          BY <1>6, <2>6, <4>3 DEF Step, PumpConfig, PumpQuery, PumpFails, VodCreate, VodLink,
             InsertNoMore, Pump, Idle, Task, RowAts
        <5> QED BY <3>1, <5>1, KeepsOutside
      <4> QED BY <4>1, <4>2, <4>3
    <3>3. (Does("final", j)' <=> Does("final", j)) /\ (Does("unrow", j)' <=> Does("unrow", j))
      BY <3>2, DoesSame DEF RowAts
    <3> QED BY <1>1, <3>1, <3>3, RowFrame DEF procVars
  <2> QED BY <2>1, <2>2, <2>3, <2>4, <2>5, <2>6
<1>7. ASSUME NEW i \in Jobs, MarkDownloading(i) PROVE RowOf(j)'
  <2>1. (Does("final", j)' <=> Does("final", j)) /\ (Does("unrow", j)' <=> Does("unrow", j))
    BY <1>7 DEF MarkDownloading, Does, At
  <2>2. UNCHANGED <<active, proc>>
    BY <1>7 DEF MarkDownloading
  <2>3. CASE i # j
    <3>1. status'[j] = status[j] /\ (j \in marking' <=> j \in marking)
      BY <1>2, <1>7, <2>3 DEF MarkDownloading, Write
    <3> QED BY <1>1, <2>1, <2>2, <3>1, RowFrame
  <2>4. CASE i = j
    <3>1. /\ j \in marking /\ j \notin marking'
          /\ status'[j] = IF status[j] \notin {"new", "gone"} THEN "DOWNLOADING" ELSE status[j]
      BY <1>2, <1>7, <2>4 DEF MarkDownloading, Write, Exists, NoRow
    <3> QED BY <1>1, <2>1, <2>2, <3>1 DEF RowOf
  <2> QED BY <2>3, <2>4
<1>8. ASSUME NEW i \in Jobs, ProcExit(i) PROVE RowOf(j)'
  <2>1. PICK t \in Calls, s \in Outcome(active[i]) : At(t, "idle") /\ Go(t, Task("final", {i}, s, 0))
    BY <1>8 DEF ProcExit
  <2>2. /\ t \in Tasks /\ task[t].at = "idle" /\ Task("final", {i}, s, 0).at = "final"
        /\ Task("final", {i}, s, 0).jobs = {i}
    BY <2>1 DEF Tasks, At, Task
  <2>3. /\ Does("unrow", j)' <=> Does("unrow", j)
        /\ i # j => (Does("final", j)' <=> Does("final", j))
        /\ i = j => Does("final", j)'
    BY <2>1, <2>2, DoesGo
  <2>4. UNCHANGED <<status, marking>>
    BY <1>8 DEF ProcExit, rowVars
  <2>5. CASE i # j
    <3>1. proc'[j] = proc[j] /\ active'[j] = active[j]
      BY <1>2, <1>8, <2>5 DEF ProcExit
    <3> QED BY <1>1, <2>3, <2>4, <2>5, <3>1, RowFrame
  <2>6. CASE i = j
    <3>1. proc[j] > 0 /\ proc'[j] = proc[j] - 1 /\ active'[j] = "no"
      BY <1>2, <1>8, <2>6 DEF ProcExit
    <3>2. proc'[j] = 0
      BY <1>3, <3>1
    <3>3. Does("final", j)' /\ status'[j] = status[j] /\ (j \in marking' <=> j \in marking)
      BY <2>3, <2>4, <2>6
    <3>4. active'[j] = "no" /\ (j \in marking => status[j] \in {"QUEUED", "gone"})
      BY <1>1, <3>1 DEF RowOf
    <3> QED BY <3>2, <3>3, <3>4 DEF RowOf
  <2> QED BY <2>5, <2>6
<1>9. CASE ApiRestart
  <2>1. \A u \in Tasks : task'[u].at \notin RowAts
    BY <1>9 DEF ApiRestart, Pump, Idle, Task, RowAts
  <2>2. ~Does("final", j)' /\ ~Does("unrow", j)'
    BY <2>1 DEF Does, At, RowAts
  <2>3. proc'[j] = 0 /\ j \notin marking' /\ status'[j] # "DOWNLOADING"
    BY <1>2, <1>9 DEF ApiRestart, Slip
  <2> QED BY <2>2, <2>3 DEF RowOf
<1> QED BY <1>4, <1>5, <1>6, <1>7, <1>8, <1>9 DEF Next

LEMMA InitRow == Init => RowInv
<1> SUFFICES ASSUME Init, NEW j \in Jobs PROVE RowOf(j)
  BY DEF RowInv
<1>1. \A t \in Tasks : task[t].at \notin RowAts
  BY DEF Init, Pump, Idle, Task, RowAts
<1>2. ~Does("final", j) /\ ~Does("unrow", j)
  BY <1>1 DEF Does, At, RowAts
<1>3. proc[j] = 0 /\ j \notin marking /\ status[j] # "DOWNLOADING"
  BY DEF Init
<1> QED BY <1>2, <1>3 DEF RowOf

\* The row of a job says DOWNLOADING exactly while aria2c runs for it or its end
\* is being written down, unless the row changed under a call that had read it.
THEOREM RowsTruthfulHolds == Spec => []RowsTruthful
<1>1. TypeInv /\ RowInv => RowsTruthful
  BY DEF TypeInv, TypeOK, RowInv, RowOf, RowsTruthful
<1> QED BY <1>1, InitTypes, StepTypes, InitProc, StepProc, InitRow, StepRow, PTL DEF Spec
-----------------------------------------------------------------------------
(* Rows and files.                                                         *)
SnapAts == {"unlinkAll", "deleteAll"}
FileAts == {"final", "unrow", "unlinkAll", "deleteAll"}

\* What a clearFinished has read is still what is finished.
SnapsFit(j) ==
  \A t \in Tasks : task[t].at \in SnapAts =>
    /\ j \in task[t].jobs => status[j] \in Finished \cup {"gone"}
    /\ j \notin task[t].jobs => status[j] \notin Finished

\* The file of a completed download is there, or the row is on its way out.
Covered(j) == j \in file \/ Does("unrow", j) \/ Does("deleteAll", j) \/ status[j] = "gone"

FileOf(j) ==
  /\ SnapsFit(j)
  /\ \A t \in Tasks : task[t].at = "final" /\ j \in task[t].jobs /\ task[t].to = "COMPLETED" => Covered(j)
  /\ Does("unrow", j) \/ Does("deleteAll", j) => j \notin file
  /\ proc[j] > 0 /\ active[j] = "run" => j \in file
  /\ status[j] = "COMPLETED" => j \in file \/ Does("unrow", j)
  /\ status[j] = "gone" => j \notin file

FileInv == \A j \in Jobs \ slipped : FileOf(j)

LEMMA FileFrame ==
  ASSUME NEW j, FileOf(j), SnapsFit(j)',
         j \in file' <=> j \in file,
         Does("unrow", j)' <=> Does("unrow", j), Does("deleteAll", j)' <=> Does("deleteAll", j),
         \A u \in Tasks : task'[u].at = "final" => task'[u] = task[u],
         status'[j] = "gone" <=> status[j] = "gone",
         status'[j] = "COMPLETED" => j \in file \/ Does("unrow", j),
         proc'[j] > 0 /\ active'[j] = "run" => proc[j] > 0 /\ active[j] = "run"
  PROVE  FileOf(j)'
<1>1. Covered(j)' <=> Covered(j)
  BY DEF Covered
<1> QED BY <1>1 DEF FileOf

\* Snapshots that are only carried on.
LEMMA SnapsKept ==
  ASSUME NEW j, SnapsFit(j),
         \A u \in Tasks : task'[u].at \in SnapAts => task[u].at \in SnapAts /\ task'[u].jobs = task[u].jobs,
         status[j] \in Finished \cup {"gone"} => status'[j] \in Finished \cup {"gone"},
         status[j] \notin Finished => status'[j] \notin Finished
  PROVE  SnapsFit(j)'
  BY DEF SnapsFit

\* A step that leaves j's row, its file, its process and the calls alone.
FileQuiet == \A u \in Tasks : task[u].at \in FileAts \/ task'[u].at \in FileAts => task'[u] = task[u]

LEMMA QuietFacts ==
  ASSUME FileQuiet, NEW j
  PROVE  /\ Does("unrow", j)' <=> Does("unrow", j)
         /\ Does("deleteAll", j)' <=> Does("deleteAll", j)
         /\ \A u \in Tasks : task'[u].at = "final" => task'[u] = task[u]
         /\ \A u \in Tasks : task'[u].at \in SnapAts => task[u].at \in SnapAts /\ task'[u].jobs = task[u].jobs
<1>1. \A p \in FileAts : Does(p, j)' <=> Does(p, j)
  BY DoesSame DEF FileQuiet
<1>2. \A u \in Tasks : task'[u].at = "final" => task'[u] = task[u]
  BY DEF FileQuiet, FileAts
<1>3. \A u \in Tasks : task'[u].at \in SnapAts => task[u].at \in SnapAts /\ task'[u].jobs = task[u].jobs
  BY DEF FileQuiet, FileAts, SnapAts
<1>4. Does("unrow", j)' <=> Does("unrow", j)
  BY <1>1 DEF FileAts
<1>5. Does("deleteAll", j)' <=> Does("deleteAll", j)
  BY <1>1 DEF FileAts
<1> QED BY <1>2, <1>3, <1>4, <1>5

LEMMA FileStill ==
  ASSUME FileQuiet, NEW j, FileOf(j), status'[j] = status[j], j \in file' <=> j \in file,
         proc'[j] > 0 /\ active'[j] = "run" => proc[j] > 0 /\ active[j] = "run"
  PROVE  FileOf(j)'
<1>1. SnapsFit(j)'
  BY QuietFacts, SnapsKept DEF FileOf
<1>2. status[j] = "COMPLETED" => j \in file \/ Does("unrow", j)
  BY DEF FileOf
<1> QED BY <1>1, <1>2, QuietFacts, FileFrame

\* A row written by a call that does not spoil a clearFinished.
LEMMA SnapsWritten ==
  ASSUME TypeInv, NEW j \in Jobs, NEW s, Write(j, s), ~Spoils(j, s), SnapsFit(j),
         \A u \in Tasks : task'[u].at \in SnapAts => task[u].at \in SnapAts /\ task'[u].jobs = task[u].jobs
  PROVE  SnapsFit(j)'
<1>1. status \in [Jobs -> Statuses]
  BY DEF TypeInv, TypeOK
<1>2. CASE Exists(j)
  <2>1. status'[j] = s
    BY <1>1, <1>2 DEF Write
  <2>2. \A u \in Tasks : task[u].at \in SnapAts => ((j \in task[u].jobs) <=> (s \in Finished))
    BY DEF Spoils, SnapAts
  <2> QED BY <2>1, <2>2 DEF SnapsFit
<1>3. CASE ~Exists(j)
  <2>1. status'[j] = status[j]
    BY <1>1, <1>3 DEF Write
  <2> QED BY <2>1, SnapsKept
<1> QED BY <1>2, <1>3
-----------------------------------------------------------------------------
(* Each request, step and event keeps FileOf(j), given RowOf(j).           *)

LEMMA RequestFiles ==
  ASSUME TypeInv, NEW j \in Jobs, RowOf(j), FileOf(j), NEW t \in Calls, Request(t), j \notin slipped'
  PROVE  FileOf(j)'
<1>1. t \in Tasks /\ status \in [Jobs -> Statuses] /\ active \in [Jobs -> {"no", "run", "pause", "cancel"}]
  BY DEF Tasks, TypeInv, TypeOK
<1>2. ~ClearRead(t) => FileQuiet
  <2> SUFFICES ASSUME ~ClearRead(t) PROVE FileQuiet
    OBVIOUS
  <2>1. \E x : x.at \notin FileAts /\ Go(t, x)
    BY DEF Request, Create, RetryFailed, UpdateConfig, Pause, Cancel, Stop,
       Resume, RemoveRead, AddToVod, Begin, Task, Pump, Idle, FileAts
  <2>2. task[t].at \notin FileAts
    BY DEF Request, Create, RetryFailed, UpdateConfig, Pause, Cancel, Stop,
       Resume, RemoveRead, AddToVod, Begin, At, FileAts
  <2> QED BY <1>1, <2>1, <2>2, KeepsOutside DEF FileQuiet
<1>3. CASE RetryFailed(t)
  <2>1. /\ status'[j] = IF status[j] = "FAILED" THEN "QUEUED" ELSE status[j]
        /\ status[j] = "FAILED" => ~Spoils(j, "QUEUED")
        /\ UNCHANGED <<file, procVars>>
    BY <1>1, <1>3 DEF RetryFailed, Slip
  <2>2. FileQuiet
    BY <1>1, <1>2, <1>3, Readings DEF RetryFailed, ClearRead, Begin, Go, Task, Pump
  <2>3. CASE status[j] # "FAILED"
    BY <2>1, <2>2, <2>3, FileStill DEF procVars
  <2>4. CASE status[j] = "FAILED"
    <3>1. status'[j] = "QUEUED"
      BY <2>1, <2>4
    <3>2. \A u \in Tasks : task[u].at \notin SnapAts
      BY <2>1, <2>4 DEF Spoils, FileOf, SnapsFit, SnapAts, Finished
    <3>3. SnapsFit(j)'
      BY <2>2, <3>2, QuietFacts DEF SnapsFit
    <3> QED BY <2>1, <2>2, <2>4, <3>1, <3>3, QuietFacts, FileFrame DEF procVars
  <2> QED BY <2>3, <2>4
<1>4. CASE ClearRead(t)
  <2> DEFINE J == {i \in Jobs : status[i] \in Finished}
  <2>1. /\ task[t].at = "idle" /\ task'[t] = Task("unlinkAll", J, "new", 0)
        /\ \A u \in Tasks : u # t => task'[u] = task[u]
    BY <1>1, <1>4, Readings DEF ClearRead, Begin, At, Go
  <2>2. task'[t].at = "unlinkAll" /\ task'[t].jobs = J
    BY <2>1 DEF Task
  <2>3. UNCHANGED <<status, file, procVars>>
    BY <1>4 DEF ClearRead, rowVars
  <2>4. \A u \in Tasks : task'[u].at = "final" => task'[u] = task[u]
    BY <2>1, <2>2
  <2>5. (Does("unrow", j)' <=> Does("unrow", j)) /\ (Does("deleteAll", j)' <=> Does("deleteAll", j))
    BY <2>1, <2>2 DEF Does, At
  <2>6. SnapsFit(j)'
    BY <2>1, <2>2, <2>3 DEF FileOf, SnapsFit
  <2>7. status[j] = "COMPLETED" => j \in file \/ Does("unrow", j)
    BY DEF FileOf
  <2> HIDE DEF J
  <2> QED BY <2>3, <2>4, <2>5, <2>6, <2>7, FileFrame DEF procVars
<1>5. CASE \E i \in Jobs : Pause(t, i) \/ Cancel(t, i)
  <2>1. PICK i \in Jobs, intent \in {"pause", "cancel"} : \E s : Stop(t, i, intent, s)
    BY <1>5 DEF Pause, Cancel
  <2>2. UNCHANGED <<status, proc, file>> /\ (active'[j] = active[j] \/ active'[j] = intent)
    BY <1>1, <2>1 DEF Stop, rowVars
  <2>3. FileQuiet
    <3>1. ~ClearRead(t)
      BY <1>1, <2>1, Readings DEF Stop, ClearRead, Begin, Go, Task, Idle
    <3> QED BY <1>2, <3>1
  <2> QED BY <2>1, <2>2, <2>3, FileStill
<1>6. CASE ~(RetryFailed(t) \/ ClearRead(t) \/ \E i \in Jobs : Pause(t, i) \/ Cancel(t, i))
  <2>1. UNCHANGED <<rowVars, file, procVars>>
    BY <1>6 DEF Request, Create, UpdateConfig, Resume, RemoveRead, AddToVod
  <2> QED BY <1>2, <1>6, <2>1, FileStill DEF rowVars, procVars
<1> QED BY <1>3, <1>4, <1>5, <1>6

\* The calls that write a status.
LEMMA WriteFiles ==
  ASSUME TypeInv, NEW j \in Jobs, FileOf(j), NEW t \in Tasks,
         WriteFinal(t) \/ WriteStatus(t) \/ Requeue(t), j \notin slipped'
  PROVE  FileOf(j)'
<1>1. PICK i \in Jobs : i = Job(t) /\ task[t].jobs = {i}
  BY TheJob DEF WriteFinal, WriteStatus, Requeue, At, OfOneJob
<1>2. Shape(task[t]) /\ status \in [Jobs -> Statuses]
  BY Readings DEF TypeInv, TypeOK
<1>3. PICK s \in {"PAUSED", "CANCELED", "COMPLETED", "FAILED", "QUEUED"} :
        /\ Write(i, s)
        /\ Spoils(i, s) => i \in slipped'
        /\ s = "COMPLETED" => task[t].at = "final" /\ task[t].to = "COMPLETED"
  <2>1. CASE WriteFinal(t)
    BY <1>1, <1>2, <2>1 DEF WriteFinal, At, Slip, Shape
  <2>2. CASE WriteStatus(t)
    BY <1>1, <1>2, <2>2 DEF WriteStatus, At, Slip, Shape
  <2>3. CASE Requeue(t)
    BY <1>1, <1>2, <2>3 DEF Requeue, At, Slip, Shape
  <2> QED BY <2>1, <2>2, <2>3
<1>4. UNCHANGED <<file, procVars>>
  BY DEF WriteFinal, WriteStatus, Requeue
<1>5. PICK x : x.at \notin FileAts /\ Go(t, x)
  BY DEF WriteFinal, WriteStatus, Requeue, AfterExit, Task, Pump, Idle, FileAts
<1>6. task[t].at \in {"final", "write", "requeue"}
  BY DEF WriteFinal, WriteStatus, Requeue, At
<1>7. task'[t] = x /\ \A u \in Tasks : u # t => task'[u] = task[u]
  BY <1>5, Readings DEF Go
<1>8. /\ \A u \in Tasks : task'[u].at = "final" => task'[u] = task[u]
      /\ \A u \in Tasks : task'[u].at \in SnapAts => task[u].at \in SnapAts /\ task'[u].jobs = task[u].jobs
  BY <1>5, <1>7 DEF FileAts, SnapAts
<1>9. (Does("unrow", j)' <=> Does("unrow", j)) /\ (Does("deleteAll", j)' <=> Does("deleteAll", j))
  BY <1>5, <1>6, <1>7 DEF Does, At, FileAts
<1>10. CASE i # j
  <2>1. status'[j] = status[j]
    BY <1>2, <1>3, <1>10 DEF Write
  <2>2. SnapsFit(j)'
    BY <1>8, <2>1, SnapsKept DEF FileOf
  <2>3. status[j] = "COMPLETED" => j \in file \/ Does("unrow", j)
    BY DEF FileOf
  <2> QED BY <1>4, <1>8, <1>9, <2>1, <2>2, <2>3, FileFrame DEF procVars
<1>11. CASE i = j
  <2>1. Write(j, s) /\ ~Spoils(j, s)
    BY <1>3, <1>11
  <2>2. SnapsFit(j)'
    BY <1>8, <2>1, SnapsWritten DEF FileOf
  <2>3. status'[j] = IF status[j] \in NoRow THEN status[j] ELSE s
    BY <1>2, <2>1 DEF Write, Exists
  <2>4. status'[j] = "gone" <=> status[j] = "gone"
    BY <2>3 DEF NoRow
  <2>5. status'[j] = "COMPLETED" => j \in file \/ Does("unrow", j)
    <3> SUFFICES ASSUME status'[j] = "COMPLETED" PROVE j \in file \/ Does("unrow", j)
      OBVIOUS
    <3>1. s = "COMPLETED" /\ status[j] # "gone"
      BY <2>3 DEF NoRow
    <3>2. Covered(j)
      BY <1>1, <1>3, <1>11, <3>1 DEF FileOf
    <3>3. ~Does("deleteAll", j)
      BY <2>1, <3>1 DEF Spoils, Does, At, Finished
    <3> QED BY <3>1, <3>2, <3>3 DEF Covered
  <2> QED BY <1>4, <1>8, <1>9, <2>2, <2>4, <2>5, FileFrame DEF procVars
<1> QED BY <1>10, <1>11

\* clearFinished and remove.
LEMMA ClearFilesFiles ==
  ASSUME TypeInv, NEW j \in Jobs, RowOf(j), FileOf(j), NEW t \in Tasks, ClearFiles(t)
  PROVE  FileOf(j)'
<1>1. /\ task[t].at = "unlinkAll" /\ task'[t].at = "deleteAll" /\ task'[t].jobs = task[t].jobs
      /\ \A u \in Tasks : u # t => task'[u] = task[u]
  BY Readings DEF ClearFiles, At, Go, TaskRec
<1>2. UNCHANGED <<status, procVars>> /\ file' = file \ task[t].jobs
  BY DEF ClearFiles, rowVars
<1>3. \A u \in Tasks : task'[u].at = "final" => task'[u] = task[u]
  BY <1>1
<1>4. Does("unrow", j)' <=> Does("unrow", j)
  BY <1>1 DEF Does, At
<1>5. SnapsFit(j)'
  <2>1. \A u \in Tasks : task'[u].at \in SnapAts => task[u].at \in SnapAts /\ task'[u].jobs = task[u].jobs
    BY <1>1 DEF SnapAts
  <2> QED BY <1>2, <2>1, SnapsKept DEF FileOf
<1>6. CASE j \notin task[t].jobs
  <2>1. Does("deleteAll", j)' <=> Does("deleteAll", j)
    BY <1>1, <1>6 DEF Does, At
  <2>2. status[j] = "COMPLETED" => j \in file \/ Does("unrow", j)
    BY DEF FileOf
  <2>3. j \in file' <=> j \in file
    BY <1>2, <1>6
  <2> QED BY <1>2, <1>3, <1>4, <1>5, <2>1, <2>2, <2>3, FileFrame DEF procVars
<1>7. CASE j \in task[t].jobs
  <2>1. status[j] \in {"FAILED", "CANCELED", "gone"}
    BY <1>1, <1>7 DEF FileOf, SnapsFit, SnapAts, Finished
  <2>2. proc[j] > 0 => active[j] # "run"
    BY <2>1 DEF RowOf
  <2>3. Does("deleteAll", j)' /\ j \notin file'
    BY <1>1, <1>2, <1>7 DEF Does, At
  <2>4. Covered(j)'
    BY <2>3 DEF Covered
  <2> QED BY <1>2, <1>5, <2>1, <2>2, <2>3, <2>4 DEF FileOf, procVars
<1> QED BY <1>6, <1>7

LEMMA ClearRowsFiles ==
  ASSUME TypeInv, NEW j \in Jobs, RowOf(j), FileOf(j), NEW t \in Tasks, ClearRows(t)
  PROVE  FileOf(j)'
<1>1. /\ task[t].at = "deleteAll" /\ task'[t].at = "idle"
      /\ \A u \in Tasks : u # t => task'[u] = task[u]
  BY Readings DEF ClearRows, At, Go, Idle, Task
<1>2. UNCHANGED <<file, procVars>> /\ status'[j] = IF status[j] \in Finished THEN "gone" ELSE status[j]
  BY DEF ClearRows
<1>3. \A u \in Tasks : task'[u].at \in SnapAts => task[u].at \in SnapAts /\ task'[u].jobs = task[u].jobs
  BY <1>1 DEF SnapAts
<1>4. SnapsFit(j)'
  BY <1>2, <1>3, SnapsKept DEF FileOf, Finished
<1>5. (Does("unrow", j)' <=> Does("unrow", j)) /\ (Does("deleteAll", j)' => Does("deleteAll", j))
  BY <1>1 DEF Does, At
<1>6. status[j] \in Finished => Does("deleteAll", j)
  BY <1>1 DEF FileOf, SnapsFit, SnapAts, Does, At
<1>7. Covered(j) => Covered(j)'
  <2>1. CASE j \in task[t].jobs
    <3>1. status[j] \in Finished \cup {"gone"}
      BY <1>1, <2>1 DEF FileOf, SnapsFit, SnapAts
    <3> QED BY <1>2, <3>1 DEF Covered
  <2>2. CASE j \notin task[t].jobs
    <3>1. Does("deleteAll", j) => Does("deleteAll", j)'
      BY <1>1, <2>2 DEF Does, At
    <3> QED BY <1>2, <1>5, <3>1 DEF Covered, Finished
  <2> QED BY <2>1, <2>2
<1>8. \A u \in Tasks : task'[u].at = "final" => task'[u] = task[u]
  BY <1>1
<1>9. status'[j] = "gone" => j \notin file
  BY <1>2, <1>6 DEF FileOf
<1> QED BY <1>2, <1>4, <1>5, <1>7, <1>8, <1>9 DEF FileOf, procVars, Finished

LEMMA RemoveFilesFiles ==
  ASSUME TypeInv, NEW j \in Jobs, FileOf(j), NEW t \in Tasks, RemoveFiles(t)
  PROVE  FileOf(j)'
<1>1. PICK i \in Jobs : i = Job(t)
  BY TheJob DEF RemoveFiles, At, OfOneJob
<1>2. /\ task[t].at = "unlink" /\ task'[t].at = "unrow" /\ task'[t].jobs = {i}
      /\ \A u \in Tasks : u # t => task'[u] = task[u]
  BY <1>1, Readings DEF RemoveFiles, At, Go, Task
<1>3. active \in [Jobs -> {"no", "run", "pause", "cancel"}]
  BY DEF TypeInv, TypeOK
<1>4. /\ UNCHANGED <<status, proc>> /\ file' = file \ {i}
      /\ active'[j] = active[j] \/ active'[j] = "cancel"
      /\ i = j => active'[j] \in {"no", "cancel"}
  BY <1>1, <1>3 DEF RemoveFiles, rowVars, ActiveJobs
<1>5. \A u \in Tasks : task'[u].at = "final" => task'[u] = task[u]
  BY <1>2
<1>6. SnapsFit(j)'
  <2>1. \A u \in Tasks : task'[u].at \in SnapAts => task[u].at \in SnapAts /\ task'[u].jobs = task[u].jobs
    BY <1>2 DEF SnapAts
  <2> QED BY <1>4, <2>1, SnapsKept DEF FileOf
<1>7. Does("deleteAll", j)' <=> Does("deleteAll", j)
  BY <1>2 DEF Does, At
<1>8. CASE i # j
  <2>1. Does("unrow", j)' <=> Does("unrow", j)
    BY <1>2, <1>8 DEF Does, At
  <2>2. status[j] = "COMPLETED" => j \in file \/ Does("unrow", j)
    BY DEF FileOf
  <2>3. j \in file' <=> j \in file
    BY <1>4, <1>8
  <2> QED BY <1>4, <1>5, <1>6, <1>7, <2>1, <2>2, <2>3, FileFrame
<1>9. CASE i = j
  <2>1. Does("unrow", j)' /\ j \notin file' /\ active'[j] # "run"
    BY <1>2, <1>4, <1>9 DEF Does, At
  <2>2. Covered(j)'
    BY <2>1 DEF Covered
  <2> QED BY <1>6, <2>1, <2>2 DEF FileOf
<1> QED BY <1>8, <1>9

LEMMA RemoveRowFiles ==
  ASSUME TypeInv, NEW j \in Jobs, FileOf(j), NEW t \in Tasks, RemoveRow(t)
  PROVE  FileOf(j)'
<1>1. PICK i \in Jobs : i = Job(t) /\ task[t].jobs = {i}
  BY TheJob DEF RemoveRow, At, OfOneJob
<1>2. /\ task[t].at = "unrow" /\ task'[t].at = "idle"
      /\ \A u \in Tasks : u # t => task'[u] = task[u]
  BY Readings DEF RemoveRow, At, Go, Idle, Task
<1>3. UNCHANGED <<file, procVars>> /\ status' = [status EXCEPT ![i] = "gone"] /\ status \in [Jobs -> Statuses]
  BY <1>1 DEF RemoveRow, TypeInv, TypeOK
<1>4. \A u \in Tasks : task'[u].at = "final" => task'[u] = task[u]
  BY <1>2
<1>5. \A u \in Tasks : task'[u].at \in SnapAts => task[u].at \in SnapAts /\ task'[u].jobs = task[u].jobs
  BY <1>2 DEF SnapAts
<1>6. SnapsFit(j)'
  <2>1. status'[j] = status[j] \/ status'[j] = "gone"
    BY <1>3
  <2> QED BY <1>5, <2>1, SnapsKept DEF FileOf, Finished
<1>7. (Does("deleteAll", j)' <=> Does("deleteAll", j)) /\ (Does("unrow", j)' => Does("unrow", j))
  BY <1>2 DEF Does, At
<1>8. CASE i # j
  <2>1. Does("unrow", j)' <=> Does("unrow", j)
    BY <1>1, <1>2, <1>8 DEF Does, At
  <2>2. status[j] = "COMPLETED" => j \in file \/ Does("unrow", j)
    BY DEF FileOf
  <2>3. status'[j] = status[j]
    BY <1>3, <1>8
  <2> QED BY <1>3, <1>4, <1>6, <1>7, <2>1, <2>2, <2>3, FileFrame DEF procVars
<1>9. CASE i = j
  <2>1. status'[j] = "gone"
    BY <1>3, <1>9
  <2>2. Does("unrow", j)
    BY <1>1, <1>2, <1>9 DEF Does, At
  <2>3. j \notin file
    BY <2>2 DEF FileOf
  <2>4. Covered(j)'
    BY <2>1 DEF Covered
  <2> QED BY <1>3, <1>6, <1>7, <2>1, <2>3, <2>4 DEF FileOf, procVars
<1> QED BY <1>8, <1>9

LEMMA StepFiles ==
  ASSUME TypeInv, NEW j \in Jobs, RowOf(j), FileOf(j), NEW t \in Tasks, Step(t), j \notin slipped'
  PROVE  FileOf(j)'
<1>1. CASE PumpLoop(t)
  <2>1. PICK J \in SUBSET Jobs, E \in SUBSET Jobs : Started(t, J, E)
    BY <1>1, StartsFree
  <2>2. FileQuiet
    <3>1. Idle.at \notin FileAts /\ task[t].at \notin FileAts /\ Go(t, Idle)
      BY <1>1 DEF PumpLoop, At, Idle, Task, FileAts
    <3> QED BY <3>1, KeepsOutside DEF FileQuiet
  <2>3. status' = status
    BY <1>1 DEF PumpLoop, rowVars
  <2>4. active \in [Jobs -> {"no", "run", "pause", "cancel"}] /\ proc \in [Jobs -> Nat]
    BY DEF TypeInv, TypeOK
  <2>5. CASE j \notin J
    <3>1. active'[j] = active[j] /\ proc'[j] = proc[j] /\ (j \in file' <=> j \in file)
      BY <2>1, <2>4, <2>5 DEF Started
    <3> QED BY <2>2, <2>3, <3>1, FileStill
  <2>6. CASE j \in J
    <3>1. j \notin E /\ ~Stale(j)
      BY <2>1, <2>6 DEF Started, Slip
    <3>2. status[j] = "QUEUED" /\ ~Does("unrow", j) /\ j \in file'
      BY <2>1, <2>6, <3>1 DEF Stale, Started
    <3>3. ~Does("deleteAll", j)
      BY <3>2 DEF FileOf, SnapsFit, SnapAts, Does, At, Finished
    <3>4. SnapsFit(j)'
      BY <2>2, <2>3, QuietFacts, SnapsKept DEF FileOf
    <3>5. ~Does("unrow", j)' /\ ~Does("deleteAll", j)'
      BY <2>2, <3>2, <3>3, QuietFacts
    <3> QED BY <2>3, <3>2, <3>4, <3>5 DEF FileOf, Covered
  <2> QED BY <2>5, <2>6
<1>2. CASE Insert(t)
  <2>1. FileQuiet
    <3>1. CASE UNCHANGED task
      BY <3>1 DEF FileQuiet
    <3>2. CASE Go(t, Pump)
      <4>1. Pump.at \notin FileAts /\ task[t].at \notin FileAts
        BY <1>2 DEF Insert, At, Pump, Task, FileAts
      <4> QED BY <3>2, <4>1, KeepsOutside DEF FileQuiet
    <3> QED BY <1>2, <3>1, <3>2 DEF Insert
  <2>2. /\ status'[j] = status[j] \/ (status[j] = "new" /\ status'[j] = "QUEUED")
        /\ UNCHANGED <<file, procVars>>
    BY <1>2 DEF Insert, TypeInv, TypeOK
  <2>3. SnapsFit(j)'
    BY <2>1, <2>2, QuietFacts, SnapsKept DEF FileOf, Finished
  <2>4. status[j] = "COMPLETED" => j \in file \/ Does("unrow", j)
    BY DEF FileOf
  <2> QED BY <2>1, <2>2, <2>3, <2>4, QuietFacts, FileFrame DEF procVars
<1>3. CASE ~(\/ PumpLoop(t) \/ Insert(t) \/ WriteFinal(t) \/ WriteStatus(t) \/ Requeue(t)
             \/ ClearFiles(t) \/ ClearRows(t) \/ RemoveFiles(t) \/ RemoveRow(t))
  <2>1. task[t].at \notin FileAts /\ UNCHANGED <<status, file, procVars>>
    BY <1>3 DEF Step, PumpConfig, PumpQuery, PumpFails, CheckAutoVod, VodCreate, VodLink,
       InsertNoMore, At, FileAts, rowVars
  <2>2. FileQuiet
    <3>1. CASE CheckAutoVod(t)
      <4>1. PICK i : \/ /\ task' = [task EXCEPT ![t] = Pump, ![i] = Task("vod", {i}, "new", 0)]
                        /\ task[i].at = "idle"
                     \/ Go(t, Pump)
        BY <3>1 DEF CheckAutoVod, At
      <4> QED BY <2>1, <4>1, Readings DEF Go, Task, Pump, FileAts, FileQuiet
    <3>2. CASE ~CheckAutoVod(t)
      <4>1. \E x : x.at \notin FileAts /\ Go(t, x)
        BY <1>3, <3>2 DEF Step, PumpConfig, PumpQuery, PumpFails, VodCreate, VodLink,
           InsertNoMore, Pump, Idle, Task, FileAts
      <4> QED BY <2>1, <4>1, KeepsOutside DEF FileQuiet
    <3> QED BY <3>1, <3>2
  <2> QED BY <2>1, <2>2, FileStill DEF procVars
<1> QED BY <1>1, <1>2, <1>3, WriteFiles, ClearFilesFiles, ClearRowsFiles, RemoveFilesFiles, RemoveRowFiles

LEMMA ExitFiles ==
  ASSUME TypeInv, ProcInv, NEW j \in Jobs, RowOf(j), FileOf(j), NEW i \in Jobs, ProcExit(i)
  PROVE  FileOf(j)'
<1>1. PICK t \in Calls, s \in Outcome(active[i]) :
        At(t, "idle") /\ Go(t, Task("final", {i}, s, 0)) /\ file' = Left(i, s)
  BY DEF ProcExit
<1>2. /\ t \in Tasks /\ task[t].at = "idle"
      /\ task'[t].at = "final" /\ task'[t].jobs = {i} /\ task'[t].to = s
      /\ \A u \in Tasks : u # t => task'[u] = task[u]
  BY <1>1, Readings DEF Tasks, At, Go, Task
<1>3. active \in [Jobs -> {"no", "run", "pause", "cancel"}] /\ proc \in [Jobs -> Nat]
  BY DEF TypeInv, TypeOK
<1>4. UNCHANGED status
  BY DEF ProcExit, rowVars
<1>5. (Does("unrow", j)' <=> Does("unrow", j)) /\ (Does("deleteAll", j)' <=> Does("deleteAll", j))
  BY <1>2 DEF Does, At
<1>6. SnapsFit(j)'
  <2>1. \A u \in Tasks : task'[u].at \in SnapAts => task[u].at \in SnapAts /\ task'[u].jobs = task[u].jobs
    BY <1>2 DEF SnapAts
  <2> QED BY <1>4, <2>1, SnapsKept DEF FileOf
<1>7. CASE i # j
  <2>1. (j \in file' <=> j \in file) /\ proc'[j] = proc[j] /\ active'[j] = active[j]
    BY <1>1, <1>3, <1>7 DEF Left, ProcExit
  <2>2. Covered(j)' <=> Covered(j)
    BY <1>4, <1>5, <2>1 DEF Covered
  <2>3. \A u \in Tasks : task'[u].at = "final" /\ j \in task'[u].jobs => task'[u] = task[u]
    BY <1>2, <1>7
  <2> QED BY <1>4, <1>5, <1>6, <2>1, <2>2, <2>3 DEF FileOf
<1>8. CASE i = j
  <2>1. proc[j] = 1 /\ proc'[j] = 0 /\ active[j] # "no"
    BY <1>3, <1>8 DEF ProcExit, ProcInv
  <2>2. ~Does("final", j)
    BY <2>1 DEF RowOf
  <2>3. \A u \in Tasks : task'[u].at = "final" /\ j \in task'[u].jobs => u = t
    BY <1>2, <2>2 DEF Does, At
  <2>4. status[j] \in {"DOWNLOADING", "QUEUED"} \/ (status[j] = "gone" /\ active[j] = "cancel")
    BY <2>1 DEF RowOf
  <2>5. CASE active[j] = "cancel"
    <3>1. j \notin file' /\ s = "CANCELED"
      BY <1>1, <1>8, <2>5 DEF Left, Outcome
    <3> QED BY <1>2, <1>4, <1>6, <2>1, <2>3, <2>4, <3>1 DEF FileOf
  <2>6. CASE active[j] # "cancel"
    <3>1. ~Does("unrow", j) /\ status[j] \in {"DOWNLOADING", "QUEUED"}
      BY <2>1, <2>4, <2>6 DEF RowOf
    <3>2. ~Does("deleteAll", j)
      BY <3>1 DEF FileOf, SnapsFit, SnapAts, Does, At, Finished
    <3>3. s = "COMPLETED" => j \in file'
      <4> SUFFICES ASSUME s = "COMPLETED" PROVE j \in file'
        OBVIOUS
      <4>1. active[j] = "run"
        BY <1>1, <1>3, <1>8, <2>1, <2>6 DEF Outcome
      <4>2. j \in file
        BY <2>1, <4>1 DEF FileOf
      <4> QED BY <1>1, <1>8, <2>6, <4>2 DEF Left
    <3>4. s = "COMPLETED" => Covered(j)'
      BY <3>3 DEF Covered
    <3> QED BY <1>2, <1>4, <1>5, <1>6, <2>1, <2>3, <3>1, <3>2, <3>4 DEF FileOf
  <2> QED BY <2>5, <2>6
<1> QED BY <1>7, <1>8

LEMMA StepFile == TypeInv /\ ProcInv /\ RowInv /\ FileInv /\ [Next]_vars => FileInv'
<1> SUFFICES ASSUME TypeInv, ProcInv, RowInv, FileInv, [Next]_vars, NEW j \in Jobs, j \notin slipped'
             PROVE  FileOf(j)'
  BY DEF FileInv
<1>1. RowOf(j) /\ FileOf(j)
  BY SlipsKept DEF RowInv, FileInv
<1>2. CASE UNCHANGED vars
  <2>1. FileQuiet
    BY <1>2 DEF vars, FileQuiet
  <2> QED BY <1>1, <1>2, <2>1, FileStill DEF vars, rowVars, procVars
<1>3. ASSUME NEW i \in Jobs, MarkDownloading(i) PROVE FileOf(j)'
  <2>1. FileQuiet /\ UNCHANGED <<file, active, proc>>
    BY <1>3 DEF MarkDownloading, FileQuiet
  <2>2. status'[j] = status[j] \/ (status[j] = "QUEUED" /\ status'[j] = "DOWNLOADING")
    <3>1. i \in marking /\ Write(i, "DOWNLOADING") /\ status \in [Jobs -> Statuses]
      BY <1>3 DEF MarkDownloading, TypeInv, TypeOK
    <3>2. i = j => status[j] \in {"QUEUED", "gone"}
      BY <1>1, <3>1 DEF RowOf
    <3> QED BY <3>1, <3>2 DEF Write, Exists, NoRow
  <2>3. SnapsFit(j)'
    BY <1>1, <2>1, <2>2, QuietFacts, SnapsKept DEF FileOf, Finished
  <2>4. status[j] = "COMPLETED" => j \in file \/ Does("unrow", j)
    BY <1>1 DEF FileOf
  <2> QED BY <1>1, <2>1, <2>2, <2>3, <2>4, QuietFacts, FileFrame
<1>4. CASE ApiRestart
  <2>1. \A u \in Tasks : task'[u].at \notin FileAts
    BY <1>4 DEF ApiRestart, Pump, Idle, Task, FileAts
  <2>2. ~Does("unrow", j)' /\ ~Does("deleteAll", j)' /\ SnapsFit(j)'
    BY <2>1 DEF Does, At, FileAts, SnapsFit, SnapAts
  <2>3. /\ ~Does("unrow", j) /\ file' = file /\ proc'[j] = 0
        /\ status'[j] = status[j] \/ status'[j] = "QUEUED"
    BY <1>4 DEF ApiRestart, Slip, TypeInv, TypeOK
  <2> QED BY <1>1, <2>1, <2>2, <2>3 DEF FileOf, FileAts
<1> QED BY <1>1, <1>2, <1>3, <1>4, RequestFiles, StepFiles, ExitFiles DEF Next

LEMMA InitFile == Init => FileInv
<1> SUFFICES ASSUME Init, NEW j \in Jobs PROVE FileOf(j)
  BY DEF FileInv
<1>1. \A t \in Tasks : task[t].at \notin FileAts
  BY DEF Init, Pump, Idle, Task, FileAts
<1>2. ~Does("unrow", j) /\ ~Does("deleteAll", j) /\ SnapsFit(j)
  BY <1>1 DEF Does, At, FileAts, SnapsFit, SnapAts
<1>3. proc[j] = 0 /\ j \notin file /\ status[j] # "COMPLETED"
  BY DEF Init
<1> QED BY <1>1, <1>2, <1>3 DEF FileOf, FileAts

\* A completed row has its file and no file outlives its row, however pumps,
\* removals, clearFinished and the exits of aria2c cross.
THEOREM FilesMatchRowsHolds == Spec => []FilesMatchRows
<1>1. FileInv => FilesMatchRows
  BY DEF FileInv, FileOf, FilesMatchRows
<1> QED BY <1>1, InitTypes, StepTypes, InitProc, StepProc, InitRow, StepRow, InitFile, StepFile, PTL DEF Spec
-----------------------------------------------------------------------------
(* Wake-ups: some call is about to ask for a pump, or a pump under way has *)
(* read the limit as it is and has read enough of the queue.               *)
Waiting == {j \in Jobs : status[j] = "QUEUED" /\ active[j] = "no"}

Wakes(t) ==
  \/ task[t].at \in {"cfg", "final", "auto", "insert"}
  \/ task[t].at = "query" /\ task[t].lim >= limit
  \/ /\ task[t].at = "loop" /\ task[t].lim >= limit
     /\ Waiting \subseteq task[t].jobs \/ Cardinality(task[t].jobs) >= task[t].lim

WakeInv ==
  Waiting # {} /\ Cardinality(ActiveJobs) < limit /\ "pump" \notin slipped => \E t \in Tasks : Wakes(t)

LEMMA LimitType == TypeInv => limit \in Nat
<1>1. \A n \in Limits : n \in Nat
  BY DownloadAssumption
<1> QED BY <1>1 DEF TypeInv, TypeOK

\* A step of t that asks for no pump, and takes no wake-up away.
LEMMA WakeFrame ==
  ASSUME TypeInv, WakeInv, NEW t \in Tasks, ~Wakes(t),
         \A u \in Tasks : u # t => task'[u] = task[u],
         limit' = limit, slipped \subseteq slipped', Waiting' \subseteq Waiting, ActiveJobs' = ActiveJobs
  PROVE  WakeInv'
<1> SUFFICES ASSUME Waiting' # {}, Cardinality(ActiveJobs') < limit', "pump" \notin slipped'
             PROVE  \E u \in Tasks : Wakes(u)'
  BY DEF WakeInv
<1>1. PICK u \in Tasks : Wakes(u)
  BY DEF WakeInv
<1>2. task'[u] = task[u]
  BY <1>1
<1> QED BY <1>1, <1>2 DEF Wakes

\* The loop of a pump: it fills every slot, or starts whatever waits.
LEMMA WakeLoop ==
  ASSUME TypeInv, WakeInv, NEW t \in Tasks, PumpLoop(t)
  PROVE  WakeInv'
<1> SUFFICES ASSUME Waiting' # {}, Cardinality(ActiveJobs') < limit', "pump" \notin slipped'
             PROVE  \E u \in Tasks : Wakes(u)'
  BY DEF WakeInv
<1>1. PICK J \in SUBSET Jobs, E \in SUBSET Jobs : Started(t, J, E)
  BY StartsFree
<1>2. status' = status /\ limit' = limit /\ slipped \subseteq slipped' /\ Go(t, Idle)
  BY <1>1 DEF PumpLoop, rowVars, Started, Slip
<1>3. ActiveJobs' = ActiveJobs \cup J /\ Waiting' = Waiting \ J
  BY <1>1, <1>2 DEF Started, ActiveJobs, Waiting
<1>4. IsFiniteSet(ActiveJobs') /\ Cardinality(ActiveJobs') \in Nat
  <2>1. ActiveJobs' \subseteq Jobs
    BY <1>1, <1>3 DEF ActiveJobs
  <2> QED BY <2>1, DownloadAssumption, FS_Subset, FS_CardinalityType
<1>5. Cardinality(ActiveJobs) <= Cardinality(ActiveJobs')
  BY <1>3, <1>4, FS_Subset
<1>6. PICK u \in Tasks : Wakes(u)
  <2>1. Waiting # {} /\ Cardinality(ActiveJobs) < limit
    BY <1>2, <1>3, <1>4, <1>5, ActiveFinite, LimitType
  <2> QED BY <1>2, <2>1 DEF WakeInv
<1>7. CASE u # t
  <2>1. task'[u] = task[u]
    BY <1>2, <1>7, Readings DEF Go
  <2> QED BY <1>2, <1>3, <1>6, <2>1 DEF Wakes
<1>8. CASE u = t
  <2> DEFINE free == task[t].jobs \ ActiveJobs
             n == IF task[t].lim > Cardinality(ActiveJobs) THEN task[t].lim - Cardinality(ActiveJobs) ELSE 0
  <2>1. /\ task[t].lim >= limit /\ task[t].lim \in Nat
        /\ Waiting \subseteq task[t].jobs \/ Cardinality(task[t].jobs) >= task[t].lim
    BY <1>6, <1>8, LimitsRead DEF Wakes, PumpLoop, At
  <2>2. J \subseteq free /\ Cardinality(J) = Least(n, Cardinality(free))
    BY <1>1 DEF Started, Starts
  <2>3. task[t].jobs \subseteq Jobs /\ IsFiniteSet(task[t].jobs)
    <3>1. task[t].jobs \subseteq Jobs
      BY Readings DEF TaskRec
    <3> QED BY <3>1, DownloadAssumption, FS_Subset
  <2>4. IsFiniteSet(free) /\ Cardinality(free) \in Nat /\ IsFiniteSet(J) /\ Cardinality(J) \in Nat
    <3>1. free \subseteq task[t].jobs
      OBVIOUS
    <3>2. IsFiniteSet(free)
      BY <2>3, <3>1, FS_Subset
    <3>3. IsFiniteSet(J)
      BY <2>2, <3>2, FS_Subset
    <3> QED BY <3>2, <3>3, FS_CardinalityType
  <2>5. Cardinality(ActiveJobs') = Cardinality(ActiveJobs) + Cardinality(J)
    <3>1. ActiveJobs \cap J = {}
      BY <2>2
    <3>2. Cardinality(ActiveJobs \cup J) =
            Cardinality(ActiveJobs) + Cardinality(J) - Cardinality(ActiveJobs \cap J)
      BY <2>4, ActiveFinite, FS_Union
    <3>3. Cardinality(ActiveJobs \cap J) = 0
      BY <3>1, FS_EmptySet
    <3> QED BY <1>3, <2>4, <3>2, <3>3, ActiveFinite
  <2>6. Cardinality(ActiveJobs') < task[t].lim
    BY <1>2, <1>4, <2>1, LimitType
  <2>7. Cardinality(J) = Cardinality(free)
    <3> HIDE DEF free
    <3>1. Cardinality(J) # n
      <4> HIDE DEF free
      <4> QED BY <2>1, <2>4, <2>5, <2>6, ActiveFinite
    <3>2. Cardinality(J) = n \/ Cardinality(J) = Cardinality(free)
      BY <2>2 DEF Least
    <3> QED BY <3>1, <3>2
  <2>8. J = free
    BY <2>2, <2>4, <2>7, FS_Subset
  <2>9. task[t].jobs \subseteq ActiveJobs'
    BY <1>3, <2>8
  <2>10. Cardinality(task[t].jobs) < task[t].lim
    <3>1. Cardinality(task[t].jobs) <= Cardinality(ActiveJobs')
      BY <1>4, <2>9, FS_Subset
    <3>2. Cardinality(task[t].jobs) \in Nat
      BY <2>3, FS_CardinalityType
    <3> QED BY <1>4, <2>1, <2>6, <3>1, <3>2
  <2>11. Waiting \subseteq task[t].jobs
    <3>1. Cardinality(task[t].jobs) \in Nat
      BY <2>3, FS_CardinalityType
    <3> QED BY <2>1, <2>10, <3>1
  <2>12. Waiting \subseteq J
    BY <2>8, <2>11 DEF Waiting, ActiveJobs
  <2> QED BY <1>3, <2>12
<1> QED BY <1>7, <1>8

LEMMA WakeQuery ==
  ASSUME TypeInv, WakeInv, NEW t \in Tasks, PumpQuery(t)
  PROVE  WakeInv'
<1> SUFFICES ASSUME Waiting' # {}, Cardinality(ActiveJobs') < limit', "pump" \notin slipped'
             PROVE  \E u \in Tasks : Wakes(u)'
  BY DEF WakeInv
<1> DEFINE queued == {j \in Jobs : status[j] = "QUEUED"}
<1>1. /\ task[t].at = "query" /\ UNCHANGED <<status, active, limit, slipped>>
  BY DEF PumpQuery, At, rowVars, procVars
<1>2. PICK J \in SUBSET queued :
        /\ Cardinality(J) = Least(task[t].lim, Cardinality(queued))
        /\ Go(t, Task("loop", J, "new", task[t].lim))
  BY DEF PumpQuery
<1>3. /\ task'[t].at = "loop" /\ task'[t].jobs = J /\ task'[t].lim = task[t].lim
      /\ \A u \in Tasks : u # t => task'[u] = task[u]
  BY <1>2, Readings DEF Go, Task
<1>4. Waiting' = Waiting /\ ActiveJobs' = ActiveJobs
  BY <1>1 DEF Waiting, ActiveJobs
<1>5. PICK u \in Tasks : Wakes(u)
  BY <1>1, <1>4 DEF WakeInv
<1>6. CASE u # t
  BY <1>1, <1>3, <1>4, <1>5, <1>6 DEF Wakes
<1>7. CASE u = t
  <2>1. task[t].lim >= limit /\ task[t].lim \in Nat
    BY <1>1, <1>5, <1>7, LimitsRead DEF Wakes
  <2>2. IsFiniteSet(queued) /\ Cardinality(queued) \in Nat
    <3>1. queued \subseteq Jobs
      OBVIOUS
    <3> QED BY <3>1, DownloadAssumption, FS_Subset, FS_CardinalityType
  <2>3. Cardinality(J) = task[t].lim \/ Cardinality(J) = Cardinality(queued)
    BY <1>2 DEF Least
  <2>4. CASE Cardinality(J) = task[t].lim
    BY <1>1, <1>3, <2>1, <2>4 DEF Wakes
  <2>5. CASE Cardinality(J) = Cardinality(queued)
    <3>1. J = queued
      BY <1>2, <2>2, <2>5, FS_Subset
    <3>2. Waiting' \subseteq J
      BY <1>4, <3>1 DEF Waiting
    <3> QED BY <1>1, <1>3, <2>1, <3>2 DEF Wakes
  <2> QED BY <2>3, <2>4, <2>5
<1> QED BY <1>6, <1>7

\* A step after which t is on its way to pump.
LEMMA Wakening ==
  ASSUME NEW t \in Tasks, task'[t].at \in {"cfg", "final", "auto", "insert"}
  PROVE  WakeInv'
<1>1. Wakes(t)'
  BY DEF Wakes
<1> QED BY <1>1 DEF WakeInv

LEMMA RequestWakes ==
  ASSUME TypeInv, WakeInv, [Next]_vars, NEW t \in Calls, Request(t)
  PROVE  WakeInv'
<1>1. t \in Tasks
  BY DEF Tasks
<1>2. CASE Create(t) \/ RetryFailed(t) \/ UpdateConfig(t)
  <2>1. Go(t, Pump) \/ Go(t, Task("insert", {}, "new", 0))
    BY <1>2 DEF Create, RetryFailed, UpdateConfig, Begin
  <2>2. task'[t].at \in {"cfg", "insert"}
    BY <1>1, <2>1, Readings DEF Go, Pump, Task
  <2> QED BY <1>1, <2>2, Wakening
<1>3. CASE ~(Create(t) \/ RetryFailed(t) \/ UpdateConfig(t))
  <2>1. task[t].at = "idle" /\ \E x : Go(t, x)
    BY <1>3 DEF Request, ClearRead, Pause, Cancel, Stop, Resume, RemoveRead, AddToVod, Begin, At
  <2>2. status' = status /\ limit' = limit
    BY <1>3 DEF Request, ClearRead, Pause, Cancel, Stop, Resume, RemoveRead, AddToVod, rowVars
  <2>3. active' = active \/ \E i \in ActiveJobs, s \in {"pause", "cancel"} : active' = [active EXCEPT ![i] = s]
    BY <1>3 DEF Request, ClearRead, Pause, Cancel, Stop, Resume, RemoveRead, AddToVod, procVars
  <2>4. ActiveJobs' = ActiveJobs /\ Waiting' = Waiting
    <3>1. active \in [Jobs -> {"no", "run", "pause", "cancel"}]
      BY DEF TypeInv, TypeOK
    <3> QED BY <2>2, <2>3, <3>1 DEF ActiveJobs, Waiting
  <2>5. \A u \in Tasks : u # t => task'[u] = task[u]
    BY <2>1, Readings DEF Go
  <2>6. ~Wakes(t)
    BY <2>1 DEF Wakes
  <2> QED BY <1>1, <2>2, <2>4, <2>5, <2>6, SlipsKept, WakeFrame
<1> QED BY <1>2, <1>3

LEMMA StepWakes ==
  ASSUME TypeInv, WakeInv, [Next]_vars, NEW t \in Tasks, Step(t)
  PROVE  WakeInv'
<1>1. CASE PumpConfig(t)
  <2>1. UNCHANGED <<status, active, limit, slipped>>
    BY <1>1 DEF PumpConfig, rowVars, procVars
  <2>2. ActiveJobs' = ActiveJobs
    BY <2>1 DEF ActiveJobs
  <2>3. CASE Cardinality(ActiveJobs) >= limit
    <3>1. ~(Cardinality(ActiveJobs') < limit')
      BY <2>1, <2>2, <2>3, ActiveFinite, LimitType
    <3> QED BY <3>1 DEF WakeInv
  <2>4. CASE ~(Cardinality(ActiveJobs) >= limit)
    <3>1. task'[t] = Task("query", {}, "new", limit)
      BY <1>1, <2>4, Readings DEF PumpConfig, Go
    <3>2. task'[t].at = "query" /\ task'[t].lim >= limit'
      BY <2>1, <3>1, LimitType DEF Task
    <3>3. Wakes(t)'
      BY <3>2 DEF Wakes
    <3> QED BY <3>3 DEF WakeInv
  <2> QED BY <2>3, <2>4
<1>2. CASE PumpFails(t)
  BY <1>2 DEF PumpFails, Slip, WakeInv
<1>3. CASE \/ WriteFinal(t) \/ CheckAutoVod(t) \/ Insert(t) \/ InsertNoMore(t)
           \/ (Requeue(t) /\ Exists(Job(t)))
  <2>1. task'[t].at \in {"cfg", "auto", "insert"}
    <3>1. CASE WriteFinal(t)
      <4>1. \E j, s : Go(t, AfterExit(j, s))
        BY <3>1 DEF WriteFinal
      <4> QED BY <4>1, Readings DEF Go, AfterExit, Pump, Task
    <3>2. CASE CheckAutoVod(t)
      <4>1. task[t].at = "auto"
        BY <3>2 DEF CheckAutoVod, At
      <4>2. PICK i : \/ /\ task' = [task EXCEPT ![t] = Pump, ![i] = Task("vod", {i}, "new", 0)]
                        /\ task[i].at = "idle"
                     \/ Go(t, Pump)
        BY <3>2 DEF CheckAutoVod, At
      <4> QED BY <4>1, <4>2, Readings DEF Go, Pump, Task
    <3>3. CASE Insert(t) \/ InsertNoMore(t)
      <4>1. Go(t, Pump) \/ (task' = task /\ task[t].at = "insert")
        BY <3>3 DEF Insert, InsertNoMore, At
      <4> QED BY <4>1, Readings DEF Go, Pump, Task
    <3>4. CASE Requeue(t) /\ Exists(Job(t))
      <4>1. Go(t, Pump)
        BY <3>4 DEF Requeue
      <4> QED BY <4>1, Readings DEF Go, Pump, Task
    <3> QED BY <1>3, <3>1, <3>2, <3>3, <3>4
  <2> QED BY <2>1, Wakening
<1>4. CASE \/ WriteStatus(t) \/ ClearFiles(t) \/ ClearRows(t) \/ RemoveFiles(t) \/ RemoveRow(t)
           \/ VodCreate(t) \/ VodLink(t) \/ (Requeue(t) /\ ~Exists(Job(t)))
  <2>1. task[t].at \in {"write", "unlinkAll", "deleteAll", "unlink", "unrow", "vod", "link", "requeue"}
    BY <1>4 DEF WriteStatus, ClearFiles, ClearRows, RemoveFiles, RemoveRow, VodCreate, VodLink, Requeue, At
  <2>2. ~Wakes(t)
    BY <2>1 DEF Wakes
  <2>3. \A u \in Tasks : u # t => task'[u] = task[u]
    BY <1>4, Readings DEF WriteStatus, ClearFiles, ClearRows, RemoveFiles, RemoveRow, VodCreate,
       VodLink, Requeue, Go
  <2>4. limit' = limit
    BY <1>4 DEF WriteStatus, ClearFiles, ClearRows, RemoveFiles, RemoveRow, VodCreate, VodLink, Requeue
  <2>5. status \in [Jobs -> Statuses] /\ active \in [Jobs -> {"no", "run", "pause", "cancel"}]
    BY DEF TypeInv, TypeOK
  <2>6. active' = active \/ \E i \in ActiveJobs : active' = [active EXCEPT ![i] = "cancel"]
    BY <1>4 DEF WriteStatus, ClearFiles, ClearRows, RemoveFiles, RemoveRow, VodCreate, VodLink,
       Requeue, procVars
  <2>7. ActiveJobs' = ActiveJobs /\ \A j \in Jobs : active'[j] = "no" => active[j] = "no"
    BY <2>5, <2>6 DEF ActiveJobs
  <2>8. \A j \in Jobs : status'[j] = "QUEUED" => status[j] = "QUEUED"
    <3>1. CASE WriteStatus(t)
      <4>1. task[t].to \in {"PAUSED", "CANCELED"} /\ Write(Job(t), task[t].to)
        BY <3>1, Readings DEF WriteStatus, At, Shape
      <4> QED BY <2>5, <4>1 DEF Write
    <3>2. CASE Requeue(t) /\ ~Exists(Job(t))
      BY <2>5, <3>2 DEF Requeue, Write
    <3>3. CASE ClearRows(t) \/ RemoveRow(t)
      BY <2>5, <3>3 DEF ClearRows, RemoveRow
    <3>4. CASE ClearFiles(t) \/ RemoveFiles(t) \/ VodCreate(t) \/ VodLink(t)
      BY <3>4 DEF ClearFiles, RemoveFiles, VodCreate, VodLink, rowVars
    <3> QED BY <1>4, <3>1, <3>2, <3>3, <3>4
  <2>9. Waiting' \subseteq Waiting
    BY <2>7, <2>8 DEF Waiting
  <2> QED BY <2>2, <2>3, <2>4, <2>7, <2>9, SlipsKept, WakeFrame
<1> QED BY <1>1, <1>2, <1>3, <1>4, WakeLoop, WakeQuery DEF Step

LEMMA StepWake == TypeInv /\ WakeInv /\ [Next]_vars => WakeInv'
<1> SUFFICES ASSUME TypeInv, WakeInv, [Next]_vars PROVE WakeInv'
  OBVIOUS
<1>1. CASE UNCHANGED vars
  BY <1>1 DEF vars, rowVars, procVars, WakeInv, Wakes, Waiting, ActiveJobs
<1>2. ASSUME NEW j \in Jobs, MarkDownloading(j) PROVE WakeInv'
  <2>1. UNCHANGED <<active, limit, task, slipped>> /\ Write(j, "DOWNLOADING")
    BY <1>2 DEF MarkDownloading
  <2>2. ActiveJobs' = ActiveJobs
    BY <2>1 DEF ActiveJobs
  <2>3. Waiting' \subseteq Waiting
    BY <2>1 DEF Waiting, Write, TypeInv, TypeOK
  <2>4. \A u \in Tasks : Wakes(u) => Wakes(u)'
    BY <2>1, <2>3 DEF Wakes
  <2> QED BY <2>1, <2>2, <2>3, <2>4 DEF WakeInv
<1>3. ASSUME NEW j \in Jobs, ProcExit(j) PROVE WakeInv'
  <2>1. PICK t \in Calls, s \in Outcome(active[j]) : Go(t, Task("final", {j}, s, 0))
    BY <1>3 DEF ProcExit
  <2>2. t \in Tasks /\ task'[t].at = "final"
    BY <2>1, Readings DEF Tasks, Go, Task
  <2> QED BY <2>2, Wakening
<1>4. CASE ApiRestart
  <2>1. PICK t \in Calls : task' = [d \in Tasks |-> IF d = t THEN Pump ELSE Idle]
    BY <1>4 DEF ApiRestart
  <2>2. t \in Tasks /\ task'[t].at = "cfg"
    BY <2>1 DEF Tasks, Pump, Task
  <2> QED BY <2>2, Wakening
<1> QED BY <1>1, <1>2, <1>3, <1>4, RequestWakes, StepWakes DEF Next

LEMMA InitWake == Init => WakeInv
<1> SUFFICES ASSUME Init PROVE WakeInv
  OBVIOUS
<1>1. PICK c \in Calls : task = [t \in Tasks |-> IF t = c THEN Pump ELSE Idle]
  BY DEF Init
<1>2. c \in Tasks /\ task[c].at = "cfg"
  BY <1>1 DEF Tasks, Pump, Task
<1>3. Wakes(c)
  BY <1>2 DEF Wakes
<1> QED BY <1>2, <1>3 DEF WakeInv

\* A pump that has read the limit and enough of the queue has something to start.
LEMMA WakesStart ==
  ASSUME TypeInv, NEW t \in Tasks, Wakes(t), task[t].at = "loop",
         Waiting # {}, Cardinality(ActiveJobs) < limit
  PROVE  Starts(t) # {{}}
<1> DEFINE free == task[t].jobs \ ActiveJobs
           n == IF task[t].lim > Cardinality(ActiveJobs) THEN task[t].lim - Cardinality(ActiveJobs) ELSE 0
<1>1. /\ task[t].lim >= limit /\ task[t].lim \in Nat /\ limit \in Nat
      /\ Waiting \subseteq task[t].jobs \/ Cardinality(task[t].jobs) >= task[t].lim
  BY LimitsRead, LimitType DEF Wakes
<1>2. n > 0 /\ n \in Nat
  BY <1>1, ActiveFinite
<1>3. task[t].jobs \subseteq Jobs
  BY Readings DEF TaskRec
<1>4. free # {}
  <2> SUFFICES ASSUME task[t].jobs \subseteq ActiveJobs PROVE FALSE
    OBVIOUS
  <2>1. Cardinality(task[t].jobs) \in Nat /\ Cardinality(task[t].jobs) <= Cardinality(ActiveJobs)
    BY ActiveFinite, FS_Subset, FS_CardinalityType
  <2>2. Waiting \subseteq ActiveJobs
    BY <1>1, <2>1, ActiveFinite
  <2> QED BY <2>2 DEF Waiting, ActiveJobs
<1>5. IsFiniteSet(free)
  <2>1. free \subseteq Jobs
    BY <1>3
  <2> QED BY <2>1, DownloadAssumption, FS_Subset
<1>6. Cardinality(free) \in Nat /\ Cardinality(free) # 0
  BY <1>4, <1>5, FS_CardinalityType, FS_EmptySet
<1>7. Least(n, Cardinality(free)) # 0
  <2> HIDE DEF n, free
  <2> QED BY <1>2, <1>6 DEF Least
<1>8. {} \notin Starts(t)
  <2>1. Cardinality({}) = 0
    BY FS_EmptySet
  <2> QED BY <1>7, <2>1 DEF Starts
<1> QED BY <1>8

\* While a job waits and a slot is free somebody is about to pump, unless the
\* query of a pump failed: no exit, request or change of the limit is missed.
THEOREM NoLostWakeUpHolds == Spec => []NoLostWakeUp
<1>1. TypeInv /\ WakeInv => NoLostWakeUp
  <2> SUFFICES ASSUME TypeInv, WakeInv, \E j \in Jobs : status[j] = "QUEUED" /\ active[j] = "no",
                      Cardinality(ActiveJobs) < limit, "pump" \notin slipped
               PROVE  \/ \E t \in Tasks : task[t].at \in {"cfg", "query", "final", "auto", "insert"}
                      \/ \E t \in Tasks : task[t].at = "loop" /\ Starts(t) # {{}}
    BY DEF NoLostWakeUp
  <2>1. Waiting # {}
    BY DEF Waiting
  <2>2. PICK t \in Tasks : Wakes(t)
    BY <2>1 DEF WakeInv
  <2>3. CASE task[t].at = "loop"
    BY <2>1, <2>2, <2>3, WakesStart
  <2>4. CASE task[t].at # "loop"
    BY <2>2, <2>4 DEF Wakes
  <2> QED BY <2>3, <2>4
<1> QED BY <1>1, InitTypes, StepTypes, InitWake, StepWake, PTL DEF Spec
=============================================================================
