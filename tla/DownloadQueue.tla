--------------------------- MODULE DownloadQueue ---------------------------
(***************************************************************************)
(* The download manager: rows of download_jobs, the aria2c processes, and  *)
(* the pump that fills the free slots.                                     *)
(* apps/api/src/download/download.service.ts.                              *)
(*                                                                         *)
(* Between two awaits the code runs without interruption, so a step is the *)
(* code between two awaits together with the database query one of them    *)
(* waits for.  Priorities are not modelled: pump may take the queued rows  *)
(* in any order, which allows everything orderBy does.  A file is there or *)
(* not, and aria2c opens it as it starts.                                  *)
(***************************************************************************)
EXTENDS Naturals, FiniteSets

CONSTANTS
  Jobs,
  Calls,      \* requests and exit handlers at work at a time, reused
  Limits,     \* values of downloadConcurrency
  AutoVod,    \* jobs with autoVod
  Filed,      \* jobs with a categoryId
  MaxEvents   \* bound on the requests and faults of one behaviour; a fault is a
              \* failed spawn, a failed query of a pump, or a death of the API

ASSUME DownloadAssumption ==
  /\ Jobs # {} /\ IsFiniteSet(Jobs) /\ IsFiniteSet(Calls) /\ Jobs \cap Calls = {}
  /\ {"limit", "pump"} \cap Jobs = {}
  /\ AutoVod \subseteq Jobs /\ Filed \subseteq Jobs
  /\ Limits # {} /\ Limits \subseteq 1..10
  /\ MaxEvents \in Nat

VARIABLES
  status,   \* status of each row; "new" before it is created, "gone" after
  linked,   \* rows with a createdStreamId
  file,     \* jobs with a file on disk, the download's or aria2c's control file
  active,   \* the map `active`: the intent of its entry, or "no"
  proc,     \* aria2c processes running for each job
  marking,  \* DOWNLOADING writes under way: startJob does not await them
  limit,    \* downloadConcurrency
  task,     \* what each call has to do next, and what it has read
  vods,     \* streams created from each job (history)
  slipped,  \* jobs whose row or file changed under a call that relied on it,
            \* "limit" if it was lowered under a pump, "pump" if one failed (history)
  events

rowVars  == <<status, linked>>
procVars == <<active, proc, marking>>
vars == <<rowVars, file, procVars, limit, task, vods, slipped, events>>

Resumable == {"PAUSED", "FAILED", "CANCELED"}
Finished  == {"FAILED", "CANCELED"}
NoRow     == {"new", "gone"}
Statuses  == {"QUEUED", "DOWNLOADING", "COMPLETED"} \cup Resumable \cup NoRow

\* A call: where it stands, its job or the rows it has read, the status it
\* will write, the concurrency it has read.
Task(at, J, to, n) == [at |-> at, jobs |-> J, to |-> to, lim |-> n]
Idle == Task("idle", {}, "new", 0)
Pump == Task("cfg", {}, "new", 0)

\* Each job has a slot of its own for the makeVod its exit handler leaves behind.
Tasks == Calls \cup Jobs
At(t, p) == task[t].at = p
Job(t)   == CHOOSE j \in task[t].jobs : TRUE
Does(p, j) == \E t \in Tasks : At(t, p) /\ j \in task[t].jobs

Go(t, next) == task' = [task EXCEPT ![t] = next]
Counted(n) == events + n <= MaxEvents /\ events' = events + n
Begin(t, next) == At(t, "idle") /\ Counted(1) /\ Go(t, next)

ActiveJobs == {j \in Jobs : active[j] # "no"}
Exists(j)  == status[j] \notin NoRow
Slip(J)    == slipped' = slipped \cup J
Least(m, n) == IF m < n THEN m ELSE n

\* Writing s into j's row spoils a DOWNLOADING still under way, or what a
\* clearFinished has read.
Spoils(j, s) ==
  \/ j \in marking
  \/ \E t \in Tasks : task[t].at \in {"unlinkAll", "deleteAll"} /\ (j \in task[t].jobs) # (s \in Finished)

Write(j, s) == status' = [status EXCEPT ![j] = IF Exists(j) THEN s ELSE @]

\* The API has just started, with rows left from before or none.
Init ==
  /\ status \in [Jobs -> {"new", "QUEUED"}] /\ linked = {} /\ file = {}
  /\ active = [j \in Jobs |-> "no"] /\ proc = [j \in Jobs |-> 0] /\ marking = {}
  /\ limit \in Limits
  /\ \E c \in Calls : task = [t \in Tasks |-> IF t = c THEN Pump ELSE Idle]
  /\ vods = [j \in Jobs |-> 0] /\ slipped = {}
  /\ events = 0
-----------------------------------------------------------------------------
(* The pump.                                                               *)

PumpConfig(t) ==
  /\ At(t, "cfg")
  /\ Go(t, IF Cardinality(ActiveJobs) >= limit THEN Idle ELSE Task("query", {}, "new", limit))
  /\ UNCHANGED <<rowVars, file, procVars, limit, vods, slipped, events>>

\* findMany QUEUED, take: concurrency.
PumpQuery(t) ==
  LET queued == {j \in Jobs : status[j] = "QUEUED"} IN
  /\ At(t, "query")
  /\ \E J \in SUBSET queued :
       /\ Cardinality(J) = Least(task[t].lim, Cardinality(queued))
       /\ Go(t, Task("loop", J, "new", task[t].lim))
  /\ UNCHANGED <<rowVars, file, procVars, limit, vods, slipped, events>>

\* The query fails, catch(() => []).
PumpFails(t) ==
  /\ At(t, "query")
  /\ Counted(1)
  /\ Go(t, Idle)
  /\ Slip({"pump"})
  /\ UNCHANGED <<rowVars, file, procVars, limit, vods>>

\* Mutant: the free slots are counted once, before the query.
StartsUncounted(t) == {task[t].jobs \ ActiveJobs}

\* Mutant: active.has is not asked.
StartsTwice(t) ==
  LET n == IF task[t].lim > Cardinality(ActiveJobs) THEN task[t].lim - Cardinality(ActiveJobs) ELSE 0
  IN  {J \in SUBSET task[t].jobs : Cardinality(J) = Least(n, Cardinality(task[t].jobs))}

\* The sets of jobs the loop may start: it stops at the limit, skips active jobs.
Starts(t) ==
  LET free == task[t].jobs \ ActiveJobs
      n    == IF task[t].lim > Cardinality(ActiveJobs) THEN task[t].lim - Cardinality(ActiveJobs) ELSE 0
  IN  {J \in SUBSET free : Cardinality(J) = Least(n, Cardinality(free))}

\* The row is no longer what the pump has read, or somebody is about to write it.
Stale(j) == status[j] # "QUEUED" \/ Does("final", j) \/ Does("unrow", j)

\* startJob for each: a failed spawn is only logged, its entry stays.
PumpLoop(t) ==
  /\ At(t, "loop")
  /\ \E J \in Starts(t) : \E E \in SUBSET J :
       /\ Counted(Cardinality(E))
       /\ active' = [j \in Jobs |-> IF j \in J THEN "run" ELSE active[j]]
       /\ proc' = [j \in Jobs |-> IF j \in J \ E THEN proc[j] + 1 ELSE proc[j]]
       /\ marking' = marking \cup J
       /\ file' = file \cup (J \ E)
       /\ Slip(E \cup {j \in J : Stale(j)})
  /\ Go(t, Idle)
  /\ UNCHANGED <<rowVars, limit, vods>>

\* setStatus(DOWNLOADING) lands.
MarkDownloading(j) ==
  /\ j \in marking
  /\ marking' = marking \ {j}
  /\ Write(j, "DOWNLOADING")
  /\ UNCHANGED <<linked, file, active, proc, limit, task, vods, slipped, events>>
-----------------------------------------------------------------------------
(* The exit of aria2c.                                                     *)

\* Mutant: a status the row cannot have.
OutcomeError(intent) ==
  IF intent = "pause" THEN {"PAUSED"} ELSE {"CANCELED", "COMPLETED", "ERROR"}

\* The status an exit leads to, by the intent of the entry and the exit code.
Outcome(intent) ==
  CASE intent = "pause"  -> {"PAUSED"}
    [] intent = "cancel" -> {"CANCELED"}
    [] OTHER             -> {"COMPLETED", "FAILED"}

\* What is left on disk: aria2c saves its control file unless it is done, and
\* the handler removes everything of a cancelled job.
\* Mutant: the handler leaves that to the call that cancelled.
LeftByCaller(j, s) == IF s = "COMPLETED" THEN file ELSE file \cup {j}

Left(j, s) ==
  IF active[j] = "cancel" THEN file \ {j} ELSE IF s = "COMPLETED" THEN file ELSE file \cup {j}

ProcExit(j) ==
  /\ proc[j] > 0
  /\ \E t \in Calls, s \in Outcome(active[j]) :
       /\ At(t, "idle")
       /\ Go(t, Task("final", {j}, s, 0))
       /\ file' = Left(j, s)
  /\ proc' = [proc EXCEPT ![j] = @ - 1]
  /\ active' = [active EXCEPT ![j] = "no"]
  /\ UNCHANGED <<rowVars, marking, limit, vods, slipped, events>>

\* Mutant: only a completed download asks for the next one.
AfterExitIdle(j, s) == IF s = "COMPLETED" THEN Task("auto", {j}, "new", 0) ELSE Idle

AfterExit(j, s) == IF s = "COMPLETED" THEN Task("auto", {j}, "new", 0) ELSE Pump

WriteFinal(t) ==
  LET j == Job(t) s == task[t].to IN
  /\ At(t, "final")
  /\ Write(j, s)
  /\ Go(t, AfterExit(j, s))
  /\ Slip(IF Spoils(j, s) THEN {j} ELSE {})
  /\ UNCHANGED <<linked, file, procVars, limit, vods, events>>

\* Another makeVod of the job has not written createdStreamId yet.
VodUnderWay(j) == Does("vod", j) \/ Does("link", j)

\* Mutant: whether a stream was made before is not asked.
WantsVodAgain(j) == Exists(j) /\ j \in AutoVod \cap Filed

WantsVod(j) == Exists(j) /\ j \in (AutoVod \cap Filed) \ linked

\* makeVod is not awaited: it goes on in the job's own slot, the handler pumps.
CheckAutoVod(t) ==
  LET j == Job(t) IN
  /\ At(t, "auto")
  /\ \/ /\ WantsVod(j) /\ At(j, "idle")
        /\ task' = [task EXCEPT ![t] = Pump, ![j] = Task("vod", {j}, "new", 0)]
        /\ Slip(IF VodUnderWay(j) THEN {j} ELSE {})
     \/ ~WantsVod(j) /\ Go(t, Pump) /\ UNCHANGED slipped
  /\ UNCHANGED <<rowVars, file, procVars, limit, vods, events>>

\* makeVod: probe and stream.create, or it throws ...
VodCreate(t) ==
  LET j == Job(t) IN
  /\ At(t, "vod")
  /\ \/ vods' = [vods EXCEPT ![j] = @ + 1] /\ Go(t, Task("link", {j}, "new", 0))
     \/ Go(t, Idle) /\ UNCHANGED vods
  /\ UNCHANGED <<rowVars, file, procVars, limit, slipped, events>>

\* ... then createdStreamId, on a row that may be gone.
VodLink(t) ==
  /\ At(t, "link")
  /\ linked' = linked \cup {j \in task[t].jobs : Exists(j)}
  /\ Go(t, Idle)
  /\ UNCHANGED <<status, file, procVars, limit, vods, slipped, events>>
-----------------------------------------------------------------------------
(* Requests of the panel.                                                  *)

\* createJob and batchCreate: one row after another, one pump at the end.
Create(t) ==
  /\ Begin(t, Task("insert", {}, "new", 0))
  /\ UNCHANGED <<rowVars, file, procVars, limit, vods, slipped>>

Insert(t) ==
  /\ At(t, "insert")
  /\ \E j \in Jobs : status[j] = "new" /\ status' = [status EXCEPT ![j] = "QUEUED"]
  /\ Go(t, Pump) \/ UNCHANGED task
  /\ UNCHANGED <<linked, file, procVars, limit, vods, slipped, events>>

\* The rest of a batch is refused row by row.
InsertNoMore(t) ==
  /\ At(t, "insert")
  /\ Go(t, Pump)
  /\ UNCHANGED <<rowVars, file, procVars, limit, vods, slipped, events>>

\* pause and cancel: an active job is told and killed, any other row written.  A
\* pause overrides a cancel or remove whose process has not ended yet.
Stop(t, j, intent, s) ==
  /\ status[j] # "new"
  /\ \/ /\ j \in ActiveJobs
        /\ active' = [active EXCEPT ![j] = intent]
        /\ Slip(IF active[j] = "cancel" /\ intent = "pause" THEN {j} ELSE {})
        /\ Begin(t, Idle)
     \/ /\ j \notin ActiveJobs
        /\ Begin(t, Task("write", {j}, s, 0))
        /\ UNCHANGED <<active, slipped>>
  /\ UNCHANGED <<rowVars, file, proc, marking, limit, vods>>

Pause(t, j)  == Stop(t, j, "pause", "PAUSED")
Cancel(t, j) == Stop(t, j, "cancel", "CANCELED")

WriteStatus(t) ==
  LET j == Job(t) IN
  /\ At(t, "write")
  /\ Write(j, task[t].to)
  /\ Slip(IF Spoils(j, task[t].to) \/ j \in ActiveJobs THEN {j} ELSE {})
  /\ Go(t, Idle)
  /\ UNCHANGED <<linked, file, procVars, limit, vods, events>>

\* Mutant: a download that is running may be resumed as well.
ResumableAny(j) == Exists(j) /\ status[j] # "COMPLETED"

Resumes(j) == status[j] \in Resumable

\* resume reads the row, and returns at once unless it is stopped ...
Resume(t, j) ==
  /\ Resumes(j)
  /\ Begin(t, Task("requeue", {j}, status[j], 0))
  /\ UNCHANGED <<rowVars, file, procVars, limit, vods, slipped>>

\* ... then writes QUEUED whatever the row says by now; a row that is gone throws.
Requeue(t) ==
  LET j == Job(t) IN
  /\ At(t, "requeue")
  /\ Write(j, "QUEUED")
  /\ Go(t, IF Exists(j) THEN Pump ELSE Idle)
  /\ Slip(IF Spoils(j, "QUEUED") \/ status[j] # task[t].to THEN {j} ELSE {})
  /\ UNCHANGED <<linked, file, procVars, limit, vods, events>>

RetryFailed(t) ==
  LET failed == {j \in Jobs : status[j] = "FAILED"} IN
  /\ Begin(t, Pump)
  /\ status' = [j \in Jobs |-> IF j \in failed THEN "QUEUED" ELSE status[j]]
  /\ Slip({j \in failed : Spoils(j, "QUEUED")})
  /\ UNCHANGED <<linked, file, procVars, limit, vods>>

\* clearFinished: the rows are read, their files removed, then whatever is
\* finished by now is deleted.
ClearRead(t) ==
  /\ Begin(t, Task("unlinkAll", {j \in Jobs : status[j] \in Finished}, "new", 0))
  /\ UNCHANGED <<rowVars, file, procVars, limit, vods, slipped>>

ClearFiles(t) ==
  /\ At(t, "unlinkAll")
  /\ file' = file \ task[t].jobs
  /\ Go(t, [task[t] EXCEPT !.at = "deleteAll"])
  /\ UNCHANGED <<rowVars, procVars, limit, vods, slipped, events>>

ClearRows(t) ==
  /\ At(t, "deleteAll")
  /\ status' = [j \in Jobs |-> IF status[j] \in Finished THEN "gone" ELSE status[j]]
  /\ Go(t, Idle)
  /\ UNCHANGED <<linked, file, procVars, limit, vods, slipped, events>>

\* remove: the row is read, the process killed and the files removed, the row deleted.
RemoveRead(t, j) ==
  /\ Exists(j)
  /\ Begin(t, Task("unlink", {j}, "new", 0))
  /\ UNCHANGED <<rowVars, file, procVars, limit, vods, slipped>>

RemoveFiles(t) ==
  LET j == Job(t) IN
  /\ At(t, "unlink")
  /\ active' = IF j \in ActiveJobs THEN [active EXCEPT ![j] = "cancel"] ELSE active
  /\ file' = file \ {j}
  /\ Go(t, Task("unrow", {j}, "new", 0))
  /\ UNCHANGED <<rowVars, proc, marking, limit, vods, slipped, events>>

RemoveRow(t) ==
  /\ At(t, "unrow")
  /\ status' = [status EXCEPT ![Job(t)] = "gone"]
  /\ Go(t, Idle)
  /\ UNCHANGED <<linked, file, procVars, limit, vods, slipped, events>>

AddToVod(t, j) ==
  /\ status[j] = "COMPLETED" /\ j \in Filed \ linked
  /\ Begin(t, Task("vod", {j}, "new", 0))
  /\ Slip(IF VodUnderWay(j) THEN {j} ELSE {})
  /\ UNCHANGED <<rowVars, file, procVars, limit, vods>>

\* updateConfig.
UpdateConfig(t) ==
  /\ Begin(t, Pump)
  /\ limit' \in Limits \ {limit}
  /\ Slip(IF limit' < limit THEN {"limit"} ELSE {})
  /\ UNCHANGED <<rowVars, file, procVars, vods>>

(* The API dies, and its children with it; onModuleInit puts what was      *)
(* DOWNLOADING back, if the query succeeds, and pumps.                     *)
ApiRestart ==
  /\ Counted(1)
  /\ active' = [j \in Jobs |-> "no"] /\ proc' = [j \in Jobs |-> 0] /\ marking' = {}
  /\ \E t \in Calls : task' = [d \in Tasks |-> IF d = t THEN Pump ELSE Idle]
  /\ LET halted == {j \in Jobs : status[j] = "DOWNLOADING"}
         cut    == {j \in Jobs : Does("unrow", j) \/ Does("link", j)}
     IN \/ /\ status' = [j \in Jobs |-> IF j \in halted THEN "QUEUED" ELSE status[j]]
           /\ Slip(cut)
        \/ Slip(cut \cup halted) /\ UNCHANGED status
  /\ UNCHANGED <<linked, file, limit, vods>>

Request(t) ==
  \/ Create(t) \/ RetryFailed(t) \/ ClearRead(t) \/ UpdateConfig(t)
  \/ \E j \in Jobs : Pause(t, j) \/ Cancel(t, j) \/ Resume(t, j) \/ RemoveRead(t, j) \/ AddToVod(t, j)

Step(t) ==
  \/ PumpConfig(t) \/ PumpQuery(t) \/ PumpFails(t) \/ PumpLoop(t)
  \/ WriteFinal(t) \/ CheckAutoVod(t) \/ VodCreate(t) \/ VodLink(t)
  \/ Insert(t) \/ InsertNoMore(t) \/ WriteStatus(t) \/ Requeue(t)
  \/ ClearFiles(t) \/ ClearRows(t) \/ RemoveFiles(t) \/ RemoveRow(t)

Next ==
  \/ \E t \in Calls : Request(t)
  \/ \E t \in Tasks : Step(t)
  \/ \E j \in Jobs : MarkDownloading(j) \/ ProcExit(j)
  \/ ApiRestart

Spec == Init /\ [][Next]_vars

-----------------------------------------------------------------------------
(* Properties.                                                             *)

\* Every variable has its type.
TypeOK ==
  /\ status \in [Jobs -> Statuses]
  /\ linked \in SUBSET Jobs /\ file \in SUBSET Jobs
  /\ active \in [Jobs -> {"no", "run", "pause", "cancel"}]
  /\ proc \in [Jobs -> Nat]
  /\ marking \in SUBSET Jobs
  /\ limit \in Limits
  /\ task \in [Tasks -> [at : {"idle", "cfg", "query", "loop", "final", "auto", "vod", "link",
                               "insert", "write", "requeue", "unlinkAll", "deleteAll",
                               "unlink", "unrow"},
                         jobs : SUBSET Jobs, to : Statuses, lim : Limits \cup {0}]]
  /\ vods \in [Jobs -> Nat]
  /\ slipped \in SUBSET (Jobs \cup {"limit", "pump"})
  /\ events \in 0..MaxEvents

\* Every change ends in a pump of its own, and pumps overlap with snapshots of
\* the queue: together they never run more downloads than downloadConcurrency,
\* unless it was lowered.
SlotsRespected == "limit" \in slipped \/ Cardinality(ActiveJobs) <= limit

\* Two aria2c never write the same file, whatever the pumps have read.
OneProcessPerJob == \A j \in Jobs : proc[j] <= 1

\* A row says DOWNLOADING when aria2c runs for the job (or its DOWNLOADING is
\* still under way), and only until the exit of aria2c is written down; unless
\* the row changed under a call that had read it, or the spawn failed.
RowsTruthful ==
  \A j \in Jobs \ slipped :
    /\ status[j] = "DOWNLOADING" => proc[j] > 0 \/ Does("final", j)
    /\ proc[j] > 0 => \/ status[j] = "DOWNLOADING" \/ j \in marking
                      \/ status[j] = "gone" /\ active[j] # "run"

\* Rows and files go together: a completed row has its file unless it is just
\* being removed, and no file outlives its row once aria2c is gone.
FilesMatchRows ==
  \A j \in Jobs \ slipped :
    /\ status[j] = "COMPLETED" => j \in file \/ Does("unrow", j)
    /\ status[j] = "gone" /\ j \in file => proc[j] > 0

\* The panel's button and the automatic VOD make one stream of a download,
\* also when it is cancelled, resumed and completed again; unless one makeVod
\* began while another was under way, or the API died in its middle.
OneVodPerJob == \A j \in Jobs \ slipped : vods[j] <= 1

\* No wake-up is lost: while a job waits and a slot is free, somebody is on the way
\* to pump, or a pump is about to fill a slot; unless a pump's query failed.  A slot
\* whose spawn failed is never free again.
NoLostWakeUp ==
  (\E j \in Jobs : status[j] = "QUEUED" /\ active[j] = "no") /\ Cardinality(ActiveJobs) < limit
    => \/ "pump" \in slipped
       \/ \E t \in Tasks : task[t].at \in {"cfg", "query", "final", "auto", "insert"}
       \/ \E t \in Tasks : task[t].at = "loop" /\ Starts(t) # {{}}
=============================================================================
