---------------------------- MODULE StreamWorker ----------------------------
(***************************************************************************)
(* The FFmpeg supervisor of one stream: StreamWorkerService in             *)
(* apps/api/src/stream/stream-worker.service.ts.                           *)
(*                                                                         *)
(* Every map of the service is keyed by the stream's id and no handler     *)
(* touches another stream's entry, so the module follows a single stream.  *)
(* Its state is the stream's database row, the entry of the in-memory map  *)
(* `workers`, the ffmpeg processes of the stream and its output directory. *)
(*                                                                         *)
(* The service is single-threaded: what runs between two awaits is one     *)
(* step, and every awaited query is a step of its own.  A task is one      *)
(* running asynchronous call.  A call c in Calls is an API request that    *)
(* reaches startWorker, stopWorker or restartWorker.  A process p is also  *)
(* a task: the handleExit of p, the restart timer that handleExit arms and *)
(* the startWorker the timer runs.                                         *)
(***************************************************************************)
EXTENDS Naturals, FiniteSets, Sequences

CONSTANTS
  Calls,           \* requests; each runs once
  Procs,           \* process slots, reused once a process and its task ended
  NoProc,          \* no process: absent map entry, null ffmpegPid
  NoCall,          \* the origin of a free slot
  MaxRestarts,     \* MAX_RESTARTS
  PrimaryUrl,      \* the stream's primaryUrl
  Backups,         \* the stream's backupUrls, a sequence
  Modes,           \* the stream modes a run may start from
  SpawnOutcomes,   \* what a spawn may end in (see Launch)
  MaxApiRestarts,  \* bound: how often the API process dies
  Overlap          \* FALSE: the environment waits for running calls to end

AllModes == {"PROXY", "TRANSCODE", "LOOP"}
Statuses == {"IDLE", "RUNNING", "STOPPED", "CRASHED"}
Ops      == {"start", "stop", "restart"}
Urls     == {PrimaryUrl} \cup {Backups[i] : i \in DOMAIN Backups}
Tasks    == Calls \cup Procs

ASSUME SetsAssumption ==
  /\ Calls \cap Procs = {}
  /\ NoProc \notin Procs
  /\ NoCall \notin Calls
ASSUME ParametersAssumption ==
  /\ MaxRestarts \in Nat
  /\ MaxApiRestarts \in Nat
  /\ Modes \subseteq AllModes
  /\ SpawnOutcomes \subseteq {"missing", "spawned", "error"}
  /\ Overlap \in BOOLEAN

VARIABLES
  row,         \* workerStatus, restartCount, ffmpegPid and streamMode of the row
  worker,      \* the process of workers.get(streamId), or NoProc
  alive,       \* the ffmpeg processes that run
  stopping,    \* the running processes whose WorkerState has stopping = true
  activeUrl,   \* the activeUrl of the map entry
  hlsDir,      \* whether the stream's output directory exists
  pc,          \* where each task is; "idle" before it starts and after it ends
  op,          \* the operation of each call, "none" before it runs
  loc,         \* what a task holds across its awaits
  origin,      \* history: the call a running process or its task descends from
  apiRestarts  \* bound: deaths of the API process so far

vars == <<row, worker, alive, stopping, activeUrl, hlsDir, pc, op, loc, origin,
          apiRestarts>>

StartPcs == {"read", "check", "replaceWrite", "spawn", "proxyWrite",
             "runningWrite"}
ExitPcs  == {"exitRead", "crashWrite", "backupRead", "failoverWrite",
             "finalWrite", "timer"}
Pcs      == {"idle", "stopWrite", "resetWrite"} \cup StartPcs \cup ExitPcs

Locals == [mode : AllModes, count : Nat, url : Urls, crash : BOOLEAN,
           pid : Procs \cup {NoProc}]
-----------------------------------------------------------------------------
Busy(t)  == pc[t] # "idle"
AtRest   == \A t \in Tasks : ~Busy(t)

\* No task runs code or waits for a query; timers may be pending.
Quiet    == \A t \in Tasks : pc[t] \in {"idle", "timer"}

\* Whether the environment may act now.
Allowed  == Overlap \/ Quiet

\* A slot whose process is gone and whose exit has been handled to the end.
FreeSlot(p) == p \notin alive /\ p # worker /\ ~Busy(p)

OriginOf(t) == IF t \in Calls THEN t ELSE origin[t]

Goto(t, label) == pc' = [pc EXCEPT ![t] = label]

NoLocals == [mode |-> "PROXY", count |-> 0, url |-> PrimaryUrl, crash |-> FALSE,
             pid |-> NoProc]

\* A task ends: its locals and, if it is an exit's, its slot are given up.
Finish(t) ==
  /\ Goto(t, "idle")
  /\ loc' = [loc EXCEPT ![t] = NoLocals]
  /\ origin' = IF t \in Procs THEN [origin EXCEPT ![t] = NoCall] ELSE origin

SetRow(status, count, pid) ==
  row' = [row EXCEPT !.workerStatus = status, !.restartCount = count, !.ffmpegPid = pid]

Init ==
  /\ \E m \in Modes :
       row = [workerStatus |-> "IDLE", restartCount |-> 0,
              ffmpegPid |-> NoProc, streamMode |-> m]
  /\ worker = NoProc
  /\ alive = {}
  /\ stopping = {}
  /\ activeUrl = PrimaryUrl
  /\ hlsDir = FALSE
  /\ pc = [t \in Tasks |-> "idle"]
  /\ op = [c \in Calls |-> "none"]
  /\ loc = [t \in Tasks |-> NoLocals]
  /\ origin = [p \in Procs |-> NoCall]
  /\ apiRestarts = 0
-----------------------------------------------------------------------------
(* stopWorker, up to its await.  The entry leaves the map in the step that *)
(* sets its stopping flag and sends SIGTERM; the process exits later.      *)
StopNow ==
  /\ IF Overlap
       THEN /\ stopping' = stopping \cup ({worker} \cap alive)
            /\ UNCHANGED <<alive, origin>>
       ELSE /\ alive' = alive \ {worker}
            /\ origin' = [origin EXCEPT ![worker] = NoCall]
            /\ UNCHANGED stopping
  /\ worker' = NoProc
  /\ activeUrl' = PrimaryUrl
  /\ hlsDir' = FALSE

(* spawn and workers.set, which replaces whatever entry the map holds.  A  *)
(* missing binary makes startWorker throw: a request answers 500, while in *)
(* a restart timer the rejection is unhandled and ends the API process,    *)
(* which is ApiRestart.  A spawn error (EACCES, EAGAIN) leaves an entry    *)
(* whose process never runs and never exits.                               *)
Launch(t) ==
  \/ /\ "missing" \in SpawnOutcomes /\ t \in Calls
     /\ Finish(t)
     /\ UNCHANGED <<worker, alive, activeUrl>>
  \/ \E p \in Procs :
       /\ FreeSlot(p)
       /\ worker' = p
       /\ activeUrl' = loc[t].url
       /\ Goto(t, "runningWrite")
       /\ \/ /\ "spawned" \in SpawnOutcomes
             /\ alive' = alive \cup {p}
             /\ loc' = [loc EXCEPT ![t].pid = p]
             /\ origin' = [origin EXCEPT ![p] = OriginOf(t)]
          \/ /\ "error" \in SpawnOutcomes
             /\ UNCHANGED <<alive, loc, origin>>

(* The rest of startWorker once no entry is in its way: the directory is   *)
(* made, and a LOOP stream is spawned in the same step; a TRANSCODE stream *)
(* first awaits the settings.                                              *)
Prepare(t, mode) ==
  /\ hlsDir' = TRUE
  /\ \/ /\ mode = "LOOP"
        /\ Launch(t)
     \/ /\ mode # "LOOP"
        /\ Goto(t, "spawn")
        /\ UNCHANGED <<worker, alive, activeUrl, loc, origin>>
-----------------------------------------------------------------------------
(* An API request begins.  start awaits the stream's row first; stop and   *)
(* restart run stopWorker, which returns at once when the map has no entry.*)
Begin(c) ==
  /\ op[c] = "none" /\ Allowed
  /\ \E o \in Ops :
       /\ op' = [op EXCEPT ![c] = o]
       /\ \/ /\ o = "start"
             /\ Goto(c, "read")
             /\ UNCHANGED <<worker, alive, stopping, activeUrl, hlsDir, origin>>
          \/ /\ o # "start" /\ worker = NoProc
             /\ Goto(c, IF o = "restart" THEN "resetWrite" ELSE "idle")
             /\ UNCHANGED <<worker, alive, stopping, activeUrl, hlsDir, origin>>
          \/ /\ o # "start" /\ worker # NoProc
             /\ StopNow
             /\ Goto(c, "stopWrite")
  /\ UNCHANGED <<row, loc, apiRestarts>>

WriteStopped(c) ==
  /\ pc[c] = "stopWrite"
  /\ SetRow("STOPPED", row.restartCount, NoProc)
  /\ Goto(c, IF op[c] = "restart" THEN "resetWrite" ELSE "idle")
  /\ UNCHANGED <<worker, alive, stopping, activeUrl, hlsDir, op, loc, origin, apiRestarts>>

WriteReset(c) ==
  /\ pc[c] = "resetWrite"
  /\ row' = [row EXCEPT !.restartCount = 0]
  /\ Goto(c, "read")
  /\ UNCHANGED <<worker, alive, stopping, activeUrl, hlsDir, op, loc, origin, apiRestarts>>
-----------------------------------------------------------------------------
(* startWorker, run by a call or by the timer of an exited process.        *)
ReadStream(t) ==
  /\ pc[t] = "read"
  /\ loc' = [loc EXCEPT ![t].mode = row.streamMode]
  /\ Goto(t, "check")
  /\ UNCHANGED <<row, worker, alive, stopping, activeUrl, hlsDir, op, origin, apiRestarts>>

\* Mutant: startWorker returns when the stream already has a worker.
CheckStreamReturnsEarly(t) ==
  /\ pc[t] = "check"
  /\ \/ /\ worker # NoProc
        /\ Finish(t)
        /\ UNCHANGED <<worker, alive, stopping, activeUrl, hlsDir>>
     \/ /\ loc[t].mode # "PROXY" /\ worker = NoProc
        /\ Prepare(t, loc[t].mode)
        /\ UNCHANGED stopping
  /\ UNCHANGED <<row, op, apiRestarts>>

\* Mutant: startWorker does not stop the worker it replaces.
CheckStreamKeepsOld(t) ==
  /\ pc[t] = "check"
  /\ Prepare(t, loc[t].mode)
  /\ UNCHANGED <<row, stopping, op, apiRestarts>>

CheckStream(t) ==
  /\ pc[t] = "check"
  /\ \/ /\ loc[t].mode = "PROXY"
        /\ Goto(t, "proxyWrite")
        /\ UNCHANGED <<worker, alive, stopping, activeUrl, hlsDir, loc, origin>>
     \/ /\ loc[t].mode # "PROXY" /\ worker # NoProc
        /\ StopNow
        /\ Goto(t, "replaceWrite")
        /\ UNCHANGED loc
     \/ /\ loc[t].mode # "PROXY" /\ worker = NoProc
        /\ Prepare(t, loc[t].mode)
        /\ UNCHANGED stopping
  /\ UNCHANGED <<row, op, apiRestarts>>

WriteProxyIdle(t) ==
  /\ pc[t] = "proxyWrite"
  /\ SetRow("IDLE", row.restartCount, NoProc)
  /\ Finish(t)
  /\ UNCHANGED <<worker, alive, stopping, activeUrl, hlsDir, op, apiRestarts>>

\* The map is not looked at again once the replaced entry's row is written.
WriteReplaced(t) ==
  /\ pc[t] = "replaceWrite"
  /\ SetRow("STOPPED", row.restartCount, NoProc)
  /\ Prepare(t, loc[t].mode)
  /\ UNCHANGED <<stopping, op, apiRestarts>>

SpawnTranscode(t) ==
  /\ pc[t] = "spawn"
  /\ Launch(t)
  /\ UNCHANGED <<row, stopping, hlsDir, op, apiRestarts>>

WriteRunning(t) ==
  /\ pc[t] = "runningWrite"
  /\ SetRow("RUNNING", row.restartCount, loc[t].pid)
  /\ Finish(t)
  /\ UNCHANGED <<worker, alive, stopping, activeUrl, hlsDir, op, apiRestarts>>
-----------------------------------------------------------------------------
\* Mutant: handleExit runs on an event that does not mean the process is gone.
ProcExitTooEarly(p) ==
  /\ p \in alive /\ Allowed
  /\ worker # NoProc /\ worker \notin stopping
  /\ worker' = NoProc
  /\ activeUrl' = PrimaryUrl
  /\ loc' = [loc EXCEPT ![p].url = activeUrl, ![p].crash = TRUE]
  /\ Goto(p, "exitRead")
  /\ UNCHANGED <<row, alive, stopping, hlsDir, op, origin, apiRestarts>>

\* Mutant: a clean exit drops the entry and does nothing else.
ProcExitIgnoresClean(p) ==
  /\ p \in alive /\ Allowed
  /\ alive' = alive \ {p}
  /\ worker' = NoProc
  /\ \/ /\ loc' = [loc EXCEPT ![p].url = activeUrl, ![p].crash = TRUE]
        /\ Goto(p, "exitRead")
        /\ UNCHANGED origin
     \/ /\ origin' = [origin EXCEPT ![p] = NoCall]
        /\ UNCHANGED <<loc, pc>>
  /\ UNCHANGED <<row, stopping, activeUrl, hlsDir, op, apiRestarts>>

(* A process ends and handleExit(streamId, code) runs up to its first      *)
(* await.  It looks its entry up by stream id, so the entry it removes may *)
(* belong to another process.                                              *)
ProcExit(p) ==
  /\ p \in alive /\ Allowed
  /\ alive' = alive \ {p}
  /\ stopping' = stopping \ {p}
  /\ \/ /\ worker = NoProc \/ worker \in stopping
        /\ origin' = [origin EXCEPT ![p] = NoCall]
        /\ UNCHANGED <<worker, activeUrl, loc, pc>>
     \/ /\ worker # NoProc /\ worker \notin stopping
        /\ worker' = NoProc
        /\ activeUrl' = PrimaryUrl
        /\ \E crash \in BOOLEAN :
             loc' = [loc EXCEPT ![p].url = activeUrl, ![p].crash = crash]
        /\ Goto(p, "exitRead")
        /\ UNCHANGED origin
  /\ UNCHANGED <<row, hlsDir, op, apiRestarts>>

\* Mutant: one restart more than MAX_RESTARTS.
ReadRestartCountOffByOne(p) ==
  /\ pc[p] = "exitRead"
  /\ loc' = [loc EXCEPT ![p].count = row.restartCount]
  /\ Goto(p, IF ~loc[p].crash THEN "finalWrite"
             ELSE IF row.restartCount <= MaxRestarts THEN "crashWrite"
             ELSE "backupRead")
  /\ UNCHANGED <<row, worker, alive, stopping, activeUrl, hlsDir, op, origin, apiRestarts>>

ReadRestartCount(p) ==
  /\ pc[p] = "exitRead"
  /\ loc' = [loc EXCEPT ![p].count = row.restartCount]
  /\ Goto(p, IF ~loc[p].crash THEN "finalWrite"
             ELSE IF row.restartCount < MaxRestarts THEN "crashWrite"
             ELSE "backupRead")
  /\ UNCHANGED <<row, worker, alive, stopping, activeUrl, hlsDir, op, origin, apiRestarts>>

\* Mutant: the restart is not counted.
WriteCrashedUncounted(p) ==
  /\ pc[p] = "crashWrite"
  /\ SetRow("CRASHED", loc[p].count, row.ffmpegPid)
  /\ Goto(p, "timer")
  /\ UNCHANGED <<worker, alive, stopping, activeUrl, hlsDir, op, loc, origin, apiRestarts>>

(* The restart timer that follows runs startWorker without an override, so *)
(* a stream that had failed over returns to its primary URL.               *)
WriteCrashed(p) ==
  /\ pc[p] = "crashWrite"
  /\ SetRow("CRASHED", loc[p].count + 1, row.ffmpegPid)
  /\ loc' = [loc EXCEPT ![p].url = PrimaryUrl]
  /\ Goto(p, "timer")
  /\ UNCHANGED <<worker, alive, stopping, activeUrl, hlsDir, op, origin, apiRestarts>>

\* The backups that differ from the URL of the entry that was removed.
NextBackups(u) == {i \in DOMAIN Backups : Backups[i] # u}

ReadBackups(p) ==
  /\ pc[p] = "backupRead"
  /\ \/ /\ NextBackups(loc[p].url) = {}
        /\ Goto(p, "finalWrite")
        /\ UNCHANGED loc
     \/ \E i \in NextBackups(loc[p].url) :
          /\ \A j \in NextBackups(loc[p].url) : i <= j
          /\ loc' = [loc EXCEPT ![p].url = Backups[i]]
          /\ Goto(p, "failoverWrite")
  /\ UNCHANGED <<row, worker, alive, stopping, activeUrl, hlsDir, op, origin, apiRestarts>>

WriteFailover(p) ==
  /\ pc[p] = "failoverWrite"
  /\ SetRow("CRASHED", 0, row.ffmpegPid)
  /\ Goto(p, "timer")
  /\ UNCHANGED <<worker, alive, stopping, activeUrl, hlsDir, op, loc, origin, apiRestarts>>

\* Mutant: a value of the wrong enum, StreamStatus.
WriteFinalOffline(p) ==
  /\ pc[p] = "finalWrite"
  /\ SetRow("OFFLINE", row.restartCount, NoProc)
  /\ Finish(p)
  /\ UNCHANGED <<worker, alive, stopping, activeUrl, hlsDir, op, apiRestarts>>

\* Mutant: the last exit leaves the row as it is.
WriteFinalSkipped(p) ==
  /\ pc[p] = "finalWrite"
  /\ Finish(p)
  /\ UNCHANGED <<row, worker, alive, stopping, activeUrl, hlsDir, op, apiRestarts>>

\* A clean exit is CRASHED too once the restart budget is spent.
WriteFinal(p) ==
  /\ pc[p] = "finalWrite"
  /\ SetRow(IF loc[p].count >= MaxRestarts THEN "CRASHED" ELSE "STOPPED",
            row.restartCount, NoProc)
  /\ Finish(p)
  /\ UNCHANGED <<worker, alive, stopping, activeUrl, hlsDir, op, apiRestarts>>

TimerFires(p) ==
  /\ pc[p] = "timer" /\ Allowed
  /\ Goto(p, "read")
  /\ UNCHANGED <<row, worker, alive, stopping, activeUrl, hlsDir, op, loc, origin, apiRestarts>>
-----------------------------------------------------------------------------
(* The API process dies and starts again.  Its children die with the       *)
(* container; running calls, timers and the map are lost; onModuleInit     *)
(* empties the output directory; no hook writes the row, neither on the    *)
(* way down (shutdown hooks are not enabled) nor on the way up.            *)
ApiRestart ==
  /\ apiRestarts < MaxApiRestarts
  /\ apiRestarts' = apiRestarts + 1
  /\ worker' = NoProc
  /\ alive' = {}
  /\ stopping' = {}
  /\ hlsDir' = FALSE
  /\ activeUrl' = PrimaryUrl
  /\ pc' = [t \in Tasks |-> "idle"]
  /\ loc' = [t \in Tasks |-> NoLocals]
  /\ origin' = [p \in Procs |-> NoCall]
  /\ UNCHANGED <<row, op>>

StartStep(t) ==
  \/ ReadStream(t) \/ CheckStream(t) \/ WriteProxyIdle(t) \/ WriteReplaced(t)
  \/ SpawnTranscode(t) \/ WriteRunning(t)

CallStep(c) == WriteStopped(c) \/ WriteReset(c) \/ StartStep(c)

ExitStep(p) ==
  \/ ReadRestartCount(p) \/ WriteCrashed(p) \/ ReadBackups(p) \/ WriteFailover(p)
  \/ WriteFinal(p) \/ TimerFires(p) \/ StartStep(p)

Next ==
  \/ \E c \in Calls : Begin(c) \/ CallStep(c)
  \/ \E p \in Procs : ProcExit(p) \/ ExitStep(p)
  \/ ApiRestart

Spec == Init /\ [][Next]_vars

(* Awaited queries are answered and timers fire; requests, exits and       *)
(* deaths of the API need not happen.                                      *)
Fairness ==
  /\ \A c \in Calls : WF_vars(CallStep(c))
  /\ \A p \in Procs : WF_vars(ExitStep(p))

FairSpec == Spec /\ Fairness
-----------------------------------------------------------------------------
RowType == [workerStatus : Statuses, restartCount : Nat,
            ffmpegPid : Procs \cup {NoProc}, streamMode : AllModes]

(* Type invariant: every variable of the supervisor keeps its shape, and   *)
(* each label of a task belongs to the code that task can run.             *)
TypeOK ==
  /\ row \in RowType
  /\ worker \in Procs \cup {NoProc}
  /\ alive \in SUBSET Procs
  /\ stopping \in SUBSET Procs
  /\ activeUrl \in Urls
  /\ hlsDir \in BOOLEAN
  /\ pc \in [Tasks -> Pcs]
  /\ op \in [Calls -> Ops \cup {"none"}]
  /\ loc \in [Tasks -> Locals]
  /\ origin \in [Procs -> Calls \cup {NoCall}]
  /\ apiRestarts \in 0..MaxApiRestarts

\* A task that runs a process, or is still going to spawn one.
Holds(t) == t \in alive \/ pc[t] \in (Pcs \ {"idle", "runningWrite"})

(* handleExit drops the map entry of whatever process it finds and starts  *)
(* another one; stop and restart leave processes behind that are still     *)
(* exiting.  However these interleave, processes never multiply: a request *)
(* has at most one descendant that runs, or is going to run, an ffmpeg.    *)
OneProcessPerCall ==
  \A s, t \in Tasks : Holds(s) /\ Holds(t) /\ OriginOf(s) = OriginOf(t) => s = t

(* The restart budget: concurrent handlers of several exits read and write *)
(* the count in steps of their own, and never push it past MAX_RESTARTS.   *)
RestartCountBounded == row.restartCount <= MaxRestarts

(* stopWorker sets `stopping` and deletes the entry in one step, so the    *)
(* entry handleExit finds is never a stopping one: its `state.stopping`    *)
(* test cannot tell the exit of a stopped process from that of a new one.  *)
EntryNeverStopping == worker \notin stopping

(* When the environment waits for running calls (Overlap = FALSE), at most *)
(* one ffmpeg writes into the stream's output directory, it is the         *)
(* registered one, and its directory exists.                               *)
SingleWriter == alive \subseteq {worker} /\ (alive # {} => hlsDir)

(* A restart that handleExit scheduled is carried out: the timer's start   *)
(* reaches the spawn of a new process, whatever else runs meanwhile.       *)
ScheduledRestartSpawns ==
  \A p \in Procs : pc[p] = "timer" ~> pc[p] = "runningWrite"

(* Without a backup URL a stream cannot be restarted forever: although     *)
(* concurrent handlers may lose each other's increments of restartCount,   *)
(* the automatic restarts come to an end.                                  *)
RestartsEnd == <>[]AtRest
=============================================================================
