------------------------- MODULE StreamSupervision -------------------------
(***************************************************************************)
(* Who drives the FFmpeg supervisor of StreamWorker: operators through     *)
(* apps/api/src/stream/stream.controller.ts, viewers whose live request    *)
(* auto-starts a sleeping stream (apps/api/src/xtream/                     *)
(* xtream.controller.ts), and the maintenance tools that rewrite           *)
(* workerStatus behind the supervisor's back                               *)
(* (apps/api/src/tools/tools.service.ts, POST streams/reset-crashed).      *)
(***************************************************************************)
EXTENDS StreamWorker

CONSTANTS
  Viewers,   \* the calls that are viewers' requests; the others are operators'
  Tools      \* the maintenance tools in use: "resetCrashed", "restartAll"

ASSUME ViewersAssumption == Viewers \subseteq Calls
ASSUME ToolsAssumption == Tools \subseteq {"resetCrashed", "restartAll"}

VARIABLES
  manifest,         \* index.m3u8 (or master.m3u8) is in the output directory
  viewer,           \* where each viewer's request is
  toRestart         \* history: the running process whose row a restart-all rewrote

supervisionVars == <<manifest, viewer, toRestart>>
allVars == <<vars, supervisionVars>>

Operators == Calls \ Viewers

SupInit ==
  /\ Init
  /\ manifest = FALSE
  /\ viewer = [v \in Viewers |-> "away"]
  /\ toRestart = {}

\* What every step of the supervisor does to the state kept here.
Follow ==
  /\ manifest' = (manifest /\ hlsDir')
  /\ toRestart' = toRestart \cap alive'

\* When requests do not overlap, nothing comes between a viewer's look at the
\* row and the start it leads to.
Turn == Overlap \/ \A v \in Viewers : viewer[v] # "wake"
-----------------------------------------------------------------------------
(* POST :id/start, :id/stop and :id/restart.                               *)
OperatorStep(c) ==
  /\ Turn
  /\ Begin(c) \/ CallStep(c)
  /\ Follow
  /\ UNCHANGED viewer

SupervisorStep ==
  /\ Turn
  /\ \/ \E p \in Procs : ProcExit(p) \/ ExitStep(p)
     \/ ApiRestart
  /\ Follow
  /\ UNCHANGED viewer

\* ffmpeg writes its playlist.
WriteManifest ==
  /\ alive # {} /\ hlsDir /\ ~manifest
  /\ manifest' = TRUE
  /\ UNCHANGED <<vars, viewer, toRestart>>
-----------------------------------------------------------------------------
(* A live request for a TRANSCODE stream.  Without a playlist it reads the *)
(* row and, when the stream is off, runs startWorker itself; a bound: once *)
(* per viewer.                                                             *)
Request(v) ==
  /\ row.streamMode # "PROXY"
  /\ viewer[v] \in {"away", "refused"}
  /\ viewer' = [viewer EXCEPT ![v] = IF manifest THEN "served" ELSE "asked"]
  /\ UNCHANGED <<vars, manifest, toRestart>>

\* Mutant: the auto-start does not look at workerStatus.
ReadStatusIgnored(v) ==
  /\ viewer[v] = "asked" /\ Turn /\ Allowed
  /\ viewer' = [viewer EXCEPT ![v] = IF op[v] = "none" THEN "wake" ELSE "late"]
  /\ UNCHANGED <<vars, manifest, toRestart>>

ReadStatus(v) ==
  /\ viewer[v] = "asked" /\ Turn /\ Allowed
  /\ viewer' = [viewer EXCEPT ![v] =
       IF row.workerStatus \in {"IDLE", "STOPPED"} /\ op[v] = "none" THEN "wake" ELSE "late"]
  /\ UNCHANGED <<vars, manifest, toRestart>>

AutoStart(v) ==
  /\ viewer[v] = "wake"
  /\ op' = [op EXCEPT ![v] = "start"]
  /\ Goto(v, "read")
  /\ viewer' = [viewer EXCEPT ![v] = "waking"]
  /\ UNCHANGED <<row, worker, alive, stopping, activeUrl, hlsDir, loc, origin,
                 apiRestarts, manifest, toRestart>>

WakeStep(v) ==
  /\ viewer[v] = "waking"
  /\ CallStep(v)
  /\ Follow
  /\ UNCHANGED viewer

\* startWorker returned; the request polls for the playlist, five seconds at most.
Poll(v) ==
  /\ viewer[v] = "waking" /\ pc[v] = "idle"
  /\ viewer' = [viewer EXCEPT ![v] = "late"]
  /\ UNCHANGED <<vars, manifest, toRestart>>

\* The playlist, 503 "Stream is starting, please retry", or the source itself.
Answer(v) ==
  /\ viewer[v] = "late"
  /\ viewer' = [viewer EXCEPT ![v] = IF manifest THEN "served"
                                     ELSE IF row.workerStatus = "RUNNING" THEN "refused"
                                     ELSE "proxied"]
  /\ UNCHANGED <<vars, manifest, toRestart>>

ViewerStep(v) ==
  Request(v) \/ ReadStatus(v) \/ AutoStart(v) \/ WakeStep(v) \/ Poll(v) \/ Answer(v)
-----------------------------------------------------------------------------
\* Mutant: the health check's enum written into workerStatus.
ResetCrashedOffline ==
  /\ "resetCrashed" \in Tools /\ Turn
  /\ row.workerStatus = "CRASHED"
  /\ SetRow("OFFLINE", row.restartCount, NoProc)
  /\ UNCHANGED <<worker, alive, stopping, activeUrl, hlsDir, pc, op, loc, origin,
                 apiRestarts, supervisionVars>>

(* POST streams/reset-crashed.                                             *)
ResetCrashed ==
  /\ "resetCrashed" \in Tools /\ Turn
  /\ row.workerStatus = "CRASHED"
  /\ SetRow("IDLE", row.restartCount, NoProc)
  /\ UNCHANGED <<worker, alive, stopping, activeUrl, hlsDir, pc, op, loc, origin,
                 apiRestarts, supervisionVars>>

(* POST tools/restart-all-streams: it rewrites the rows and returns their  *)
(* number; the processes are left alone.                                   *)
RestartAllStreams ==
  /\ "restartAll" \in Tools /\ Turn
  /\ row.workerStatus = "RUNNING"
  /\ row' = [row EXCEPT !.workerStatus = "IDLE"]
  /\ toRestart' = {worker} \cap alive
  /\ UNCHANGED <<worker, alive, stopping, activeUrl, hlsDir, pc, op, loc, origin,
                 apiRestarts, manifest, viewer>>

SupNext ==
  \/ \E c \in Operators : OperatorStep(c)
  \/ SupervisorStep
  \/ WriteManifest
  \/ \E v \in Viewers : ViewerStep(v)
  \/ ResetCrashed \/ RestartAllStreams

SupSpec == SupInit /\ [][SupNext]_allVars

(* Queries are answered, timers fire, a running ffmpeg writes its playlist *)
(* and a refused player retries.                                           *)
SupFairness ==
  /\ \A c \in Operators : WF_allVars(CallStep(c) /\ OperatorStep(c))
  /\ \A p \in Procs : WF_allVars(ExitStep(p) /\ SupervisorStep)
  /\ \A v \in Viewers : WF_allVars(ViewerStep(v))
  /\ WF_allVars(WriteManifest)

SupFairSpec == SupSpec /\ SupFairness
-----------------------------------------------------------------------------
(* Type invariant of the variables added here.                             *)
SupTypeOK ==
  /\ TypeOK
  /\ manifest \in BOOLEAN
  /\ viewer \in [Viewers -> {"away", "asked", "wake", "waking", "late", "refused", "served", "proxied"}]
  /\ toRestart \in SUBSET Procs

(* A viewer is told "Stream is starting, please retry" by the row alone.   *)
(* While the API lives that is never a dead end: a process runs, or the    *)
(* pending exit handlers make the row say otherwise, and a retry gets on.  *)
RefusedMeansStarting ==
  \A v \in Viewers :
    viewer[v] = "refused" ~>
      worker # NoProc \/ row.workerStatus # "RUNNING" \/ apiRestarts > 0

(* The same, whatever happens to the API: a retrying player gets the       *)
(* sleeping stream woken.                                                  *)
WakesOnDemand ==
  \A v \in Viewers :
    viewer[v] = "refused" ~> worker # NoProc \/ row.workerStatus # "RUNNING"

(* A viewer's auto-start is for streams that are off: when requests do not *)
(* overlap it never stops a running ffmpeg to start another one, unless a  *)
(* restart-all has made the row lie.                                       *)
AutoStartNeverReplaces ==
  [][\A v \in Viewers :
       pc[v] = "check" /\ pc'[v] = "replaceWrite" => worker \notin alive \ toRestart]_allVars

(* When requests do not overlap, the row tells the truth whenever nothing  *)
(* is in flight: RUNNING exactly when a process runs, and the pid is its   *)
(* pid.  The two that break it are restart-all and the death of the API.   *)
RowMatchesWorker ==
  AtRest /\ toRestart = {} /\ apiRestarts = 0 =>
    /\ row.workerStatus = "RUNNING" <=> worker # NoProc
    /\ row.workerStatus = "RUNNING" => alive = {row.ffmpegPid}
=============================================================================
