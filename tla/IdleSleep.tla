----------------------------- MODULE IdleSleep -----------------------------
(***************************************************************************)
(* Putting an unwatched encoder to sleep and waking it on demand:          *)
(* reapIdleWorkers and sleepWorker of                                      *)
(* apps/api/src/stream/stream-worker.service.ts, for one stream, with      *)
(* idle-sleep switched on.  Time advances in minutes.                      *)
(*                                                                         *)
(* The per-minute cron runs whichever method its decorator is attached to. *)
(* Scheduled names that method: in the code it is runningStreamIds, the    *)
(* method that follows the decorator; the comment above the decorator      *)
(* describes reapIdleWorkers, which nothing else calls.                    *)
(***************************************************************************)
EXTENDS Naturals

CONSTANTS
  Scheduled,   \* the method the EVERY_MINUTE decorator is attached to
  IdleMins,    \* settings.idleSleepMins
  MaxViewers   \* bound: connections open on the stream at once

VARIABLES
  running,  \* the stream has a worker
  viewers,  \* active connection rows of the stream
  idle,     \* minutes since the worker's lastViewerAt, up to IdleMins
  reap,     \* the running reapIdleWorkers: "off", "count" or "act"
  nowIdle,  \* `now - lastViewerAt` with the `now` of the running reap
  seen      \* the viewers it counted

vars == <<running, viewers, idle, reap, nowIdle, seen>>

Init ==
  /\ running = FALSE
  /\ viewers = 0
  /\ idle = 0
  /\ reap = "off"
  /\ nowIdle = 0
  /\ seen = 0

\* A viewer opens the stream and wakes its worker if it sleeps.
ViewerJoins ==
  /\ viewers < MaxViewers
  /\ viewers' = viewers + 1
  /\ running' = TRUE
  /\ idle' = IF running THEN idle ELSE 0
  /\ UNCHANGED <<reap, nowIdle, seen>>

ViewerLeaves ==
  /\ viewers > 0
  /\ viewers' = viewers - 1
  /\ UNCHANGED <<running, idle, reap, nowIdle, seen>>

\* A minute passes and the cron job runs the scheduled method.
Minute ==
  /\ reap = "off"
  /\ idle' = IF idle < IdleMins THEN idle + 1 ELSE idle
  /\ IF Scheduled = "reapIdleWorkers" /\ running
       THEN reap' = "count" /\ nowIdle' = idle'
       ELSE UNCHANGED <<reap, nowIdle>>
  /\ UNCHANGED <<running, viewers, seen>>

CountViewers ==
  /\ reap = "count"
  /\ reap' = "act"
  /\ seen' = viewers
  /\ UNCHANGED <<running, viewers, idle, nowIdle>>

\* lastViewerAt moves when a viewer was counted, else the idle worker sleeps.
Act ==
  /\ reap = "act"
  /\ reap' = "off"
  /\ nowIdle' = 0
  /\ seen' = 0
  /\ idle' = IF seen > 0 THEN 0 ELSE idle
  /\ running' = (running /\ ~(seen = 0 /\ nowIdle >= IdleMins))
  /\ UNCHANGED viewers

Next == ViewerJoins \/ ViewerLeaves \/ Minute \/ CountViewers \/ Act

Spec == Init /\ [][Next]_vars /\ WF_vars(Minute) /\ WF_vars(CountViewers) /\ WF_vars(Act)
-----------------------------------------------------------------------------
(* Idle-sleep: the encoder of a stream nobody watches any more is stopped. *)
IdleStreamSleeps == <>[](viewers = 0) => <>[]~running
=============================================================================
