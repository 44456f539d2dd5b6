---------------------------- MODULE Connections ----------------------------
(***************************************************************************)
(* The connection rows of one line (user): how a stream is opened, kept    *)
(* alive, superseded, expired and kicked, and how the line itself expires, *)
(* is extended, suspended and banned.  apps/api/src/user/                  *)
(* user.repository.ts, user.service.ts, the live, VOD and HLS routes of    *)
(* apps/api/src/xtream/xtream.controller.ts, and the calls of              *)
(* reseller/reseller.service.ts and activation/activation.service.ts that  *)
(* write a line's status or expiry.                                        *)
(*                                                                         *)
(* Limits, zapping and bans look at one user's rows only, so the module    *)
(* follows one USER-role line with maxConnections = MaxConnections.  A     *)
(* request is one opening of a stream by a device (an IP with a user       *)
(* agent) and, once served, the playback it started.  Every awaited query  *)
(* is a step.  The clock is abstract: an open row is fresh while its       *)
(* updatedAt lies within STALE_CONNECTION_MS.                              *)
(***************************************************************************)
EXTENDS Naturals, FiniteSets

CONSTANTS
  Requests,        \* request slots, reused when a playback ends
  Devices,
  Streams,
  Vods,            \* the streams that are films or episodes: one long response
  Proxied,         \* the live streams in PROXY mode; the rest are TRANSCODE
  Raw,             \* those of Proxied whose source is no playlist: one long response
  Rows,            \* row slots, reused when a closed row is forgotten
  NoRow,           \* connectionId = null
  MaxConnections,  \* the line's maxConnections
  MaxOpening,      \* how many requests of the line are opening at a time, at most
  Agent,           \* the user agent of each device
  NoAgent,         \* lockedDeviceId = null
  LockDevice,      \* the line's lockDevice
  Kicks,           \* whether operators kick, ban and suspend
  Expiry           \* whether the line's subscription runs out and is extended

ASSUME ConnectionsAssumption ==
  /\ NoRow \notin Rows
  /\ Streams # {} /\ Devices # {}
  /\ Vods \subseteq Streams /\ Proxied \subseteq Streams \ Vods /\ Raw \subseteq Proxied
  /\ MaxConnections \in Nat /\ MaxOpening \in Nat \ {0}
  /\ \A d \in Devices : Agent[d] # NoAgent
  /\ LockDevice \in BOOLEAN
  /\ Kicks \in BOOLEAN /\ Expiry \in BOOLEAN

VARIABLES
  rstate,  \* each row: "open" (endedAt null), "closed", or "none" (no such row)
  stream,  \* streamId of each row
  device,  \* ip and userAgent each row was created with
  fresh,   \* rows whose updatedAt is recent
  uncounted, \* rows that went stale and came back: no opening has counted them (history)
  status,  \* the line's status; BANNED is also DISABLED and deleted, which is never lifted
  banning, \* a ban has closed the rows and not yet written the status
  overdue, \* expiresAt lies in the past
  checking, \* the daily check and this line: "no", "listed" or "expired"
  lapsed,  \* an extension could not count, see Extend and ExtendKeeping (history)
  lock,    \* lockedDeviceId: the user agent the line is locked to
  entered, \* the user agents the device lock has let in (history)
  pc,      \* where each request is
  dev,     \* its device
  str,     \* its stream
  row,     \* the row it holds
  seen     \* the lock it read with the line

vars == <<rstate, stream, device, fresh, uncounted, status, banning, overdue, checking, lapsed,
          lock, entered, pc, dev, str, row, seen>>
rowVars == <<rstate, stream, device, fresh, uncounted>>
lockVars == <<lock, entered>>
lineVars == <<status, banning, overdue, checking, lapsed, lockVars>>
ownVars == <<dev, str, row, seen>>

Opening == {"super", "user", "count", "lock", "find", "touch", "create", "winner"}
Pcs     == {"idle", "playing"} \cup Opening

Open       == {r \in Rows : rstate[r] = "open"}
OpenOn(s)  == {r \in Open : stream[r] = s}
FreeRow(r) == rstate[r] # "open" /\ \A q \in Requests : row[q] # r

\* activeConnectionWhere: open rows whose last activity is recent.
Active == Open \cap fresh

\* A query by id on a row an operator has deleted throws.
Deleted(q) == row[q] # NoRow /\ rstate[row[q]] = "none"

\* evalSubscription, and the first checks of validateConnection.
Valid == status = "ACTIVE" /\ ~overdue

Agents == {Agent[d] : d \in Devices}

AnyStream == CHOOSE s \in Streams : TRUE
AnyDevice == CHOOSE d \in Devices : TRUE

Goto(q, label) == pc' = [pc EXCEPT ![q] = label]

\* The rows of S end in the given state; what a closed row says is forgotten.
End(S, state) ==
  /\ rstate' = [r \in Rows |-> IF r \in S THEN state ELSE rstate[r]]
  /\ stream' = [r \in Rows |-> IF r \in S THEN AnyStream ELSE stream[r]]
  /\ device' = [r \in Rows |-> IF r \in S THEN AnyDevice ELSE device[r]]
  /\ fresh' = fresh \ S
  /\ uncounted' = uncounted \ S

\* UPDATE ... SET endedAt = now() WHERE endedAt IS NULL.
Close(S) == End(S \cap Open, "closed")

\* A playback refreshes the rows R, whether or not they have gone stale meanwhile.
Refresh(R) ==
  /\ fresh' = fresh \cup R
  /\ uncounted' = uncounted \cup (R \ fresh)
  /\ UNCHANGED <<rstate, stream, device>>

Leave(q) ==
  /\ Goto(q, "idle")
  /\ row' = [row EXCEPT ![q] = NoRow]
  /\ dev' = [dev EXCEPT ![q] = AnyDevice]
  /\ str' = [str EXCEPT ![q] = AnyStream]
  /\ seen' = [seen EXCEPT ![q] = NoAgent]

Init ==
  /\ rstate = [r \in Rows |-> "none"]
  /\ stream = [r \in Rows |-> AnyStream]
  /\ device = [r \in Rows |-> AnyDevice]
  /\ fresh = {} /\ uncounted = {}
  /\ status = "ACTIVE"
  /\ banning = FALSE
  /\ overdue = FALSE
  /\ checking = "no"
  /\ lapsed = FALSE
  /\ lock = NoAgent /\ entered = {}
  /\ pc = [q \in Requests |-> "idle"]
  /\ dev = [q \in Requests |-> AnyDevice]
  /\ str = [q \in Requests |-> AnyStream]
  /\ row = [q \in Requests |-> NoRow]
  /\ seen = [q \in Requests |-> NoAgent]
-----------------------------------------------------------------------------
(* Opening a stream.                                                       *)
Begin(q) ==
  /\ pc[q] = "idle"
  /\ Cardinality({p \in Requests : pc[p] \in Opening}) < MaxOpening
  /\ \E d \in Devices, s \in Streams :
       dev' = [dev EXCEPT ![q] = d] /\ str' = [str EXCEPT ![q] = s]
  /\ Goto(q, "super")
  /\ UNCHANGED <<rowVars, lineVars, row, seen>>

\* Mutant: the device's rows on the stream itself are closed, the others kept.
CloseSupersededInverted(q) ==
  /\ pc[q] = "super"
  /\ Close({r \in Rows : device[r] = dev[q] /\ stream[r] = str[q]})
  /\ Goto(q, "user")
  /\ UNCHANGED <<lineVars, ownVars>>

\* closeSupersededConnections: the device's rows on other streams.
CloseSuperseded(q) ==
  /\ pc[q] = "super"
  /\ Close({r \in Rows : device[r] = dev[q] /\ stream[r] # str[q]})
  /\ Goto(q, "user")
  /\ UNCHANGED <<lineVars, ownVars>>

\* Mutant: the query leaves out lockedDeviceId.
ReadUserWithoutLock(q) ==
  /\ pc[q] = "user"
  /\ IF Valid THEN Goto(q, "count") /\ UNCHANGED ownVars ELSE Leave(q)
  /\ UNCHANGED <<rowVars, lineVars>>

\* validateConnection reads the line first ...
ReadUser(q) ==
  /\ pc[q] = "user"
  /\ IF Valid
       THEN /\ Goto(q, "count")
            /\ seen' = [seen EXCEPT ![q] = IF LockDevice THEN lock ELSE NoAgent]
            /\ UNCHANGED <<dev, str, row>>
       ELSE Leave(q)
  /\ UNCHANGED <<rowVars, lineVars>>

\* Mutant: `<=` for `<`.
HasRoomOrFull(q) == Cardinality(Active \ OpenOn(str[q])) <= MaxConnections

\* The line's active rows, those on the stream being opened excepted.
HasRoom(q) == Cardinality(Active \ OpenOn(str[q])) < MaxConnections

\* ... then counts, and last compares the lock it read with the player's own.
CountActive(q) ==
  /\ pc[q] = "count"
  /\ IF HasRoom(q) /\ seen[q] \in {NoAgent, Agent[dev[q]]}
       THEN /\ Goto(q, IF LockDevice /\ seen[q] = NoAgent THEN "lock" ELSE "find")
            /\ seen' = [seen EXCEPT ![q] = NoAgent]
            /\ UNCHANGED <<dev, str, row>>
       ELSE Leave(q)
  /\ UNCHANGED <<rowVars, lineVars>>

\* The first device, as far as the request knows: the line is locked to it.
WriteLock(q) ==
  /\ pc[q] = "lock"
  /\ lock' = Agent[dev[q]]
  /\ entered' = entered \cup {lock'}
  /\ Goto(q, "find")
  /\ UNCHANGED <<rowVars, status, banning, overdue, checking, lapsed, ownVars>>

\* Mutant: the line's open row on any stream will do.
FindOpenAnyStream(q) ==
  /\ pc[q] \in {"find", "winner"}
  /\ \/ \E r \in Open : row' = [row EXCEPT ![q] = r] /\ Goto(q, "touch")
     \/ /\ Open = {}
        /\ Goto(q, IF pc[q] = "find" THEN "create" ELSE "playing")
        /\ UNCHANGED row
  /\ UNCHANGED <<rowVars, lineVars, dev, str, seen>>

\* findOrCreateConnection: the fast path, and the search after a conflict.
FindOpen(q) ==
  /\ pc[q] \in {"find", "winner"}
  /\ \/ \E r \in OpenOn(str[q]) :
          /\ row' = [row EXCEPT ![q] = r]
          /\ Goto(q, "touch")
     \/ /\ OpenOn(str[q]) = {}
        /\ Goto(q, IF pc[q] = "find" THEN "create" ELSE "playing")
        /\ UNCHANGED row
  /\ UNCHANGED <<rowVars, lineVars, dev, str, seen>>

\* Mutant: touching a row clears its endedAt.
TouchReopens(q) ==
  /\ pc[q] = "touch"
  /\ Goto(q, "playing")
  /\ fresh' = fresh \cup {row[q]}
  /\ rstate' = [rstate EXCEPT ![row[q]] = "open"]
  /\ UNCHANGED <<stream, device, uncounted, lineVars, ownVars>>

\* update where id: a closed row stays closed, a deleted one makes it throw.
Touch(q) ==
  /\ pc[q] = "touch"
  /\ Goto(q, "playing")
  /\ IF Deleted(q)
       THEN row' = [row EXCEPT ![q] = NoRow] /\ UNCHANGED <<fresh, uncounted>>
       ELSE /\ fresh' = fresh \cup ({row[q]} \cap Open)
            /\ uncounted' = uncounted \ {row[q]}
            /\ UNCHANGED row
  /\ UNCHANGED <<rstate, stream, device, lineVars, dev, str, seen>>

\* INSERT, refused by the partial unique index when the line has an open row.
Create(q) ==
  /\ pc[q] = "create"
  /\ \/ /\ OpenOn(str[q]) # {}
        /\ Goto(q, "winner")
        /\ UNCHANGED <<rowVars, row>>
     \/ /\ OpenOn(str[q]) = {}
        /\ \E r \in Rows :
             /\ FreeRow(r)
             /\ rstate' = [rstate EXCEPT ![r] = "open"]
             /\ stream' = [stream EXCEPT ![r] = str[q]]
             /\ device' = [device EXCEPT ![r] = dev[q]]
             /\ fresh' = fresh \cup {r} /\ UNCHANGED uncounted
             /\ row' = [row EXCEPT ![q] = r]
        /\ Goto(q, "playing")
  /\ UNCHANGED <<lineVars, dev, str, seen>>

OpenStep(q) ==
  \/ CloseSuperseded(q) \/ ReadUser(q) \/ CountActive(q) \/ WriteLock(q)
  \/ FindOpen(q) \/ Touch(q) \/ Create(q)
-----------------------------------------------------------------------------
(* Playback.                                                               *)

\* Mutant: a valid segment token is enough.
SegmentTokenOnly(q) ==
  /\ pc[q] = "playing" /\ str[q] \notin Vods \cup Proxied
  /\ row[q] \in Open

\* serveHlsSegment: the token's row is open and the line still valid.
SegmentAllowed(q) ==
  /\ pc[q] = "playing" /\ str[q] \notin Vods \cup Proxied
  /\ row[q] \in Open /\ Valid

Segment(q) ==
  /\ SegmentAllowed(q)
  /\ Refresh({row[q]})
  /\ UNCHANGED <<lineVars, pc, ownVars>>

\* liveProxySub: the heartbeat touches the open row of line and stream.
SubRequestAllowed(q) ==
  /\ pc[q] = "playing" /\ str[q] \in Proxied \ Raw
  /\ OpenOn(str[q]) # {} /\ Valid

SubRequest(q) ==
  /\ SubRequestAllowed(q)
  /\ Refresh(OpenOn(str[q]))
  /\ UNCHANGED <<lineVars, pc, ownVars>>

\* One long response refreshes its row whatever the line's status: a film by
\* the row's id, a raw live stream by line and stream, @updatedAt doing the rest.
Refreshes(q) ==
  IF pc[q] # "playing" THEN {}
  ELSE IF str[q] \in Vods THEN Open \cap {row[q]}
  ELSE IF str[q] \in Raw THEN OpenOn(str[q]) ELSE {}

Heartbeat(q) ==
  /\ Refreshes(q) # {}
  /\ Refresh(Refreshes(q))
  /\ UNCHANGED <<lineVars, pc, ownVars>>

(* A player goes away.  A live one just stops asking, or its response ends *)
(* with a last count of bytes; a film's response closes its row by id.     *)
EndPlayback(q) ==
  /\ pc[q] = "playing" /\ ~(str[q] \in Vods /\ Deleted(q))
  /\ IF str[q] \in Proxied
       THEN Refresh(OpenOn(str[q]))
       ELSE Close({r \in Rows : r = row[q] /\ str[q] \in Vods})
  /\ Leave(q)
  /\ UNCHANGED lineVars

(* onEnd does not await closeConnection: on a deleted row the rejection is *)
(* unhandled, and the API process ends with every request it serves.       *)
EndDeleted(q) ==
  /\ pc[q] = "playing" /\ str[q] \in Vods /\ Deleted(q)
  /\ pc' = [p \in Requests |-> "idle"]
  /\ row' = [p \in Requests |-> NoRow]
  /\ dev' = [p \in Requests |-> AnyDevice]
  /\ str' = [p \in Requests |-> AnyStream]
  /\ seen' = [p \in Requests |-> NoAgent]
  /\ banning' = FALSE
  /\ checking' = "no"
  /\ lapsed' = (lapsed /\ status = "EXPIRED")
  /\ UNCHANGED <<rowVars, lockVars, status, overdue>>
-----------------------------------------------------------------------------
(* Time, the minute cron and the operators.                                *)
GoStale(r) ==
  /\ r \in Open \cap fresh
  /\ fresh' = fresh \ {r}
  /\ uncounted' = uncounted \ {r}
  /\ UNCHANGED <<rstate, stream, device, lineVars, pc, ownVars>>

\* Mutant: the cron looks at the lines in good standing only.
CloseStaleOfActive ==
  /\ status = "ACTIVE" /\ Open \ fresh # {}
  /\ Close(Rows \ fresh)
  /\ UNCHANGED <<lineVars, pc, ownVars>>

CloseStaleConnections ==
  /\ Open \ fresh # {}
  /\ Close(Rows \ fresh)
  /\ UNCHANGED <<lineVars, pc, ownVars>>

KickAll ==
  /\ Kicks /\ Open # {}
  /\ Close(Rows)
  /\ UNCHANGED <<lineVars, pc, ownVars>>

\* A reseller's kick closes the row, the panel's live-connections page deletes it.
KickConnection(r) ==
  /\ Kicks /\ r \in Open
  /\ Close({r}) \/ End({r}, "none")
  /\ UNCHANGED <<lineVars, pc, ownVars>>

BanCloses ==
  /\ Kicks /\ status # "BANNED" /\ ~banning
  /\ Close(Rows)
  /\ banning' = TRUE
  /\ UNCHANGED <<status, overdue, checking, lapsed, lockVars, pc, ownVars>>

\* Mutant: a status the line cannot have.
BanWritesBlocked ==
  /\ banning
  /\ status' = "BLOCKED"
  /\ banning' = FALSE
  /\ lapsed' = (lapsed /\ checking = "listed")
  /\ UNCHANGED <<rowVars, overdue, checking, lockVars, pc, ownVars>>

\* ban and softDelete.
BanWrites ==
  /\ banning
  /\ status' = "BANNED"
  /\ banning' = FALSE
  /\ lapsed' = (lapsed /\ checking = "listed")
  /\ UNCHANGED <<rowVars, overdue, checking, lockVars, pc, ownVars>>

\* The bulk suspensions and deletions, and the disabling of an activation code:
\* the status alone is written, no row is closed.
Suspend ==
  /\ Kicks /\ status # "BANNED"
  /\ status' = "BANNED"
  /\ lapsed' = (lapsed /\ checking = "listed")
  /\ UNCHANGED <<rowVars, banning, overdue, checking, lockVars, pc, ownVars>>

\* unban, the bulk activations, the enabling of an activation code: whatever the
\* status was, and whether or not the subscription has run out.
Activate ==
  /\ status # "ACTIVE"
  /\ status' = "ACTIVE"
  /\ lapsed' = (lapsed /\ checking = "listed")
  /\ UNCHANGED <<rowVars, banning, overdue, checking, lockVars, pc, ownVars>>
-----------------------------------------------------------------------------
(* The subscription.                                                       *)
RunOut ==
  /\ Expiry /\ ~overdue
  /\ overdue' = TRUE
  /\ lapsed' = FALSE
  /\ UNCHANGED <<rowVars, status, banning, checking, lockVars, pc, ownVars>>

\* extend, bulkRenew and package-assign: a new expiresAt and status ACTIVE.
Extend ==
  /\ Expiry
  /\ overdue' = FALSE
  /\ status' = "ACTIVE"
  /\ lapsed' = (checking = "listed")
  /\ UNCHANGED <<rowVars, banning, checking, lockVars, pc, ownVars>>

\* bulkExtend, bulkAction's extend and both extensions by a reseller write
\* expiresAt and leave the status as it is.
ExtendKeeping ==
  /\ Expiry
  /\ overdue' = FALSE
  /\ lapsed' = (lapsed \/ checking = "listed" \/ status = "EXPIRED")
  /\ UNCHANGED <<rowVars, status, banning, checking, lockVars, pc, ownVars>>

\* Mutant: dailyExpiryCheck lists the lines that are ACTIVE.
CheckReadsActive ==
  /\ Expiry /\ checking = "no" /\ status = "ACTIVE"
  /\ checking' = "listed"
  /\ UNCHANGED <<rowVars, status, banning, overdue, lapsed, lockVars, pc, ownVars>>

\* dailyExpiryCheck lists the lines that are ACTIVE and overdue ...
CheckReads ==
  /\ Expiry /\ checking = "no" /\ status = "ACTIVE" /\ overdue
  /\ checking' = "listed"
  /\ UNCHANGED <<rowVars, status, banning, overdue, lapsed, lockVars, pc, ownVars>>

\* ... and then takes them one by one: this one's turn, whatever it is by now,
CheckWrites ==
  /\ checking = "listed"
  /\ status' = "EXPIRED"
  /\ checking' = "expired"
  /\ UNCHANGED <<rowVars, banning, overdue, lapsed, lockVars, pc, ownVars>>

\* or the write of an earlier one threw and ended the loop;
CheckAborts ==
  /\ checking = "listed"
  /\ checking' = "no"
  /\ lapsed' = FALSE
  /\ UNCHANGED <<rowVars, status, banning, overdue, lockVars, pc, ownVars>>

\* its rows are closed last, and an error there is ignored.
CheckCloses ==
  /\ checking = "expired"
  /\ Close(Rows) \/ UNCHANGED rowVars
  /\ checking' = "no"
  /\ UNCHANGED <<status, banning, overdue, lapsed, lockVars, pc, ownVars>>

LineStep ==
  \/ BanCloses \/ BanWrites \/ Suspend \/ Activate \/ RunOut \/ Extend \/ ExtendKeeping
  \/ CheckReads \/ CheckWrites \/ CheckAborts \/ CheckCloses

Next ==
  \/ \E q \in Requests :
       \/ Begin(q) \/ OpenStep(q) \/ EndPlayback(q) \/ EndDeleted(q)
       \/ Segment(q) \/ SubRequest(q) \/ Heartbeat(q)
  \/ \E r \in Rows : GoStale(r) \/ KickConnection(r)
  \/ CloseStaleConnections \/ KickAll \/ LineStep

Spec == Init /\ [][Next]_vars

\* Something still refreshes the row.
Refreshed(r) ==
  \E q \in Requests :
    \/ SegmentAllowed(q) /\ row[q] = r
    \/ SubRequestAllowed(q) /\ r \in OpenOn(str[q])
    \/ r \in Refreshes(q)

(* Queries are answered, the cron keeps running, a ban is carried through, *)
(* and a row nothing refreshes gets old.                                   *)
Fairness ==
  /\ \A q \in Requests : WF_vars(OpenStep(q))
  /\ \A r \in Rows : WF_vars(GoStale(r) /\ ~Refreshed(r))
  /\ WF_vars(CloseStaleConnections)
  /\ WF_vars(BanWrites)

FairSpec == Spec /\ Fairness
-----------------------------------------------------------------------------
(* Type invariant.                                                         *)
TypeOK ==
  /\ rstate \in [Rows -> {"open", "closed", "none"}]
  /\ stream \in [Rows -> Streams]
  /\ device \in [Rows -> Devices]
  /\ fresh \in SUBSET Rows /\ uncounted \in SUBSET Rows
  /\ status \in {"ACTIVE", "BANNED", "EXPIRED"}
  /\ banning \in BOOLEAN /\ overdue \in BOOLEAN /\ lapsed \in BOOLEAN
  /\ checking \in {"no", "listed", "expired"}
  /\ pc \in [Requests -> Pcs]
  /\ dev \in [Requests -> Devices]
  /\ str \in [Requests -> Streams]
  /\ row \in [Requests -> Rows \cup {NoRow}]
  /\ lock \in Agents \cup {NoAgent} /\ entered \in SUBSET Agents
  /\ seen \in [Requests -> Agents \cup {NoAgent}]

(* Players send several requests for one stream at the same moment: the    *)
(* row a request goes on with is one of the stream it opened, as long as   *)
(* it is open,                                                             *)
PlaysItsStream ==
  \A q \in Requests : row[q] \in Open => stream[row[q]] = str[q]

(* and the line never gets two open rows on a stream.                      *)
OneOpenRowPerStream ==
  \A r, s \in Open : stream[r] = stream[s] => r = s

(* maxConnections: the line never plays more streams at once.              *)
LimitRespected == Cardinality(Active) <= MaxConnections

(* What the code keeps of it, for every interleaving: openings that overlap *)
(* all pass the same count, and each but one of them can take the line one  *)
(* stream beyond its limit.  Rows that went stale, were not counted and     *)
(* came back before the cron closed them are the only others.               *)
OvershootBounded == Cardinality(Active \ uncounted) < MaxConnections + MaxOpening

(* Zapping: a device keeps one row for each opening it may have under way   *)
(* at a time, however often it zaps; a device that opens one stream after   *)
(* the other has one.                                                       *)
ZapsLeaveNoRows ==
  \A d \in Devices : Cardinality({r \in Open : device[r] = d}) <= MaxOpening

(* The device lock binds after the openings that overlapped the first one:  *)
(* it never lets in more players than those, whoever overwrote whose lock.  *)
LockBinds == LockDevice => Cardinality(entered) <= MaxOpening

(* A kicked or expired session is over: no later heartbeat, touch or       *)
(* reopening brings a closed row back while somebody still holds it.       *)
ClosedStaysClosed ==
  [][\A q \in Requests : row[q] \in Rows /\ row'[q] = row[q] /\ row[q] \notin Open
                           => row[q] \notin Open']_vars

(* A line that is banned, suspended or has run out loses its sessions for  *)
(* good, whether or not somebody closed its rows, also those opened while  *)
(* a ban was between its two writes; only a long response already under    *)
(* way keeps its row until it ends.                                        *)
RefusedLineDrains ==
  <>[](~Valid /\ \A q \in Requests : pc[q] = "idle" \/ str[q] \notin Vods \cup Raw)
    => <>[](Open = {})

(* A line that has time left is not EXPIRED: the daily check takes nobody  *)
(* off the air who has paid, except one who is extended between the check's *)
(* list and its write, or extended by one of the calls that leave the      *)
(* status EXPIRED (bulkExtend, bulkAction, a reseller's extendUser).       *)
ExpiredIsOver == status = "EXPIRED" /\ ~overdue => lapsed

(* A ghost, an open row nothing refreshes any more, is closed, or somebody *)
(* takes it over.                                                          *)
GhostIsClosed(r) ==
  r \in Open /\ ~Refreshed(r) ~>
    r \notin Open \/ Refreshed(r) \/ \E q \in Requests : pc[q] = "touch" /\ row[q] = r

(* The slots are interchangeable, so what holds of one holds of all.       *)
GhostsAreClosed == GhostIsClosed(CHOOSE r \in Rows : TRUE)

(* Kicking a film's connection ends that session: the end of its response  *)
(* takes no other request of the line down with it.                        *)
KickEndsOneSession ==
  [][\A p, q \in Requests :
       p # q /\ pc[q] = "playing" /\ pc'[q] = "idle" => pc'[p] = pc[p]]_vars
=============================================================================
