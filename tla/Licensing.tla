----------------------------- MODULE Licensing -----------------------------
(***************************************************************************)
(* One licence between the licence server (apps/license/src/license/       *)
(* license.service.ts, stripe/stripe.service.ts) and the panel it is       *)
(* installed on (apps/api/src/license/license.service.ts): how the panel   *)
(* verifies it, what it remembers of the answers, and when LicenseGuard    *)
(* lets requests through.                                                  *)
(*                                                                         *)
(* Time passes in ticks, Day of them from one midnight to the next.  Calls *)
(* take far less than a tick: time passes only when none is in flight.     *)
(* Within a tick every await of a call is a step of its own.               *)
(***************************************************************************)
EXTENDS Integers, FiniteSets

CONSTANTS
  Checks,     \* slots for the panel's verifications in flight
  Calls,      \* slots for calls on the licence server that read, then write
  Day,        \* from one run of scheduledVerification to the next
  CacheTTL,   \* the last age at which the cached verdict is still there (25 h)
  Offline,    \* LICENSE_OFFLINE_GRACE_HOURS
  GoodTTL,    \* the age at which lastGood is gone (30 days)
  Grace,      \* GRACE_PERIOD_HOURS of the server
  Terms,      \* what a licence may have left when the panel is installed
  Extension,  \* what one extend adds
  MaxEvents   \* bound: acts of operators, restarts and outages

ASSUME LicensingAssumption ==
  /\ {Day, CacheTTL, Offline, GoodTTL, Grace, Extension, MaxEvents} \subseteq Nat \ {0}
  /\ Day <= CacheTTL /\ CacheTTL < Offline /\ Offline < GoodTTL
  /\ Terms \subseteq Nat

VARIABLES
  status,    \* the licence's row: status,
  serverIp,  \* the server it is bound to,
  left,      \* and the time until its expiresAt, down to the end of its grace
  up,        \* the panel reaches the licence server
  verdict,   \* the cached verdict's `valid`, or "none"
  age,       \* how old it is
  good,      \* how old lastGood is; GoodTTL: there is none
  hour,      \* ticks since midnight
  cronDue,   \* midnight has come and scheduledVerification has not run
  check,     \* each verification: where it is and what the server found
  call,      \* each call: where it is and what it has read
  events,    \* bound
  word,      \* history: what the operators made of the licence last
  home,      \* history: the server it was first bound to
  paid,      \* history: the time it should have left
  slipped,   \* history: what changed between a call's read and its write
  calm,      \* history: in this tick neither `up` nor the server's verdict changed
  since      \* history: ticks since a midnight the present verdict stood all through

row == <<status, serverIp, left>>
panel == <<verdict, age, good>>
clock == <<hour, cronDue>>
ledger == <<word, home, paid, slipped>>
judged == <<calm, since>>
vars == <<row, up, panel, clock, check, call, events, ledger, judged>>

Later(a, limit) == IF a < limit THEN a + 1 ELSE limit
Sooner(t) == IF t > -Grace - 1 THEN t - 1 ELSE t

NoCheck == [at |-> "idle", valid |-> FALSE, word |-> "new"]
NoCall  == [op |-> "none", status |-> "PENDING", ip |-> "none", left |-> 0, word |-> "new"]

\* verify: what the server says of the row to this panel, before and after
\* it has looked at the dates.
Refused == status \in {"SUSPENDED", "PENDING"} \/ serverIp = "elsewhere"
Expired == left < -Grace
Valid   == ~Refused /\ ~Expired

\* Mutant: an invalid verdict falls through to the offline grace.
AllowedOffline ==
  \/ verdict = "valid"
  \/ good = GoodTTL \/ good < Offline

\* isAllowed.
Allowed ==
  IF verdict # "none" THEN verdict = "valid"
  ELSE good = GoodTTL \/ good < Offline

\* The verdict of the server, if a step changes it, is a new one.
Judge ==
  IF Valid' = Valid THEN UNCHANGED judged ELSE calm' = FALSE /\ since' = Offline

\* What an operator or the environment does counts as an event.
Event == events < MaxEvents /\ events' = events + 1

Slip(fact, spoilt) == slipped' = slipped \cup (IF spoilt THEN {fact} ELSE {})

(* create (PENDING, bound or not) or createLicenseFromCheckout (ACTIVE,    *)
(* unbound); the panel is new.                                             *)
Init ==
  /\ \/ status = "PENDING" /\ serverIp \in {"none", "here"} /\ word = "new"
     \/ status = "ACTIVE" /\ serverIp = "none" /\ word = "on"
  /\ home = serverIp
  /\ left \in Terms /\ paid = left
  /\ up = TRUE
  /\ verdict = "none" /\ age = 0 /\ good = GoodTTL
  /\ hour = 0 /\ cronDue = FALSE
  /\ check = [v \in Checks |-> NoCheck]
  /\ call = [c \in Calls |-> NoCall]
  /\ events = 0
  /\ slipped = {}
  /\ calm = FALSE /\ since = Offline
-----------------------------------------------------------------------------
(* The panel's verifications.                                              *)
Ask(v) ==
  /\ check[v].at = "idle"
  /\ check' = [check EXCEPT ![v].at = "asking"]

\* GET license/refresh, and getStatus when nothing is cached.
Refresh(v) ==
  /\ Ask(v)
  /\ UNCHANGED <<row, up, panel, clock, call, events, ledger, judged>>

\* The cron job of midnight.
ScheduledVerification(v) ==
  /\ cronDue /\ cronDue' = FALSE
  /\ Ask(v)
  /\ UNCHANGED <<row, up, panel, hour, call, events, ledger, judged>>

\* Mutant: the catch of verifyLicense takes the panel's records with it.
UnreachableForgets(v) ==
  /\ ~up /\ check[v].at \in {"asking", "answering"}
  /\ check' = [check EXCEPT ![v] = NoCheck]
  /\ verdict' = "invalid" /\ age' = 0
  /\ UNCHANGED <<row, up, good, clock, call, events, ledger, judged>>

\* The request or its answer is lost: the catch logs and keeps everything.
Unreachable(v) ==
  /\ ~up /\ check[v].at \in {"asking", "answering"}
  /\ check' = [check EXCEPT ![v] = NoCheck]
  /\ UNCHANGED <<row, up, panel, clock, call, events, ledger, judged>>

\* verify on the server reads the row and judges what it read.
Verify(v) ==
  /\ up /\ check[v].at = "asking"
  /\ check' = [check EXCEPT ![v] =
       [at |-> IF ~Refused /\ Expired THEN "expiring" ELSE "answering",
        valid |-> Valid, word |-> word]]
  /\ UNCHANGED <<row, up, panel, clock, call, events, ledger, judged>>

\* Past the grace it writes EXPIRED, over whatever the row says by now; a
\* panel that has died meanwhile gets no answer.
WriteExpired(v) ==
  /\ check[v].at \in {"expiring", "orphan"}
  /\ status' = "EXPIRED"
  /\ check' = [check EXCEPT ![v] =
       IF check[v].at = "orphan" THEN NoCheck ELSE [@ EXCEPT !.at = "answering"]]
  /\ Slip("status", word # check[v].word)
  /\ UNCHANGED <<serverIp, left, up, panel, clock, call, events, word, home, paid>>
  /\ Judge

\* The panel caches the verdict ...
Answer(v) ==
  /\ up /\ check[v].at = "answering"
  /\ verdict' = IF check[v].valid THEN "valid" ELSE "invalid"
  /\ age' = 0
  /\ check' = [check EXCEPT ![v] =
       IF check[v].valid THEN [@ EXCEPT !.at = "keeping"] ELSE NoCheck]
  /\ UNCHANGED <<row, up, good, clock, call, events, ledger, judged>>

\* ... and remembers when it was last a good one.
KeepGood(v) ==
  /\ check[v].at = "keeping"
  /\ good' = 0
  /\ check' = [check EXCEPT ![v] = NoCheck]
  /\ UNCHANGED <<row, up, verdict, age, clock, call, events, ledger, judged>>

\* The API ends, with the verifications it waits for; onModuleInit verifies.
ApiRestart(v) ==
  /\ Event
  /\ check[v].at \notin {"expiring", "orphan"}
  /\ check' = [w \in Checks |->
       IF w = v THEN [NoCheck EXCEPT !.at = "asking"]
       ELSE IF check[w].at \in {"expiring", "orphan"} THEN [check[w] EXCEPT !.at = "orphan"]
       ELSE NoCheck]
  /\ UNCHANGED <<row, up, panel, clock, call, ledger, judged>>
-----------------------------------------------------------------------------
(* Calls on the licence server.                                            *)

\* suspend and revoke write without regard to what they read.
Suspend ==
  /\ Event
  /\ status' = "SUSPENDED"
  /\ word' = "held"
  /\ UNCHANGED <<serverIp, left, up, panel, clock, check, call, home, paid, slipped>>
  /\ Judge

Revoke ==
  /\ Event
  /\ status' = "EXPIRED"
  /\ word' = "off"
  /\ UNCHANGED <<serverIp, left, up, panel, clock, check, call, home, paid, slipped>>
  /\ Judge

Read(c, op, ip) ==
  /\ Event
  /\ call[c].op = "none"
  /\ call' = [call EXCEPT ![c] =
       [op |-> op, status |-> status, ip |-> ip, left |-> left, word |-> word]]
  /\ UNCHANGED <<row, up, panel, clock, check, ledger, judged>>

\* activate from the server at ip, by the installer.
ActivateRead(c) ==
  \E ip \in {"here", "elsewhere"} :
    /\ status \notin {"SUSPENDED", "EXPIRED"}
    /\ serverIp \in {"none", ip}
    /\ Read(c, "activate", ip)

\* An ACTIVE licence needs no reactivation.
ReactivateRead(c) == status # "ACTIVE" /\ Read(c, "reactivate", "none")

ExtendRead(c) == Read(c, "extend", "none")

Done(c) == call' = [call EXCEPT ![c] = NoCall]

ActivateWrite(c) ==
  /\ call[c].op = "activate"
  /\ Done(c)
  /\ status' = "ACTIVE"
  /\ serverIp' = call[c].ip
  /\ word' = IF word = "new" THEN "on" ELSE word
  /\ home' = IF home = "none" THEN call[c].ip ELSE home
  /\ slipped' = slipped \cup (IF word \in {call[c].word, "on"} THEN {} ELSE {"status"})
                        \cup (IF serverIp \in {"none", call[c].ip} THEN {} ELSE {"binding"})
  /\ UNCHANGED <<left, up, panel, clock, check, events, paid>>
  /\ Judge

ReactivateWrite(c) ==
  /\ call[c].op = "reactivate"
  /\ Done(c)
  /\ status' = "ACTIVE"
  /\ word' = "on"
  /\ UNCHANGED <<serverIp, left, up, panel, clock, check, events, home, paid, slipped>>
  /\ Judge

Extended(t) == (IF t > 0 THEN t ELSE 0) + Extension

\* Mutant: an extension always makes the licence ACTIVE.
ExtendWriteActivates(c) ==
  /\ call[c].op = "extend"
  /\ Done(c)
  /\ left' = Extended(call[c].left)
  /\ paid' = Extended(paid)
  /\ status' = "ACTIVE"
  /\ word' = IF word = "off" THEN "on" ELSE word
  /\ slipped' = slipped \cup (IF word = call[c].word THEN {} ELSE {"status"})
                        \cup (IF left = call[c].left THEN {} ELSE {"expiry"})
  /\ UNCHANGED <<serverIp, up, panel, clock, check, events, home>>
  /\ Judge

\* extend writes a date and a status worked out from what it read.
ExtendWrite(c) ==
  /\ call[c].op = "extend"
  /\ Done(c)
  /\ left' = Extended(call[c].left)
  /\ paid' = Extended(paid)
  /\ status' = IF call[c].status = "EXPIRED" THEN "ACTIVE" ELSE call[c].status
  /\ word' = IF word = "off" THEN "on" ELSE word
  /\ slipped' = slipped \cup (IF word = call[c].word THEN {} ELSE {"status"})
                        \cup (IF left = call[c].left THEN {} ELSE {"expiry"})
  /\ UNCHANGED <<serverIp, up, panel, clock, check, events, home>>
  /\ Judge
-----------------------------------------------------------------------------
(* The environment: outages and time.                                      *)
Outage ==
  /\ Event
  /\ up' = ~up
  /\ calm' = FALSE
  /\ UNCHANGED <<row, panel, clock, check, call, ledger, since>>

\* Mutant: the cached verdict has no time to live.
TickKeepsVerdict ==
  /\ ~cronDue
  /\ \A v \in Checks : check[v] = NoCheck
  /\ \A c \in Calls : call[c] = NoCall
  /\ hour' = (hour + 1) % Day
  /\ cronDue' = (hour' = 0)
  /\ left' = Sooner(left) /\ paid' = Sooner(paid)
  /\ age' = (IF verdict = "none" THEN 0 ELSE age + 1) /\ UNCHANGED verdict
  /\ good' = Later(good, GoodTTL)
  /\ calm' = TRUE
  /\ UNCHANGED <<status, serverIp, up, check, call, events, word, home, slipped>>
  /\ since' = IF Valid' # Valid THEN Offline
              ELSE IF hour = 0 /\ calm /\ up THEN 1 ELSE Later(since, Offline)

Tick ==
  /\ ~cronDue
  /\ \A v \in Checks : check[v] = NoCheck
  /\ \A c \in Calls : call[c] = NoCall
  /\ hour' = (hour + 1) % Day
  /\ cronDue' = (hour' = 0)
  /\ left' = Sooner(left) /\ paid' = Sooner(paid)
  /\ IF verdict # "none" /\ age < CacheTTL
       THEN age' = age + 1 /\ UNCHANGED verdict
       ELSE verdict' = "none" /\ age' = 0
  /\ good' = Later(good, GoodTTL)
  /\ calm' = TRUE
  /\ UNCHANGED <<status, serverIp, up, check, call, events, word, home, slipped>>
  /\ since' = IF Valid' # Valid THEN Offline
              ELSE IF hour = 0 /\ calm /\ up THEN 1 ELSE Later(since, Offline)

Next ==
  \/ \E v \in Checks :
       \/ Refresh(v) \/ ScheduledVerification(v) \/ Unreachable(v) \/ Verify(v)
       \/ WriteExpired(v) \/ Answer(v) \/ KeepGood(v) \/ ApiRestart(v)
  \/ \E c \in Calls :
       \/ ActivateRead(c) \/ ReactivateRead(c) \/ ExtendRead(c)
       \/ ActivateWrite(c) \/ ReactivateWrite(c) \/ ExtendWrite(c)
  \/ Suspend \/ Revoke \/ Outage \/ Tick

Spec == Init /\ [][Next]_vars
-----------------------------------------------------------------------------
Statuses == {"PENDING", "ACTIVE", "SUSPENDED", "EXPIRED"}
Words    == {"new", "on", "held", "off"}
Places   == {"none", "here", "elsewhere"}

(* Type invariant.                                                         *)
TypeOK ==
  /\ status \in Statuses /\ serverIp \in Places
  /\ {left, paid} \subseteq Int /\ left >= -Grace - 1 /\ paid >= -Grace - 1
  /\ up \in BOOLEAN
  /\ verdict \in {"none", "valid", "invalid"} /\ age \in 0..CacheTTL
  /\ good \in 0..GoodTTL
  /\ hour \in 0..(Day - 1) /\ cronDue \in BOOLEAN
  /\ check \in [Checks -> [at : {"idle", "asking", "expiring", "orphan", "answering", "keeping"},
                           valid : BOOLEAN, word : Words]]
  /\ call \in [Calls -> [op : {"none", "activate", "reactivate", "extend"},
                         status : Statuses, ip : Places, left : Int, word : Words]]
  /\ events \in 0..MaxEvents
  /\ word \in Words /\ home \in Places
  /\ slipped \subseteq {"status", "binding", "expiry"}
  /\ calm \in BOOLEAN /\ since \in 0..Offline

(* The panel of a paying customer runs on through an outage of the licence *)
(* server: as long as the last midnight at which the server could be       *)
(* reached is less than LICENSE_OFFLINE_GRACE_HOURS ago and the licence    *)
(* has stood ever since, LicenseGuard lets requests through, whatever      *)
(* verifications were lost, answered out of order or cut off by a restart. *)
PaidPanelRuns == Valid /\ since < Offline => Allowed

(* A licence the server refuses, because it was suspended, ran out or was  *)
(* bound elsewhere, is refused by the panel from the next midnight on,     *)
(* through the offline grace the panel still holds from better days.       *)
RefusedPanelStops == ~Valid /\ since <= CacheTTL => ~Allowed

(* The row says what the operators made of it: unless a call wrote what    *)
(* another had changed since its read, a suspended licence stays so, one   *)
(* that is switched on is good for all the time it was paid for, also when *)
(* a verification writes EXPIRED over an extension, and it stays bound to  *)
(* the server it was first bound to.                                       *)
WordIsKept ==
  slipped = {} =>
    /\ word = "held" => status = "SUSPENDED"
    /\ word = "on" /\ paid >= -Grace => Valid \/ serverIp = "elsewhere"
    /\ serverIp = home
=============================================================================
