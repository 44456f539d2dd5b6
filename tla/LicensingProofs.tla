--------------------------- MODULE LicensingProofs ---------------------------
(***************************************************************************)
(* Proofs about Licensing, for any number of verifications and calls in    *)
(* flight and any lengths of the day, the cache, the graces and the terms  *)
(* that are ordered as LicensingAssumption says.                           *)
(***************************************************************************)
EXTENDS Licensing, TLAPS

LEMMA Lengths ==
  /\ Day \in Nat /\ CacheTTL \in Nat /\ Offline \in Nat /\ GoodTTL \in Nat
  /\ Grace \in Nat /\ Extension \in Nat /\ MaxEvents \in Nat
  /\ 0 < Day /\ Day <= CacheTTL /\ CacheTTL < Offline /\ Offline < GoodTTL
  /\ Terms \subseteq Nat
  BY LicensingAssumption

(* What the records of the panel and of the calls may hold.                *)
Ats == {"idle", "asking", "expiring", "orphan", "answering", "keeping"}
CheckRec == [at : Ats, valid : BOOLEAN, word : Words]
CallRec  == [op : {"none", "activate", "reactivate", "extend"},
             status : Statuses, ip : Places, left : Int, word : Words]

LEMMA InitTypes == Init => TypeOK
<1> SUFFICES ASSUME Init PROVE TypeOK
  OBVIOUS
<1> USE Lengths
<1>1. /\ check \in [Checks -> CheckRec] /\ call \in [Calls -> CallRec]
  BY DEF Init, NoCheck, NoCall, CheckRec, CallRec, Ats, Statuses, Words, Places
<1>2. {left, paid} \subseteq Int /\ left >= -Grace - 1 /\ paid >= -Grace - 1
  BY DEF Init
<1>3. /\ age \in 0..CacheTTL /\ good \in 0..GoodTTL /\ hour \in 0..(Day - 1)
      /\ events \in 0..MaxEvents /\ since \in 0..Offline
  BY DEF Init
<1>4. /\ status \in Statuses /\ serverIp \in Places /\ word \in Words /\ home \in Places
      /\ up \in BOOLEAN /\ verdict \in {"none", "valid", "invalid"} /\ cronDue \in BOOLEAN
      /\ slipped \subseteq {"status", "binding", "expiry"} /\ calm \in BOOLEAN
  BY DEF Init, Statuses, Words, Places
<1> QED BY <1>1, <1>2, <1>3, <1>4 DEF TypeOK, CheckRec, CallRec, Ats

\* A verification moves through its stages.
LEMMA CheckTypes ==
  ASSUME TypeOK, NEW v \in Checks,
         \/ Refresh(v) \/ ScheduledVerification(v) \/ Unreachable(v) \/ Verify(v)
         \/ WriteExpired(v) \/ Answer(v) \/ KeepGood(v) \/ ApiRestart(v)
  PROVE  check' \in [Checks -> CheckRec]
<1>1. check \in [Checks -> CheckRec] /\ Valid \in BOOLEAN /\ word \in Words
  BY DEF TypeOK, CheckRec, Ats, Valid, Refused, Expired
<1>2. NoCheck \in CheckRec /\ [NoCheck EXCEPT !.at = "asking"] \in CheckRec
  BY DEF NoCheck, CheckRec, Ats, Words
<1>3. \A w \in Checks, a \in Ats : [check[w] EXCEPT !.at = a] \in CheckRec
  BY <1>1 DEF CheckRec
<1>4. CASE Refresh(v) \/ ScheduledVerification(v)
  BY <1>1, <1>3, <1>4 DEF Refresh, ScheduledVerification, Ask, Ats
<1>5. CASE Unreachable(v) \/ KeepGood(v)
  BY <1>1, <1>2, <1>5 DEF Unreachable, KeepGood
<1>6. CASE Verify(v)
  <2>1. [at |-> IF ~Refused /\ Expired THEN "expiring" ELSE "answering",
         valid |-> Valid, word |-> word] \in CheckRec
    BY <1>1 DEF CheckRec, Ats
  <2> QED BY <1>1, <1>6, <2>1 DEF Verify
<1>7. CASE WriteExpired(v) \/ Answer(v)
  BY <1>1, <1>2, <1>3, <1>7 DEF WriteExpired, Answer, Ats
<1>8. CASE ApiRestart(v)
  BY <1>1, <1>2, <1>3, <1>8 DEF ApiRestart, Ats
<1> QED BY <1>4, <1>5, <1>6, <1>7, <1>8

LEMMA CallTypes ==
  ASSUME TypeOK, NEW c \in Calls,
         \/ ActivateRead(c) \/ ReactivateRead(c) \/ ExtendRead(c)
         \/ ActivateWrite(c) \/ ReactivateWrite(c) \/ ExtendWrite(c)
  PROVE  call' \in [Calls -> CallRec]
<1>1. call \in [Calls -> CallRec] /\ NoCall \in CallRec
  BY DEF TypeOK, CallRec, NoCall, Statuses, Places, Words
<1>2. CASE ActivateWrite(c) \/ ReactivateWrite(c) \/ ExtendWrite(c)
  BY <1>1, <1>2 DEF ActivateWrite, ReactivateWrite, ExtendWrite, Done
<1>3. CASE ActivateRead(c) \/ ReactivateRead(c) \/ ExtendRead(c)
  <2>1. PICK op \in {"activate", "reactivate", "extend"}, ip \in Places : Read(c, op, ip)
    BY <1>3 DEF ActivateRead, ReactivateRead, ExtendRead, Places
  <2>2. [op |-> op, status |-> status, ip |-> ip, left |-> left, word |-> word] \in CallRec
    BY DEF TypeOK, CallRec
  <2> QED BY <1>1, <2>1, <2>2 DEF Read
<1> QED BY <1>2, <1>3

LEMMA SinceTypes ==
  ASSUME TypeOK, Judge \/ UNCHANGED judged
  PROVE  calm' \in BOOLEAN /\ since' \in 0..Offline
<1>1. \/ calm' = calm /\ since' = since
      \/ calm' = FALSE /\ since' = Offline
  <2>1. CASE Valid' = Valid
    BY <2>1 DEF Judge, judged
  <2>2. CASE Valid' # Valid
    BY <2>2 DEF Judge, judged
  <2> QED BY <2>1, <2>2
<1>2. calm \in BOOLEAN /\ since \in 0..Offline
  BY DEF TypeOK
<1>3. Offline \in 0..Offline
  BY Lengths
<1> QED BY <1>1, <1>2, <1>3, Zenon

\* Time.
LEMMA TickTypes ==
  ASSUME TypeOK, Tick
  PROVE  TypeOK'
<1> USE Lengths
<1>1. /\ left' \in Int /\ left' >= -Grace - 1
      /\ paid' \in Int /\ paid' >= -Grace - 1
  BY DEF TypeOK, Tick, Sooner
<1>2. hour' \in 0..(Day - 1) /\ cronDue' \in BOOLEAN
  BY DEF TypeOK, Tick
<1>3. verdict' \in {"none", "valid", "invalid"} /\ age' \in 0..CacheTTL
  BY DEF TypeOK, Tick
<1>4. good' \in 0..GoodTTL
  BY DEF TypeOK, Tick, Later
<1>5. calm' \in BOOLEAN /\ since' \in 0..Offline
  BY DEF TypeOK, Tick, Later
<1> QED BY <1>1, <1>2, <1>3, <1>4, <1>5 DEF TypeOK, Tick

LEMMA StepTypes == TypeOK /\ [Next]_vars => TypeOK'
<1> SUFFICES ASSUME TypeOK, [Next]_vars PROVE TypeOK'
  OBVIOUS
<1> USE Lengths
<1>1. CASE UNCHANGED vars
  BY <1>1 DEF TypeOK, vars, row, panel, clock, ledger, judged
<1>2. ASSUME NEW v \in Checks,
             \/ Refresh(v) \/ ScheduledVerification(v) \/ Unreachable(v) \/ Verify(v)
             \/ WriteExpired(v) \/ Answer(v) \/ KeepGood(v) \/ ApiRestart(v)
      PROVE  TypeOK'
  <2>1. check' \in [Checks -> CheckRec]
    BY <1>2, CheckTypes
  <2>2. calm' \in BOOLEAN /\ since' \in 0..Offline
    BY <1>2, SinceTypes DEF Refresh, ScheduledVerification, Unreachable, Verify, WriteExpired,
       Answer, KeepGood, ApiRestart
  <2>3. events' \in 0..MaxEvents /\ slipped' \subseteq {"status", "binding", "expiry"}
    BY <1>2 DEF TypeOK, Refresh, ScheduledVerification, Unreachable, Verify, WriteExpired,
       Answer, KeepGood, ApiRestart, Event, Slip, ledger
  <2>4. status' \in Statuses /\ UNCHANGED <<serverIp, left, up, hour, call, word, home, paid>>
    <3>1. CASE WriteExpired(v)
      BY <3>1 DEF WriteExpired, clock, Statuses
    <3> QED
      BY <1>2, <3>1 DEF TypeOK, Refresh, ScheduledVerification, Unreachable, Verify,
         Answer, KeepGood, ApiRestart, row, clock, ledger
  <2>5. /\ verdict' \in {"none", "valid", "invalid"} /\ age' \in 0..CacheTTL
        /\ good' \in 0..GoodTTL /\ cronDue' \in BOOLEAN
    <3>1. CASE Answer(v) \/ KeepGood(v)
      BY <3>1 DEF TypeOK, Answer, KeepGood, clock
    <3>2. CASE ScheduledVerification(v)
      BY <3>2 DEF TypeOK, ScheduledVerification, panel
    <3>3. CASE \/ Refresh(v) \/ Unreachable(v) \/ Verify(v) \/ WriteExpired(v) \/ ApiRestart(v)
      BY <3>3 DEF TypeOK, Refresh, Unreachable, Verify, WriteExpired, ApiRestart, panel, clock
    <3> QED BY <1>2, <3>1, <3>2, <3>3
  <2> QED BY <2>1, <2>2, <2>3, <2>4, <2>5 DEF TypeOK, CheckRec, Ats
<1>3. ASSUME NEW c \in Calls,
             \/ ActivateRead(c) \/ ReactivateRead(c) \/ ExtendRead(c)
             \/ ActivateWrite(c) \/ ReactivateWrite(c) \/ ExtendWrite(c)
      PROVE  TypeOK'
  <2>1. call' \in [Calls -> CallRec]
    BY <1>3, CallTypes
  <2>2. calm' \in BOOLEAN /\ since' \in 0..Offline
    BY <1>3, SinceTypes DEF ActivateRead, ReactivateRead, ExtendRead, Read, ActivateWrite,
       ReactivateWrite, ExtendWrite
  <2>3. events' \in 0..MaxEvents /\ UNCHANGED <<up, panel, clock, check>>
    BY <1>3 DEF TypeOK, ActivateRead, ReactivateRead, ExtendRead, Read, Event, ActivateWrite,
       ReactivateWrite, ExtendWrite
  <2>4. call[c] \in CallRec
    BY DEF TypeOK, CallRec
  <2>5. CASE ActivateRead(c) \/ ReactivateRead(c) \/ ExtendRead(c)
    BY <2>1, <2>2, <2>3, <2>5
    DEF TypeOK, CallRec, ActivateRead, ReactivateRead, ExtendRead, Read, row, panel, clock, ledger
  <2>6. CASE ActivateWrite(c) \/ ReactivateWrite(c)
    <3>1. status' \in Statuses /\ serverIp' \in Places /\ word' \in Words /\ home' \in Places
      BY <2>4, <2>6 DEF TypeOK, CallRec, ActivateWrite, ReactivateWrite, Statuses, Words
    <3>2. slipped' \subseteq {"status", "binding", "expiry"} /\ UNCHANGED <<left, paid>>
      BY <2>6 DEF TypeOK, ActivateWrite, ReactivateWrite
    <3> QED BY <2>1, <2>2, <2>3, <3>1, <3>2 DEF TypeOK, CallRec, panel, clock
  <2>7. CASE ExtendWrite(c)
    <3>1. status' \in Statuses /\ word' \in Words /\ UNCHANGED <<serverIp, home>>
      BY <2>4, <2>7 DEF TypeOK, CallRec, ExtendWrite, Statuses, Words
    <3>2. slipped' \subseteq {"status", "binding", "expiry"}
      BY <2>7 DEF TypeOK, ExtendWrite
    <3>3. \A t \in Int : Extended(t) \in Int /\ Extended(t) >= -Grace - 1
      BY DEF Extended
    <3>4. left' = Extended(call[c].left) /\ paid' = Extended(paid) /\ call[c].left \in Int /\ paid \in Int
      BY <2>4, <2>7 DEF ExtendWrite, CallRec, TypeOK
    <3> QED BY <2>1, <2>2, <2>3, <3>1, <3>2, <3>3, <3>4 DEF TypeOK, CallRec, panel, clock
  <2> QED BY <1>3, <2>5, <2>6, <2>7
<1>4. CASE Suspend \/ Revoke \/ Outage
  <2>1. calm' \in BOOLEAN /\ since' \in 0..Offline
    BY <1>4, SinceTypes DEF Suspend, Revoke, Outage, TypeOK
  <2>2. events' \in 0..MaxEvents /\ UNCHANGED <<serverIp, left, panel, clock, check, call, home, paid, slipped>>
    BY <1>4 DEF TypeOK, Suspend, Revoke, Outage, Event, row, ledger
  <2>3. status' \in Statuses /\ word' \in Words /\ up' \in BOOLEAN
    BY <1>4 DEF TypeOK, Suspend, Revoke, Outage, row, ledger, Statuses, Words
  <2> QED BY <2>1, <2>2, <2>3 DEF TypeOK, panel, clock
<1>5. CASE Tick
  BY <1>5, TickTypes
<1> QED BY <1>1, <1>2, <1>3, <1>4, <1>5 DEF Next

\* Every variable of the licence, the panel and the calls keeps its type.
THEOREM LicensingTyped == Spec => []TypeOK
  BY InitTypes, StepTypes, PTL DEF Spec
-----------------------------------------------------------------------------
(* The operators' word.  As long as nothing slipped the row's status fits  *)
(* what they made of the licence, and so does what a waiting call has read *)
(* of it.                                                                  *)
Fits(w, st) ==
  /\ w = "new" => st = "PENDING"
  /\ w = "on" => st \in {"ACTIVE", "EXPIRED"}
  /\ w = "held" => st = "SUSPENDED"
  /\ w = "off" => st = "EXPIRED"

RowFits == Fits(word, status) /\ left = paid /\ serverIp = home

ChecksFit ==
  \A v \in Checks : check[v].at \in {"expiring", "orphan"} => check[v].word \in {"on", "off"}

CallsFit ==
  \A c \in Calls :
    /\ call[c].op = "activate" => call[c].word \in {"new", "on"}
    /\ call[c].op = "extend" => Fits(call[c].word, call[c].status)

WordInv == slipped = {} => RowFits /\ ChecksFit /\ CallsFit

LEMMA InitWord == Init => WordInv
  BY DEF Init, WordInv, RowFits, ChecksFit, CallsFit, Fits, NoCheck, NoCall

\* Nothing takes a fact back out of `slipped`.
LEMMA SlippedGrows == TypeOK /\ [Next]_vars => slipped \subseteq slipped'
<1> SUFFICES ASSUME [Next]_vars PROVE slipped \subseteq slipped'
  OBVIOUS
<1>1. CASE UNCHANGED vars
  BY <1>1 DEF vars, ledger
<1>2. ASSUME NEW v \in Checks,
             \/ Refresh(v) \/ ScheduledVerification(v) \/ Unreachable(v) \/ Verify(v)
             \/ WriteExpired(v) \/ Answer(v) \/ KeepGood(v) \/ ApiRestart(v)
      PROVE  slipped \subseteq slipped'
  BY <1>2 DEF Refresh, ScheduledVerification, Unreachable, Verify, WriteExpired, Slip, Answer,
     KeepGood, ApiRestart, ledger
<1>3. ASSUME NEW c \in Calls,
             \/ ActivateRead(c) \/ ReactivateRead(c) \/ ExtendRead(c)
             \/ ActivateWrite(c) \/ ReactivateWrite(c) \/ ExtendWrite(c)
      PROVE  slipped \subseteq slipped'
  BY <1>3 DEF ActivateRead, ReactivateRead, ExtendRead, Read, ActivateWrite, ReactivateWrite,
     ExtendWrite, ledger
<1>4. CASE Suspend \/ Revoke \/ Outage \/ Tick
  BY <1>4 DEF Suspend, Revoke, Outage, Tick, ledger
<1> QED BY <1>1, <1>2, <1>3, <1>4 DEF Next

LEMMA StepWord == TypeOK /\ WordInv /\ [Next]_vars => WordInv'
<1> SUFFICES ASSUME TypeOK, WordInv, [Next]_vars, slipped' = {}
             PROVE  RowFits' /\ ChecksFit' /\ CallsFit'
  BY DEF WordInv
<1>1. slipped = {} /\ RowFits /\ ChecksFit /\ CallsFit
  BY SlippedGrows DEF WordInv
<1>2. CASE UNCHANGED vars
  BY <1>1, <1>2 DEF vars, row, ledger, RowFits, ChecksFit, CallsFit
<1>3. ASSUME NEW v \in Checks,
             \/ Refresh(v) \/ ScheduledVerification(v) \/ Unreachable(v) \/ Verify(v)
             \/ WriteExpired(v) \/ Answer(v) \/ KeepGood(v) \/ ApiRestart(v)
      PROVE  RowFits' /\ ChecksFit' /\ CallsFit'
  <2>1. UNCHANGED <<word, home, left, paid, serverIp, call>>
    BY <1>3 DEF Refresh, ScheduledVerification, Unreachable, Verify, WriteExpired, Answer,
       KeepGood, ApiRestart, row, ledger
  <2>2. RowFits'
    <3>1. CASE WriteExpired(v)
      <4>1. check[v].word \in {"on", "off"}
        BY <1>1, <3>1 DEF ChecksFit, WriteExpired
      <4>2. word = check[v].word /\ status' = "EXPIRED"
        BY <3>1 DEF WriteExpired, Slip
      <4> QED BY <1>1, <2>1, <4>1, <4>2 DEF RowFits, Fits
    <3>2. CASE ~WriteExpired(v)
      <4>1. status' = status
        BY <1>3, <3>2 DEF Refresh, ScheduledVerification, Unreachable, Verify, Answer,
           KeepGood, ApiRestart, row
      <4> QED BY <1>1, <2>1, <4>1 DEF RowFits
    <3> QED BY <3>1, <3>2
  <2>3. ChecksFit'
    <3>1. CASE Verify(v)
      <4>1. ~Refused => word \in {"on", "off"}
        BY <1>1 DEF RowFits, Fits, Refused, TypeOK, Words
      <4> QED BY <1>1, <3>1, <4>1 DEF ChecksFit, Verify, TypeOK
    <3>2. CASE ApiRestart(v)
      BY <1>1, <3>2 DEF ChecksFit, ApiRestart, NoCheck, TypeOK
    <3>3. CASE ~Verify(v) /\ ~ApiRestart(v)
      BY <1>1, <1>3, <3>3 DEF ChecksFit, Refresh, ScheduledVerification, Ask, Unreachable,
         WriteExpired, Answer, KeepGood, NoCheck, TypeOK
    <3> QED BY <3>1, <3>2, <3>3
  <2>4. CallsFit'
    BY <1>1, <2>1 DEF CallsFit
  <2> QED BY <2>2, <2>3, <2>4
<1>4. ASSUME NEW c \in Calls, ActivateRead(c) \/ ReactivateRead(c) \/ ExtendRead(c)
      PROVE  RowFits' /\ ChecksFit' /\ CallsFit'
  <2>1. UNCHANGED <<word, home, left, paid, serverIp, status, check>>
    BY <1>4 DEF ActivateRead, ReactivateRead, ExtendRead, Read, row, ledger
  <2>2. CallsFit'
    <3>1. PICK op \in {"activate", "reactivate", "extend"}, ip \in {"none", "here", "elsewhere"} :
            /\ Read(c, op, ip)
            /\ op = "activate" => status \notin {"SUSPENDED", "EXPIRED"}
      BY <1>4 DEF ActivateRead, ReactivateRead, ExtendRead
    <3>2. op = "activate" => word \in {"new", "on"}
      BY <1>1, <3>1 DEF RowFits, Fits, TypeOK, Words
    <3> QED BY <1>1, <3>1, <3>2 DEF Read, CallsFit, RowFits, TypeOK
  <2> QED BY <1>1, <2>1, <2>2 DEF RowFits, ChecksFit
<1>5. ASSUME NEW c \in Calls, ActivateWrite(c) \/ ReactivateWrite(c) \/ ExtendWrite(c)
      PROVE  RowFits' /\ ChecksFit' /\ CallsFit'
  <2>1. ChecksFit' /\ CallsFit'
    BY <1>1, <1>5 DEF ActivateWrite, ReactivateWrite, ExtendWrite, Done, NoCall, ChecksFit,
       CallsFit, TypeOK
  <2>2. CASE ActivateWrite(c)
    <3>1. call[c].word \in {"new", "on"} /\ word \in {call[c].word, "on"}
      BY <1>1, <2>2 DEF ActivateWrite, CallsFit
    <3>2. serverIp \in {"none", call[c].ip}
      BY <2>2 DEF ActivateWrite
    <3> QED BY <1>1, <2>1, <2>2, <3>1, <3>2 DEF ActivateWrite, RowFits, Fits
  <2>3. CASE ReactivateWrite(c)
    BY <1>1, <2>1, <2>3 DEF ReactivateWrite, RowFits, Fits
  <2>4. CASE ExtendWrite(c)
    <3>1. word = call[c].word /\ left = call[c].left
      BY <2>4 DEF ExtendWrite
    <3>2. Fits(word, call[c].status)
      BY <1>1, <2>4, <3>1 DEF ExtendWrite, CallsFit
    <3> QED BY <1>1, <2>1, <2>4, <3>1, <3>2 DEF ExtendWrite, RowFits, Fits
  <2> QED BY <1>5, <2>2, <2>3, <2>4
<1>6. CASE Suspend \/ Revoke \/ Outage
  BY <1>1, <1>6 DEF Suspend, Revoke, Outage, row, ledger, RowFits, Fits, ChecksFit, CallsFit
<1>7. CASE Tick
  BY <1>1, <1>7 DEF Tick, RowFits, ChecksFit, CallsFit
<1> QED BY <1>2, <1>3, <1>4, <1>5, <1>6, <1>7 DEF Next

\* The row says what the operators made of the licence, unless a call wrote over
\* what another had changed since its read.
THEOREM WordIsKeptHolds == Spec => []WordIsKept
<1>1. TypeOK /\ WordInv => WordIsKept
  <2> SUFFICES ASSUME TypeOK, RowFits PROVE
        /\ word = "held" => status = "SUSPENDED"
        /\ word = "on" /\ paid >= -Grace => Valid \/ serverIp = "elsewhere"
        /\ serverIp = home
    BY DEF WordInv, WordIsKept
  <2>1. word = "on" => status \in {"ACTIVE", "EXPIRED"}
    BY DEF RowFits, Fits
  <2>2. left = paid /\ left \in Int /\ Grace \in Nat
    BY Lengths DEF RowFits, TypeOK
  <2> QED BY <2>1, <2>2 DEF RowFits, Fits, Valid, Refused, Expired
<1> QED BY <1>1, InitTypes, StepTypes, InitWord, StepWord, PTL DEF Spec
-----------------------------------------------------------------------------
(* The verdicts.  What a verification has read is what the server still    *)
(* says, in a calm tick or since the midnight that `since` counts from;    *)
(* after a calm midnight with the server in reach the panel's records are  *)
(* fresh before the first tick; and from then on they age no faster than   *)
(* `since`.                                                                *)
Reading(v) == check[v].at \in {"asking", "expiring", "answering", "keeping"}

AnswersTrue ==
  calm \/ since < Offline =>
    \A v \in Checks : check[v].at \in {"expiring", "answering", "keeping"} => check[v].valid = Valid

GoodAnswers ==
  \A v \in Checks : check[v].at = "keeping" => check[v].valid /\ (calm => verdict = "valid" /\ age = 0)

Fresh ==
  /\ Valid => verdict = "valid" /\ good = 0
  /\ ~Valid => verdict = "invalid" /\ age = 0

MidnightFresh ==
  calm /\ up /\ hour = 0 => cronDue \/ Fresh \/ \E v \in Checks : Reading(v)

RecordsFresh ==
  /\ Valid /\ since < Offline => verdict # "invalid" /\ good <= since
  /\ ~Valid /\ since <= CacheTTL => verdict = "invalid" /\ age <= since

VerdictInv == AnswersTrue /\ GoodAnswers /\ MidnightFresh /\ RecordsFresh

LEMMA InitVerdicts == Init => VerdictInv
<1> SUFFICES ASSUME Init PROVE VerdictInv
  OBVIOUS
<1>1. calm = FALSE /\ since = Offline /\ \A v \in Checks : check[v].at = "idle"
  BY DEF Init, NoCheck
<1> QED
  BY <1>1, Lengths DEF VerdictInv, AnswersTrue, GoodAnswers, MidnightFresh, RecordsFresh

\* The server's verdict is about the row alone, and a step that changes it starts
\* everything anew.
LEMMA SameRow ==
  ASSUME UNCHANGED row PROVE Valid' = Valid
  BY DEF row, Valid, Refused, Expired

LEMMA JudgedAnew ==
  ASSUME Judge
  PROVE  \/ Valid' = Valid /\ calm' = calm /\ since' = since
         \/ calm' = FALSE /\ since' = Offline
<1>1. CASE Valid' = Valid
  BY <1>1 DEF Judge, judged
<1>2. CASE Valid' # Valid
  BY <1>2 DEF Judge
<1> QED BY <1>1, <1>2

LEMMA JudgeKeeps ==
  ASSUME TypeOK, VerdictInv, UNCHANGED <<up, panel, clock, check>>,
         \/ Valid' = Valid /\ calm' = calm /\ since' = since
         \/ calm' = FALSE /\ since' = Offline
  PROVE  VerdictInv'
<1>1. CASE Valid' = Valid /\ calm' = calm /\ since' = since
  BY <1>1 DEF VerdictInv, AnswersTrue, GoodAnswers, MidnightFresh, RecordsFresh, Fresh, Reading,
     panel, clock
<1>2. CASE calm' = FALSE /\ since' = Offline
  <2>1. AnswersTrue' /\ MidnightFresh' /\ RecordsFresh'
    BY <1>2, Lengths DEF AnswersTrue, MidnightFresh, RecordsFresh
  <2>2. GoodAnswers'
    BY <1>2 DEF VerdictInv, GoodAnswers
  <2> QED BY <2>1, <2>2 DEF VerdictInv
<1> QED BY <1>1, <1>2

\* A step of a verification that leaves the row and the judgement alone.
LEMMA CheckVerdicts ==
  ASSUME TypeOK, VerdictInv, NEW v \in Checks,
         \/ Refresh(v) \/ ScheduledVerification(v) \/ Unreachable(v) \/ Verify(v)
         \/ Answer(v) \/ KeepGood(v) \/ ApiRestart(v)
  PROVE  VerdictInv'
<1> USE Lengths
<1>1. UNCHANGED row /\ UNCHANGED <<up, hour, calm, since>>
  BY DEF Refresh, ScheduledVerification, Unreachable, Verify, Answer, KeepGood, ApiRestart,
     clock, judged
<1>2. Valid' = Valid /\ Valid \in BOOLEAN
  BY <1>1, SameRow DEF Valid, Refused, Expired
<1>3. /\ check \in [Checks -> CheckRec] /\ since \in Nat
      /\ AnswersTrue /\ GoodAnswers /\ MidnightFresh /\ RecordsFresh
  BY DEF VerdictInv, TypeOK, CheckRec, Ats
<1> HIDE DEF Valid
<1>4. CASE Refresh(v) \/ ScheduledVerification(v)
  <2>1. check' = [check EXCEPT ![v].at = "asking"] /\ UNCHANGED <<verdict, age, good>>
    BY <1>4 DEF Refresh, ScheduledVerification, Ask, panel
  <2>2. check' = [check EXCEPT ![v] = [@ EXCEPT !.at = "asking"]] /\ Reading(v)'
    BY <1>3, <2>1 DEF CheckRec, Reading
  <2> QED
    BY <1>1, <1>2, <1>3, <2>1, <2>2 DEF VerdictInv, AnswersTrue, GoodAnswers, MidnightFresh,
       RecordsFresh, CheckRec
<1>5. CASE Unreachable(v)
  <2>1. ~up /\ check' = [check EXCEPT ![v] = NoCheck] /\ UNCHANGED <<verdict, age, good>>
    BY <1>5 DEF Unreachable, panel
  <2> QED
    BY <1>1, <1>2, <1>3, <2>1 DEF VerdictInv, AnswersTrue, GoodAnswers, MidnightFresh,
       RecordsFresh, NoCheck
<1>6. CASE Verify(v)
  <2>1. UNCHANGED <<verdict, age, good>>
    BY <1>6 DEF Verify, panel
  <2>2. /\ check'[v].at \in {"expiring", "answering"} /\ check'[v].valid = Valid
        /\ \A w \in Checks : w # v => check'[w] = check[w]
    BY <1>3, <1>6 DEF Verify
  <2> QED
    BY <1>1, <1>2, <1>3, <2>1, <2>2 DEF VerdictInv, AnswersTrue, GoodAnswers, MidnightFresh,
       RecordsFresh, Reading
<1>7. CASE Answer(v)
  <2>1. /\ verdict' = IF check[v].valid THEN "valid" ELSE "invalid"
        /\ age' = 0 /\ good' = good
        /\ check[v].at = "answering" /\ check[v].valid \in BOOLEAN
    BY <1>3, <1>7 DEF Answer, CheckRec
  <2>2. /\ \A w \in Checks : w # v => check'[w] = check[w]
        /\ check[v].valid => check'[v].at = "keeping" /\ check'[v].valid = check[v].valid
        /\ ~check[v].valid => check'[v].at = "idle"
    BY <1>3, <1>7 DEF Answer, CheckRec, NoCheck
  <2>3. calm \/ since < Offline => check[v].valid = Valid
    BY <1>3, <2>1 DEF AnswersTrue
  <2>4. AnswersTrue'
    BY <1>1, <1>2, <1>3, <2>1, <2>2 DEF AnswersTrue
  <2>5. GoodAnswers'
    <3> SUFFICES ASSUME NEW w \in Checks, check'[w].at = "keeping"
                 PROVE  check'[w].valid /\ (calm' => verdict' = "valid" /\ age' = 0)
      BY DEF GoodAnswers
    <3>1. CASE w = v
      BY <2>1, <2>2, <3>1
    <3>2. CASE w # v
      <4>1. check[w].at = "keeping" /\ check[w].valid /\ check'[w] = check[w]
        BY <1>3, <2>2, <3>2 DEF GoodAnswers
      <4>2. calm => check[v].valid
        BY <1>3, <2>3, <4>1 DEF AnswersTrue
      <4> QED BY <1>1, <2>1, <4>1, <4>2
    <3> QED BY <3>1, <3>2
  <2>6. MidnightFresh'
    <3>1. CASE check[v].valid
      BY <2>2, <3>1 DEF MidnightFresh, Reading
    <3>2. CASE ~check[v].valid
      BY <1>1, <1>2, <2>1, <2>3, <3>2 DEF MidnightFresh, Fresh
    <3> QED BY <3>1, <3>2
  <2>7. RecordsFresh'
    BY <1>1, <1>2, <1>3, <2>1, <2>3 DEF RecordsFresh
  <2> QED BY <2>4, <2>5, <2>6, <2>7 DEF VerdictInv
<1>8. CASE KeepGood(v)
  <2>1. /\ good' = 0 /\ UNCHANGED <<verdict, age>>
        /\ check[v].at = "keeping" /\ check[v].valid
    BY <1>3, <1>8 DEF KeepGood, GoodAnswers
  <2>2. check'[v].at = "idle" /\ \A w \in Checks : w # v => check'[w] = check[w]
    BY <1>3, <1>8 DEF KeepGood, NoCheck
  <2>3. calm => Valid /\ verdict = "valid"
    BY <1>2, <1>3, <2>1 DEF AnswersTrue, GoodAnswers
  <2>4. AnswersTrue' /\ GoodAnswers'
    BY <1>1, <1>2, <1>3, <2>1, <2>2 DEF AnswersTrue, GoodAnswers
  <2>5. MidnightFresh' /\ RecordsFresh'
    BY <1>1, <1>2, <1>3, <2>1, <2>3 DEF MidnightFresh, RecordsFresh, Fresh
  <2> QED BY <2>4, <2>5 DEF VerdictInv
<1>9. CASE ApiRestart(v)
  <2>1. UNCHANGED <<verdict, age, good>>
    BY <1>9 DEF ApiRestart, panel
  <2>2. /\ check'[v].at = "asking"
        /\ \A w \in Checks : check'[w].at \in {"asking", "idle", "orphan"}
    BY <1>3, <1>9 DEF ApiRestart, NoCheck, CheckRec
  <2> QED
    BY <1>1, <1>2, <1>3, <2>1, <2>2 DEF VerdictInv, AnswersTrue, GoodAnswers, MidnightFresh,
       RecordsFresh, Reading
<1> QED BY <1>4, <1>5, <1>6, <1>7, <1>8, <1>9

\* The EXPIRED a verification writes.
LEMMA ExpiryVerdicts ==
  ASSUME TypeOK, VerdictInv, NEW v \in Checks, WriteExpired(v)
  PROVE  VerdictInv'
<1>1. /\ UNCHANGED <<up, verdict, age, good, hour, cronDue>>
      /\ \/ Valid' = Valid /\ calm' = calm /\ since' = since
         \/ calm' = FALSE /\ since' = Offline
  BY JudgedAnew DEF WriteExpired, panel, clock
<1>2. check \in [Checks -> CheckRec] /\ check[v].at \in {"expiring", "orphan"}
  BY DEF TypeOK, CheckRec, Ats, WriteExpired
<1>3. /\ \A w \in Checks : w # v => check'[w] = check[w]
      /\ \/ check[v].at = "orphan" /\ check'[v].at = "idle"
         \/ /\ check[v].at = "expiring" /\ check'[v].at = "answering"
            /\ check'[v].valid = check[v].valid
  BY <1>2 DEF WriteExpired, NoCheck, CheckRec
<1>4. GoodAnswers'
  BY <1>1, <1>3 DEF VerdictInv, GoodAnswers
<1>5. AnswersTrue' /\ MidnightFresh' /\ RecordsFresh'
  <2>1. CASE Valid' = Valid /\ calm' = calm /\ since' = since
    <3>1. AnswersTrue' /\ RecordsFresh'
      BY <1>1, <1>3, <2>1 DEF VerdictInv, AnswersTrue, RecordsFresh
    <3>2. MidnightFresh'
      BY <1>1, <1>3, <2>1 DEF VerdictInv, MidnightFresh, Fresh, Reading
    <3> QED BY <3>1, <3>2
  <2>2. CASE calm' = FALSE /\ since' = Offline
    BY <2>2, Lengths DEF AnswersTrue, MidnightFresh, RecordsFresh
  <2> QED BY <1>1, <2>1, <2>2
<1> QED BY <1>4, <1>5 DEF VerdictInv

\* Time: every verification has ended, so that midnight has left fresh records.
LEMMA TickVerdicts ==
  ASSUME TypeOK, VerdictInv, Tick
  PROVE  VerdictInv'
<1> USE Lengths
<1>1. /\ \A v \in Checks : check[v].at = "idle" /\ check'[v].at = "idle"
      /\ ~cronDue /\ cronDue' = (hour' = 0) /\ up' = up
  BY DEF Tick, NoCheck
<1>2. AnswersTrue' /\ GoodAnswers' /\ MidnightFresh'
  BY <1>1 DEF AnswersTrue, GoodAnswers, MidnightFresh
<1>3. RecordsFresh'
  <2>1. /\ age \in Nat /\ good \in Nat /\ since \in Nat /\ since <= Offline /\ RecordsFresh
        /\ verdict \in {"none", "valid", "invalid"}
    BY DEF TypeOK, VerdictInv
  <2>2. CASE Valid' # Valid
    <3>1. since' = Offline
      BY <2>2 DEF Tick
    <3> QED BY <3>1 DEF RecordsFresh
  <2>3. CASE Valid' = Valid /\ hour = 0 /\ calm /\ up
    <3>1. Fresh /\ since' = 1
      BY <1>1, <2>3 DEF VerdictInv, MidnightFresh, Reading, Tick
    <3>2. Valid => verdict' # "invalid" /\ good' = 1
      BY <2>1, <3>1 DEF Fresh, Tick, Later
    <3>3. ~Valid => verdict' = "invalid" /\ age' = 1
      BY <3>1 DEF Fresh, Tick
    <3> QED BY <2>3, <3>1, <3>2, <3>3 DEF RecordsFresh
  <2>4. CASE Valid' = Valid /\ ~(hour = 0 /\ calm /\ up)
    <3>1. since' = Later(since, Offline) /\ good' = Later(good, GoodTTL)
      BY <2>4 DEF Tick
    <3>2. CASE Valid
      <4>1. verdict # "invalid" => verdict' # "invalid"
        BY DEF Tick
      <4> QED BY <2>1, <2>4, <3>1, <3>2, <4>1 DEF RecordsFresh, Later
    <3>3. CASE ~Valid
      <4>1. verdict = "invalid" /\ age < CacheTTL => verdict' = "invalid" /\ age' = age + 1
        BY DEF Tick
      <4> QED BY <2>1, <2>4, <3>1, <3>3, <4>1 DEF RecordsFresh, Later
    <3> QED BY <3>2, <3>3
  <2> QED BY <2>2, <2>3, <2>4
<1> QED BY <1>2, <1>3 DEF VerdictInv

LEMMA StepVerdicts == TypeOK /\ VerdictInv /\ [Next]_vars => VerdictInv'
<1> SUFFICES ASSUME TypeOK, VerdictInv, [Next]_vars PROVE VerdictInv'
  OBVIOUS
<1>1. CASE UNCHANGED vars
  BY <1>1, SameRow, JudgeKeeps DEF vars, judged
<1>2. ASSUME NEW v \in Checks,
             \/ Refresh(v) \/ ScheduledVerification(v) \/ Unreachable(v) \/ Verify(v)
             \/ WriteExpired(v) \/ Answer(v) \/ KeepGood(v) \/ ApiRestart(v)
      PROVE  VerdictInv'
  BY <1>2, CheckVerdicts, ExpiryVerdicts
<1>3. ASSUME NEW c \in Calls, ActivateRead(c) \/ ReactivateRead(c) \/ ExtendRead(c)
      PROVE  VerdictInv'
  <2>1. UNCHANGED <<row, up, panel, clock, check, judged>>
    BY <1>3 DEF ActivateRead, ReactivateRead, ExtendRead, Read
  <2> QED BY <2>1, SameRow, JudgeKeeps DEF judged
<1>4. ASSUME NEW c \in Calls, ActivateWrite(c) \/ ReactivateWrite(c) \/ ExtendWrite(c)
      PROVE  VerdictInv'
  <2>1. UNCHANGED <<up, panel, clock, check>> /\ Judge
    BY <1>4 DEF ActivateWrite, ReactivateWrite, ExtendWrite
  <2> QED BY <2>1, JudgedAnew, JudgeKeeps
<1>5. CASE Suspend \/ Revoke
  <2>1. UNCHANGED <<up, panel, clock, check>> /\ Judge
    BY <1>5 DEF Suspend, Revoke
  <2> QED BY <2>1, JudgedAnew, JudgeKeeps
<1>6. CASE Outage
  <2>1. UNCHANGED <<row, panel, clock, check, since>> /\ calm' = FALSE
    BY <1>6 DEF Outage
  <2>2. Valid' = Valid
    BY <2>1, SameRow
  <2> QED
    BY <2>1, <2>2 DEF VerdictInv, AnswersTrue, GoodAnswers, MidnightFresh, RecordsFresh, panel
<1>7. CASE Tick
  BY <1>7, TickVerdicts
<1> QED BY <1>1, <1>2, <1>3, <1>4, <1>5, <1>6, <1>7 DEF Next

\* Whatever verifications are lost, overlap or are cut off: a licence that has stood
\* since a midnight with the server in reach opens the panel until the offline grace
\* counted from that midnight is over.
THEOREM PaidPanelRunsHolds == Spec => []PaidPanelRuns
<1>1. TypeOK /\ VerdictInv => PaidPanelRuns
  BY Lengths DEF VerdictInv, RecordsFresh, PaidPanelRuns, Allowed, TypeOK
<1> QED BY <1>1, InitTypes, StepTypes, InitVerdicts, StepVerdicts, PTL DEF Spec

\* A licence the server has refused since a midnight with the server in reach closes
\* the panel for as long as the verdict is cached.
THEOREM RefusedPanelStopsHolds == Spec => []RefusedPanelStops
<1>1. TypeOK /\ VerdictInv => RefusedPanelStops
  BY Lengths DEF VerdictInv, RecordsFresh, RefusedPanelStops, Allowed, TypeOK
<1> QED BY <1>1, InitTypes, StepTypes, InitVerdicts, StepVerdicts, PTL DEF Spec
=============================================================================
