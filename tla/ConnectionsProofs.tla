-------------------------- MODULE ConnectionsProofs --------------------------
(***************************************************************************)
(* Proofs about Connections, for every number of requests, devices,        *)
(* streams and rows, every connection limit, and any mix of live streams   *)
(* and films.                                                              *)
(***************************************************************************)
EXTENDS Connections, FiniteSetTheorems, TLAPS

LEMMA AnyFacts == AnyStream \in Streams /\ AnyDevice \in Devices
BY ConnectionsAssumption DEF AnyStream, AnyDevice

(* Type invariant: rows and requests keep their shape.                     *)
THEOREM TypeCorrect == Spec => []TypeOK
<1> USE ConnectionsAssumption, AnyFacts
<1>1. Init => TypeOK
  <2> SUFFICES ASSUME Init PROVE TypeOK
    OBVIOUS
  <2>1. /\ rstate \in [Rows -> {"open", "closed", "none"}]
        /\ stream \in [Rows -> Streams] /\ device \in [Rows -> Devices]
        /\ fresh \in SUBSET Rows /\ uncounted \in SUBSET Rows
    BY DEF Init
  <2>2. /\ pc \in [Requests -> Pcs] /\ dev \in [Requests -> Devices]
        /\ str \in [Requests -> Streams] /\ row \in [Requests -> Rows \cup {NoRow}]
        /\ seen \in [Requests -> Agents \cup {NoAgent}]
    BY DEF Init, Pcs
  <2> QED BY <2>1, <2>2 DEF Init, TypeOK
<1>2. TypeOK /\ [Next]_vars => TypeOK'
  <2> SUFFICES ASSUME TypeOK, [Next]_vars
               PROVE  TypeOK'
    OBVIOUS
  <2> USE DEF TypeOK, Pcs, Opening, Open, Agents, rowVars, lineVars, ownVars, lockVars
  <2>1. ASSUME NEW q \in Requests, Begin(q) PROVE TypeOK'
    BY <2>1 DEF Begin, Goto
  <2>2. ASSUME NEW q \in Requests, CloseSuperseded(q) PROVE TypeOK'
    BY <2>2 DEF CloseSuperseded, Close, End, Goto
  <2>3. ASSUME NEW q \in Requests, ReadUser(q) PROVE TypeOK'
    BY <2>3 DEF ReadUser, Leave, Goto
  <2>4. ASSUME NEW q \in Requests, CountActive(q) PROVE TypeOK'
    BY <2>4 DEF CountActive, Leave, Goto
  <2>5. ASSUME NEW q \in Requests, FindOpen(q) PROVE TypeOK'
    BY <2>5 DEF FindOpen, OpenOn, Goto
  <2>6. ASSUME NEW q \in Requests, Touch(q) PROVE TypeOK'
    BY <2>6 DEF Touch, Goto
  <2>7. ASSUME NEW q \in Requests, Create(q) PROVE TypeOK'
    BY <2>7 DEF Create, OpenOn, FreeRow, Goto
  <2>8. ASSUME NEW q \in Requests, EndPlayback(q) PROVE TypeOK'
    BY <2>8 DEF EndPlayback, Refresh, OpenOn, Close, End, Leave, Goto
  <2>9. ASSUME NEW q \in Requests, EndDeleted(q) PROVE TypeOK'
    BY <2>9 DEF EndDeleted, Goto
  <2>10. ASSUME NEW q \in Requests, Segment(q) PROVE TypeOK'
    BY <2>10 DEF Segment, SegmentAllowed, Refresh
  <2>11. ASSUME NEW q \in Requests, SubRequest(q) PROVE TypeOK'
    BY <2>11 DEF SubRequest, SubRequestAllowed, Refresh, OpenOn
  <2>12. ASSUME NEW q \in Requests, Heartbeat(q) PROVE TypeOK'
    BY <2>12 DEF Heartbeat, Refresh, Refreshes, OpenOn
  <2>13. ASSUME NEW r \in Rows, GoStale(r) PROVE TypeOK'
    BY <2>13 DEF GoStale, Close, End
  <2>14. ASSUME NEW r \in Rows, KickConnection(r) PROVE TypeOK'
    BY <2>14 DEF KickConnection, Close, End
  <2>15. CASE CloseStaleConnections
    BY <2>15 DEF CloseStaleConnections, Close, End
  <2>16. CASE KickAll
    BY <2>16 DEF KickAll, Close, End
  <2>17. CASE BanCloses \/ CheckCloses
    <3>1. CASE BanCloses
      BY <3>1 DEF BanCloses, Close, End
    <3>2. CASE CheckCloses /\ Close(Rows)
      BY <3>2 DEF CheckCloses, Close, End
    <3>3. CASE CheckCloses /\ UNCHANGED rowVars
      BY <3>3 DEF CheckCloses
    <3> QED
      BY <2>17, <3>1, <3>2, <3>3 DEF CheckCloses
  <2>18. CASE \/ BanWrites \/ Suspend \/ Activate \/ RunOut \/ Extend \/ ExtendKeeping
             \/ CheckReads \/ CheckWrites \/ CheckAborts
    BY <2>18 DEF BanWrites, Suspend, Activate, RunOut, Extend, ExtendKeeping,
       CheckReads, CheckWrites, CheckAborts
  <2>19. CASE UNCHANGED vars
    BY <2>19 DEF vars, rowVars, lineVars, ownVars, lockVars
  <2>20. ASSUME NEW q \in Requests, WriteLock(q) PROVE TypeOK'
    BY <2>20 DEF WriteLock, Agents, Goto
  <2> QED
    BY <2>1, <2>2, <2>3, <2>4, <2>5, <2>6, <2>7, <2>8, <2>9, <2>10,
       <2>11, <2>12, <2>13, <2>14, <2>15, <2>16, <2>17, <2>18, <2>19, <2>20
       DEF Next, OpenStep, LineStep
<1> QED
  BY <1>1, <1>2, PTL DEF Spec
-----------------------------------------------------------------------------
(***************************************************************************)
(* The subscription.  Inductive: while the daily check has the line on its *)
(* list, it is not EXPIRED yet, and it is overdue or an extension came     *)
(* after the list was read.                                                *)
(***************************************************************************)
LapseInv ==
  /\ ExpiredIsOver
  /\ checking = "listed" => status # "EXPIRED" /\ (~overdue => lapsed)

(* A line with time left is EXPIRED only when an extension came between    *)
(* the check's list and its write, or left the status as it was.           *)
THEOREM ExpiredIsOverHolds == Spec => []ExpiredIsOver
<1>1. Init => LapseInv
  BY DEF Init, LapseInv, ExpiredIsOver
<1>2. LapseInv /\ [Next]_vars => LapseInv'
  <2> SUFFICES ASSUME LapseInv, [Next]_vars
               PROVE  LapseInv'
    OBVIOUS
  <2> USE DEF LapseInv, ExpiredIsOver
  <2>1. ASSUME NEW q \in Requests,
               \/ Begin(q) \/ OpenStep(q) \/ EndPlayback(q)
               \/ Segment(q) \/ SubRequest(q) \/ Heartbeat(q)
        PROVE  LapseInv'
    <3>1. UNCHANGED <<status, overdue, checking, lapsed>>
      BY <2>1 DEF Begin, OpenStep, CloseSuperseded, ReadUser, CountActive, WriteLock, FindOpen, Touch, Create,
         EndPlayback, Segment, SubRequest, Heartbeat, lineVars
    <3> QED
      BY <3>1 DEF lineVars
  <2>2. ASSUME NEW q \in Requests, EndDeleted(q) PROVE LapseInv'
    BY <2>2 DEF EndDeleted
  <2>3. CASE CloseStaleConnections \/ KickAll \/ \E r \in Rows : GoStale(r) \/ KickConnection(r)
    <3>1. UNCHANGED lineVars
      BY <2>3 DEF CloseStaleConnections, KickAll, GoStale, KickConnection, lineVars
    <3> QED
      BY <3>1 DEF lineVars
  <2>4. CASE BanCloses \/ BanWrites \/ Suspend \/ Activate
    BY <2>4 DEF BanCloses, BanWrites, Suspend, Activate
  <2>5. CASE RunOut \/ Extend \/ ExtendKeeping
    BY <2>5 DEF RunOut, Extend, ExtendKeeping
  <2>6. CASE CheckReads \/ CheckWrites \/ CheckAborts \/ CheckCloses
    <3>1. CASE CheckReads
      BY <3>1 DEF CheckReads
    <3>2. CASE CheckWrites
      BY <3>2 DEF CheckWrites
    <3>3. CASE CheckAborts
      BY <3>3 DEF CheckAborts
    <3>4. CASE CheckCloses
      BY <3>4 DEF CheckCloses
    <3> QED
      BY <2>6, <3>1, <3>2, <3>3, <3>4
  <2>7. CASE UNCHANGED vars
    BY <2>7 DEF vars
  <2> QED
    BY <2>1, <2>2, <2>3, <2>4, <2>5, <2>6, <2>7 DEF Next, LineStep
<1> QED
  BY <1>1, <1>2, PTL DEF Spec, LapseInv
-----------------------------------------------------------------------------
(* The partial unique index, with closing as the only way out of it: the   *)
(* line never has two open rows on a stream.                               *)
THEOREM OneOpenRowPerStreamHolds == Spec => []OneOpenRowPerStream
<1> USE ConnectionsAssumption
<1>1. Init => OneOpenRowPerStream
  BY DEF Init, OneOpenRowPerStream, Open
<1>2. TypeOK /\ OneOpenRowPerStream /\ [Next]_vars => OneOpenRowPerStream'
  <2> SUFFICES ASSUME TypeOK, OneOpenRowPerStream, [Next]_vars
               PROVE  OneOpenRowPerStream'
    OBVIOUS
  <2> USE DEF TypeOK, OneOpenRowPerStream, Open, rowVars, lineVars, ownVars, lockVars
  <2>1. ASSUME NEW q \in Requests, Begin(q) PROVE OneOpenRowPerStream'
    BY <2>1 DEF Begin
  <2>2. ASSUME NEW q \in Requests, CloseSuperseded(q) PROVE OneOpenRowPerStream'
    BY <2>2 DEF CloseSuperseded, Close, End
  <2>3. ASSUME NEW q \in Requests, ReadUser(q) PROVE OneOpenRowPerStream'
    BY <2>3 DEF ReadUser, Leave
  <2>4. ASSUME NEW q \in Requests, CountActive(q) PROVE OneOpenRowPerStream'
    BY <2>4 DEF CountActive, Leave
  <2>5. ASSUME NEW q \in Requests, FindOpen(q) PROVE OneOpenRowPerStream'
    BY <2>5 DEF FindOpen, OpenOn
  <2>6. ASSUME NEW q \in Requests, Touch(q) PROVE OneOpenRowPerStream'
    BY <2>6 DEF Touch
  <2>7. ASSUME NEW q \in Requests, Create(q) PROVE OneOpenRowPerStream'
    BY <2>7 DEF Create, OpenOn, FreeRow
  <2>8. ASSUME NEW q \in Requests, EndPlayback(q) PROVE OneOpenRowPerStream'
    BY <2>8 DEF EndPlayback, Refresh, Close, End, Leave
  <2>9. ASSUME NEW q \in Requests, EndDeleted(q) PROVE OneOpenRowPerStream'
    BY <2>9 DEF EndDeleted
  <2>10. ASSUME NEW q \in Requests, Segment(q) PROVE OneOpenRowPerStream'
    BY <2>10 DEF Segment, SegmentAllowed, Refresh
  <2>11. ASSUME NEW q \in Requests, SubRequest(q) PROVE OneOpenRowPerStream'
    BY <2>11 DEF SubRequest, SubRequestAllowed, Refresh
  <2>12. ASSUME NEW q \in Requests, Heartbeat(q) PROVE OneOpenRowPerStream'
    BY <2>12 DEF Heartbeat, Refresh
  <2>13. ASSUME NEW r \in Rows, GoStale(r) PROVE OneOpenRowPerStream'
    BY <2>13 DEF GoStale, Close, End
  <2>14. ASSUME NEW r \in Rows, KickConnection(r) PROVE OneOpenRowPerStream'
    BY <2>14 DEF KickConnection, Close, End
  <2>15. CASE CloseStaleConnections
    BY <2>15 DEF CloseStaleConnections, Close, End
  <2>16. CASE KickAll
    BY <2>16 DEF KickAll, Close, End
  <2>17. CASE BanCloses \/ CheckCloses
    BY <2>17 DEF BanCloses, CheckCloses, Close, End
  <2>18. CASE \/ BanWrites \/ Suspend \/ Activate \/ RunOut \/ Extend \/ ExtendKeeping
             \/ CheckReads \/ CheckWrites \/ CheckAborts
    BY <2>18 DEF BanWrites, Suspend, Activate, RunOut, Extend, ExtendKeeping,
       CheckReads, CheckWrites, CheckAborts
  <2>19. CASE UNCHANGED vars
    BY <2>19 DEF vars, rowVars, lineVars, ownVars, lockVars
  <2>20. ASSUME NEW q \in Requests, WriteLock(q) PROVE OneOpenRowPerStream'
    BY <2>20 DEF WriteLock, Agents, Goto
  <2> QED
    BY <2>1, <2>2, <2>3, <2>4, <2>5, <2>6, <2>7, <2>8, <2>9, <2>10,
       <2>11, <2>12, <2>13, <2>14, <2>15, <2>16, <2>17, <2>18, <2>19, <2>20
       DEF Next, OpenStep, LineStep
<1> QED
  BY <1>1, <1>2, TypeCorrect, PTL DEF Spec
-----------------------------------------------------------------------------
(***************************************************************************)
(* The row a request holds.  A request only takes a new stream while it    *)
(* holds no row, and a row slot is reused only when nobody holds it.       *)
(***************************************************************************)
HoldInv ==
  /\ \A q \in Requests : pc[q] = "idle" => row[q] = NoRow
  /\ PlaysItsStream

(* A request goes on with a row of the stream it opened.                   *)
THEOREM PlaysItsStreamHolds == Spec => []PlaysItsStream
<1> USE ConnectionsAssumption
<1>1. Init => HoldInv
  BY DEF Init, HoldInv, PlaysItsStream, Open
<1>2. TypeOK /\ HoldInv /\ [Next]_vars => HoldInv'
  <2> SUFFICES ASSUME TypeOK, HoldInv, [Next]_vars
               PROVE  HoldInv'
    OBVIOUS
  <2> USE DEF TypeOK, HoldInv, PlaysItsStream, Pcs, Opening, Open, rowVars, lineVars, ownVars, lockVars
  <2>1. ASSUME NEW q \in Requests, Begin(q) PROVE HoldInv'
    BY <2>1 DEF Begin, Goto
  <2>2. ASSUME NEW q \in Requests, CloseSuperseded(q) PROVE HoldInv'
    BY <2>2 DEF CloseSuperseded, Close, End, Goto
  <2>3. ASSUME NEW q \in Requests, ReadUser(q) PROVE HoldInv'
    BY <2>3 DEF ReadUser, Leave, Goto
  <2>4. ASSUME NEW q \in Requests, CountActive(q) PROVE HoldInv'
    BY <2>4 DEF CountActive, Leave, Goto
  <2>5. ASSUME NEW q \in Requests, FindOpen(q) PROVE HoldInv'
    BY <2>5 DEF FindOpen, OpenOn, Goto
  <2>6. ASSUME NEW q \in Requests, Touch(q) PROVE HoldInv'
    BY <2>6 DEF Touch, Goto
  <2>7. ASSUME NEW q \in Requests, Create(q) PROVE HoldInv'
    BY <2>7 DEF Create, OpenOn, FreeRow, Goto
  <2>8. ASSUME NEW q \in Requests, EndPlayback(q) PROVE HoldInv'
    BY <2>8 DEF EndPlayback, Refresh, Close, End, Leave, Goto
  <2>9. ASSUME NEW q \in Requests, EndDeleted(q) PROVE HoldInv'
    BY <2>9 DEF EndDeleted, Goto
  <2>10. ASSUME NEW q \in Requests, Segment(q) PROVE HoldInv'
    BY <2>10 DEF Segment, SegmentAllowed, Refresh
  <2>11. ASSUME NEW q \in Requests, SubRequest(q) PROVE HoldInv'
    BY <2>11 DEF SubRequest, SubRequestAllowed, Refresh
  <2>12. ASSUME NEW q \in Requests, Heartbeat(q) PROVE HoldInv'
    BY <2>12 DEF Heartbeat, Refresh
  <2>13. ASSUME NEW r \in Rows, GoStale(r) PROVE HoldInv'
    BY <2>13 DEF GoStale, Close, End
  <2>14. ASSUME NEW r \in Rows, KickConnection(r) PROVE HoldInv'
    BY <2>14 DEF KickConnection, Close, End
  <2>15. CASE CloseStaleConnections
    BY <2>15 DEF CloseStaleConnections, Close, End
  <2>16. CASE KickAll
    BY <2>16 DEF KickAll, Close, End
  <2>17. CASE BanCloses \/ CheckCloses
    BY <2>17 DEF BanCloses, CheckCloses, Close, End
  <2>18. CASE \/ BanWrites \/ Suspend \/ Activate \/ RunOut \/ Extend \/ ExtendKeeping
             \/ CheckReads \/ CheckWrites \/ CheckAborts
    BY <2>18 DEF BanWrites, Suspend, Activate, RunOut, Extend, ExtendKeeping,
       CheckReads, CheckWrites, CheckAborts
  <2>19. CASE UNCHANGED vars
    BY <2>19 DEF vars, rowVars, lineVars, ownVars, lockVars
  <2>20. ASSUME NEW q \in Requests, WriteLock(q) PROVE HoldInv'
    BY <2>20 DEF WriteLock, Agents, Goto
  <2> QED
    BY <2>1, <2>2, <2>3, <2>4, <2>5, <2>6, <2>7, <2>8, <2>9, <2>10,
       <2>11, <2>12, <2>13, <2>14, <2>15, <2>16, <2>17, <2>18, <2>19, <2>20
       DEF Next, OpenStep, LineStep
<1> QED
  BY <1>1, <1>2, TypeCorrect, PTL DEF Spec, HoldInv

(* A closed row somebody still holds is never opened again.                *)
THEOREM ClosedStaysClosedHolds == Spec => ClosedStaysClosed
<1> DEFINE Stays == \A q \in Requests :
                      row[q] \in Rows /\ row'[q] = row[q] /\ row[q] \notin Open
                        => row[q] \notin Open'
<1>1. TypeOK /\ [Next]_vars => [Stays]_vars
  <2> SUFFICES ASSUME TypeOK, [Next]_vars
               PROVE  Stays
    OBVIOUS
  <2> USE DEF TypeOK, Open, rowVars, lineVars, ownVars, lockVars
  <2>1. ASSUME NEW q \in Requests, Begin(q) PROVE Stays
    BY <2>1 DEF Begin
  <2>2. ASSUME NEW q \in Requests, CloseSuperseded(q) PROVE Stays
    BY <2>2 DEF CloseSuperseded, Close, End
  <2>3. ASSUME NEW q \in Requests, ReadUser(q) PROVE Stays
    BY <2>3 DEF ReadUser, Leave
  <2>4. ASSUME NEW q \in Requests, CountActive(q) PROVE Stays
    BY <2>4 DEF CountActive, Leave
  <2>5. ASSUME NEW q \in Requests, FindOpen(q) PROVE Stays
    BY <2>5 DEF FindOpen, OpenOn
  <2>6. ASSUME NEW q \in Requests, Touch(q) PROVE Stays
    BY <2>6 DEF Touch
  <2>7. ASSUME NEW q \in Requests, Create(q) PROVE Stays
    BY <2>7 DEF Create, OpenOn, FreeRow
  <2>8. ASSUME NEW q \in Requests, EndPlayback(q) PROVE Stays
    BY <2>8 DEF EndPlayback, Refresh, Close, End, Leave
  <2>9. ASSUME NEW q \in Requests, EndDeleted(q) PROVE Stays
    BY <2>9 DEF EndDeleted
  <2>10. ASSUME NEW q \in Requests, Segment(q) PROVE Stays
    BY <2>10 DEF Segment, SegmentAllowed, Refresh
  <2>11. ASSUME NEW q \in Requests, SubRequest(q) PROVE Stays
    BY <2>11 DEF SubRequest, SubRequestAllowed, Refresh
  <2>12. ASSUME NEW q \in Requests, Heartbeat(q) PROVE Stays
    BY <2>12 DEF Heartbeat, Refresh
  <2>13. ASSUME NEW r \in Rows, GoStale(r) PROVE Stays
    BY <2>13 DEF GoStale, Close, End
  <2>14. ASSUME NEW r \in Rows, KickConnection(r) PROVE Stays
    BY <2>14 DEF KickConnection, Close, End
  <2>15. CASE CloseStaleConnections
    BY <2>15 DEF CloseStaleConnections, Close, End
  <2>16. CASE KickAll
    BY <2>16 DEF KickAll, Close, End
  <2>17. CASE BanCloses \/ CheckCloses
    BY <2>17 DEF BanCloses, CheckCloses, Close, End
  <2>18. CASE \/ BanWrites \/ Suspend \/ Activate \/ RunOut \/ Extend \/ ExtendKeeping
             \/ CheckReads \/ CheckWrites \/ CheckAborts
    BY <2>18 DEF BanWrites, Suspend, Activate, RunOut, Extend, ExtendKeeping,
       CheckReads, CheckWrites, CheckAborts
  <2>19. CASE UNCHANGED vars
    BY <2>19 DEF vars, rowVars, lineVars, ownVars, lockVars
  <2>20. ASSUME NEW q \in Requests, WriteLock(q) PROVE Stays
    BY <2>20 DEF WriteLock, Agents, Goto
  <2> QED
    BY <2>1, <2>2, <2>3, <2>4, <2>5, <2>6, <2>7, <2>8, <2>9, <2>10,
       <2>11, <2>12, <2>13, <2>14, <2>15, <2>16, <2>17, <2>18, <2>19, <2>20
       DEF Next, OpenStep, LineStep
<1> QED
  BY <1>1, TypeCorrect, PTL DEF Spec, ClosedStaysClosed
-----------------------------------------------------------------------------
(***************************************************************************)
(* Openings that overlap.  MaxOpening of them at most are under way, so    *)
(* what each of them may still add is bounded, and the bounds below hold   *)
(* for every degree of overlap; MaxOpening = 1 is the case of openings     *)
(* that wait for each other.                                               *)
(***************************************************************************)
OpeningSet == {q \in Requests : pc[q] \in Opening}

SlotsInv ==
  /\ IsFiniteSet(OpeningSet) /\ Cardinality(OpeningSet) <= MaxOpening
  /\ IsFiniteSet(Open)

\* The image of a finite set is no larger than the set.
LEMMA ImageBound ==
  ASSUME NEW S, IsFiniteSet(S), NEW f
  PROVE  /\ IsFiniteSet({f[x] : x \in S})
         /\ Cardinality({f[x] : x \in S}) <= Cardinality(S)
<1> DEFINE T == {f[x] : x \in S}
           g == [x \in S |-> f[x]]
<1>1. g \in Surjection(S, T)
  BY DEF Surjection
<1> QED
  BY <1>1, FS_Surjection

\* A finite set with room for n bounds its subsets.
LEMMA SubsetBound ==
  ASSUME NEW T, IsFiniteSet(T), NEW S, S \subseteq T, NEW n \in Nat, Cardinality(T) <= n
  PROVE  IsFiniteSet(S) /\ Cardinality(S) <= n
<1>1. IsFiniteSet(S) /\ Cardinality(S) <= Cardinality(T)
  BY FS_Subset
<1>2. Cardinality(S) \in Nat /\ Cardinality(T) \in Nat
  BY <1>1, FS_CardinalityType
<1> QED
  BY <1>1, <1>2

(* A step outside the openings: nothing opens, no row that was counted     *)
(* comes on air again, and an opening goes on as it was or is over.        *)
Quiet ==
  /\ \A q \in Requests : pc'[q] \in Opening =>
       pc'[q] = pc[q] /\ dev'[q] = dev[q] /\ str'[q] = str[q] /\ seen'[q] = seen[q]
  /\ \A q \in Requests : seen'[q] \in {seen[q], NoAgent}
  /\ Open' \subseteq Open
  /\ \A r \in Open' : stream'[r] = stream[r] /\ device'[r] = device[r]
  /\ (Active \ uncounted)' \subseteq Active \ uncounted
  /\ lock' = lock /\ entered' = entered

LEMMA QuietSteps ==
  ASSUME TypeOK, [Next]_vars
  PROVE  \/ \E q \in Requests : Begin(q) \/ OpenStep(q)
         \/ Quiet
<1> USE ConnectionsAssumption
    DEF TypeOK, Pcs, Opening, Open, Active, Quiet, rowVars, lineVars, ownVars, lockVars
<1>1. ASSUME NEW q \in Requests, EndPlayback(q) PROVE Quiet
  BY <1>1 DEF EndPlayback, Refresh, Close, End, Leave, Goto
<1>2. ASSUME NEW q \in Requests, EndDeleted(q) PROVE Quiet
  BY <1>2 DEF EndDeleted
<1>3. ASSUME NEW q \in Requests, Segment(q) PROVE Quiet
  BY <1>3 DEF Segment, Refresh
<1>4. ASSUME NEW q \in Requests, SubRequest(q) PROVE Quiet
  BY <1>4 DEF SubRequest, Refresh
<1>5. ASSUME NEW q \in Requests, Heartbeat(q) PROVE Quiet
  BY <1>5 DEF Heartbeat, Refresh
<1>6. ASSUME NEW r \in Rows, GoStale(r) PROVE Quiet
  BY <1>6 DEF GoStale
<1>7. ASSUME NEW r \in Rows, KickConnection(r) PROVE Quiet
  BY <1>7 DEF KickConnection, Close, End
<1>8. CASE CloseStaleConnections \/ KickAll \/ BanCloses \/ CheckCloses
  BY <1>8 DEF CloseStaleConnections, KickAll, BanCloses, CheckCloses, Close, End
<1>9. CASE \/ BanWrites \/ Suspend \/ Activate \/ RunOut \/ Extend \/ ExtendKeeping
           \/ CheckReads \/ CheckWrites \/ CheckAborts
  BY <1>9 DEF BanWrites, Suspend, Activate, RunOut, Extend, ExtendKeeping,
     CheckReads, CheckWrites, CheckAborts
<1>10. CASE UNCHANGED vars
  BY <1>10 DEF vars
<1> QED
  BY <1>1, <1>2, <1>3, <1>4, <1>5, <1>6, <1>7, <1>8, <1>9, <1>10 DEF Next, LineStep

(* What the steps of an opening do to who is opening and what is open.     *)
LEMMA OpenStepFacts ==
  ASSUME TypeOK, NEW q \in Requests, OpenStep(q)
  PROVE  /\ pc[q] \in Opening
         /\ \A p \in Requests \ {q} :
              pc'[p] = pc[p] /\ dev'[p] = dev[p] /\ str'[p] = str[p] /\ seen'[p] = seen[p]
         /\ pc'[q] \in Opening => dev'[q] = dev[q] /\ str'[q] = str[q]
         /\ Open' \subseteq Open \/ \E r \in Rows : Open' = Open \cup {r}
<1> USE ConnectionsAssumption
    DEF TypeOK, Pcs, Opening, Open, Goto, rowVars, lineVars, ownVars, lockVars
<1>1. CASE CloseSuperseded(q)
  BY <1>1 DEF CloseSuperseded, Close, End
<1>2. CASE ReadUser(q)
  BY <1>2 DEF ReadUser, Leave
<1>3. CASE CountActive(q)
  BY <1>3 DEF CountActive, Leave
<1>4. CASE WriteLock(q)
  BY <1>4 DEF WriteLock
<1>5. CASE FindOpen(q)
  BY <1>5 DEF FindOpen
<1>6. CASE Touch(q)
  BY <1>6 DEF Touch
<1>7. CASE Create(q)
  <2>1. pc[q] = "create" /\ dev' = dev /\ str' = str /\ seen' = seen
        /\ \A p \in Requests \ {q} : pc'[p] = pc[p]
    BY <1>7 DEF Create
  <2>2. CASE UNCHANGED rowVars
    BY <2>1, <2>2
  <2>3. CASE \E r \in Rows : rstate' = [rstate EXCEPT ![r] = "open"]
    <3>1. PICK r \in Rows : rstate' = [rstate EXCEPT ![r] = "open"]
      BY <2>3
    <3>2. Open' = Open \cup {r}
      BY <3>1
    <3> QED BY <2>1, <3>2
  <2> QED BY <1>7, <2>2, <2>3 DEF Create
<1> QED BY <1>1, <1>2, <1>3, <1>4, <1>5, <1>6, <1>7 DEF OpenStep

LEMMA SlotsHold == Spec => []SlotsInv
<1> USE ConnectionsAssumption
<1>1. Init => SlotsInv
  <2>1. Init => OpeningSet = {} /\ Open = {}
    BY DEF Init, OpeningSet, Open, Opening
  <2> QED BY <2>1, FS_EmptySet DEF SlotsInv
<1>2. TypeOK /\ SlotsInv /\ [Next]_vars => SlotsInv'
  <2> SUFFICES ASSUME TypeOK, SlotsInv, [Next]_vars PROVE SlotsInv'
    OBVIOUS
  <2>1. ASSUME OpeningSet' \subseteq OpeningSet
        PROVE  IsFiniteSet(OpeningSet') /\ Cardinality(OpeningSet') <= MaxOpening
    BY <2>1, SubsetBound DEF SlotsInv
  <2>2. ASSUME Open' \subseteq Open \/ \E r \in Rows : Open' = Open \cup {r}
        PROVE  IsFiniteSet(Open')
    BY <2>2, FS_Subset, FS_AddElement DEF SlotsInv
  <2>3. ASSUME NEW q \in Requests, Begin(q) PROVE SlotsInv'
    <3>1. /\ OpeningSet' = OpeningSet \cup {q}
          /\ Cardinality(OpeningSet) < MaxOpening
          /\ Open' = Open
      BY <2>3 DEF Begin, Goto, OpeningSet, Opening, TypeOK, Open, rowVars
    <3>2. /\ IsFiniteSet(OpeningSet')
          /\ Cardinality(OpeningSet') <= Cardinality(OpeningSet) + 1
          /\ Cardinality(OpeningSet) \in Nat
      <4>1. IsFiniteSet(OpeningSet) BY DEF SlotsInv
      <4>2. Cardinality(OpeningSet) \in Nat BY <4>1, FS_CardinalityType
      <4>3. /\ IsFiniteSet(OpeningSet \cup {q})
            /\ Cardinality(OpeningSet \cup {q})
                 = IF q \in OpeningSet THEN Cardinality(OpeningSet) ELSE Cardinality(OpeningSet) + 1
        BY <4>1, FS_AddElement
      <4> QED BY <3>1, <4>2, <4>3
    <3>3. Cardinality(OpeningSet') \in Nat
      BY <3>2, FS_CardinalityType
    <3> QED BY <3>1, <3>2, <3>3 DEF SlotsInv
  <2>4. ASSUME NEW q \in Requests, OpenStep(q) PROVE SlotsInv'
    <3>1. OpeningSet' \subseteq OpeningSet
      BY <2>4, OpenStepFacts DEF OpeningSet
    <3>2. Open' \subseteq Open \/ \E r \in Rows : Open' = Open \cup {r}
      BY <2>4, OpenStepFacts
    <3> QED BY <2>1, <2>2, <3>1, <3>2 DEF SlotsInv
  <2>5. CASE Quiet
    BY <2>1, <2>2, <2>5 DEF Quiet, OpeningSet, SlotsInv
  <2> QED BY <2>3, <2>4, <2>5, QuietSteps
<1> QED BY <1>1, <1>2, TypeCorrect, PTL DEF Spec
-----------------------------------------------------------------------------
(***************************************************************************)
(* The limit.  What is taken: the streams of the rows somebody counted,    *)
(* and the streams of the openings the count has admitted.  The count      *)
(* leaves room for one; the openings it lets through after that are those  *)
(* under way already.  A row is created, or touched, for a stream that is  *)
(* taken by its opening, so only an admission takes more.                  *)
(***************************************************************************)
AdmittedPcs == {"lock", "find", "touch", "create", "winner"}
Admitted == {q \in Requests : pc[q] \in AdmittedPcs}
Counted == Active \ uncounted
Taken == {stream[r] : r \in Counted} \cup {str[q] : q \in Admitted}

LimitInv == IsFiniteSet(Taken) /\ Cardinality(Taken) <= MaxConnections + MaxOpening - 1

\* An opening on its way to a row takes no stream beside its own.
LEMMA OwnStreamOnly ==
  ASSUME TypeOK, PlaysItsStream, NEW q \in Requests, OpenStep(q), ~CountActive(q)
  PROVE  Taken' \subseteq Taken
<1> USE ConnectionsAssumption
    DEF TypeOK, Pcs, Opening, Open, Active, Counted, Admitted, AdmittedPcs, Taken, Goto,
        rowVars, lineVars, ownVars, lockVars
<1>1. CASE CloseSuperseded(q)
  BY <1>1 DEF CloseSuperseded, Close, End
<1>2. CASE ReadUser(q)
  BY <1>2 DEF ReadUser, Leave
<1>3. CASE WriteLock(q)
  BY <1>3 DEF WriteLock
<1>4. CASE FindOpen(q)
  BY <1>4 DEF FindOpen
<1>5. CASE Touch(q)
  <2>1. Counted' \subseteq Counted \cup ({row[q]} \cap Open) /\ stream' = stream /\ str' = str
    BY <1>5 DEF Touch
  <2>2. row[q] \in Open => stream[row[q]] = str[q]
    BY DEF PlaysItsStream
  <2>3. str[q] \in Taken /\ Admitted' \subseteq Admitted
    BY <1>5 DEF Touch
  <2> QED BY <2>1, <2>2, <2>3
<1>6. CASE Create(q)
  <2>1. str[q] \in Taken /\ Admitted' \subseteq Admitted /\ str' = str
    BY <1>6 DEF Create
  <2>2. CASE UNCHANGED rowVars
    BY <2>1, <2>2
  <2>3. CASE \E r \in Rows : /\ FreeRow(r)
                            /\ rstate' = [rstate EXCEPT ![r] = "open"]
                            /\ stream' = [stream EXCEPT ![r] = str[q]]
                            /\ fresh' = fresh \cup {r} /\ UNCHANGED uncounted
    <3>1. PICK r \in Rows : /\ FreeRow(r)
                            /\ rstate' = [rstate EXCEPT ![r] = "open"]
                            /\ stream' = [stream EXCEPT ![r] = str[q]]
                            /\ fresh' = fresh \cup {r} /\ UNCHANGED uncounted
      BY <2>3
    <3>2. Counted' \subseteq Counted \cup {r} /\ r \notin Counted
      BY <3>1 DEF FreeRow
    <3>3. stream'[r] = str[q] /\ \A x \in Counted : stream'[x] = stream[x]
      BY <3>1, <3>2
    <3> QED BY <2>1, <3>2, <3>3
  <2> QED BY <1>6, <2>2, <2>3 DEF Create
<1> QED BY <1>1, <1>2, <1>3, <1>4, <1>5, <1>6 DEF OpenStep

\* An admission: the rows it counted, and the openings under way.
LEMMA AdmissionFits ==
  ASSUME TypeOK, SlotsInv, SlotsInv', LimitInv, NEW q \in Requests, CountActive(q)
  PROVE  LimitInv'
<1> USE ConnectionsAssumption
<1>1. CASE ~(HasRoom(q) /\ seen[q] \in {NoAgent, Agent[dev[q]]})
  <2>1. Taken' \subseteq Taken
    BY <1>1 DEF CountActive, Leave, Goto, Taken, Admitted, AdmittedPcs, Counted, Active, Open,
       rowVars, TypeOK
  <2>2. MaxConnections + MaxOpening - 1 \in Nat
    OBVIOUS
  <2> QED BY <2>1, <2>2, SubsetBound DEF LimitInv
<1>2. CASE HasRoom(q) /\ seen[q] \in {NoAgent, Agent[dev[q]]}
  <2> DEFINE R == Active \ OpenOn(str[q])
             T1 == {stream[r] : r \in R}
             T2 == {str[p] : p \in OpeningSet'}
  <2>1. Taken' \subseteq T1 \cup T2
    <3>1. UNCHANGED <<rstate, stream, fresh, uncounted, str>>
      BY <1>2 DEF CountActive, rowVars
    <3>2. Admitted' \subseteq OpeningSet' /\ q \in OpeningSet'
      BY <1>2 DEF CountActive, Goto, Admitted, AdmittedPcs, OpeningSet, Opening, TypeOK
    <3>3. \A r \in Counted : stream[r] \in T1 \cup T2
      BY <3>2 DEF Counted, Active, OpenOn
    <3> QED BY <3>1, <3>2, <3>3 DEF Taken, Counted, Active, Open
  <2>2. IsFiniteSet(R) /\ Cardinality(R) <= MaxConnections - 1 /\ Cardinality(R) \in Nat
    <3>1. IsFiniteSet(R)
      BY FS_Subset DEF SlotsInv, Active
    <3>2. Cardinality(R) \in Nat
      BY <3>1, FS_CardinalityType
    <3> QED BY <1>2, <3>1, <3>2 DEF HasRoom
  <2>3. IsFiniteSet(T1) /\ Cardinality(T1) <= Cardinality(R)
    BY <2>2, ImageBound
  <2>4. IsFiniteSet(T2) /\ Cardinality(T2) <= Cardinality(OpeningSet')
    BY ImageBound DEF SlotsInv
  <2>5. /\ Cardinality(T1) \in Nat /\ Cardinality(T2) \in Nat /\ Cardinality(T1 \cap T2) \in Nat
        /\ Cardinality(OpeningSet') \in Nat /\ Cardinality(OpeningSet') <= MaxOpening
    BY <2>3, <2>4, FS_Intersection, FS_CardinalityType DEF SlotsInv
  <2>6. /\ IsFiniteSet(T1 \cup T2)
        /\ Cardinality(T1 \cup T2) = Cardinality(T1) + Cardinality(T2) - Cardinality(T1 \cap T2)
    BY <2>3, <2>4, FS_Union
  <2>7. Cardinality(T1 \cup T2) <= MaxConnections + MaxOpening - 1
    BY <2>2, <2>3, <2>4, <2>5, <2>6
  <2>8. MaxConnections + MaxOpening - 1 \in Nat
    OBVIOUS
  <2> HIDE DEF T1, T2
  <2> QED BY <2>1, <2>6, <2>7, <2>8, SubsetBound DEF LimitInv
<1> QED BY <1>1, <1>2

(* However the openings of a line overlap, its active rows exceed its      *)
(* limit by less than the number of openings under way at a time, rows     *)
(* that came back from being stale excepted.                               *)
THEOREM OvershootBoundedHolds == Spec => []OvershootBounded
<1> USE ConnectionsAssumption
<1>1. Init => LimitInv
  <2> SUFFICES ASSUME Init PROVE LimitInv
    OBVIOUS
  <2>1. Taken = {}
    BY DEF Init, Taken, Counted, Active, Admitted, AdmittedPcs, Open
  <2> QED BY <2>1, FS_EmptySet DEF LimitInv
<1>2. TypeOK /\ PlaysItsStream /\ SlotsInv /\ SlotsInv' /\ LimitInv /\ [Next]_vars => LimitInv'
  <2> SUFFICES ASSUME TypeOK, PlaysItsStream, SlotsInv, SlotsInv', LimitInv, [Next]_vars
               PROVE  LimitInv'
    OBVIOUS
  <2>1. ASSUME Taken' \subseteq Taken PROVE LimitInv'
    <3>1. MaxConnections + MaxOpening - 1 \in Nat
      OBVIOUS
    <3> QED BY <2>1, <3>1, SubsetBound DEF LimitInv
  <2>2. ASSUME NEW q \in Requests, Begin(q) PROVE Taken' \subseteq Taken
    <3>1. UNCHANGED <<rstate, stream, fresh, uncounted>>
      BY <2>2 DEF Begin, rowVars
    <3>2. \A p \in Admitted' : p \in Admitted /\ str'[p] = str[p]
      BY <2>2 DEF Begin, Goto, Admitted, AdmittedPcs, TypeOK
    <3> QED BY <3>1, <3>2 DEF Taken, Counted, Active, Open
  <2>3. ASSUME Quiet PROVE Taken' \subseteq Taken
    <3>1. \A p \in Admitted' : p \in Admitted /\ str'[p] = str[p]
      BY <2>3 DEF Quiet, Admitted, AdmittedPcs, Opening
    <3>2. \A r \in Counted' : r \in Counted /\ stream'[r] = stream[r]
      BY <2>3 DEF Quiet, Counted, Active
    <3> QED BY <3>1, <3>2 DEF Taken
  <2> QED BY <2>1, <2>2, <2>3, OwnStreamOnly, AdmissionFits, QuietSteps
<1>3. TypeOK /\ SlotsInv /\ OneOpenRowPerStream /\ LimitInv => OvershootBounded
  <2> SUFFICES ASSUME TypeOK, SlotsInv, OneOpenRowPerStream, LimitInv PROVE OvershootBounded
    OBVIOUS
  <2> DEFINE T == {stream[r] : r \in Counted}
             f == [r \in Counted |-> stream[r]]
  <2>1. IsFiniteSet(T) /\ Cardinality(T) <= MaxConnections + MaxOpening - 1
    BY SubsetBound DEF LimitInv, Taken
  <2>2. f \in Injection(Counted, T)
    BY DEF Injection, IsInjective, OneOpenRowPerStream, Counted, Active
  <2>3. IsFiniteSet(Counted) /\ Cardinality(Counted) <= Cardinality(T)
    BY <2>1, <2>2, FS_Injection
  <2>4. Cardinality(Counted) \in Nat /\ Cardinality(T) \in Nat
    BY <2>1, <2>3, FS_CardinalityType
  <2> QED BY <2>1, <2>3, <2>4 DEF OvershootBounded, Counted
<1> QED
  BY <1>1, <1>2, <1>3, TypeCorrect, PlaysItsStreamHolds, OneOpenRowPerStreamHolds, SlotsHold, PTL
     DEF Spec
-----------------------------------------------------------------------------
(***************************************************************************)
(* Zapping.  The streams a device holds: those of its open rows, and those *)
(* of its openings past the closing of the superseded rows.  That closing  *)
(* leaves the device the streams of its openings under way and no others,  *)
(* and an opening adds no stream beside its own.                           *)
(***************************************************************************)
Bound(d) == {q \in Requests : dev[q] = d /\ pc[q] \in Opening \ {"super"}}
RowsOf(d) == {r \in Open : device[r] = d}
Held(d) == {stream[r] : r \in RowsOf(d)} \cup {str[q] : q \in Bound(d)}

ZapInv == \A d \in Devices : IsFiniteSet(Held(d)) /\ Cardinality(Held(d)) <= MaxOpening

\* Past its first step, an opening gives its device no stream.
LEMMA HoldsNoMore ==
  ASSUME TypeOK, NEW q \in Requests, OpenStep(q), ~CloseSuperseded(q), NEW d \in Devices
  PROVE  Held(d)' \subseteq Held(d)
<1> USE ConnectionsAssumption
    DEF TypeOK, Pcs, Opening, Open, Bound, RowsOf, Held, Goto,
        rowVars, lineVars, ownVars, lockVars
<1>1. CASE ReadUser(q)
  BY <1>1 DEF ReadUser, Leave
<1>2. CASE CountActive(q)
  BY <1>2 DEF CountActive, Leave
<1>3. CASE WriteLock(q)
  BY <1>3 DEF WriteLock
<1>4. CASE FindOpen(q)
  BY <1>4 DEF FindOpen
<1>5. CASE Touch(q)
  BY <1>5 DEF Touch
<1>6. CASE Create(q)
  <2>1. /\ q \in Bound(dev[q]) /\ dev' = dev /\ str' = str
        /\ \A p \in Bound(d)' : p \in Bound(d)
    BY <1>6 DEF Create
  <2>2. CASE UNCHANGED rowVars
    BY <2>1, <2>2
  <2>3. CASE \E r \in Rows : /\ FreeRow(r)
                            /\ rstate' = [rstate EXCEPT ![r] = "open"]
                            /\ stream' = [stream EXCEPT ![r] = str[q]]
                            /\ device' = [device EXCEPT ![r] = dev[q]]
    <3>1. PICK r \in Rows : /\ FreeRow(r)
                            /\ rstate' = [rstate EXCEPT ![r] = "open"]
                            /\ stream' = [stream EXCEPT ![r] = str[q]]
                            /\ device' = [device EXCEPT ![r] = dev[q]]
      BY <2>3
    <3>2. \A x \in RowsOf(d)' :
            \/ x = r /\ d = dev[q] /\ stream'[x] = str[q]
            \/ x \in RowsOf(d) /\ stream'[x] = stream[x]
      BY <3>1 DEF FreeRow
    <3> QED BY <2>1, <3>2
  <2> QED BY <1>6, <2>2, <2>3 DEF Create
<1> QED BY <1>1, <1>2, <1>3, <1>4, <1>5, <1>6 DEF OpenStep

\* The closing of the superseded rows leaves the streams of openings under way.
LEMMA ClosingLeavesOpenings ==
  ASSUME TypeOK, NEW q \in Requests, CloseSuperseded(q), NEW d \in Devices
  PROVE  /\ d = dev[q] => Held(d)' \subseteq {str[p] : p \in OpeningSet'}
         /\ d # dev[q] => Held(d)' \subseteq Held(d)
<1> USE DEF TypeOK, Pcs, Opening, Open, Bound, RowsOf, Goto, ownVars
<1>1. /\ dev' = dev /\ str' = str
      /\ \A r \in Open' : /\ r \in Open /\ stream'[r] = stream[r] /\ device'[r] = device[r]
                          /\ device[r] = dev[q] => stream[r] = str[q]
  BY DEF CloseSuperseded, Close, End
<1>2. pc' = [pc EXCEPT ![q] = "user"] /\ pc[q] = "super"
  BY DEF CloseSuperseded
<1>3. q \in OpeningSet' /\ Bound(d)' \subseteq OpeningSet'
  BY <1>2 DEF OpeningSet
<1>4. ASSUME d = dev[q] PROVE Held(d)' \subseteq {str[p] : p \in OpeningSet'}
  <2>1. \A r \in RowsOf(d)' : stream'[r] = str[q]
    BY <1>1, <1>4
  <2>2. \A x \in Held(d)' : \E p \in OpeningSet' : x = str[p]
    BY <1>1, <1>3, <2>1 DEF Held
  <2> QED BY <2>2
<1>5. ASSUME d # dev[q] PROVE Held(d)' \subseteq Held(d)
  <2>1. RowsOf(d)' \subseteq RowsOf(d) /\ Bound(d)' \subseteq Bound(d)
    BY <1>1, <1>2, <1>5
  <2> QED BY <1>1, <2>1 DEF Held
<1> QED BY <1>4, <1>5

(* However often a device zaps, its open rows are no more than the         *)
(* openings it may have under way at a time.                               *)
THEOREM ZapsLeaveNoRowsHolds == Spec => []ZapsLeaveNoRows
<1> USE ConnectionsAssumption
<1>1. Init => ZapInv
  <2> SUFFICES ASSUME Init, NEW d \in Devices
               PROVE  IsFiniteSet(Held(d)) /\ Cardinality(Held(d)) <= MaxOpening
    BY DEF ZapInv
  <2>1. Held(d) = {}
    BY DEF Init, Held, RowsOf, Bound, Open, Opening
  <2> QED BY <2>1, FS_EmptySet
<1>2. TypeOK /\ SlotsInv' /\ ZapInv /\ [Next]_vars => ZapInv'
  <2> SUFFICES ASSUME TypeOK, SlotsInv', ZapInv, [Next]_vars, NEW d \in Devices
               PROVE  IsFiniteSet(Held(d)') /\ Cardinality(Held(d)') <= MaxOpening
    BY DEF ZapInv
  <2>1. ASSUME Held(d)' \subseteq Held(d)
        PROVE  IsFiniteSet(Held(d)') /\ Cardinality(Held(d)') <= MaxOpening
    BY <2>1, SubsetBound DEF ZapInv
  <2>2. ASSUME NEW q \in Requests, Begin(q) PROVE Held(d)' \subseteq Held(d)
    <3>1. RowsOf(d)' = RowsOf(d) /\ stream' = stream
      BY <2>2 DEF Begin, rowVars, RowsOf, Open
    <3>2. \A p \in Bound(d)' : p \in Bound(d) /\ str'[p] = str[p]
      BY <2>2 DEF Begin, Goto, Bound, Opening, TypeOK
    <3> QED BY <3>1, <3>2 DEF Held
  <2>3. CASE Quiet
    <3>1. \A p \in Bound(d)' : p \in Bound(d) /\ str'[p] = str[p]
      BY <2>3 DEF Quiet, Bound, Opening
    <3>2. \A r \in RowsOf(d)' : r \in RowsOf(d) /\ stream'[r] = stream[r]
      BY <2>3 DEF Quiet, RowsOf
    <3>3. Held(d)' \subseteq Held(d)
      BY <3>1, <3>2 DEF Held
    <3> QED BY <2>1, <3>3
  <2>4. ASSUME NEW q \in Requests, CloseSuperseded(q), d = dev[q]
        PROVE  IsFiniteSet(Held(d)') /\ Cardinality(Held(d)') <= MaxOpening
    <3> DEFINE T == {str[p] : p \in OpeningSet'}
    <3>1. Held(d)' \subseteq T
      BY <2>4, ClosingLeavesOpenings
    <3>2. IsFiniteSet(T) /\ Cardinality(T) <= Cardinality(OpeningSet')
      BY ImageBound DEF SlotsInv
    <3>3. /\ Cardinality(T) \in Nat /\ Cardinality(OpeningSet') \in Nat
          /\ Cardinality(OpeningSet') <= MaxOpening
      BY <3>2, FS_CardinalityType DEF SlotsInv
    <3>4. Cardinality(T) <= MaxOpening
      BY <3>2, <3>3
    <3> HIDE DEF T
    <3> QED BY <3>1, <3>2, <3>4, SubsetBound
  <2>5. ASSUME NEW q \in Requests, OpenStep(q), ~(CloseSuperseded(q) /\ d = dev[q])
        PROVE  Held(d)' \subseteq Held(d)
    BY <2>5, HoldsNoMore, ClosingLeavesOpenings
  <2> QED BY <2>1, <2>2, <2>3, <2>4, <2>5, QuietSteps
<1>3. TypeOK /\ OneOpenRowPerStream /\ ZapInv => ZapsLeaveNoRows
  <2> SUFFICES ASSUME TypeOK, OneOpenRowPerStream, ZapInv, NEW d \in Devices
               PROVE  Cardinality(RowsOf(d)) <= MaxOpening
    BY DEF ZapsLeaveNoRows, RowsOf
  <2> DEFINE T == {stream[r] : r \in RowsOf(d)}
             f == [r \in RowsOf(d) |-> stream[r]]
  <2>1. IsFiniteSet(T) /\ Cardinality(T) <= MaxOpening
    BY SubsetBound DEF ZapInv, Held
  <2>2. f \in Injection(RowsOf(d), T)
    BY DEF Injection, IsInjective, OneOpenRowPerStream, RowsOf
  <2>3. IsFiniteSet(RowsOf(d)) /\ Cardinality(RowsOf(d)) <= Cardinality(T)
    BY <2>1, <2>2, FS_Injection
  <2>4. Cardinality(RowsOf(d)) \in Nat /\ Cardinality(T) \in Nat
    BY <2>1, <2>3, FS_CardinalityType
  <2> QED BY <2>1, <2>3, <2>4
<1> QED
  BY <1>1, <1>2, <1>3, TypeCorrect, OneOpenRowPerStreamHolds, SlotsHold, PTL DEF Spec
-----------------------------------------------------------------------------
(***************************************************************************)
(* The device lock.  Who has been let in, and who will be without asking:  *)
(* the openings that have read the line unlocked, and have neither locked  *)
(* it nor left.  Once the line is locked, whoever reads it reads one of    *)
(* those let in, so nobody joins.                                          *)
(***************************************************************************)
Firsts == {q \in Requests : pc[q] \in {"count", "lock"} /\ seen[q] = NoAgent}
LetIn == entered \cup {Agent[dev[q]] : q \in Firsts}

LockInv ==
  /\ IsFiniteSet(LetIn) /\ Cardinality(LetIn) <= MaxOpening
  /\ lock = NoAgent => entered = {}
  /\ lock # NoAgent => lock \in entered
  /\ \A q \in Requests : /\ pc[q] = "count" => seen[q] \in entered \cup {NoAgent}
                         /\ pc[q] = "lock" => seen[q] = NoAgent

(* A locked line lets in no more players than openings can overlap, the    *)
(* first ones, however their writes of the lock are ordered.               *)
THEOREM LockBindsHolds == Spec => []LockBinds
<1> USE ConnectionsAssumption
<1>1. Init => LockInv
  <2> SUFFICES ASSUME Init PROVE LockInv
    OBVIOUS
  <2>1. LetIn = {}
    BY DEF Init, LetIn, Firsts
  <2> QED BY <2>1, FS_EmptySet DEF LockInv, Init
<1>2. LockDevice /\ TypeOK /\ SlotsInv /\ SlotsInv' /\ LockInv /\ [Next]_vars => LockInv'
  <2> SUFFICES ASSUME LockDevice, TypeOK, SlotsInv, SlotsInv', LockInv, [Next]_vars
               PROVE  LockInv'
    OBVIOUS
  <2> DEFINE Rest == /\ lock = NoAgent => entered = {}
                     /\ lock # NoAgent => lock \in entered
                     /\ \A q \in Requests :
                          /\ pc[q] = "count" => seen[q] \in entered \cup {NoAgent}
                          /\ pc[q] = "lock" => seen[q] = NoAgent
  <2>1. ASSUME LetIn' \subseteq LetIn, Rest' PROVE LockInv'
    <3>1. IsFiniteSet(LetIn') /\ Cardinality(LetIn') <= MaxOpening
      BY <2>1, SubsetBound DEF LockInv
    <3> QED BY <2>1, <3>1 DEF LockInv
  <2>2. ASSUME NEW q \in Requests, Begin(q) PROVE LockInv'
    <3>1. \A p \in Firsts' : p \in Firsts /\ dev'[p] = dev[p]
      BY <2>2 DEF Begin, Goto, Firsts, TypeOK
    <3>2. LetIn' \subseteq LetIn /\ Rest'
      BY <2>2, <3>1 DEF Begin, Goto, LetIn, LockInv, lineVars, lockVars, TypeOK
    <3> QED BY <2>1, <3>2
  <2>3. CASE Quiet
    <3>1. \A p \in Firsts' : p \in Firsts /\ dev'[p] = dev[p]
      BY <2>3 DEF Quiet, Firsts, Opening
    <3>2. LetIn' \subseteq LetIn
      BY <2>3, <3>1 DEF Quiet, LetIn
    <3>3. Rest'
      BY <2>3 DEF Quiet, LockInv, Opening
    <3> QED BY <2>1, <3>2, <3>3
  <2>4. ASSUME NEW q \in Requests, CloseSuperseded(q) \/ FindOpen(q) \/ Touch(q) \/ Create(q)
        PROVE  LockInv'
    <3>1. /\ UNCHANGED <<lock, entered, dev, seen>>
          /\ pc'[q] \notin {"count", "lock"} /\ \A p \in Requests \ {q} : pc'[p] = pc[p]
      BY <2>4 DEF CloseSuperseded, FindOpen, Touch, Create, Goto, TypeOK,
         lineVars, lockVars, ownVars
    <3>2. LetIn' \subseteq LetIn /\ Rest'
      BY <3>1 DEF LetIn, Firsts, LockInv
    <3> QED BY <2>1, <3>2
  <2>5. ASSUME NEW q \in Requests, ReadUser(q) PROVE LockInv'
    <3>1. /\ UNCHANGED <<lock, entered>>
          /\ \A p \in Requests \ {q} : pc'[p] = pc[p] /\ seen'[p] = seen[p] /\ dev'[p] = dev[p]
          /\ \/ pc'[q] = "idle"
             \/ pc'[q] = "count" /\ seen'[q] = lock
      BY <2>5 DEF ReadUser, Leave, Goto, TypeOK, lineVars, lockVars
    <3>2. Rest'
      BY <3>1 DEF LockInv
    <3>3. CASE pc'[q] = "count" /\ lock = NoAgent
      <4> DEFINE T == {Agent[dev'[p]] : p \in OpeningSet'}
      <4>1. LetIn' \subseteq T
        BY <3>1, <3>3 DEF LetIn, Firsts, LockInv, OpeningSet, Opening
      <4>2. IsFiniteSet(T) /\ Cardinality(T) <= Cardinality(OpeningSet')
        <5> DEFINE g == [p \in Requests |-> Agent[dev'[p]]]
        <5>1. T = {g[p] : p \in OpeningSet'}
          BY DEF OpeningSet
        <5>2. IsFiniteSet({g[p] : p \in OpeningSet'})
              /\ Cardinality({g[p] : p \in OpeningSet'}) <= Cardinality(OpeningSet')
          BY ImageBound DEF SlotsInv
        <5> QED BY <5>1, <5>2
      <4>3. /\ Cardinality(T) \in Nat /\ Cardinality(OpeningSet') \in Nat
            /\ Cardinality(OpeningSet') <= MaxOpening
        BY <4>2, FS_CardinalityType DEF SlotsInv
      <4>4. Cardinality(T) <= MaxOpening
        BY <4>2, <4>3
      <4> HIDE DEF T
      <4>5. IsFiniteSet(LetIn') /\ Cardinality(LetIn') <= MaxOpening
        BY <4>1, <4>2, <4>4, SubsetBound
      <4> QED BY <3>2, <4>5 DEF LockInv
    <3>4. CASE ~(pc'[q] = "count" /\ lock = NoAgent)
      <4>1. \A p \in Firsts' : p \in Firsts /\ dev'[p] = dev[p]
        BY <3>1, <3>4 DEF Firsts
      <4>2. LetIn' \subseteq LetIn
        BY <3>1, <4>1 DEF LetIn
      <4> QED BY <2>1, <3>2, <4>2
    <3> QED BY <3>3, <3>4
  <2>6. ASSUME NEW q \in Requests, CountActive(q) PROVE LockInv'
    <3>1. /\ UNCHANGED <<lock, entered>> /\ pc[q] = "count"
          /\ \A p \in Requests \ {q} : pc'[p] = pc[p] /\ seen'[p] = seen[p] /\ dev'[p] = dev[p]
          /\ \/ pc'[q] \in {"idle", "find"}
             \/ pc'[q] = "lock" /\ seen[q] = NoAgent /\ seen'[q] = NoAgent /\ dev'[q] = dev[q]
      BY <2>6 DEF CountActive, Leave, Goto, TypeOK, lineVars, lockVars
    <3>2. \A p \in Firsts' : p \in Firsts /\ dev'[p] = dev[p]
      BY <3>1 DEF Firsts
    <3>3. LetIn' \subseteq LetIn
      BY <3>1, <3>2 DEF LetIn
    <3>4. Rest'
      BY <3>1 DEF LockInv
    <3> QED BY <2>1, <3>3, <3>4
  <2>7. ASSUME NEW q \in Requests, WriteLock(q) PROVE LockInv'
    <3>1. /\ pc[q] = "lock" /\ lock' = Agent[dev[q]] /\ entered' = entered \cup {Agent[dev[q]]}
          /\ UNCHANGED <<dev, seen>>
          /\ pc'[q] = "find" /\ \A p \in Requests \ {q} : pc'[p] = pc[p]
      BY <2>7 DEF WriteLock, Goto, TypeOK, ownVars
    <3>2. q \in Firsts /\ \A p \in Firsts' : p \in Firsts
      BY <3>1 DEF Firsts, LockInv
    <3>3. LetIn' \subseteq LetIn
      BY <3>1, <3>2 DEF LetIn
    <3>4. Agent[dev[q]] # NoAgent
      BY DEF TypeOK
    <3>5. Rest'
      BY <3>1, <3>4 DEF LockInv
    <3> QED BY <2>1, <3>3, <3>5
  <2> QED BY <2>2, <2>3, <2>4, <2>5, <2>6, <2>7, QuietSteps DEF OpenStep
<1>3. LockInv => LockBinds
  BY SubsetBound DEF LockInv, LockBinds, LetIn
<1>4. CASE LockDevice
  BY <1>1, <1>2, <1>3, <1>4, TypeCorrect, SlotsHold, PTL DEF Spec
<1>5. CASE ~LockDevice
  <2>1. LockBinds
    BY <1>5 DEF LockBinds
  <2> QED BY <2>1, PTL
<1> QED BY <1>4, <1>5
==============================================================================
