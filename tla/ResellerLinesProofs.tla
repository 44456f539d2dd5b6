------------------------ MODULE ResellerLinesProofs ------------------------
(***************************************************************************)
(* Proofs about the lines of ResellerCredits: quotas, deletions and the    *)
(* months that were paid, for every value of the constants.                *)
(***************************************************************************)
EXTENDS ResellerCreditsProofs

Holding == {"sell", "insert"}
Unpaid  == {"created", "deduct", "rollback"}
Dated   == {"balance", "extend"}

LEMMA HeldLines ==
  ASSUME NEW d \in Calls
  PROVE  /\ pc[d] \in Holding \cup {"sub", "delete"} => <<"dependants", task[d].r>> \in Relies(d)
         /\ pc[d] \in Unpaid \cup Dated => \A u \in task[d].us : <<"months", u>> \in Relies(d)
<1>1. HeldAt.dependants = Holding \cup {"sub", "delete"} /\ HeldAt["dependants"] = Holding \cup {"sub", "delete"}
  BY DEF HeldAt, Holding
<1>2. HeldAt.months = Unpaid \cup Dated
  BY DEF HeldAt, Unpaid, Dated
<1> QED BY <1>1, <1>2 DEF Relies

LEMMA LinesFinite ==
  ASSUME NEW r
  PROVE  IsFiniteSet(LinesOf(r)) /\ Cardinality(LinesOf(r)) \in Nat
  BY CreditsAssumption, FS_Subset, FS_CardinalityType DEF CreditsAssumption, LinesOf

----------------------------------------------------------------------------
(* Quotas and deletions.  Inductive: a call about to add a line or a sub-  *)
(* reseller has room for it and an active reseller, and one about to       *)
(* delete a reseller sees nothing that depends on it.                      *)

RoomFor(r) ==
  /\ MaxUsers[r] > 0 => Cardinality(LinesOf(r)) <= MaxUsers[r]
  /\ account[r] = "deleted" => LinesOf(r) = {} /\ ChildrenOf(r) = {}
  /\ \A c \in Calls : task[c].r = r =>
       /\ pc[c] \in Holding => QuotaLeft(r)
       /\ pc[c] \in Holding \cup {"sub"} => account[r] = "active"
       /\ pc[c] = "delete" => LinesOf(r) = {} /\ ChildrenOf(r) = {}

LinesInv ==
  /\ \A c \in Calls : pc[c] \in Holding \cup Unpaid => \E u \in Users : task[c].us = {u}
  /\ \A r \in Resellers : <<"dependants", r>> \notin slipped => RoomFor(r)

\* A step of c that adds no line and changes no reseller.
LEMMA EnterLines ==
  ASSUME TypeInv, LinesInv, NEW c \in Calls, NEW p, NEW t,
         pc' = [pc EXCEPT ![c] = p], task' = [task EXCEPT ![c] = t], slipped \subseteq slipped',
         UNCHANGED rowVars, \A r \in Resellers : LinesOf(r)' \subseteq LinesOf(r),
         p \in Holding \cup Unpaid => \E u \in Users : t.us = {u},
         p \in Holding => QuotaLeft(t.r),
         p \in Holding \cup {"sub"} => account[t.r] = "active",
         p = "delete" => LinesOf(t.r) = {} /\ ChildrenOf(t.r) = {}
  PROVE  LinesInv'
<1>1. /\ pc'[c] = p /\ task'[c] = t
      /\ \A d \in Calls : d # c => pc'[d] = pc[d] /\ task'[d] = task[d]
  BY DEF TypeInv, TypeOK
<1>2. \A d \in Calls : pc'[d] \in Holding \cup Unpaid => \E u \in Users : task'[d].us = {u}
  BY <1>1 DEF LinesInv
<1>3. ASSUME NEW r \in Resellers, <<"dependants", r>> \notin slipped' PROVE RoomFor(r)'
  <2>1. RoomFor(r)
    BY <1>3 DEF LinesInv
  <2>2. Cardinality(LinesOf(r)') \in Nat /\ Cardinality(LinesOf(r)') <= Cardinality(LinesOf(r))
    BY LinesFinite, FS_Subset, FS_CardinalityType
  <2>3. ChildrenOf(r)' = ChildrenOf(r) /\ account' = account
    BY DEF ChildrenOf, Active, rowVars
  <2>4. MaxUsers[r] \in Nat /\ Cardinality(LinesOf(r)) \in Nat
    BY CreditsAssumption, LinesFinite DEF CreditsAssumption
  <2>5. QuotaLeft(r) => QuotaLeft(r)'
    BY <2>2, <2>4 DEF QuotaLeft
  <2>6. LinesOf(r) = {} => LinesOf(r)' = {}
    OBVIOUS
  <2>7. MaxUsers[r] > 0 => Cardinality(LinesOf(r)') <= MaxUsers[r]
    BY <2>1, <2>2, <2>4 DEF RoomFor
  <2>8. ASSUME NEW d \in Calls, task'[d].r = r
        PROVE  /\ pc'[d] \in Holding => QuotaLeft(r)
               /\ pc'[d] \in Holding \cup {"sub"} => account[r] = "active"
               /\ pc'[d] = "delete" => LinesOf(r) = {} /\ ChildrenOf(r) = {}
    <3>1. CASE d = c
      BY <1>1, <2>8, <3>1
    <3>2. CASE d # c
      BY <1>1, <2>1, <2>8, <3>2 DEF RoomFor
    <3> QED BY <3>1, <3>2
  <2> QED BY <2>1, <2>3, <2>5, <2>6, <2>7, <2>8 DEF RoomFor
<1> QED BY <1>2, <1>3 DEF LinesInv

\* A line is added to its reseller.
LEMMA AddLine ==
  ASSUME TypeInv, LinesInv, NEW c \in Calls, pc[c] \in Holding,
         \A u \in task[c].us : owner[u] = Nobody,
         owner' = [u \in Users |-> IF u \in task[c].us THEN task[c].r ELSE owner[u]],
         UNCHANGED rowVars, NEW F, <<"dependants", task[c].r>> \in F, Slip(c, F),
         NEW p \in {"idle", "created"}, pc' = [pc EXCEPT ![c] = p],
         \A d \in Calls : d # c => task'[d] = task[d],
         p = "created" => task'[c] = task[c]
  PROVE  LinesInv'
<1> DEFINE s == task[c].r
<1>1. /\ pc'[c] = p /\ \A d \in Calls : d # c => pc'[d] = pc[d]
      /\ s \in Resellers /\ slipped \subseteq slipped'
  BY NotSlipped DEF TypeInv, TypeOK, Posed, Holding
<1>2. PICK u \in Users : task[c].us = {u}
  BY DEF LinesInv
<1>3. \A d \in Calls : pc'[d] \in Holding \cup Unpaid => \E v \in Users : task'[d].us = {v}
  BY <1>1, <1>2 DEF LinesInv, Holding, Unpaid
<1>4. ASSUME NEW r \in Resellers, <<"dependants", r>> \notin slipped' PROVE RoomFor(r)'
  <2>1. RoomFor(r)
    BY <1>1, <1>4 DEF LinesInv
  <2>2. ChildrenOf(r)' = ChildrenOf(r) /\ account' = account
    BY DEF ChildrenOf, Active, rowVars
  <2>3. owner[u] = Nobody /\ owner \in [Users -> Resellers \cup {Nobody, "removed"}] /\ Nobody \notin Resellers
    BY <1>2, CreditsAssumption DEF TypeInv, TypeOK, CreditsAssumption
  <2>4. CASE r # s
    <3>1. LinesOf(r)' = LinesOf(r)
      BY <1>2, <2>3, <2>4 DEF LinesOf
    <3>2. QuotaLeft(r)' <=> QuotaLeft(r)
      BY <3>1 DEF QuotaLeft
    <3>3. \A d \in Calls : pc'[d] \in Holding \cup {"sub", "delete"} => pc'[d] = pc[d] /\ task'[d] = task[d]
      BY <1>1 DEF Holding
    <3> QED BY <2>1, <2>2, <3>1, <3>2, <3>3 DEF RoomFor
  <2>5. CASE r = s
    <3>1. \A d \in Calls : task'[d].r = r => pc'[d] \notin Holding \cup {"sub", "delete"}
      BY <1>1, <1>4, <2>5, HeldLines, NotSlipped DEF Holding
    <3>2. QuotaLeft(r) /\ account[r] = "active"
      BY <2>1, <2>5 DEF RoomFor
    <3>3. LinesOf(r)' = LinesOf(r) \cup {u} /\ u \notin LinesOf(r)
      BY <1>2, <2>3, <2>5 DEF LinesOf
    <3>4. Cardinality(LinesOf(r) \cup {u}) = Cardinality(LinesOf(r)) + 1
      BY <3>3, LinesFinite, FS_AddElement
    <3>5. MaxUsers[r] > 0 => Cardinality(LinesOf(r)') <= MaxUsers[r]
      BY <3>2, <3>3, <3>4, LinesFinite, CreditsAssumption DEF QuotaLeft, CreditsAssumption
    <3> QED BY <2>2, <3>1, <3>2, <3>5 DEF RoomFor, Holding
  <2> QED BY <2>4, <2>5
<1> QED BY <1>3, <1>4 DEF LinesInv

\* A sub-reseller is created.
LEMMA SubLines ==
  ASSUME TypeInv, LinesInv, NEW c \in Calls, SubCommit(c)
  PROVE  LinesInv'
<1> DEFINE t == task[c] F == Spent(t.r, t.n) \cup {<<"dependants", t.r>>}
<1>1. /\ pc[c] = "sub" /\ account[t.to] = "none"
      /\ account' = [account EXCEPT ![t.to] = "active"] /\ parent' = [parent EXCEPT ![t.to] = t.r]
      /\ owner' = owner /\ Slip(c, F) /\ Close(c) /\ <<"dependants", t.r>> \in F
  BY DEF SubCommit, lineVars
<1>2. t.r \in Resellers /\ t.to \in Resellers /\ t.to # t.r
  BY <1>1 DEF TypeInv, Posed
<1>3. account \in [Resellers -> {"none", "active", "deleted"}] /\ parent \in [Resellers -> Resellers \cup {Nobody}]
  BY DEF TypeInv, TypeOK
<1>4. /\ pc'[c] = "idle" /\ \A d \in Calls : d # c => pc'[d] = pc[d] /\ task'[d] = task[d]
  BY <1>1 DEF Close, TypeInv, TypeOK
<1> HIDE DEF F
<1>5. slipped \subseteq slipped'
  BY <1>1, NotSlipped
<1>6. \A d \in Calls : pc'[d] \in Holding \cup Unpaid => \E v \in Users : task'[d].us = {v}
  BY <1>4 DEF LinesInv, Holding, Unpaid
<1>7. ASSUME NEW r \in Resellers, <<"dependants", r>> \notin slipped' PROVE RoomFor(r)'
  <2>1. RoomFor(r)
    BY <1>5, <1>7 DEF LinesInv
  <2>2. LinesOf(r)' = LinesOf(r) /\ (QuotaLeft(r)' <=> QuotaLeft(r))
    BY <1>1 DEF LinesOf, QuotaLeft
  <2>3. CASE r = t.r
    <3>1. \A d \in Calls : task'[d].r = r => pc'[d] \notin Holding \cup {"sub", "delete"}
      BY <1>1, <1>4, <1>7, <2>3, HeldLines, NotSlipped DEF Holding
    <3>2. account'[r] = "active"
      BY <1>1, <1>2, <1>3, <2>1, <2>3 DEF RoomFor
    <3> QED BY <2>1, <2>2, <3>1, <3>2 DEF RoomFor, Holding
  <2>4. CASE r # t.r
    <3>1. ChildrenOf(r)' \subseteq ChildrenOf(r)
      BY <1>1, <1>2, <1>3, <2>4 DEF ChildrenOf, Active
    <3>2. account'[r] = account[r] \/ (account[r] = "none" /\ account'[r] = "active")
      BY <1>1, <1>3
    <3>3. \A d \in Calls : pc'[d] \in Holding \cup {"sub", "delete"} => pc'[d] = pc[d] /\ task'[d] = task[d]
      BY <1>4 DEF Holding
    <3> QED BY <2>1, <2>2, <3>1, <3>2, <3>3 DEF RoomFor
  <2> QED BY <2>3, <2>4
<1> QED BY <1>6, <1>7 DEF LinesInv

\* A reseller is deleted.
LEMMA DeleteLines ==
  ASSUME TypeInv, LinesInv, NEW c \in Calls, DeleteCommit(c)
  PROVE  LinesInv'
<1> DEFINE s == task[c].r F == {<<"dependants", s>>}
<1>1. /\ pc[c] = "delete" /\ account' = [account EXCEPT ![s] = "deleted"] /\ parent' = parent
      /\ owner' = owner /\ Slip(c, F) /\ Close(c) /\ <<"dependants", s>> \in F
  BY DEF DeleteCommit, lineVars
<1>2. account \in [Resellers -> {"none", "active", "deleted"}]
  BY DEF TypeInv, TypeOK
<1>3. /\ pc'[c] = "idle" /\ \A d \in Calls : d # c => pc'[d] = pc[d] /\ task'[d] = task[d]
  BY <1>1 DEF Close, TypeInv, TypeOK
<1> HIDE DEF F
<1>4. slipped \subseteq slipped'
  BY <1>1, NotSlipped
<1>5. \A d \in Calls : pc'[d] \in Holding \cup Unpaid => \E v \in Users : task'[d].us = {v}
  BY <1>3 DEF LinesInv, Holding, Unpaid
<1>6. ASSUME NEW r \in Resellers, <<"dependants", r>> \notin slipped' PROVE RoomFor(r)'
  <2>1. RoomFor(r)
    BY <1>4, <1>6 DEF LinesInv
  <2>2. LinesOf(r)' = LinesOf(r) /\ (QuotaLeft(r)' <=> QuotaLeft(r))
    BY <1>1 DEF LinesOf, QuotaLeft
  <2>3. ChildrenOf(r)' \subseteq ChildrenOf(r)
    BY <1>1, <1>2 DEF ChildrenOf, Active
  <2>4. CASE r = s
    <3>1. \A d \in Calls : task'[d].r = r => pc'[d] \notin Holding \cup {"sub", "delete"}
      BY <1>1, <1>3, <1>6, <2>4, HeldLines, NotSlipped DEF Holding
    <3>2. LinesOf(r) = {} /\ ChildrenOf(r) = {}
      BY <1>1, <2>1, <2>4 DEF RoomFor
    <3> QED BY <2>1, <2>2, <2>3, <3>1, <3>2 DEF RoomFor, Holding
  <2>5. CASE r # s
    <3>1. account'[r] = account[r]
      BY <1>1, <1>2, <2>5
    <3>2. \A d \in Calls : pc'[d] \in Holding \cup {"sub", "delete"} => pc'[d] = pc[d] /\ task'[d] = task[d]
      BY <1>3 DEF Holding
    <3> QED BY <2>1, <2>2, <2>3, <3>1, <3>2 DEF RoomFor
  <2> QED BY <2>4, <2>5
<1> QED BY <1>5, <1>6 DEF LinesInv

\* c goes on to p with the task t, on the strength of what it read.
Takes(c, p, t) ==
  /\ pc' = [pc EXCEPT ![c] = p] /\ task' = [task EXCEPT ![c] = t]
  /\ p \in Holding => QuotaLeft(t.r) /\ account[t.r] = "active" /\ \E u \in Users : t.us = {u}
  /\ p \in Unpaid => pc[c] = "created" /\ t.us = task[c].us
  /\ p = "sub" => account[t.r] = "active"
  /\ p = "delete" => LinesOf(t.r) = {} /\ ChildrenOf(t.r) = {}
  /\ p \in Dated => \/ \A u \in t.us : owner[u] \in Resellers /\ t.had[u] = months[u]
                    \/ pc[c] = "balance" /\ t.us = task[c].us /\ t.had = task[c].had

LEMMA ReadLines ==
  ASSUME TypeInv, NEW c \in Calls,
         \/ SellRead(c) \/ CreateRead(c) \/ DeductRead(c) \/ ExtendRead(c) \/ ExtendBalance(c)
         \/ RenewRead(c) \/ TransferRead(c) \/ SubRead(c) \/ DeleteRead(c) \/ AddRead(c)
         \/ PayRead(c) \/ PayBalance(c) \/ RemoveRead(c)
  PROVE  /\ UNCHANGED <<rowVars, lineVars, slipped>>
         /\ \E p, t : Takes(c, p, t)
<1> USE DEF Holding, Unpaid, Dated, Begin, Go, Active, Blank
<1>1. CASE SellRead(c)
  <2>1. PICK r \in Active, u \in Users :
          /\ QuotaLeft(r)
          /\ Begin(c, "sell", [Blank EXCEPT !.r = r, !.us = {u}, !.n = Price(r), !.seen = credits[r]])
          /\ UNCHANGED <<rowVars, lineVars>>
    BY <1>1 DEF SellRead
  <2> DEFINE t == [Blank EXCEPT !.r = r, !.us = {u}, !.n = Price(r), !.seen = credits[r]]
  <2>2. t.r = r /\ t.us = {u} /\ Begin(c, "sell", t)
    BY <2>1
  <2> HIDE DEF t
  <2>3. Takes(c, "sell", t)
    BY <2>1, <2>2 DEF Takes
  <2> QED BY <2>1, <2>3
<1>9. CASE CreateRead(c)
  <2>1. PICK r \in Active, u \in Users :
          /\ QuotaLeft(r) /\ Begin(c, "insert", [Blank EXCEPT !.r = r, !.us = {u}, !.n = 1])
          /\ UNCHANGED <<rowVars, lineVars>>
    BY <1>9 DEF CreateRead
  <2> DEFINE t == [Blank EXCEPT !.r = r, !.us = {u}, !.n = 1]
  <2>2. t.r = r /\ t.us = {u} /\ Begin(c, "insert", t)
    BY <2>1
  <2> HIDE DEF t
  <2>3. Takes(c, "insert", t)
    BY <2>1, <2>2 DEF Takes
  <2> QED BY <2>1, <2>3
<1>2. CASE DeductRead(c)
  <2> DEFINE t == [task[c] EXCEPT !.seen = credits[task[c].r]]
  <2>1. t.us = task[c].us
    BY DEF TypeInv, TypeOK, Tasks
  <2> HIDE DEF t
  <2>2. pc[c] = "created" /\ (Go(c, "deduct", t) \/ Go(c, "rollback", task[c])) /\ UNCHANGED <<rowVars, lineVars>>
    BY <1>2 DEF DeductRead, t
  <2>3. Takes(c, "deduct", t) \/ Takes(c, "rollback", task[c])
    BY <2>1, <2>2 DEF Takes
  <2> QED BY <2>2, <2>3
<1>3. CASE ExtendRead(c)
  <2>1. PICK r \in Active, us \in SUBSET Users :
          /\ us \subseteq LinesOf(r)
          /\ Begin(c, "balance", [Blank EXCEPT !.r = r, !.us = us, !.n = Price(r) * Cardinality(us),
                                               !.had = Expiries(us)])
          /\ UNCHANGED <<rowVars, lineVars>>
    BY <1>3 DEF ExtendRead, LinesOf
  <2> DEFINE t == [Blank EXCEPT !.r = r, !.us = us, !.n = Price(r) * Cardinality(us), !.had = Expiries(us)]
  <2>2. t.us = us /\ t.had = Expiries(us) /\ Begin(c, "balance", t)
    BY <2>1
  <2>3. \A u \in us : owner[u] \in Resellers /\ Expiries(us)[u] = months[u]
    BY <2>1 DEF LinesOf, Expiries
  <2> HIDE DEF t
  <2>4. Takes(c, "balance", t)
    BY <2>2, <2>3 DEF Takes
  <2> QED BY <2>1, <2>4
<1>4. CASE ExtendBalance(c)
  <2> DEFINE t == [task[c] EXCEPT !.seen = credits[task[c].r]]
  <2>1. t.us = task[c].us /\ t.had = task[c].had
    BY DEF TypeInv, TypeOK, Tasks
  <2> HIDE DEF t
  <2>2. pc[c] = "balance" /\ Go(c, "extend", t) /\ UNCHANGED <<rowVars, lineVars>>
    BY <1>4 DEF ExtendBalance, t
  <2>3. Takes(c, "extend", t)
    BY <2>1, <2>2 DEF Takes
  <2> QED BY <2>2, <2>3
<1>5. CASE RenewRead(c)
  <2>1. PICK u \in Users :
          /\ owner[u] \in Resellers
          /\ Begin(c, "extend", [Blank EXCEPT !.r = owner[u], !.us = {u}, !.n = 1, !.seen = credits[owner[u]],
                                              !.had = Expiries({u})])
          /\ UNCHANGED <<rowVars, lineVars>>
    BY <1>5 DEF RenewRead
  <2> DEFINE t == [Blank EXCEPT !.r = owner[u], !.us = {u}, !.n = 1, !.seen = credits[owner[u]],
                                !.had = Expiries({u})]
  <2>2. t.us = {u} /\ t.had = Expiries({u}) /\ Begin(c, "extend", t)
    BY <2>1
  <2>3. Expiries({u})[u] = months[u]
    BY DEF Expiries
  <2> HIDE DEF t
  <2>4. Takes(c, "extend", t)
    BY <2>1, <2>2, <2>3 DEF Takes
  <2> QED BY <2>1, <2>4
<1>6. CASE TransferRead(c) \/ AddRead(c) \/ PayRead(c) \/ PayBalance(c) \/ RemoveRead(c)
  <2>1. /\ UNCHANGED <<rowVars, lineVars, slipped>>
        /\ \E p \in {"transfer", "add", "payBalance", "pay", "remove"} : \E t :
             pc' = [pc EXCEPT ![c] = p] /\ task' = [task EXCEPT ![c] = t]
    BY <1>6 DEF TransferRead, AddRead, PayRead, PayBalance, RemoveRead
  <2>2. \E p, t : Takes(c, p, t)
    BY <2>1 DEF Takes
  <2> QED BY <2>1, <2>2
<1>7. CASE SubRead(c)
  <2>1. PICK r \in Active, s \in Resellers, n \in Amounts \cup {0} :
          /\ Begin(c, "sub", [Blank EXCEPT !.r = r, !.to = s, !.n = n, !.seen = credits[r]])
          /\ UNCHANGED <<rowVars, lineVars>>
    BY <1>7 DEF SubRead
  <2> DEFINE t == [Blank EXCEPT !.r = r, !.to = s, !.n = n, !.seen = credits[r]]
  <2>2. t.r = r /\ Begin(c, "sub", t)
    BY <2>1
  <2> HIDE DEF t
  <2>3. Takes(c, "sub", t)
    BY <2>1, <2>2 DEF Takes
  <2> QED BY <2>1, <2>3
<1>8. CASE DeleteRead(c)
  <2>1. PICK r \in Active :
          /\ LinesOf(r) = {} /\ ChildrenOf(r) = {}
          /\ Begin(c, "delete", [Blank EXCEPT !.r = r]) /\ UNCHANGED <<rowVars, lineVars>>
    BY <1>8 DEF DeleteRead
  <2> DEFINE t == [Blank EXCEPT !.r = r]
  <2>2. t.r = r /\ Begin(c, "delete", t)
    BY <2>1
  <2> HIDE DEF t
  <2>3. Takes(c, "delete", t)
    BY <2>1, <2>2 DEF Takes
  <2> QED BY <2>1, <2>3
<1> QED BY <1>1, <1>2, <1>3, <1>4, <1>5, <1>6, <1>7, <1>8, <1>9

\* The calls that write without adding a line or changing a reseller.
LEMMA CloseLines ==
  ASSUME TypeInv, LinesInv, NEW c \in Calls, Close(c), slipped \subseteq slipped', UNCHANGED rowVars,
         \A r \in Resellers : LinesOf(r)' \subseteq LinesOf(r)
  PROVE  LinesInv'
<1>1. pc' = [pc EXCEPT ![c] = "idle"] /\ task' = [task EXCEPT ![c] = Blank]
  BY DEF Close
<1> QED BY <1>1, EnterLines DEF Holding, Unpaid

LEMMA InitLines == Init => LinesInv
<1> SUFFICES ASSUME Init PROVE LinesInv
  OBVIOUS
<1>1. \A s \in Resellers : LinesOf(s) = {} /\ account[s] # "deleted"
  BY CreditsAssumption DEF Init, LinesOf, CreditsAssumption
<1>2. Cardinality({}) = 0
  BY FS_EmptySet
<1>3. /\ \A s \in Resellers : account[s] # "deleted" /\ MaxUsers[s] \in Nat
      /\ \A c \in Calls : pc[c] = "idle"
  BY CreditsAssumption DEF Init, CreditsAssumption
<1>4. ASSUME NEW s \in Resellers PROVE RoomFor(s)
  BY <1>1, <1>2, <1>3 DEF RoomFor, Holding
<1> QED BY <1>3, <1>4 DEF LinesInv, Holding, Unpaid

LEMMA StepLines == TypeInv /\ LinesInv /\ [Next]_vars => LinesInv'
<1> SUFFICES ASSUME TypeInv, LinesInv, [Next]_vars PROVE LinesInv'
  OBVIOUS
<1>1. CASE UNCHANGED <<pc, task, slipped, rowVars, owner>>
  <2>1. \A r \in Resellers : RoomFor(r)' <=> RoomFor(r)
    BY <1>1 DEF RoomFor, LinesOf, ChildrenOf, Active, QuotaLeft, rowVars
  <2> QED BY <1>1, <2>1 DEF LinesInv
<1>2. CASE UNCHANGED vars \/ \E k \in Comms : Accrue(k)
  BY <1>1, <1>2 DEF vars, lineVars, Accrue
<1>3. ASSUME NEW c \in Calls,
             \/ Selling(c) \/ Creating(c) \/ Extending(c) \/ Moving(c) \/ Managing(c) \/ Paying(c)
      PROVE  LinesInv'
  <2>1. CASE \/ SellFails(c) \/ CreateFails(c) \/ BouquetGone(c) \/ ExtendRefused(c)
             \/ ExtendFails(c) \/ TransferFails(c) \/ SubFails(c) \/ CommissionGone(c)
    <3>1. Abort(c)
      BY <2>1 DEF SellFails, CreateFails, BouquetGone, ExtendRefused, ExtendFails,
         TransferFails, SubFails, CommissionGone
    <3> QED BY <3>1, CloseLines DEF Abort, lineVars, LinesOf
  <2>2. CASE \/ DeductCommit(c) \/ ExtendCommit(c) \/ TransferCommit(c) \/ AddCommit(c)
             \/ PayCommit(c) \/ RemoveCommit(c)
    <3>1. Close(c) /\ UNCHANGED rowVars /\ owner' = owner /\ slipped \subseteq slipped'
      BY <2>2 DEF DeductCommit, ExtendCommit, TransferCommit, AddCommit, PayCommit, RemoveCommit,
         Slip, lineVars
    <3> QED BY <3>1, CloseLines DEF LinesOf
  <2>3. CASE Rollback(c)
    <3>1. /\ Close(c) /\ UNCHANGED rowVars /\ slipped \subseteq slipped'
          /\ owner' = [u \in Users |-> IF u \in task[c].us THEN "removed" ELSE owner[u]]
      BY <2>3 DEF Rollback, Slip
    <3>2. \A r \in Resellers : LinesOf(r)' \subseteq LinesOf(r)
      BY <3>1, CreditsAssumption DEF LinesOf, CreditsAssumption
    <3> QED BY <3>1, <3>2, CloseLines
  <2>4. CASE SellCommit(c)
    <3> DEFINE F == Spent(task[c].r, task[c].n) \cup {<<"dependants", task[c].r>>}
    <3>1. /\ <<"dependants", task[c].r>> \in F /\ Slip(c, F) /\ pc[c] \in Holding
          /\ \A u \in task[c].us : owner[u] = Nobody
          /\ owner' = [u \in Users |-> IF u \in task[c].us THEN task[c].r ELSE owner[u]]
          /\ UNCHANGED rowVars /\ Close(c)
      BY <2>4 DEF SellCommit, Holding
    <3>2. /\ pc' = [pc EXCEPT ![c] = "idle"] /\ \A d \in Calls : d # c => task'[d] = task[d]
      BY <3>1 DEF Close, TypeInv, TypeOK
    <3> HIDE DEF F
    <3> QED BY <3>1, <3>2, AddLine
  <2>5. CASE CreateInsert(c)
    <3> DEFINE F == {<<"dependants", task[c].r>>}
    <3>1. /\ <<"dependants", task[c].r>> \in F /\ Slip(c, F) /\ pc[c] \in Holding
          /\ \A u \in task[c].us : owner[u] = Nobody
          /\ owner' = [u \in Users |-> IF u \in task[c].us THEN task[c].r ELSE owner[u]]
          /\ UNCHANGED rowVars /\ pc' = [pc EXCEPT ![c] = "created"] /\ task' = task
      BY <2>5 DEF CreateInsert, Holding
    <3> HIDE DEF F
    <3> QED BY <3>1, AddLine
  <2>6. CASE \/ SellRead(c) \/ CreateRead(c) \/ DeductRead(c) \/ ExtendRead(c) \/ ExtendBalance(c)
             \/ RenewRead(c) \/ TransferRead(c) \/ SubRead(c) \/ DeleteRead(c) \/ AddRead(c)
             \/ PayRead(c) \/ PayBalance(c) \/ RemoveRead(c)
    <3>1. UNCHANGED <<rowVars, lineVars, slipped>>
      BY <2>6, ReadLines
    <3>2. PICK p, t : Takes(c, p, t)
      BY <2>6, ReadLines
    <3>3. p \in Unpaid => \E u \in Users : t.us = {u}
      BY <3>2 DEF LinesInv, Takes, Unpaid
    <3>4. \A r \in Resellers : LinesOf(r)' \subseteq LinesOf(r)
      BY <3>1 DEF LinesOf, lineVars
    <3> QED BY <3>1, <3>2, <3>3, <3>4, EnterLines DEF Takes, Holding
  <2> QED
    BY <1>3, <2>1, <2>2, <2>3, <2>4, <2>5, <2>6, SubLines, DeleteLines
    DEF Selling, Creating, Extending, Moving, Managing, Paying
<1> QED BY <1>2, <1>3 DEF Next

\* maxUsers holds for every reseller, unless two calls counted its lines before
\* either added one, for any number of calls, resellers and lines.
THEOREM QuotaKeptHolds == Spec => []QuotaKept
<1>1. LinesInv => QuotaKept
  BY DEF LinesInv, RoomFor, QuotaKept
<1> QED BY <1>1, InitTypes, StepTypes, InitLines, StepLines, PTL DEF Spec

\* A deleted reseller leaves no line and no sub-reseller behind, unless one was
\* added between its count and its delete.
THEOREM NoOrphansHolds == Spec => []NoOrphans
<1>1. LinesInv => NoOrphans
  BY DEF LinesInv, RoomFor, NoOrphans
<1> QED BY <1>1, InitTypes, StepTypes, InitLines, StepLines, PTL DEF Spec

----------------------------------------------------------------------------
(* How far a quota can be overrun.  Inductive: every call that has counted *)
(* the lines and not added its own is accounted for already, and none      *)
(* joins them once the quota is reached.                                   *)

Adding(r) == {c \in Calls : pc[c] \in Holding /\ task[c].r = r}

RoomTaken(r) == Cardinality(LinesOf(r)) + Cardinality(Adding(r))

QuotaInv == \A r \in Resellers :
  MaxUsers[r] > 0 => RoomTaken(r) <= MaxUsers[r] - 1 + Cardinality(Calls)

\* A step of c adds no line; or it counts them below the quota; or it adds one.
LEMMA QuotaStep ==
  ASSUME TypeInv, TypeInv', NEW r \in Resellers, NEW c \in Calls, MaxUsers[r] > 0,
         RoomTaken(r) <= MaxUsers[r] - 1 + Cardinality(Calls),
         \/ LinesOf(r)' \subseteq LinesOf(r) /\ Adding(r)' \subseteq Adding(r)
         \/ LinesOf(r)' \subseteq LinesOf(r) /\ Cardinality(LinesOf(r)) < MaxUsers[r]
         \/ /\ \E u \in Users : LinesOf(r)' \subseteq LinesOf(r) \cup {u}
            /\ c \in Adding(r) /\ Adding(r)' = Adding(r) \ {c}
  PROVE  RoomTaken(r)' <= MaxUsers[r] - 1 + Cardinality(Calls)
<1> DEFINE L == LinesOf(r) M == LinesOf(r)' W == Adding(r) V == Adding(r)' k == Cardinality(Calls)
<1>1. W \in SUBSET Calls /\ V \in SUBSET Calls /\ L \in SUBSET Users /\ M \in SUBSET Users
  BY DEF Adding, LinesOf
<1>2. MaxUsers[r] \in Nat /\ IsFiniteSet(Users)
  BY CreditsAssumption DEF CreditsAssumption
<1>3. /\ IsFiniteSet(W) /\ Cardinality(W) \in Nat /\ Cardinality(V) \in Nat
      /\ Cardinality(V) <= k /\ k \in Nat
      /\ c \in W => Cardinality(W \ {c}) = Cardinality(W) - 1
  BY <1>1, CallsCount
<1>4. V \subseteq W => Cardinality(V) <= Cardinality(W)
  BY <1>3, FS_Subset
<1>5. IsFiniteSet(L) /\ Cardinality(L) \in Nat /\ Cardinality(M) \in Nat
  BY <1>1, <1>2, FS_Subset, FS_CardinalityType
<1>6. M \subseteq L => Cardinality(M) <= Cardinality(L)
  BY <1>5, FS_Subset
<1>7. ASSUME NEW u \in Users, M \subseteq L \cup {u} PROVE Cardinality(M) <= Cardinality(L) + 1
  <2>1. IsFiniteSet(L \cup {u}) /\ Cardinality(L \cup {u}) <= Cardinality(L) + 1
        /\ Cardinality(L \cup {u}) \in Nat
    <3>1. IsFiniteSet(L \cup {u})
          /\ Cardinality(L \cup {u}) = IF u \in L THEN Cardinality(L) ELSE Cardinality(L) + 1
      BY <1>5, FS_AddElement
    <3> QED BY <1>5, <3>1
  <2>2. Cardinality(M) <= Cardinality(L \cup {u})
    BY <1>7, <2>1, FS_Subset
  <2> QED BY <1>5, <2>1, <2>2
<1>8. /\ MaxUsers[r] > 0 /\ Cardinality(L) + Cardinality(W) <= MaxUsers[r] - 1 + k
      /\ \/ M \subseteq L /\ V \subseteq W
         \/ M \subseteq L /\ Cardinality(L) < MaxUsers[r]
         \/ (\E u \in Users : M \subseteq L \cup {u}) /\ c \in W /\ V = W \ {c}
  BY DEF RoomTaken
<1> HIDE DEF L, M, W, V, k
<1>9. Cardinality(M) + Cardinality(V) <= MaxUsers[r] - 1 + k
  <2>1. CASE M \subseteq L /\ V \subseteq W
    BY <1>2, <1>3, <1>4, <1>5, <1>6, <1>8, <2>1
  <2>2. CASE M \subseteq L /\ Cardinality(L) < MaxUsers[r]
    BY <1>2, <1>3, <1>5, <1>6, <1>8, <2>2
  <2>3. CASE (\E u \in Users : M \subseteq L \cup {u}) /\ c \in W /\ V = W \ {c}
    <3>1. Cardinality(M) <= Cardinality(L) + 1 /\ Cardinality(V) = Cardinality(W) - 1
      BY <1>3, <1>7, <2>3
    <3> QED BY <1>2, <1>3, <1>5, <1>8, <3>1
  <2> QED BY <1>8, <2>1, <2>2, <2>3
<1> QED BY <1>9 DEF RoomTaken, M, V, k

\* A call that holds no room for a line afterwards, and has added none.
LEMMA OtherQuota ==
  ASSUME TypeInv, TypeInv', QuotaInv, NEW c \in Calls, pc'[c] \notin Holding,
         \A d \in Calls : d # c => pc'[d] = pc[d] /\ task'[d] = task[d],
         \A r \in Resellers : LinesOf(r)' \subseteq LinesOf(r)
  PROVE  QuotaInv'
<1>1. ASSUME NEW r \in Resellers, MaxUsers[r] > 0
      PROVE  RoomTaken(r)' <= MaxUsers[r] - 1 + Cardinality(Calls)
  <2>1. Adding(r)' \subseteq Adding(r)
    BY DEF Adding
  <2>2. RoomTaken(r) <= MaxUsers[r] - 1 + Cardinality(Calls)
    BY <1>1 DEF QuotaInv
  <2> QED BY <1>1, <2>1, <2>2, QuotaStep
<1> QED BY <1>1 DEF QuotaInv

\* A call that reads, and may have counted the lines.
LEMMA CountQuota ==
  ASSUME TypeInv, TypeInv', QuotaInv, NEW c \in Calls, NEW p, NEW t, Takes(c, p, t),
         UNCHANGED owner
  PROVE  QuotaInv'
<1>1. /\ pc'[c] = p /\ task'[c] = t /\ (p \in Holding => QuotaLeft(t.r))
      /\ \A d \in Calls : d # c => pc'[d] = pc[d] /\ task'[d] = task[d]
  BY DEF Takes, TypeInv, TypeOK
<1>2. ASSUME NEW r \in Resellers, MaxUsers[r] > 0
      PROVE  RoomTaken(r)' <= MaxUsers[r] - 1 + Cardinality(Calls)
  <2>1. LinesOf(r)' \subseteq LinesOf(r)
    BY DEF LinesOf
  <2>2. RoomTaken(r) <= MaxUsers[r] - 1 + Cardinality(Calls)
    BY <1>2 DEF QuotaInv
  <2>3. CASE p \in Holding /\ t.r = r
    <3>1. Cardinality(LinesOf(r)) < MaxUsers[r]
      BY <1>1, <1>2, <2>3, CreditsAssumption DEF QuotaLeft, CreditsAssumption
    <3> QED BY <1>2, <2>1, <2>2, <3>1, QuotaStep
  <2>4. CASE ~(p \in Holding /\ t.r = r)
    <3>1. Adding(r)' \subseteq Adding(r)
      BY <1>1, <2>4 DEF Adding
    <3> QED BY <1>2, <2>1, <2>2, <3>1, QuotaStep
  <2> QED BY <2>3, <2>4
<1> QED BY <1>2 DEF QuotaInv

\* A call that adds the line it holds room for.
LEMMA AddQuota ==
  ASSUME TypeInv, TypeInv', LinesInv, QuotaInv, NEW c \in Calls, SellCommit(c) \/ CreateInsert(c)
  PROVE  QuotaInv'
<1>1. /\ pc[c] \in Holding /\ pc'[c] \notin Holding
      /\ \A d \in Calls : d # c => pc'[d] = pc[d] /\ task'[d] = task[d]
      /\ owner' = [u \in Users |-> IF u \in task[c].us THEN task[c].r ELSE owner[u]]
  BY DEF SellCommit, CreateInsert, Close, Holding, TypeInv, TypeOK
<1>2. PICK v \in Users : task[c].us = {v}
  BY <1>1 DEF LinesInv
<1>3. ASSUME NEW r \in Resellers, MaxUsers[r] > 0
      PROVE  RoomTaken(r)' <= MaxUsers[r] - 1 + Cardinality(Calls)
  <2>1. RoomTaken(r) <= MaxUsers[r] - 1 + Cardinality(Calls)
    BY <1>3 DEF QuotaInv
  <2>2. CASE r = task[c].r
    <3>1. LinesOf(r)' \subseteq LinesOf(r) \cup {v}
      BY <1>1, <1>2 DEF LinesOf
    <3>2. c \in Adding(r) /\ Adding(r)' = Adding(r) \ {c}
      BY <1>1, <2>2 DEF Adding
    <3> QED BY <1>3, <2>1, <3>1, <3>2, QuotaStep
  <2>3. CASE r # task[c].r
    <3>1. LinesOf(r)' \subseteq LinesOf(r)
      BY <1>1, <2>3 DEF LinesOf
    <3>2. Adding(r)' \subseteq Adding(r)
      BY <1>1 DEF Adding
    <3> QED BY <1>3, <2>1, <3>1, <3>2, QuotaStep
  <2> QED BY <2>2, <2>3
<1> QED BY <1>3 DEF QuotaInv

LEMMA InitQuota == Init => QuotaInv
<1> SUFFICES ASSUME Init, NEW r \in Resellers, MaxUsers[r] > 0
             PROVE  RoomTaken(r) <= MaxUsers[r] - 1 + Cardinality(Calls)
  BY DEF QuotaInv
<1>1. LinesOf(r) = {} /\ Adding(r) = {} /\ MaxUsers[r] \in Nat
  BY CreditsAssumption DEF Init, LinesOf, Adding, Holding, CreditsAssumption
<1>2. Cardinality({}) = 0
  BY FS_EmptySet
<1> QED BY <1>1, <1>2, CallsCount DEF RoomTaken

LEMMA StepQuota == TypeInv /\ LinesInv /\ QuotaInv /\ [Next]_vars => QuotaInv'
<1> SUFFICES ASSUME TypeInv, LinesInv, QuotaInv, [Next]_vars PROVE QuotaInv'
  OBVIOUS
<1>0. TypeInv'
  BY StepTypes
<1>1. CASE UNCHANGED vars \/ \E k \in Comms : Accrue(k)
  <2>1. UNCHANGED <<pc, task, owner>>
    BY <1>1 DEF vars, lineVars, Accrue
  <2>2. \A r : RoomTaken(r)' = RoomTaken(r)
    BY <2>1 DEF RoomTaken, Adding, LinesOf
  <2> QED BY <2>2 DEF QuotaInv
<1>2. ASSUME NEW c \in Calls,
             \/ Selling(c) \/ Creating(c) \/ Extending(c) \/ Moving(c) \/ Managing(c) \/ Paying(c)
      PROVE  QuotaInv'
  <2>1. CASE \/ SellFails(c) \/ CreateFails(c) \/ BouquetGone(c) \/ ExtendRefused(c)
             \/ ExtendFails(c) \/ TransferFails(c) \/ SubFails(c) \/ CommissionGone(c)
             \/ DeductCommit(c) \/ ExtendCommit(c) \/ TransferCommit(c) \/ AddCommit(c)
             \/ PayCommit(c) \/ RemoveCommit(c) \/ SubCommit(c) \/ DeleteCommit(c)
    <3>1. Close(c) /\ owner' = owner
      BY <2>1 DEF SellFails, CreateFails, BouquetGone, ExtendRefused, ExtendFails, TransferFails,
         SubFails, CommissionGone, DeductCommit, ExtendCommit, TransferCommit, AddCommit, PayCommit,
         RemoveCommit, SubCommit, DeleteCommit, Abort, lineVars
    <3>2. /\ pc'[c] = "idle" /\ \A d \in Calls : d # c => pc'[d] = pc[d] /\ task'[d] = task[d]
      BY <3>1 DEF Close, TypeInv, TypeOK
    <3>3. \A r \in Resellers : LinesOf(r)' \subseteq LinesOf(r)
      BY <3>1 DEF LinesOf
    <3> QED BY <1>0, <3>2, <3>3, OtherQuota DEF Holding
  <2>2. CASE Rollback(c)
    <3>1. /\ pc'[c] = "idle" /\ \A d \in Calls : d # c => pc'[d] = pc[d] /\ task'[d] = task[d]
      BY <2>2 DEF Rollback, Close, TypeInv, TypeOK
    <3>2. \A r \in Resellers : LinesOf(r)' \subseteq LinesOf(r)
      BY <2>2, CreditsAssumption DEF Rollback, LinesOf, CreditsAssumption
    <3> QED BY <1>0, <3>1, <3>2, OtherQuota DEF Holding
  <2>3. CASE \/ SellRead(c) \/ CreateRead(c) \/ DeductRead(c) \/ ExtendRead(c) \/ ExtendBalance(c)
             \/ RenewRead(c) \/ TransferRead(c) \/ SubRead(c) \/ DeleteRead(c) \/ AddRead(c)
             \/ PayRead(c) \/ PayBalance(c) \/ RemoveRead(c)
    <3>1. UNCHANGED owner /\ \E p, t : Takes(c, p, t)
      BY <2>3, ReadLines DEF lineVars
    <3> QED BY <1>0, <3>1, CountQuota
  <2> QED
    BY <1>0, <1>2, <2>1, <2>2, <2>3, AddQuota
    DEF Selling, Creating, Extending, Moving, Managing, Paying
<1> QED BY <1>1, <1>2 DEF Next

\* However many calls overlap, a quota is overrun by at most one line for each of
\* them but one, and not further over time.
THEOREM QuotaOvershootBoundedHolds == Spec => []QuotaOvershootBounded
<1>1. TypeInv /\ QuotaInv => QuotaOvershootBounded
  <2> SUFFICES ASSUME TypeInv, QuotaInv, NEW r \in Resellers, MaxUsers[r] > 0
               PROVE  Cardinality(LinesOf(r)) < MaxUsers[r] + Cardinality(Calls)
    BY DEF QuotaOvershootBounded
  <2>1. Cardinality(Adding(r)) \in Nat /\ Cardinality(Calls) \in Nat
    BY CallsCount DEF Adding
  <2>2. MaxUsers[r] \in Nat
    BY CreditsAssumption DEF CreditsAssumption
  <2> QED BY <2>1, <2>2, LinesFinite DEF QuotaInv, RoomTaken
<1> QED
  BY <1>1, InitTypes, StepTypes, InitLines, StepLines, InitQuota, StepQuota, PTL DEF Spec

\* The damage overlapping calls can do to balances, quotas and commissions is
\* bounded by how many overlap, for any number of calls, resellers, lines and steps.
THEOREM RacesAreBoundedHolds == Spec => []RacesAreBounded
<1>1. OverdraftBounded /\ QuotaOvershootBounded /\ PayoutsBounded => RacesAreBounded
  BY DEF RacesAreBounded
<1> QED BY <1>1, OverdraftBoundedHolds, QuotaOvershootBoundedHolds, PayoutsBoundedHolds, PTL

----------------------------------------------------------------------------
(* Months.  Inductive: a line that was never there has no service and no   *)
(* charge; calls between a line's insert and its charge hold lines of      *)
(* their own, which have service and no charge yet; and a call that is     *)
(* about to extend a line knows its expiry.                                *)

KeptMonths(u) ==
  /\ months[u] >= charged[u]
  /\ \A c \in Calls : u \in task[c].us =>
       /\ pc[c] \in Unpaid => charged[u] = 0
       /\ pc[c] \in {"created", "deduct"} => months[u] > 0
       /\ pc[c] \in Dated => task[c].had[u] = months[u]

MonthsInv ==
  /\ \A u \in Users : owner[u] = Nobody => months[u] = 0 /\ charged[u] = 0
  /\ \A c \in Calls : pc[c] \in Unpaid \cup Dated => \A u \in task[c].us : owner[u] # Nobody
  /\ \A c, d \in Calls : c # d /\ pc[c] \in Unpaid /\ pc[d] \in Unpaid => task[c].us \cap task[d].us = {}
  /\ \A u \in Users : <<"months", u>> \notin slipped => KeptMonths(u)

\* A step of c that leaves the lines alone.
LEMMA EnterMonths ==
  ASSUME TypeInv, MonthsInv, NEW c \in Calls, NEW p, NEW t,
         pc' = [pc EXCEPT ![c] = p], task' = [task EXCEPT ![c] = t], slipped \subseteq slipped',
         UNCHANGED lineVars, t.us \subseteq Users,
         p \in Unpaid => pc[c] = "created" /\ t.us = task[c].us,
         p \in Dated => \/ \A u \in t.us : owner[u] \in Resellers /\ t.had[u] = months[u]
                        \/ pc[c] = "balance" /\ t.us = task[c].us /\ t.had = task[c].had
  PROVE  MonthsInv'
<1>1. /\ pc'[c] = p /\ task'[c] = t
      /\ \A d \in Calls : d # c => pc'[d] = pc[d] /\ task'[d] = task[d]
      /\ owner' = owner /\ months' = months /\ charged' = charged /\ Nobody \notin Resellers
  BY CreditsAssumption DEF TypeInv, TypeOK, lineVars, CreditsAssumption
<1>2. ASSUME NEW d \in Calls, pc'[d] \in Unpaid \cup Dated PROVE \A u \in task'[d].us : owner[u] # Nobody
  BY <1>1, <1>2 DEF MonthsInv, Unpaid, Dated
<1>3. ASSUME NEW d \in Calls, NEW e \in Calls, d # e, pc'[d] \in Unpaid, pc'[e] \in Unpaid
      PROVE  task'[d].us \cap task'[e].us = {}
  <2>1. \A a \in Calls : pc'[a] \in Unpaid => pc[a] \in Unpaid /\ task'[a].us = task[a].us
    BY <1>1 DEF Unpaid
  <2> QED BY <1>3, <2>1 DEF MonthsInv
<1>4. ASSUME NEW u \in Users, <<"months", u>> \notin slipped' PROVE KeptMonths(u)'
  <2>1. KeptMonths(u)
    BY <1>4 DEF MonthsInv
  <2>2. ASSUME NEW d \in Calls, u \in task'[d].us
        PROVE  /\ pc'[d] \in Unpaid => charged[u] = 0
               /\ pc'[d] \in {"created", "deduct"} => months[u] > 0
               /\ pc'[d] \in Dated => task'[d].had[u] = months[u]
    <3>1. CASE d = c
      BY <1>1, <2>1, <2>2, <3>1 DEF KeptMonths, Unpaid, Dated
    <3>2. CASE d # c
      BY <1>1, <2>1, <2>2, <3>2 DEF KeptMonths
    <3> QED BY <3>1, <3>2
  <2> QED BY <1>1, <2>1, <2>2 DEF KeptMonths
<1> QED BY <1>1, <1>2, <1>3, <1>4 DEF MonthsInv

\* A step of c that writes its own lines and ends it, or inserts them.
LEMMA WriteMonths ==
  ASSUME TypeInv, MonthsInv, NEW c \in Calls, NEW p \in {"idle", "created"},
         pc' = [pc EXCEPT ![c] = p], \A d \in Calls : d # c => task'[d] = task[d],
         slipped \subseteq slipped',
         \A u \in Users \ task[c].us : owner'[u] = owner[u] /\ months'[u] = months[u] /\ charged'[u] = charged[u],
         \A u \in task[c].us : owner'[u] # Nobody,
         p = "created" => task'[c] = task[c] /\ \A u \in task[c].us : owner[u] = Nobody,
         \A u \in task[c].us : <<"months", u>> \notin slipped' =>
           /\ months'[u] >= charged'[u]
           /\ p = "created" => months'[u] > 0 /\ charged'[u] = 0
           /\ \A d \in Calls \ {c} : u \in task[d].us =>
                pc[d] \notin Unpaid /\ (pc[d] \in Dated => months'[u] = months[u])
  PROVE  MonthsInv'
<1>1. /\ pc'[c] = p /\ \A d \in Calls : d # c => pc'[d] = pc[d] /\ task'[d] = task[d]
      /\ \A d \in Calls : task[d].us \subseteq Users
  BY DEF TypeInv, TypeOK, Tasks
<1>2. \A u \in Users : owner'[u] = Nobody => months'[u] = 0 /\ charged'[u] = 0
  BY DEF MonthsInv
<1>3. ASSUME NEW d \in Calls, pc'[d] \in Unpaid \cup Dated PROVE \A u \in task'[d].us : owner'[u] # Nobody
  <2>1. CASE d = c
    BY <1>1, <1>3, <2>1 DEF Unpaid, Dated
  <2>2. CASE d # c
    BY <1>1, <1>3, <2>2 DEF MonthsInv
  <2> QED BY <2>1, <2>2
<1>4. ASSUME NEW d \in Calls, d # c, pc[d] \in Unpaid, p = "created" PROVE task[d].us \cap task[c].us = {}
  BY <1>4 DEF MonthsInv
<1>5. ASSUME NEW d \in Calls, NEW e \in Calls, d # e, pc'[d] \in Unpaid, pc'[e] \in Unpaid
      PROVE  task'[d].us \cap task'[e].us = {}
  <2>1. pc'[c] \in Unpaid => p = "created"
    BY <1>1 DEF Unpaid
  <2>2. CASE d # c /\ e # c
    BY <1>1, <1>5, <2>2 DEF MonthsInv
  <2>3. CASE d = c
    BY <1>1, <1>4, <1>5, <2>1, <2>3
  <2>4. CASE e = c
    BY <1>1, <1>4, <1>5, <2>1, <2>4
  <2> QED BY <2>2, <2>3, <2>4
<1>6. ASSUME NEW u \in Users, <<"months", u>> \notin slipped' PROVE KeptMonths(u)'
  <2>1. KeptMonths(u)
    BY <1>6 DEF MonthsInv
  <2>2. CASE u \in task[c].us
    <3>1. ASSUME NEW d \in Calls, u \in task'[d].us
          PROVE  /\ pc'[d] \in Unpaid => charged'[u] = 0
                 /\ pc'[d] \in {"created", "deduct"} => months'[u] > 0
                 /\ pc'[d] \in Dated => task'[d].had[u] = months'[u]
      <4>1. CASE d = c
        BY <1>1, <1>6, <2>2, <4>1 DEF Unpaid, Dated
      <4>2. CASE d # c
        <5>1. pc'[d] = pc[d] /\ task'[d] = task[d] /\ u \in task[d].us
          BY <1>1, <3>1, <4>2
        <5>2. pc[d] \notin Unpaid /\ (pc[d] \in Dated => months'[u] = months[u])
          BY <1>6, <2>2, <4>2, <5>1
        <5> QED BY <2>1, <5>1, <5>2 DEF KeptMonths, Unpaid
      <4> QED BY <4>1, <4>2
    <3> QED BY <1>6, <2>2, <3>1 DEF KeptMonths
  <2>3. CASE u \notin task[c].us
    <3>1. owner'[u] = owner[u] /\ months'[u] = months[u] /\ charged'[u] = charged[u]
      BY <2>3
    <3>2. \A d \in Calls : u \in task'[d].us /\ pc'[d] \in Unpaid \cup Dated => pc'[d] = pc[d] /\ task'[d] = task[d]
      BY <1>1, <2>3 DEF Unpaid, Dated
    <3> QED BY <2>1, <3>1, <3>2 DEF KeptMonths, Unpaid
  <2> QED BY <2>2, <2>3
<1> QED BY <1>2, <1>3, <1>5, <1>6 DEF MonthsInv

\* What the five writes to lines give WriteMonths.
LEMMA LineMonths ==
  ASSUME TypeInv, MonthsInv, NEW c \in Calls,
         SellCommit(c) \/ CreateInsert(c) \/ DeductCommit(c) \/ Rollback(c) \/ ExtendCommit(c)
  PROVE  MonthsInv'
<1> DEFINE us == task[c].us
<1>1. /\ us \subseteq Users /\ months \in [Users -> Nat] /\ charged \in [Users -> Nat]
      /\ owner \in [Users -> Resellers \cup {Nobody, "removed"}] /\ task[c].had \in [Users -> Nat]
      /\ Nobody \notin Resellers
      /\ pc[c] # "idle" => task[c].r \in Resellers \/ pc[c] = "remove"
  BY CreditsAssumption DEF TypeInv, TypeOK, Tasks, Posed, CreditsAssumption
<1>2. \A u \in us : owner[u] = Nobody => \A d \in Calls : u \in task[d].us => pc[d] \notin Unpaid \cup Dated
  BY DEF MonthsInv
<1>3. slipped \subseteq slipped'
  BY DEF SellCommit, CreateInsert, DeductCommit, Rollback, ExtendCommit, Slip
<1>4. CASE SellCommit(c)
  <2>1. /\ pc' = [pc EXCEPT ![c] = "idle"] /\ \A d \in Calls : d # c => task'[d] = task[d]
        /\ \A u \in us : owner[u] = Nobody /\ owner'[u] = task[c].r /\ months'[u] = 1 /\ charged'[u] = charged[u] + 1
        /\ \A u \in Users \ us : owner'[u] = owner[u] /\ months'[u] = months[u] /\ charged'[u] = charged[u]
        /\ task[c].r \in Resellers
    BY <1>1, <1>4 DEF SellCommit, Close, TypeInv, TypeOK
  <2>2. \A u \in us : charged[u] = 0
    BY <1>1, <2>1 DEF MonthsInv
  <2>3. /\ \A u \in us : owner'[u] # Nobody /\ months'[u] >= charged'[u]
        /\ \A u \in us : \A d \in Calls \ {c} : u \in task[d].us => pc[d] \notin Unpaid \cup Dated
    BY <1>1, <1>2, <2>1, <2>2
  <2> QED BY <1>3, <2>1, <2>3, WriteMonths
<1>5. CASE CreateInsert(c)
  <2>1. /\ pc' = [pc EXCEPT ![c] = "created"] /\ task' = task
        /\ \A u \in us : owner[u] = Nobody /\ owner'[u] = task[c].r /\ months'[u] = 1 /\ charged'[u] = charged[u]
        /\ \A u \in Users \ us : owner'[u] = owner[u] /\ months'[u] = months[u] /\ charged'[u] = charged[u]
        /\ task[c].r \in Resellers
    BY <1>1, <1>5 DEF CreateInsert
  <2>2. \A u \in us : charged[u] = 0
    BY <1>1, <2>1 DEF MonthsInv
  <2>3. /\ \A u \in us : owner'[u] # Nobody /\ months'[u] > 0 /\ charged'[u] = 0 /\ months'[u] >= charged'[u]
        /\ \A u \in us : \A d \in Calls \ {c} : u \in task[d].us => pc[d] \notin Unpaid \cup Dated
    BY <1>1, <1>2, <2>1, <2>2
  <2> QED BY <1>3, <2>1, <2>3, WriteMonths
<1>6. CASE DeductCommit(c)
  <2>1. /\ pc[c] = "deduct" /\ pc' = [pc EXCEPT ![c] = "idle"] /\ \A d \in Calls : d # c => task'[d] = task[d]
        /\ owner' = owner /\ months' = months
        /\ \A u \in us : charged'[u] = charged[u] + 1
        /\ \A u \in Users \ us : charged'[u] = charged[u]
    BY <1>1, <1>6 DEF DeductCommit, Close, TypeInv, TypeOK
  <2>2. \A u \in us : owner[u] # Nobody
    BY <2>1 DEF MonthsInv, Unpaid
  <2>3. \A u \in us : \A d \in Calls \ {c} : u \in task[d].us => pc[d] \notin Unpaid
    BY <2>1 DEF MonthsInv, Unpaid
  <2>4. ASSUME NEW u \in us, <<"months", u>> \notin slipped' PROVE months'[u] >= charged'[u]
    <3>1. KeptMonths(u) /\ u \in Users
      BY <1>1, <1>3, <2>4 DEF MonthsInv
    <3>2. charged[u] = 0 /\ months[u] > 0
      BY <2>1, <3>1 DEF KeptMonths, Unpaid
    <3> QED BY <1>1, <2>1, <3>1, <3>2
  <2> QED BY <1>3, <2>1, <2>2, <2>3, <2>4, WriteMonths
<1>7. CASE Rollback(c)
  <2> DEFINE F == {<<"months", u>> : u \in us}
  <2>1. /\ pc[c] = "rollback" /\ pc' = [pc EXCEPT ![c] = "idle"] /\ \A d \in Calls : d # c => task'[d] = task[d]
        /\ charged' = charged
        /\ \A u \in us : owner'[u] = "removed" /\ months'[u] = 0
        /\ \A u \in Users \ us : owner'[u] = owner[u] /\ months'[u] = months[u]
        /\ Slip(c, F) /\ \A u \in us : <<"months", u>> \in F
    BY <1>1, <1>7 DEF Rollback, Close, TypeInv, TypeOK
  <2>2. \A u \in us : owner'[u] # Nobody
    BY <2>1, CreditsAssumption DEF CreditsAssumption
  <2> HIDE DEF F
  <2>3. ASSUME NEW u \in us, <<"months", u>> \notin slipped'
        PROVE  /\ charged[u] = 0
               /\ \A d \in Calls \ {c} : u \in task[d].us => pc[d] \notin Unpaid \cup Dated
    <3>1. KeptMonths(u)
      BY <1>1, <1>3, <2>3 DEF MonthsInv
    <3>2. charged[u] = 0
      BY <2>1, <3>1 DEF KeptMonths, Unpaid
    <3>3. \A d \in Calls \ {c} : <<"months", u>> \notin Relies(d)
      BY <2>1, <2>3, NotSlipped
    <3> QED BY <3>2, <3>3, HeldLines
  <2>4. \A u \in Users \ us : owner'[u] = owner[u] /\ months'[u] = months[u] /\ charged'[u] = charged[u]
    BY <2>1
  <2>5. ASSUME NEW u \in us, <<"months", u>> \notin slipped'
        PROVE  /\ months'[u] >= charged'[u]
               /\ \A d \in Calls \ {c} : u \in task[d].us => pc[d] \notin Unpaid \cup Dated
    BY <2>1, <2>3, <2>5
  <2> QED BY <1>3, <2>1, <2>2, <2>4, <2>5, WriteMonths
<1>8. CASE ExtendCommit(c)
  <2> DEFINE F == Spent(task[c].r, task[c].n) \cup {<<"months", u>> : u \in us}
  <2>1. /\ pc[c] = "extend" /\ pc' = [pc EXCEPT ![c] = "idle"] /\ \A d \in Calls : d # c => task'[d] = task[d]
        /\ owner' = owner
        /\ \A u \in us : months'[u] = task[c].had[u] + 1 /\ charged'[u] = charged[u] + 1
        /\ \A u \in Users \ us : months'[u] = months[u] /\ charged'[u] = charged[u]
        /\ Slip(c, F) /\ \A u \in us : <<"months", u>> \in F
    BY <1>1, <1>8 DEF ExtendCommit, Close, TypeInv, TypeOK
  <2> HIDE DEF F
  <2>2. \A u \in us : owner[u] # Nobody
    BY <2>1 DEF MonthsInv, Dated
  <2>3. ASSUME NEW u \in us, <<"months", u>> \notin slipped'
        PROVE  /\ months'[u] >= charged'[u]
               /\ \A d \in Calls \ {c} : u \in task[d].us => pc[d] \notin Unpaid \cup Dated
    <3>1. KeptMonths(u) /\ u \in Users
      BY <1>1, <1>3, <2>3 DEF MonthsInv
    <3>2. task[c].had[u] = months[u] /\ months[u] >= charged[u]
      BY <2>1, <3>1 DEF KeptMonths, Dated
    <3>3. \A d \in Calls \ {c} : <<"months", u>> \notin Relies(d)
      BY <2>1, <2>3, NotSlipped
    <3>4. \A d \in Calls \ {c} : u \in task[d].us => pc[d] \notin Unpaid \cup Dated
      BY <3>3, HeldLines
    <3>5. months'[u] >= charged'[u]
      BY <1>1, <2>1, <2>3, <3>1, <3>2
    <3> QED BY <3>4, <3>5
  <2> QED BY <1>3, <2>1, <2>2, <2>3, WriteMonths
<1> QED BY <1>4, <1>5, <1>6, <1>7, <1>8

LEMMA InitMonths == Init => MonthsInv
  BY DEF Init, MonthsInv, KeptMonths, Blank, Unpaid, Dated

LEMMA StepMonths == TypeInv /\ MonthsInv /\ [Next]_vars => MonthsInv'
<1> SUFFICES ASSUME TypeInv, MonthsInv, [Next]_vars PROVE MonthsInv'
  OBVIOUS
<1>1. CASE UNCHANGED <<pc, task, slipped, lineVars>>
  BY <1>1 DEF MonthsInv, KeptMonths, lineVars
<1>2. CASE UNCHANGED vars \/ \E k \in Comms : Accrue(k)
  BY <1>1, <1>2 DEF vars, Accrue
<1>3. ASSUME NEW c \in Calls,
             \/ Selling(c) \/ Creating(c) \/ Extending(c) \/ Moving(c) \/ Managing(c) \/ Paying(c)
      PROVE  MonthsInv'
  <2>1. CASE \/ SellFails(c) \/ CreateFails(c) \/ BouquetGone(c) \/ ExtendRefused(c)
             \/ ExtendFails(c) \/ TransferFails(c) \/ SubFails(c) \/ CommissionGone(c)
             \/ TransferCommit(c) \/ SubCommit(c) \/ DeleteCommit(c) \/ AddCommit(c)
             \/ PayCommit(c) \/ RemoveCommit(c)
    <3>1. Close(c) /\ UNCHANGED lineVars /\ slipped \subseteq slipped'
      BY <2>1 DEF SellFails, CreateFails, BouquetGone, ExtendRefused, ExtendFails,
         TransferFails, SubFails, CommissionGone, Abort, TransferCommit, SubCommit,
         DeleteCommit, AddCommit, PayCommit, RemoveCommit, Slip
    <3>2. pc' = [pc EXCEPT ![c] = "idle"] /\ task' = [task EXCEPT ![c] = Blank] /\ Blank.us = {}
      BY <3>1 DEF Close, Blank
    <3> QED BY <3>1, <3>2, EnterMonths DEF Unpaid, Dated
  <2>2. CASE \/ SellRead(c) \/ CreateRead(c) \/ DeductRead(c) \/ ExtendRead(c) \/ ExtendBalance(c)
             \/ RenewRead(c) \/ TransferRead(c) \/ SubRead(c) \/ DeleteRead(c) \/ AddRead(c)
             \/ PayRead(c) \/ PayBalance(c) \/ RemoveRead(c)
    <3>1. UNCHANGED <<rowVars, lineVars, slipped>>
      BY <2>2, ReadLines
    <3>2. PICK p, t : Takes(c, p, t)
      BY <2>2, ReadLines
    <3>3. t.us \subseteq Users
      BY <2>2, <3>2, ReadTypes DEF Takes, TypeInv, TypeOK, Tasks
    <3> QED BY <3>1, <3>2, <3>3, EnterMonths DEF Takes
  <2> QED
    BY <1>3, <2>1, <2>2, LineMonths
    DEF Selling, Creating, Extending, Moving, Managing, Paying
<1> QED BY <1>2, <1>3 DEF Next

\* No paid period is lost, unless a line's expiry was written or the line taken
\* back under a call that had read it, for any number of calls and lines.
THEOREM NoLostMonthsHolds == Spec => []NoLostMonths
<1>1. MonthsInv => NoLostMonths
  BY DEF MonthsInv, KeptMonths, NoLostMonths
<1> QED BY <1>1, InitTypes, StepTypes, InitMonths, StepMonths, PTL DEF Spec

\* Service that is not charged comes only from an insert of UserController.create,
\* unless the line's expiry slipped.
THEOREM MonthsAreChargedHolds == Spec => MonthsAreCharged
<1>1. ASSUME TypeInv, MonthsInv, [Next]_vars, NEW u \in Users, <<"months", u>> \notin slipped,
             months'[u] - months[u] > charged'[u] - charged[u]
      PROVE  \E c \in Calls : pc[c] = "insert" /\ u \in task[c].us
  <2>1. months[u] \in Nat /\ charged[u] \in Nat /\ KeptMonths(u)
    BY <1>1 DEF TypeInv, TypeOK, MonthsInv
  <2>2. ~UNCHANGED lineVars
    BY <1>1, <2>1 DEF lineVars
  <2>3. PICK c \in Calls :
          SellCommit(c) \/ CreateInsert(c) \/ DeductCommit(c) \/ Rollback(c) \/ ExtendCommit(c)
    <3>1. ASSUME NEW c \in Calls,
                 \/ SellFails(c) \/ CreateFails(c) \/ BouquetGone(c) \/ ExtendRefused(c)
                 \/ ExtendFails(c) \/ TransferFails(c) \/ SubFails(c) \/ CommissionGone(c)
                 \/ TransferCommit(c) \/ SubCommit(c) \/ DeleteCommit(c) \/ AddCommit(c)
                 \/ PayCommit(c) \/ RemoveCommit(c)
          PROVE  UNCHANGED lineVars
      BY <3>1 DEF SellFails, CreateFails, BouquetGone, ExtendRefused, ExtendFails,
         TransferFails, SubFails, CommissionGone, Abort, TransferCommit, SubCommit,
         DeleteCommit, AddCommit, PayCommit, RemoveCommit
    <3>2. ASSUME NEW c \in Calls,
                 \/ SellRead(c) \/ CreateRead(c) \/ DeductRead(c) \/ ExtendRead(c) \/ ExtendBalance(c)
                 \/ RenewRead(c) \/ TransferRead(c) \/ SubRead(c) \/ DeleteRead(c) \/ AddRead(c)
                 \/ PayRead(c) \/ PayBalance(c) \/ RemoveRead(c)
          PROVE  UNCHANGED lineVars
      BY <1>1, <3>2, ReadLines
    <3>3. ASSUME UNCHANGED vars \/ \E k \in Comms : Accrue(k) PROVE UNCHANGED lineVars
      BY <3>3 DEF vars, Accrue
    <3> QED BY <1>1, <2>2, <3>1, <3>2, <3>3
      DEF Next, Selling, Creating, Extending, Moving, Managing, Paying
  <2>4. CASE CreateInsert(c)
    BY <1>1, <2>1, <2>4 DEF CreateInsert
  <2>5. CASE SellCommit(c)
    BY <1>1, <2>1, <2>5 DEF SellCommit, MonthsInv
  <2>6. CASE DeductCommit(c)
    BY <1>1, <2>1, <2>6 DEF DeductCommit
  <2>7. CASE Rollback(c)
    BY <1>1, <2>1, <2>7 DEF Rollback
  <2>8. CASE ExtendCommit(c)
    BY <1>1, <2>1, <2>8 DEF ExtendCommit, KeptMonths, Dated
  <2> QED BY <2>3, <2>4, <2>5, <2>6, <2>7, <2>8
<1>2. TypeInv /\ MonthsInv /\ [Next]_vars =>
        [\A u \in Users :
           <<"months", u>> \notin slipped /\ months'[u] - months[u] > charged'[u] - charged[u] =>
             \E c \in Calls : pc[c] = "insert" /\ u \in task[c].us]_vars
  BY <1>1
<1> QED BY <1>2, InitTypes, StepTypes, InitMonths, StepMonths, PTL DEF Spec, MonthsAreCharged

----------------------------------------------------------------------------
(* Where the calls come one at a time nothing slips, so that the promises  *)
(* above hold without their "unless": what breaks them is the overlap of   *)
(* calls, and never a long sequence of them.                               *)

OneAtATime == \A c, d \in Calls : c # d => pc[c] = "idle" \/ pc[d] = "idle"

Unspoilt ==
  /\ \A r \in Resellers :
       /\ credits[r] >= 0 /\ shown[r] = credits[r]
       /\ MaxUsers[r] > 0 => Cardinality(LinesOf(r)) <= MaxUsers[r]
       /\ account[r] = "deleted" => LinesOf(r) = {} /\ ChildrenOf(r) = {}
  /\ \A u \in Users : months[u] >= charged[u]
  /\ \A k \in Comms : payouts[k] = IF comm[k] = "PAID" THEN 1 ELSE 0

\* A call that is not there relies on nothing.
LEMMA IdleRelies ==
  ASSUME NEW d \in Calls, pc[d] = "idle"
  PROVE  Relies(d) = {}
<1>1. \A g \in {"funds", "balance", "dependants", "months", "commission"} : "idle" \notin HeldAt[g]
  BY DEF HeldAt
<1>2. "idle" \notin HeldAt.months /\ "idle" \notin HeldAt.commission
  BY DEF HeldAt
<1> QED BY <1>1, <1>2 DEF Relies

LEMMA AloneNothingSlips ==
  ASSUME OneAtATime, NEW c \in Calls, pc[c] # "idle", NEW F, Slip(c, F)
  PROVE  slipped' = slipped
<1>1. \A d \in Calls \ {c} : Relies(d) = {}
  BY IdleRelies DEF OneAtATime
<1>2. UNION {Relies(d) : d \in Calls \ {c}} = {}
  BY <1>1
<1> QED BY <1>2 DEF Slip

\* A call changes what others may rely on only once it has read it itself.
LEMMA StepUnslipped == TypeInv /\ OneAtATime /\ [Next]_vars => slipped' = slipped
<1> SUFFICES ASSUME TypeInv, OneAtATime, [Next]_vars PROVE slipped' = slipped
  OBVIOUS
<1>1. CASE UNCHANGED vars \/ \E k \in Comms : Accrue(k)
  BY <1>1 DEF vars, Accrue
<1>2. ASSUME NEW c \in Calls,
             \/ Selling(c) \/ Creating(c) \/ Extending(c) \/ Moving(c) \/ Managing(c) \/ Paying(c)
      PROVE  slipped' = slipped
  <2>1. CASE \/ SellFails(c) \/ CreateFails(c) \/ BouquetGone(c) \/ ExtendRefused(c)
             \/ ExtendFails(c) \/ TransferFails(c) \/ SubFails(c) \/ CommissionGone(c)
    BY <2>1 DEF SellFails, CreateFails, BouquetGone, ExtendRefused, ExtendFails,
       TransferFails, SubFails, CommissionGone, Abort
  <2>2. CASE \/ SellRead(c) \/ CreateRead(c) \/ DeductRead(c) \/ ExtendRead(c) \/ ExtendBalance(c)
             \/ RenewRead(c) \/ TransferRead(c) \/ SubRead(c) \/ DeleteRead(c) \/ AddRead(c)
             \/ PayRead(c) \/ PayBalance(c) \/ RemoveRead(c)
    BY <2>2, ReadLines
  <2>3. CASE \/ SellCommit(c) \/ CreateInsert(c) \/ DeductCommit(c) \/ Rollback(c)
             \/ ExtendCommit(c) \/ TransferCommit(c) \/ SubCommit(c) \/ DeleteCommit(c)
             \/ AddCommit(c) \/ PayCommit(c) \/ RemoveCommit(c)
    <3>1. pc[c] # "idle" /\ \E F : Slip(c, F)
      BY <2>3 DEF SellCommit, CreateInsert, DeductCommit, Rollback, ExtendCommit,
         TransferCommit, SubCommit, DeleteCommit, AddCommit, PayCommit, RemoveCommit
    <3> QED BY <3>1, AloneNothingSlips
  <2> QED BY <1>2, <2>1, <2>2, <2>3
    DEF Selling, Creating, Extending, Moving, Managing, Paying
<1> QED BY <1>1, <1>2 DEF Next

\* Calls that come one at a time, any number of them, never take a balance below
\* zero, write a wrong log, exceed a quota, orphan a line, lose a paid period or
\* pay a commission twice.
THEOREM OneAtATimeKeepsAll == Spec /\ []OneAtATime => []Unspoilt
<1>1. slipped = {} /\ OneAtATime /\ TypeInv /\ [Next]_vars => (slipped = {})'
  BY StepUnslipped
<1>2. Init => slipped = {}
  BY DEF Init
<1>3. /\ slipped = {} /\ Solvent /\ BooksTruthful /\ QuotaKept /\ NoOrphans /\ NoLostMonths /\ PaidOnce
      => Unspoilt
  BY DEF Solvent, BooksTruthful, QuotaKept, NoOrphans, NoLostMonths, PaidOnce, Unspoilt
<1>4. Spec => []TypeInv
  BY InitTypes, StepTypes, PTL DEF Spec
<1> QED
  BY <1>1, <1>2, <1>3, <1>4, CreditsSolvent, BooksAreTruthful, QuotaKeptHolds, NoOrphansHolds,
     NoLostMonthsHolds, CommissionPaidOnce, PTL DEF Spec
============================================================================
