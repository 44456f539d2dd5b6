-------------------------- MODULE CreditBookProofs --------------------------
(***************************************************************************)
(* The refinement of ResellerCredits to CreditBook, for every value of the *)
(* constants: every step of the calls is a step of the ledger, or none.    *)
(***************************************************************************)
EXTENDS ResellerCreditsProofs

Priced == {"sell", "insert", "created", "deduct", "balance", "extend"}
Summed == {"transfer", "sub", "add", "payBalance", "pay"}
Sums   == Amounts \cup {(n * Rate) \div 100 : n \in Amounts} \cup {0}

\* What charging the lines us to r may cost: the instance's Cost.
CostOf(r, us) == {Cardinality(us)} \cup (IF r \in SlotBilled THEN {0} ELSE {})

\* Inductive: a call that will charge lines carries their price and a call that
\* moves or pays carries one of the sums; so does a commission; and a reseller
\* that is not created yet has nothing.
BookInv ==
  /\ \A c \in Calls : pc[c] \in Priced => task[c].n \in CostOf(task[c].r, task[c].us)
  /\ \A c \in Calls : pc[c] \in Summed => task[c].n \in Sums
  /\ \A c \in Calls : pc[c] = "add" => task[c].n \in Amounts
  /\ \A c \in Calls : pc[c] = "transfer" => account[task[c].to] # "none" /\ task[c].to # task[c].r
  /\ \A k \in Comms : comm[k] = "accruing" => amount[k] \in Amounts
  /\ \A k \in Comms : comm[k] = "PENDING" => amount[k] \in Sums
  /\ \A r \in Resellers : account[r] = "none" => credits[r] = 0

----------------------------------------------------------------------------
\* A call goes on with a task that carries what it should; no row changes.
LEMMA EnterBook ==
  ASSUME TypeInv, BookInv, NEW c \in Calls, NEW p \in Pcs, NEW t,
         Begin(c, p, t) \/ Go(c, p, t),
         UNCHANGED <<rowVars, credits, shown, lineVars, commVars>>,
         p \in Priced => t.n \in CostOf(t.r, t.us),
         p \in Summed => t.n \in Sums,
         p = "add" => t.n \in Amounts,
         p = "transfer" => account[t.to] # "none" /\ t.to # t.r
  PROVE  BookInv'
<1>1. pc' = [pc EXCEPT ![c] = p] /\ task' = [task EXCEPT ![c] = t]
  BY DEF Begin, Go
<1>2. \A d \in Calls : pc'[d] = (IF d = c THEN p ELSE pc[d])
                       /\ task'[d] = (IF d = c THEN t ELSE task[d])
  BY <1>1 DEF TypeInv, TypeOK
<1>3. UNCHANGED <<account, credits, comm, amount>>
  BY DEF rowVars, commVars
<1>4. /\ \A d \in Calls : pc'[d] \in Priced => task'[d].n \in CostOf(task'[d].r, task'[d].us)
      /\ \A d \in Calls : pc'[d] \in Summed => task'[d].n \in Sums
      /\ \A d \in Calls : pc'[d] = "add" => task'[d].n \in Amounts
      /\ \A d \in Calls : pc'[d] = "transfer" =>
           account[task'[d].to] # "none" /\ task'[d].to # task'[d].r
  BY <1>2 DEF BookInv
<1> QED BY <1>3, <1>4 DEF BookInv, CostOf, Sums

\* A call ends or has inserted its line.
LEMMA LeaveBook ==
  ASSUME TypeInv, BookInv, NEW c \in Calls,
         \/ Close(c)
         \/ pc[c] = "insert" /\ pc' = [pc EXCEPT ![c] = "created"] /\ task' = task,
         \A r \in Resellers :
           /\ account[r] # "none" => account'[r] # "none"
           /\ account'[r] = "none" => credits'[r] = credits[r],
         \A k \in Comms :
           /\ comm'[k] = "accruing" =>
                amount'[k] \in Amounts \/ (comm[k] = "accruing" /\ amount'[k] = amount[k])
           /\ comm'[k] = "PENDING" => comm[k] = "PENDING" /\ amount'[k] = amount[k]
  PROVE  BookInv'
<1>1. \A d \in Calls : \/ pc'[d] = pc[d] /\ task'[d] = task[d]
                       \/ pc'[d] = "idle"
                       \/ pc[d] = "insert" /\ pc'[d] = "created" /\ task'[d] = task[d]
  BY DEF Close, TypeInv, TypeOK
<1>2. \A d \in Calls : pc[d] = "transfer" => task[d].to \in Resellers
  BY DEF TypeInv, Posed
<1>3. /\ \A d \in Calls : pc'[d] \in Priced => task'[d].n \in CostOf(task'[d].r, task'[d].us)
      /\ \A d \in Calls : pc'[d] \in Summed => task'[d].n \in Sums
      /\ \A d \in Calls : pc'[d] = "add" => task'[d].n \in Amounts
      /\ \A d \in Calls : pc'[d] = "transfer" =>
           account'[task'[d].to] # "none" /\ task'[d].to # task'[d].r
  BY <1>1, <1>2 DEF BookInv, Priced, Summed
<1>4. \A r \in Resellers : account'[r] = "none" => credits'[r] = 0
  BY DEF BookInv
<1>5. \A k \in Comms : /\ comm'[k] = "accruing" => amount'[k] \in Amounts
                       /\ comm'[k] = "PENDING" => amount'[k] \in Sums
  BY DEF BookInv
<1> QED BY <1>3, <1>4, <1>5 DEF BookInv, CostOf, Sums

\* What one line costs, and no line of an account that is billed by slots.
LEMMA OnePrice ==
  ASSUME NEW r \in Resellers, NEW u \in Users
  PROVE  Price(r) \in CostOf(r, {u}) /\ 1 \in CostOf(r, {u})
<1>1. Cardinality({u}) = 1
  BY FS_Singleton
<1> QED BY <1>1 DEF CostOf, Price

LEMMA ReadBook ==
  ASSUME TypeInv, BookInv, NEW c \in Calls,
         \/ SellRead(c) \/ CreateRead(c) \/ DeductRead(c) \/ ExtendRead(c) \/ ExtendBalance(c)
         \/ RenewRead(c) \/ TransferRead(c) \/ SubRead(c) \/ DeleteRead(c) \/ AddRead(c)
         \/ PayRead(c) \/ PayBalance(c) \/ RemoveRead(c)
  PROVE  BookInv'
<1> USE DEF Pcs, Priced, Summed
<1>0. task[c] \in Tasks
  BY DEF TypeInv, TypeOK
<1>1. CASE SellRead(c)
  <2>1. PICK r \in Resellers, u \in Users :
          /\ Begin(c, "sell", [Blank EXCEPT !.r = r, !.us = {u}, !.n = Price(r), !.seen = credits[r]])
          /\ UNCHANGED <<rowVars, credits, shown, lineVars, commVars>>
    BY <1>1 DEF SellRead, Active
  <2> QED BY <2>1, OnePrice, EnterBook DEF Blank
<1>2. CASE CreateRead(c)
  <2>1. PICK r \in Resellers, u \in Users :
          /\ Begin(c, "insert", [Blank EXCEPT !.r = r, !.us = {u}, !.n = 1])
          /\ UNCHANGED <<rowVars, credits, shown, lineVars, commVars>>
    BY <1>2 DEF CreateRead, Active
  <2> QED BY <2>1, OnePrice, EnterBook DEF Blank
<1>3. CASE DeductRead(c)
  <2>1. task[c].n \in CostOf(task[c].r, task[c].us)
    BY <1>3 DEF DeductRead, BookInv
  <2>2. CASE task[c].r \in Active /\ credits[task[c].r] >= task[c].n
    BY <1>0, <1>3, <2>1, <2>2, EnterBook DEF DeductRead, Tasks
  <2>3. CASE ~(task[c].r \in Active /\ credits[task[c].r] >= task[c].n)
    BY <1>3, <2>1, <2>3, EnterBook DEF DeductRead
  <2> QED BY <2>2, <2>3
<1>4. CASE ExtendRead(c)
  <2>1. PICK r \in Resellers, us \in SUBSET Users :
          /\ Begin(c, "balance", [Blank EXCEPT !.r = r, !.us = us, !.n = Price(r) * Cardinality(us),
                                               !.had = Expiries(us)])
          /\ UNCHANGED <<rowVars, credits, shown, lineVars, commVars>>
    BY <1>4 DEF ExtendRead, Active, LinesOf
  <2>2. Price(r) * Cardinality(us) \in CostOf(r, us)
    BY CountType DEF CostOf, Price
  <2> DEFINE t == [Blank EXCEPT !.r = r, !.us = us, !.n = Price(r) * Cardinality(us),
                                !.had = Expiries(us)]
  <2>3. t.r = r /\ t.us = us /\ t.n = Price(r) * Cardinality(us)
    BY DEF Blank
  <2>4. Begin(c, "balance", t) /\ UNCHANGED <<rowVars, credits, shown, lineVars, commVars>>
    BY <2>1
  <2> HIDE DEF t
  <2> QED BY <2>2, <2>3, <2>4, EnterBook
<1>5. CASE ExtendBalance(c)
  <2>1. task[c].n \in CostOf(task[c].r, task[c].us)
    BY <1>5 DEF ExtendBalance, BookInv
  <2> QED BY <1>0, <1>5, <2>1, EnterBook DEF ExtendBalance, Tasks
<1>6. CASE RenewRead(c)
  <2>1. PICK u \in Users :
          /\ owner[u] \in Resellers
          /\ Begin(c, "extend", [Blank EXCEPT !.r = owner[u], !.us = {u}, !.n = 1,
                                              !.seen = credits[owner[u]], !.had = Expiries({u})])
          /\ UNCHANGED <<rowVars, credits, shown, lineVars, commVars>>
    BY <1>6 DEF RenewRead
  <2> QED BY <2>1, OnePrice, EnterBook DEF Blank
<1>7. CASE TransferRead(c)
  <2>1. PICK from \in Active, to \in Active, n \in Amounts :
          /\ from # to
          /\ Begin(c, "transfer", [Blank EXCEPT !.r = from, !.to = to, !.n = n])
          /\ UNCHANGED <<rowVars, credits, shown, lineVars, commVars>>
    BY <1>7 DEF TransferRead
  <2> QED BY <2>1, EnterBook DEF Blank, Active, Sums
<1>8. CASE SubRead(c)
  <2>1. PICK r \in Active, s \in Resellers, n \in Amounts \cup {0} :
          /\ Begin(c, "sub", [Blank EXCEPT !.r = r, !.to = s, !.n = n, !.seen = credits[r]])
          /\ UNCHANGED <<rowVars, credits, shown, lineVars, commVars>>
    BY <1>8 DEF SubRead
  <2> QED BY <2>1, EnterBook DEF Blank, Sums
<1>9. CASE DeleteRead(c)
  BY <1>9, EnterBook DEF DeleteRead
<1>10. CASE AddRead(c)
  <2>1. PICK r \in Active, n \in Amounts, k \in Comms :
          /\ Begin(c, "add", [Blank EXCEPT !.r = r, !.n = n, !.seen = credits[r], !.k = k])
          /\ UNCHANGED <<rowVars, credits, shown, lineVars, commVars>>
    BY <1>10 DEF AddRead
  <2> QED BY <2>1, EnterBook DEF Blank, Sums
<1>11. CASE PayRead(c)
  <2>1. PICK k \in Comms :
          /\ comm[k] = "PENDING"
          /\ Begin(c, "payBalance", [Blank EXCEPT !.r = Earner(k), !.n = amount[k], !.k = k])
          /\ UNCHANGED <<rowVars, credits, shown, lineVars, commVars>>
    BY <1>11 DEF PayRead
  <2>2. amount[k] \in Sums
    BY <2>1 DEF BookInv
  <2> QED BY <2>1, <2>2, EnterBook DEF Blank
<1>12. CASE PayBalance(c)
  <2>1. task[c].n \in Sums
    BY <1>12 DEF PayBalance, BookInv
  <2> QED BY <1>0, <1>12, <2>1, EnterBook DEF PayBalance, Tasks
<1>13. CASE RemoveRead(c)
  BY <1>13, EnterBook DEF RemoveRead
<1> QED BY <1>1, <1>2, <1>3, <1>4, <1>5, <1>6, <1>7, <1>8, <1>9, <1>10, <1>11, <1>12, <1>13

LEMMA WriteBook ==
  ASSUME TypeInv, PayInv, BookInv, NEW c \in Calls,
         \/ SellCommit(c) \/ CreateInsert(c) \/ DeductCommit(c) \/ Rollback(c) \/ ExtendCommit(c)
         \/ TransferCommit(c) \/ SubCommit(c) \/ DeleteCommit(c) \/ AddCommit(c) \/ PayCommit(c)
         \/ RemoveCommit(c)
  PROVE  BookInv'
<1> DEFINE t == task[c]
<1>0. /\ account \in [Resellers -> {"none", "active", "deleted"}]
      /\ credits \in [Resellers -> Int]
      /\ comm \in [Comms -> {"none", "accruing", "PENDING", "PAID", "deleted"}]
      /\ amount \in [Comms -> Nat]
      /\ pc[c] \notin {"idle", "remove"} => t.r \in Resellers /\ account[t.r] # "none"
      /\ pc[c] \in {"transfer", "sub"} => t.to \in Resellers
      /\ pc[c] \in {"add", "payBalance", "pay", "remove"} => t.k \in Comms
  BY DEF TypeInv, TypeOK, Posed
<1> USE DEF rowVars, lineVars, commVars
<1>1. CASE SellCommit(c)
  BY <1>0, <1>1, LeaveBook DEF SellCommit, Charge
<1>2. CASE CreateInsert(c)
  BY <1>0, <1>2, LeaveBook DEF CreateInsert
<1>3. CASE DeductCommit(c)
  BY <1>0, <1>3, LeaveBook DEF DeductCommit, Charge
<1>4. CASE Rollback(c)
  BY <1>0, <1>4, LeaveBook DEF Rollback
<1>5. CASE ExtendCommit(c)
  BY <1>0, <1>5, LeaveBook DEF ExtendCommit, Charge
<1>6. CASE TransferCommit(c)
  <2>1. account[t.to] # "none"
    BY <1>6 DEF TransferCommit, BookInv
  <2> QED BY <1>0, <1>6, <2>1, LeaveBook DEF TransferCommit
<1>7. CASE SubCommit(c)
  BY <1>0, <1>7, LeaveBook DEF SubCommit
<1>8. CASE DeleteCommit(c)
  BY <1>0, <1>8, LeaveBook DEF DeleteCommit
<1>9. CASE AddCommit(c)
  <2>1. t.n \in Amounts
    BY <1>9 DEF AddCommit, BookInv
  <2> QED BY <1>0, <1>9, <2>1, LeaveBook DEF AddCommit, Grant
<1>10. CASE PayCommit(c)
  BY <1>0, <1>10, LeaveBook DEF PayCommit, Grant
<1>11. CASE RemoveCommit(c)
  BY <1>0, <1>11, LeaveBook DEF RemoveCommit
<1> QED BY <1>1, <1>2, <1>3, <1>4, <1>5, <1>6, <1>7, <1>8, <1>9, <1>10, <1>11

LEMMA InitBook == Init => BookInv
  BY CreditsAssumption DEF CreditsAssumption, Init, BookInv, Priced, Summed

LEMMA StepBook == TypeInv /\ PayInv /\ BookInv /\ [Next]_vars => BookInv'
<1> SUFFICES ASSUME TypeInv, PayInv, BookInv, [Next]_vars PROVE BookInv'
  OBVIOUS
<1>1. CASE UNCHANGED vars
  BY <1>1 DEF BookInv, CostOf, Sums, vars, rowVars, commVars
<1>2. ASSUME NEW k \in Comms, Accrue(k) PROVE BookInv'
  <2>1. amount[k] \in Amounts
    BY <1>2 DEF Accrue, BookInv
  <2>2. Earned(k) \in Sums
    BY <2>1 DEF Earned, Sums
  <2>3. /\ UNCHANGED <<account, credits, pc, task>>
        /\ comm'[k] # "accruing" /\ (comm'[k] = "PENDING" => amount'[k] = Earned(k))
        /\ \A j \in Comms : j # k => comm'[j] = comm[j] /\ amount'[j] = amount[j]
    BY <1>2 DEF Accrue, TypeInv, TypeOK, rowVars
  <2>4. \A j \in Comms : /\ comm'[j] = "accruing" => amount'[j] \in Amounts
                         /\ comm'[j] = "PENDING" => amount'[j] \in Sums
    BY <2>2, <2>3 DEF BookInv
  <2> QED BY <2>3, <2>4 DEF BookInv, CostOf, Sums
<1>3. ASSUME NEW c \in Calls,
             \/ Selling(c) \/ Creating(c) \/ Extending(c) \/ Moving(c) \/ Managing(c) \/ Paying(c)
      PROVE  BookInv'
  <2>1. CASE \/ SellFails(c) \/ CreateFails(c) \/ BouquetGone(c) \/ ExtendRefused(c)
             \/ ExtendFails(c) \/ TransferFails(c) \/ SubFails(c) \/ CommissionGone(c)
    <3>1. Abort(c)
      BY <2>1 DEF SellFails, CreateFails, BouquetGone, ExtendRefused, ExtendFails,
         TransferFails, SubFails, CommissionGone
    <3> QED BY <3>1, LeaveBook DEF Abort, rowVars, commVars
  <2> QED
    BY <1>3, <2>1, ReadBook, WriteBook
    DEF Selling, Creating, Extending, Moving, Managing, Paying
<1> QED BY <1>1, <1>2, <1>3 DEF Next

----------------------------------------------------------------------------
(* The refinement mapping: balances, periods and payouts are themselves; a *)
(* claim is open while its commission is accruing.                         *)

Claims == {k \in Comms : comm[k] = "accruing"}

LEMMA InitRefines == Init => Book!Init
  BY CreditsAssumption DEF CreditsAssumption, Init, Book!Init

\* A step that touches no balance, charge, payout or accrual is a stutter.
LEMMA StutterBook ==
  ASSUME UNCHANGED <<credits, charged, payouts>>, Claims' = Claims
  PROVE  [Book!Next]_(Book!book)
  BY DEF Claims, Book!book

\* The instance counts with its own copy of Cardinality.
LEMMA SameCount ==
  ASSUME NEW S
  PROVE  Book!Cardinality(S) = Cardinality(S)
  BY DEF Book!Cardinality, Cardinality

\* A sale, the later charge of UserController.create, or an extension.
LEMMA BuyBook ==
  ASSUME TypeInv, BookInv, NEW c \in Calls, pc[c] \in Priced,
         Charge(task[c].r, task[c].n, task[c].seen),
         charged' = [u \in Users |-> IF u \in task[c].us THEN charged[u] + 1 ELSE charged[u]],
         UNCHANGED commVars
  PROVE  Book!Next
<1>1. task[c].r \in Resellers /\ task[c].us \in SUBSET Users
  BY DEF TypeInv, TypeOK, Posed, Tasks, Priced
<1>2. task[c].n \in Book!Cost(task[c].r, task[c].us)
  BY SameCount DEF BookInv, CostOf, Book!Cost
<1>3. Claims' = Claims /\ UNCHANGED payouts
  BY DEF Claims, commVars
<1>4. Book!Buy(task[c].r, task[c].us)
  BY <1>2, <1>3 DEF Book!Buy, Claims, Charge
<1> QED BY <1>1, <1>4 DEF Book!Next

\* What is given to an account that has nothing is its balance.
LEMMA GiveFirst ==
  ASSUME NEW r \in Resellers, NEW s \in Resellers, NEW n \in Int,
         s # r, credits \in [Resellers -> Int], credits[s] = 0,
         credits' = [credits EXCEPT ![r] = @ - n, ![s] = n]
  PROVE  credits' = [credits EXCEPT ![r] = @ - n, ![s] = @ + n]
  OBVIOUS

LEMMA MoveBook ==
  ASSUME TypeInv, BookInv, NEW c \in Calls, TransferCommit(c) \/ SubCommit(c)
  PROVE  Book!Next
<1> DEFINE t == task[c]
<1>1. t.r \in Resellers /\ t.to \in Resellers /\ t.to # t.r /\ t.n \in Sums
  BY DEF TransferCommit, SubCommit, TypeInv, Posed, BookInv, Summed
<1>2. credits \in [Resellers -> Int] /\ t.n \in Int
  BY DEF TypeInv, TypeOK, Tasks
<1>3. credits' = [credits EXCEPT ![t.r] = @ - t.n, ![t.to] = @ + t.n]
  <2>1. CASE TransferCommit(c)
    BY <2>1 DEF TransferCommit
  <2>2. CASE SubCommit(c)
    <3>1. credits[t.to] = 0
      BY <1>1, <2>2 DEF SubCommit, BookInv
    <3>2. credits' = [credits EXCEPT ![t.r] = @ - t.n, ![t.to] = t.n]
      BY <2>2 DEF SubCommit
    <3>3. PICK r \in Resellers, s \in Resellers, n \in Int : r = t.r /\ s = t.to /\ n = t.n
      BY <1>1, <1>2
    <3>4. credits' = [credits EXCEPT ![r] = @ - n, ![s] = @ + n]
      <4> HIDE DEF t
      <4>1. s # r /\ credits[s] = 0 /\ credits' = [credits EXCEPT ![r] = @ - n, ![s] = n]
        BY <1>1, <3>1, <3>2, <3>3
      <4> QED BY <1>2, <4>1, GiveFirst
    <3> QED BY <3>3, <3>4
  <2> QED BY <2>1, <2>2
<1>4. UNCHANGED <<charged, payouts, Claims>>
  BY DEF TransferCommit, SubCommit, lineVars, commVars, Claims
<1>5. Book!Move(t.r, t.to, t.n)
  BY <1>1, <1>3, <1>4 DEF Book!Move, Claims
<1> QED BY <1>1, <1>5 DEF Book!Next, Sums

LEMMA NextGrant ==
  ASSUME NEW r \in Resellers, NEW n \in Sums, NEW k \in Comms,
         Book!TopUp(r, n, k) \/ Book!Pay(r, n, k)
  PROVE  Book!Next
<1>1. \E m \in Sums : Book!TopUp(r, m, k) \/ Book!Pay(r, m, k)
  OBVIOUS
<1> QED BY <1>1 DEF Book!Next, Sums

LEMMA GrantBook ==
  ASSUME TypeInv, PayInv, BookInv, NEW c \in Calls, AddCommit(c) \/ PayCommit(c)
  PROVE  Book!Next
<1> DEFINE t == task[c]
<1>1. t.r \in Resellers /\ t.k \in Comms /\ t.n \in Sums
  BY DEF AddCommit, PayCommit, TypeInv, Posed, BookInv, Summed
<1>2. /\ comm[t.k] # "accruing"
      /\ comm \in [Comms -> {"none", "accruing", "PENDING", "PAID", "deleted"}]
  BY DEF AddCommit, PayCommit, PayInv, Settling, TypeInv, TypeOK
<1>3. CASE AddCommit(c)
  <2>1. Claims' = Claims \cup {t.k} /\ t.k \notin Claims
    BY <1>1, <1>2, <1>3 DEF AddCommit, Claims
  <2>2. PICK r \in Resellers, n \in Sums, k \in Comms : r = t.r /\ n = t.n /\ k = t.k
    BY <1>1
  <2>3. Book!TopUp(r, n, k)
    BY <1>3, <2>1, <2>2 DEF AddCommit, Grant, lineVars, Book!TopUp, Claims
  <2> QED BY <2>3, NextGrant
<1>4. CASE PayCommit(c)
  <2>1. Claims' = Claims /\ t.k \notin Claims
    BY <1>1, <1>2, <1>4 DEF PayCommit, Claims
  <2>2. PICK r \in Resellers, n \in Sums, k \in Comms : r = t.r /\ n = t.n /\ k = t.k
    BY <1>1
  <2>3. Book!Pay(r, n, k)
    BY <1>4, <2>1, <2>2 DEF PayCommit, Grant, lineVars, Book!Pay, Claims
  <2> QED BY <2>3, NextGrant
<1> QED BY <1>3, <1>4

LEMMA AccrueBook ==
  ASSUME TypeInv, NEW k \in Comms, Accrue(k)
  PROVE  Book!Next
<1>1. Claims' = Claims \ {k} /\ k \in Claims
  BY DEF Accrue, Claims, TypeInv, TypeOK
<1>2. Book!WorkOut(k)
  BY <1>1 DEF Accrue, lineVars, Book!WorkOut, Claims
<1> QED BY <1>2 DEF Book!Next

\* Everything else leaves the ledger alone.
LEMMA QuietBook ==
  ASSUME TypeInv, PayInv, NEW c \in Calls,
         \/ SellRead(c) \/ CreateRead(c) \/ DeductRead(c) \/ ExtendRead(c) \/ ExtendBalance(c)
         \/ RenewRead(c) \/ TransferRead(c) \/ SubRead(c) \/ DeleteRead(c) \/ AddRead(c)
         \/ PayRead(c) \/ PayBalance(c) \/ RemoveRead(c)
         \/ CreateInsert(c) \/ Rollback(c) \/ DeleteCommit(c) \/ RemoveCommit(c) \/ Abort(c)
  PROVE  [Book!Next]_(Book!book)
<1>1. CASE RemoveCommit(c)
  <2>1. task[c].k \in Comms /\ comm[task[c].k] # "accruing"
    BY <1>1 DEF RemoveCommit, TypeInv, Posed, PayInv, Settling
  <2>2. Claims' = Claims
    BY <1>1, <2>1 DEF RemoveCommit, Claims, TypeInv, TypeOK
  <2> QED BY <1>1, <2>2, StutterBook DEF RemoveCommit, lineVars
<1>2. CASE ~RemoveCommit(c)
  <2>1. UNCHANGED <<credits, charged, commVars>>
    BY <1>2 DEF SellRead, CreateRead, DeductRead, ExtendRead, ExtendBalance, RenewRead,
       TransferRead, SubRead, DeleteRead, AddRead, PayRead, PayBalance, RemoveRead,
       CreateInsert, Rollback, DeleteCommit, Abort, lineVars
  <2> QED BY <2>1, StutterBook DEF commVars, Claims
<1> QED BY <1>1, <1>2

LEMMA StepRefines ==
  TypeInv /\ PayInv /\ BookInv /\ [Next]_vars => [Book!Next]_(Book!book)
<1> SUFFICES ASSUME TypeInv, PayInv, BookInv, [Next]_vars PROVE [Book!Next]_(Book!book)
  OBVIOUS
<1>1. CASE UNCHANGED vars
  BY <1>1, StutterBook DEF vars, lineVars, commVars, Claims
<1>2. ASSUME NEW k \in Comms, Accrue(k) PROVE [Book!Next]_(Book!book)
  BY <1>2, AccrueBook
<1>3. ASSUME NEW c \in Calls,
             \/ Selling(c) \/ Creating(c) \/ Extending(c) \/ Moving(c) \/ Managing(c) \/ Paying(c)
      PROVE  [Book!Next]_(Book!book)
  <2>1. CASE \/ SellFails(c) \/ CreateFails(c) \/ BouquetGone(c) \/ ExtendRefused(c)
             \/ ExtendFails(c) \/ TransferFails(c) \/ SubFails(c) \/ CommissionGone(c)
    <3>1. Abort(c)
      BY <2>1 DEF SellFails, CreateFails, BouquetGone, ExtendRefused, ExtendFails,
         TransferFails, SubFails, CommissionGone
    <3> QED BY <3>1, QuietBook
  <2>2. CASE SellCommit(c) \/ DeductCommit(c) \/ ExtendCommit(c)
    <3>1. /\ pc[c] \in Priced /\ Charge(task[c].r, task[c].n, task[c].seen)
          /\ charged' = [u \in Users |-> IF u \in task[c].us THEN charged[u] + 1 ELSE charged[u]]
          /\ UNCHANGED commVars
      BY <2>2 DEF SellCommit, DeductCommit, ExtendCommit, Priced
    <3> QED BY <3>1, BuyBook
  <2>3. CASE TransferCommit(c) \/ SubCommit(c) \/ AddCommit(c) \/ PayCommit(c)
    BY <2>3, MoveBook, GrantBook
  <2> QED
    BY <1>3, <2>1, <2>2, <2>3, QuietBook
    DEF Selling, Creating, Extending, Moving, Managing, Paying
<1> QED BY <1>1, <1>2, <1>3 DEF Next

\* Whatever calls overlap, and whatever slips: no credit appears or vanishes, and
\* no period is charged without its credit.
THEOREM CreditsRefineBook == Spec => BookKept
  BY InitTypes, StepTypes, InitPay, StepPay, InitBook, StepBook, InitRefines, StepRefines, PTL
  DEF Spec, BookKept, Book!Spec
=============================================================================
