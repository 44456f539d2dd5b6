----------------------- MODULE ResellerCreditsProofs -----------------------
(***************************************************************************)
(* Proofs about ResellerCredits for every value of its constants: types,   *)
(* when a balance stays solvent and its log truthful, and that a           *)
(* commission is paid once.                                                *)
(***************************************************************************)
EXTENDS ResellerCredits, FiniteSetTheorems, TLAPS

\* What the fields of a task hold where they are used, and that the rows they
\* name exist.
Posed ==
  /\ \A c \in Calls : pc[c] \notin {"idle", "remove"} =>
       task[c].r \in Resellers /\ account[task[c].r] # "none"
  /\ \A c \in Calls : pc[c] \in {"transfer", "sub"} => task[c].to \in Resellers
  /\ \A c \in Calls : pc[c] = "sub" => task[c].to # task[c].r
  /\ \A c \in Calls : pc[c] \in {"add", "payBalance", "pay", "remove"} => task[c].k \in Comms
  /\ \A c \in Calls : pc[c] = "balance" /\ task[c].r \in SlotBilled => task[c].n = 0
  /\ \A u \in Users : owner[u] \in Resellers => account[owner[u]] # "none"
  /\ \A k \in Comms : comm[k] = "accruing" => source[k] \in Resellers
  /\ \A k \in Comms : comm[k] = "PENDING" =>
       source[k] \in Resellers /\ Earner(k) \in Resellers /\ account[Earner(k)] # "none"

TypeInv == TypeOK /\ Posed

----------------------------------------------------------------------------
LEMMA BlankType == Blank \in Tasks
  BY DEF Blank, Tasks

\* How many lines a call extends is a number: Users is finite.
LEMMA CountType ==
  ASSUME NEW us \in SUBSET Users
  PROVE  Cardinality(us) \in Nat
  BY CreditsAssumption, FS_Subset, FS_CardinalityType DEF CreditsAssumption

LEMMA PriceType ==
  ASSUME NEW r \in Resellers
  PROVE  Price(r) \in Nat /\ (r \in SlotBilled => Price(r) = 0)
  BY DEF Price

\* The three ways a call moves keep the types of pc, task and served.
LEMMA BeginType ==
  ASSUME TypeOK, NEW c \in Calls, NEW p \in Pcs, NEW t \in Tasks, Begin(c, p, t)
  PROVE  pc' \in [Calls -> Pcs] /\ task' \in [Calls -> Tasks] /\ served' \in 0..MaxCalls
  BY CreditsAssumption DEF CreditsAssumption, TypeOK, Begin

LEMMA GoType ==
  ASSUME TypeOK, NEW c \in Calls, NEW p \in Pcs, NEW t \in Tasks, Go(c, p, t)
  PROVE  pc' \in [Calls -> Pcs] /\ task' \in [Calls -> Tasks] /\ served' \in 0..MaxCalls
  BY DEF TypeOK, Go

LEMMA CloseType ==
  ASSUME TypeOK, NEW c \in Calls, Close(c)
  PROVE  pc' \in [Calls -> Pcs] /\ task' \in [Calls -> Tasks] /\ served' \in 0..MaxCalls
  BY BlankType DEF TypeOK, Close, Pcs

\* A call that begins or goes on in a well-posed way keeps Posed, rows unchanged.
LEMMA EnterPosed ==
  ASSUME TypeInv, NEW c \in Calls, NEW p \in Pcs, NEW t \in Tasks,
         Begin(c, p, t) \/ Go(c, p, t),
         UNCHANGED <<rowVars, credits, shown, lineVars, commVars>>,
         p \notin {"idle", "remove"} => t.r \in Resellers /\ account[t.r] # "none",
         p \in {"transfer", "sub"} => t.to \in Resellers,
         p = "sub" => t.to # t.r,
         p \in {"add", "payBalance", "pay", "remove"} => t.k \in Comms,
         p = "balance" /\ t.r \in SlotBilled => t.n = 0
  PROVE  TypeInv'
<1>1. pc' = [pc EXCEPT ![c] = p] /\ task' = [task EXCEPT ![c] = t]
  BY DEF Begin, Go
<1>2. TypeOK'
  BY BeginType, GoType DEF TypeInv, TypeOK, rowVars, lineVars, commVars
<1>3. Posed'
  BY <1>1 DEF TypeInv, TypeOK, Posed, rowVars, lineVars, commVars, Earner
<1> QED BY <1>2, <1>3 DEF TypeInv

\* A call that gives up changes nothing but itself.
LEMMA AbortPosed ==
  ASSUME TypeInv, NEW c \in Calls, Abort(c)
  PROVE  TypeInv'
<1>1. TypeOK'
  BY CloseType DEF TypeInv, TypeOK, Abort, rowVars, lineVars, commVars
<1>2. Posed'
  BY DEF TypeInv, TypeOK, Posed, Abort, Close, Pcs, rowVars, lineVars, commVars, Earner
<1> QED BY <1>1, <1>2 DEF TypeInv

----------------------------------------------------------------------------
\* Every step of a call that only reads keeps TypeInv.
LEMMA ReadTypes ==
  ASSUME TypeInv, NEW c \in Calls,
         \/ SellRead(c) \/ CreateRead(c) \/ DeductRead(c) \/ ExtendRead(c) \/ ExtendBalance(c)
         \/ RenewRead(c) \/ TransferRead(c) \/ SubRead(c) \/ DeleteRead(c) \/ AddRead(c)
         \/ PayRead(c) \/ PayBalance(c) \/ RemoveRead(c)
  PROVE  TypeInv'
<1> USE DEF Pcs
<1>0. /\ task[c] \in Tasks
      /\ \A r \in Resellers : credits[r] \in Int
      /\ \A us \in SUBSET Users : Expiries(us) \in [Users -> Nat]
  BY DEF TypeInv, TypeOK, Expiries
<1>1. CASE SellRead(c)
  <2>1. PICK r \in Active, u \in Users :
          /\ Begin(c, "sell", [Blank EXCEPT !.r = r, !.us = {u}, !.n = Price(r), !.seen = credits[r]])
          /\ UNCHANGED <<rowVars, credits, shown, lineVars, commVars>>
    BY <1>1 DEF SellRead
  <2>2. [Blank EXCEPT !.r = r, !.us = {u}, !.n = Price(r), !.seen = credits[r]] \in Tasks
    BY <1>0, BlankType, PriceType DEF Tasks, Active
  <2> QED BY <2>1, <2>2, EnterPosed DEF Active, Blank
<1>2. CASE CreateRead(c)
  <2>1. PICK r \in Active, u \in Users :
          /\ Begin(c, "insert", [Blank EXCEPT !.r = r, !.us = {u}, !.n = 1])
          /\ UNCHANGED <<rowVars, credits, shown, lineVars, commVars>>
    BY <1>2 DEF CreateRead
  <2>2. [Blank EXCEPT !.r = r, !.us = {u}, !.n = 1] \in Tasks
    BY BlankType DEF Tasks, Active
  <2> QED BY <2>1, <2>2, EnterPosed DEF Active, Blank
<1>3. CASE DeductRead(c)
  <2>1. task[c].r \in Resellers /\ account[task[c].r] # "none"
    BY <1>3 DEF DeductRead, TypeInv, Posed
  <2>2. [task[c] EXCEPT !.seen = credits[task[c].r]] \in Tasks
    BY <1>0, <2>1 DEF Tasks
  <2>3. CASE task[c].r \in Active /\ credits[task[c].r] >= task[c].n
    BY <1>3, <2>1, <2>2, <2>3, <1>0, EnterPosed DEF DeductRead, Tasks
  <2>4. CASE ~(task[c].r \in Active /\ credits[task[c].r] >= task[c].n)
    BY <1>3, <2>1, <2>4, <1>0, EnterPosed DEF DeductRead
  <2> QED BY <2>3, <2>4
<1>4. CASE ExtendRead(c)
  <2>1. PICK r \in Active : \E us \in SUBSET LinesOf(r) \ {{}} :
          /\ Begin(c, "balance", [Blank EXCEPT !.r = r, !.us = us, !.n = Price(r) * Cardinality(us),
                                               !.had = Expiries(us)])
          /\ UNCHANGED <<rowVars, credits, shown, lineVars, commVars>>
    BY <1>4 DEF ExtendRead
  <2>2. PICK us \in SUBSET Users :
          /\ Begin(c, "balance", [Blank EXCEPT !.r = r, !.us = us, !.n = Price(r) * Cardinality(us),
                                               !.had = Expiries(us)])
          /\ UNCHANGED <<rowVars, credits, shown, lineVars, commVars>>
    BY <2>1 DEF LinesOf
  <2>3. Price(r) * Cardinality(us) \in Nat /\ (r \in SlotBilled => Price(r) * Cardinality(us) = 0)
    BY PriceType, CountType DEF Active, Price
  <2> DEFINE t == [Blank EXCEPT !.r = r, !.us = us, !.n = Price(r) * Cardinality(us),
                                !.had = Expiries(us)]
  <2>4. t \in Tasks /\ t.r = r /\ t.n = Price(r) * Cardinality(us)
    BY <1>0, <2>3, BlankType DEF Tasks, Active, Blank
  <2>5. r \in Resellers /\ account[r] # "none"
    BY DEF Active
  <2> HIDE DEF t
  <2> QED BY <2>2, <2>3, <2>4, <2>5, EnterPosed DEF t
<1>5. CASE ExtendBalance(c)
  <2>1. task[c].r \in Resellers /\ account[task[c].r] # "none"
    BY <1>5 DEF ExtendBalance, TypeInv, Posed
  <2>2. [task[c] EXCEPT !.seen = credits[task[c].r]] \in Tasks
    BY <1>0, <2>1 DEF Tasks
  <2> QED BY <1>5, <2>1, <2>2, <1>0, EnterPosed DEF ExtendBalance, Tasks
<1>6. CASE RenewRead(c)
  <2>1. PICK u \in Users :
          /\ owner[u] \in Resellers
          /\ Begin(c, "extend", [Blank EXCEPT !.r = owner[u], !.us = {u}, !.n = 1,
                                              !.seen = credits[owner[u]], !.had = Expiries({u})])
          /\ UNCHANGED <<rowVars, credits, shown, lineVars, commVars>>
    BY <1>6 DEF RenewRead
  <2>2. [Blank EXCEPT !.r = owner[u], !.us = {u}, !.n = 1, !.seen = credits[owner[u]],
                      !.had = Expiries({u})] \in Tasks
    BY <1>0, <2>1, BlankType DEF Tasks
  <2>3. account[owner[u]] # "none"
    BY <2>1 DEF TypeInv, Posed
  <2> QED BY <2>1, <2>2, <2>3, EnterPosed DEF Blank
<1>7. CASE TransferRead(c)
  <2>1. PICK from \in Active, to \in Active, n \in Amounts :
          /\ Begin(c, "transfer", [Blank EXCEPT !.r = from, !.to = to, !.n = n])
          /\ UNCHANGED <<rowVars, credits, shown, lineVars, commVars>>
    BY <1>7 DEF TransferRead
  <2>2. [Blank EXCEPT !.r = from, !.to = to, !.n = n] \in Tasks
    BY BlankType, CreditsAssumption DEF Tasks, Active, CreditsAssumption
  <2> QED BY <2>1, <2>2, EnterPosed DEF Active, Blank
<1>8. CASE SubRead(c)
  <2>1. PICK r \in Active, s \in Resellers, n \in Amounts \cup {0} :
          /\ account[s] = "none"
          /\ Begin(c, "sub", [Blank EXCEPT !.r = r, !.to = s, !.n = n, !.seen = credits[r]])
          /\ UNCHANGED <<rowVars, credits, shown, lineVars, commVars>>
    BY <1>8 DEF SubRead
  <2>2. r \in Resellers /\ credits[r] \in Int /\ n \in Nat
    BY <1>0, CreditsAssumption DEF Active, CreditsAssumption
  <2>3. [Blank EXCEPT !.r = r, !.to = s, !.n = n, !.seen = credits[r]] \in Tasks
    BY <2>2, BlankType DEF Tasks
  <2> QED BY <2>1, <2>3, EnterPosed DEF Active, Blank
<1>9. CASE DeleteRead(c)
  <2>1. PICK r \in Active :
          /\ Begin(c, "delete", [Blank EXCEPT !.r = r])
          /\ UNCHANGED <<rowVars, credits, shown, lineVars, commVars>>
    BY <1>9 DEF DeleteRead
  <2>2. [Blank EXCEPT !.r = r] \in Tasks
    BY BlankType DEF Tasks, Active
  <2> QED BY <2>1, <2>2, EnterPosed DEF Active, Blank
<1>10. CASE AddRead(c)
  <2>1. PICK r \in Active, n \in Amounts, k \in Comms :
          /\ Begin(c, "add", [Blank EXCEPT !.r = r, !.n = n, !.seen = credits[r], !.k = k])
          /\ UNCHANGED <<rowVars, credits, shown, lineVars, commVars>>
    BY <1>10 DEF AddRead
  <2>2. [Blank EXCEPT !.r = r, !.n = n, !.seen = credits[r], !.k = k] \in Tasks
    BY <1>0, BlankType, CreditsAssumption DEF Tasks, Active, CreditsAssumption
  <2> QED BY <2>1, <2>2, EnterPosed DEF Active, Blank
<1>11. CASE PayRead(c)
  <2>1. PICK k \in Comms :
          /\ comm[k] = "PENDING"
          /\ Begin(c, "payBalance", [Blank EXCEPT !.r = Earner(k), !.n = amount[k], !.k = k])
          /\ UNCHANGED <<rowVars, credits, shown, lineVars, commVars>>
    BY <1>11 DEF PayRead
  <2>2. Earner(k) \in Resellers /\ account[Earner(k)] # "none" /\ amount[k] \in Nat
    BY <2>1 DEF TypeInv, Posed, TypeOK
  <2>3. [Blank EXCEPT !.r = Earner(k), !.n = amount[k], !.k = k] \in Tasks
    BY <2>2, BlankType DEF Tasks
  <2> QED BY <2>1, <2>2, <2>3, EnterPosed DEF Blank
<1>12. CASE PayBalance(c)
  <2>1. task[c].r \in Resellers /\ account[task[c].r] # "none" /\ task[c].k \in Comms
    BY <1>12 DEF PayBalance, TypeInv, Posed
  <2>2. [task[c] EXCEPT !.seen = credits[task[c].r]] \in Tasks
    BY <1>0, <2>1 DEF Tasks
  <2> QED BY <1>12, <2>1, <2>2, <1>0, EnterPosed DEF PayBalance, Tasks
<1>13. CASE RemoveRead(c)
  <2>1. PICK k \in Comms :
          /\ Begin(c, "remove", [Blank EXCEPT !.k = k])
          /\ UNCHANGED <<rowVars, credits, shown, lineVars, commVars>>
    BY <1>13 DEF RemoveRead
  <2>2. [Blank EXCEPT !.k = k] \in Tasks
    BY BlankType DEF Tasks
  <2> QED BY <2>1, <2>2, EnterPosed DEF Blank
<1> QED BY <1>1, <1>2, <1>3, <1>4, <1>5, <1>6, <1>7, <1>8, <1>9, <1>10, <1>11, <1>12, <1>13

----------------------------------------------------------------------------
\* Every step that writes keeps TypeInv.
LEMMA WriteTypes ==
  ASSUME TypeInv, NEW c \in Calls,
         \/ SellCommit(c) \/ CreateInsert(c) \/ DeductCommit(c) \/ Rollback(c) \/ ExtendCommit(c)
         \/ TransferCommit(c) \/ SubCommit(c) \/ DeleteCommit(c) \/ AddCommit(c) \/ PayCommit(c)
         \/ RemoveCommit(c)
  PROVE  TypeInv'
<1> DEFINE t == task[c]
<1>0. /\ t \in Tasks
      /\ pc[c] \notin {"idle", "remove"} => t.r \in Resellers /\ account[t.r] # "none"
      /\ pc[c] \in {"transfer", "sub"} => t.to \in Resellers
      /\ pc[c] \in {"add", "payBalance", "pay", "remove"} => t.k \in Comms
  BY DEF TypeInv, TypeOK, Posed
<1> USE DEF rowVars, lineVars, commVars
<1>1. CASE SellCommit(c)
  <2>1. t.r \in Resellers /\ account[t.r] # "none" /\ t.n \in Nat /\ t.seen \in Int /\ t.us \subseteq Users
    BY <1>0, <1>1 DEF SellCommit, Tasks
  <2>2. TypeOK'
    BY <1>1, <2>1, CloseType DEF TypeInv, TypeOK, SellCommit, Charge
  <2>3. Posed'
    BY <1>1, <2>1 DEF TypeInv, TypeOK, Posed, SellCommit, Close, Earner
  <2> QED BY <2>2, <2>3 DEF TypeInv
<1>2. CASE CreateInsert(c)
  <2>1. t.r \in Resellers /\ account[t.r] # "none" /\ t.us \subseteq Users
    BY <1>0, <1>2 DEF CreateInsert, Tasks
  <2>2. TypeOK'
    BY <1>2, <2>1 DEF TypeInv, TypeOK, CreateInsert, Pcs
  <2>3. Posed'
    BY <1>2, <2>1 DEF TypeInv, TypeOK, Posed, CreateInsert, Earner
  <2> QED BY <2>2, <2>3 DEF TypeInv
<1>3. CASE DeductCommit(c)
  <2>1. t.r \in Resellers /\ t.n \in Nat /\ t.seen \in Int
    BY <1>0, <1>3 DEF DeductCommit, Tasks
  <2>2. TypeOK'
    BY <1>3, <2>1, CloseType DEF TypeInv, TypeOK, DeductCommit, Charge
  <2>3. Posed'
    BY <1>3 DEF TypeInv, TypeOK, Posed, DeductCommit, Close, Earner
  <2> QED BY <2>2, <2>3 DEF TypeInv
<1>4. CASE Rollback(c)
  <2>1. TypeOK'
    BY <1>4, CloseType DEF TypeInv, TypeOK, Rollback
  <2>2. Posed'
    BY <1>4, CreditsAssumption DEF CreditsAssumption, TypeInv, TypeOK, Posed, Rollback, Close, Earner
  <2> QED BY <2>1, <2>2 DEF TypeInv
<1>5. CASE ExtendCommit(c)
  <2>1. t.r \in Resellers /\ t.n \in Nat /\ t.seen \in Int /\ t.had \in [Users -> Nat]
    BY <1>0, <1>5 DEF ExtendCommit, Tasks
  <2>2. TypeOK'
    BY <1>5, <2>1, CloseType DEF TypeInv, TypeOK, ExtendCommit, Charge
  <2>3. Posed'
    BY <1>5 DEF TypeInv, TypeOK, Posed, ExtendCommit, Close, Earner
  <2> QED BY <2>2, <2>3 DEF TypeInv
<1>6. CASE TransferCommit(c)
  <2>1. t.r \in Resellers /\ t.to \in Resellers /\ t.n \in Nat
    BY <1>0, <1>6 DEF TransferCommit, Tasks
  <2>2. TypeOK'
    BY <1>6, <2>1, CloseType DEF TypeInv, TypeOK, TransferCommit
  <2>3. Posed'
    BY <1>6 DEF TypeInv, TypeOK, Posed, TransferCommit, Close, Earner
  <2> QED BY <2>2, <2>3 DEF TypeInv
<1>7. CASE SubCommit(c)
  <2>1. t.r \in Resellers /\ t.to \in Resellers /\ t.n \in Nat /\ t.seen \in Int
    BY <1>0, <1>7 DEF SubCommit, Tasks
  <2>2. TypeOK'
    BY <1>7, <2>1, CloseType DEF TypeInv, TypeOK, SubCommit
  <2>3. Posed'
    BY <1>7, <2>1 DEF TypeInv, TypeOK, Posed, SubCommit, Close, Earner
  <2> QED BY <2>2, <2>3 DEF TypeInv
<1>8. CASE DeleteCommit(c)
  <2>1. t.r \in Resellers
    BY <1>0, <1>8 DEF DeleteCommit
  <2>2. TypeOK'
    BY <1>8, <2>1, CloseType DEF TypeInv, TypeOK, DeleteCommit
  <2>3. Posed'
    BY <1>8, <2>1 DEF TypeInv, TypeOK, Posed, DeleteCommit, Close, Earner
  <2> QED BY <2>2, <2>3 DEF TypeInv
<1>9. CASE AddCommit(c)
  <2>1. t.r \in Resellers /\ t.n \in Nat /\ t.seen \in Int /\ t.k \in Comms
    BY <1>0, <1>9 DEF AddCommit, Tasks
  <2>2. TypeOK'
    BY <1>9, <2>1, CloseType DEF TypeInv, TypeOK, AddCommit, Grant
  <2>3. Posed'
    BY <1>9, <2>1 DEF TypeInv, TypeOK, Posed, AddCommit, Close, Earner
  <2> QED BY <2>2, <2>3 DEF TypeInv
<1>10. CASE PayCommit(c)
  <2>1. t.r \in Resellers /\ t.n \in Nat /\ t.seen \in Int /\ t.k \in Comms
    BY <1>0, <1>10 DEF PayCommit, Tasks
  <2>2. TypeOK'
    BY <1>10, <2>1, CloseType DEF TypeInv, TypeOK, PayCommit, Grant
  <2>3. Posed'
    BY <1>10, <2>1 DEF TypeInv, TypeOK, Posed, PayCommit, Close, Earner
  <2> QED BY <2>2, <2>3 DEF TypeInv
<1>11. CASE RemoveCommit(c)
  <2>1. t.k \in Comms
    BY <1>0, <1>11 DEF RemoveCommit
  <2>2. TypeOK'
    BY <1>11, <2>1, CloseType DEF TypeInv, TypeOK, RemoveCommit
  <2>3. Posed'
    BY <1>11, <2>1 DEF TypeInv, TypeOK, Posed, RemoveCommit, Close, Earner
  <2> QED BY <2>2, <2>3 DEF TypeInv
<1> QED BY <1>1, <1>2, <1>3, <1>4, <1>5, <1>6, <1>7, <1>8, <1>9, <1>10, <1>11

LEMMA AccrueTypes ==
  ASSUME TypeInv, NEW k \in Comms, Accrue(k)
  PROVE  TypeInv'
<1>1. source[k] \in Resellers
  BY DEF Accrue, TypeInv, Posed
<1>2. Earner(k) \in Resellers \cup {Nobody}
  BY <1>1, CreditsAssumption DEF Earner, CreditsAssumption
<1>3. Earned(k) \in Nat
  <2>1. amount[k] * Rate \in Nat
    BY CreditsAssumption DEF CreditsAssumption, TypeInv, TypeOK
  <2> QED BY <2>1 DEF Earned
<1>4. TypeOK'
  BY <1>3 DEF TypeInv, TypeOK, Accrue, rowVars, lineVars
<1>5. Posed'
  BY <1>1, <1>2 DEF TypeInv, TypeOK, Posed, Accrue, Referred, Earner, rowVars, lineVars
<1> QED BY <1>4, <1>5 DEF TypeInv

LEMMA InitTypes == Init => TypeInv
<1> SUFFICES ASSUME Init PROVE TypeInv
  OBVIOUS
<1>1. TypeOK
  BY BlankType, CreditsAssumption DEF CreditsAssumption, Init, TypeOK, Pcs
<1>2. Posed
  BY CreditsAssumption DEF CreditsAssumption, Init, Posed
<1> QED BY <1>1, <1>2 DEF TypeInv

LEMMA StepTypes == TypeInv /\ [Next]_vars => TypeInv'
<1> SUFFICES ASSUME TypeInv, [Next]_vars PROVE TypeInv'
  OBVIOUS
<1>1. CASE UNCHANGED vars
  BY <1>1 DEF TypeInv, TypeOK, Posed, Earner, vars, rowVars, lineVars, commVars
<1>2. ASSUME NEW k \in Comms, Accrue(k) PROVE TypeInv'
  BY <1>2, AccrueTypes
<1>3. ASSUME NEW c \in Calls,
             \/ Selling(c) \/ Creating(c) \/ Extending(c) \/ Moving(c) \/ Managing(c) \/ Paying(c)
      PROVE  TypeInv'
  <2>1. CASE \/ SellFails(c) \/ CreateFails(c) \/ BouquetGone(c) \/ ExtendRefused(c)
             \/ ExtendFails(c) \/ TransferFails(c) \/ SubFails(c) \/ CommissionGone(c)
    BY <2>1, AbortPosed DEF SellFails, CreateFails, BouquetGone, ExtendRefused, ExtendFails,
       TransferFails, SubFails, CommissionGone
  <2> QED
    BY <1>3, <2>1, ReadTypes, WriteTypes
    DEF Selling, Creating, Extending, Moving, Managing, Paying
<1> QED BY <1>1, <1>2, <1>3 DEF Next

\* Every variable keeps its type, and every row a call names exists.
THEOREM CreditsTyped == Spec => []TypeOK
<1>1. TypeInv => TypeOK
  BY DEF TypeInv
<1> QED BY <1>1, InitTypes, StepTypes, PTL DEF Spec

----------------------------------------------------------------------------
(* Balances.  Inductive: a call that is about to spend can still afford it *)
(* unless a debit slipped in, and a call that is about to log a balance    *)
(* has read the present one unless it moved.                               *)

Spending == {"sell", "deduct", "extend", "sub"}
Logging  == Spending \cup {"add", "pay"}

BalanceInv == \A r \in Resellers :
  /\ <<"funds", r>> \notin slipped =>
       /\ credits[r] >= 0
       /\ \A c \in Calls : pc[c] \in Spending /\ task[c].r = r => task[c].n <= credits[r]
  /\ <<"balance", r>> \notin slipped =>
       /\ shown[r] = credits[r]
       /\ \A c \in Calls : pc[c] \in Logging /\ task[c].r = r => task[c].seen = credits[r]

LEMMA HeldFacts ==
  ASSUME NEW d \in Calls
  PROVE  /\ pc[d] \in Spending => <<"funds", task[d].r>> \in Relies(d)
         /\ pc[d] \in Logging => <<"balance", task[d].r>> \in Relies(d)
         /\ pc[d] \in {"payBalance", "pay", "remove"} => <<"commission", task[d].k>> \in Relies(d)
<1>1. HeldAt.funds = Spending /\ HeldAt.balance = Logging
      /\ HeldAt.commission = {"payBalance", "pay", "remove"}
      /\ HeldAt["funds"] = Spending /\ HeldAt["balance"] = Logging
  BY DEF HeldAt, Spending, Logging
<1> QED BY <1>1 DEF Relies

\* A fact a step changes and that has still not slipped is held by no other call.
LEMMA NotSlipped ==
  ASSUME NEW c \in Calls, NEW F, Slip(c, F)
  PROVE  /\ slipped \subseteq slipped'
         /\ \A f \in F : f \notin slipped' => \A d \in Calls \ {c} : f \notin Relies(d)
  BY DEF Slip

\* Who else relies on the balance a step changes, if the change has not slipped.
LEMMA AloneOnBalance ==
  ASSUME NEW c \in Calls, NEW F, Slip(c, F), NEW r
  PROVE  /\ slipped \subseteq slipped'
         /\ <<"funds", r>> \in F /\ <<"funds", r>> \notin slipped' =>
              \A d \in Calls \ {c} : ~(pc[d] \in Spending /\ task[d].r = r)
         /\ <<"balance", r>> \in F /\ <<"balance", r>> \notin slipped' =>
              \A d \in Calls \ {c} : ~(pc[d] \in Logging /\ task[d].r = r)
<1>1. \A d \in Calls : /\ pc[d] \in Spending => <<"funds", task[d].r>> \in Relies(d)
                       /\ pc[d] \in Logging => <<"balance", task[d].r>> \in Relies(d)
  BY HeldFacts
<1> QED BY <1>1, NotSlipped

LEMMA EnterBalance ==
  ASSUME TypeInv, BalanceInv, NEW c \in Calls, NEW p \in Pcs, NEW t,
         Begin(c, p, t) \/ Go(c, p, t), UNCHANGED <<credits, shown>>,
         p \in Spending => t.n <= credits[t.r] \/ t.n = 0,
         p \in Logging => t.seen = credits[t.r]
  PROVE  BalanceInv'
<1>1. pc' = [pc EXCEPT ![c] = p] /\ task' = [task EXCEPT ![c] = t] /\ slipped' = slipped
  BY DEF Begin, Go
<1> QED BY <1>1 DEF BalanceInv, TypeInv, TypeOK

\* A call stops relying on the balance, and no balance moves.
LEMMA LeaveBalance ==
  ASSUME TypeInv, BalanceInv, NEW c \in Calls, slipped \subseteq slipped',
         UNCHANGED <<credits, shown>>,
         Close(c) \/ (pc' = [pc EXCEPT ![c] = "created"] /\ task' = task)
  PROVE  BalanceInv'
<1>1. \A d \in Calls : pc'[d] \in Logging => pc'[d] = pc[d] /\ task'[d] = task[d]
  BY DEF TypeInv, TypeOK, Close, Spending, Logging
<1>2. Spending \subseteq Logging
  BY DEF Logging
<1> QED BY <1>1, <1>2 DEF BalanceInv

\* A charge computed from what the call has read.
LEMMA SpendBalance ==
  ASSUME TypeInv, BalanceInv, NEW c \in Calls, NEW G, pc[c] \in Spending,
         Charge(task[c].r, task[c].n, task[c].seen),
         Slip(c, Spent(task[c].r, task[c].n) \cup G), Close(c)
  PROVE  BalanceInv'
<1> DEFINE t == task[c]
<1>1. t.r \in Resellers /\ t.n \in Nat /\ t.seen \in Int
  BY DEF TypeInv, TypeOK, Posed, Tasks, Spending
<1>2. /\ \A r \in Resellers : credits[r] \in Int /\ shown[r] \in Int
      /\ \A d \in Calls : task[d].n \in Nat /\ task[d].seen \in Int
  BY DEF TypeInv, TypeOK, Tasks
<1>3. /\ credits' = [credits EXCEPT ![t.r] = @ - t.n]
      /\ shown' = [shown EXCEPT ![t.r] = t.seen - t.n]
      /\ credits \in [Resellers -> Int] /\ shown \in [Resellers -> Int]
      /\ pc \in [Calls -> Pcs] /\ task \in [Calls -> Tasks]
  BY DEF Charge, TypeInv, TypeOK
<1>4. slipped \subseteq slipped'
  BY NotSlipped
<1>5. \A d \in Calls : pc'[d] \in Logging => d # c /\ pc'[d] = pc[d] /\ task'[d] = task[d]
  BY <1>3 DEF Close, Logging, Spending
<1>6. Spending \subseteq Logging
  BY DEF Logging
<1>7. t.n > 0 => /\ <<"funds", t.r>> \notin slipped' =>
                      \A d \in Calls \ {c} : ~(pc[d] \in Spending /\ task[d].r = t.r)
                 /\ <<"balance", t.r>> \notin slipped' =>
                      \A d \in Calls \ {c} : ~(pc[d] \in Logging /\ task[d].r = t.r)
  <2>1. t.n > 0 => {<<"funds", t.r>>, <<"balance", t.r>>} \subseteq Spent(t.r, t.n) \cup G
    BY <1>1 DEF Spent
  <2> QED BY <2>1, AloneOnBalance
<1> SUFFICES ASSUME NEW r \in Resellers
             PROVE  /\ <<"funds", r>> \notin slipped' =>
                         /\ credits'[r] >= 0
                         /\ \A d \in Calls : pc'[d] \in Spending /\ task'[d].r = r => task'[d].n <= credits'[r]
                    /\ <<"balance", r>> \notin slipped' =>
                         /\ shown'[r] = credits'[r]
                         /\ \A d \in Calls : pc'[d] \in Logging /\ task'[d].r = r => task'[d].seen = credits'[r]
  BY DEF BalanceInv
<1>8. CASE r # t.r
  BY <1>3, <1>4, <1>5, <1>6, <1>8 DEF BalanceInv
<1>9. CASE r = t.r /\ t.n = 0
  BY <1>1, <1>2, <1>3, <1>4, <1>5, <1>6, <1>9 DEF BalanceInv
<1>10. CASE r = t.r /\ t.n > 0
  BY <1>1, <1>2, <1>3, <1>4, <1>5, <1>6, <1>7, <1>10 DEF BalanceInv
<1> QED BY <1>1, <1>8, <1>9, <1>10

\* A top-up or a paid commission.
LEMMA GrantBalance ==
  ASSUME TypeInv, BalanceInv, NEW c \in Calls, NEW F, pc[c] \in {"add", "pay"},
         Grant(task[c].r, task[c].n, task[c].seen),
         <<"balance", task[c].r>> \in F, Slip(c, F), Close(c)
  PROVE  BalanceInv'
<1> DEFINE t == task[c]
<1>1. t.r \in Resellers /\ t.n \in Nat /\ t.seen \in Int /\ pc[c] \in Logging
  BY DEF TypeInv, TypeOK, Posed, Tasks, Logging
<1>2. /\ \A r \in Resellers : credits[r] \in Int /\ shown[r] \in Int
      /\ \A d \in Calls : task[d].n \in Nat /\ task[d].seen \in Int
  BY DEF TypeInv, TypeOK, Tasks
<1>3. /\ credits' = [credits EXCEPT ![t.r] = @ + t.n]
      /\ shown' = [shown EXCEPT ![t.r] = t.seen + t.n]
      /\ credits \in [Resellers -> Int] /\ shown \in [Resellers -> Int]
      /\ pc \in [Calls -> Pcs] /\ task \in [Calls -> Tasks]
  BY DEF Grant, TypeInv, TypeOK
<1>4. \A d \in Calls : pc'[d] \in Logging => d # c /\ pc'[d] = pc[d] /\ task'[d] = task[d]
  BY <1>3 DEF Close, Logging, Spending
<1>5. Spending \subseteq Logging
  BY DEF Logging
<1>6. /\ slipped \subseteq slipped'
      /\ <<"balance", t.r>> \notin slipped' =>
           \A d \in Calls \ {c} : ~(pc[d] \in Logging /\ task[d].r = t.r)
  BY AloneOnBalance
<1> SUFFICES ASSUME NEW r \in Resellers
             PROVE  /\ <<"funds", r>> \notin slipped' =>
                         /\ credits'[r] >= 0
                         /\ \A d \in Calls : pc'[d] \in Spending /\ task'[d].r = r => task'[d].n <= credits'[r]
                    /\ <<"balance", r>> \notin slipped' =>
                         /\ shown'[r] = credits'[r]
                         /\ \A d \in Calls : pc'[d] \in Logging /\ task'[d].r = r => task'[d].seen = credits'[r]
  BY DEF BalanceInv
<1>7. CASE r # t.r
  BY <1>3, <1>4, <1>5, <1>6, <1>7 DEF BalanceInv
<1>8. CASE r = t.r
  BY <1>1, <1>2, <1>3, <1>4, <1>5, <1>6, <1>8 DEF BalanceInv
<1> QED BY <1>7, <1>8

LEMMA TransferBalance ==
  ASSUME TypeInv, BalanceInv, NEW c \in Calls, TransferCommit(c)
  PROVE  BalanceInv'
<1> DEFINE t == task[c]
           F == Spent(t.r, t.n) \cup {<<"balance", t.to>>}
<1>1. t.r \in Resellers /\ t.to \in Resellers /\ t.n \in Nat /\ credits[t.r] >= t.n
  BY DEF TransferCommit, TypeInv, TypeOK, Posed, Tasks
<1>2. /\ \A r \in Resellers : credits[r] \in Int /\ shown[r] \in Int
      /\ \A d \in Calls : task[d].n \in Nat /\ task[d].seen \in Int
  BY DEF TypeInv, TypeOK, Tasks
<1>3. /\ credits' = [credits EXCEPT ![t.r] = @ - t.n, ![t.to] = @ + t.n]
      /\ shown' = [shown EXCEPT ![t.r] = credits'[t.r], ![t.to] = credits'[t.to]]
      /\ credits \in [Resellers -> Int] /\ shown \in [Resellers -> Int]
      /\ pc \in [Calls -> Pcs] /\ task \in [Calls -> Tasks]
  BY DEF TransferCommit, TypeInv, TypeOK
<1>4. \A d \in Calls : pc'[d] \in Logging => d # c /\ pc'[d] = pc[d] /\ task'[d] = task[d]
  BY <1>3 DEF TransferCommit, Close, Logging, Spending
<1>5. Spending \subseteq Logging
  BY DEF Logging
<1>6. Slip(c, F) /\ <<"balance", t.to>> \in F
      /\ (t.n > 0 => <<"funds", t.r>> \in F /\ <<"balance", t.r>> \in F)
  BY <1>1 DEF TransferCommit, Spent
<1>7. /\ slipped \subseteq slipped'
      /\ <<"balance", t.to>> \notin slipped' =>
           \A d \in Calls \ {c} : ~(pc[d] \in Logging /\ task[d].r = t.to)
      /\ t.n > 0 /\ <<"funds", t.r>> \notin slipped' =>
           \A d \in Calls \ {c} : ~(pc[d] \in Spending /\ task[d].r = t.r)
      /\ t.n > 0 /\ <<"balance", t.r>> \notin slipped' =>
           \A d \in Calls \ {c} : ~(pc[d] \in Logging /\ task[d].r = t.r)
  <2> HIDE DEF F
  <2> QED BY <1>6, AloneOnBalance
<1> SUFFICES ASSUME NEW r \in Resellers
             PROVE  /\ <<"funds", r>> \notin slipped' =>
                         /\ credits'[r] >= 0
                         /\ \A d \in Calls : pc'[d] \in Spending /\ task'[d].r = r => task'[d].n <= credits'[r]
                    /\ <<"balance", r>> \notin slipped' =>
                         /\ shown'[r] = credits'[r]
                         /\ \A d \in Calls : pc'[d] \in Logging /\ task'[d].r = r => task'[d].seen = credits'[r]
  BY DEF BalanceInv
<1>8. CASE r \notin {t.r, t.to}
  BY <1>3, <1>4, <1>5, <1>7, <1>8 DEF BalanceInv
<1>9. CASE r = t.to
  <2>1. shown'[r] = credits'[r]
    BY <1>3, <1>9
  <2>2. t.to # t.r => credits'[r] = credits[r] + t.n
    BY <1>1, <1>2, <1>3, <1>9
  <2>3. t.to = t.r => credits'[r] = credits[r]
    BY <1>1, <1>2, <1>3, <1>9
  <2> QED BY <1>1, <1>2, <1>4, <1>5, <1>7, <1>9, <2>1, <2>2, <2>3 DEF BalanceInv
<1>10. CASE r = t.r /\ r # t.to
  <2>1. credits'[r] = credits[r] - t.n /\ shown'[r] = credits'[r]
    BY <1>1, <1>2, <1>3, <1>10
  <2> QED BY <1>1, <1>2, <1>4, <1>5, <1>7, <1>10, <2>1 DEF BalanceInv
<1> QED BY <1>8, <1>9, <1>10

LEMMA SubBalance ==
  ASSUME TypeInv, BalanceInv, NEW c \in Calls, SubCommit(c)
  PROVE  BalanceInv'
<1> DEFINE t == task[c]
           F == Spent(t.r, t.n) \cup {<<"dependants", t.r>>}
<1>1. /\ t.r \in Resellers /\ t.to \in Resellers /\ t.to # t.r
      /\ t.n \in Nat /\ t.seen \in Int /\ pc[c] \in Spending
  BY DEF SubCommit, TypeInv, TypeOK, Posed, Tasks, Spending
<1>2. /\ \A r \in Resellers : credits[r] \in Int /\ shown[r] \in Int
      /\ \A d \in Calls : task[d].n \in Nat /\ task[d].seen \in Int
  BY DEF TypeInv, TypeOK, Tasks
<1>3. /\ credits' = [credits EXCEPT ![t.r] = @ - t.n, ![t.to] = t.n]
      /\ shown' = [shown EXCEPT ![t.r] = IF t.n = 0 THEN @ ELSE t.seen - t.n, ![t.to] = t.n]
      /\ credits \in [Resellers -> Int] /\ shown \in [Resellers -> Int]
      /\ pc \in [Calls -> Pcs] /\ task \in [Calls -> Tasks]
  BY DEF SubCommit, TypeInv, TypeOK
<1>4. \A d \in Calls : pc'[d] \in Logging => d # c /\ pc'[d] = pc[d] /\ task'[d] = task[d]
  BY <1>3 DEF SubCommit, Close, Logging, Spending
<1>5. Spending \subseteq Logging
  BY DEF Logging
<1>6. Slip(c, F) /\ (t.n > 0 => <<"funds", t.r>> \in F /\ <<"balance", t.r>> \in F)
  BY <1>1 DEF SubCommit, Spent
<1>7. /\ slipped \subseteq slipped'
      /\ t.n > 0 /\ <<"funds", t.r>> \notin slipped' =>
           \A d \in Calls \ {c} : ~(pc[d] \in Spending /\ task[d].r = t.r)
      /\ t.n > 0 /\ <<"balance", t.r>> \notin slipped' =>
           \A d \in Calls \ {c} : ~(pc[d] \in Logging /\ task[d].r = t.r)
  <2> HIDE DEF F
  <2> QED BY <1>6, AloneOnBalance
<1>8. \A d \in Calls : ~(pc[d] \in Logging /\ task[d].r = t.to)  \* there was no such row
  BY DEF SubCommit, TypeInv, Posed, Logging, Spending
<1> SUFFICES ASSUME NEW r \in Resellers
             PROVE  /\ <<"funds", r>> \notin slipped' =>
                         /\ credits'[r] >= 0
                         /\ \A d \in Calls : pc'[d] \in Spending /\ task'[d].r = r => task'[d].n <= credits'[r]
                    /\ <<"balance", r>> \notin slipped' =>
                         /\ shown'[r] = credits'[r]
                         /\ \A d \in Calls : pc'[d] \in Logging /\ task'[d].r = r => task'[d].seen = credits'[r]
  BY DEF BalanceInv
<1>9. CASE r \notin {t.r, t.to}
  BY <1>3, <1>4, <1>5, <1>7, <1>9 DEF BalanceInv
<1>10. CASE r = t.to
  BY <1>1, <1>3, <1>4, <1>5, <1>8, <1>10
<1>11. CASE r = t.r /\ t.n = 0
  BY <1>1, <1>2, <1>3, <1>4, <1>5, <1>7, <1>11 DEF BalanceInv
<1>12. CASE r = t.r /\ t.n > 0
  BY <1>1, <1>2, <1>3, <1>4, <1>5, <1>7, <1>12 DEF BalanceInv
<1> QED BY <1>1, <1>9, <1>10, <1>11, <1>12

LEMMA ReadBalance ==
  ASSUME TypeInv, BalanceInv, NEW c \in Calls,
         \/ SellRead(c) \/ CreateRead(c) \/ DeductRead(c) \/ ExtendRead(c) \/ ExtendBalance(c)
         \/ RenewRead(c) \/ TransferRead(c) \/ SubRead(c) \/ DeleteRead(c) \/ AddRead(c)
         \/ PayRead(c) \/ PayBalance(c) \/ RemoveRead(c)
  PROVE  BalanceInv'
<1> USE EnterBalance DEF Pcs, Spending, Logging, Blank, rowVars, lineVars, commVars
<1>0. /\ task[c] \in Tasks
      /\ \A r \in Resellers : credits[r] \in Int
  BY DEF TypeInv, TypeOK
<1>1. CASE SellRead(c)
  <2>1. \A r \in Active : r \in SlotBilled => Price(r) = 0
    BY PriceType DEF Active
  <2> QED BY <1>1, <2>1, <1>0, PriceType DEF SellRead, Active
<1>2. CASE CreateRead(c)
  BY <1>2 DEF CreateRead
<1>3. CASE DeductRead(c)
  <2>1. CASE task[c].r \in Active /\ credits[task[c].r] >= task[c].n
    BY <1>0, <1>3, <2>1 DEF DeductRead, Tasks, Active
  <2>2. CASE ~(task[c].r \in Active /\ credits[task[c].r] >= task[c].n)
    BY <1>3, <2>2 DEF DeductRead
  <2> QED BY <2>1, <2>2
<1>4. CASE ExtendRead(c)
  BY <1>4 DEF ExtendRead
<1>5. CASE ExtendBalance(c)
  <2>1. task[c].r \in Resellers /\ (task[c].r \in SlotBilled => task[c].n = 0)
    BY <1>5 DEF ExtendBalance, TypeInv, Posed
  <2> QED BY <1>0, <1>5, <2>1 DEF ExtendBalance, Tasks
<1>6. CASE RenewRead(c)
  BY <1>0, <1>6 DEF RenewRead
<1>7. CASE TransferRead(c)
  BY <1>7 DEF TransferRead
<1>8. CASE SubRead(c)
  <2>1. \A n \in Amounts : n \in Nat /\ n > 0
    BY CreditsAssumption DEF CreditsAssumption
  <2> QED BY <1>0, <1>8, <2>1 DEF SubRead, Active
<1>9. CASE DeleteRead(c)
  BY <1>9 DEF DeleteRead
<1>10. CASE AddRead(c)
  BY <1>10 DEF AddRead
<1>11. CASE PayRead(c)
  BY <1>11 DEF PayRead
<1>12. CASE PayBalance(c)
  BY <1>0, <1>12 DEF PayBalance, Tasks
<1>13. CASE RemoveRead(c)
  BY <1>13 DEF RemoveRead
<1> QED BY <1>1, <1>2, <1>3, <1>4, <1>5, <1>6, <1>7, <1>8, <1>9, <1>10, <1>11, <1>12, <1>13

LEMMA InitBalance == Init => BalanceInv
  BY CreditsAssumption DEF CreditsAssumption, Init, BalanceInv, Spending, Logging

LEMMA StepBalance == TypeInv /\ BalanceInv /\ [Next]_vars => BalanceInv'
<1> SUFFICES ASSUME TypeInv, BalanceInv, [Next]_vars PROVE BalanceInv'
  OBVIOUS
<1>1. CASE UNCHANGED vars
  BY <1>1 DEF BalanceInv, vars
<1>2. ASSUME NEW k \in Comms, Accrue(k) PROVE BalanceInv'
  BY <1>2 DEF BalanceInv, Accrue
<1>3. ASSUME NEW c \in Calls,
             \/ Selling(c) \/ Creating(c) \/ Extending(c) \/ Moving(c) \/ Managing(c) \/ Paying(c)
      PROVE  BalanceInv'
  <2>1. CASE \/ SellFails(c) \/ CreateFails(c) \/ BouquetGone(c) \/ ExtendRefused(c)
             \/ ExtendFails(c) \/ TransferFails(c) \/ SubFails(c) \/ CommissionGone(c)
    <3>1. Abort(c)
      BY <2>1 DEF SellFails, CreateFails, BouquetGone, ExtendRefused, ExtendFails,
         TransferFails, SubFails, CommissionGone
    <3> QED BY <3>1, LeaveBalance DEF Abort
  <2>2. CASE SellCommit(c) \/ DeductCommit(c) \/ ExtendCommit(c)
    <3>1. pc[c] \in Spending /\ Charge(task[c].r, task[c].n, task[c].seen) /\ Close(c)
      BY <2>2 DEF SellCommit, DeductCommit, ExtendCommit, Spending
    <3>2. CASE SellCommit(c)
      BY <3>1, <3>2, SpendBalance DEF SellCommit
    <3>3. CASE DeductCommit(c)
      <4>1. Slip(c, Spent(task[c].r, task[c].n) \cup {})
        BY <3>3 DEF DeductCommit, Slip
      <4> QED BY <3>1, <4>1, SpendBalance
    <3>4. CASE ExtendCommit(c)
      BY <3>1, <3>4, SpendBalance DEF ExtendCommit
    <3> QED BY <2>2, <3>2, <3>3, <3>4
  <2>3. CASE CreateInsert(c) \/ Rollback(c) \/ DeleteCommit(c) \/ RemoveCommit(c)
    <3>1. slipped \subseteq slipped'
      BY <2>3 DEF CreateInsert, Rollback, DeleteCommit, RemoveCommit, Slip
    <3> QED BY <2>3, <3>1, LeaveBalance DEF CreateInsert, Rollback, DeleteCommit, RemoveCommit
  <2>4. CASE AddCommit(c)
    <3> DEFINE F == {<<"balance", task[c].r>>}
    <3>1. pc[c] \in {"add", "pay"} /\ <<"balance", task[c].r>> \in F
          /\ Grant(task[c].r, task[c].n, task[c].seen) /\ Slip(c, F) /\ Close(c)
      BY <2>4 DEF AddCommit
    <3> HIDE DEF F
    <3> QED BY <3>1, GrantBalance
  <2>5. CASE PayCommit(c)
    <3> DEFINE F == {<<"balance", task[c].r>>, <<"commission", task[c].k>>}
    <3>1. pc[c] \in {"add", "pay"} /\ <<"balance", task[c].r>> \in F
          /\ Grant(task[c].r, task[c].n, task[c].seen) /\ Slip(c, F) /\ Close(c)
      BY <2>5 DEF PayCommit
    <3> HIDE DEF F
    <3> QED BY <3>1, GrantBalance
  <2> QED
    BY <1>3, <2>1, <2>2, <2>3, <2>4, <2>5, ReadBalance, TransferBalance, SubBalance
    DEF Selling, Creating, Extending, Moving, Managing, Paying
<1> QED BY <1>1, <1>2, <1>3 DEF Next

\* A balance is negative only if a debit slipped between another call's check and
\* its decrement, for any number of calls, resellers and lines.
THEOREM CreditsSolvent == Spec => []Solvent
<1>1. BalanceInv => Solvent
  BY DEF BalanceInv, Solvent
<1> QED BY <1>1, InitTypes, StepTypes, InitBalance, StepBalance, PTL DEF Spec

\* The newest credit log states the balance unless the balance moved under a call
\* that had read it.
THEOREM BooksAreTruthful == Spec => []BooksTruthful
<1>1. BalanceInv => BooksTruthful
  BY DEF BalanceInv, BooksTruthful
<1> QED BY <1>1, InitTypes, StepTypes, InitBalance, StepBalance, PTL DEF Spec

----------------------------------------------------------------------------
(* Commissions.  Inductive: a call about to pay or remove one has it       *)
(* PENDING unless it was settled meanwhile, and a top-up's slot is its own. *)

Settling == {"payBalance", "pay", "remove"}

PayInv ==
  /\ \A k \in Comms : <<"commission", k>> \notin slipped =>
       /\ payouts[k] = IF comm[k] = "PAID" THEN 1 ELSE 0
       /\ \A c \in Calls : pc[c] \in Settling /\ task[c].k = k => comm[k] = "PENDING"
  /\ \A c \in Calls : pc[c] \in Settling => comm[task[c].k] \notin {"none", "accruing"}
  /\ \A c \in Calls : pc[c] = "add" => comm[task[c].k] = "none"
  /\ \A c, d \in Calls : c # d /\ pc[c] = "add" /\ pc[d] = "add" => task[c].k # task[d].k

\* A call moves on outside the commissions, or keeps the one it holds.
LEMMA MovePay ==
  ASSUME TypeInv, PayInv, NEW c \in Calls, NEW p, NEW t,
         pc' = [pc EXCEPT ![c] = p], task' = [task EXCEPT ![c] = t],
         slipped \subseteq slipped', UNCHANGED <<comm, payouts>>,
         p \notin Settling \cup {"add"} \/ (pc[c] \in Settling /\ p \in Settling /\ t.k = task[c].k)
  PROVE  PayInv'
  BY DEF PayInv, TypeInv, TypeOK, Settling

\* A call takes hold of a PENDING commission.
LEMMA HoldPay ==
  ASSUME TypeInv, PayInv, NEW c \in Calls, NEW p \in Settling, NEW t,
         pc' = [pc EXCEPT ![c] = p], task' = [task EXCEPT ![c] = t],
         UNCHANGED <<comm, payouts, slipped>>, t.k \in Comms, comm[t.k] = "PENDING"
  PROVE  PayInv'
  BY DEF PayInv, TypeInv, TypeOK, Settling

LEMMA TopUpPay ==
  ASSUME TypeInv, PayInv, NEW c \in Calls, AddRead(c) \/ AddCommit(c)
  PROVE  PayInv'
<1>1. CASE AddRead(c)
  <2>1. PICK r \in Active, n \in Amounts, k \in Comms :
          /\ comm[k] = "none" /\ \A d \in Calls : task[d].k # k
          /\ Begin(c, "add", [Blank EXCEPT !.r = r, !.n = n, !.seen = credits[r], !.k = k])
          /\ UNCHANGED commVars
    BY <1>1 DEF AddRead
  <2> QED BY <2>1 DEF PayInv, TypeInv, TypeOK, Settling, Begin, Blank, commVars
<1>2. CASE AddCommit(c)
  <2>1. slipped \subseteq slipped' /\ task[c].k \in Comms
    BY <1>2 DEF AddCommit, Slip, TypeInv, Posed
  <2> QED BY <1>2, <2>1 DEF PayInv, TypeInv, TypeOK, Settling, AddCommit, Close, Blank
<1> QED BY <1>1, <1>2

LEMMA SettlePay ==
  ASSUME TypeInv, PayInv, NEW c \in Calls, PayCommit(c) \/ RemoveCommit(c)
  PROVE  PayInv'
<1> DEFINE k == task[c].k
<1>1. k \in Comms /\ pc[c] \in Settling
  BY DEF PayCommit, RemoveCommit, TypeInv, Posed, Settling
<1>2. /\ slipped \subseteq slipped'
      /\ <<"commission", k>> \notin slipped' => \A d \in Calls \ {c} : ~(pc[d] \in Settling /\ task[d].k = k)
  <2> DEFINE F == {<<"balance", task[c].r>>, <<"commission", k>>}
             G == {<<"commission", k>>}
  <2>1. <<"commission", k>> \in F /\ <<"commission", k>> \in G /\ (Slip(c, F) \/ Slip(c, G))
    BY DEF PayCommit, RemoveCommit
  <2>2. \A d \in Calls : pc[d] \in Settling => <<"commission", task[d].k>> \in Relies(d)
    BY HeldFacts DEF Settling
  <2> HIDE DEF F, G
  <2> QED BY <2>1, <2>2, NotSlipped
<1>3. /\ pc' = [pc EXCEPT ![c] = "idle"] /\ task' = [task EXCEPT ![c] = Blank]
      /\ \A j \in Comms : j # k => comm'[j] = comm[j] /\ payouts'[j] = payouts[j]
      /\ \/ comm'[k] = "PAID" /\ payouts'[k] = payouts[k] + 1
         \/ comm'[k] = "deleted" /\ payouts'[k] = payouts[k]
  BY <1>1 DEF PayCommit, RemoveCommit, Close, TypeInv, TypeOK
<1>4. \A d \in Calls : pc'[d] \in Settling \cup {"add"} => d # c /\ pc'[d] = pc[d] /\ task'[d] = task[d]
  BY <1>3 DEF TypeInv, TypeOK, Settling
<1>5. comm[k] \notin {"none", "accruing"}
  BY <1>1 DEF PayInv
<1>6. \A d \in Calls : pc[d] \in Settling \cup {"add"} => task[d].k \in Comms
  BY DEF TypeInv, Posed, Settling
<1>7. ASSUME NEW j \in Comms, <<"commission", j>> \notin slipped'
      PROVE  /\ payouts'[j] = IF comm'[j] = "PAID" THEN 1 ELSE 0
             /\ \A d \in Calls : pc'[d] \in Settling /\ task'[d].k = j => comm'[j] = "PENDING"
  <2>1. CASE j # k
    BY <1>2, <1>3, <1>4, <1>7, <2>1 DEF PayInv
  <2>2. CASE j = k
    <3>1. payouts[k] = 0
      BY <1>1, <1>2, <1>7, <2>2 DEF PayInv
    <3> QED BY <1>2, <1>3, <1>4, <1>7, <2>2, <3>1
  <2> QED BY <2>1, <2>2
<1>8. \A d \in Calls : pc'[d] \in Settling => comm'[task'[d].k] \notin {"none", "accruing"}
  BY <1>3, <1>4, <1>6 DEF PayInv
<1>9. \A d \in Calls : pc'[d] = "add" => comm'[task'[d].k] = "none"
  BY <1>3, <1>4, <1>5, <1>6 DEF PayInv
<1>10. \A d, e \in Calls : d # e /\ pc'[d] = "add" /\ pc'[e] = "add" => task'[d].k # task'[e].k
  BY <1>4 DEF PayInv
<1> QED BY <1>7, <1>8, <1>9, <1>10 DEF PayInv

LEMMA AccruePay ==
  ASSUME TypeInv, PayInv, NEW k \in Comms, Accrue(k)
  PROVE  PayInv'
<1>1. /\ UNCHANGED <<pc, task, slipped, payouts>>
      /\ comm[k] = "accruing" /\ comm'[k] \in {"PENDING", "none"}
      /\ \A j \in Comms : j # k => comm'[j] = comm[j]
  BY DEF Accrue, TypeInv, TypeOK
<1>2. \A d \in Calls : pc[d] \in Settling \cup {"add"} => task[d].k \in Comms
  BY DEF TypeInv, Posed, Settling
<1> QED BY <1>1, <1>2 DEF PayInv

LEMMA InitPay == Init => PayInv
  BY DEF Init, PayInv, Settling

LEMMA StepPay == TypeInv /\ PayInv /\ [Next]_vars => PayInv'
<1> SUFFICES ASSUME TypeInv, PayInv, [Next]_vars PROVE PayInv'
  OBVIOUS
<1>1. CASE UNCHANGED vars
  BY <1>1 DEF PayInv, vars, commVars
<1>2. ASSUME NEW k \in Comms, Accrue(k) PROVE PayInv'
  BY <1>2, AccruePay
<1>3. ASSUME NEW c \in Calls,
             \/ Selling(c) \/ Creating(c) \/ Extending(c) \/ Moving(c) \/ Managing(c) \/ Paying(c)
      PROVE  PayInv'
  <2>1. CASE \/ SellFails(c) \/ CreateFails(c) \/ BouquetGone(c) \/ ExtendRefused(c)
             \/ ExtendFails(c) \/ TransferFails(c) \/ SubFails(c) \/ CommissionGone(c)
    <3>1. Abort(c)
      BY <2>1 DEF SellFails, CreateFails, BouquetGone, ExtendRefused, ExtendFails,
         TransferFails, SubFails, CommissionGone
    <3> QED BY <3>1, MovePay DEF Abort, Close, Settling, commVars
  <2>2. CASE \/ SellCommit(c) \/ DeductCommit(c) \/ Rollback(c) \/ ExtendCommit(c)
             \/ TransferCommit(c) \/ SubCommit(c) \/ DeleteCommit(c)
    <3>1. Close(c) /\ UNCHANGED commVars /\ slipped \subseteq slipped'
      BY <2>2 DEF SellCommit, DeductCommit, Rollback, ExtendCommit, TransferCommit, SubCommit,
         DeleteCommit, Slip
    <3> QED BY <3>1, MovePay DEF Close, Settling, commVars
  <2>3. CASE CreateInsert(c)
    <3>1. /\ pc' = [pc EXCEPT ![c] = "created"] /\ task' = [task EXCEPT ![c] = task[c]]
          /\ UNCHANGED commVars /\ slipped \subseteq slipped'
      BY <2>3 DEF CreateInsert, Slip, TypeInv, TypeOK
    <3> QED BY <3>1, MovePay DEF Settling, commVars
  <2>4. CASE \/ SellRead(c) \/ CreateRead(c) \/ ExtendRead(c) \/ RenewRead(c)
             \/ TransferRead(c) \/ SubRead(c) \/ DeleteRead(c)
    <3>1. /\ UNCHANGED <<commVars, slipped>>
          /\ \E p \in {"sell", "insert", "balance", "extend", "transfer", "sub", "delete"} : \E t :
               pc' = [pc EXCEPT ![c] = p] /\ task' = [task EXCEPT ![c] = t]
      BY <2>4 DEF SellRead, CreateRead, ExtendRead, RenewRead, TransferRead, SubRead, DeleteRead, Begin
    <3> QED BY <3>1, MovePay DEF Settling, commVars
  <2>5. CASE DeductRead(c) \/ ExtendBalance(c)
    <3>1. /\ UNCHANGED <<commVars, slipped>>
          /\ \E p \in {"deduct", "rollback", "extend"} : \E t :
               pc' = [pc EXCEPT ![c] = p] /\ task' = [task EXCEPT ![c] = t]
      BY <2>5 DEF DeductRead, ExtendBalance, Go
    <3> QED BY <3>1, MovePay DEF Settling, commVars
  <2>6. CASE PayBalance(c)
    <3> DEFINE t == [task[c] EXCEPT !.seen = credits[task[c].r]]
    <3>1. t.k = task[c].k
      BY DEF TypeInv, TypeOK, Tasks
    <3>2. /\ pc[c] = "payBalance" /\ UNCHANGED <<commVars, slipped>>
          /\ pc' = [pc EXCEPT ![c] = "pay"] /\ task' = [task EXCEPT ![c] = t]
      BY <2>6 DEF PayBalance, Go
    <3> HIDE DEF t
    <3> QED BY <3>1, <3>2, MovePay DEF Settling, commVars
  <2>7. CASE PayRead(c) \/ RemoveRead(c)
    <3>1. /\ UNCHANGED <<commVars, slipped>>
          /\ \E p \in Settling : \E t :
               /\ pc' = [pc EXCEPT ![c] = p] /\ task' = [task EXCEPT ![c] = t]
               /\ t.k \in Comms /\ comm[t.k] = "PENDING"
      <4>1. CASE PayRead(c)
        <5>1. PICK k \in Comms :
                /\ comm[k] = "PENDING" /\ UNCHANGED commVars
                /\ Begin(c, "payBalance", [Blank EXCEPT !.r = Earner(k), !.n = amount[k], !.k = k])
          BY <4>1 DEF PayRead
        <5>2. [Blank EXCEPT !.r = Earner(k), !.n = amount[k], !.k = k].k = k
          BY DEF Blank
        <5> QED BY <5>1, <5>2 DEF Begin, Settling
      <4>2. CASE RemoveRead(c)
        <5>1. PICK k \in Comms :
                /\ comm[k] = "PENDING" /\ UNCHANGED commVars
                /\ Begin(c, "remove", [Blank EXCEPT !.k = k])
          BY <4>2 DEF RemoveRead
        <5>2. [Blank EXCEPT !.k = k].k = k
          BY DEF Blank
        <5> QED BY <5>1, <5>2 DEF Begin, Settling
      <4> QED BY <2>7, <4>1, <4>2
    <3> QED BY <3>1, HoldPay DEF commVars
  <2> QED
    BY <1>3, <2>1, <2>2, <2>3, <2>4, <2>5, <2>6, <2>7, TopUpPay, SettlePay
    DEF Selling, Creating, Extending, Moving, Managing, Paying
<1> QED BY <1>1, <1>2, <1>3 DEF Next

\* A commission is credited at most once, and never if it was removed, unless it
\* was settled under another call that had seen it PENDING.
THEOREM CommissionPaidOnce == Spec => []PaidOnce
<1>1. PayInv => PaidOnce
  BY DEF PayInv, PaidOnce
<1> QED BY <1>1, InitTypes, StepTypes, InitPay, StepPay, PTL DEF Spec

----------------------------------------------------------------------------
(* Overdrafts.  Debits(r) are the calls that have passed the check of r's  *)
(* balance and not charged it.  Inductive: some one of them can still      *)
(* charge what it holds, and each of the others no more than the dearest   *)
(* price m, before the balance is at the bound; so it stays there when     *)
(* none is left.  A balance below zero lets no call join them.             *)

Debits(r) == {c \in Calls : pc[c] \in Spending /\ task[c].r = r /\ task[c].n > 0}

\* A balance x can bear the debits W of the tasks tk.
Bears(W, tk, x, m) ==
  /\ x >= m * (1 - Cardinality(Calls))
  /\ W # {} => \E c \in W : x >= tk[c].n + m * (Cardinality(W) - Cardinality(Calls))

Dearest(m) == m \in Prices /\ \A n \in Prices : n <= m

Costly == Spending \cup {"insert", "created", "balance"}

DebtInv ==
  /\ \A c \in Calls : pc[c] \in Costly => task[c].n \in Prices
  /\ \A r \in Resellers, m \in Prices : Dearest(m) => Bears(Debits(r), task, credits[r], m)

LEMMA PricesType == Prices \subseteq Nat
<1>1. Cardinality(Users) \in Nat
  BY CountType
<1>2. \A n \in 0..Cardinality(Users) : n \in Nat
  BY <1>1
<1>3. \A n \in Amounts : n \in Nat
  BY CreditsAssumption DEF CreditsAssumption
<1>4. \A n \in Prices : n \in Nat
  BY <1>2, <1>3 DEF Prices
<1> QED BY <1>4, Zenon

LEMMA CallsCount ==
  /\ IsFiniteSet(Calls) /\ Cardinality(Calls) \in Nat /\ Cardinality(Calls) >= 1
  /\ \A W \in SUBSET Calls :
       /\ IsFiniteSet(W) /\ Cardinality(W) \in Nat /\ Cardinality(W) <= Cardinality(Calls)
       /\ \A c \in W : Cardinality(W \ {c}) = Cardinality(W) - 1
       /\ \A c \in Calls \ W : /\ Cardinality(W \cup {c}) = Cardinality(W) + 1
                               /\ Cardinality(W) < Cardinality(Calls)
<1>1. IsFiniteSet(Calls) /\ Cardinality(Calls) \in Nat /\ Cardinality(Calls) # 0
  BY CreditsAssumption, FS_CardinalityType, FS_EmptySet DEF CreditsAssumption
<1>2. ASSUME NEW W \in SUBSET Calls
      PROVE  IsFiniteSet(W) /\ Cardinality(W) \in Nat /\ Cardinality(W) <= Cardinality(Calls)
  BY <1>1, FS_Subset, FS_CardinalityType
<1>3. ASSUME NEW W \in SUBSET Calls, NEW c \in W PROVE Cardinality(W \ {c}) = Cardinality(W) - 1
  BY <1>2, FS_RemoveElement
<1>4. ASSUME NEW W \in SUBSET Calls, NEW c \in Calls \ W
      PROVE  Cardinality(W \cup {c}) = Cardinality(W) + 1
  BY <1>2, FS_AddElement
<1>5. ASSUME NEW W \in SUBSET Calls, NEW c \in Calls \ W
      PROVE  Cardinality(W) < Cardinality(Calls)
  <2>1. Cardinality(W \cup {c}) <= Cardinality(Calls)
    BY <1>2
  <2> QED BY <1>1, <1>2, <1>4, <2>1
<1> QED BY <1>1, <1>2, <1>3, <1>4, <1>5

LEMMA Slack ==
  ASSUME NEW m \in Nat, NEW j \in Int, NEW k \in Int
  PROVE  /\ m * (j - k) \in Int
         /\ m * (j - 1 - k) = m * (j - k) - m
         /\ m * (j + 1 - k) = m * (j - k) + m
         /\ j <= k => m * (j - k) <= 0
         /\ j < k => m * (j - k) <= -m
<1>1. m * (j - k) \in Int /\ m * (j - 1 - k) = m * (j - k) - m /\ m * (j + 1 - k) = m * (j - k) + m
  OBVIOUS
<1>2. j <= k => m * (j - k) <= 0
  OBVIOUS
<1>3. j < k => m * (j + 1 - k) <= 0
  OBVIOUS
<1> QED BY <1>1, <1>2, <1>3

\* A balance no debit is waiting to take below zero bears them all.
LEMMA BearsAll ==
  ASSUME NEW m \in Nat, NEW c \in Calls, NEW W \in SUBSET (Calls \ {c}), NEW tk, NEW x \in Int,
         \A d \in W : tk[d].n \in Nat /\ tk[d].n <= m, x >= 0
  PROVE  Bears(W, tk, x, m)
<1> DEFINE k == Cardinality(Calls) j == Cardinality(W)
<1>1. k \in Nat /\ k >= 1 /\ j \in Nat /\ j < k
  BY CallsCount
<1>2. m * (1 - k) <= 0 /\ m * (1 - k) \in Int /\ m * (j - k) <= -m /\ m * (j - k) \in Int
  BY <1>1, Slack
<1> HIDE DEF k, j
<1>3. \A d \in W : x >= tk[d].n + m * (j - k)
  BY <1>2
<1> QED BY <1>2, <1>3 DEF Bears, k, j

\* A call joins after checking the balance.
LEMMA BearsJoin ==
  ASSUME NEW m \in Nat, NEW W \in SUBSET Calls, NEW c \in Calls \ W, NEW tk, NEW x \in Int,
         tk[c].n \in Nat, tk[c].n <= x
  PROVE  Bears(W \cup {c}, tk, x, m)
<1> DEFINE k == Cardinality(Calls) j == Cardinality(W \cup {c})
<1>1. k \in Nat /\ k >= 1 /\ j \in Nat /\ j <= k
  BY CallsCount
<1>2. m * (1 - k) <= 0 /\ m * (1 - k) \in Int /\ m * (j - k) <= 0 /\ m * (j - k) \in Int
  BY <1>1, Slack
<1> HIDE DEF k, j
<1>3. x >= tk[c].n + m * (j - k) /\ x >= m * (1 - k)
  BY <1>2
<1> QED BY <1>3 DEF Bears, k, j

\* A call leaves, and may charge what it held.
LEMMA BearsLeave ==
  ASSUME NEW m \in Nat, NEW W \in SUBSET Calls, NEW c \in W, NEW tk, NEW uk,
         NEW x \in Int, NEW y \in Int,
         \A d \in W : tk[d].n \in Nat /\ tk[d].n <= m,
         \A d \in W \ {c} : uk[d] = tk[d],
         Bears(W, tk, x, m), y >= x - tk[c].n
  PROVE  Bears(W \ {c}, uk, y, m)
<1> DEFINE k == Cardinality(Calls) j == Cardinality(W)
<1>1. k \in Nat /\ j \in Nat /\ j >= 1 /\ Cardinality(W \ {c}) = j - 1 /\ j - 1 >= 0
  <2>1. Cardinality(W \ {c}) \in Nat /\ Cardinality(W \ {c}) = j - 1
    BY CallsCount
  <2> QED BY <2>1, CallsCount
<1>2. PICK d \in W : x >= tk[d].n + m * (j - k)
  BY DEF Bears
<1>3. /\ m * (j - k) \in Int /\ m * (1 - k) \in Int
      /\ m * (j - 1 - k) = m * (j - k) - m
  BY <1>1, Slack
<1>4. m * (j - k) >= m * (1 - k) /\ (d # c => m * (j - 1 - k) >= m * (1 - k))
  <2>1. d # c => j - 1 >= 1
    <3>1. d # c => Cardinality((W \ {c}) \ {d}) = j - 1 - 1 /\ Cardinality((W \ {c}) \ {d}) \in Nat
      BY <1>1, CallsCount
    <3> QED BY <1>1, <3>1
  <2> HIDE DEF j, k
  <2>2. \A i \in Nat : i >= 1 => m * (i - k) >= m * (1 - k)
    <3> SUFFICES ASSUME NEW i \in Nat, i >= 1 PROVE m * (i - k) >= m * (1 - k)
      OBVIOUS
    <3>1. m * (i - 1) >= 0 /\ m * (i - k) = m * (i - 1) + m * (1 - k)
      BY <1>1
    <3> QED BY <1>1, <3>1
  <2> QED BY <1>1, <2>1, <2>2
<1> HIDE DEF j, k
<1>5. y >= m * (1 - k)
  <2>1. CASE d # c
    BY <1>2, <1>3, <1>4, <2>1
  <2>2. CASE d = c
    BY <1>2, <1>3, <1>4, <2>2
  <2> QED BY <2>1, <2>2
<1>6. W \ {c} # {} => \E e \in W \ {c} : y >= uk[e].n + m * (j - 1 - k)
  <2>1. CASE d # c
    BY <1>2, <1>3, <2>1
  <2>2. CASE d = c
    BY <1>2, <1>3, <2>2
  <2> QED BY <2>1, <2>2
<1> QED BY <1>1, <1>5, <1>6 DEF Bears, j, k

\* What a step of c must do to the balance of r.
Affords(c, r) ==
  /\ c \in Debits(r)' => c \notin Debits(r) /\ credits'[r] = credits[r] /\ task'[c].n <= credits[r]
  /\ c \in Debits(r) => credits'[r] >= credits[r] - task[c].n
  /\ c \notin Debits(r) => credits'[r] >= credits[r] \/ credits'[r] >= 0

LEMMA DebtStep ==
  ASSUME TypeInv, TypeInv', DebtInv, NEW c \in Calls,
         \A d \in Calls : d # c => pc'[d] = pc[d] /\ task'[d] = task[d],
         pc'[c] \in Costly => task'[c].n \in Prices,
         \A r \in Resellers : Affords(c, r)
  PROVE  DebtInv'
<1>1. \A d \in Calls : pc'[d] \in Costly => task'[d].n \in Prices
  BY DEF DebtInv
<1>2. ASSUME NEW r \in Resellers, NEW m \in Prices, Dearest(m)
      PROVE  Bears(Debits(r)', task', credits'[r], m)
  <2> DEFINE W == Debits(r) V == Debits(r)'
  <2>1. /\ m \in Nat /\ credits[r] \in Int /\ credits'[r] \in Int
        /\ W \in SUBSET Calls /\ V \in SUBSET Calls
    BY PricesType DEF TypeInv, TypeOK, Debits
  <2>2. /\ \A d \in Calls \ {c} : (d \in V <=> d \in W) /\ task'[d] = task[d]
        /\ \A d \in W : task[d].n \in Nat /\ task[d].n <= m
        /\ \A d \in V : task'[d].n \in Nat /\ task'[d].n <= m
    BY <1>1, <1>2 DEF Debits, DebtInv, Dearest, Costly, TypeInv, TypeOK, Tasks
  <2>3. Bears(W, task, credits[r], m) /\ Affords(c, r)
    BY <1>2 DEF DebtInv
  <2> HIDE DEF W, V
  <2>4. CASE c \in V
    <3>1. c \notin W /\ V = W \cup {c}
      BY <2>1, <2>2, <2>3, <2>4 DEF Affords, W, V
    <3>2. credits'[r] = credits[r] /\ task'[c].n <= credits[r]
      BY <2>3, <2>4 DEF Affords, V
    <3>3. task'[c].n \in Nat
      BY <2>2, <2>4
    <3> QED BY <2>1, <3>1, <3>2, <3>3, BearsJoin DEF V
  <2>5. CASE c \notin V /\ c \in W
    <3>1. V = W \ {c}
      BY <2>1, <2>2, <2>5
    <3>2. credits'[r] >= credits[r] - task[c].n
      BY <2>3, <2>5 DEF Affords, W
    <3>3. \A d \in W \ {c} : task'[d] = task[d]
      BY <2>1, <2>2
    <3>4. Bears(W \ {c}, task', credits'[r], m)
      BY <2>1, <2>2, <2>3, <2>5, <3>2, <3>3, BearsLeave
    <3> QED BY <3>1, <3>4 DEF V
  <2>6. CASE c \notin V /\ c \notin W
    <3>1. V = W /\ \A d \in W : task'[d] = task[d]
      BY <2>1, <2>2, <2>6
    <3>2. credits'[r] >= credits[r] \/ credits'[r] >= 0
      BY <2>3, <2>6 DEF Affords, W
    <3>3. CASE credits'[r] >= 0
      <4>1. V \in SUBSET (Calls \ {c})
        BY <2>1, <2>6
      <4> QED BY <2>1, <2>2, <3>3, <4>1, BearsAll DEF V
    <3>4. CASE credits'[r] >= credits[r]
      <4> DEFINE j == Cardinality(W) k == Cardinality(Calls)
      <4>1. m * (1 - k) \in Int /\ m * (j - k) \in Int
        <5>1. j \in Nat /\ k \in Nat
          BY <2>1, CallsCount
        <5> QED BY <2>1, <5>1, Slack
      <4>2. \A d \in W : task[d].n \in Nat
        BY <2>2
      <4>3. /\ credits[r] >= m * (1 - k)
            /\ W # {} => \E d \in W : credits[r] >= task[d].n + m * (j - k)
        BY <2>3 DEF Bears
      <4> HIDE DEF j, k
      <4>4. credits'[r] >= m * (1 - k)
        BY <2>1, <3>4, <4>1, <4>3
      <4>5. W # {} => \E d \in W : credits'[r] >= task'[d].n + m * (j - k)
        BY <2>1, <3>1, <3>4, <4>1, <4>2, <4>3
      <4>6. Bears(W, task', credits'[r], m)
        BY <4>4, <4>5 DEF Bears, j, k
      <4> QED BY <3>1, <4>6 DEF V
    <3> QED BY <3>2, <3>3, <3>4
  <2> QED BY <2>4, <2>5, <2>6
<1>3. \A m : Dearest(m)' <=> Dearest(m)
  BY DEF Dearest, Prices
<1> QED BY <1>1, <1>2, <1>3 DEF DebtInv, Prices
\* A call reads: it may join the debits of a reseller it has checked.
LEMMA EnterDebt ==
  ASSUME TypeInv, TypeInv', DebtInv, NEW c \in Calls, NEW p \in Pcs, NEW t,
         Begin(c, p, t) \/ Go(c, p, t), UNCHANGED credits, pc[c] \notin Spending,
         p \in Spending => t.n <= credits[t.r] \/ t.n = 0,
         p \in Costly => t.n \in Prices
  PROVE  DebtInv'
<1>1. /\ pc'[c] = p /\ task'[c] = t
      /\ \A d \in Calls : d # c => pc'[d] = pc[d] /\ task'[d] = task[d]
  BY DEF Begin, Go, TypeInv, TypeOK
<1>2. ASSUME NEW r \in Resellers PROVE Affords(c, r)
  BY <1>1 DEF Affords, Debits, TypeInv, TypeOK
<1> QED BY <1>1, <1>2, DebtStep

LEMMA ExtensionPrice ==
  ASSUME NEW r \in Resellers, NEW us \in SUBSET Users
  PROVE  Price(r) * Cardinality(us) \in Prices
<1>1. Cardinality(us) \in Nat /\ Cardinality(Users) \in Nat /\ Cardinality(us) <= Cardinality(Users)
  BY CountType, CreditsAssumption, FS_Subset DEF CreditsAssumption
<1>2. Price(r) * Cardinality(us) \in 0..Cardinality(Users)
  BY <1>1 DEF Price
<1> QED BY <1>2 DEF Prices
LEMMA SinglePrice ==
  /\ \A r \in Resellers : Price(r) \in Prices
  /\ 0 \in Prices /\ 1 \in Prices /\ Amounts \subseteq Prices
<1>1. 0 \in 0..Cardinality(Users)
  BY CountType
<1> QED BY <1>1 DEF Price, Prices

LEMMA ReadDebt ==
  ASSUME TypeInv, TypeInv', DebtInv, NEW c \in Calls,
         \/ SellRead(c) \/ CreateRead(c) \/ DeductRead(c) \/ ExtendRead(c) \/ ExtendBalance(c)
         \/ RenewRead(c) \/ TransferRead(c) \/ SubRead(c) \/ DeleteRead(c) \/ AddRead(c)
         \/ PayRead(c) \/ PayBalance(c) \/ RemoveRead(c)
  PROVE  DebtInv'
<1> USE DEF Pcs, Spending, Costly, Blank, Begin
<1>0. /\ task[c] \in Tasks
      /\ \A r \in Resellers : credits[r] \in Int
      /\ pc[c] \in Costly => task[c].n \in Prices
  BY DEF TypeInv, TypeOK, DebtInv
<1>1. CASE SellRead(c)
  <2>1. PICK r \in Active, u \in Users :
          /\ r \in SlotBilled \/ credits[r] >= Price(r)
          /\ Begin(c, "sell", [Blank EXCEPT !.r = r, !.us = {u}, !.n = Price(r), !.seen = credits[r]])
          /\ UNCHANGED credits
    BY <1>1 DEF SellRead
  <2>2. Price(r) \in Prices /\ Price(r) \in Nat /\ (r \in SlotBilled => Price(r) = 0)
    BY SinglePrice, PriceType DEF Active
  <2> DEFINE t == [Blank EXCEPT !.r = r, !.us = {u}, !.n = Price(r), !.seen = credits[r]]
  <2>3. t.r = r /\ t.n = Price(r) /\ Begin(c, "sell", t) /\ UNCHANGED credits /\ pc[c] = "idle"
    BY <2>1
  <2> HIDE DEF t
  <2>4. t.n <= credits[t.r] \/ t.n = 0
    BY <1>0, <2>1, <2>2, <2>3 DEF Active
  <2> QED BY <2>2, <2>3, <2>4, EnterDebt
<1>2. CASE CreateRead(c)
  <2>1. PICK r \in Active, u \in Users :
          Begin(c, "insert", [Blank EXCEPT !.r = r, !.us = {u}, !.n = 1]) /\ UNCHANGED credits
    BY <1>2 DEF CreateRead
  <2> DEFINE t == [Blank EXCEPT !.r = r, !.us = {u}, !.n = 1]
  <2>2. t.n = 1 /\ Begin(c, "insert", t) /\ UNCHANGED credits /\ pc[c] = "idle"
    BY <2>1
  <2> HIDE DEF t
  <2> QED BY <2>2, SinglePrice, EnterDebt
<1>3. CASE DeductRead(c)
  <2> DEFINE t == [task[c] EXCEPT !.seen = credits[task[c].r]]
  <2>1. /\ t.r = task[c].r /\ t.n = task[c].n /\ t.n \in Nat
        /\ pc[c] = "created" /\ UNCHANGED credits
    BY <1>0, <1>3 DEF DeductRead, Tasks
  <2>2. \/ task[c].r \in Active /\ credits[task[c].r] >= task[c].n /\ Go(c, "deduct", t)
        \/ Go(c, "rollback", task[c])
    BY <1>3 DEF DeductRead
  <2> HIDE DEF t
  <2>3. CASE Go(c, "rollback", task[c])
    BY <2>1, <2>3, EnterDebt
  <2>4. CASE task[c].r \in Active /\ credits[task[c].r] >= task[c].n /\ Go(c, "deduct", t)
    <3>1. t.n <= credits[t.r] /\ t.n \in Prices
      BY <1>0, <2>1, <2>4 DEF Active
    <3> QED BY <2>1, <2>4, <3>1, EnterDebt
  <2> QED BY <2>2, <2>3, <2>4
<1>4. CASE ExtendRead(c)
  <2>1. PICK r \in Active, us \in SUBSET Users :
          /\ Begin(c, "balance", [Blank EXCEPT !.r = r, !.us = us, !.n = Price(r) * Cardinality(us),
                                               !.had = Expiries(us)])
          /\ UNCHANGED credits
    BY <1>4 DEF ExtendRead, LinesOf
  <2> DEFINE t == [Blank EXCEPT !.r = r, !.us = us, !.n = Price(r) * Cardinality(us),
                                !.had = Expiries(us)]
  <2>2. /\ t.n = Price(r) * Cardinality(us) /\ Begin(c, "balance", t)
        /\ UNCHANGED credits /\ pc[c] = "idle"
    BY <2>1
  <2>3. Price(r) * Cardinality(us) \in Prices
    BY ExtensionPrice DEF Active
  <2> HIDE DEF t
  <2> QED BY <2>2, <2>3, EnterDebt
<1>5. CASE ExtendBalance(c)
  <2> DEFINE t == [task[c] EXCEPT !.seen = credits[task[c].r]]
  <2>1. /\ t.r = task[c].r /\ t.n = task[c].n /\ t.n \in Nat
        /\ pc[c] = "balance" /\ UNCHANGED credits /\ Go(c, "extend", t)
        /\ task[c].r \in SlotBilled \/ credits[task[c].r] >= task[c].n
    BY <1>0, <1>5 DEF ExtendBalance, Tasks
  <2>2. task[c].r \in Resellers /\ (task[c].r \in SlotBilled => task[c].n = 0)
    BY <2>1 DEF TypeInv, Posed
  <2> HIDE DEF t
  <2>3. (t.n <= credits[t.r] \/ t.n = 0) /\ t.n \in Prices
    BY <1>0, <2>1, <2>2
  <2> QED BY <2>1, <2>3, EnterDebt
<1>6. CASE RenewRead(c)
  <2>1. PICK u \in Users :
          /\ owner[u] \in Resellers /\ credits[owner[u]] >= 1
          /\ Begin(c, "extend", [Blank EXCEPT !.r = owner[u], !.us = {u}, !.n = 1, !.seen = credits[owner[u]],
                                              !.had = Expiries({u})])
          /\ UNCHANGED credits
    BY <1>6 DEF RenewRead
  <2> DEFINE t == [Blank EXCEPT !.r = owner[u], !.us = {u}, !.n = 1, !.seen = credits[owner[u]],
                                !.had = Expiries({u})]
  <2>2. /\ t.r = owner[u] /\ t.n = 1 /\ Begin(c, "extend", t)
        /\ UNCHANGED credits /\ pc[c] = "idle"
    BY <2>1
  <2> HIDE DEF t
  <2>3. t.n <= credits[t.r]
    BY <1>0, <2>1, <2>2
  <2> QED BY <2>2, <2>3, SinglePrice, EnterDebt
<1>7. CASE \/ TransferRead(c) \/ DeleteRead(c) \/ AddRead(c) \/ PayRead(c) \/ PayBalance(c)
           \/ RemoveRead(c)
  <2>1. /\ UNCHANGED credits /\ pc[c] \in {"idle", "payBalance"}
        /\ \E p \in {"transfer", "delete", "add", "payBalance", "pay", "remove"} : \E t :
             Begin(c, p, t) \/ Go(c, p, t)
    BY <1>7 DEF TransferRead, DeleteRead, AddRead, PayRead, PayBalance, RemoveRead
  <2> QED BY <2>1, EnterDebt
<1>8. CASE SubRead(c)
  <2>1. PICK r \in Active, s \in Resellers, n \in Amounts \cup {0} :
          /\ n > 0 => credits[r] >= n
          /\ Begin(c, "sub", [Blank EXCEPT !.r = r, !.to = s, !.n = n, !.seen = credits[r]])
          /\ UNCHANGED credits
    BY <1>8 DEF SubRead
  <2>2. n \in Prices /\ n \in Nat
    BY SinglePrice, CreditsAssumption DEF CreditsAssumption
  <2> DEFINE t == [Blank EXCEPT !.r = r, !.to = s, !.n = n, !.seen = credits[r]]
  <2>3. t.r = r /\ t.n = n /\ Begin(c, "sub", t) /\ UNCHANGED credits /\ pc[c] = "idle"
    BY <2>1
  <2> HIDE DEF t
  <2>4. t.n <= credits[t.r] \/ t.n = 0
    BY <1>0, <2>1, <2>2, <2>3 DEF Active
  <2> QED BY <2>2, <2>3, <2>4, EnterDebt
<1> QED BY <1>1, <1>2, <1>3, <1>4, <1>5, <1>6, <1>7, <1>8

\* A call closes, or its line is made and it goes on to its charge.
LEMMA LeaveDebt ==
  ASSUME TypeInv, TypeInv', DebtInv, NEW c \in Calls,
         Close(c) \/ (pc' = [pc EXCEPT ![c] = "created"] /\ task' = task /\ pc[c] = "insert"),
         \A r \in Resellers :
           IF c \in Debits(r) THEN credits'[r] >= credits[r] - task[c].n
                              ELSE credits'[r] >= credits[r] \/ credits'[r] >= 0
  PROVE  DebtInv'
<1>1. /\ \A d \in Calls : d # c => pc'[d] = pc[d] /\ task'[d] = task[d]
      /\ pc'[c] \notin Spending
      /\ pc'[c] \in Costly => pc[c] \in Costly /\ task'[c] = task[c]
  BY DEF Close, TypeInv, TypeOK, Spending, Costly
<1>2. task[c].n \in Nat
  BY DEF TypeInv, TypeOK, Tasks
<1>3. ASSUME NEW r \in Resellers PROVE Affords(c, r)
  <2>1. c \notin Debits(r)'
    BY <1>1 DEF Debits
  <2> QED BY <2>1 DEF Affords
<1>4. pc'[c] \in Costly => task'[c].n \in Prices
  BY <1>1 DEF DebtInv
<1> QED BY <1>1, <1>3, <1>4, DebtStep
\* A charge takes what its call held from one balance and nothing from the others.
LEMMA ChargeDebt ==
  ASSUME TypeInv, TypeInv', DebtInv, NEW c \in Calls, pc[c] \in Spending, Close(c),
         Charge(task[c].r, task[c].n, task[c].seen)
  PROVE  DebtInv'
<1>1. /\ task[c].n \in Nat
      /\ \A r \in Resellers : credits[r] \in Int
                              /\ credits'[r] = IF r = task[c].r THEN credits[r] - task[c].n ELSE credits[r]
  BY DEF TypeInv, TypeOK, Tasks, Charge
<1>2. \A r \in Resellers : c \in Debits(r) <=> r = task[c].r /\ task[c].n > 0
  BY DEF Debits
<1>3. ASSUME NEW r \in Resellers
      PROVE  IF c \in Debits(r) THEN credits'[r] >= credits[r] - task[c].n
                                ELSE credits'[r] >= credits[r] \/ credits'[r] >= 0
  BY <1>1, <1>2
<1> QED BY <1>3, LeaveDebt

\* No balance moves, or one is granted something, by a call that debits nothing.
LEMMA GrantDebt ==
  ASSUME TypeInv, TypeInv', DebtInv, NEW c \in Calls,
         Close(c) \/ (pc' = [pc EXCEPT ![c] = "created"] /\ task' = task /\ pc[c] = "insert"),
         UNCHANGED credits \/ (pc[c] \notin Spending /\ Grant(task[c].r, task[c].n, task[c].seen))
  PROVE  DebtInv'
<1>1. task[c].n \in Nat /\ \A r \in Resellers : credits[r] \in Int
  BY DEF TypeInv, TypeOK, Tasks
<1>2. \A r \in Resellers : credits'[r] \in {credits[r], credits[r] + task[c].n}
  BY DEF TypeInv, TypeOK, Grant
<1>3. ASSUME NEW r \in Resellers
      PROVE  IF c \in Debits(r) THEN credits'[r] >= credits[r] - task[c].n
                                ELSE credits'[r] >= credits[r] \/ credits'[r] >= 0
  BY <1>1, <1>2
<1> QED BY <1>3, LeaveDebt

\* A transfer never takes its payer below zero, and a new sub-reseller starts with
\* what its parent gives.
LEMMA MoveDebt ==
  ASSUME TypeInv, TypeInv', DebtInv, NEW c \in Calls, TransferCommit(c) \/ SubCommit(c)
  PROVE  DebtInv'
<1> DEFINE t == task[c]
<1>0. pc[c] \in {"transfer", "sub"} /\ Close(c)
  BY DEF TransferCommit, SubCommit
<1>1. /\ t.n \in Nat /\ t.r \in Resellers /\ t.to \in Resellers /\ Close(c)
      /\ \A r \in Resellers : credits[r] \in Int
  BY <1>0 DEF TypeInv, TypeOK, Tasks, Posed
<1>2. CASE TransferCommit(c)
  <2>1. /\ pc[c] = "transfer" /\ credits[t.r] >= t.n
        /\ credits' = [credits EXCEPT ![t.r] = @ - t.n, ![t.to] = @ + t.n]
    BY <1>2 DEF TransferCommit
  <2>2. \A r \in Resellers : c \notin Debits(r)
    BY <2>1 DEF Debits, Spending
  <2>3. \A r \in Resellers : credits'[r] >= credits[r] \/ credits'[r] >= 0
    BY <1>1, <2>1 DEF TypeInv, TypeOK
  <2> QED BY <1>1, <2>2, <2>3, LeaveDebt
<1>3. CASE SubCommit(c)
  <2>1. /\ pc[c] = "sub" /\ t.to # t.r
        /\ \A r \in Resellers : credits'[r] = IF r = t.to THEN t.n
                                              ELSE IF r = t.r THEN credits[r] - t.n ELSE credits[r]
    BY <1>1, <1>3 DEF SubCommit, TypeInv, TypeOK, Posed
  <2>2. \A r \in Resellers : c \in Debits(r) <=> r = t.r /\ t.n > 0
    BY <2>1 DEF Debits, Spending
  <2>3. ASSUME NEW r \in Resellers
        PROVE  IF c \in Debits(r) THEN credits'[r] >= credits[r] - t.n
                                  ELSE credits'[r] >= credits[r] \/ credits'[r] >= 0
    BY <1>1, <2>1, <2>2
  <2> QED BY <1>1, <2>3, LeaveDebt
<1> QED BY <1>2, <1>3

LEMMA InitDebt == Init => DebtInv
<1> SUFFICES ASSUME Init PROVE DebtInv
  OBVIOUS
<1>1. /\ \A r \in Resellers : credits[r] \in Nat /\ Debits(r) = {}
      /\ \A c \in Calls : pc[c] \notin Costly
  BY CreditsAssumption DEF CreditsAssumption, Init, Debits, Spending, Costly
<1>2. ASSUME NEW r \in Resellers, NEW m \in Prices PROVE Bears(Debits(r), task, credits[r], m)
  <2>1. m \in Nat
    BY PricesType
  <2>2. m * (1 - Cardinality(Calls)) <= 0 /\ m * (1 - Cardinality(Calls)) \in Int
    BY <2>1, CallsCount, Slack
  <2> QED BY <1>1, <2>2 DEF Bears
<1> QED BY <1>1, <1>2 DEF DebtInv

LEMMA StepDebt == TypeInv /\ DebtInv /\ [Next]_vars => DebtInv'
<1> SUFFICES ASSUME TypeInv, DebtInv, [Next]_vars PROVE DebtInv'
  OBVIOUS
<1>0. TypeInv'
  BY StepTypes
<1>1. CASE UNCHANGED vars \/ \E k \in Comms : Accrue(k)
  <2>1. UNCHANGED <<pc, task, credits>>
    BY <1>1 DEF vars, Accrue
  <2> QED BY <2>1 DEF DebtInv, Debits, Prices, Dearest
<1>2. ASSUME NEW c \in Calls,
             \/ Selling(c) \/ Creating(c) \/ Extending(c) \/ Moving(c) \/ Managing(c) \/ Paying(c)
      PROVE  DebtInv'
  <2>1. CASE \/ SellFails(c) \/ CreateFails(c) \/ BouquetGone(c) \/ ExtendRefused(c)
             \/ ExtendFails(c) \/ TransferFails(c) \/ SubFails(c) \/ CommissionGone(c)
    <3>1. Abort(c)
      BY <2>1 DEF SellFails, CreateFails, BouquetGone, ExtendRefused, ExtendFails,
         TransferFails, SubFails, CommissionGone
    <3> QED BY <1>0, <3>1, GrantDebt DEF Abort
  <2>2. CASE SellCommit(c) \/ DeductCommit(c) \/ ExtendCommit(c)
    <3>1. pc[c] \in Spending /\ Charge(task[c].r, task[c].n, task[c].seen) /\ Close(c)
      BY <2>2 DEF SellCommit, DeductCommit, ExtendCommit, Spending
    <3> QED BY <1>0, <3>1, ChargeDebt
  <2>3. CASE CreateInsert(c) \/ Rollback(c) \/ DeleteCommit(c) \/ RemoveCommit(c)
    <3>1. /\ Close(c) \/ (pc' = [pc EXCEPT ![c] = "created"] /\ task' = task /\ pc[c] = "insert")
          /\ UNCHANGED credits
      BY <2>3 DEF CreateInsert, Rollback, DeleteCommit, RemoveCommit
    <3> QED BY <1>0, <3>1, GrantDebt
  <2>4. CASE AddCommit(c) \/ PayCommit(c)
    <3>1. Close(c) /\ pc[c] \notin Spending /\ Grant(task[c].r, task[c].n, task[c].seen)
      BY <2>4 DEF AddCommit, PayCommit, Spending
    <3> QED BY <1>0, <3>1, GrantDebt
  <2> QED
    BY <1>0, <1>2, <2>1, <2>2, <2>3, <2>4, ReadDebt, MoveDebt
    DEF Selling, Creating, Extending, Moving, Managing, Paying
<1> QED BY <1>1, <1>2 DEF Next

\* However many calls overlap and whatever slips, a balance is never further below
\* zero than one dearest debit for each call but one; it does not sink over time.
THEOREM OverdraftBoundedHolds == Spec => []OverdraftBounded
<1>1. DebtInv => OverdraftBounded
  <2> SUFFICES ASSUME DebtInv, NEW r \in Resellers, NEW m \in Prices, \A n \in Prices : n <= m
               PROVE  credits[r] >= -(Cardinality(Calls) - 1) * m
    BY DEF OverdraftBounded
  <2>1. credits[r] >= m * (1 - Cardinality(Calls))
    BY DEF DebtInv, Dearest, Bears
  <2>2. \A k \in Nat : m * (1 - k) = -(k - 1) * m
    BY PricesType
  <2> QED BY <2>1, <2>2, CallsCount
<1> QED BY <1>1, InitTypes, StepTypes, InitDebt, StepDebt, PTL DEF Spec
----------------------------------------------------------------------------
(* Payments.  Inductive: a commission has been credited at most once for   *)
(* each call that is not about to credit it, since none joins those that   *)
(* are once it has been credited.                                          *)

Payers(k) == {c \in Calls : pc[c] \in {"payBalance", "pay"} /\ task[c].k = k}

PayoutInv == \A k \in Comms :
  /\ payouts[k] + Cardinality(Payers(k)) <= Cardinality(Calls)
  /\ comm[k] \in {"none", "accruing", "PENDING"} => payouts[k] = 0

LEMMA PayoutStep ==
  ASSUME TypeInv, TypeInv', NEW k \in Comms, NEW c \in Calls,
         payouts[k] + Cardinality(Payers(k)) <= Cardinality(Calls),
         \/ payouts'[k] = 0
         \/ payouts'[k] = payouts[k] /\ Payers(k)' \subseteq Payers(k)
         \/ payouts'[k] = payouts[k] + 1 /\ c \in Payers(k) /\ Payers(k)' = Payers(k) \ {c}
  PROVE  payouts'[k] + Cardinality(Payers(k)') <= Cardinality(Calls)
<1> DEFINE W == Payers(k) V == Payers(k)'
<1>1. W \in SUBSET Calls /\ V \in SUBSET Calls /\ payouts[k] \in Nat /\ payouts'[k] \in Nat
  BY DEF Payers, TypeInv, TypeOK
<1>2. /\ IsFiniteSet(W) /\ Cardinality(W) \in Nat /\ Cardinality(V) \in Nat
      /\ Cardinality(V) <= Cardinality(Calls) /\ Cardinality(Calls) \in Nat
      /\ c \in W => Cardinality(W \ {c}) = Cardinality(W) - 1
  BY <1>1, CallsCount
<1>3. V \subseteq W => Cardinality(V) <= Cardinality(W)
  BY <1>2, FS_Subset
<1>4. /\ payouts[k] + Cardinality(W) <= Cardinality(Calls)
      /\ \/ payouts'[k] = 0
         \/ payouts'[k] = payouts[k] /\ V \subseteq W
         \/ payouts'[k] = payouts[k] + 1 /\ c \in W /\ V = W \ {c}
  OBVIOUS
<1> HIDE DEF W, V
<1>5. payouts'[k] + Cardinality(V) <= Cardinality(Calls)
  <2>1. CASE payouts'[k] = payouts[k] + 1 /\ c \in W /\ V = W \ {c}
    <3>1. Cardinality(V) = Cardinality(W) - 1
      BY <1>2, <2>1
    <3> QED BY <1>1, <1>2, <1>4, <2>1, <3>1
  <2> QED BY <1>1, <1>2, <1>3, <1>4, <2>1
<1> QED BY <1>5 DEF V

LEMMA InitPayouts == Init => PayoutInv
<1> SUFFICES ASSUME Init, NEW k \in Comms
             PROVE  /\ payouts[k] + Cardinality(Payers(k)) <= Cardinality(Calls)
                    /\ comm[k] \in {"none", "accruing", "PENDING"} => payouts[k] = 0
  BY DEF PayoutInv
<1>1. payouts[k] = 0 /\ Payers(k) \in SUBSET Calls
  BY DEF Init, Payers
<1>2. Cardinality(Payers(k)) \in Nat /\ Cardinality(Payers(k)) <= Cardinality(Calls)
  BY <1>1, CallsCount
<1> QED BY <1>1, <1>2

\* A call that is not paying a commission afterwards, and has not paid one.
LEMMA OtherPayouts ==
  ASSUME TypeInv, TypeInv', PayoutInv, NEW c \in Calls, UNCHANGED payouts,
         \A d \in Calls : d # c => pc'[d] = pc[d] /\ task'[d] = task[d],
         pc'[c] \notin {"payBalance", "pay"},
         \A k \in Comms : comm'[k] \in {"none", "accruing", "PENDING"} =>
                            comm[k] \in {"none", "accruing", "PENDING"}
  PROVE  PayoutInv'
<1>1. ASSUME NEW k \in Comms PROVE payouts'[k] + Cardinality(Payers(k)') <= Cardinality(Calls)
  <2>1. Payers(k)' \subseteq Payers(k) /\ payouts'[k] = payouts[k]
    BY DEF Payers
  <2>2. payouts[k] + Cardinality(Payers(k)) <= Cardinality(Calls)
    BY DEF PayoutInv
  <2> QED BY <2>1, <2>2, PayoutStep
<1> QED BY <1>1 DEF PayoutInv

LEMMA PayPayouts ==
  ASSUME TypeInv, TypeInv', PayoutInv, NEW c \in Calls, PayRead(c) \/ PayBalance(c) \/ PayCommit(c)
  PROVE  PayoutInv'
<1>1. CASE PayRead(c)
  <2>1. PICK j \in Comms :
          /\ comm[j] = "PENDING" /\ UNCHANGED <<comm, payouts>>
          /\ Begin(c, "payBalance", [Blank EXCEPT !.r = Earner(j), !.n = amount[j], !.k = j])
    BY <1>1 DEF PayRead, commVars
  <2>2. /\ task'[c].k = j /\ payouts[j] = 0
        /\ \A d \in Calls : d # c => pc'[d] = pc[d] /\ task'[d] = task[d]
    BY <2>1 DEF Begin, Blank, TypeInv, TypeOK, PayoutInv
  <2>3. ASSUME NEW k \in Comms PROVE payouts'[k] + Cardinality(Payers(k)') <= Cardinality(Calls)
    <3>1. k # j => Payers(k)' \subseteq Payers(k)
      BY <2>2 DEF Payers
    <3>2. payouts[k] + Cardinality(Payers(k)) <= Cardinality(Calls)
      BY DEF PayoutInv
    <3> QED BY <2>1, <2>2, <3>1, <3>2, PayoutStep
  <2> QED BY <2>1, <2>3 DEF PayoutInv
<1>2. CASE PayBalance(c)
  <2>1. /\ pc[c] = "payBalance" /\ UNCHANGED <<comm, payouts>>
        /\ pc' = [pc EXCEPT ![c] = "pay"]
        /\ task' = [task EXCEPT ![c] = [task[c] EXCEPT !.seen = credits[task[c].r]]]
    BY <1>2 DEF PayBalance, Go, commVars
  <2>2. /\ pc'[c] = "pay" /\ task'[c].k = task[c].k
        /\ \A d \in Calls : d # c => pc'[d] = pc[d] /\ task'[d] = task[d]
    BY <2>1 DEF TypeInv, TypeOK, Tasks
  <2>3. ASSUME NEW k \in Comms PROVE payouts'[k] + Cardinality(Payers(k)') <= Cardinality(Calls)
    <3>1. Payers(k)' \subseteq Payers(k)
      BY <2>1, <2>2 DEF Payers
    <3>2. payouts[k] + Cardinality(Payers(k)) <= Cardinality(Calls)
      BY DEF PayoutInv
    <3> QED BY <2>1, <3>1, <3>2, PayoutStep
  <2> QED BY <2>1, <2>3 DEF PayoutInv
<1>3. CASE PayCommit(c)
  <2> DEFINE j == task[c].k
  <2>1. /\ pc[c] = "pay" /\ j \in Comms /\ pc'[c] = "idle" /\ comm'[j] = "PAID"
        /\ payouts'[j] = payouts[j] + 1
        /\ \A k \in Comms : k # j => comm'[k] = comm[k] /\ payouts'[k] = payouts[k]
        /\ \A d \in Calls : d # c => pc'[d] = pc[d] /\ task'[d] = task[d]
    BY <1>3 DEF PayCommit, Close, TypeInv, TypeOK, Posed
  <2>2. ASSUME NEW k \in Comms PROVE payouts'[k] + Cardinality(Payers(k)') <= Cardinality(Calls)
    <3>1. Payers(k)' \subseteq Payers(k)
      BY <2>1 DEF Payers
    <3>2. k = j => c \in Payers(k) /\ Payers(k)' = Payers(k) \ {c}
      BY <2>1 DEF Payers
    <3>3. payouts[k] + Cardinality(Payers(k)) <= Cardinality(Calls)
      BY DEF PayoutInv
    <3> QED BY <2>1, <3>1, <3>2, <3>3, PayoutStep
  <2> QED BY <2>1, <2>2 DEF PayoutInv
<1> QED BY <1>1, <1>2, <1>3

LEMMA StepPayouts == TypeInv /\ PayInv /\ PayoutInv /\ [Next]_vars => PayoutInv'
<1> SUFFICES ASSUME TypeInv, PayInv, PayoutInv, [Next]_vars PROVE PayoutInv'
  OBVIOUS
<1>0. TypeInv'
  BY StepTypes
<1>1. CASE UNCHANGED vars \/ \E k \in Comms : Accrue(k)
  <2>1. /\ UNCHANGED <<pc, task, payouts>>
        /\ \A j \in Comms : comm'[j] \in {"none", "accruing", "PENDING"} =>
                              comm[j] \in {"none", "accruing", "PENDING"}
    BY <1>1 DEF vars, commVars, Accrue, TypeInv, TypeOK
  <2>2. \A k : Payers(k)' = Payers(k)
    BY <2>1 DEF Payers
  <2> QED BY <2>1, <2>2 DEF PayoutInv
<1>2. ASSUME NEW c \in Calls,
             \/ Selling(c) \/ Creating(c) \/ Extending(c) \/ Moving(c) \/ Managing(c) \/ Paying(c)
      PROVE  PayoutInv'
  <2>1. CASE \/ SellFails(c) \/ CreateFails(c) \/ BouquetGone(c) \/ ExtendRefused(c)
             \/ ExtendFails(c) \/ TransferFails(c) \/ SubFails(c) \/ CommissionGone(c)
    <3>1. Abort(c)
      BY <2>1 DEF SellFails, CreateFails, BouquetGone, ExtendRefused, ExtendFails,
         TransferFails, SubFails, CommissionGone
    <3>2. pc' = [pc EXCEPT ![c] = "idle"] /\ task' = [task EXCEPT ![c] = Blank]
          /\ UNCHANGED <<comm, payouts>>
      BY <3>1 DEF Abort, Close, commVars
    <3> QED BY <1>0, <3>2, OtherPayouts DEF TypeInv, TypeOK
  <2>2. CASE \/ SellCommit(c) \/ DeductCommit(c) \/ Rollback(c) \/ ExtendCommit(c)
             \/ TransferCommit(c) \/ SubCommit(c) \/ DeleteCommit(c)
    <3>1. pc' = [pc EXCEPT ![c] = "idle"] /\ task' = [task EXCEPT ![c] = Blank]
          /\ UNCHANGED <<comm, payouts>>
      BY <2>2 DEF SellCommit, DeductCommit, Rollback, ExtendCommit, TransferCommit, SubCommit,
         DeleteCommit, Close, commVars
    <3> QED BY <1>0, <3>1, OtherPayouts DEF TypeInv, TypeOK
  <2>3. CASE CreateInsert(c)
    <3>1. pc' = [pc EXCEPT ![c] = "created"] /\ task' = task /\ UNCHANGED <<comm, payouts>>
      BY <2>3 DEF CreateInsert, commVars
    <3> QED BY <1>0, <3>1, OtherPayouts DEF TypeInv, TypeOK
  <2>4. CASE \/ SellRead(c) \/ CreateRead(c) \/ ExtendRead(c) \/ RenewRead(c) \/ TransferRead(c)
             \/ SubRead(c) \/ DeleteRead(c) \/ AddRead(c) \/ RemoveRead(c)
    <3>1. /\ UNCHANGED <<comm, payouts>>
          /\ \E p \in {"sell", "insert", "balance", "extend", "transfer", "sub", "delete", "add", "remove"} :
               \E t : pc' = [pc EXCEPT ![c] = p] /\ task' = [task EXCEPT ![c] = t]
      BY <2>4 DEF SellRead, CreateRead, ExtendRead, RenewRead, TransferRead, SubRead, DeleteRead,
         AddRead, RemoveRead, Begin, commVars
    <3> QED BY <1>0, <3>1, OtherPayouts DEF TypeInv, TypeOK
  <2>5. CASE DeductRead(c) \/ ExtendBalance(c)
    <3>1. /\ UNCHANGED <<comm, payouts>>
          /\ \E p \in {"deduct", "rollback", "extend"} : \E t :
               pc' = [pc EXCEPT ![c] = p] /\ task' = [task EXCEPT ![c] = t]
      BY <2>5 DEF DeductRead, ExtendBalance, Go, commVars
    <3> QED BY <1>0, <3>1, OtherPayouts DEF TypeInv, TypeOK
  <2>6. CASE AddCommit(c) \/ RemoveCommit(c)
    <3>1. /\ pc' = [pc EXCEPT ![c] = "idle"] /\ task' = [task EXCEPT ![c] = Blank]
          /\ UNCHANGED payouts
      BY <2>6 DEF AddCommit, RemoveCommit, Close
    <3>2. \A k \in Comms : comm'[k] \in {"none", "accruing", "PENDING"} =>
                             comm[k] \in {"none", "accruing", "PENDING"}
      BY <2>6 DEF AddCommit, RemoveCommit, PayInv, TypeInv, TypeOK, Posed
    <3> QED BY <1>0, <3>1, <3>2, OtherPayouts DEF TypeInv, TypeOK
  <2> QED
    BY <1>0, <1>2, <2>1, <2>2, <2>3, <2>4, <2>5, <2>6, PayPayouts
    DEF Selling, Creating, Extending, Moving, Managing, Paying
<1> QED BY <1>1, <1>2 DEF Next

\* However many calls settle a commission at once, it is credited at most once by
\* each of them: no call begins to credit it once one has.
THEOREM PayoutsBoundedHolds == Spec => []PayoutsBounded
<1>1. TypeInv /\ PayoutInv => PayoutsBounded
  <2> SUFFICES ASSUME TypeInv, PayoutInv, NEW k \in Comms PROVE payouts[k] <= Cardinality(Calls)
    BY DEF PayoutsBounded
  <2>1. Payers(k) \in SUBSET Calls
    BY DEF Payers
  <2>2. Cardinality(Payers(k)) \in Nat /\ Cardinality(Calls) \in Nat
    BY <2>1, CallsCount
  <2> QED BY <2>2 DEF PayoutInv, TypeInv, TypeOK
<1> QED BY <1>1, InitTypes, StepTypes, InitPay, StepPay, InitPayouts, StepPayouts, PTL DEF Spec
============================================================================
