-------------------------- MODULE ResellerCredits --------------------------
(***************************************************************************)
(* The credits of resellers: lines sold and extended, transfers, sub-      *)
(* resellers, top-ups, commissions and the deletion of a reseller.         *)
(* apps/api/src/reseller/reseller.service.ts, commission/                  *)
(* commission.service.ts, and the routes of user/user.controller.ts and    *)
(* user.service.ts that charge a reseller.                                 *)
(*                                                                         *)
(* A call reads, decides on what it read, and writes in one database       *)
(* transaction; nothing holds the rows in between.  A step is one such     *)
(* read (the queries of one Promise.all are one read) or one transaction.  *)
(* A call that is refused at its first read changes nothing and is no      *)
(* step.  Users and resellers are rows; the name of a row is never used    *)
(* again, so the look-up of a name and the unique index refuse the same    *)
(* calls, and only the index is a condition here.  A call may stop         *)
(* anywhere: there is no fairness, and the API may die.                    *)
(***************************************************************************)
EXTENDS Integers, FiniteSets

CONSTANTS
  Calls,       \* requests in flight at a time, reused
  Resellers,
  Founders,    \* the resellers there are from the start
  Users,       \* rows of lines
  Comms,       \* rows of commissions
  Nobody,
  Opening,     \* credits of a founder at the start
  Amounts,     \* of transfers, top-ups and opening credits; @Min(1) in the DTOs
  MaxUsers,    \* maxUsers of each reseller, 0 for no limit
  SlotBilled,  \* resellers with billingModel USERS: they pay no credits
  Referrer,    \* referredById of each reseller, or Nobody
  Rate,        \* commissionRate, in per cent
  MaxCalls     \* bound on the calls of one behaviour

ASSUME CreditsAssumption ==
  /\ Founders \subseteq Resellers /\ SlotBilled \subseteq Resellers
  /\ Nobody \notin Resellers \cup {"removed"} /\ "removed" \notin Resellers
  /\ IsFiniteSet(Users) /\ IsFiniteSet(Calls) /\ Calls # {}
  /\ Opening \in Nat /\ Amounts \subseteq Nat \ {0}
  /\ MaxUsers \in [Resellers -> Nat]
  /\ Referrer \in [Resellers -> Resellers \cup {Nobody}]
  /\ Rate \in 0..100 /\ MaxCalls \in Nat

VARIABLES
  account,  \* each reseller: "none" (no row yet), "active" or "deleted"
  parent,   \* its parentId
  credits,  \* its balance
  shown,    \* balanceAfter of its newest credit log, or its opening credits
  owner,    \* resellerId of each line; Nobody: no row yet, "removed": deleted
  months,   \* how many periods of service its expiresAt grants
  charged,  \* how many periods its reseller has been charged for
  comm,     \* each commission: "none", "accruing", "PENDING", "PAID", "deleted"
  source,   \* the reseller whose top-up it comes from
  amount,   \* what was topped up, later what is earned
  payouts,  \* how often it has been credited
  pc,       \* where each call is
  task,     \* what it was asked and what it has read
  served,   \* calls begun
  slipped   \* what has changed under a call that relied on it (history)

rowVars  == <<account, parent>>
lineVars == <<owner, months, charged>>
commVars == <<comm, source, amount, payouts>>
vars == <<rowVars, credits, shown, lineVars, commVars, pc, task, served, slipped>>

Pcs == {"idle", "sell", "insert", "created", "deduct", "rollback", "balance",
        "extend", "transfer", "sub", "add", "payBalance", "pay", "remove", "delete"}

\* r: who pays or earns, to: who receives, us: the lines, n: the amount,
\* seen: the balance read, had: the expiries read, k: the commission.
Blank == [r |-> Nobody, to |-> Nobody, us |-> {}, n |-> 0, seen |-> 0,
          had |-> [u \in Users |-> 0], k |-> Nobody]

Active     == {r \in Resellers : account[r] = "active"}
LinesOf(r) == {u \in Users : owner[u] = r}
ChildrenOf(r) == {s \in Active : parent[s] = r}
Price(r)   == IF r \in SlotBilled THEN 0 ELSE 1
\* Mutant: the new expiry counts from now, not from the old expiry.
ExpiriesForgotten(us) == [u \in Users |-> 0]

Expiries(us) == [u \in Users |-> IF u \in us THEN months[u] ELSE 0]
\* Mutant: <= for <.
QuotaLeftOrFull(r) == MaxUsers[r] = 0 \/ Cardinality(LinesOf(r)) <= MaxUsers[r]

QuotaLeft(r) == MaxUsers[r] = 0 \/ Cardinality(LinesOf(r)) < MaxUsers[r]

----------------------------------------------------------------------------
(* What a call relies on between its read and its write.                   *)

HeldAt == [funds      |-> {"sell", "deduct", "extend", "sub"},
           balance    |-> {"sell", "deduct", "extend", "sub", "add", "pay"},
           dependants |-> {"sell", "insert", "sub", "delete"},
           months     |-> {"created", "deduct", "rollback", "balance", "extend"},
           commission |-> {"payBalance", "pay", "remove"}]

Relies(d) ==
  {<<f, task[d].r>> : f \in {g \in {"funds", "balance", "dependants"} : pc[d] \in HeldAt[g]}}
  \cup {<<"months", u>> : u \in IF pc[d] \in HeldAt.months THEN task[d].us ELSE {}}
  \cup {<<"commission", k>> : k \in IF pc[d] \in HeldAt.commission THEN {task[d].k} ELSE {}}

\* Call c changes the facts F; remember those another call relies on.
Slip(c, F) == slipped' = slipped \cup (F \cap UNION {Relies(d) : d \in Calls \ {c}})

Spent(r, n) == IF n = 0 THEN {} ELSE {<<"funds", r>>, <<"balance", r>>}

Begin(c, p, t) ==
  /\ pc[c] = "idle" /\ served < MaxCalls
  /\ served' = served + 1
  /\ pc' = [pc EXCEPT ![c] = p]
  /\ task' = [task EXCEPT ![c] = t]
  /\ UNCHANGED slipped

Go(c, p, t) ==
  /\ pc' = [pc EXCEPT ![c] = p]
  /\ task' = [task EXCEPT ![c] = t]
  /\ UNCHANGED <<served, slipped>>

Close(c) ==
  /\ pc' = [pc EXCEPT ![c] = "idle"]
  /\ task' = [task EXCEPT ![c] = Blank]
  /\ UNCHANGED served

\* The transaction is rolled back, or the call gives up: nothing is written.
Abort(c) ==
  /\ Close(c)
  /\ UNCHANGED <<rowVars, credits, shown, lineVars, commVars, slipped>>

\* credits: {decrement: n} with a DEDUCT log computed from the balance read.
Charge(r, n, seen) ==
  /\ credits' = [credits EXCEPT ![r] = @ - n]
  /\ shown' = [shown EXCEPT ![r] = seen - n]

\* Mutant: the balance is written as computed from the balance read.
GrantAbsolute(r, n, seen) ==
  /\ credits' = [credits EXCEPT ![r] = seen + n]
  /\ shown' = [shown EXCEPT ![r] = seen + n]

\* credits: {increment: n} with an ADD log computed from the balance read.
Grant(r, n, seen) ==
  /\ credits' = [credits EXCEPT ![r] = @ + n]
  /\ shown' = [shown EXCEPT ![r] = seen + n]

----------------------------------------------------------------------------
(* A reseller sells a line: quickCreateUser, quickCreateUserWithPackage.   *)

SellRead(c) ==
  \E r \in Active, u \in Users :
    /\ QuotaLeft(r)
    /\ r \in SlotBilled \/ credits[r] >= Price(r)
    /\ Begin(c, "sell", [Blank EXCEPT !.r = r, !.us = {u}, !.n = Price(r), !.seen = credits[r]])
    /\ UNCHANGED <<rowVars, credits, shown, lineVars, commVars>>

SellCommit(c) ==
  LET t == task[c] IN
  /\ pc[c] = "sell"
  /\ \A u \in t.us : owner[u] = Nobody
  /\ owner'   = [u \in Users |-> IF u \in t.us THEN t.r ELSE owner[u]]
  /\ months'  = [u \in Users |-> IF u \in t.us THEN 1 ELSE months[u]]
  /\ charged' = [u \in Users |-> IF u \in t.us THEN charged[u] + 1 ELSE charged[u]]
  /\ Charge(t.r, t.n, t.seen)
  /\ Slip(c, Spent(t.r, t.n) \cup {<<"dependants", t.r>>})
  /\ Close(c)
  /\ UNCHANGED <<rowVars, commVars>>

SellFails(c) ==  \* the unique index on username
  /\ pc[c] = "sell"
  /\ \E u \in task[c].us : owner[u] # Nobody
  /\ Abort(c)

----------------------------------------------------------------------------
(* UserController.create: the line first, then its charge.                 *)

CreateRead(c) ==
  \E r \in Active, u \in Users :
    /\ QuotaLeft(r)
    /\ credits[r] >= 1
    /\ Begin(c, "insert", [Blank EXCEPT !.r = r, !.us = {u}, !.n = 1])
    /\ UNCHANGED <<rowVars, credits, shown, lineVars, commVars>>

CreateInsert(c) ==
  LET t == task[c] IN
  /\ pc[c] = "insert"
  /\ \A u \in t.us : owner[u] = Nobody
  /\ owner'  = [u \in Users |-> IF u \in t.us THEN t.r ELSE owner[u]]
  /\ months' = [u \in Users |-> IF u \in t.us THEN 1 ELSE months[u]]
  /\ Slip(c, {<<"dependants", t.r>>})
  /\ pc' = [pc EXCEPT ![c] = "created"]
  /\ UNCHANGED <<rowVars, credits, shown, charged, commVars, task, served>>

CreateFails(c) ==
  /\ pc[c] = "insert"
  /\ \E u \in task[c].us : owner[u] # Nobody
  /\ Abort(c)

\* userBouquet.createMany names a bouquet that is gone: create throws, outside
\* the try that would take the line back.
BouquetGone(c) ==
  /\ pc[c] = "created"
  /\ Abort(c)

\* Mutant: deductCredits trusts the check of the controller.
DeductReadUnchecked(c) ==
  LET t == task[c] IN
  /\ pc[c] = "created"
  /\ Go(c, "deduct", [t EXCEPT !.seen = credits[t.r]])
  /\ UNCHANGED <<rowVars, credits, shown, lineVars, commVars>>

DeductRead(c) ==
  LET t == task[c] IN
  /\ pc[c] = "created"
  /\ IF t.r \in Active /\ credits[t.r] >= t.n
     THEN Go(c, "deduct", [t EXCEPT !.seen = credits[t.r]])
     ELSE Go(c, "rollback", t)
  /\ UNCHANGED <<rowVars, credits, shown, lineVars, commVars>>

DeductCommit(c) ==
  LET t == task[c] IN
  /\ pc[c] = "deduct"
  /\ charged' = [u \in Users |-> IF u \in t.us THEN charged[u] + 1 ELSE charged[u]]
  /\ Charge(t.r, t.n, t.seen)
  /\ Slip(c, Spent(t.r, t.n))
  /\ Close(c)
  /\ UNCHANGED <<rowVars, owner, months, commVars>>

\* Mutant: also refunds a charge that never happened.
RollbackRefunds(c) ==
  LET t == task[c] IN
  /\ pc[c] = "rollback"
  /\ owner'   = [u \in Users |-> IF u \in t.us THEN "removed" ELSE owner[u]]
  /\ months'  = [u \in Users |-> IF u \in t.us THEN 0 ELSE months[u]]
  /\ charged' = [u \in Users |-> IF u \in t.us THEN charged[u] - 1 ELSE charged[u]]
  /\ Slip(c, {<<"months", u>> : u \in t.us})
  /\ Close(c)
  /\ UNCHANGED <<rowVars, credits, shown, commVars>>

Rollback(c) ==  \* user.delete after deductCredits threw
  LET t == task[c] IN
  /\ pc[c] = "rollback"
  /\ owner'  = [u \in Users |-> IF u \in t.us THEN "removed" ELSE owner[u]]
  /\ months' = [u \in Users |-> IF u \in t.us THEN 0 ELSE months[u]]
  /\ Slip(c, {<<"months", u>> : u \in t.us})
  /\ Close(c)
  /\ UNCHANGED <<rowVars, credits, shown, charged, commVars>>

----------------------------------------------------------------------------
(* More service for lines there are: extendUser and bulkAction by their    *)
(* reseller, bulkRenew by an administrator.                                *)

ExtendRead(c) ==
  \E r \in Active : \E us \in SUBSET LinesOf(r) \ {{}} :
    /\ Begin(c, "balance", [Blank EXCEPT !.r = r, !.us = us, !.n = Price(r) * Cardinality(us),
                                         !.had = Expiries(us)])
    /\ UNCHANGED <<rowVars, credits, shown, lineVars, commVars>>

ExtendBalance(c) ==
  LET t == task[c] IN
  /\ pc[c] = "balance"
  /\ t.r \in SlotBilled \/ credits[t.r] >= t.n
  /\ Go(c, "extend", [t EXCEPT !.seen = credits[t.r]])
  /\ UNCHANGED <<rowVars, credits, shown, lineVars, commVars>>

ExtendRefused(c) ==
  /\ pc[c] = "balance"
  /\ task[c].r \notin SlotBilled /\ credits[task[c].r] < task[c].n
  /\ Abort(c)

\* One turn of bulkRenew's loop: one query reads the line with its reseller,
\* the package costs one credit in either billing model.
RenewRead(c) ==
  \E u \in Users :
    /\ owner[u] \in Resellers
    /\ credits[owner[u]] >= 1
    /\ Begin(c, "extend", [Blank EXCEPT !.r = owner[u], !.us = {u}, !.n = 1, !.seen = credits[owner[u]],
                                        !.had = Expiries({u})])
    /\ UNCHANGED <<rowVars, credits, shown, lineVars, commVars>>

\* Mutant: a bulk extension charges for one of its lines.
ExtendCommitOnce(c) ==
  LET t == task[c]
      first == CHOOSE u \in t.us : TRUE
  IN
  /\ pc[c] = "extend"
  /\ \A u \in t.us : owner[u] # "removed"
  /\ months'  = [u \in Users |-> IF u \in t.us THEN t.had[u] + 1 ELSE months[u]]
  /\ charged' = [charged EXCEPT ![first] = @ + 1]
  /\ Charge(t.r, 1, t.seen)
  /\ Slip(c, Spent(t.r, 1) \cup {<<"months", u>> : u \in t.us})
  /\ Close(c)
  /\ UNCHANGED <<rowVars, owner, commVars>>

ExtendCommit(c) ==
  LET t == task[c] IN
  /\ pc[c] = "extend"
  /\ \A u \in t.us : owner[u] # "removed"
  /\ months'  = [u \in Users |-> IF u \in t.us THEN t.had[u] + 1 ELSE months[u]]
  /\ charged' = [u \in Users |-> IF u \in t.us THEN charged[u] + 1 ELSE charged[u]]
  /\ Charge(t.r, t.n, t.seen)
  /\ Slip(c, Spent(t.r, t.n) \cup {<<"months", u>> : u \in t.us})
  /\ Close(c)
  /\ UNCHANGED <<rowVars, owner, commVars>>

ExtendFails(c) ==  \* a line is gone
  /\ pc[c] = "extend"
  /\ \E u \in task[c].us : owner[u] = "removed"
  /\ Abort(c)

----------------------------------------------------------------------------
(* transferCredits: the only debit whose own UPDATE checks the balance.    *)

TransferRead(c) ==
  \E from \in Active, to \in Active, n \in Amounts :
    /\ from # to
    /\ Begin(c, "transfer", [Blank EXCEPT !.r = from, !.to = to, !.n = n])
    /\ UNCHANGED <<rowVars, credits, shown, lineVars, commVars>>

\* Mutant: the receiver's log states the balance before the transfer.
TransferCommitOldBalance(c) ==
  LET t == task[c] IN
  /\ pc[c] = "transfer"
  /\ credits[t.r] >= t.n
  /\ credits' = [credits EXCEPT ![t.r] = @ - t.n, ![t.to] = @ + t.n]
  /\ shown' = [shown EXCEPT ![t.r] = credits[t.r] - t.n, ![t.to] = credits[t.to]]
  /\ Slip(c, Spent(t.r, t.n) \cup {<<"balance", t.to>>})
  /\ Close(c)
  /\ UNCHANGED <<rowVars, lineVars, commVars>>

\* Mutant: the UPDATE decrements without its condition on the balance.
TransferUnchecked(c) ==
  LET t == task[c]
      after == [credits EXCEPT ![t.r] = @ - t.n, ![t.to] = @ + t.n]
  IN
  /\ pc[c] = "transfer"
  /\ credits' = after
  /\ shown' = [shown EXCEPT ![t.r] = after[t.r], ![t.to] = after[t.to]]
  /\ Slip(c, Spent(t.r, t.n) \cup {<<"balance", t.to>>})
  /\ Close(c)
  /\ UNCHANGED <<rowVars, lineVars, commVars>>

TransferCommit(c) ==
  LET t == task[c]
      after == [credits EXCEPT ![t.r] = @ - t.n, ![t.to] = @ + t.n]
  IN
  /\ pc[c] = "transfer"
  /\ credits[t.r] >= t.n
  /\ credits' = after
  /\ shown' = [shown EXCEPT ![t.r] = after[t.r], ![t.to] = after[t.to]]
  /\ Slip(c, Spent(t.r, t.n) \cup {<<"balance", t.to>>})
  /\ Close(c)
  /\ UNCHANGED <<rowVars, lineVars, commVars>>

TransferFails(c) ==
  /\ pc[c] = "transfer"
  /\ credits[task[c].r] < task[c].n
  /\ Abort(c)

----------------------------------------------------------------------------
(* createSubReseller, and softDelete of a reseller.                        *)

SubRead(c) ==
  \E r \in Active, s \in Resellers, n \in Amounts \cup {0} :
    /\ account[s] = "none"
    /\ n > 0 => credits[r] >= n
    /\ Begin(c, "sub", [Blank EXCEPT !.r = r, !.to = s, !.n = n, !.seen = credits[r]])
    /\ UNCHANGED <<rowVars, credits, shown, lineVars, commVars>>

SubCommit(c) ==
  LET t == task[c] IN
  /\ pc[c] = "sub"
  /\ account[t.to] = "none"
  /\ account' = [account EXCEPT ![t.to] = "active"]
  /\ parent'  = [parent EXCEPT ![t.to] = t.r]
  /\ credits' = [credits EXCEPT ![t.r] = @ - t.n, ![t.to] = t.n]
  /\ shown'   = [shown EXCEPT ![t.r] = IF t.n = 0 THEN @ ELSE t.seen - t.n, ![t.to] = t.n]
  /\ Slip(c, Spent(t.r, t.n) \cup {<<"dependants", t.r>>})
  /\ Close(c)
  /\ UNCHANGED <<lineVars, commVars>>

SubFails(c) ==
  /\ pc[c] = "sub"
  /\ account[task[c].to] # "none"
  /\ Abort(c)

\* Mutant: counts the lines, not the sub-resellers.
DeleteReadLinesOnly(c) ==
  \E r \in Active :
    /\ LinesOf(r) = {}
    /\ Begin(c, "delete", [Blank EXCEPT !.r = r])
    /\ UNCHANGED <<rowVars, credits, shown, lineVars, commVars>>

DeleteRead(c) ==
  \E r \in Active :
    /\ LinesOf(r) = {} /\ ChildrenOf(r) = {}
    /\ Begin(c, "delete", [Blank EXCEPT !.r = r])
    /\ UNCHANGED <<rowVars, credits, shown, lineVars, commVars>>

DeleteCommit(c) ==
  /\ pc[c] = "delete"
  /\ account' = [account EXCEPT ![task[c].r] = "deleted"]
  /\ Slip(c, {<<"dependants", task[c].r>>})
  /\ Close(c)
  /\ UNCHANGED <<parent, credits, shown, lineVars, commVars>>

----------------------------------------------------------------------------
(* addCredits with the commission it accrues, markPaid and remove.         *)

\* A bound: a top-up needs a free commission slot.
AddRead(c) ==
  \E r \in Active, n \in Amounts, k \in Comms :
    /\ comm[k] = "none" /\ \A d \in Calls : task[d].k # k
    /\ Begin(c, "add", [Blank EXCEPT !.r = r, !.n = n, !.seen = credits[r], !.k = k])
    /\ UNCHANGED <<rowVars, credits, shown, lineVars, commVars>>

AddCommit(c) ==
  LET t == task[c] IN
  /\ pc[c] = "add"
  /\ Grant(t.r, t.n, t.seen)
  /\ comm'   = [comm EXCEPT ![t.k] = "accruing"]
  /\ source' = [source EXCEPT ![t.k] = t.r]
  /\ amount' = [amount EXCEPT ![t.k] = t.n]
  /\ Slip(c, {<<"balance", t.r>>})
  /\ Close(c)
  /\ UNCHANGED <<rowVars, lineVars, payouts>>

Earned(k) == (amount[k] * Rate) \div 100
Earner(k) == Referrer[source[k]]

Referred(k) == Earner(k) # Nobody /\ account[Earner(k)] # "none"

Accrue(k) ==  \* runs after addCredits has answered
  /\ comm[k] = "accruing"
  /\ IF Referred(k) /\ Earned(k) > 0
     THEN /\ comm' = [comm EXCEPT ![k] = "PENDING"]
          /\ amount' = [amount EXCEPT ![k] = Earned(k)]
     ELSE /\ comm' = [comm EXCEPT ![k] = "none"]
          /\ UNCHANGED amount
  /\ UNCHANGED <<rowVars, credits, shown, lineVars, source, payouts, pc, task, served, slipped>>

\* Mutant: without `if (c.status === 'PAID') return c`.
PayReadAnyStatus(c) ==
  \E k \in Comms :
    /\ comm[k] \in {"PENDING", "PAID"}
    /\ Begin(c, "payBalance", [Blank EXCEPT !.r = Earner(k), !.n = amount[k], !.k = k])
    /\ UNCHANGED <<rowVars, credits, shown, lineVars, commVars>>

PayRead(c) ==
  \E k \in Comms :
    /\ comm[k] = "PENDING"
    /\ Begin(c, "payBalance", [Blank EXCEPT !.r = Earner(k), !.n = amount[k], !.k = k])
    /\ UNCHANGED <<rowVars, credits, shown, lineVars, commVars>>

PayBalance(c) ==
  LET t == task[c] IN
  /\ pc[c] = "payBalance"
  /\ Go(c, "pay", [t EXCEPT !.seen = credits[t.r]])
  /\ UNCHANGED <<rowVars, credits, shown, lineVars, commVars>>

PayCommit(c) ==
  LET t == task[c] IN
  /\ pc[c] = "pay"
  /\ comm[t.k] # "deleted"
  /\ comm' = [comm EXCEPT ![t.k] = "PAID"]
  /\ payouts' = [payouts EXCEPT ![t.k] = @ + 1]
  /\ Grant(t.r, t.n, t.seen)
  /\ Slip(c, {<<"balance", t.r>>, <<"commission", t.k>>})
  /\ Close(c)
  /\ UNCHANGED <<rowVars, lineVars, source, amount>>

RemoveRead(c) ==
  \E k \in Comms :
    /\ comm[k] = "PENDING"
    /\ Begin(c, "remove", [Blank EXCEPT !.k = k])
    /\ UNCHANGED <<rowVars, credits, shown, lineVars, commVars>>

RemoveCommit(c) ==
  LET t == task[c] IN
  /\ pc[c] = "remove"
  /\ comm[t.k] # "deleted"
  /\ comm' = [comm EXCEPT ![t.k] = "deleted"]
  /\ Slip(c, {<<"commission", t.k>>})
  /\ Close(c)
  /\ UNCHANGED <<rowVars, credits, shown, lineVars, source, amount, payouts>>

CommissionGone(c) ==  \* the row was deleted meanwhile
  /\ pc[c] \in {"pay", "remove"}
  /\ comm[task[c].k] = "deleted"
  /\ Abort(c)

----------------------------------------------------------------------------
Init ==
  /\ account = [r \in Resellers |-> IF r \in Founders THEN "active" ELSE "none"]
  /\ parent  = [r \in Resellers |-> Nobody]
  /\ credits = [r \in Resellers |-> IF r \in Founders THEN Opening ELSE 0]
  /\ shown = credits
  /\ owner   = [u \in Users |-> Nobody]
  /\ months  = [u \in Users |-> 0]
  /\ charged = [u \in Users |-> 0]
  /\ comm    = [k \in Comms |-> "none"]
  /\ source  = [k \in Comms |-> Nobody]
  /\ amount  = [k \in Comms |-> 0]
  /\ payouts = [k \in Comms |-> 0]
  /\ pc      = [c \in Calls |-> "idle"]
  /\ task    = [c \in Calls |-> Blank]
  /\ served = 0
  /\ slipped = {}

Selling(c)   == SellRead(c) \/ SellCommit(c) \/ SellFails(c)
Creating(c)  == \/ CreateRead(c) \/ CreateInsert(c) \/ CreateFails(c) \/ BouquetGone(c)
                \/ DeductRead(c) \/ DeductCommit(c) \/ Rollback(c)
Extending(c) == \/ ExtendRead(c) \/ ExtendBalance(c) \/ ExtendRefused(c) \/ RenewRead(c)
                \/ ExtendCommit(c) \/ ExtendFails(c)
Moving(c)    == TransferRead(c) \/ TransferCommit(c) \/ TransferFails(c)
Managing(c)  == SubRead(c) \/ SubCommit(c) \/ SubFails(c) \/ DeleteRead(c) \/ DeleteCommit(c)
Paying(c)    == \/ AddRead(c) \/ AddCommit(c) \/ PayRead(c) \/ PayBalance(c) \/ PayCommit(c)
                \/ RemoveRead(c) \/ RemoveCommit(c) \/ CommissionGone(c)

Next ==
  \/ \E c \in Calls : \/ Selling(c) \/ Creating(c) \/ Extending(c)
                      \/ Moving(c) \/ Managing(c) \/ Paying(c)
  \/ \E k \in Comms : Accrue(k)

Spec == Init /\ [][Next]_vars

----------------------------------------------------------------------------
(* Properties                                                              *)

Tasks == [r : Resellers \cup {Nobody}, to : Resellers \cup {Nobody}, us : SUBSET Users,
          n : Nat, seen : Int, had : [Users -> Nat],
          k : Comms \cup {Nobody}]

\* Every variable has its type; balances are Int, as the column is, and may be
\* negative.
TypeOK ==
  /\ account \in [Resellers -> {"none", "active", "deleted"}]
  /\ parent \in [Resellers -> Resellers \cup {Nobody}]
  /\ credits \in [Resellers -> Int] /\ shown \in [Resellers -> Int]
  /\ owner \in [Users -> Resellers \cup {Nobody, "removed"}]
  /\ months \in [Users -> Nat] /\ charged \in [Users -> Nat]
  /\ comm \in [Comms -> {"none", "accruing", "PENDING", "PAID", "deleted"}]
  /\ source \in [Comms -> Resellers \cup {Nobody}]
  /\ amount \in [Comms -> Nat] /\ payouts \in [Comms -> Nat]
  /\ pc \in [Calls -> Pcs]
  /\ task \in [Calls -> Tasks]
  /\ served \in 0..MaxCalls

\* A balance goes below zero only if a debit slipped between the balance check
\* and the decrement of another call (reseller.service.ts reads credits, compares,
\* and decrements without a condition).  Top-ups, commissions and incoming
\* transfers may interleave with anything.
Solvent == \A r \in Resellers : <<"funds", r>> \notin slipped => credits[r] >= 0

\* The newest credit log states the balance (balanceAfter) unless the balance
\* moved under a call that had read it: every log except a transfer's is computed
\* from the earlier read.
BooksTruthful == \A r \in Resellers : <<"balance", r>> \notin slipped => shown[r] = credits[r]

\* maxUsers holds unless two calls counted the lines before either added one.
QuotaKept == \A r \in Resellers :
  <<"dependants", r>> \notin slipped /\ MaxUsers[r] > 0 => Cardinality(LinesOf(r)) <= MaxUsers[r]

\* A deleted reseller leaves no line and no sub-reseller behind (O10 in softDelete)
\* unless one was added between its count and its delete, or the delete fell
\* between another call's check of the reseller and its write.
NoOrphans == \A r \in Resellers :
  <<"dependants", r>> \notin slipped /\ account[r] = "deleted" => LinesOf(r) = {} /\ ChildrenOf(r) = {}

\* No paid period is lost, unless the line's expiry was written or the line was
\* taken back under a call that had read it: extensions write an absolute date.
NoLostMonths == \A u \in Users : <<"months", u>> \notin slipped => months[u] >= charged[u]

\* A commission is credited once, and never after or before being removed, unless
\* it was paid or removed under a call that had seen it PENDING.
PaidOnce == \A k \in Comms :
  <<"commission", k>> \notin slipped => payouts[k] = IF comm[k] = "PAID" THEN 1 ELSE 0

\* A line gains service that is not charged only in UserController.create, which
\* charges later and may fail to; unless its expiry was written under a call that
\* had read it: one that had read a later date writes that one back for one charge.
MonthsAreCharged ==
  [][\A u \in Users :
       <<"months", u>> \notin slipped /\ months'[u] - months[u] > charged'[u] - charged[u] =>
         \E c \in Calls : pc[c] = "insert" /\ u \in task[c].us]_vars

\* What a call may debit at once.
Prices == Amounts \cup {1} \cup 0..Cardinality(Users)

\* Debits that overlap all pass the check of the same balance.  Each but one of
\* them can go below zero, and once a balance does, no further call passes.
OverdraftBounded == \A r \in Resellers, m \in Prices :
  (\A n \in Prices : n <= m) => credits[r] >= -(Cardinality(Calls) - 1) * m

\* The same for the lines of a reseller with a quota,
QuotaOvershootBounded == \A r \in Resellers :
  MaxUsers[r] > 0 => Cardinality(LinesOf(r)) < MaxUsers[r] + Cardinality(Calls)

\* and for the payments of a commission.
PayoutsBounded == \A k \in Comms : payouts[k] <= Cardinality(Calls)

\* What the checks keep of their promises when nothing holds the rows between a
\* check and its write, whatever slipped and however long it goes on: the damage
\* is bounded by how many calls overlap, and never adds up over time.
RacesAreBounded == OverdraftBounded /\ QuotaOvershootBounded /\ PayoutsBounded

\* The promise in CreditBook is kept by every interleaving: no overlap of sales,
\* extensions, transfers, new sub-resellers, top-ups and payouts makes a credit
\* appear or vanish, or charges a period without its credit.
Book == INSTANCE CreditBook WITH
  Accounts <- Resellers, Lines <- Users, Claims <- Comms, Slots <- SlotBilled,
  Sums <- Amounts \cup {(n * Rate) \div 100 : n \in Amounts} \cup {0},
  balance <- credits, periods <- charged,
  open <- {k \in Comms : comm[k] = "accruing"}, paid <- payouts

BookKept == Book!Spec
============================================================================
