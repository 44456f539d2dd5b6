----------------------------- MODULE CreditBook -----------------------------
(***************************************************************************)
(* What the credit bookkeeping promises, whatever calls overlap.  A credit *)
(* is created only by a top-up, which starts a claim of the reseller's     *)
(* referrer, or by the payment of a claim; it passes whole from one        *)
(* account to another; and it leaves the book only for periods of service  *)
(* charged to lines in the same step: one credit a period, or none on an   *)
(* account that is billed by slots.  Whether an account may go into the    *)
(* red is no matter of the book: that is Solvent in ResellerCredits.       *)
(***************************************************************************)
EXTENDS Integers, FiniteSets

CONSTANTS
  Accounts,
  Lines,
  Claims,
  Slots,    \* accounts billed by slots
  Sums      \* amounts that are topped up, moved or paid

VARIABLES
  balance,  \* credits of each account
  periods,  \* periods charged to each line
  open,     \* claims just started, their worth not yet worked out
  paid      \* how often each claim has been paid

book == <<balance, periods, open, paid>>

Init ==
  /\ balance \in [Accounts -> Nat]
  /\ periods = [u \in Lines |-> 0]
  /\ open = {}
  /\ paid = [k \in Claims |-> 0]

Cost(r, us) == {Cardinality(us)} \cup (IF r \in Slots THEN {0} ELSE {})

Buy(r, us) ==
  /\ \E n \in Cost(r, us) : balance' = [balance EXCEPT ![r] = @ - n]
  /\ periods' = [u \in Lines |-> IF u \in us THEN periods[u] + 1 ELSE periods[u]]
  /\ UNCHANGED <<open, paid>>

Move(r, s, n) ==
  /\ r # s
  /\ balance' = [balance EXCEPT ![r] = @ - n, ![s] = @ + n]
  /\ UNCHANGED <<periods, open, paid>>

TopUp(r, n, k) ==
  /\ k \notin open /\ open' = open \cup {k}
  /\ balance' = [balance EXCEPT ![r] = @ + n]
  /\ UNCHANGED <<periods, paid>>

WorkOut(k) ==
  /\ k \in open /\ open' = open \ {k}
  /\ UNCHANGED <<balance, periods, paid>>

Pay(r, n, k) ==
  /\ k \notin open /\ paid' = [paid EXCEPT ![k] = @ + 1]
  /\ balance' = [balance EXCEPT ![r] = @ + n]
  /\ UNCHANGED <<periods, open>>

Next ==
  \/ \E r \in Accounts, us \in SUBSET Lines : Buy(r, us)
  \/ \E r, s \in Accounts, n \in Sums : Move(r, s, n)
  \/ \E r \in Accounts, n \in Sums, k \in Claims : TopUp(r, n, k) \/ Pay(r, n, k)
  \/ \E k \in Claims : WorkOut(k)

Spec == Init /\ [][Next]_book
=============================================================================
