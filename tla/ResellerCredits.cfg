\* Two calls at a time, five in a behaviour; r2 is r1's sub-reseller once
\* created, pays by slots, and its top-ups earn r1 a commission.
CONSTANTS
  Calls = {c1, c2}
  r1 = r1
  r2 = r2
  Resellers = {r1, r2}
  Founders = {r1}
  Users = {u1, u2}
  Comms = {k1}
  Nobody = Nobody
  Opening = 2
  Amounts = {1, 2}
  MaxUsers <- MCMaxUsers
  SlotBilled = {r2}
  Referrer <- MCReferrer
  Rate = 50
  MaxCalls = 5
SYMMETRY MCSymmetry
SPECIFICATION Spec
CHECK_DEADLOCK FALSE
INVARIANTS TypeOK Solvent BooksTruthful   NoLostMonths PaidOnce
  
PROPERTY  BookKept
