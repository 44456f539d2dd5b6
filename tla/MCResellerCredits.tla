------------------------- MODULE MCResellerCredits -------------------------
(* ResellerCredits for TLC: a founder and its sub-reseller.                *)
EXTENDS ResellerCredits, TLC

CONSTANTS r1, r2

MCMaxUsers == (r1 :> 0) @@ (r2 :> 1)
MCReferrer == (r1 :> Nobody) @@ (r2 :> r1)

MCSymmetry == Permutations(Calls)
============================================================================
