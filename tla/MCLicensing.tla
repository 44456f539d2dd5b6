---------------------------- MODULE MCLicensing ----------------------------
(***************************************************************************)
(* Instances of Licensing for TLC: verifications and calls are             *)
(* interchangeable.                                                        *)
(***************************************************************************)
EXTENDS Licensing, TLC

Symmetry == Permutations(Checks) \cup Permutations(Calls)
=============================================================================
