-------------------------- MODULE MCDownloadQueue --------------------------
(***************************************************************************)
(* Symmetry of DownloadQueue for TLC: every job is filed under a category  *)
(* and has autoVod, so that jobs are alike.                                *)
(***************************************************************************)
EXTENDS DownloadQueue, TLC

Symmetry == Permutations(Jobs) \cup Permutations(Calls)
=============================================================================
