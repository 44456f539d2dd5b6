--------------------------- MODULE MCStreamWorker ---------------------------
(***************************************************************************)
(* Values of the constants of StreamWorker for TLC, and the symmetry of    *)
(* its requests and process slots.                                         *)
(***************************************************************************)
EXTENDS StreamWorker, TLC

NoBackups == <<>>
OneBackup == <<"backup">>

Symmetry == Permutations(Calls) \cup Permutations(Procs)
=============================================================================
