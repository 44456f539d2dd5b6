------------------------ MODULE MCStreamSupervision ------------------------
(***************************************************************************)
(* Values of the constants of StreamSupervision for TLC.                   *)
(***************************************************************************)
EXTENDS StreamSupervision

NoBackups == <<>>
OneBackup == <<"backup">>
=============================================================================
