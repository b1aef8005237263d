--------------------------- MODULE MCBackupStream ---------------------------
(***************************************************************************)
(* BackupStream for TLC.                                                   *)
(***************************************************************************)
EXTENDS BackupStream
=============================================================================
