--------------------------- MODULE MCRecoveryHttp ---------------------------
(***************************************************************************)
(* RecoveryHttp for TLC.  Two connections are an upload or a reboot        *)
(* request and a connection left over from an earlier POST; two segments   *)
(* are the shortest upload that can be interrupted in the middle.          *)
(***************************************************************************)
EXTENDS RecoveryHttp
=============================================================================
