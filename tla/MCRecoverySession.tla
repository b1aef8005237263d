-------------------------- MODULE MCRecoverySession --------------------------
(***************************************************************************)
(* RecoverySession with two Ethernet devices.  The built-in address 9 is   *)
(* the .1 of a subnet of four; 6, the user's, is the .2 of one (the server *)
(* then offers its own address) and an ordinary host of a subnet of eight. *)
(***************************************************************************)
EXTENDS RecoverySession
=============================================================================
