---------------------------- MODULE MCUbiRebuild ----------------------------
(***************************************************************************)
(* UbiRebuild for TLC.                                                     *)
(***************************************************************************)
EXTENDS UbiRebuild
=============================================================================
