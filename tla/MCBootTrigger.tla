--------------------------- MODULE MCBootTrigger ---------------------------
(***************************************************************************)
(* BootTrigger for TLC.                                                    *)
(***************************************************************************)
EXTENDS BootTrigger

\* No wait, a wait, the longest wait, and one that is cut down to it.
MCTimeouts == {0, 1, 2, 3}
=============================================================================
