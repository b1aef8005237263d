----------------------------- MODULE MCRawFlash -----------------------------
(***************************************************************************)
(* RawFlash for TLC.  Four eraseblocks are enough for a good, a bad, a     *)
(* failing and a following block in every order; the 2 MiB partitions of   *)
(* the board have sixteen.                                                 *)
(***************************************************************************)
EXTENDS RawFlash
=============================================================================
