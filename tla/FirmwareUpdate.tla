--------------------------- MODULE FirmwareUpdate ---------------------------
(***************************************************************************)
(* What the UBI half of flash_image() promises about the firmware, without *)
(* erase loops, volumes and update markers: what the next boot may load.   *)
(*                                                                         *)
(* loads holds the possible results of loading the firmware at a boot: the *)
(* size of a complete one, or 0 for none (absent, behind an update marker, *)
(* turned down by bootm).  There are several results while it is not known *)
(* what of a partly erased partition can still be read; attaching settles  *)
(* that.                                                                   *)
(*                                                                         *)
(* UbiRebuild implements this specification (ImplementsFirmwareUpdate).    *)
(***************************************************************************)
EXTENDS Naturals

CONSTANTS
  MaxImage,   \* largest upload that is accepted
  Room        \* an image below this size leaves something for rootfs_data

VARIABLES
  phase,      \* "idle", "accepted", "busy", "done", "running"
  image,      \* size of the upload
  lied,       \* the flash stored something else than it was sent
  loads

fvars == <<phase, image, lied, loads>>

Init ==
  /\ phase = "idle" /\ image = 0 /\ lied = FALSE
  /\ \E n \in 0 .. MaxImage : loads = {n}

\* Nothing becomes loadable by looking at it.
Look == loads' \subseteq loads /\ loads' # {}

Keep == loads' = loads /\ image' = image /\ lied' = lied

\* UBI is attached, by board_late_init(), by bootcmd or for an upload that is
\* then refused.
Settle ==
  /\ phase = "idle" /\ phase' = "idle"
  /\ Look /\ image' = image /\ lied' = lied

\* An upload is accepted.
Accept ==
  /\ phase = "idle" /\ phase' = "accepted"
  /\ Look /\ image' \in 1 .. MaxImage /\ lied' = FALSE

\* The upload is given up; the firmware is as it was.
Drop == phase = "accepted" /\ phase' = "idle" /\ Keep

\* The point of no return.
Start == phase = "accepted" /\ phase' = "busy" /\ Keep

\* What a running update may do: the old firmware may go, the new one may
\* come, and no third one or part of one can ever be loaded.
Update ==
  /\ loads' \subseteq loads \cup {0, image} /\ loads' # {}
  /\ image' = image
  /\ lied' \in {lied, TRUE}

Work == phase = "busy" /\ phase' = "busy" /\ Update

\* An error is reported.
Abort == phase = "busy" /\ phase' = "idle" /\ Update

\* Success is reported: the old firmware is gone and the new one is there,
\* unless the flash lied or the image left nothing for rootfs_data.
Commit ==
  /\ phase = "busy" /\ phase' = "done"
  /\ loads \in {{0}, {image}}
  /\ ~lied /\ image < Room => loads = {image}
  /\ Keep

\* A firmware is booted, one that could be loaded.
Boot ==
  /\ phase = "idle" /\ phase' = "running"
  /\ \E n \in loads \ {0} : loads' = {n}
  /\ image' = image /\ lied' = lied

\* A reset, or the power fails and returns.
Reset == phase' = "idle" /\ Keep

Next ==
  \/ Settle \/ Accept \/ Drop \/ Start \/ Work \/ Abort \/ Commit \/ Boot
  \/ Reset

Spec == Init /\ [][Next]_fvars
=============================================================================
