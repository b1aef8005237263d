--------------------------- MODULE PartitionUpdate ---------------------------
(***************************************************************************)
(* What flash_image() promises about a raw partition, without the loops    *)
(* that keep the promise: an update is refused before anything is touched, *)
(* or it starts and then is committed, aborted or cut off by a power loss. *)
(*                                                                         *)
(* RawFlash implements this specification (RawFlash!ImplementsUpdate), and *)
(* BackupStream uses it as the environment that a download runs in.        *)
(*                                                                         *)
(* A block is "old" (as the job found it), "new" (it holds what the image  *)
(* has at this offset) or "other".                                         *)
(***************************************************************************)
CONSTANT Blocks   \* eraseblocks of the partition

Contents == {"old", "new", "other"}
Phases == {"idle", "busy", "done", "failed", "off"}

VARIABLES
  strict,   \* the job may not skip a bad block, and looks before it starts
  exact,    \* the job promises every byte at its own offset
  bad,      \* blocks marked bad
  region,   \* contents of the blocks
  phase

pvars == <<strict, exact, bad, region, phase>>
kind == <<strict, exact>>

Untouched == region = [b \in Blocks |-> "old"]
Updated == bad = {} /\ region = [b \in Blocks |-> "new"]

Init ==
  /\ strict \in BOOLEAN /\ exact \in BOOLEAN
  /\ bad \in SUBSET Blocks
  /\ Untouched
  /\ phase = "idle"

\* What a running update may do to the flash: no block that is marked bad is
\* touched, no marker is lost, and what was overwritten is not brought back.
Work ==
  /\ bad \subseteq bad' /\ bad' \subseteq Blocks
  /\ region' \in [Blocks -> Contents]
  /\ \A b \in bad : region'[b] = region[b]
  /\ \A b \in Blocks : region'[b] = "old" => region[b] = "old"
  /\ kind' = kind

Leave == kind' = kind /\ bad' = bad /\ region' = region

\* The job ends before it has touched anything.
Refuse ==
  /\ phase = "idle" /\ phase' = "failed"
  /\ Leave

\* The point of no return.
Start ==
  /\ phase = "idle" /\ phase' = "busy"
  /\ strict => bad = {}
  /\ Leave

Touch == phase = "busy" /\ phase' = "busy" /\ Work

\* Success is reported.
Commit ==
  /\ phase = "busy" /\ phase' = "done"
  /\ exact => Updated
  /\ Leave

\* An error is reported.
Abort == phase = "busy" /\ phase' = "failed" /\ Work

PowerLoss ==
  /\ phase # "off" /\ phase' = "off"
  /\ IF phase = "busy" THEN Work ELSE Leave

\* The next job: what the flash holds is its "old".
NewJob ==
  /\ phase \in {"done", "failed", "off"} /\ phase' = "idle"
  /\ strict' \in BOOLEAN /\ exact' \in BOOLEAN
  /\ region' = [b \in Blocks |-> "old"]
  /\ bad' = bad

Next == Refuse \/ Start \/ Touch \/ Commit \/ Abort \/ PowerLoss \/ NewJob

Spec == Init /\ [][Next]_pvars
=============================================================================
