----------------------------- MODULE UbiRebuild -----------------------------
(***************************************************************************)
(* The firmware path of the web recovery: the upload limit computed when a *)
(* POST begins, and the UBI half of flash_image() in                       *)
(* net/lwip/httpd_recovery.c, which erases the "ubi" partition, attaches   *)
(* it, creates the volumes fit, factory and rootfs_data, updates fit and   *)
(* mirrors the factory data (board/airoha/an7581/an7581_rfb.c); then the   *)
(* boot that follows (board_late_init() and bootcmd).                      *)
(*                                                                         *)
(* Sizes are counted in logical eraseblocks; one step is one call that     *)
(* changes the flash, or one iteration of the erase or write loop.  UBI's  *)
(* volume table is changed atomically, as UBI does with its two copies, so *)
(* a failing call or a power cut leaves either the old or the new table.   *)
(* The volumes' contents is what can be told apart later: "none" (created, *)
(* never updated), "part" (an update has begun), "lost" (LEBs were erased  *)
(* under it), "bad" (complete, but not what was sent) or "full".  When and *)
(* by whom flash_image() is started is RecoveryHttp.                       *)
(*                                                                         *)
(* A definition whose comment starts with "Mutant" is a plausible slip in  *)
(* the code; PROJECT.json says which definition it stands in for and which *)
(* property must then fail.                                                *)
(***************************************************************************)
EXTENDS Integers

CONSTANTS
  Avail,        \* PEBs available for volumes after UBI formatted the partition
  RawLimit,     \* mtd->size, in LEBs: more than UBI can offer
  FactoryPebs,  \* RECOVERY_FACTORY_SIZE
  SyncPebs,     \* XG2010G_FACTORY_SIZE
  FactoryBoard, \* the device tree is one recovery_preserve_ubi_volume() knows
  Faults        \* MTD and UBI operations may fail, the NAND may store junk

ASSUME SizesAssumption ==
  /\ Avail \in Nat
  /\ RawLimit \in Nat
  /\ FactoryPebs \in Nat \ {0}
  /\ SyncPebs \in 1 .. FactoryPebs
  /\ FactoryPebs < Avail
  /\ Avail < RawLimit
ASSUME SwitchAssumption == FactoryBoard \in BOOLEAN /\ Faults \in BOOLEAN

Volumes == {"fit", "factory", "rootfs_data"}
Contents == {"none", "part", "lost", "bad", "full"}

VARIABLES
  media,        \* the partition: "ubi", "blank", or "mixed" (partly erased,
                \* or not written by UBI)
  there,        \* volumes in the volume table
  pebs,         \* their reserved_pebs; 0 for a volume that is not there
  marker,       \* volumes with the update marker set
  data,         \* contents of the volumes
  attached,     \* UBI is attached to the partition
  attach_error, \* recovery_ubi_attach_error is set
  probed,       \* xg2010g_ubi_layout_probed
  pc,           \* where the program is: see Places
  prog_phase,   \* -1 error, 0 idle, 1 erase, 2 write, 3 done
  image,        \* image_size
  written,      \* recovery_write_ubi_target(): written
  ret,          \* how the last flash_image() ended
  roomy,        \* history: the upload limit came from a UBI that holds a
                \* full-size factory volume (or needs none)
  junk,         \* history: the NAND stored something else than it was sent
  faulted       \* history: an operation of this job failed or lied

flash == <<media, there, pebs, marker, data>>
ram == <<attached, attach_error, probed>>
job == <<image, written, roomy>>
vars == <<flash, ram, job, pc, prog_phase, ret, junk, faulted>>

Places == {"reset", "autoboot", "linux", "idle", "job", "erase", "attach",
           "fit", "factory", "rootfs_data", "start", "write", "check",
           "sync", "syncing", "done"}

-----------------------------------------------------------------------------

\* ubi->rsvd_pebs, as far as volumes reserve them.
Used == pebs["fit"] + pebs["factory"] + pebs["rootfs_data"]

\* Mutant: created volumes are not taken off the available PEBs.
FreeStale == Avail

\* ubi->avail_pebs.
Free == Avail - Used

\* vtbl_check(): a record with no PEBs has to be an empty record.
VtblValid == \A v \in there : pebs[v] > 0

\* The partition after UBI formatted it, or after it was erased.
NoVolumes ==
  /\ there' = {}
  /\ pebs' = [v \in Volumes |-> 0]
  /\ marker' = {}
  /\ data' = [v \in Volumes |-> "none"]

\* ubi_part(): attach.  UBI formats a blank partition.  A partly erased one
\* attaches only if a copy of the volume table survived; volumes may then
\* have lost data.
AttachOk ==
  /\ attached' = TRUE
  /\ media' = "ubi"
  /\ \/ media = "blank" /\ NoVolumes
     \/ media = "ubi" /\ VtblValid /\ UNCHANGED <<there, pebs, marker, data>>
     \/ /\ media = "mixed" /\ VtblValid
        /\ \E lost \in SUBSET there :
             data' = [v \in Volumes |-> IF v \in lost THEN "lost" ELSE data[v]]
        /\ UNCHANGED <<there, pebs, marker>>
AttachFails ==
  /\ Faults \/ media = "mixed" \/ (media = "ubi" /\ ~VtblValid)
  /\ attached' = FALSE
  /\ UNCHANGED flash

\* recovery_select_ubi(), called with the given recovery_ubi_attach_error: an
\* attached UBI is kept, a failed attach is remembered and not tried again.
SelectOk(error) ==
  /\ IF attached THEN UNCHANGED <<flash, attached>> ELSE ~error /\ AttachOk
  /\ attach_error' = error
  /\ UNCHANGED probed
SelectFails(error) ==
  /\ ~attached
  /\ IF error THEN UNCHANGED <<flash, attached>> ELSE AttachFails
  /\ attach_error' = TRUE
  /\ UNCHANGED probed

\* Mutant: every /about probes the partition again.
DetectUbiUncached ==
  /\ probed' = TRUE
  /\ IF attached THEN UNCHANGED <<flash, attached>> ELSE AttachOk \/ AttachFails
  /\ UNCHANGED attach_error

\* xg2010g_detect_ubi_part(): attaches once per boot, then answers from its
\* cache.
DetectUbi ==
  IF probed THEN UNCHANGED <<flash, ram>>
  ELSE /\ probed' = TRUE
       /\ IF attached THEN UNCHANGED <<flash, attached>>
          ELSE AttachOk \/ AttachFails
       /\ UNCHANGED attach_error

-----------------------------------------------------------------------------
(* Boot.                                                                   *)

\* A production layout, a blank partition, or one UBI never wrote.
Init ==
  /\ \/ media = "ubi" /\ there = Volumes
        /\ data = [v \in Volumes |-> "full"]
        /\ \E f \in {SyncPebs, FactoryPebs} :
             pebs = [v \in Volumes |-> CASE v = "fit" -> 1
                                         [] v = "factory" -> f
                                         [] OTHER -> Avail - 1 - f]
     \/ media \in {"blank", "mixed"} /\ there = {}
        /\ pebs = [v \in Volumes |-> 0]
        /\ data = [v \in Volumes |-> "none"]
  /\ marker = {}
  /\ attached = FALSE /\ attach_error = FALSE /\ probed = FALSE
  /\ pc = "reset" /\ prog_phase = 0 /\ ret = "none"
  /\ image = 0 /\ written = 0 /\ roomy = FALSE
  /\ junk = FALSE /\ faulted = FALSE

\* board_late_init() up to its decision about recovery.
LateInit ==
  /\ pc = "reset"
  /\ DetectUbi
  /\ pc' = "autoboot"
  /\ UNCHANGED <<job, prog_phase, ret, junk, faulted>>

\* run_http_recovery() up to its main loop.
EnterRecovery ==
  /\ pc' = "idle"
  /\ attach_error' = FALSE
  /\ prog_phase' = 0
  /\ UNCHANGED <<probed, job, ret, junk, faulted>>

\* board_late_init(): the trigger or the button selects recovery.
Triggered ==
  /\ pc = "autoboot"
  /\ EnterRecovery
  /\ UNCHANGED <<flash, attached>>

\* boot_ubi: "ubi part ubi" and "ubi read ${loadaddr} fit".  Reading a volume
\* that was never written succeeds and leaves RAM alone; what bootm then finds
\* is up to data below.
PartOk == IF attached THEN UNCHANGED <<flash, attached>> ELSE AttachOk
FitReadable == "fit" \in there' /\ "fit" \notin marker'

\* bootcmd, first half: bootm refuses an image whose hashes do not match.
BootUbi ==
  /\ pc = "autoboot"
  /\ PartOk
  /\ FitReadable
  /\ data'["fit"] = "full"
  /\ pc' = "linux"
  /\ UNCHANGED <<attach_error, probed, job, prog_phase, ret, junk, faulted>>

\* bootcmd, "|| http_recovery".
BootFails ==
  /\ pc = "autoboot"
  /\ \/ PartOk /\ (Faults \/ ~FitReadable \/ data'["fit"] # "full")
     \/ ~attached /\ AttachFails
  /\ EnterRecovery

\* do_reset() from the reboot timer, a reboot request or Linux; or the power
\* fails and returns.
Reset ==
  /\ pc' = "reset"
  /\ attached' = FALSE /\ attach_error' = FALSE /\ probed' = FALSE
  /\ prog_phase' = 0
  /\ ret' = "none"
  /\ UNCHANGED <<flash, job, junk, faulted>>
Reboot == pc \in {"done", "idle", "linux"} /\ Reset
PowerCut == pc \notin {"reset", "linux"} /\ Reset

Boot == LateInit \/ Triggered \/ BootUbi \/ BootFails

-----------------------------------------------------------------------------
(* The upload and flash_image().                                           *)

\* Mutant: the limit is always the raw size of the partition.
RebuildLimitRaw == RawLimit

\* recovery_calc_rebuild_ubi_limit() on the attached UBI: everything but
\* what the volumes to preserve hold.  They are recreated, not preserved.
RebuildLimit == Avail - (IF FactoryBoard THEN pebs'["factory"] ELSE 0)

HasFactory == FactoryBoard => pebs'["factory"] >= FactoryPebs

Accepted(n) ==
  /\ pc' = "job" /\ prog_phase' = 0 /\ ret' = "none"
  /\ image' = n /\ written' = 0
  /\ junk' = FALSE /\ faulted' = FALSE

\* httpd_post_begin() for a firmware of n LEBs, and its upload: forget the
\* attach error, attach, compare with the limit.  Without a UBI the limit is
\* the raw size of the partition.
Post ==
  /\ pc = "idle"
  /\ \E n \in 1 .. RawLimit + 1 :
       \/ /\ SelectOk(FALSE) /\ n <= RebuildLimit /\ Accepted(n)
          /\ roomy' = HasFactory
       \/ /\ SelectFails(FALSE) /\ n <= RawLimit /\ Accepted(n)
          /\ roomy' = FALSE
       \/ /\ \/ SelectOk(FALSE) /\ n > RebuildLimit
             \/ SelectFails(FALSE) /\ n > RawLimit
          /\ prog_phase' = -1
          /\ UNCHANGED <<pc, ret, job, junk, faulted>>

\* The upload does not complete, or its response is not acknowledged:
\* httpd_post_finished(), httpd_post_response_complete().
UploadLost ==
  /\ pc = "job"
  /\ pc' = "idle" /\ prog_phase' = -1
  /\ UNCHANGED <<flash, ram, job, ret, junk, faulted>>

\* flash_image(): resolve the target and force a rebuild.  Post attached UBI
\* or remembered the error, so resolving touches nothing; the limit checked
\* here is the raw size, which Post did not exceed.
StartJob ==
  /\ pc = "job"
  /\ attached \/ attach_error
  /\ pc' = "erase" /\ prog_phase' = 1
  /\ attached' = FALSE /\ attach_error' = FALSE
  /\ UNCHANGED <<flash, probed, job, ret, junk, faulted>>

\* An error exit of flash_image().
Fail(r) ==
  /\ pc' = "idle" /\ prog_phase' = -1 /\ ret' = r
  /\ faulted' = (faulted \/ r = "io")
  /\ UNCHANGED <<job, junk>>

Go(place) == pc' = place /\ UNCHANGED <<job, ret, junk, faulted>>

\* recovery_erase_mtd_region() over the whole partition: some blocks, all of
\* them, or an error.
EraseSome ==
  /\ pc = "erase"
  /\ media' = "mixed"
  /\ \/ Go("erase") /\ UNCHANGED prog_phase
     \/ Faults /\ Fail("io")
  /\ UNCHANGED <<there, pebs, marker, data, ram>>

\* Mutant: an attachable partition is kept as it is.
EraseEndKeeps ==
  /\ pc = "erase"
  /\ Go("attach") /\ UNCHANGED <<flash, prog_phase, ram>>

EraseEnd ==
  /\ pc = "erase"
  /\ media' = "blank" /\ NoVolumes
  /\ Go("attach") /\ UNCHANGED <<prog_phase, ram>>

\* recovery_prepare_ubi_target() after the erase: forget the attach error and
\* attach.
AttachNew ==
  /\ pc = "attach"
  /\ \/ SelectOk(FALSE) /\ Go("fit") /\ UNCHANGED prog_phase
     \/ SelectFails(FALSE) /\ Fail("io")

\* ubi_create_volume(), as far as it changes the volume table.
NewVolume(v, n) ==
  /\ there' = there \cup {v}
  /\ pebs' = [pebs EXCEPT ![v] = n]
  /\ data' = [data EXCEPT ![v] = "none"]
  /\ UNCHANGED <<media, marker>>

\* ubi_create_volume(), called at pc = v, with what the caller does then.
\* Nothing here refuses a volume of no PEBs.
CreateVolume(v, n, place, phase) ==
  /\ pc = v
  /\ \/ n <= Free /\ NewVolume(v, n) /\ Go(place) /\ prog_phase' = phase
     \/ n > Free /\ Fail("nospace") /\ UNCHANGED flash
     \/ Faults /\ n <= Free /\ Fail("io") /\ (NewVolume(v, n) \/ UNCHANGED flash)
  /\ UNCHANGED ram

\* recovery_create_ubi_target().
CreateFit == CreateVolume("fit", image, "factory", prog_phase)

\* Mutant: the board is missing from the list.
CreateFactoryNever ==
  /\ pc = "factory" /\ Go("rootfs_data")
  /\ UNCHANGED <<flash, ram, prog_phase>>

\* recovery_ensure_preserved_ubi_volumes(): after the erase there is none.
CreateFactory ==
  IF FactoryBoard
  THEN CreateVolume("factory", FactoryPebs, "rootfs_data", prog_phase)
  ELSE /\ pc = "factory" /\ Go("rootfs_data")
       /\ UNCHANGED <<flash, ram, prog_phase>>

\* recovery_ensure_rootfs_data(): all that is left, then phase 2.
CreateRootfsData == CreateVolume("rootfs_data", Free, "start", 2)

\* Mutant: the volume is rewritten without the update marker.
UpdateStartsUnmarked(v) ==
  /\ data' = [data EXCEPT ![v] = "part"]
  /\ UNCHANGED marker

\* ubi_start_update(): set the update marker, then unmap the volume.
UpdateStarts(v) ==
  /\ marker' = marker \cup {v}
  /\ data' = [data EXCEPT ![v] = "part"]

\* recovery_write_ubi_target() up to its loop.
StartUpdate ==
  /\ pc = "start"
  /\ \/ UpdateStarts("fit") /\ Go("write") /\ UNCHANGED prog_phase
     \/ Faults /\ Fail("io") /\ (UpdateStarts("fit") \/ UNCHANGED <<marker, data>>)
  /\ UNCHANGED <<media, there, pebs, ram>>

\* Whether the NAND stores what it is sent.
Stored ==
  /\ junk' \in {junk, junk \/ Faults}
  /\ faulted' = (faulted \/ junk')

\* The end of ubi_more_update_data(): all data is there, clear the marker.
UpdateEnds(v, lied) ==
  /\ marker' = marker \ {v}
  /\ data' = [data EXCEPT ![v] = IF lied THEN "bad" ELSE "full"]

\* One iteration of the loop in recovery_write_ubi_target().
WriteChunk ==
  /\ pc = "write" /\ written < image
  /\ \/ /\ Stored
        /\ written' = written + 1
        /\ UNCHANGED <<pc, prog_phase, ret, image, roomy, marker, data>>
     \/ Faults /\ Fail("io") /\ UNCHANGED <<marker, data>>
  /\ UNCHANGED <<media, there, pebs, ram>>

\* Mutant: the update is taken for finished one chunk early.
WriteEndEarly ==
  /\ pc = "write" /\ written + 1 >= image
  /\ Go("check") /\ UNCHANGED prog_phase
  /\ IF written = image THEN UpdateEnds("fit", junk) ELSE UNCHANGED <<marker, data>>
  /\ UNCHANGED <<media, there, pebs, ram>>

\* The last call of ubi_more_update_data() ends the update.
WriteEnd ==
  /\ pc = "write" /\ written = image
  /\ \/ Go("check") /\ UNCHANGED prog_phase /\ UpdateEnds("fit", junk)
     \/ /\ Faults /\ Fail("io")
        /\ UpdateEnds("fit", junk) \/ UNCHANGED <<marker, data>>
  /\ UNCHANGED <<media, there, pebs, ram>>

\* ubi_check_volume(): an error ends the job, a corrupt volume does not.
CheckVolume ==
  /\ pc = "check"
  /\ \/ Go("sync") /\ prog_phase' = 3
     \/ Faults /\ Fail("io")
  /\ UNCHANGED <<flash, ram>>

-----------------------------------------------------------------------------
(* The factory sync.                                                       *)

\* flash_image() returns 0, whatever the sync returned.
Finish(failed) ==
  /\ pc' = "done" /\ ret' = "ok"
  /\ faulted' = (faulted \/ failed)
  /\ UNCHANGED <<job, junk, prog_phase>>

\* xg2010g_ensure_ubi_volume(): PEBs still missing for the factory volume.
Missing == IF SyncPebs > pebs["factory"] THEN SyncPebs - pebs["factory"] ELSE 0

\* xg2010g_sync_factory_part() up to the start of the update: reading the
\* MAC addresses from dsd, comparing, providing the volume.
SyncFactory ==
  /\ pc = "sync"
  /\ \/ /\ Missing <= Free
        /\ there' = there \cup {"factory"}
        /\ pebs' = [pebs EXCEPT !["factory"] = @ + Missing]
        /\ UpdateStarts("factory")
        /\ Go("syncing") /\ UNCHANGED <<media, prog_phase>>
     \/ Missing > Free /\ Finish(FALSE) /\ UNCHANGED flash
     \/ Faults /\ Finish(TRUE) /\ UNCHANGED flash
  /\ UNCHANGED ram

\* ubi_volume_write() of the factory volume.
SyncEnd ==
  /\ pc = "syncing"
  /\ \/ \E lied \in {FALSE, Faults} : UpdateEnds("factory", lied) /\ Finish(lied)
     \/ Faults /\ Finish(TRUE) /\ UNCHANGED <<marker, data>>
  /\ UNCHANGED <<media, there, pebs, ram>>

-----------------------------------------------------------------------------

\* GET /about, which recovery_service_runtime() also serves in the middle of
\* the erase and write loops.
About ==
  /\ pc \in {"idle", "erase", "write"}
  /\ DetectUbi
  /\ UNCHANGED <<job, pc, prog_phase, ret, junk, faulted>>

\* Ctrl-C, then http_recovery again.
Reenter == pc \in {"idle", "job"} /\ EnterRecovery /\ UNCHANGED <<flash, attached>>

FlashImage ==
  \/ StartJob \/ EraseSome \/ EraseEnd \/ AttachNew
  \/ CreateFit \/ CreateFactory \/ CreateRootfsData
  \/ StartUpdate \/ WriteChunk \/ WriteEnd \/ CheckVolume
  \/ SyncFactory \/ SyncEnd

Next ==
  \/ Boot \/ Reboot \/ PowerCut
  \/ Post \/ UploadLost \/ FlashImage \/ About \/ Reenter

Spec == Init /\ [][Next]_vars

-----------------------------------------------------------------------------
(* Properties.                                                             *)

\* Types, and PEB counts within what UBI has.
TypeOK ==
  /\ media \in {"ubi", "blank", "mixed"}
  /\ there \in SUBSET Volumes
  /\ pebs \in [Volumes -> 0 .. Avail]
  /\ Used <= Avail
  /\ marker \in SUBSET Volumes
  /\ data \in [Volumes -> Contents]
  /\ attached \in BOOLEAN /\ attach_error \in BOOLEAN /\ probed \in BOOLEAN
  /\ pc \in Places
  /\ prog_phase \in {-1, 0, 1, 2, 3}
  /\ image \in 0 .. RawLimit
  /\ written \in 0 .. image
  /\ ret \in {"none", "ok", "nospace", "io"}
  /\ roomy \in BOOLEAN /\ junk \in BOOLEAN /\ faulted \in BOOLEAN

\* The partition is never erased under an attached UBI: what UBI holds in
\* memory would no longer be on the flash.  It rests on ubi_detach() in
\* recovery_force_ubi_rebuild() and on the cached probe, since /about is
\* served in the middle of the erase loop.
NoEraseUnderUbi == attached => media = "ubi"

\* Once the browser sees phase 3 (ok), fit is a complete volume of the image
\* with its update marker cleared, unless the NAND stored junk.
SuccessHasFirmware ==
  prog_phase = 3 /\ ~junk =>
    /\ media = "ubi" /\ "fit" \in there /\ "fit" \notin marker
    /\ data["fit"] = "full"
    /\ pebs["fit"] = image

\* An update that was begun and not ended, by an error, a power cut or a
\* failed job, stays behind its update marker: "ubi read" refuses it, and
\* bootcmd falls back to recovery instead of loading half a firmware.
InterruptedUpdateMarked == \A v \in there : data[v] = "part" => v \in marker

\* The job that was accepted fits: if the limit told to the browser came
\* from a UBI that held the factory volume, flash_image() does not run out
\* of PEBs after it erased the old firmware.
AcceptedFits == ret = "nospace" => ~roomy

\* The PEBs recovery_ensure_preserved_ubi_volumes() will ask for.
Reserve == IF FactoryBoard THEN FactoryPebs ELSE 0

\* Whatever earlier jobs and power cuts left behind, an image that fits next
\* to the factory volume is not refused for lack of space.
NoSpaceJustified ==
  ret = "nospace" => image + Reserve > Avail

\* After a job without faults the factory volume holds the factory data.
FactorySynced ==
  pc = "done" /\ ~faulted => "factory" \in there /\ data["factory"] = "full"

\* bootcmd would load fit, if UBI attached with all that the flash holds.
FitWhole == "fit" \in there \ marker /\ data["fit"] = "full" /\ VtblValid

\* What the next boot may load; what was half erased may be gone.
Loads ==
  {IF FitWhole THEN pebs["fit"] ELSE 0}
  \cup (IF media = "mixed" THEN {0} ELSE {})

\* How far the update is.
Phase ==
  CASE pc = "linux" -> "running"
    [] pc = "job" -> "accepted"
    [] pc \in {"erase", "attach", "fit", "factory", "rootfs_data", "start",
               "write", "check"} -> "busy"
    [] pc \in {"sync", "syncing", "done"} -> "done"
    [] OTHER -> "idle"

Firmware == INSTANCE FirmwareUpdate WITH
  MaxImage <- RawLimit, Room <- Avail - Reserve,
  phase <- Phase, lied <- junk, loads <- Loads

\* Whatever fails and whenever the power goes, a boot loads a complete
\* firmware or none: the old one until the erase begins, the uploaded one once
\* success is reported, and in between no mixture of the two.
ImplementsFirmwareUpdate == Firmware!Spec

\* The volume table a successful job leaves passes UBI's own check, so UBI
\* attaches on the next boot.
VolumeTableValid == pc = "done" => VtblValid
=============================================================================
