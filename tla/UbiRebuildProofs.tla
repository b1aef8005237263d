-------------------------- MODULE UbiRebuildProofs --------------------------
(***************************************************************************)
(* TLAPS proofs about UbiRebuild, for partitions, images and factory       *)
(* volumes of any size, with any failing operation and any power cut.      *)
(*                                                                         *)
(* Inv is the inductive invariant.  It follows the job: UBI is attached    *)
(* from "fit" on and not before, the rebuilt partition starts empty, each  *)
(* place knows which volumes exist and how many PEBs they hold, and from   *)
(* "check" on fit is complete.                                             *)
(***************************************************************************)
EXTENDS UbiRebuild, TLAPS

-----------------------------------------------------------------------------

\* flash_image() once the rebuilt partition is attached.
Filling == {"fit", "factory", "rootfs_data"}
Written == {"check", "sync", "syncing", "done"}
Laid == {"start", "write"} \cup Written

\* The part of TypeOK about the flash.
FlashOK ==
  /\ media \in {"ubi", "blank", "mixed"}
  /\ there \in SUBSET Volumes
  /\ pebs \in [Volumes -> 0 .. Avail]
  /\ Used <= Avail
  /\ marker \in SUBSET Volumes
  /\ data \in [Volumes -> Contents]
  /\ InterruptedUpdateMarked

\* The part of TypeOK about the program.
ProgramOK ==
  /\ attached \in BOOLEAN /\ attach_error \in BOOLEAN /\ probed \in BOOLEAN
  /\ pc \in Places
  /\ prog_phase \in {-1, 0, 1, 2, 3}
  /\ image \in 0 .. RawLimit
  /\ written \in 0 .. image
  /\ ret \in {"none", "ok", "nospace", "io"}
  /\ roomy \in BOOLEAN /\ junk \in BOOLEAN /\ faulted \in BOOLEAN

\* When UBI is attached, and what an answered upload leaves for flash_image().
InvUbi ==
  /\ NoEraseUnderUbi
  /\ pc \in Filling \cup Laid => attached
  /\ pc \in {"reset", "erase", "attach"} => ~attached
  /\ pc # "reset" => probed
  /\ pc = "job" => attached \/ attach_error
  /\ pc = "attach" => media = "blank"

\* How far the new layout is.
InvLayout ==
  /\ pc \in Filling => pebs["rootfs_data"] = 0
  /\ pc = "fit" => pebs["fit"] = 0
  /\ pc \in {"fit", "factory"} => pebs["factory"] = 0
  /\ pc \in {"factory", "rootfs_data"} \cup Laid =>
       "fit" \in there /\ pebs["fit"] = image
  /\ pc = "rootfs_data" => pebs["factory"] = Reserve
  /\ FactoryBoard /\ pc \in {"rootfs_data"} \cup Laid =>
       "factory" \in there /\ pebs["factory"] = FactoryPebs

\* The firmware once its update has ended.
InvFirmware ==
  /\ pc \in Written =>
       "fit" \notin marker /\ data["fit"] = (IF junk THEN "bad" ELSE "full")
  /\ prog_phase = 3 => pc \in {"sync", "syncing", "done"}

\* What the limit promised and how the job ended.
InvSize ==
  /\ roomy => image + Reserve <= Avail
  /\ NoSpaceJustified
  /\ FactoryBoard => FactorySynced

Inv == FlashOK /\ ProgramOK /\ InvUbi /\ InvLayout /\ InvFirmware /\ InvSize
-----------------------------------------------------------------------------

\* The initial states satisfy the invariant.
LEMMA InitInv == Init => Inv
  <1> SUFFICES ASSUME Init PROVE Inv
    OBVIOUS
  <1>1. FlashOK
    <2>1. CASE media = "ubi"
      <3>1. PICK f \in {SyncPebs, FactoryPebs} :
              pebs = [v \in Volumes |-> CASE v = "fit" -> 1
                                          [] v = "factory" -> f
                                          [] OTHER -> Avail - 1 - f]
        BY <2>1 DEF Init
      <3>2. f \in 1 .. FactoryPebs /\ Avail - 1 - f \in 0 .. Avail
        BY SizesAssumption
      <3>3. /\ pebs["fit"] = 1 /\ pebs["factory"] = f
            /\ pebs["rootfs_data"] = Avail - 1 - f
        BY <3>1 DEF Volumes
      <3>4. pebs \in [Volumes -> 0 .. Avail]
        BY <3>1, <3>2, <3>3, SizesAssumption DEF Volumes
      <3> QED
        BY <2>1, <3>2, <3>3, <3>4, SizesAssumption
           DEF Init, FlashOK, Used, Contents, InterruptedUpdateMarked, Volumes
    <2>2. CASE media # "ubi"
      BY <2>2, SizesAssumption
         DEF Init, FlashOK, Used, Contents, InterruptedUpdateMarked, Volumes
    <2> QED
      BY <2>1, <2>2
  <1>2. ProgramOK
    <2>1. /\ attached \in BOOLEAN /\ attach_error \in BOOLEAN /\ probed \in BOOLEAN
          /\ roomy \in BOOLEAN /\ junk \in BOOLEAN /\ faulted \in BOOLEAN
      BY Zenon DEF Init
    <2>2. image \in 0 .. RawLimit /\ written \in 0 .. image
      BY SizesAssumption DEF Init
    <2> QED
      BY <2>1, <2>2 DEF Init, ProgramOK, Places
  <1>3. InvUbi /\ InvLayout /\ InvFirmware /\ InvSize
    BY DEF Init, InvUbi, NoEraseUnderUbi, InvLayout, InvFirmware, InvSize,
       NoSpaceJustified, FactorySynced, Filling, Laid, Written
  <1> QED
    BY <1>1, <1>2, <1>3 DEF Inv

-----------------------------------------------------------------------------
(* Attaching.                                                              *)

\* ubi_part() keeps the flash well formed and attaches only to a UBI; a blank
\* partition becomes an empty UBI.
LEMMA AttachKeeps ==
  ASSUME FlashOK, AttachOk
  PROVE  /\ FlashOK' /\ attached' = TRUE /\ media' = "ubi"
         /\ media = "blank" => \A v \in Volumes : pebs'[v] = 0
  <1>1. CASE media = "blank" /\ NoVolumes
    BY <1>1, SizesAssumption DEF AttachOk, FlashOK, NoVolumes, Used, Volumes,
       Contents, InterruptedUpdateMarked
  <1>2. CASE media = "ubi" /\ UNCHANGED <<there, pebs, marker, data>>
    BY <1>2 DEF AttachOk, FlashOK, Used, InterruptedUpdateMarked
  <1>3. CASE /\ media = "mixed" /\ UNCHANGED <<there, pebs, marker>>
             /\ \E lost \in SUBSET there :
                  data' = [v \in Volumes |-> IF v \in lost THEN "lost" ELSE data[v]]
    BY <1>3 DEF AttachOk, FlashOK, Used, Contents, InterruptedUpdateMarked
  <1> QED
    BY <1>1, <1>2, <1>3 DEF AttachOk

\* A flash that is left alone stays well formed.
LEMMA FlashKept ==
  ASSUME FlashOK, UNCHANGED flash
  PROVE  FlashOK'
  BY DEF FlashOK, flash, Used, InterruptedUpdateMarked

\* recovery_select_ubi() after the remembered error was cleared.
LEMMA SelectKeeps ==
  ASSUME FlashOK, NoEraseUnderUbi, attached \in BOOLEAN,
         SelectOk(FALSE) \/ SelectFails(FALSE)
  PROVE  /\ FlashOK' /\ NoEraseUnderUbi'
         /\ attached' \in BOOLEAN /\ attach_error' \in BOOLEAN /\ probed' = probed
         /\ attached' \/ attach_error'
         /\ SelectOk(FALSE) => attached'
  <1>1. CASE SelectOk(FALSE) /\ attached
    BY <1>1, FlashKept DEF SelectOk, flash, NoEraseUnderUbi
  <1>2. CASE SelectOk(FALSE) /\ ~attached
    BY <1>2, AttachKeeps DEF SelectOk, NoEraseUnderUbi
  <1>3. CASE SelectFails(FALSE) /\ ~SelectOk(FALSE)
    BY <1>3, FlashKept DEF SelectFails, AttachFails, NoEraseUnderUbi
  <1> QED
    BY <1>1, <1>2, <1>3

-----------------------------------------------------------------------------
(* Boot and the upload.                                                    *)

\* A step that leaves the flash well formed, ends in a place without a job
\* and changes neither the image nor the answer keeps the invariant.
LEMMA OutsideKeeps ==
  ASSUME Inv, FlashOK', NoEraseUnderUbi',
         attached' \in BOOLEAN, attach_error' \in BOOLEAN, probed' \in BOOLEAN,
         pc' \in {"reset", "autoboot", "linux", "idle"},
         pc' = "reset" => ~attached',
         pc' # "reset" => probed',
         prog_phase' \in {-1, 0, 1, 2},
         ret' \in {"none", ret},
         UNCHANGED <<job, junk, faulted>>
  PROVE  Inv'
  <1>1. ProgramOK'
    BY DEF Inv, ProgramOK, job, Places
  <1>2. InvUbi' /\ InvLayout' /\ InvFirmware'
    BY DEF InvUbi, InvLayout, InvFirmware, Filling, Laid, Written
  <1>3. InvSize'
    BY DEF Inv, InvSize, NoSpaceJustified, FactorySynced, job, Reserve
  <1> QED
    BY <1>1, <1>2, <1>3 DEF Inv

\* The boot actions keep the invariant.
LEMMA BootInv == ASSUME Inv, Boot PROVE Inv'
  <1> USE DEF Inv
  <1>1. CASE LateInit
    <2>1. /\ FlashOK' /\ NoEraseUnderUbi' /\ attached' \in BOOLEAN
          /\ attach_error' = attach_error
          /\ probed' = TRUE
      <3>1. CASE probed
        BY <1>1, <3>1, FlashKept
           DEF LateInit, DetectUbi, flash, ram, InvUbi, NoEraseUnderUbi, ProgramOK
      <3>2. CASE ~probed /\ AttachOk
        BY <1>1, <3>2, AttachKeeps
           DEF LateInit, DetectUbi, InvUbi, NoEraseUnderUbi
      <3>3. CASE ~probed /\ AttachFails
        BY <1>1, <3>3, FlashKept
           DEF LateInit, DetectUbi, AttachFails, InvUbi, NoEraseUnderUbi
      <3> QED
        BY <1>1, <3>1, <3>2, <3>3 DEF LateInit, DetectUbi, InvUbi
    <2>2. prog_phase' \in {-1, 0, 1, 2}
      BY <1>1 DEF LateInit, ProgramOK, InvFirmware
    <2> QED
      BY <1>1, <2>1, <2>2, OutsideKeeps DEF LateInit, ProgramOK
  <1>2. CASE Triggered
    <2>1. FlashOK' /\ NoEraseUnderUbi'
      BY <1>2, FlashKept DEF Triggered, InvUbi, NoEraseUnderUbi, flash
    <2> QED
      BY <1>2, <2>1, OutsideKeeps DEF Triggered, EnterRecovery, InvUbi, ProgramOK
  <1>3. ASSUME PartOk
        PROVE  FlashOK' /\ NoEraseUnderUbi' /\ attached' \in BOOLEAN
    <2>1. CASE attached
      BY <1>3, <2>1, FlashKept DEF PartOk, InvUbi, NoEraseUnderUbi, flash
    <2>2. CASE ~attached
      BY <1>3, <2>2, AttachKeeps DEF PartOk, NoEraseUnderUbi
    <2> QED
      BY <2>1, <2>2
  <1>4. CASE BootUbi
    <2>1. prog_phase' \in {-1, 0, 1, 2}
      BY <1>4 DEF BootUbi, ProgramOK, InvFirmware
    <2> QED
      BY <1>3, <1>4, <2>1, OutsideKeeps DEF BootUbi, InvUbi, ProgramOK
  <1>5. CASE BootFails
    <2>1. FlashOK' /\ NoEraseUnderUbi' /\ attached' \in BOOLEAN
      <3>1. CASE PartOk
        BY <1>3, <3>1
      <3>2. CASE AttachFails
        BY <3>2, FlashKept DEF AttachFails, NoEraseUnderUbi
      <3> QED
        BY <1>5, <3>1, <3>2 DEF BootFails
    <2> QED
      BY <1>5, <2>1, OutsideKeeps DEF BootFails, EnterRecovery, InvUbi, ProgramOK
  <1> QED
    BY <1>1, <1>2, <1>4, <1>5 DEF Boot

\* A reset or a power cut keeps the invariant.
LEMMA ResetInv == ASSUME Inv, Reset PROVE Inv'
  <1>1. FlashOK' /\ NoEraseUnderUbi'
    BY FlashKept DEF Inv, Reset, NoEraseUnderUbi
  <1> QED
    BY <1>1, OutsideKeeps DEF Reset

\* GET /about touches nothing once the partition was probed.
LEMMA AboutInv == ASSUME Inv, About PROVE Inv'
  <1>1. probed
    BY DEF Inv, About, InvUbi
  <1>2. UNCHANGED vars
    BY <1>1 DEF About, DetectUbi, vars
  <1> QED
    BY <1>2 DEF Inv, FlashOK, ProgramOK, InvUbi, InvLayout, InvFirmware, InvSize,
       Used, InterruptedUpdateMarked, NoEraseUnderUbi, NoSpaceJustified,
       FactorySynced, vars, flash, ram, job

\* Ctrl-C and a lost upload keep the invariant.
LEMMA IdleInv ==
  ASSUME Inv, Reenter \/ UploadLost
  PROVE  Inv'
  <1>1. FlashOK' /\ NoEraseUnderUbi'
    BY FlashKept
       DEF Inv, Reenter, UploadLost, InvUbi, NoEraseUnderUbi, flash, ram
  <1> QED
    BY <1>1, OutsideKeeps
       DEF Inv, Reenter, UploadLost, EnterRecovery, InvUbi, ProgramOK, ram

\* The start of an upload keeps the invariant.
LEMMA PostInv == ASSUME Inv, Post PROVE Inv'
  <1> USE DEF Inv
  <1>1. PICK n \in 1 .. RawLimit + 1 :
          \/ /\ SelectOk(FALSE) /\ n <= RebuildLimit /\ Accepted(n)
             /\ roomy' = HasFactory
          \/ /\ SelectFails(FALSE) /\ n <= RawLimit /\ Accepted(n)
             /\ roomy' = FALSE
          \/ /\ SelectOk(FALSE) \/ SelectFails(FALSE)
             /\ prog_phase' = -1
             /\ UNCHANGED <<pc, ret, job, junk, faulted>>
    BY DEF Post
  <1>2. /\ FlashOK' /\ NoEraseUnderUbi'
        /\ attached' \in BOOLEAN /\ attach_error' \in BOOLEAN /\ probed' = probed
        /\ attached' \/ attach_error'
    BY <1>1, SelectKeeps DEF InvUbi, ProgramOK
  <1>3. CASE UNCHANGED <<pc, ret, job, junk, faulted>> /\ prog_phase' = -1
    BY <1>2, <1>3, OutsideKeeps DEF Post, InvUbi, ProgramOK
  <1>4. CASE /\ Accepted(n) /\ n <= RawLimit /\ roomy' \in BOOLEAN
             /\ roomy' => n + Reserve <= Avail
    <2>1. ProgramOK'
      <3>1. junk' \in BOOLEAN /\ faulted' \in BOOLEAN
        BY <1>4, Zenon DEF Accepted
      <3>2. image' \in 0 .. RawLimit /\ written' \in 0 .. image'
        BY <1>4, SizesAssumption DEF Accepted
      <3>3. probed' \in BOOLEAN
        BY <1>2 DEF ProgramOK
      <3> QED
        BY <1>2, <1>4, <3>1, <3>2, <3>3 DEF Accepted, ProgramOK, Places
    <2>2. InvUbi' /\ InvLayout' /\ InvFirmware'
      BY <1>2, <1>4
         DEF Post, Accepted, InvUbi, InvLayout, InvFirmware, Filling, Laid, Written
    <2>3. InvSize'
      BY <1>4 DEF Accepted, InvSize, NoSpaceJustified, FactorySynced, Reserve
    <2> QED
      BY <1>2, <2>1, <2>2, <2>3
  <1>5. ASSUME SelectOk(FALSE), n <= RebuildLimit, roomy' = HasFactory
        PROVE  /\ n <= RawLimit /\ roomy' \in BOOLEAN
               /\ roomy' => n + Reserve <= Avail
    <2>1. pebs'["factory"] \in 0 .. Avail
      BY <1>2 DEF FlashOK, Volumes
    <2>2. roomy' \in BOOLEAN
      BY <1>5, Zenon DEF HasFactory
    <2>3. n <= RawLimit
      BY <1>5, <2>1, SizesAssumption DEF RebuildLimit
    <2>4. ASSUME roomy' PROVE n + Reserve <= Avail
      <3>1. FactoryBoard => pebs'["factory"] >= FactoryPebs
        BY <1>5, <2>4, Zenon DEF HasFactory
      <3> QED
        BY <1>5, <2>1, <3>1, SizesAssumption DEF RebuildLimit, Reserve
    <2> QED
      BY <2>2, <2>3, <2>4
  <1> QED
    BY <1>1, <1>3, <1>4, <1>5

\* The start of flash_image() keeps the invariant.
LEMMA StartJobInv == ASSUME Inv, StartJob PROVE Inv'
  <1> USE DEF Inv
  <1>1. FlashOK'
    BY FlashKept DEF StartJob
  <1>2. ProgramOK'
    BY DEF StartJob, ProgramOK, job, Places
  <1>3. InvUbi' /\ InvLayout' /\ InvFirmware'
    BY DEF StartJob, InvUbi, NoEraseUnderUbi, InvLayout, InvFirmware, Filling,
       Laid, Written
  <1>4. InvSize'
    BY DEF StartJob, InvSize, NoSpaceJustified, FactorySynced, job, Reserve
  <1> QED
    BY <1>1, <1>2, <1>3, <1>4

-----------------------------------------------------------------------------
(* flash_image().                                                          *)

\* An error exit keeps the invariant if the flash is well formed and -ENOSPC
\* is justified.
LEMMA FailKeeps ==
  ASSUME Inv, FlashOK', NoEraseUnderUbi', NEW r \in {"nospace", "io"}, Fail(r),
         attached' \in BOOLEAN, attach_error' \in BOOLEAN, probed', probed' \in BOOLEAN,
         r = "nospace" => image + Reserve > Avail
  PROVE  Inv'
  <1>1. faulted' \in BOOLEAN
    BY Zenon DEF Fail
  <1>2. ProgramOK'
    BY <1>1 DEF Inv, ProgramOK, Fail, job, Places
  <1>3. InvUbi' /\ InvLayout' /\ InvFirmware'
    BY DEF Fail, InvUbi, InvLayout, InvFirmware, Filling, Laid, Written
  <1>4. InvSize'
    BY DEF Inv, Fail, InvSize, NoSpaceJustified, FactorySynced, job, Reserve
  <1> QED
    BY <1>2, <1>3, <1>4 DEF Inv

\* A step from one place of the job to the next changes neither the image nor
\* the answer.
LEMMA GoKeeps ==
  ASSUME Inv, NEW place \in Places \ {"done"}, Go(place),
         prog_phase' \in {-1, 0, 1, 2, 3},
         attached' \in BOOLEAN, attach_error' \in BOOLEAN, probed' \in BOOLEAN
  PROVE  ProgramOK' /\ InvSize'
  <1>1. ProgramOK'
    BY DEF Inv, ProgramOK, Go, job
  <1>2. InvSize'
    BY DEF Inv, Go, InvSize, NoSpaceJustified, FactorySynced, job, Reserve
  <1> QED
    BY <1>1, <1>2

\* The erase loop and the attach that follows keep the invariant.
LEMMA EraseInv ==
  ASSUME Inv, EraseSome \/ EraseEnd \/ AttachNew
  PROVE  Inv'
  <1> USE DEF Inv
  <1>1. CASE EraseSome
    <2>1. FlashOK' /\ NoEraseUnderUbi'
      BY <1>1 DEF EraseSome, FlashOK, Used, InterruptedUpdateMarked, InvUbi,
         NoEraseUnderUbi, ram
    <2>2. CASE Go("erase") /\ UNCHANGED prog_phase
      <3>1. ProgramOK' /\ InvSize'
        BY <1>1, <2>2 DEF EraseSome, Go, ProgramOK, InvSize, NoSpaceJustified,
           FactorySynced, ram, job, Reserve
      <3>2. InvUbi' /\ InvLayout' /\ InvFirmware'
        BY <1>1, <2>1, <2>2 DEF EraseSome, Go, InvUbi, InvLayout, InvFirmware,
           Filling, Laid, Written, ram, job
      <3> QED
        BY <2>1, <3>1, <3>2
    <2>3. CASE Fail("io")
      BY <1>1, <2>1, <2>3, FailKeeps DEF EraseSome, InvUbi, ProgramOK, ram
    <2> QED
      BY <1>1, <2>2, <2>3 DEF EraseSome
  <1>2. CASE EraseEnd
    <2>1. FlashOK'
      BY <1>2, SizesAssumption DEF EraseEnd, NoVolumes, FlashOK, Used, Volumes,
         Contents, InterruptedUpdateMarked
    <2>2. ProgramOK' /\ InvSize'
      BY <1>2 DEF EraseEnd, Go, ProgramOK, InvSize, NoSpaceJustified,
         FactorySynced, ram, job, Reserve, Places
    <2>3. InvUbi' /\ InvLayout' /\ InvFirmware'
      BY <1>2 DEF EraseEnd, Go, InvUbi, NoEraseUnderUbi, InvLayout, InvFirmware,
         Filling, Laid, Written, ram, job
    <2> QED
      BY <2>1, <2>2, <2>3
  <1>3. CASE AttachNew
    <2>1. /\ FlashOK' /\ NoEraseUnderUbi'
          /\ attached' \in BOOLEAN /\ attach_error' \in BOOLEAN /\ probed' = probed
          /\ SelectOk(FALSE) => attached'
      BY <1>3, SelectKeeps DEF AttachNew, InvUbi, ProgramOK
    <2>2. CASE SelectOk(FALSE) /\ Go("fit") /\ UNCHANGED prog_phase
      <3>1. \A v \in Volumes : pebs'[v] = 0
        BY <1>3, <2>2, AttachKeeps DEF AttachNew, SelectOk, InvUbi
      <3>2. ProgramOK' /\ InvSize'
        BY <2>1, <2>2 DEF Go, ProgramOK, InvSize, NoSpaceJustified,
           FactorySynced, job, Reserve, Places
      <3>3. InvUbi' /\ InvLayout' /\ InvFirmware'
        BY <1>3, <2>1, <2>2, <3>1 DEF AttachNew, Go, InvUbi, InvLayout,
           InvFirmware, Filling, Laid, Written, job, Volumes
      <3> QED
        BY <2>1, <3>2, <3>3
    <2>3. CASE Fail("io")
      BY <1>3, <2>1, <2>3, FailKeeps DEF AttachNew, InvUbi, ProgramOK
    <2> QED
      BY <1>3, <2>2, <2>3 DEF AttachNew
  <1> QED
    BY <1>1, <1>2, <1>3

\* A volume that fits leaves the flash well formed.
LEMMA NewVolumeKeeps ==
  ASSUME FlashOK, NEW v \in Volumes, NEW n \in Nat, pebs[v] = 0, n <= Free,
         NewVolume(v, n)
  PROVE  FlashOK'
  <1>1. /\ pebs["fit"] \in 0 .. Avail /\ pebs["factory"] \in 0 .. Avail
        /\ pebs["rootfs_data"] \in 0 .. Avail
    BY DEF FlashOK, Volumes
  <1>2. n \in 0 .. Avail
    BY <1>1, SizesAssumption DEF Free, Used
  <1>3. pebs' \in [Volumes -> 0 .. Avail] /\ Used' <= Avail
    BY <1>1, <1>2, SizesAssumption DEF FlashOK, NewVolume, Free, Used, Volumes
  <1>4. data' \in [Volumes -> Contents] /\ InterruptedUpdateMarked'
    BY DEF FlashOK, NewVolume, Contents, InterruptedUpdateMarked
  <1> QED
    BY <1>3, <1>4 DEF FlashOK, NewVolume

\* Creating a volume keeps the invariant, given what its caller knows: the
\* place it goes on to and the PEBs it asks for.
LEMMA CreateInv ==
  ASSUME Inv, CreateFit \/ CreateFactory \/ CreateRootfsData
  PROVE  Inv'
  <1> USE DEF Inv
  <1>1. /\ pebs["fit"] \in 0 .. Avail /\ pebs["factory"] \in 0 .. Avail
        /\ pebs["rootfs_data"] \in 0 .. Avail
        /\ image \in Nat /\ Avail \in Nat /\ FactoryPebs \in Nat /\ Free \in Nat
    BY SizesAssumption DEF FlashOK, ProgramOK, Volumes, Free, Used
  <1>2. ASSUME NEW v \in Volumes, NEW n \in Nat, NEW place \in Places \ {"done"},
               NEW phase \in {-1, 0, 1, 2, 3},
               CreateVolume(v, n, place, phase),
               pc \in Filling, pebs[v] = 0,
               n > Free => image + Reserve > Avail
        PROVE  \/ Inv'
               \/ /\ n <= Free /\ NewVolume(v, n) /\ Go(place)
                  /\ prog_phase' = phase /\ UNCHANGED ram
                  /\ FlashOK' /\ ProgramOK' /\ InvSize'
    <2>1. /\ UNCHANGED ram /\ attached /\ attached' \in BOOLEAN /\ probed
          /\ attach_error' \in BOOLEAN /\ probed' \in BOOLEAN
      BY <1>2 DEF CreateVolume, ram, ProgramOK, InvUbi, Filling
    <2>2. CASE n <= Free /\ NewVolume(v, n) /\ Go(place) /\ prog_phase' = phase
      <3>1. FlashOK'
        BY <1>2, <2>2, NewVolumeKeeps
      <3>2. ProgramOK' /\ InvSize'
        BY <1>2, <2>1, <2>2, GoKeeps
      <3> QED
        BY <2>1, <2>2, <3>1, <3>2
    <2>3. CASE n > Free /\ Fail("nospace") /\ UNCHANGED flash
      <3>1. FlashOK' /\ NoEraseUnderUbi'
        BY <2>1, <2>3, FlashKept DEF flash, ram, InvUbi, NoEraseUnderUbi
      <3> QED
        BY <1>2, <2>1, <2>3, <3>1, FailKeeps DEF ram
    <2>4. CASE n <= Free /\ Fail("io") /\ (NewVolume(v, n) \/ UNCHANGED flash)
      <3>1. FlashOK'
        BY <1>2, <2>4, NewVolumeKeeps, FlashKept
      <3>2. NoEraseUnderUbi'
        BY <2>1, <2>4 DEF flash, ram, NewVolume, InvUbi, NoEraseUnderUbi
      <3> QED
        BY <2>1, <2>4, <3>1, <3>2, FailKeeps DEF ram
    <2> QED
      BY <1>2, <2>2, <2>3, <2>4 DEF CreateVolume
  <1>3. CASE CreateFit
    <2>1. pc = "fit" /\ pebs["fit"] = 0 /\ CreateVolume("fit", image, "factory", prog_phase)
      BY <1>3 DEF CreateFit, CreateVolume, InvLayout
    <2>2. image > Free => image + Reserve > Avail
      BY <1>1, <2>1, SizesAssumption DEF InvLayout, Filling, Free, Used, Reserve
    <2>3. CASE /\ NewVolume("fit", image) /\ Go("factory") /\ UNCHANGED ram
               /\ prog_phase' = prog_phase
               /\ FlashOK' /\ ProgramOK' /\ InvSize'
      <3>1. InvUbi' /\ InvFirmware'
        BY <2>1, <2>3 DEF NewVolume, Go, ram, InvUbi, NoEraseUnderUbi,
           InvFirmware, Filling, Laid, Written
      <3>2. InvLayout'
        BY <2>1, <2>3 DEF NewVolume, Go, job, FlashOK, InvLayout, Filling, Laid,
           Written, Volumes
      <3> QED
        BY <2>3, <3>1, <3>2
    <2> QED
      BY <1>1, <1>2, <2>1, <2>2, <2>3 DEF Volumes, Places, Filling, ProgramOK
  <1>4. CASE CreateFactory /\ FactoryBoard
    <2>1. /\ pc = "factory" /\ pebs["factory"] = 0
          /\ CreateVolume("factory", FactoryPebs, "rootfs_data", prog_phase)
      BY <1>4 DEF CreateFactory, CreateVolume, InvLayout
    <2>2. FactoryPebs > Free => image + Reserve > Avail
      BY <1>1, <1>4, <2>1, SizesAssumption DEF InvLayout, Filling, Free, Used, Reserve
    <2>3. CASE /\ NewVolume("factory", FactoryPebs) /\ Go("rootfs_data")
               /\ UNCHANGED ram /\ prog_phase' = prog_phase
               /\ FlashOK' /\ ProgramOK' /\ InvSize'
      <3>1. InvUbi' /\ InvFirmware'
        BY <2>1, <2>3 DEF NewVolume, Go, ram, InvUbi, NoEraseUnderUbi,
           InvFirmware, Filling, Laid, Written
      <3>2. InvLayout'
        BY <1>4, <2>1, <2>3 DEF NewVolume, Go, job, FlashOK, InvLayout, Filling,
           Laid, Written, Volumes, Reserve
      <3> QED
        BY <2>3, <3>1, <3>2
    <2> QED
      BY <1>1, <1>2, <2>1, <2>2, <2>3 DEF Volumes, Places, Filling, ProgramOK
  <1>5. CASE CreateFactory /\ ~FactoryBoard
    <2>1. /\ pc = "factory" /\ Go("rootfs_data") /\ UNCHANGED <<flash, ram, prog_phase>>
      BY <1>5 DEF CreateFactory
    <2>2. FlashOK'
      BY <2>1, FlashKept
    <2>3. ProgramOK' /\ InvSize'
      BY <2>1, GoKeeps DEF Places, ProgramOK, ram
    <2>4. InvUbi' /\ InvFirmware'
      BY <2>1 DEF Go, ram, flash, InvUbi, NoEraseUnderUbi, InvFirmware, Filling,
         Laid, Written
    <2>5. InvLayout'
      BY <1>5, <2>1 DEF Go, flash, job, InvLayout, Filling, Laid, Written, Reserve
    <2> QED
      BY <2>2, <2>3, <2>4, <2>5
  <1>6. CASE CreateRootfsData
    <2>1. /\ pc = "rootfs_data" /\ pebs["rootfs_data"] = 0
          /\ CreateVolume("rootfs_data", Free, "start", 2)
      BY <1>6 DEF CreateRootfsData, CreateVolume, InvLayout, Filling
    <2>2. Free > Free => image + Reserve > Avail
      BY <1>1
    <2>3. CASE /\ NewVolume("rootfs_data", Free) /\ Go("start")
               /\ UNCHANGED ram /\ prog_phase' = 2
               /\ FlashOK' /\ ProgramOK' /\ InvSize'
      <3>1. InvUbi' /\ InvFirmware'
        BY <2>1, <2>3 DEF NewVolume, Go, ram, InvUbi, NoEraseUnderUbi,
           InvFirmware, Filling, Laid, Written
      <3>2. InvLayout'
        BY <2>1, <2>3 DEF NewVolume, Go, job, FlashOK, InvLayout, Filling,
           Laid, Written, Volumes
      <3> QED
        BY <2>3, <3>1, <3>2
    <2> QED
      BY <1>1, <1>2, <2>1, <2>2, <2>3 DEF Volumes, Places, Filling
  <1> QED
    BY <1>3, <1>4, <1>5, <1>6

-----------------------------------------------------------------------------
(* The update of fit and the factory sync.                                 *)

\* Starting and ending an update leave the flash well formed.
LEMMA UpdateKeeps ==
  ASSUME FlashOK, NEW v \in Volumes, UNCHANGED <<media, there, pebs>>,
         \/ UpdateStarts(v)
         \/ \E lied : UpdateEnds(v, lied)
         \/ UNCHANGED <<marker, data>>
  PROVE  FlashOK'
  <1>1. CASE UpdateStarts(v)
    BY <1>1 DEF FlashOK, UpdateStarts, Used, Contents, InterruptedUpdateMarked
  <1>2. CASE \E lied : UpdateEnds(v, lied)
    BY <1>2 DEF FlashOK, UpdateEnds, Used, Contents, InterruptedUpdateMarked
  <1>3. CASE UNCHANGED <<marker, data>>
    BY <1>3 DEF FlashOK, Used, InterruptedUpdateMarked
  <1> QED
    BY <1>1, <1>2, <1>3

\* recovery_write_ubi_target() keeps the invariant.
LEMMA UpdateInv ==
  ASSUME Inv, StartUpdate \/ WriteChunk \/ WriteEnd \/ CheckVolume
  PROVE  Inv'
  <1> USE DEF Inv
  <1>1. /\ UNCHANGED <<media, there, pebs, ram>> /\ pc \in Laid
        /\ attached /\ attached' = attached /\ probed /\ probed' = probed
        /\ NoEraseUnderUbi' /\ attached' \in BOOLEAN /\ attach_error' \in BOOLEAN
        /\ probed' \in BOOLEAN
    BY DEF StartUpdate, WriteChunk, WriteEnd, CheckVolume, Laid, Written, InvUbi,
       NoEraseUnderUbi, ProgramOK, ram, flash
  <1>2. FlashOK'
    BY <1>1, UpdateKeeps
       DEF StartUpdate, WriteChunk, WriteEnd, CheckVolume, Volumes, flash
  <1>3. ASSUME Fail("io") PROVE Inv'
    BY <1>1, <1>2, <1>3, FailKeeps
  <1>4. ASSUME NEW place \in Laid \ {"done"}, Go(place), prog_phase' \in {prog_phase, 3},
               prog_phase' = 3 => place = "sync" \/ prog_phase = 3,
               prog_phase = 3 => place \in {"sync", "syncing"},
               place \in Written =>
                 "fit" \notin marker' /\ data'["fit"] = (IF junk THEN "bad" ELSE "full")
        PROVE  Inv'
    <2>1. ProgramOK' /\ InvSize'
      BY <1>1, <1>4, GoKeeps DEF Laid, Written, Places, ProgramOK
    <2>2. InvUbi'
      BY <1>1, <1>4 DEF Go, InvUbi, Filling, Laid, Written
    <2>3. InvLayout'
      BY <1>1, <1>4 DEF Go, job, InvLayout, Filling, Laid, Written
    <2>4. InvFirmware'
      BY <1>1, <1>4 DEF Go, job, InvFirmware, Laid, Written
    <2> QED
      BY <1>2, <2>1, <2>2, <2>3, <2>4
  <1>5. CASE StartUpdate
    <2>1. CASE Go("write") /\ UNCHANGED prog_phase
      BY <1>4, <1>5, <2>1 DEF StartUpdate, InvFirmware, Laid, Written
    <2> QED
      BY <1>3, <1>5, <2>1 DEF StartUpdate
  <1>6. CASE WriteChunk
    <2>1. CASE /\ Stored /\ written' = written + 1 /\ written < image
               /\ UNCHANGED <<pc, prog_phase, ret, image, roomy, marker, data>>
      <3>1. junk' \in BOOLEAN /\ faulted' \in BOOLEAN
        BY <2>1, SwitchAssumption, Zenon DEF Stored, ProgramOK
      <3>2. ProgramOK'
        BY <1>1, <2>1, <3>1, SizesAssumption DEF ProgramOK
      <3>3. InvUbi' /\ InvLayout' /\ InvFirmware'
        BY <1>1, <1>6, <2>1 DEF WriteChunk, InvUbi, InvLayout, InvFirmware,
           Filling, Laid, Written
      <3>4. InvSize'
        BY <1>6, <2>1
           DEF WriteChunk, InvSize, NoSpaceJustified, FactorySynced, Reserve
      <3> QED
        BY <1>2, <3>2, <3>3, <3>4
    <2> QED
      BY <1>3, <1>6, <2>1 DEF WriteChunk
  <1>7. CASE WriteEnd
    <2>1. CASE Go("check") /\ UNCHANGED prog_phase /\ UpdateEnds("fit", junk)
      <3>1. "fit" \notin marker' /\ data'["fit"] = (IF junk THEN "bad" ELSE "full")
        BY <2>1 DEF UpdateEnds, FlashOK, Volumes
      <3>2. prog_phase # 3
        BY <1>7 DEF WriteEnd, InvFirmware
      <3> QED
        BY <1>4, <2>1, <3>1, <3>2 DEF Laid, Written
    <2> QED
      BY <1>3, <1>7, <2>1 DEF WriteEnd
  <1>8. CASE CheckVolume
    <2>1. CASE Go("sync") /\ prog_phase' = 3
      BY <1>4, <1>8, <2>1
         DEF CheckVolume, InvFirmware, Laid, Written, flash
    <2> QED
      BY <1>3, <1>8, <2>1 DEF CheckVolume
  <1> QED
    BY <1>5, <1>6, <1>7, <1>8

\* The factory sync keeps the invariant: on a board with a factory volume it
\* needs no PEBs, and what it does not touch is the firmware.
LEMMA SyncInv ==
  ASSUME Inv, SyncFactory \/ SyncEnd
  PROVE  Inv'
  <1> USE DEF Inv
  <1>1. /\ pebs["fit"] \in 0 .. Avail /\ pebs["factory"] \in 0 .. Avail
        /\ pebs["rootfs_data"] \in 0 .. Avail
    BY DEF FlashOK, Volumes
  <1>2. /\ UNCHANGED <<media, ram>> /\ pc \in {"sync", "syncing"}
        /\ attached /\ attached' = attached /\ probed /\ probed' = probed
        /\ NoEraseUnderUbi' /\ attached' \in BOOLEAN /\ attach_error' \in BOOLEAN
        /\ probed' \in BOOLEAN
    BY DEF SyncFactory, SyncEnd, Laid, Written, InvUbi, NoEraseUnderUbi,
       ProgramOK, ram, flash
  \* Every step keeps fit as it is and, on a factory board, the layout.
  <1>3. ASSUME NEW place \in {"syncing", "done"}, pc' = place,
               FlashOK', UNCHANGED <<job, junk, prog_phase>>,
               "fit" \in there', pebs'["fit"] = pebs["fit"],
               FactoryBoard => "factory" \in there' /\ pebs'["factory"] = FactoryPebs,
               "fit" \notin marker', data'["fit"] = data["fit"],
               ret' \in {ret, "ok"}, faulted' \in BOOLEAN,
               FactoryBoard => FactorySynced'
        PROVE  Inv'
    <2>1. ProgramOK'
      BY <1>2, <1>3 DEF ProgramOK, Places, job
    <2>2. InvUbi'
      BY <1>2, <1>3 DEF InvUbi, Filling, Laid, Written
    <2>3. InvLayout'
      BY <1>2, <1>3 DEF InvLayout, Filling, Laid, Written, job
    <2>4. InvFirmware'
      BY <1>2, <1>3 DEF InvFirmware, Written
    <2>5. InvSize'
      BY <1>3 DEF InvSize, NoSpaceJustified, job, Reserve
    <2> QED
      BY <1>3, <2>1, <2>2, <2>3, <2>4, <2>5
  <1>4. /\ "fit" \in there /\ "fit" \notin marker
        /\ FactoryBoard => "factory" \in there /\ pebs["factory"] = FactoryPebs
    BY <1>2 DEF InvLayout, InvFirmware, Laid, Written
  <1>5. CASE SyncFactory
    <2>1. Missing \in Nat /\ (FactoryBoard => Missing = 0) /\ Free \in Nat
      BY <1>1, <1>4, SizesAssumption DEF Missing, Free, Used, FlashOK
    <2>2. CASE /\ Missing <= Free
               /\ there' = there \cup {"factory"}
               /\ pebs' = [pebs EXCEPT !["factory"] = @ + Missing]
               /\ UpdateStarts("factory")
               /\ Go("syncing") /\ UNCHANGED <<media, prog_phase>>
      <3>1. /\ pebs'["fit"] = pebs["fit"] /\ pebs'["factory"] = pebs["factory"] + Missing
            /\ pebs'["rootfs_data"] = pebs["rootfs_data"]
        BY <2>2 DEF FlashOK, Volumes
      <3>2. pebs["factory"] + Missing \in 0 .. Avail /\ Used' <= Avail
        BY <1>1, <2>1, <2>2, <3>1, SizesAssumption DEF Free, Used, FlashOK
      <3>3. pebs' \in [Volumes -> 0 .. Avail]
        BY <2>2, <3>2 DEF FlashOK
      <3>4. FlashOK'
        BY <2>2, <3>2, <3>3
           DEF FlashOK, UpdateStarts, Contents, InterruptedUpdateMarked, Volumes
      <3>5. "fit" \in there' /\ "fit" \notin marker' /\ data'["fit"] = data["fit"]
        BY <1>4, <2>2 DEF UpdateStarts, FlashOK, Volumes
      <3>6. FactoryBoard => "factory" \in there' /\ pebs'["factory"] = FactoryPebs
        BY <1>1, <1>4, <2>1, <2>2, <3>1
      <3> QED
        BY <1>3, <2>2, <3>1, <3>4, <3>5, <3>6 DEF Go, FactorySynced, ProgramOK
    <2>3. CASE Missing > Free /\ Finish(FALSE) /\ UNCHANGED flash
      <3>1. ~FactoryBoard
        BY <2>1, <2>3
      <3>2. faulted' \in BOOLEAN
        BY <2>3, Zenon DEF Finish
      <3> QED
        BY <1>3, <1>4, <2>3, <3>1, <3>2, FlashKept DEF Finish, flash
    <2>4. CASE Finish(TRUE) /\ UNCHANGED flash
      <3>1. faulted' = TRUE
        BY <2>4, Zenon DEF Finish
      <3> QED
        BY <1>3, <1>4, <2>4, <3>1, FlashKept DEF Finish, flash, FactorySynced
    <2> QED
      BY <1>5, <2>2, <2>3, <2>4 DEF SyncFactory
  <1>6. CASE SyncEnd
    <2>1. UNCHANGED <<media, there, pebs>>
      BY <1>6 DEF SyncEnd
    <2>2. CASE \E lied \in {FALSE, Faults} : UpdateEnds("factory", lied) /\ Finish(lied)
      <3>1. PICK lied \in {FALSE, Faults} : UpdateEnds("factory", lied) /\ Finish(lied)
        BY <2>2
      <3>2. FlashOK'
        BY <2>1, <3>1, UpdateKeeps DEF Volumes
      <3>3. "fit" \notin marker' /\ data'["fit"] = data["fit"]
        BY <1>4, <3>1 DEF UpdateEnds, FlashOK, Volumes
      <3>4. faulted' \in BOOLEAN /\ (lied => faulted')
        BY <3>1, Zenon DEF Finish
      <3>5. ~lied => data'["factory"] = "full"
        BY <3>1 DEF UpdateEnds, FlashOK, Volumes
      <3>6. FactoryBoard => FactorySynced'
        BY <1>4, <2>1, <3>4, <3>5 DEF FactorySynced
      <3> QED
        BY <1>3, <1>4, <2>1, <3>1, <3>2, <3>3, <3>4, <3>6 DEF Finish
    <2>3. CASE Finish(TRUE) /\ UNCHANGED <<marker, data>>
      <3>1. faulted' = TRUE
        BY <2>3, Zenon DEF Finish
      <3>2. FlashOK'
        BY <2>1, <2>3, UpdateKeeps DEF Volumes
      <3> QED
        BY <1>3, <1>4, <2>1, <2>3, <3>1, <3>2 DEF Finish, FactorySynced
    <2> QED
      BY <1>6, <2>2, <2>3 DEF SyncEnd
  <1> QED
    BY <1>5, <1>6

-----------------------------------------------------------------------------
(* The theorems.                                                           *)

\* Every step keeps the invariant.
LEMMA NextInv == Inv /\ [Next]_vars => Inv'
  <1> SUFFICES ASSUME Inv, [Next]_vars PROVE Inv'
    OBVIOUS
  <1>1. CASE UNCHANGED vars
    BY <1>1 DEF Inv, FlashOK, ProgramOK, InvUbi, InvLayout, InvFirmware, InvSize,
       Used, InterruptedUpdateMarked, NoEraseUnderUbi, NoSpaceJustified,
       FactorySynced, vars, flash, ram, job
  <1>2. CASE Next
    BY <1>2, BootInv, ResetInv, AboutInv, IdleInv, PostInv, StartJobInv, EraseInv,
       CreateInv, UpdateInv, SyncInv DEF Next, Reboot, PowerCut, FlashImage
  <1> QED
    BY <1>1, <1>2

\* The invariant holds in every reachable state.
LEMMA Invariance == Spec => []Inv
  BY InitInv, NextInv, PTL DEF Spec

\* PEB counts stay within what UBI has, whatever jobs, errors and power cuts.
THEOREM TypeCorrect == Spec => []TypeOK
  <1>1. Inv => TypeOK
    BY DEF Inv, FlashOK, ProgramOK, TypeOK
  <1> QED
    BY <1>1, Invariance, PTL

\* UBI is never attached to a partition that recovery is erasing, also when
\* /about is served in the middle of the erase.
THEOREM NeverErasedUnderUbi == Spec => []NoEraseUnderUbi
  <1>1. Inv => NoEraseUnderUbi
    BY DEF Inv, InvUbi
  <1> QED
    BY <1>1, Invariance, PTL

\* A firmware job that reports success has left a complete fit volume of the
\* image's size with its update marker cleared.
THEOREM SuccessFirmware == Spec => []SuccessHasFirmware
  <1>1. Inv => SuccessHasFirmware
    BY DEF Inv, InvUbi, NoEraseUnderUbi, InvLayout, InvFirmware,
       SuccessHasFirmware, Filling, Laid, Written
  <1> QED
    BY <1>1, Invariance, PTL

\* An update that was begun and not ended stays behind its update marker.
THEOREM InterruptedMarked == Spec => []InterruptedUpdateMarked
  <1>1. Inv => InterruptedUpdateMarked
    BY DEF Inv, FlashOK
  <1> QED
    BY <1>1, Invariance, PTL

\* A job accepted against the limit of a UBI with a factory volume does not
\* run out of PEBs after the erase.
THEOREM AcceptedJobFits == Spec => []AcceptedFits
  <1>1. Inv => AcceptedFits
    BY SizesAssumption DEF Inv, ProgramOK, InvSize, NoSpaceJustified, Reserve,
       AcceptedFits
  <1> QED
    BY <1>1, Invariance, PTL

\* Only an image that does not fit next to the factory volume is refused for
\* lack of space, whatever was on the partition before.
THEOREM NoSpaceOnlyIfTooLarge == Spec => []NoSpaceJustified
  <1>1. Inv => NoSpaceJustified
    BY DEF Inv, InvSize
  <1> QED
    BY <1>1, Invariance, PTL

\* On the boards the recovery list names, a job without faults leaves the
\* factory data in the factory volume.
THEOREM FactoryDataSynced == Spec => [](FactoryBoard => FactorySynced)
  <1>1. Inv => (FactoryBoard => FactorySynced)
    BY DEF Inv, InvSize
  <1> QED
    BY <1>1, Invariance, PTL
=============================================================================
