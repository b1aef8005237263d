-------------------------- MODULE UbiFirmwareProofs --------------------------
(***************************************************************************)
(* TLAPS proof that UbiRebuild implements FirmwareUpdate, for partitions,  *)
(* volumes and images of any size, any failure and any power cut.          *)
(*                                                                         *)
(* The invariant of UbiRebuildProofs knows fit; what a boot can load also  *)
(* depends on the volume table as a whole, which UBI does not attach with  *)
(* an empty volume in it.  InvTable adds what is needed of the others.     *)
(***************************************************************************)
EXTENDS UbiRebuildProofs

-----------------------------------------------------------------------------
(* The volume table                                                        *)

Busy == {"erase", "attach"} \cup Filling \cup {"start", "write", "check"}

\* A blank partition has no volumes; bootcmd runs on a table that was just
\* attached; what is uploaded is not empty; a board without a factory volume
\* gets none from the rebuild; and rootfs_data takes all that is left.
InvTable ==
  /\ media = "blank" => there = {}
  /\ pc = "autoboot" /\ attached => VtblValid
  /\ pc \in {"job"} \cup Busy => image # 0
  /\ ~FactoryBoard /\ pc \in Filling \cup {"start", "write", "check", "sync"} =>
       "factory" \notin there
  /\ pc \in {"start", "write", "check"} =>
       pebs["rootfs_data"] = Avail - Reserve - image

IInv == Inv /\ InvTable

\* UBI attaches only with a table that passes vtbl_check(), and it creates no
\* volume.
LEMMA AttachTable ==
  ASSUME AttachOk, media = "blank" => there = {}
  PROVE  /\ VtblValid' /\ media' = "ubi" /\ there' \subseteq there
         /\ media = "blank" => there' = {}
  BY DEF AttachOk, NoVolumes, VtblValid

\* At the start there is no job.
LEMMA InitTable == Init => InvTable
  BY DEF Init, InvTable, Busy, Filling

\* Boots, resets and what happens in the main loop keep InvTable.
LEMMA OutsideTable ==
  ASSUME IInv,
         \/ Boot \/ Reboot \/ PowerCut \/ Post \/ UploadLost \/ About \/ Reenter
  PROVE  InvTable'
  <1>1. CASE LateInit
    <2>1. CASE probed
      BY <1>1, <2>1 DEF IInv, Inv, InvUbi, InvTable, LateInit, DetectUbi, flash,
         ram, Busy, Filling
    <2>2. CASE ~probed /\ AttachOk
      BY <1>1, <2>2, AttachTable DEF IInv, InvTable, LateInit, Busy, Filling
    <2>3. CASE ~probed /\ AttachFails
      BY <1>1, <2>3 DEF IInv, InvTable, LateInit, AttachFails, flash, Busy,
         Filling
    <2> QED
      BY <1>1, <2>1, <2>2, <2>3 DEF IInv, Inv, InvUbi, LateInit, DetectUbi
  <1>2. ASSUME PartOk PROVE media' = "blank" => there' = {}
    BY <1>2, AttachTable DEF IInv, InvTable, PartOk, flash
  <1>3. CASE Triggered \/ BootUbi \/ BootFails
    BY <1>2, <1>3 DEF IInv, InvTable, Triggered, BootUbi, BootFails,
       EnterRecovery, AttachFails, flash, Busy, Filling
  <1>4. CASE Reboot \/ PowerCut
    BY <1>4 DEF IInv, InvTable, Reboot, PowerCut, Reset, flash, Busy, Filling
  <1>5. CASE Post
    <2>1. ASSUME SelectOk(FALSE) \/ SelectFails(FALSE)
          PROVE  media' = "blank" => there' = {}
      BY <2>1, AttachTable DEF IInv, InvTable, SelectOk, SelectFails,
         AttachFails, flash
    <2>2. PICK n \in 1 .. RawLimit + 1 :
            /\ SelectOk(FALSE) \/ SelectFails(FALSE)
            /\ Accepted(n) \/ UNCHANGED <<pc, job>>
      BY <1>5 DEF Post
    <2>3. n # 0
      BY SizesAssumption
    <2> QED
      BY <1>5, <2>1, <2>2, <2>3 DEF Post, Accepted, InvTable, Busy, Filling
  <1>6. CASE UploadLost \/ Reenter
    BY <1>6 DEF IInv, InvTable, UploadLost, Reenter, EnterRecovery, flash, Busy,
       Filling
  <1>7. CASE About
    BY <1>7 DEF IInv, Inv, InvUbi, InvTable, About, DetectUbi, flash, ram, job,
       VtblValid
  <1> QED
    BY <1>1, <1>3, <1>4, <1>5, <1>6, <1>7 DEF Boot

\* UBI is there from the rebuilt partition's first volume on.
LEMMA FillingUbi ==
  ASSUME Inv, pc \in Filling \cup Laid
  PROVE  media = "ubi"
  BY DEF Inv, InvUbi, NoEraseUnderUbi

\* An error exit leaves nothing to keep, if no blank partition is left with
\* volumes.
LEMMA FailTable ==
  ASSUME NEW r, Fail(r), media' = "blank" => there' = {}
  PROVE  InvTable'
  BY DEF Fail, InvTable, Busy, Filling

\* Creating a volume keeps InvTable.
LEMMA CreateTable ==
  ASSUME IInv, CreateFit \/ CreateFactory \/ CreateRootfsData
  PROVE  InvTable'
  <1>1. media = "ubi"
    BY FillingUbi DEF IInv, CreateFit, CreateFactory, CreateRootfsData,
       CreateVolume, Filling
  <1>2. ASSUME NEW v \in Volumes, NEW n, NEW place, NEW phase,
               CreateVolume(v, n, place, phase)
        PROVE  \/ InvTable'
               \/ NewVolume(v, n) /\ Go(place) /\ media' = "ubi"
    BY <1>1, <1>2, FailTable DEF CreateVolume, NewVolume, flash
  <1>3. image # 0
    BY DEF IInv, InvTable, Busy, Filling, CreateFit, CreateFactory,
       CreateRootfsData, CreateVolume
  <1>4. CASE CreateFit
    <2>1. pc = "fit"
      BY <1>4 DEF CreateFit, CreateVolume
    <2>2. CASE NewVolume("fit", image) /\ Go("factory") /\ media' = "ubi"
      BY <1>3, <2>1, <2>2 DEF NewVolume, Go, job, IInv, InvTable, Busy, Filling
    <2> QED
      BY <1>2, <1>4, <2>2 DEF CreateFit, Volumes
  <1>5. CASE CreateFactory
    <2>1. CASE FactoryBoard
      BY <1>2, <1>3, <1>5, <2>1 DEF CreateFactory, CreateVolume, NewVolume, Go,
         job, InvTable, Busy, Filling, Volumes
    <2>2. CASE ~FactoryBoard
      BY <1>1, <1>3, <1>5, <2>2 DEF CreateFactory, Go, job, flash, IInv,
         InvTable, Busy, Filling
    <2> QED
      BY <2>1, <2>2
  <1>6. CASE CreateRootfsData
    <2>1. /\ pc = "rootfs_data" /\ pebs["rootfs_data"] = 0
          /\ pebs["factory"] = Reserve /\ pebs["fit"] = image
      BY <1>6 DEF CreateRootfsData, CreateVolume, IInv, Inv, InvLayout, Filling
    <2>2. Free = Avail - Reserve - image
      BY <2>1, SizesAssumption DEF Free, Used, Reserve, IInv, Inv, ProgramOK
    <2>3. CASE NewVolume("rootfs_data", Free) /\ Go("start") /\ media' = "ubi"
      <3>1. pebs'["rootfs_data"] = Avail - Reserve - image
        BY <2>2, <2>3 DEF NewVolume, IInv, Inv, FlashOK, Volumes
      <3> QED
        BY <1>3, <2>1, <2>3, <3>1 DEF NewVolume, Go, job, IInv, InvTable, Busy,
           Filling, Reserve
    <2> QED
      BY <1>2, <1>6, <2>3 DEF CreateRootfsData, Volumes
  <1> QED
    BY <1>4, <1>5, <1>6

\* The other steps of flash_image() keep InvTable.
LEMMA JobTable == ASSUME IInv, FlashImage PROVE InvTable'
  <1>1. CASE StartJob
    BY <1>1 DEF StartJob, flash, job, IInv, InvTable, Busy, Filling
  <1>2. CASE EraseSome \/ EraseEnd
    BY <1>2 DEF EraseSome, EraseEnd, NoVolumes, Fail, Go, job, IInv, InvTable,
       Busy, Filling
  <1>3. CASE AttachNew
    <2>1. /\ ~attached /\ media = "blank" /\ there = {} /\ image # 0
          /\ pc = "attach"
      BY <1>3 DEF AttachNew, IInv, Inv, InvUbi, InvTable, Busy
    <2>2. CASE SelectOk(FALSE) /\ Go("fit")
      BY <2>1, <2>2, AttachTable DEF SelectOk, Go, job, InvTable, Busy, Filling
    <2>3. CASE SelectFails(FALSE) /\ Fail("io")
      BY <2>1, <2>3, FailTable DEF SelectFails, AttachFails, flash
    <2> QED
      BY <1>3, <2>2, <2>3 DEF AttachNew
  <1>4. CASE CreateFit \/ CreateFactory \/ CreateRootfsData
    BY <1>4, CreateTable
  <1>5. CASE StartUpdate \/ WriteChunk \/ WriteEnd \/ CheckVolume
    <2>1. media' = "ubi" /\ there' = there /\ pebs' = pebs
      BY <1>5, FillingUbi DEF IInv, StartUpdate, WriteChunk, WriteEnd,
         CheckVolume, flash, Laid, Written
    <2>2. CASE \E r : Fail(r)
      BY <2>1, <2>2, FailTable
    <2>3. CASE pc' \in {"write", "check", "sync"} /\ image' = image
      BY <1>5, <2>1, <2>3 DEF IInv, InvTable, Busy, Filling, StartUpdate,
         WriteChunk, WriteEnd, CheckVolume, Reserve
    <2> QED
      BY <1>5, <2>2, <2>3 DEF StartUpdate, WriteChunk, WriteEnd, CheckVolume,
         Go, job
  <1>6. CASE SyncFactory \/ SyncEnd
    <2>1. media' = "ubi"
      BY <1>6, FillingUbi DEF IInv, SyncFactory, SyncEnd, flash, Laid, Written
    <2>2. pc' \in {"syncing", "done"}
      BY <1>6 DEF SyncFactory, SyncEnd, Go, Finish
    <2> QED
      BY <2>1, <2>2 DEF InvTable, Busy, Filling
  <1> QED
    BY <1>1, <1>2, <1>3, <1>4, <1>5, <1>6 DEF FlashImage

\* So both invariants hold throughout.
LEMMA TableInvariance == Spec => []IInv
  <1>1. Init => IInv
    BY InitInv, InitTable DEF IInv
  <1>2. IInv /\ [Next]_vars => IInv'
    <2>1. ASSUME IInv, UNCHANGED vars PROVE InvTable'
      BY <2>1 DEF vars, flash, ram, job, IInv, InvTable, VtblValid, Reserve
    <2> QED
      BY <2>1, NextInv, OutsideTable, JobTable DEF IInv, Next
  <1> QED
    BY <1>1, <1>2, PTL DEF Spec

-----------------------------------------------------------------------------
(* What a boot may load                                                    *)

\* A flash that is left alone keeps its firmware.
LEMMA LoadsKept ==
  ASSUME UNCHANGED flash
  PROVE  Loads' = Loads
  BY DEF flash, Loads, FitWhole, VtblValid

\* Attaching only settles what can be loaded.
LEMMA AttachLooks ==
  ASSUME IInv, AttachOk
  PROVE  Loads' \subseteq Loads /\ Loads' # {}
  <1>1. media' = "ubi" /\ Loads' # {}
    BY DEF AttachOk, Loads
  <1>2. CASE media = "blank" /\ NoVolumes
    BY <1>1, <1>2 DEF IInv, InvTable, NoVolumes, Loads, FitWhole
  <1>3. CASE media = "ubi" /\ UNCHANGED <<there, pebs, marker, data>>
    BY <1>1, <1>3 DEF Loads, FitWhole, VtblValid
  <1>4. CASE /\ media = "mixed" /\ UNCHANGED <<there, pebs, marker>>
             /\ \E lost \in SUBSET there :
                  data' = [v \in Volumes |->
                             IF v \in lost THEN "lost" ELSE data[v]]
    <2>1. FitWhole' => FitWhole /\ pebs'["fit"] = pebs["fit"]
      BY <1>4 DEF FitWhole, VtblValid, Volumes
    <2> QED
      BY <1>1, <1>4, <2>1 DEF Loads
  <1> QED
    BY <1>2, <1>3, <1>4 DEF AttachOk

\* So do recovery_select_ubi() and the probe of board_late_init().
LEMMA SelectLooks ==
  ASSUME IInv,
         \/ SelectOk(FALSE) \/ SelectFails(FALSE)
         \/ PartOk \/ AttachFails \/ DetectUbi
  PROVE  Loads' \subseteq Loads /\ Loads' # {}
  <1>1. Loads # {}
    BY DEF Loads
  <1>2. AttachOk \/ UNCHANGED flash
    BY DEF SelectOk, SelectFails, PartOk, AttachFails, DetectUbi, flash
  <1> QED
    BY <1>1, <1>2, LoadsKept, AttachLooks

\* The phases of the abstract update.
LEMMA Phases ==
  /\ pc \in {"reset", "autoboot", "idle"} => Phase = "idle"
  /\ pc = "job" => Phase = "accepted"
  /\ pc \in Busy => Phase = "busy"
  /\ pc \in {"sync", "syncing", "done"} => Phase = "done"
  /\ pc = "linux" => Phase = "running"
  BY DEF Phase, Busy, Filling

-----------------------------------------------------------------------------
(* The steps                                                               *)

\* Boots, resets and the main loop.
LEMMA OutsideImplements ==
  ASSUME IInv,
         \/ Boot \/ Reboot \/ PowerCut \/ Post \/ UploadLost \/ About \/ Reenter
  PROVE  Firmware!Next \/ UNCHANGED Firmware!fvars
  <1>1. CASE LateInit \/ Triggered \/ BootFails
    <2>1. Loads' \subseteq Loads /\ Loads' # {}
      <3>1. Loads # {}
        BY DEF Loads
      <3> QED
        BY <1>1, <3>1, SelectLooks, LoadsKept DEF LateInit, Triggered, BootFails
    <2>2. Phase = "idle" /\ Phase' = "idle" /\ UNCHANGED <<image, junk>>
      BY <1>1 DEF LateInit, Triggered, BootFails, EnterRecovery, job, Phase
    <2> QED
      BY <2>1, <2>2 DEF Firmware!Next, Firmware!Settle, Firmware!Look
  <1>2. CASE BootUbi
    <2>1. Loads' \subseteq Loads
      BY <1>2, SelectLooks DEF BootUbi
    <2>2. VtblValid' /\ media' = "ubi"
      BY <1>2, AttachTable DEF BootUbi, PartOk, IInv, Inv, InvUbi,
         NoEraseUnderUbi, InvTable, flash, VtblValid
    <2>3. FitWhole' /\ pebs'["fit"] # 0
      BY <1>2, <2>2 DEF BootUbi, FitReadable, FitWhole, VtblValid
    <2>4. Loads' = {pebs'["fit"]}
      BY <2>2, <2>3 DEF Loads
    <2>5. Phase = "idle" /\ Phase' = "running" /\ UNCHANGED <<image, junk>>
      BY <1>2 DEF BootUbi, job, Phase
    <2> QED
      BY <2>1, <2>3, <2>4, <2>5 DEF Firmware!Next, Firmware!Boot
  <1>3. CASE Reboot \/ PowerCut
    <2>1. Phase' = "idle" /\ UNCHANGED <<image, junk>> /\ Loads' = Loads
      BY <1>3, LoadsKept DEF Reboot, PowerCut, Reset, job, Phase
    <2> QED
      BY <2>1 DEF Firmware!Next, Firmware!Reset, Firmware!Keep
  <1>4. CASE Post
    <2>1. PICK n \in 1 .. RawLimit + 1 :
            \/ SelectOk(FALSE) /\ n <= RebuildLimit /\ Accepted(n)
            \/ SelectFails(FALSE) /\ n <= RawLimit /\ Accepted(n)
            \/ /\ SelectOk(FALSE) \/ SelectFails(FALSE)
               /\ UNCHANGED <<pc, job, junk>>
      BY <1>4 DEF Post
    <2>2. Loads' \subseteq Loads /\ Loads' # {}
      BY <2>1, SelectLooks
    <2>3. Phase = "idle" /\ pc = "idle"
      BY <1>4 DEF Post, Phase
    <2>4. CASE UNCHANGED <<pc, job, junk>>
      BY <2>2, <2>3, <2>4 DEF job, Phase, Firmware!Next, Firmware!Settle,
         Firmware!Look
    <2>5. CASE Accepted(n) /\ n <= RawLimit
      <3>1. Phase' = "accepted" /\ image' \in 1 .. RawLimit /\ junk' = FALSE
        BY <2>5, SizesAssumption DEF Accepted, Phase
      <3> QED
        BY <2>2, <2>3, <3>1 DEF Firmware!Next, Firmware!Accept, Firmware!Look
    <2>6. ASSUME SelectOk(FALSE), n <= RebuildLimit PROVE n <= RawLimit
      <3>1. FlashOK'
        BY <2>6, SelectKeeps DEF IInv, Inv, InvUbi, ProgramOK
      <3>2. pebs'["factory"] \in 0 .. Avail
        BY <3>1 DEF FlashOK, Volumes
      <3> QED
        BY <2>6, <3>2, SizesAssumption DEF RebuildLimit
    <2> QED
      BY <2>1, <2>4, <2>5, <2>6
  <1>5. CASE UploadLost \/ Reenter
    <2>1. UNCHANGED <<image, junk>> /\ Loads' = Loads /\ Phase' = "idle"
      BY <1>5, LoadsKept DEF UploadLost, Reenter, EnterRecovery, job, Phase
    <2>2. Phase \in {"idle", "accepted"}
      BY <1>5 DEF UploadLost, Reenter, Phase
    <2> QED
      BY <2>1, <2>2 DEF Firmware!Next, Firmware!Drop, Firmware!Keep,
         Firmware!fvars
  <1>6. CASE About
    <2>1. UNCHANGED <<flash, pc, image, junk>>
      BY <1>6 DEF IInv, Inv, InvUbi, About, DetectUbi, job
    <2>2. Loads' = Loads /\ Phase' = Phase
      BY <2>1, LoadsKept DEF Phase
    <2> QED
      BY <2>1, <2>2 DEF Firmware!fvars
  <1> QED
    BY <1>1, <1>2, <1>3, <1>4, <1>5, <1>6 DEF Boot

\* From its start to its end, flash_image() does what an update may do.
LEMMA BusyImplements ==
  ASSUME IInv, FlashImage, pc \in Busy, pc' # "sync"
  PROVE  Firmware!Work \/ Firmware!Abort
  <1>1. pc' \in Busy \cup {"idle"} /\ image' = image /\ junk' \in {junk, TRUE}
    <2>1. ASSUME NEW v, NEW n, NEW place \in Busy, NEW phase,
                 CreateVolume(v, n, place, phase)
          PROVE  pc' \in Busy \cup {"idle"} /\ image' = image /\ junk' = junk
      BY <2>1 DEF CreateVolume, Go, Fail, job
    <2>2. CASE CreateFit \/ CreateFactory \/ CreateRootfsData
      BY <2>1, <2>2 DEF CreateFit, CreateFactory, CreateRootfsData, Busy,
         Filling, Go, job
    <2>3. CASE EraseSome \/ EraseEnd \/ AttachNew \/ StartUpdate \/ WriteEnd
               \/ CheckVolume
      BY <2>3 DEF EraseSome, EraseEnd, AttachNew, StartUpdate, WriteEnd,
         CheckVolume, Go, Fail, job, Busy, Filling
    <2>4. CASE WriteChunk
      <3>1. CASE Stored /\ UNCHANGED <<pc, image>>
        <4>1. junk' \in {junk, TRUE}
          BY <3>1, SwitchAssumption DEF Stored, IInv, Inv, ProgramOK
        <4> QED
          BY <3>1, <4>1
      <3> QED
        BY <2>4, <3>1 DEF WriteChunk, Fail, job, Busy
    <2> QED
      BY <2>2, <2>3, <2>4 DEF FlashImage, StartJob, SyncFactory, SyncEnd, Busy,
         Filling
  <1>2. Phase = "busy" /\ Phase' \in {"busy", "idle"}
    BY <1>1 DEF Phase, Busy, Filling
  <1>3. Loads' # {}
    BY DEF Loads
  <1>4. Loads' \subseteq Loads \cup {0, image}
    <2>1. CASE EraseSome
      <3>1. media # "blank" \/ ~FitWhole
        BY DEF IInv, InvTable, FitWhole
      <3>2. FitWhole' = FitWhole /\ pebs' = pebs
        BY <2>1 DEF EraseSome, FitWhole, VtblValid
      <3> QED
        BY <3>1, <3>2 DEF Loads
    <2>2. CASE EraseEnd
      BY <2>2 DEF EraseEnd, NoVolumes, Loads, FitWhole
    <2>3. CASE AttachNew
      BY <2>3, SelectLooks DEF AttachNew
    <2>4. CASE CreateFit
      <3>1. UNCHANGED flash \/ NewVolume("fit", image)
        BY <2>4 DEF CreateFit, CreateVolume, flash
      <3>2. ASSUME NewVolume("fit", image) PROVE ~FitWhole'
        BY <3>2 DEF NewVolume, FitWhole, IInv, Inv, FlashOK, Volumes
      <3> QED
        BY <3>1, <3>2, LoadsKept DEF Loads
    <2>5. ASSUME pc \in {"factory", "rootfs_data", "start", "write", "check"}
          PROVE  pebs'["fit"] = image
      <3>1. pebs["fit"] = image
        BY <2>5 DEF IInv, Inv, InvLayout, Laid, Written
      <3>2. CASE CreateFactory \/ CreateRootfsData
        BY <3>1, <3>2 DEF CreateFactory, CreateRootfsData, CreateVolume,
           NewVolume, flash, IInv, Inv, FlashOK, Volumes
      <3> QED
        BY <2>5, <3>1, <3>2 DEF FlashImage, StartJob, EraseSome, EraseEnd,
           AttachNew, CreateFit, CreateVolume, StartUpdate, WriteChunk,
           WriteEnd, CheckVolume, SyncFactory, SyncEnd, flash
    <2>6. CASE pc \in {"factory", "rootfs_data", "start", "write", "check"}
      BY <2>5, <2>6 DEF Loads
    <2> QED
      BY <2>1, <2>2, <2>3, <2>4, <2>6 DEF FlashImage, StartJob, CreateFactory,
         CreateRootfsData, CreateVolume, StartUpdate, WriteChunk, WriteEnd,
         CheckVolume, SyncFactory, SyncEnd, Busy, Filling
  <1> QED
    BY <1>1, <1>2, <1>3, <1>4 DEF Firmware!Work, Firmware!Abort,
       Firmware!Update

\* The step that reports success finds the uploaded firmware and nothing else.
LEMMA CheckImplements ==
  ASSUME IInv, CheckVolume, pc' = "sync"
  PROVE  Firmware!Commit
  <1>1. pc = "check" /\ UNCHANGED <<flash, image, junk>>
    BY DEF CheckVolume, Go, Fail, job
  <1>2. /\ media = "ubi"
        /\ "fit" \in there \ marker /\ pebs["fit"] = image
        /\ data["fit"] = (IF junk THEN "bad" ELSE "full")
    BY <1>1, FillingUbi DEF IInv, Inv, InvLayout, InvFirmware, Laid, Written
  <1>3. Loads \in {{0}, {image}}
    BY <1>2 DEF Loads
  <1>4. ASSUME ~junk, image < Avail - Reserve PROVE Loads = {image}
    <2>1. /\ pebs["rootfs_data"] = Avail - Reserve - image /\ image # 0
          /\ image \in Nat
          /\ IF FactoryBoard THEN pebs["factory"] = FactoryPebs
                             ELSE "factory" \notin there
      BY <1>1 DEF IInv, InvTable, Busy, Inv, InvLayout, ProgramOK, Laid, Written
    <2>2. VtblValid
      BY <1>2, <1>4, <2>1, SizesAssumption DEF VtblValid, IInv, Inv, FlashOK,
         Volumes, Reserve
    <2> QED
      BY <1>2, <1>4, <2>2 DEF Loads, FitWhole
  <1>5. Phase = "busy" /\ Phase' = "done" /\ Loads' = Loads
    BY <1>1, LoadsKept DEF Phase
  <1> QED
    BY <1>1, <1>3, <1>4, <1>5 DEF Firmware!Commit, Firmware!Keep

\* The factory sync leaves the firmware and the validity of the table alone.
LEMMA SyncImplements ==
  ASSUME IInv, SyncFactory \/ SyncEnd
  PROVE  UNCHANGED Firmware!fvars
  <1>1. /\ pc \in {"sync", "syncing"} /\ pc' \in {"syncing", "done"}
        /\ UNCHANGED <<image, junk, media>>
    BY DEF SyncFactory, SyncEnd, Finish, Go, job, flash
  <1>2. Phase = "done" /\ Phase' = "done"
    BY <1>1 DEF Phase
  <1>3. /\ pebs'["fit"] = pebs["fit"] /\ data'["fit"] = data["fit"]
        /\ "fit" \in there' \ marker' <=> "fit" \in there \ marker
    BY DEF SyncFactory, SyncEnd, UpdateStarts, UpdateEnds, flash, IInv, Inv,
       FlashOK, Volumes
  <1>4. VtblValid' <=> VtblValid
    <2>1. CASE UNCHANGED <<there, pebs>>
      BY <2>1 DEF VtblValid
    <2>2. CASE /\ pc = "sync" /\ there' = there \cup {"factory"}
               /\ pebs' = [pebs EXCEPT !["factory"] = @ + Missing]
      <3>1. \A v \in Volumes : pebs[v] \in Nat
        BY DEF IInv, Inv, FlashOK
      <3>2. "factory" \in there => pebs["factory"] > 0
        BY <2>2, SizesAssumption DEF IInv, Inv, InvLayout, InvTable, Laid,
           Written
      <3>3. /\ pebs'["factory"] > 0
            /\ \A v \in Volumes \ {"factory"} : pebs'[v] = pebs[v]
        BY <2>2, <3>1, SizesAssumption DEF Missing, IInv, Inv, FlashOK, Volumes
      <3> QED
        BY <2>2, <3>2, <3>3 DEF VtblValid, IInv, Inv, FlashOK
    <2> QED
      BY <2>1, <2>2 DEF SyncFactory, SyncEnd, flash
  <1>5. Loads' = Loads
    BY <1>1, <1>3, <1>4 DEF Loads, FitWhole
  <1> QED
    BY <1>1, <1>2, <1>5 DEF Firmware!fvars

\* flash_image() on the firmware's partition, with every failure and power cut
\* and everything that happens around it, implements FirmwareUpdate.
THEOREM UbiRebuildRefines == Spec => ImplementsFirmwareUpdate
  <1>1. Init => Firmware!Init
    <2> SUFFICES ASSUME Init PROVE Firmware!Init
      OBVIOUS
    <2>1. Phase = "idle" /\ image = 0 /\ junk = FALSE
      BY DEF Init, Phase
    <2>2. Inv
      BY InitInv
    <2>3. pebs["fit"] \in 0 .. RawLimit /\ 0 \in 0 .. RawLimit
      BY <2>2, SizesAssumption DEF Inv, FlashOK, Volumes
    <2>4. media = "mixed" => ~FitWhole
      BY DEF Init, FitWhole
    <2>5. \E n \in 0 .. RawLimit : Loads = {n}
      BY <2>3, <2>4 DEF Loads
    <2> QED
      BY <2>1, <2>5 DEF Firmware!Init
  <1>2. IInv /\ [Next]_vars => [Firmware!Next]_Firmware!fvars
    <2> SUFFICES ASSUME IInv, [Next]_vars
                 PROVE  Firmware!Next \/ UNCHANGED Firmware!fvars
      OBVIOUS
    <2>1. CASE StartJob
      <3>1. /\ Phase = "accepted" /\ Phase' = "busy"
            /\ UNCHANGED <<image, junk>> /\ Loads' = Loads
        BY <2>1, LoadsKept DEF StartJob, job, Phase
      <3> QED
        BY <3>1 DEF Firmware!Next, Firmware!Start, Firmware!Keep
    <2>2. CASE FlashImage /\ pc \in Busy /\ pc' # "sync"
      BY <2>2, BusyImplements DEF Firmware!Next
    <2>3. CASE FlashImage /\ pc \in Busy /\ pc' = "sync"
      <3>1. CheckVolume
        BY <2>3 DEF FlashImage, StartJob, EraseSome, EraseEnd, AttachNew,
           CreateFit, CreateFactory, CreateRootfsData, CreateVolume,
           StartUpdate, WriteChunk, WriteEnd, SyncFactory, SyncEnd, Go, Fail,
           Busy, Filling
      <3> QED
        BY <2>3, <3>1, CheckImplements DEF Firmware!Next
    <2>4. CASE SyncFactory \/ SyncEnd
      BY <2>4, SyncImplements
    <2>5. CASE UNCHANGED vars
      <3>1. Loads' = Loads /\ Phase' = Phase /\ UNCHANGED <<image, junk>>
        BY <2>5, LoadsKept DEF vars, job, Phase
      <3> QED
        BY <3>1 DEF Firmware!fvars
    <2>6. CASE FlashImage
      BY <2>1, <2>2, <2>3, <2>4, <2>6 DEF FlashImage, EraseSome, EraseEnd,
         AttachNew, CreateFit, CreateFactory, CreateRootfsData, CreateVolume,
         StartUpdate, WriteChunk, WriteEnd, CheckVolume, Busy, Filling
    <2> QED
      BY <2>5, <2>6, OutsideImplements DEF Next
  <1> QED
    BY <1>1, <1>2, TableInvariance, PTL DEF Spec, ImplementsFirmwareUpdate,
       Firmware!Spec
=============================================================================
