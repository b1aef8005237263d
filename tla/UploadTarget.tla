---------------------------- MODULE UploadTarget ----------------------------
(***************************************************************************)
(* Which flash an upload goes to.  recovery_resolve_target() is called     *)
(* twice for an upload: by httpd_post_begin() to learn how much it may     *)
(* accept, and by flash_image() for the region to erase.  Both answers     *)
(* depend on the board, its partitions and its environment, and on whether *)
(* UBI could be attached, which changes in between.                        *)
(*                                                                         *)
(* One upload is alive at a time (RecoveryHttp); what erasing and writing  *)
(* do is in RawFlash and UbiRebuild.  Sizes are in units of half an        *)
(* eraseblock, so that a size can be unaligned.  The UBI layout named in   *)
(* the query must be the board's own; current_ubi_layout is set by every   *)
(* firmware POST to that of an active board, to NULL otherwise.  MTD       *)
(* reference counts are left out, and so is the reset that follows a       *)
(* success: Init has every state of UBI that a restart can lead to.        *)
(***************************************************************************)
EXTENDS FipImage

CONSTANTS
  Boards,        \* boards and environments: records of Board
  Images,        \* bootloader images offered
  NoImage,       \* not looked at
  MaxSize,       \* bound: largest size
  RawPartSize,   \* RECOVERY_MAX_UBOOT_SIZE = RECOVERY_RAW_PART_SIZE
  MinFirmware,   \* RECOVERY_MIN_FIRMWARE_SIZE
  UbiOverhead,   \* what UBI needs of a partition for itself
  EraseSize,     \* an eraseblock
  FactorySize,   \* the volume a rebuild preserves
  Fallback       \* where the upload buffer is if it does not fit elsewhere

PartNames == {"bootloader", "uenv", "dsd", "fit", "ubi", "nor0", "legacy"}
OptName == PartNames \cup {""}
Targets == {"firmware", "uboot", "uenv", "dsd"}
Sizes == 0 .. MaxSize
Queries == {"none", "own", "unknown"}

\* part: size of each MTD partition, 0 if there is none; valid: partitions
\* with the geometry that mtd_ubi_valid() wants; the rest is environment, ""
\* or 0 where unset; addr and ram: the upload buffer and the end of RAM.
Board == [active : BOOLEAN, part : [PartNames -> Sizes],
          valid : SUBSET PartNames,
          mtd : OptName, mtd_uboot : OptName, dev : OptName,
          ubi_part : OptName, ofs : Sizes, size : Sizes, size_uboot : Sizes,
          max : Sizes, addr : Sizes, ram : Sizes]

ASSUME UploadAssumption ==
  /\ Boards \subseteq Board /\ Images \subseteq Image
  /\ MaxSize \in Nat
  /\ RawPartSize \in Nat \ {0} /\ MinFirmware \in Nat \ {0}
  /\ UbiOverhead \in Nat /\ EraseSize \in Nat \ {0}
  /\ FactorySize \in Nat /\ Fallback \in Sizes
  /\ RawPartSize % EraseSize = 0

VARIABLES
  board,
  ubi,             \* attached: partition or ""; error: recovery_ubi_attach_error;
                   \* good: partitions UBI can attach; kept: size of "factory"
  phase,           \* "idle", "receiving", "flashing"
  current_target, recv_total, recv_base,
  image,           \* the bootloader image being flashed
  target,          \* struct recovery_target while its region is erased
  why              \* why the last upload ended, "" while it goes on

vars == <<board, ubi, phase, current_target, recv_total, recv_base, image,
          target, why>>

MtdTarget(p, o, l) == [backend |-> "mtd", part |-> p, ofs |-> o, limit |-> l]
UbiTarget(p, l) == [backend |-> "ubi", part |-> p, ofs |-> 0, limit |-> l]
NoTarget == [backend |-> "none", part |-> "", ofs |-> 0, limit |-> 0]

\* get_mtd_device_nm() finds the partition.
Has(p) == p # "" /\ board.part[p] > 0
Size(p) == board.part[p]

Or(name, default) == IF name = "" THEN default ELSE name
AtMost(n, cap) == IF cap # 0 /\ n > cap THEN cap ELSE n

-----------------------------------------------------------------------------
(* UBI.  Resolving a target may attach UBI: u is its state before.         *)

\* recovery_ubi_part() for the firmware.
recovery_ubi_part == IF board.active THEN "ubi" ELSE Or(board.ubi_part, "ubi")

GeometryOk(p) == ~board.active \/ p \in board.valid

\* recovery_select_ubi(): UBI afterwards.  A failed attach is remembered; an
\* attach that succeeds on the wrong geometry stays attached.
SelectUbi(u, p) ==
  IF u.attached = p \/ u.error THEN u
  ELSE IF Has(p) /\ p \in u.good
    THEN [u EXCEPT !.attached = p, !.error = ~GeometryOk(p)]
    ELSE [u EXCEPT !.attached = "", !.error = TRUE]

\* ... and whether it returned 0.
Selected(u, p) == SelectUbi(u, p).attached = p /\ GeometryOk(p)

\* recovery_calc_rebuild_ubi_limit() of an attached UBI: everything but the
\* volume that is preserved.
RebuildLimit(u, p) == Size(p) - UbiOverhead - u.kept

\* recovery_try_ubi_target() for the firmware, with the limit that a rebuild
\* gives it.  A partition that cannot be attached is to be formatted.
TryUbiTarget(u) ==
  LET p == recovery_ubi_part
  IN CASE Selected(u, p) -> UbiTarget(p, RebuildLimit(u, p))
       [] ~Selected(u, p) /\ Has(p) /\ GeometryOk(p) -> UbiTarget(p, Size(p))
       [] OTHER -> NoTarget

-----------------------------------------------------------------------------
(* Target resolution                                                       *)

\* recovery_target_exact_size()
ExactSize(tgt) == IF tgt = "firmware" THEN 0 ELSE RawPartSize

\* recovery_target_size_cap() of the bootloader.
UbootSizeCap ==
  IF board.size_uboot = 0 THEN RawPartSize
                          ELSE AtMost(board.size_uboot, RawPartSize)

\* Mutant: the U-Boot target follows the environment.
UbootTargetFromEnv ==
  LET p == Or(board.mtd_uboot, "bootloader")
  IN  IF Has(p) THEN MtdTarget(p, 0, AtMost(Size(p), UbootSizeCap))
                ELSE NoTarget

\* recovery_resolve_target() for mtd0: the environment can only disable it.
UbootTarget ==
  IF board.mtd_uboot \in {"", "bootloader"} /\ Has("bootloader")
  THEN MtdTarget("bootloader", 0, AtMost(Size("bootloader"), UbootSizeCap))
  ELSE NoTarget

\* ... for uenv and dsd, which must have their size.
FixedTarget(p) ==
  IF Has(p) /\ Size(p) = RawPartSize THEN MtdTarget(p, 0, Size(p)) ELSE NoTarget

\* ... for the firmware on a raw device.  An offset beyond the device does not
\* shrink the limit.
RawTarget(p) ==
  LET room == IF Size(p) > board.ofs THEN Size(p) - board.ofs ELSE Size(p)
  IN  MtdTarget(p, board.ofs, AtMost(room, board.size))

\* The environment names a device or a partition, and it exists.
NamedRaw == ~board.active /\ Has(board.dev)
NamedMtd == ~board.active /\ ~Has(board.dev) /\ Has(Or(board.mtd, "fit"))

\* ... for the firmware: UBI only on an active board; otherwise what the
\* environment names, then UBI, then the raw device or the first NOR flash.
FirmwareTarget(u) ==
  LET last == Or(board.dev, "nor0")
      any == TryUbiTarget(u)
  IN CASE NamedRaw -> RawTarget(board.dev)
       [] NamedMtd -> MtdTarget(Or(board.mtd, "fit"), 0, Size(Or(board.mtd, "fit")))
       [] ~NamedRaw /\ ~NamedMtd /\ (any # NoTarget \/ board.active \/ ~Has(last)) ->
            any
       [] OTHER -> RawTarget(last)

recovery_resolve_target(u, tgt) ==
  CASE tgt = "firmware" -> FirmwareTarget(u)
    [] tgt = "uboot" -> UbootTarget
    [] OTHER -> FixedTarget(tgt)

\* UBI after recovery_resolve_target().
UbiResolved(u, tgt) ==
  IF tgt = "firmware" /\ ~NamedRaw /\ ~NamedMtd
  THEN SelectUbi(u, recovery_ubi_part)
  ELSE u

-----------------------------------------------------------------------------
(* httpd_post_begin()                                                      *)

\* Mutant: the partition's size is taken for the limit.
TargetMaxWhole(u, tgt) ==
  LET t == recovery_resolve_target(u, tgt)
  IN  IF t = NoTarget THEN 0 ELSE Size(t.part)

\* recovery_calc_target_max(), 0 if there is no target.
TargetMax(u, tgt) == recovery_resolve_target(u, tgt).limit

\* The largest upload accepted.
UploadMax(u, tgt) ==
  IF ExactSize(tgt) # 0 THEN AtMost(TargetMax(u, tgt), ExactSize(tgt))
                        ELSE AtMost(TargetMax(u, tgt), board.max)

LengthOk(u, tgt, len) ==
  /\ TargetMax(u, tgt) > 0
  /\ ExactSize(tgt) # 0 => len = ExactSize(tgt)
  /\ len > 0 /\ len <= UploadMax(u, tgt)
  /\ tgt = "firmware" => len >= MinFirmware

RoomAt(base, len) == base < board.ram /\ len <= board.ram - base

\* Mutant: only the start of the buffer is checked.
UploadBaseStart(len) ==
  CASE board.addr < board.ram -> board.addr
    [] ~(board.addr < board.ram) /\ RoomAt(Fallback, len) -> Fallback
    [] OTHER -> -1

\* The upload buffer, -1 if there is no RAM for it.
UploadBase(len) ==
  CASE RoomAt(board.addr, len) -> board.addr
    [] ~RoomAt(board.addr, len) /\ RoomAt(Fallback, len) -> Fallback
    [] OTHER -> -1

\* recovery_parse_ubi_layout(): "?layout=" of the board's own layout, or none.
\* Only a firmware upload's query is looked at.
LayoutOk(tgt, query) ==
  query = "none" \/ (query = "own" /\ board.active /\ tgt = "firmware")

\* The attach error of an earlier upload is forgotten.
Forgotten == [ubi EXCEPT !.error = FALSE]

\* A POST to a path that is no upload.
BeginBadPath ==
  /\ phase = "idle"
  /\ why' = "path"
  /\ ubi' = Forgotten /\ recv_total' = 0
  /\ UNCHANGED <<board, phase, current_target, recv_base, image, target>>

\* A POST that names a layout which this board does not have.
BeginBadLayout ==
  /\ phase = "idle"
  /\ \E query \in Queries : ~LayoutOk("firmware", query)
  /\ current_target' = "firmware"
  /\ why' = "layout"
  /\ ubi' = Forgotten /\ recv_total' = 0
  /\ UNCHANGED <<board, phase, recv_base, image, target>>

\* A POST refused for its length, or for want of a target.
BeginBadLength(tgt, query, len) ==
  /\ phase = "idle" /\ LayoutOk(tgt, query)
  /\ ~LengthOk(Forgotten, tgt, len)
  /\ current_target' = tgt
  /\ ubi' = UbiResolved(Forgotten, tgt) /\ recv_total' = 0
  /\ why' = "length"
  /\ UNCHANGED <<board, phase, recv_base, image, target>>

\* A POST for which a target was found: accepted if there is RAM for it.
Begin(tgt, query, len) ==
  /\ phase = "idle" /\ LayoutOk(tgt, query)
  /\ LengthOk(Forgotten, tgt, len)
  /\ current_target' = tgt
  /\ ubi' = UbiResolved(Forgotten, tgt)
  /\ recv_total' = len
  /\ IF UploadBase(len) = -1
       THEN why' = "ram" /\ UNCHANGED <<phase, recv_base>>
       ELSE why' = "" /\ phase' = "receiving" /\ recv_base' = UploadBase(len)
  /\ UNCHANGED <<board, image, target>>

\* The upload or its response is lost (RecoveryHttp has the detail).
UploadLost ==
  /\ phase = "receiving"
  /\ phase' = "idle" /\ why' = "lost"
  /\ UNCHANGED <<board, ubi, current_target, recv_total, recv_base, image, target>>

-----------------------------------------------------------------------------
(* flash_image()                                                           *)

\* recovery_mtd_validate_region(), called before anything is erased.
RegionOk(t) ==
  /\ t.ofs < Size(t.part) /\ t.limit <= Size(t.part) - t.ofs
  /\ t.ofs % EraseSize = 0 /\ t.limit % EraseSize = 0

Refuse(reason) ==
  /\ phase' = "idle" /\ why' = reason
  /\ UNCHANGED <<target, image>>

Erase(t, img) ==
  /\ phase' = "flashing" /\ target' = t /\ image' = img
  /\ UNCHANGED why

\* The target of a raw update: checked, then erased.
FlashMtd(t, img) ==
  /\ ubi' = UbiResolved(ubi, current_target)
  /\ CASE current_target = "uboot" /\ t.limit # RawPartSize -> Refuse("target")
       [] ~(current_target = "uboot" /\ t.limit # RawPartSize)
          /\ recv_total > t.limit -> Refuse("size")
       [] ~(current_target = "uboot" /\ t.limit # RawPartSize)
          /\ recv_total <= t.limit /\ ~RegionOk(t) -> Refuse("region")
       [] OTHER -> Erase(t, img)

\* recovery_force_ubi_rebuild(): UBI is detached and its whole partition is
\* the target.
FlashUbi(t) ==
  /\ ubi' = [ubi EXCEPT !.attached = "", !.error = FALSE]
  /\ IF Has(t.part)
       THEN IF recv_total > Size(t.part)
              THEN Refuse("size")
              ELSE Erase(UbiTarget(t.part, Size(t.part)), NoImage)
       ELSE Refuse("target")

\* flash_image() up to the erase.  The image is as long as it was announced
\* (RecoveryHttp), so only a bootloader image has to be looked into.
FlashImage(img) ==
  LET t == recovery_resolve_target(ubi, current_target)
      bad == /\ current_target = "uboot"
             /\ ~recovery_validate_mtd0_bootloader_image(img)
  IN
  /\ phase = "receiving"
  /\ img = NoImage <=> current_target # "uboot"
  /\ CASE bad -> Refuse("image") /\ UNCHANGED ubi
       [] ~bad /\ t.backend = "none" ->
            Refuse("target") /\ ubi' = UbiResolved(ubi, current_target)
       [] ~bad /\ t.backend = "mtd" -> FlashMtd(t, img)
       [] ~bad /\ t.backend = "ubi" -> FlashUbi(t)
  /\ UNCHANGED <<board, current_target, recv_total, recv_base>>

\* Partitions that may hold UBI volumes: meant for UBI, and large enough.
Attachable == {q \in {"ubi", "legacy"} : Size(q) > UbiOverhead + FactorySize}

\* What UBI may be able to attach once a partition has been written to: what is
\* in it now may be UBI's or not, whatever it was before.
Rewritten(part) == {ubi.good \cup ({part} \cap Attachable), ubi.good \ {part}}

\* A raw update ends.
EndMtd ==
  /\ phase = "flashing" /\ target.backend = "mtd"
  /\ phase' = "idle" /\ target' = NoTarget /\ image' = NoImage
  /\ \E good \in Rewritten(target.part) :
       ubi' = [ubi EXCEPT !.good = good]
  /\ UNCHANGED <<board, current_target, recv_total, recv_base, why>>

\* A rebuild ends with UBI attached and its factory volume there or not, or
\* fails before: in the erase, or in the attach, which is remembered.
EndUbi ==
  /\ phase = "flashing" /\ target.backend = "ubi"
  /\ phase' = "idle" /\ target' = NoTarget /\ image' = NoImage
  /\ \/ \E kept \in {0, FactorySize} :
          ubi' = [attached |-> target.part, error |-> FALSE,
                  good |-> ubi.good \cup {target.part}, kept |-> kept]
     \/ \E failed \in BOOLEAN, good \in Rewritten(target.part) :
          ubi' = [ubi EXCEPT !.error = failed, !.good = good]
  /\ UNCHANGED <<board, current_target, recv_total, recv_base, why>>

-----------------------------------------------------------------------------

\* U-Boot may have attached a UBI partition before recovery is entered.
Init ==
  /\ board \in Boards
  /\ \E p \in OptName, good \in SUBSET Attachable, kept \in {0, FactorySize} :
       /\ p # "" => p \in good
       /\ ubi = [attached |-> p, error |-> FALSE, good |-> good, kept |-> kept]
  /\ phase = "idle"
  /\ current_target = "firmware"
  /\ recv_total = 0 /\ recv_base = 0
  /\ image = NoImage
  /\ target = NoTarget
  /\ why = ""

Next ==
  \/ BeginBadPath \/ BeginBadLayout
  \/ \E tgt \in Targets, query \in Queries, len \in -1 .. MaxSize + 1 :
       BeginBadLength(tgt, query, len) \/ Begin(tgt, query, len)
  \/ UploadLost
  \/ \E img \in Images \cup {NoImage} : FlashImage(img)
  \/ EndMtd \/ EndUbi

Spec == Init /\ [][Next]_vars

-----------------------------------------------------------------------------

\* The type invariant.  That the upload lies in RAM is httpd_post_begin()'s
\* choice of the buffer.
TypeOK ==
  /\ board \in Boards
  /\ ubi \in [attached : OptName, error : BOOLEAN, good : SUBSET PartNames,
             kept : {0, FactorySize}]
  /\ phase \in {"idle", "receiving", "flashing"}
  /\ current_target \in Targets
  /\ recv_total \in Sizes /\ recv_base \in Sizes
  /\ phase # "idle" => recv_base + recv_total <= board.ram
  /\ image \in Images \cup {NoImage}
  /\ target \in [backend : {"none", "mtd", "ubi"}, part : OptName, ofs : Sizes,
                limit : Sizes]

\* What is erased is big enough for the upload, lies inside its partition, and
\* is the upload's own partition: mtd0, uenv or dsd as a whole, and on an
\* active board the project's UBI, whatever the environment says ("stale
\* recovery_dev_uboot/uboot_ofs values cannot touch factory calibration
\* partitions").
OnlyItsPartition ==
  phase = "flashing" =>
    /\ 0 < recv_total /\ recv_total <= target.limit
    /\ target.ofs + target.limit <= Size(target.part)
    /\ current_target # "firmware" =>
         /\ target.part = IF current_target = "uboot" THEN "bootloader"
                          ELSE current_target
         /\ target.ofs = 0 /\ target.limit = RawPartSize
    /\ current_target = "firmware" /\ board.active =>
         target.part = "ubi" /\ "ubi" \in board.valid

\* An upload that was accepted is not turned down for its size or for want of
\* a target once all of it is in RAM, although UBI has been attached, or has
\* failed to, since then.  Only a firmware offset from the environment is
\* first checked by then.
AcceptedHasTarget ==
  [][phase = "receiving" =>
       /\ why' \notin {"target", "size", "length"}
       /\ why' = "region" => current_target = "firmware" /\ ~board.active]_vars

\* The bootloader is erased only for an image whose BL33 lies, byte for byte,
\* inside the image and is found where BL2 looks for it.
FlashedBootloaderSound ==
  phase = "flashing" /\ current_target = "uboot" => Bootable(image)
=============================================================================
