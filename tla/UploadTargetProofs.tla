------------------------- MODULE UploadTargetProofs -------------------------
(***************************************************************************)
(* TLAPS proofs about UploadTarget and FipImage: any boards, environments, *)
(* partition sizes and bootloader images, and words of any width.          *)
(*                                                                         *)
(* The target of an upload is resolved twice, and the first time may       *)
(* attach UBI.  The argument is that resolving is idempotent: the second   *)
(* call, made with the UBI that the first one left, gives the same target  *)
(* (ResolveStable), so that what httpd_post_begin() found out about the    *)
(* length is still true when flash_image() erases (Promised).              *)
(***************************************************************************)
EXTENDS UploadTarget, WellFoundedInduction, TLAPS

-----------------------------------------------------------------------------
(* The FIP check                                                           *)

\* A non-empty set of naturals has a least element, and Min is it.
LEMMA MinIsLeast ==
  ASSUME NEW T \in SUBSET Nat, T # {}
  PROVE  Min(T) \in T /\ \A y \in T : Min(T) <= y
  <1> DEFINE R == OpToRel(<, Nat)
  <1>1. IsWellFoundedOn(R, Nat)
    BY NatLessThanWellFounded
  <1>2. \E x \in T : \A y \in T : x <= y
    <2> HIDE DEF R
    <2>1. PICK x \in T : \A y \in T : ~(<<y, x>> \in R)
      BY <1>1, WFMin
    <2>2. \A y \in T : y < x => <<y, x>> \in R
      BY DEF R, OpToRel
    <2>3. \A y \in T : ~(y < x)
      BY <2>1, <2>2, Zenon
    <2>4. \A y \in T : x <= y
      BY <2>3, SMT
    <2> QED
      BY <2>4, Zenon
  <1> QED
    BY <1>2 DEF Min

\* Where the loop over the table of contents stops, everything before it is a
\* payload of no interest.
LEMMA StopsAtFirst ==
  ASSUME NEW toc \in Seq(Entry), NEW i \in DOMAIN toc
  PROVE  StopsAt(toc) = i <=>
           /\ toc[i].uuid \in {"zero", "nt_fw"}
           /\ \A j \in 1 .. i - 1 : toc[j].uuid = "other"
  <1> DEFINE stops == {j \in DOMAIN toc : toc[j].uuid \in {"zero", "nt_fw"}}
  <1>1. DOMAIN toc = 1 .. Len(toc) /\ Len(toc) \in Nat
    OBVIOUS
  <1>2. \A j \in DOMAIN toc : toc[j].uuid \in {"zero", "nt_fw", "other"}
    <2>1. \A j \in DOMAIN toc : toc[j] \in Entry
      OBVIOUS
    <2> QED
      BY <2>1 DEF Entry
  <1>3. stops \in SUBSET Nat
    BY <1>1
  <1>4. StopsAt(toc) = IF stops = {} THEN 0 ELSE Min(stops)
    BY DEF StopsAt
  <1>5. ASSUME StopsAt(toc) = i
        PROVE  /\ toc[i].uuid \in {"zero", "nt_fw"}
               /\ \A j \in 1 .. i - 1 : toc[j].uuid = "other"
    <2>1. stops # {} /\ i = Min(stops)
      BY <1>1, <1>4, <1>5
    <2>2. i \in stops /\ \A y \in stops : i <= y
      BY <1>3, <2>1, MinIsLeast
    <2>3. \A j \in 1 .. i - 1 : j \in DOMAIN toc /\ j \notin stops
      BY <1>1, <2>2
    <2> QED
      BY <1>2, <2>2, <2>3
  <1>6. ASSUME toc[i].uuid \in {"zero", "nt_fw"},
               \A j \in 1 .. i - 1 : toc[j].uuid = "other"
        PROVE  StopsAt(toc) = i
    <2>1. i \in stops
      BY <1>6
    <2>2. Min(stops) \in stops /\ Min(stops) <= i
      BY <1>3, <2>1, MinIsLeast
    <2>3. ~(Min(stops) \in 1 .. i - 1)
      BY <1>6, <2>2
    <2>4. Min(stops) = i
      <3> HIDE DEF stops
      <3>1. Min(stops) \in 1 .. Len(toc)
        BY <1>1, <2>2 DEF stops
      <3> QED
        BY <1>1, <2>2, <2>3, <3>1, SMT
    <2> QED
      BY <1>4, <2>1, <2>4
  <1> QED
    BY <1>5, <1>6

\* The two comparisons say that the payload's bytes are there.
LEMMA PayloadBytes ==
  ASSUME NEW e \in Entry
  PROVE  e.size # 0 /\ PayloadInside(e) <=>
           /\ e.offset .. e.offset + e.size - 1 # {}
           /\ e.offset .. e.offset + e.size - 1 \subseteq 0 .. FipSize - 1
  <1> DEFINE o == e.offset
             n == e.size
  <1>1. o \in Nat /\ n \in Nat
    BY DEF Entry, Word
  <1>2. FipSize \in Nat
    BY FipAssumption
  <1> HIDE DEF o, n
  <1>3. n # 0 <=> o .. o + n - 1 # {}
    <2>1. n # 0 => o \in o .. o + n - 1
      BY <1>1, SMT
    <2>2. n = 0 => o .. o + n - 1 = {}
      BY <1>1, SMT
    <2> QED
      BY <2>1, <2>2
  <1>4. ASSUME n # 0
        PROVE  o .. o + n - 1 \subseteq 0 .. FipSize - 1
               <=> o <= FipSize /\ n <= FipSize - o
    <2>1. ASSUME o .. o + n - 1 \subseteq 0 .. FipSize - 1
          PROVE  o <= FipSize /\ n <= FipSize - o
      <3>1. o + n - 1 \in o .. o + n - 1
        BY <1>1, <1>4, SMT
      <3>2. o + n - 1 \in 0 .. FipSize - 1
        BY <2>1, <3>1
      <3> QED
        BY <1>1, <1>2, <1>4, <3>2, SMT
    <2>2. ASSUME o <= FipSize, n <= FipSize - o
          PROVE  o .. o + n - 1 \subseteq 0 .. FipSize - 1
      BY <1>1, <1>2, <2>2, SMT
    <2> QED
      BY <2>1, <2>2
  <1> QED
    BY <1>3, <1>4 DEF PayloadInside, o, n

\* recovery_validate_mtd0_bootloader_image() lets through exactly the images
\* that BL2 can boot from: no unbootable one, whatever its offsets and sizes,
\* and it turns down none that is bootable.
THEOREM FipCheckExact ==
  \A img \in Image :
    recovery_validate_mtd0_bootloader_image(img) <=> Bootable(img)
  <1> SUFFICES ASSUME NEW img \in Image
               PROVE  recovery_validate_mtd0_bootloader_image(img) <=>
                        Bootable(img)
    OBVIOUS
  <1> DEFINE toc == img.toc
  <1>1. toc \in Seq(Entry)
    BY DEF Image
  <1>2. \A i \in DOMAIN toc : toc[i] \in Entry /\ i # 0
    BY <1>1
  <1>3. StopsAt(toc) # 0 => StopsAt(toc) \in DOMAIN toc
    <2> DEFINE stops == {j \in DOMAIN toc : toc[j].uuid \in {"zero", "nt_fw"}}
    <2>1. stops \in SUBSET Nat
      BY <1>1
    <2>2. stops # {} => Min(stops) \in stops
      BY <2>1, MinIsLeast
    <2> QED
      BY <2>2 DEF StopsAt
  <1>4. recovery_validate_fip_payload(toc) <=>
          \E i \in DOMAIN toc :
            /\ StopsAt(toc) = i
            /\ toc[i].uuid = "nt_fw" /\ toc[i].size # 0 /\ PayloadInside(toc[i])
    BY <1>2, <1>3 DEF recovery_validate_fip_payload
  <1>5. \A i \in DOMAIN toc :
          /\ StopsAt(toc) = i
          /\ toc[i].uuid = "nt_fw" /\ toc[i].size # 0 /\ PayloadInside(toc[i])
          <=>
          LET e == toc[i]
          IN  /\ e.uuid = "nt_fw"
              /\ \A j \in 1 .. i - 1 : toc[j].uuid = "other"
              /\ e.offset .. e.offset + e.size - 1 # {}
              /\ e.offset .. e.offset + e.size - 1 \subseteq 0 .. FipSize - 1
    <2> TAKE i \in DOMAIN toc
    <2>1. toc[i].uuid = "nt_fw" =>
            (StopsAt(toc) = i <=> \A j \in 1 .. i - 1 : toc[j].uuid = "other")
      BY <1>1, StopsAtFirst
    <2>2. toc[i].size # 0 /\ PayloadInside(toc[i]) <=>
            /\ toc[i].offset .. toc[i].offset + toc[i].size - 1 # {}
            /\ toc[i].offset .. toc[i].offset + toc[i].size - 1
                 \subseteq 0 .. FipSize - 1
      BY <1>2, PayloadBytes
    <2> QED
      BY <2>1, <2>2, Zenon
  <1> HIDE DEF toc
  <1>6. recovery_validate_fip_payload(toc) <=>
          \E i \in DOMAIN toc :
            LET e == toc[i]
            IN  /\ e.uuid = "nt_fw"
                /\ \A j \in 1 .. i - 1 : toc[j].uuid = "other"
                /\ e.offset .. e.offset + e.size - 1 # {}
                /\ e.offset .. e.offset + e.size - 1 \subseteq 0 .. FipSize - 1
    BY <1>4, <1>5, Zenon
  <1> QED
    BY <1>6, Zenon DEF toc, Bootable, recovery_validate_mtd0_bootloader_image,
       recovery_validate_mtd0_prefix

-----------------------------------------------------------------------------
(* Resolving a target                                                      *)

\* What the recovery knows of UBI.
UbiStates ==
  [attached : OptName, error : BOOLEAN, good : SUBSET PartNames,
   kept : {0, FactorySize}]

\* The environment and the partitions have their types.
LEMMA BoardTypes ==
  ASSUME board \in Boards
  PROVE  /\ \A p \in PartNames : Size(p) \in Nat /\ Size(p) <= MaxSize
         /\ recovery_ubi_part \in PartNames
         /\ {board.mtd, board.mtd_uboot, board.dev} \subseteq OptName
         /\ board.ofs \in Sizes
         /\ {board.size, board.size_uboot, board.max, board.addr, board.ram}
              \subseteq Nat
         /\ board.addr \in Sizes
         /\ board.active \in BOOLEAN
  <1>1. board \in Board
    BY UploadAssumption
  <1>2. \A p \in PartNames : Size(p) \in Sizes
    BY <1>1 DEF Board, Size
  <1>3. \A n \in Sizes : n \in Nat /\ n <= MaxSize
    BY DEF Sizes
  <1>4. recovery_ubi_part \in PartNames
    BY <1>1 DEF Board, recovery_ubi_part, Or, OptName, PartNames
  <1>5. /\ {board.size, board.size_uboot, board.max, board.addr, board.ram,
            board.ofs} \subseteq Sizes
        /\ {board.mtd, board.mtd_uboot, board.dev} \subseteq OptName
        /\ board.active \in BOOLEAN
    BY <1>1 DEF Board
  <1> QED
    BY <1>2, <1>3, <1>4, <1>5

\* recovery_select_ubi() leaves a UBI state, and does not touch volumes.
LEMMA SelectType ==
  ASSUME NEW u \in UbiStates, NEW p \in PartNames
  PROVE  SelectUbi(u, p) \in UbiStates /\ SelectUbi(u, p).kept = u.kept
  BY DEF SelectUbi, UbiStates, OptName, GeometryOk

\* recovery_select_ubi() called again changes nothing: it found the partition
\* attached, or it remembers that it could not.
LEMMA SelectStable ==
  ASSUME NEW u \in UbiStates, NEW p \in PartNames
  PROVE  SelectUbi(SelectUbi(u, p), p) = SelectUbi(u, p)
  BY DEF SelectUbi, UbiStates

\* recovery_resolve_target() called again with the UBI that the first call
\* left gives the same target, and leaves UBI as it is.
THEOREM ResolveStable ==
  ASSUME board \in Boards, NEW u \in UbiStates, NEW tgt \in Targets
  PROVE  LET v == UbiResolved(u, tgt)
         IN  /\ v \in UbiStates
             /\ recovery_resolve_target(v, tgt) = recovery_resolve_target(u, tgt)
             /\ UbiResolved(v, tgt) = v
  <1> DEFINE p == recovery_ubi_part
             v == SelectUbi(u, p)
  <1>1. p \in PartNames
    BY BoardTypes
  <1>2. v \in UbiStates /\ v.kept = u.kept /\ SelectUbi(v, p) = v
    BY <1>1, SelectType, SelectStable
  <1>3. TryUbiTarget(v) = TryUbiTarget(u)
    BY <1>2 DEF TryUbiTarget, Selected, RebuildLimit
  <1>4. recovery_resolve_target(v, tgt) = recovery_resolve_target(u, tgt)
    BY <1>3 DEF recovery_resolve_target, FirmwareTarget
  <1> QED
    BY <1>2, <1>4 DEF UbiResolved

\* A target in one of the partitions, with a limit that is not beyond it.
WellFormed(t) ==
  /\ t \in [backend : {"mtd", "ubi"}, part : PartNames, ofs : Sizes, limit : Int]
  /\ t.limit <= Size(t.part)
  /\ t.backend = "mtd" => t.limit \in Nat

\* A cap lowers a size or leaves it; 0 is no cap.
LEMMA AtMostType ==
  ASSUME NEW n \in Nat, NEW cap \in Nat
  PROVE  /\ AtMost(n, cap) \in Nat /\ AtMost(n, cap) <= n
         /\ cap # 0 => AtMost(n, cap) <= cap
  BY DEF AtMost

\* The bootloader: mtd0 from its start, and no more than its fixed size.
LEMMA UbootFacts ==
  ASSUME board \in Boards, UbootTarget # NoTarget
  PROVE  /\ WellFormed(UbootTarget)
         /\ UbootTarget.backend = "mtd" /\ UbootTarget.part = "bootloader"
         /\ UbootTarget.ofs = 0 /\ UbootTarget.limit <= RawPartSize
  <1> DEFINE l == AtMost(Size("bootloader"), UbootSizeCap)
  <1>1. Size("bootloader") \in Nat /\ board.size_uboot \in Nat
    BY BoardTypes DEF PartNames
  <1>2. UbootSizeCap \in Nat \ {0} /\ UbootSizeCap <= RawPartSize
    BY <1>1, UploadAssumption DEF UbootSizeCap, AtMost
  <1>3. l \in Nat /\ l <= Size("bootloader") /\ l <= RawPartSize
    <2>1. l \in Nat /\ l <= Size("bootloader") /\ l <= UbootSizeCap
      BY <1>1, <1>2, AtMostType
    <2> HIDE DEF l
    <2> QED
      BY <1>2, <2>1, UploadAssumption
  <1>4. UbootTarget = MtdTarget("bootloader", 0, l)
    BY DEF UbootTarget
  <1>5. 0 \in Sizes
    BY UploadAssumption DEF Sizes
  <1> HIDE DEF l
  <1> QED
    BY <1>3, <1>4, <1>5 DEF MtdTarget, WellFormed, PartNames

\* uenv and dsd: the whole partition, which has the fixed size.
LEMMA FixedFacts ==
  ASSUME board \in Boards, NEW p \in {"uenv", "dsd"}, FixedTarget(p) # NoTarget
  PROVE  /\ WellFormed(FixedTarget(p))
         /\ FixedTarget(p).backend = "mtd" /\ FixedTarget(p).part = p
         /\ FixedTarget(p).ofs = 0 /\ FixedTarget(p).limit = RawPartSize
         /\ Size(p) = RawPartSize
  <1>1. FixedTarget(p) = MtdTarget(p, 0, Size(p)) /\ Size(p) = RawPartSize
    BY DEF FixedTarget
  <1>2. 0 \in Sizes /\ RawPartSize \in Nat
    BY UploadAssumption DEF Sizes
  <1> QED
    BY <1>1, <1>2 DEF MtdTarget, WellFormed, PartNames

\* A raw target lies in the partition it names, with a limit of its size at
\* most; whether offset and limit together do is checked by flash_image().
LEMMA RawFacts ==
  ASSUME board \in Boards, NEW p \in PartNames
  PROVE  WellFormed(RawTarget(p)) /\ RawTarget(p).backend = "mtd"
  <1> DEFINE room == IF Size(p) > board.ofs THEN Size(p) - board.ofs ELSE Size(p)
             l == AtMost(room, board.size)
  <1>1. /\ Size(p) \in Nat /\ board.ofs \in Nat /\ board.size \in Nat
        /\ board.ofs \in Sizes
    BY BoardTypes DEF Sizes
  <1>2. room \in Nat /\ room <= Size(p)
    BY <1>1
  <1>3. l \in Nat /\ l <= Size(p)
    <2> HIDE DEF room
    <2>1. l \in Nat /\ l <= room
      BY <1>1, <1>2, AtMostType
    <2> HIDE DEF l
    <2> QED
      BY <1>1, <1>2, <2>1
  <1>4. RawTarget(p) = MtdTarget(p, board.ofs, l)
    BY DEF RawTarget
  <1> HIDE DEF l
  <1> QED
    BY <1>1, <1>3, <1>4 DEF MtdTarget, WellFormed

\* UBI: the partition that is attached, or one that is there to be formatted,
\* of the right geometry on an active board.
LEMMA UbiFacts ==
  ASSUME board \in Boards, NEW u \in UbiStates, TryUbiTarget(u) # NoTarget
  PROVE  /\ WellFormed(TryUbiTarget(u)) /\ TryUbiTarget(u).backend = "ubi"
         /\ TryUbiTarget(u).part = recovery_ubi_part
         /\ GeometryOk(recovery_ubi_part)
  <1> DEFINE p == recovery_ubi_part
  <1>1. p \in PartNames /\ Size(p) \in Nat
    BY BoardTypes
  <1>2. 0 \in Sizes
    BY UploadAssumption DEF Sizes
  <1>3. RebuildLimit(u, p) \in Int /\ RebuildLimit(u, p) <= Size(p)
    BY <1>1, UploadAssumption DEF RebuildLimit, UbiStates
  <1>4. CASE Selected(u, p)
    <2>1. TryUbiTarget(u) = UbiTarget(p, RebuildLimit(u, p)) /\ GeometryOk(p)
      BY <1>4 DEF TryUbiTarget, Selected
    <2> HIDE DEF p
    <2> QED
      BY <1>1, <1>2, <1>3, <2>1 DEF UbiTarget, WellFormed, p
  <1>5. CASE ~Selected(u, p)
    <2>1. TryUbiTarget(u) = UbiTarget(p, Size(p)) /\ GeometryOk(p)
      BY <1>5 DEF TryUbiTarget
    <2> HIDE DEF p
    <2> QED
      BY <1>1, <1>2, <2>1 DEF UbiTarget, WellFormed, p
  <1> QED
    BY <1>4, <1>5

\* The firmware: UBI only, on an active board.
LEMMA FirmwareFacts ==
  ASSUME board \in Boards, NEW u \in UbiStates, FirmwareTarget(u) # NoTarget
  PROVE  /\ WellFormed(FirmwareTarget(u))
         /\ FirmwareTarget(u).backend = "ubi" =>
              /\ FirmwareTarget(u).part = recovery_ubi_part
              /\ GeometryOk(recovery_ubi_part)
         /\ board.active => FirmwareTarget(u).backend = "ubi"
  <1> DEFINE last == Or(board.dev, "nor0")
             fit == Or(board.mtd, "fit")
  <1>1. board.dev \in OptName /\ last \in PartNames /\ fit \in PartNames
    BY BoardTypes DEF Or, OptName, PartNames
  <1>2. CASE NamedRaw
    <2>1. board.dev \in PartNames /\ ~board.active
      BY <1>1, <1>2 DEF NamedRaw, Has, OptName
    <2>2. FirmwareTarget(u) = RawTarget(board.dev)
      BY <1>2 DEF FirmwareTarget, NamedMtd, NamedRaw
    <2> QED
      BY <2>1, <2>2, RawFacts
  <1>3. CASE NamedMtd
    <2>1. ~board.active
      BY <1>3 DEF NamedMtd
    <2>2. FirmwareTarget(u) = MtdTarget(fit, 0, Size(fit))
      BY <1>3 DEF FirmwareTarget, NamedMtd, NamedRaw
    <2>3. 0 \in Sizes /\ Size(fit) \in Nat
      BY <1>1, BoardTypes, UploadAssumption DEF Sizes
    <2> HIDE DEF fit
    <2> QED
      BY <1>1, <2>1, <2>2, <2>3 DEF MtdTarget, WellFormed
  <1>4. CASE /\ ~NamedRaw /\ ~NamedMtd
             /\ TryUbiTarget(u) # NoTarget \/ board.active \/ ~Has(last)
    <2>1. FirmwareTarget(u) = TryUbiTarget(u)
      BY <1>4 DEF FirmwareTarget
    <2> QED
      BY <2>1, UbiFacts
  <1>5. CASE /\ ~NamedRaw /\ ~NamedMtd
             /\ ~(TryUbiTarget(u) # NoTarget \/ board.active \/ ~Has(last))
    <2>1. FirmwareTarget(u) = RawTarget(last)
      BY <1>5 DEF FirmwareTarget
    <2> QED
      BY <1>1, <1>5, <2>1, RawFacts
  <1> QED
    BY <1>2, <1>3, <1>4, <1>5

-----------------------------------------------------------------------------
(* The inductive invariant                                                 *)

\* Nothing but the board, UBI and the target decides what a length must be.
LEMMA BoardKept ==
  ASSUME board' = board, NEW u, NEW tgt, NEW len
  PROVE  LengthOk(u, tgt, len)' <=> LengthOk(u, tgt, len)
  <1>1. \A p : (Has(p)' <=> Has(p)) /\ Size(p)' = Size(p)
               /\ (GeometryOk(p)' <=> GeometryOk(p))
    BY DEF Has, Size, GeometryOk
  <1>2. recovery_ubi_part' = recovery_ubi_part
    BY DEF recovery_ubi_part
  <1>3. \A p : SelectUbi(u, p)' = SelectUbi(u, p)
    BY <1>1 DEF SelectUbi
  <1>4. \A p : Selected(u, p)' <=> Selected(u, p)
    BY <1>1, <1>3 DEF Selected
  <1>5. TryUbiTarget(u)' = TryUbiTarget(u)
    BY <1>1, <1>2, <1>4 DEF TryUbiTarget, RebuildLimit
  <1>6. \A p : RawTarget(p)' = RawTarget(p) /\ FixedTarget(p)' = FixedTarget(p)
    BY <1>1 DEF RawTarget, FixedTarget
  <1>7. UbootTarget' = UbootTarget
    BY <1>1 DEF UbootTarget, UbootSizeCap
  <1>8. FirmwareTarget(u)' = FirmwareTarget(u)
    BY <1>1, <1>5, <1>6 DEF FirmwareTarget, NamedRaw, NamedMtd
  <1>9. recovery_resolve_target(u, tgt)' = recovery_resolve_target(u, tgt)
    BY <1>6, <1>7, <1>8 DEF recovery_resolve_target
  <1> QED
    BY <1>9 DEF LengthOk, UploadMax, TargetMax

\* What httpd_post_begin() found holds until flash_image() looks again.
Promised ==
  phase = "receiving" => why = "" /\ LengthOk(ubi, current_target, recv_total)

\* Erasing is done in a partition.
ErasedHere == phase = "flashing" => target.part \in PartNames

Inv ==
  /\ TypeOK /\ Promised
  /\ ErasedHere /\ OnlyItsPartition /\ FlashedBootloaderSound

\* An accepted length fits into a target, which exists.
LEMMA LengthFacts ==
  ASSUME board \in Boards, NEW u \in UbiStates, NEW tgt \in Targets,
         NEW len \in Int, LengthOk(u, tgt, len)
  PROVE  LET t == recovery_resolve_target(u, tgt)
         IN  /\ t # NoTarget /\ WellFormed(t)
             /\ len \in Sizes /\ 0 < len /\ len <= t.limit
             /\ tgt # "firmware" => t.limit = RawPartSize
  <1> DEFINE t == recovery_resolve_target(u, tgt)
  <1>1. t # NoTarget /\ t.limit > 0
    <2>1. t.limit > 0
      BY DEF LengthOk, TargetMax
    <2>2. ~(NoTarget.limit > 0)
      BY DEF NoTarget
    <2> QED
      BY <2>1, <2>2, Zenon
  <1>2. WellFormed(t)
    BY <1>1, UbootFacts, FixedFacts, FirmwareFacts
       DEF recovery_resolve_target, Targets
  <1>3. t.limit \in Nat /\ t.limit <= MaxSize
    <2> HIDE DEF t
    <2>1. t.limit \in Int /\ t.limit <= Size(t.part) /\ t.part \in PartNames
      BY <1>2 DEF WellFormed
    <2>2. Size(t.part) \in Nat /\ Size(t.part) <= MaxSize
      BY <2>1, BoardTypes
    <2> QED
      BY <1>1, <2>1, <2>2, UploadAssumption
  <1>4. 0 < len /\ len <= UploadMax(u, tgt)
    BY DEF LengthOk
  <1>5. UploadMax(u, tgt) \in Nat /\ UploadMax(u, tgt) <= t.limit
    <2>1. TargetMax(u, tgt) = t.limit /\ board.max \in Nat
      BY BoardTypes DEF TargetMax
    <2>2. ExactSize(tgt) \in Nat
      BY UploadAssumption DEF ExactSize
    <2> HIDE DEF t
    <2> QED
      BY <1>3, <2>1, <2>2, AtMostType DEF UploadMax
  <1>6. ASSUME tgt # "firmware" PROVE t.limit = RawPartSize
    <2>1. len = RawPartSize
      BY <1>6, UploadAssumption DEF LengthOk, ExactSize
    <2>2. t.limit <= RawPartSize
      BY <1>1, <1>6, UbootFacts, FixedFacts, UploadAssumption
         DEF recovery_resolve_target, Targets
    <2> HIDE DEF t
    <2> QED
      BY <1>3, <1>4, <1>5, <2>1, <2>2, UploadAssumption
  <1> HIDE DEF t
  <1>7. len \in Sizes /\ len <= t.limit
    BY <1>3, <1>4, <1>5, UploadAssumption DEF Sizes
  <1> QED
    BY <1>1, <1>2, <1>4, <1>6, <1>7 DEF t

\* What is known when flash_image() is called.
LEMMA ReceivingFacts ==
  ASSUME Inv, phase = "receiving"
  PROVE  /\ board \in Boards /\ ubi \in UbiStates /\ current_target \in Targets
         /\ recv_total \in Int
         /\ LengthOk(ubi, current_target, recv_total)
  <1>1. board \in Boards /\ ubi \in UbiStates /\ current_target \in Targets
    BY DEF Inv, TypeOK, UbiStates
  <1>2. recv_total \in Int
    BY DEF Inv, TypeOK, Sizes
  <1>3. LengthOk(ubi, current_target, recv_total)
    BY DEF Inv, Promised
  <1> QED
    BY <1>1, <1>2, <1>3

\* What may be erased for the current upload.
Own(t) ==
  /\ t \in [backend : {"mtd", "ubi"}, part : PartNames, ofs : Sizes, limit : Sizes]
  /\ recv_total <= t.limit
  /\ t.ofs + t.limit <= Size(t.part)
  /\ current_target # "firmware" =>
       /\ t.part = IF current_target = "uboot" THEN "bootloader"
                   ELSE current_target
       /\ t.ofs = 0 /\ t.limit = RawPartSize
  /\ current_target = "firmware" /\ board.active =>
       t.part = "ubi" /\ "ubi" \in board.valid

\* A raw target that passed recovery_mtd_validate_region() may be erased, and
\* for anything but a firmware it does pass.
LEMMA RawErased ==
  ASSUME Inv, phase = "receiving",
         NEW t, t = recovery_resolve_target(ubi, current_target),
         t.backend = "mtd"
  PROVE  /\ recv_total <= t.limit
         /\ current_target = "firmware" => ~board.active
         /\ current_target # "firmware" => t.limit = RawPartSize
         /\ current_target # "firmware" => RegionOk(t)
         /\ RegionOk(t) => Own(t)
  <1>1. /\ board \in Boards /\ ubi \in UbiStates /\ current_target \in Targets
        /\ recv_total \in Int
        /\ LengthOk(ubi, current_target, recv_total)
    BY ReceivingFacts
  <1>2. /\ t # NoTarget /\ WellFormed(t)
        /\ 0 < recv_total /\ recv_total <= t.limit
        /\ current_target # "firmware" => t.limit = RawPartSize
    BY <1>1, LengthFacts
  <1>3. ASSUME current_target = "firmware" PROVE ~board.active
    BY <1>1, <1>2, <1>3, FirmwareFacts DEF recovery_resolve_target
  <1>4. ASSUME current_target # "firmware"
        PROVE  /\ t.part = IF current_target = "uboot" THEN "bootloader"
                           ELSE current_target
               /\ t.ofs = 0
    BY <1>1, <1>2, <1>4, UbootFacts, FixedFacts
       DEF recovery_resolve_target, Targets
  <1>5. t.part \in PartNames /\ Size(t.part) \in Nat /\ Size(t.part) <= MaxSize
        /\ t.limit \in Nat /\ t.limit <= Size(t.part) /\ t.ofs \in Nat
        /\ t \in [backend : {"mtd", "ubi"}, part : PartNames, ofs : Sizes,
                  limit : Int]
    BY <1>1, <1>2, BoardTypes DEF WellFormed, Sizes
  <1>6. ASSUME current_target # "firmware" PROVE RegionOk(t)
    <2>1. 0 % EraseSize = 0 /\ RawPartSize % EraseSize = 0 /\ 0 < RawPartSize
      BY UploadAssumption, SMT
    <2> QED
      BY <1>2, <1>4, <1>5, <1>6, <2>1 DEF RegionOk
  <1>7. ASSUME RegionOk(t) PROVE Own(t)
    <2>1. t.ofs + t.limit <= Size(t.part)
      BY <1>5, <1>7 DEF RegionOk
    <2>2. t.limit \in Sizes
      BY <1>5, UploadAssumption DEF Sizes
    <2>3. t \in [backend : {"mtd", "ubi"}, part : PartNames, ofs : Sizes,
                limit : Sizes]
      BY <1>5, <2>2
    <2> QED
      BY <1>2, <1>3, <1>4, <2>1, <2>3 DEF Own
  <1> QED
    BY <1>2, <1>3, <1>6, <1>7

\* A rebuild finds its partition, which has room for the upload.
LEMMA UbiErased ==
  ASSUME Inv, phase = "receiving",
         NEW t, t = recovery_resolve_target(ubi, current_target),
         t.backend = "ubi"
  PROVE  /\ current_target = "firmware"
         /\ Has(t.part) /\ recv_total <= Size(t.part)
         /\ Own(UbiTarget(t.part, Size(t.part)))
  <1>1. /\ board \in Boards /\ ubi \in UbiStates /\ current_target \in Targets
        /\ recv_total \in Int
        /\ LengthOk(ubi, current_target, recv_total)
    BY ReceivingFacts
  <1>2. t # NoTarget /\ WellFormed(t) /\ 0 < recv_total /\ recv_total <= t.limit
    BY <1>1, LengthFacts
  <1>3. current_target = "firmware"
    BY <1>1, <1>2, UbootFacts, FixedFacts DEF recovery_resolve_target, Targets
  <1>4. t.part = recovery_ubi_part /\ GeometryOk(recovery_ubi_part)
    BY <1>1, <1>2, <1>3, FirmwareFacts DEF recovery_resolve_target
  <1>5. t.part \in PartNames /\ Size(t.part) \in Nat /\ Size(t.part) <= MaxSize
        /\ t.limit \in Int /\ t.limit <= Size(t.part)
    BY <1>1, <1>2, BoardTypes DEF WellFormed
  <1>6. recv_total <= Size(t.part) /\ Size(t.part) > 0
    BY <1>1, <1>2, <1>5
  <1>7. Has(t.part)
    BY <1>5, <1>6 DEF Has, Size, PartNames
  <1>8. board.active => t.part = "ubi" /\ "ubi" \in board.valid
    BY <1>4 DEF recovery_ubi_part, GeometryOk
  <1>9. Size(t.part) \in Sizes /\ 0 \in Sizes
    BY <1>5, UploadAssumption DEF Sizes
  <1> QED
    BY <1>3, <1>5, <1>6, <1>7, <1>8, <1>9 DEF Own, UbiTarget

\* flash_image() turns an upload down for what is in it, or for an offset from
\* the environment, or it erases what belongs to the upload.
LEMMA FlashOutcome ==
  ASSUME Inv, NEW img \in Images \cup {NoImage}, FlashImage(img)
  PROVE  /\ ubi' \in UbiStates
         /\ \/ Refuse("image")
            \/ Refuse("region") /\ current_target = "firmware" /\ ~board.active
            \/ \E t : /\ Erase(t, img) /\ Own(t)
                      /\ current_target = "uboot" => Bootable(img)
  <1> DEFINE t == recovery_resolve_target(ubi, current_target)
             bad == /\ current_target = "uboot"
                    /\ ~recovery_validate_mtd0_bootloader_image(img)
  <1>1. /\ phase = "receiving"
        /\ img = NoImage <=> current_target # "uboot"
        /\ CASE bad -> Refuse("image") /\ UNCHANGED ubi
             [] ~bad /\ t.backend = "none" ->
                  Refuse("target") /\ ubi' = UbiResolved(ubi, current_target)
             [] ~bad /\ t.backend = "mtd" -> FlashMtd(t, img)
             [] ~bad /\ t.backend = "ubi" -> FlashUbi(t)
    BY Zenon DEF FlashImage
  <1>2. /\ board \in Boards /\ ubi \in UbiStates /\ current_target \in Targets
        /\ recv_total \in Int
        /\ LengthOk(ubi, current_target, recv_total)
    BY <1>1, ReceivingFacts
  <1>3. t.backend \in {"mtd", "ubi"}
    BY <1>2, LengthFacts DEF WellFormed
  <1>4. UbiResolved(ubi, current_target) \in UbiStates
    BY <1>2, ResolveStable
  <1>5. ~bad /\ current_target = "uboot" => Bootable(img)
    BY <1>1, FipCheckExact, UploadAssumption
  <1> HIDE DEF t, bad
  <1>6. CASE bad
    BY <1>1, <1>2, <1>6
  <1>7. CASE ~bad /\ t.backend = "mtd"
    <2>1. FlashMtd(t, img)
      BY <1>1, <1>7
    <2>2. /\ recv_total <= t.limit
          /\ current_target = "firmware" => ~board.active
          /\ current_target # "firmware" => t.limit = RawPartSize
          /\ current_target # "firmware" => RegionOk(t)
          /\ RegionOk(t) => Own(t)
      BY <1>1, <1>7, RawErased DEF t
    <2>3. ubi' \in UbiStates
      BY <1>4, <2>1 DEF FlashMtd
    <2>4. ~(current_target = "uboot" /\ t.limit # RawPartSize)
      BY <2>2
    <2>5. ~(recv_total > t.limit)
      <3>1. t.limit \in Int
        BY <1>2, LengthFacts DEF WellFormed, t
      <3> QED
        BY <1>2, <2>2, <3>1
    <2>6. CASE RegionOk(t)
      <3>1. Erase(t, img)
        BY <2>1, <2>4, <2>5, <2>6, Zenon DEF FlashMtd
      <3> QED
        BY <1>5, <1>7, <2>2, <2>3, <2>6, <3>1
    <2>7. CASE ~RegionOk(t)
      <3>1. Refuse("region")
        BY <2>1, <2>2, <2>4, <2>5, <2>7, Zenon DEF FlashMtd
      <3> QED
        BY <2>2, <2>3, <2>7, <3>1
    <2> QED
      BY <2>6, <2>7
  <1>8. CASE ~bad /\ t.backend = "ubi"
    <2>1. FlashUbi(t)
      BY <1>1, <1>8
    <2>2. /\ current_target = "firmware"
          /\ Has(t.part) /\ recv_total <= Size(t.part)
          /\ Own(UbiTarget(t.part, Size(t.part)))
      BY <1>1, <1>8, UbiErased DEF t
    <2>3. ubi' \in UbiStates
      BY <1>2, <2>1 DEF FlashUbi, UbiStates, OptName
    <2>4. ~(recv_total > Size(t.part))
      <3>1. t.part \in PartNames
        BY <1>2, LengthFacts DEF WellFormed, t
      <3> QED
        BY <1>2, <2>2, <3>1, BoardTypes
    <2>5. Erase(UbiTarget(t.part, Size(t.part)), img)
      BY <1>1, <2>1, <2>2, <2>4 DEF FlashUbi
    <2> QED
      BY <2>2, <2>3, <2>5
  <1> QED
    BY <1>3, <1>6, <1>7, <1>8

-----------------------------------------------------------------------------
(* Every step preserves the invariant                                      *)

\* At the start nothing is received or erased.
LEMMA InitInv == Init => Inv
  <1> SUFFICES ASSUME Init PROVE Inv
    OBVIOUS
  <1>1. ubi \in UbiStates
    <2>1. PICK p \in OptName, good \in SUBSET Attachable,
               kept \in {0, FactorySize} :
            ubi = [attached |-> p, error |-> FALSE, good |-> good, kept |-> kept]
      BY DEF Init
    <2>2. good \in SUBSET PartNames
      BY DEF PartNames, Attachable
    <2> QED
      BY <2>1, <2>2 DEF UbiStates
  <1>2. 0 \in Sizes
    BY UploadAssumption DEF Sizes
  <1>3. TypeOK
    BY <1>1, <1>2 DEF Init, TypeOK, UbiStates, Targets, NoTarget, OptName
  <1> QED
    BY <1>3 DEF Init, Inv, Promised, ErasedHere, OnlyItsPartition,
       FlashedBootloaderSound

\* An upload that is refused at once.
LEMMA RefusedInv ==
  ASSUME Inv,
         \/ BeginBadPath \/ BeginBadLayout
         \/ \E tgt \in Targets, query \in Queries, len \in -1 .. MaxSize + 1 :
              BeginBadLength(tgt, query, len)
  PROVE  Inv'
  <1>1. phase = "idle" /\ phase' = "idle" /\ recv_total' = 0
        /\ UNCHANGED <<board, recv_base, image, target>>
    BY DEF BeginBadPath, BeginBadLayout, BeginBadLength
  <1>2. Forgotten \in UbiStates
    BY DEF Inv, TypeOK, Forgotten, UbiStates
  <1>3. ubi' \in UbiStates /\ current_target' \in Targets
    <2>1. board \in Boards /\ current_target \in Targets
      BY DEF Inv, TypeOK
    <2>2. CASE BeginBadPath \/ BeginBadLayout
      BY <1>2, <2>1, <2>2 DEF BeginBadPath, BeginBadLayout, Targets
    <2>3. CASE \E tgt \in Targets, query \in Queries, len \in -1 .. MaxSize + 1 :
                 BeginBadLength(tgt, query, len)
      BY <1>2, <2>1, <2>3, ResolveStable DEF BeginBadLength
    <2> QED
      BY <2>2, <2>3
  <1>4. 0 \in Sizes
    BY UploadAssumption DEF Sizes
  <1>5. TypeOK'
    BY <1>1, <1>3, <1>4 DEF Inv, TypeOK, UbiStates
  <1> QED
    BY <1>1, <1>5 DEF Inv, Promised, ErasedHere, OnlyItsPartition,
       FlashedBootloaderSound

\* httpd_post_begin() with a target.
LEMMA BeginInv ==
  ASSUME Inv, NEW tgt \in Targets, NEW query \in Queries,
         NEW len \in -1 .. MaxSize + 1, Begin(tgt, query, len)
  PROVE  Inv'
  <1>1. board \in Boards /\ board' = board /\ Forgotten \in UbiStates
    BY DEF Inv, TypeOK, Forgotten, UbiStates, Begin
  <1>2. len \in Int /\ LengthOk(Forgotten, tgt, len)
    <2>1. len \in Int
      BY UploadAssumption
    <2>2. LengthOk(Forgotten, tgt, len)
      BY DEF Begin
    <2> QED
      BY <2>1, <2>2
  <1>3. len \in Sizes
    BY <1>1, <1>2, LengthFacts
  <1>4. /\ ubi' \in UbiStates
        /\ recovery_resolve_target(ubi', tgt) = recovery_resolve_target(Forgotten, tgt)
    BY <1>1, ResolveStable DEF Begin
  <1>5. LengthOk(ubi', tgt, len)
    BY <1>2, <1>4 DEF LengthOk, UploadMax, TargetMax
  <1>6. UploadBase(len) # -1 =>
          UploadBase(len) \in Sizes /\ UploadBase(len) + len <= board.ram
    <2>1. /\ board.addr \in Sizes /\ Fallback \in Sizes
          /\ \A n \in Sizes : n \in Int
          /\ board.ram \in Nat
      BY <1>1, BoardTypes, UploadAssumption DEF Sizes
    <2> QED
      BY <1>2, <2>1 DEF UploadBase, RoomAt
  <1>7. CASE UploadBase(len) = -1
    <2>1. /\ phase' = "idle" /\ current_target' = tgt /\ recv_total' = len
          /\ UNCHANGED <<board, recv_base, image, target>>
      BY <1>7 DEF Begin
    <2>2. TypeOK'
      BY <1>3, <1>4, <2>1 DEF Inv, TypeOK, UbiStates
    <2> QED
      BY <2>1, <2>2 DEF Inv, Promised, ErasedHere, OnlyItsPartition,
         FlashedBootloaderSound
  <1>8. CASE UploadBase(len) # -1
    <2>1. /\ phase' = "receiving" /\ why' = ""
          /\ current_target' = tgt /\ recv_total' = len
          /\ recv_base' = UploadBase(len)
          /\ UNCHANGED <<board, image, target>>
      BY <1>8 DEF Begin
    <2>2. TypeOK'
      BY <1>3, <1>4, <1>6, <1>8, <2>1 DEF Inv, TypeOK, UbiStates
    <2>3. Promised'
      BY <1>1, <1>5, <2>1, BoardKept DEF Promised
    <2> QED
      BY <2>1, <2>2, <2>3 DEF Inv, ErasedHere, OnlyItsPartition,
         FlashedBootloaderSound
  <1> QED
    BY <1>7, <1>8

\* The upload is lost, or flash_image() has ended.
LEMMA EndInv ==
  ASSUME Inv, UploadLost \/ EndMtd \/ EndUbi
  PROVE  Inv'
  <1>1. /\ phase' = "idle"
        /\ UNCHANGED <<board, current_target, recv_total, recv_base>>
    BY DEF UploadLost, EndMtd, EndUbi
  <1>2. ubi \in UbiStates
    BY DEF Inv, TypeOK, UbiStates
  <1>3. ubi' \in UbiStates
    <2>1. CASE UploadLost
      BY <1>2, <2>1 DEF UploadLost
    <2>2. CASE EndMtd
      <3>1. PICK good \in Rewritten(target.part) :
              ubi' = [ubi EXCEPT !.good = good]
        BY <2>2 DEF EndMtd
      <3>0. target.part \in PartNames
        BY <2>2 DEF EndMtd, Inv, ErasedHere
      <3>2. good \in SUBSET PartNames
        BY <1>2, <3>0, <3>1 DEF UbiStates, Rewritten
      <3> QED
        BY <1>2, <3>1, <3>2 DEF UbiStates
    <2>3. CASE EndUbi
      <3>1. target.part \in OptName
        BY DEF Inv, TypeOK
      <3>2. ASSUME NEW kept \in {0, FactorySize},
                   ubi' = [attached |-> target.part, error |-> FALSE,
                           good |-> ubi.good \cup {target.part}, kept |-> kept]
            PROVE  ubi' \in UbiStates
        <4>1. target.part \in PartNames
          BY <2>3 DEF EndUbi, Inv, ErasedHere
        <4>2. ubi.good \cup {target.part} \in SUBSET PartNames
          BY <1>2, <4>1 DEF UbiStates
        <4> QED
          BY <3>1, <3>2, <4>2 DEF UbiStates
      <3>3. ASSUME NEW failed \in BOOLEAN,
                   NEW good \in Rewritten(target.part),
                   ubi' = [ubi EXCEPT !.error = failed, !.good = good]
            PROVE  ubi' \in UbiStates
        <4>2. target.part \in PartNames
          BY <2>3 DEF EndUbi, Inv, ErasedHere
        <4>1. good \in SUBSET PartNames
          BY <1>2, <4>2 DEF UbiStates, Rewritten
        <4> QED
          BY <1>2, <3>3, <4>1 DEF UbiStates
      <3> QED
        BY <2>3, <3>2, <3>3 DEF EndUbi
    <2> QED
      BY <2>1, <2>2, <2>3
  <1>4. 0 \in Sizes
    BY UploadAssumption DEF Sizes
  <1>5. TypeOK'
    <2>1. UNCHANGED <<image, target>> \/ (image' = NoImage /\ target' = NoTarget)
      BY DEF UploadLost, EndMtd, EndUbi
    <2>2. image' \in Images \cup {NoImage}
          /\ target' \in [backend : {"none", "mtd", "ubi"}, part : OptName,
                         ofs : Sizes, limit : Sizes]
      <3>1. NoTarget \in [backend : {"none", "mtd", "ubi"}, part : OptName,
                          ofs : Sizes, limit : Sizes]
        BY <1>4 DEF NoTarget, OptName
      <3>2. image \in Images \cup {NoImage}
            /\ target \in [backend : {"none", "mtd", "ubi"}, part : OptName,
                          ofs : Sizes, limit : Sizes]
        BY DEF Inv, TypeOK
      <3> QED
        BY <2>1, <3>1, <3>2
    <2> QED
      BY <1>1, <1>3, <2>2 DEF Inv, TypeOK, UbiStates
  <1> QED
    BY <1>1, <1>5 DEF Inv, Promised, ErasedHere, OnlyItsPartition,
       FlashedBootloaderSound

\* flash_image() up to the erase.
LEMMA FlashInv ==
  ASSUME Inv, NEW img \in Images \cup {NoImage}, FlashImage(img)
  PROVE  Inv'
  <1>1. /\ phase = "receiving" /\ ubi' \in UbiStates
        /\ UNCHANGED <<board, current_target, recv_total, recv_base>>
    BY FlashOutcome DEF FlashImage
  <1>2. ASSUME NEW reason, Refuse(reason) PROVE Inv'
    <2>1. phase' = "idle" /\ UNCHANGED <<target, image>>
      BY <1>2 DEF Refuse
    <2>2. TypeOK'
      BY <1>1, <2>1 DEF Inv, TypeOK, UbiStates
    <2> QED
      BY <2>1, <2>2 DEF Inv, Promised, ErasedHere, OnlyItsPartition,
         FlashedBootloaderSound
  <1>3. ASSUME NEW t, Erase(t, img), Own(t),
               current_target = "uboot" => Bootable(img)
        PROVE  Inv'
    <2>1. phase' = "flashing" /\ target' = t /\ image' = img
      BY <1>3 DEF Erase
    <2>2. TypeOK'
      BY <1>1, <1>3, <2>1 DEF Inv, TypeOK, UbiStates, Own, OptName
    <2>3. 0 < recv_total
      BY <1>1, ReceivingFacts DEF LengthOk
    <2>4. OnlyItsPartition'
      BY <1>1, <1>3, <2>1, <2>3 DEF OnlyItsPartition, Own, Size
    <2>5. ErasedHere' /\ Promised' /\ FlashedBootloaderSound'
      BY <1>1, <1>3, <2>1 DEF ErasedHere, Own, Promised, FlashedBootloaderSound,
         Bootable
    <2> QED
      BY <2>2, <2>4, <2>5 DEF Inv
  <1> QED
    BY <1>2, <1>3, FlashOutcome

\* Every step keeps the invariant.
LEMMA NextInv == Inv /\ [Next]_vars => Inv'
  <1>1. ASSUME Inv, UNCHANGED vars PROVE Inv'
    <2>1. (TypeOK /\ ErasedHere /\ OnlyItsPartition /\ FlashedBootloaderSound)'
      BY <1>1 DEF vars, Inv, TypeOK, ErasedHere, OnlyItsPartition, Size,
         FlashedBootloaderSound, Bootable
    <2>2. Promised'
      BY <1>1, BoardKept DEF vars, Inv, Promised
    <2> QED
      BY <2>1, <2>2 DEF Inv
  <1> QED
    BY <1>1, RefusedInv, BeginInv, EndInv, FlashInv DEF Next

\* So the invariant holds throughout.
LEMMA SpecInv == Spec => []Inv
  BY InitInv, NextInv, PTL DEF Spec

-----------------------------------------------------------------------------

\* Types, and an upload that is being received or flashed lies in RAM.
THEOREM TypeCorrect == Spec => []TypeOK
  <1>1. Inv => TypeOK
    BY DEF Inv
  <1> QED
    BY <1>1, SpecInv, PTL

\* What is erased is the upload's own partition and big enough for it, whatever
\* the environment and the partition table say.
THEOREM ErasesOnlyItsPartition == Spec => []OnlyItsPartition
  <1>1. Inv => OnlyItsPartition
    BY DEF Inv
  <1> QED
    BY <1>1, SpecInv, PTL

\* The bootloader is erased only for an image that BL2 can boot from.
THEOREM BootloaderSound == Spec => []FlashedBootloaderSound
  <1>1. Inv => FlashedBootloaderSound
    BY DEF Inv
  <1> QED
    BY <1>1, SpecInv, PTL

\* An accepted upload is not turned down later for its size or for want of a
\* target, although resolving its target changes the UBI it is resolved with.
THEOREM AcceptedKeepsTarget == Spec => AcceptedHasTarget
  <1> DEFINE A == phase = "receiving" =>
                    /\ why' \notin {"target", "size", "length"}
                    /\ why' = "region" =>
                         current_target = "firmware" /\ ~board.active
  <1>1. Inv /\ [Next]_vars => [A]_vars
    <2> SUFFICES ASSUME Inv, Next, phase = "receiving" PROVE A
      BY DEF vars
    <2>1. why = ""
      BY DEF Inv, Promised
    <2>2. CASE UploadLost
      BY <2>2 DEF UploadLost
    <2>3. CASE \E img \in Images \cup {NoImage} : FlashImage(img)
      <3>1. PICK img \in Images \cup {NoImage} : FlashImage(img)
        BY <2>3
      <3> QED
        BY <2>1, <3>1, FlashOutcome DEF Refuse, Erase
    <2> QED
      BY <2>2, <2>3 DEF Next, BeginBadPath, BeginBadLayout, BeginBadLength,
         Begin, EndMtd, EndUbi
  <1> QED
    BY <1>1, SpecInv, PTL DEF Spec, AcceptedHasTarget
=============================================================================
