------------------------------ MODULE FipImage ------------------------------
(***************************************************************************)
(* The check that flash_image() makes of a bootloader image before it      *)
(* erases mtd0: recovery_validate_mtd0_bootloader_image() and what it      *)
(* calls.                                                                  *)
(*                                                                         *)
(* Of an image the model keeps what the check looks at: the prefix, the    *)
(* FIP magic, the BYPASS_FWUPGRADE flag and the table of contents, a       *)
(* sequence of as many entries as fit between the ToC header and the end   *)
(* of the image (the loop's bound).  Offsets and sizes are unsigned and    *)
(* Width bits wide.                                                        *)
(***************************************************************************)
EXTENDS Integers, Sequences, FiniteSetsExt

CONSTANTS
  Width,     \* bits of a payload offset and size (64 in the code)
  FipSize    \* size of the FIP: the image without its prefix

ASSUME FipAssumption ==
  /\ Width \in Nat \ {0}
  /\ FipSize \in Nat \ {0}
  /\ FipSize < 2^Width

Word == 0 .. 2^Width - 1

\* An entry of the table of contents.  A zero UUID ends the table.
Entry == [uuid : {"zero", "nt_fw", "other"}, offset : Word, size : Word]

\* "torn": starts with 0xFFFFFFFF but is not erased up to the FIP.
Prefixes == {"nop", "erased", "torn", "zero", "other"}

Image ==
  [prefix : Prefixes, magic : BOOLEAN, bypass : BOOLEAN, toc : Seq(Entry)]

\* recovery_validate_mtd0_prefix()
recovery_validate_mtd0_prefix(prefix) == prefix \in {"nop", "erased"}

\* The index at which the loop over the table stops, 0 if at none.
StopsAt(toc) ==
  LET stops == {i \in DOMAIN toc : toc[i].uuid \in {"zero", "nt_fw"}}
  IN  IF stops = {} THEN 0 ELSE Min(stops)

\* Mutant: the end of the payload is computed before it is compared.
PayloadInsideWrapped(e) == (e.offset + e.size) % 2^Width <= FipSize

\* The two comparisons of a payload with the size of the FIP; neither
\* subtraction nor addition can leave the word.
PayloadInside(e) == e.offset <= FipSize /\ e.size <= FipSize - e.offset

\* recovery_validate_fip_payload() for the UUID of BL33.
recovery_validate_fip_payload(toc) ==
  LET i == StopsAt(toc)
  IN  i # 0 /\ toc[i].uuid = "nt_fw" /\ toc[i].size # 0 /\ PayloadInside(toc[i])

\* recovery_validate_mtd0_bootloader_image() of an image of the right size.
recovery_validate_mtd0_bootloader_image(img) ==
  /\ recovery_validate_mtd0_prefix(img.prefix)
  /\ img.magic
  /\ img.bypass
  /\ recovery_validate_fip_payload(img.toc)

-----------------------------------------------------------------------------

\* What BL2 needs of mtd0, in terms of bytes: the first BL33 entry before the
\* end of the table names a non-empty payload all of whose bytes are there.
Bootable(img) ==
  /\ img.prefix \in {"nop", "erased"}
  /\ img.magic /\ img.bypass
  /\ \E i \in DOMAIN img.toc :
       LET e == img.toc[i]
       IN  /\ e.uuid = "nt_fw"
           /\ \A j \in 1 .. i - 1 : img.toc[j].uuid = "other"
           /\ e.offset .. e.offset + e.size - 1 # {}
           /\ e.offset .. e.offset + e.size - 1 \subseteq 0 .. FipSize - 1
=============================================================================
