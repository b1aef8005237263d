--------------------------- MODULE MCUploadTarget ---------------------------
(***************************************************************************)
(* UploadTarget for TLC.  Sizes are in half eraseblocks: mtd0, uenv and    *)
(* dsd have 4, UBI 8, the NOR flash 6.                                     *)
(***************************************************************************)
EXTENDS UploadTarget

Layout(boot, uenv, fit, u, nor) ==
  [p \in PartNames |-> CASE p = "bootloader" -> boot [] p = "uenv" -> uenv
                         [] p = "dsd" -> 4 [] p = "fit" -> fit
                         [] p = "ubi" -> u [] p = "nor0" -> nor
                         [] p = "legacy" -> 8]

\* An XG2010G or XR1710G with its own environment.
Plain ==
  [active |-> TRUE, part |-> Layout(4, 4, 0, 8, 0), valid |-> {"ubi"},
   mtd |-> "fit", mtd_uboot |-> "bootloader", dev |-> "", ubi_part |-> "ubi",
   ofs |-> 0, size |-> 0, size_uboot |-> 4, max |-> 0, addr |-> 2, ram |-> 12]

\* Environments left by an older layout, and partitions of other sizes.
Active ==
  {Plain} \cup
  {[Plain EXCEPT !.dev = d, !.mtd = m, !.ubi_part = "legacy", !.ofs = 4] :
     d \in {"dsd", "legacy", ""}, m \in {"dsd", "uenv"}} \cup
  {[Plain EXCEPT !.mtd_uboot = n, !.size_uboot = c] :
     n \in {"", "bootloader", "dsd", "ubi"}, c \in {0, 2, 4, 9}} \cup
  {[Plain EXCEPT !.part = Layout(b, e, 8, u, 0), !.valid = v] :
     b \in {0, 2, 6}, e \in {0, 4, 6}, u \in {0, 8}, v \in {{}, {"ubi"}}} \cup
  {[Plain EXCEPT !.max = m, !.addr = a, !.ram = r] :
     m \in {0, 3}, a \in {0, 6, 9}, r \in {5, 8, 9}}

\* A board without recovery ops, which follows its environment.
Inactive ==
  {[Plain EXCEPT !.active = FALSE, !.valid = {}, !.part = Layout(4, 4, f, u, n),
                 !.mtd = "", !.dev = d, !.ubi_part = p, !.ofs = o, !.size = c] :
     f \in {0, 8}, u \in {0, 8}, n \in {0, 6}, d \in {"", "nor0"},
     p \in {"", "legacy"}, o \in {0, 1, 4, 8}, c \in {0, 3}}

MCBoards == Active \cup Inactive

\* Offsets and sizes around the size of the FIP and around the end of the
\* word; tables of one entry, or of two with each kind of first entry.
Bl33(o, n) == [uuid |-> "nt_fw", offset |-> o, size |-> n]
NoPayload(u) == [uuid |-> u, offset |-> 0, size |-> 0]
Entries ==
  {NoPayload("zero"), NoPayload("other")} \cup
  {Bl33(o, n) : o \in {0, 4, 5, 6, 15}, n \in {0, 1, 5, 6, 15}}
Firsts == {NoPayload("zero"), NoPayload("other"), Bl33(1, 4), Bl33(4, 15)}
Tables == {<<e>> : e \in Entries} \cup {<<f, e>> : f \in Firsts, e \in Entries}

MCImages ==
  [prefix : {"nop"}, magic : {TRUE}, bypass : {TRUE}, toc : Tables] \cup
  [prefix : Prefixes, magic : BOOLEAN, bypass : BOOLEAN, toc : {<<Bl33(1, 4)>>}]
=============================================================================
