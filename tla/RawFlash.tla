------------------------------ MODULE RawFlash ------------------------------
(***************************************************************************)
(* The raw-MTD half of flash_image() in net/lwip/httpd_recovery.c: the     *)
(* bad-block pre-check, the block-by-block erase and the block-by-block    *)
(* write with read-back verification of an uploaded image.                 *)
(*                                                                         *)
(* One step is one loop iteration (one eraseblock).  The iterations of the *)
(* erase and write loops end in recovery_service_runtime(), which is where *)
(* the HTTP callbacks run; see RecoveryHttp for what they may do there.    *)
(*                                                                         *)
(* Abstractions: an offset is an eraseblock index; the contents of a block *)
(* is Old (whatever it held when the job started), Erased, Junk (partly    *)
(* erased or programmed, or marked bad) or the number of the image chunk   *)
(* it holds.  The NAND may fail any operation at any time, may program a   *)
(* block wrongly while reporting success, and power may be lost anywhere.  *)
(*                                                                         *)
(* A definition whose comment starts with "Mutant" is a plausible slip in  *)
(* the code; PROJECT.json says which definition it stands in for and which *)
(* property must then fail.                                                *)
(***************************************************************************)
EXTENDS Integers

CONSTANT NBlocks   \* eraseblocks in the target region (target.limit)

ASSUME NBlocksAssumption == NBlocks \in Nat \ {0}

Blocks == 0 .. NBlocks - 1

Targets == {"firmware", "uboot", "uenv", "dsd"}

\* Contents of an eraseblock that are not an image chunk.
Old == -3
Erased == -2
Junk == -1

Contents == {Old, Erased, Junk} \cup Blocks

VARIABLES
  target,       \* current_target of the job
  image,        \* image size, in eraseblock-sized chunks
  pc,           \* where flash_image() is: see Stages
  blk,          \* loop variable addr, as a block index
  nbad,         \* recovery_mtd_require_good_blocks(): bad
  written,      \* recovery_write_mtd_region(): written
  bad,          \* bad-block markers on the NAND
  cell,         \* contents of every eraseblock of the region
  ret,          \* return value of flash_image(): "none" while it runs
  prog_phase,   \* -1 error, 0 idle, 1 erase, 2 write, 3 done
  prog          \* the other prog_* counters, in eraseblocks

Stages == {"idle", "check", "erase", "write", "end", "off"}

Progress == [erase_done : 0 .. NBlocks, erase_total : {0, NBlocks},
             write_done : 0 .. NBlocks, done : Nat, total : Nat]

vars == <<target, image, pc, blk, nbad, written, bad, cell, ret, prog_phase,
          prog>>

-----------------------------------------------------------------------------

\* recovery_target_exact_size(): whole-partition images; firmware is free.
ExactTargets == Targets \ {"firmware"}

\* flash_image(): the two switches derived from current_target.
verify == target \in ExactTargets
strict_layout == target = "uboot"

\* A target and an image size that passed flash_image()'s size checks
\* (image_size # 0, image_size = exact, image_size <= target.limit).
AcceptedJob(t, n) == t \in ExactTargets => n = NBlocks

\* The counters as httpd_post_begin() left them, and at the start of a job
\* that is about to erase the whole region.
NoProgress == [erase_done |-> 0, erase_total |-> 0, write_done |-> 0,
               done |-> 0, total |-> 0]
StartProgress == [erase_done |-> 0, erase_total |-> NBlocks, write_done |-> 0,
                  done |-> 0, total |-> NBlocks + image]

Init ==
  /\ target \in Targets
  /\ image \in 1 .. NBlocks
  /\ AcceptedJob(target, image)
  /\ pc = "idle"
  /\ blk = 0 /\ nbad = 0 /\ written = 0
  /\ bad \in [Blocks -> BOOLEAN]
  /\ cell = [b \in Blocks |-> Old]
  /\ ret = "none"
  /\ prog_phase = 0
  /\ prog = NoProgress

-----------------------------------------------------------------------------

\* Every error exit of flash_image(): release the target, phase -1.
Fail ==
  /\ pc' = "end"
  /\ ret' = "error"
  /\ prog_phase' = -1
  /\ UNCHANGED <<target, image, blk, nbad, written, prog>>

\* The loop is left before the block is touched: its marker cannot be read.
\* Before the first block this is also recovery_mtd_validate_region() refusing
\* the region and, in the write loop, the read-back buffer not allocated.
LoopError == Fail /\ UNCHANGED <<bad, cell>>

StartErase ==
  /\ pc' = "erase"
  /\ blk' = 0
  /\ prog_phase' = 1
  /\ prog' = StartProgress

\* flash_image() reaches its MTD branch: only the bootloader is pre-checked.
Begin ==
  /\ pc = "idle"
  /\ IF strict_layout
       THEN pc' = "check" /\ UNCHANGED <<blk, prog_phase, prog>>
       ELSE StartErase
  /\ UNCHANGED <<target, image, nbad, written, bad, cell, ret>>

\* Mutant: the scan remembers only the last block's marker.
CheckBlockForgets ==
  /\ pc = "check" /\ blk < NBlocks
  /\ nbad' = IF bad[blk] THEN 1 ELSE 0
  /\ blk' = blk + 1
  /\ UNCHANGED <<target, image, pc, written, bad, cell, ret, prog_phase, prog>>

\* recovery_mtd_require_good_blocks(), one iteration: a bad block is counted
\* and the scan goes on.
CheckBlock ==
  /\ pc = "check" /\ blk < NBlocks
  /\ \/ LoopError
     \/ /\ nbad' = IF bad[blk] THEN nbad + 1 ELSE nbad
        /\ blk' = blk + 1
        /\ UNCHANGED <<target, image, pc, written, bad, cell, ret, prog_phase,
                       prog>>

\* The end of the scan: refuse, or start erasing.
CheckEnd ==
  /\ pc = "check" /\ blk = NBlocks
  /\ IF nbad = 0 THEN StartErase /\ UNCHANGED <<target, image, nbad, written, ret>>
                 ELSE Fail
  /\ UNCHANGED <<bad, cell>>

-----------------------------------------------------------------------------

\* recovery_mtd_mark_bad() succeeds.  The driver may erase the block on the
\* way, so nothing is known of what it holds afterwards.
MarkBad(b) ==
  /\ bad' = [bad EXCEPT ![b] = TRUE]
  /\ cell' = [cell EXCEPT ![b] = Junk]

\* Mutant: no clamp, and the next block is counted too.
EraseProgressUnclamped(n) ==
  prog' = [prog EXCEPT !.erase_done = n + 1, !.done = n + 1 + prog.write_done]

\* recovery_update_erase_progress()
EraseProgress(n) ==
  LET e == IF n > prog.erase_total THEN prog.erase_total ELSE n
  IN  prog' = [prog EXCEPT !.erase_done = e, !.done = e + prog.write_done]

\* recovery_erase_mtd_region(), one iteration.  The unlock-and-retry inner
\* loop is one erase that ends well or badly.
EraseBlock ==
  /\ pc = "erase" /\ blk < NBlocks
  /\ \/ LoopError
     \/ \* the erase failed and so did marking the block
        /\ ~bad[blk]
        /\ Fail
        /\ \E c \in {cell[blk], Junk} : cell' = [cell EXCEPT ![blk] = c]
        /\ UNCHANGED bad
     \/ /\ \/ bad[blk] /\ UNCHANGED <<bad, cell>>
           \/ /\ ~bad[blk]
              /\ cell' = [cell EXCEPT ![blk] = Erased]
              /\ UNCHANGED bad
           \/ ~bad[blk] /\ MarkBad(blk)
        /\ EraseProgress(blk + 1)
        /\ blk' = blk + 1
        /\ UNCHANGED <<target, image, pc, nbad, written, ret, prog_phase>>

\* Mutant: the erase loop stops one block early (addr + erasesize < len).
EraseEndEarly ==
  /\ pc = "erase" /\ blk >= NBlocks - 1
  /\ pc' = "write" /\ prog_phase' = 2 /\ blk' = 0 /\ written' = 0
  /\ UNCHANGED <<target, image, nbad, bad, cell, ret, prog>>

\* The erase returned 0: phase 2, and recovery_write_mtd_region() starts.
EraseEnd ==
  /\ pc = "erase" /\ blk = NBlocks
  /\ pc' = "write" /\ prog_phase' = 2 /\ blk' = 0 /\ written' = 0
  /\ UNCHANGED <<target, image, nbad, bad, cell, ret, prog>>

\* What programming chunk n into a block that holds c may leave there: the
\* chunk only if the block was erased, and junk silently in any case.
Programmed(c, n) == IF c = Erased THEN {n, Junk} ELSE {Junk}

\* The chunk was accepted: count it.
WriteAccepted ==
  /\ written' = written + 1
  /\ prog' = [prog EXCEPT !.write_done = written + 1,
                          !.done = prog.erase_done + written + 1]

\* Mutant: a skipped block consumes its chunk of the image.
WriteSkippedCounted == WriteAccepted

\* A block the non-strict path gives up on: the same chunk is tried on the
\* next one.
WriteSkipped == UNCHANGED <<written, prog>>

WriteNext ==
  /\ blk' = blk + 1
  /\ UNCHANGED <<target, image, pc, nbad, ret, prog_phase>>

\* The iteration finds a marked block: fatal if strict, skipped otherwise.
WriteBad ==
  /\ bad[blk]
  /\ IF strict_layout THEN Fail ELSE WriteSkipped /\ WriteNext
  /\ UNCHANGED <<bad, cell>>

\* The block is programmed and, where verify is set, read back equal
\* (recovery_mtd_verify_write).
WriteGood ==
  /\ ~bad[blk]
  /\ \E c \in Programmed(cell[blk], written) :
       /\ verify => c = written
       /\ cell' = [cell EXCEPT ![blk] = c]
  /\ UNCHANGED bad
  /\ WriteAccepted
  /\ WriteNext

\* mtd_write() failed or was short, or the read-back failed or differed.
WriteFailed ==
  /\ ~bad[blk]
  /\ \/ /\ ~strict_layout
        /\ MarkBad(blk)
        /\ WriteSkipped
        /\ WriteNext
     \/ \* strict, or the block could not be marked
        /\ \E c \in {cell[blk]} \cup Programmed(cell[blk], written) :
             cell' = [cell EXCEPT ![blk] = c]
        /\ UNCHANGED bad
        /\ Fail

\* recovery_write_mtd_region(), one iteration.
WriteBlock ==
  /\ pc = "write" /\ blk < NBlocks /\ written < image
  /\ LoopError \/ WriteBad \/ WriteGood \/ WriteFailed

\* Mutant: the loop ends only with the image, not with the region.
WriteEndUnlimited ==
  /\ pc = "write" /\ written = image
  /\ pc' = "end" /\ ret' = "ok" /\ prog_phase' = 3
  /\ UNCHANGED <<target, image, blk, nbad, written, prog, bad, cell>>

\* The end of the write loop: -ENOSPC, or success and phase 3.
WriteEnd ==
  /\ pc = "write" /\ (blk = NBlocks \/ written = image)
  /\ IF written < image
       THEN Fail
       ELSE /\ pc' = "end" /\ ret' = "ok" /\ prog_phase' = 3
            /\ UNCHANGED <<target, image, blk, nbad, written, prog>>
  /\ UNCHANGED <<bad, cell>>

-----------------------------------------------------------------------------

\* Power is lost.  A good block being erased or programmed is left half done.
PowerCut ==
  /\ pc # "off"
  /\ pc' = "off"
  /\ \/ UNCHANGED cell
     \/ /\ \/ pc = "erase"
           \/ pc = "write" /\ written < image
        /\ blk < NBlocks /\ ~bad[blk]
        /\ cell' = [cell EXCEPT ![blk] = Junk]
  /\ UNCHANGED <<target, image, blk, nbad, written, bad, ret, prog_phase, prog>>

\* The next upload reaches flash_image(): after a failure the server keeps
\* running, after success or a power cut the board restarts.  What the NAND
\* holds is the new job's Old; markers stay.
NewJob ==
  /\ pc \in {"end", "off"}
  /\ \E t \in Targets, n \in 1 .. NBlocks :
       AcceptedJob(t, n) /\ target' = t /\ image' = n
  /\ pc' = "idle"
  /\ blk' = 0 /\ nbad' = 0 /\ written' = 0
  /\ cell' = [b \in Blocks |-> Old]
  /\ ret' = "none"
  /\ prog_phase' = 0
  /\ prog' = NoProgress
  /\ UNCHANGED bad

Job ==
  \/ Begin
  \/ CheckBlock \/ CheckEnd
  \/ EraseBlock \/ EraseEnd
  \/ WriteBlock \/ WriteEnd

Next == Job \/ PowerCut \/ NewJob

Spec == Init /\ [][Next]_vars

\* The main loop of run_http_recovery() is the only thread, and every MTD
\* call of it returns: a running job is never left standing.
FairSpec == Spec /\ WF_vars(Job)

-----------------------------------------------------------------------------

\* The type invariant.
TypeOK ==
  /\ target \in Targets
  /\ image \in 1 .. NBlocks
  /\ pc \in Stages
  /\ blk \in 0 .. NBlocks
  /\ nbad \in 0 .. NBlocks
  /\ written \in 0 .. NBlocks
  /\ bad \in [Blocks -> BOOLEAN]
  /\ cell \in [Blocks -> Contents]
  /\ ret \in {"none", "ok", "error"}
  /\ prog_phase \in -1 .. 3
  /\ prog \in Progress

\* Nothing of the region was touched by this job.
Intact == \A b \in Blocks : cell[b] = Old

\* Every block of the region is good and holds the chunk of its own offset.
Exact == \A b \in Blocks : ~bad[b] /\ cell[b] = b

\* A bootloader, uenv or dsd flash that reports success has put every byte of
\* the image at its own offset, on good blocks only: also for uenv and dsd,
\* whose write path skips bad blocks, and whatever the NAND did meanwhile
\* (flash_image() returns 0 => recovery_write_mtd_region() shifted nothing).
SuccessIsExact == ret = "ok" /\ target \in ExactTargets => Exact

\* The /status page shows 100 % (prog_done = prog_total) only when the whole
\* image is on the flash, even if the job then fails or loses power.
FullProgressIsExact ==
  target \in ExactTargets /\ prog.total > 0 /\ prog.done = prog.total => Exact

\* A bootloader flash touches its first block only when no block of the
\* region is marked bad: recovery_mtd_require_good_blocks() refuses before a
\* single byte is erased (README.md:122, doc/board/airoha/xg2010g.rst:423).
StrictTouchesOnlyGoodRegion ==
  [][strict_layout /\ Intact /\ ~Intact' => \A b \in Blocks : ~bad[b]]_vars

\* A block marked bad stays marked, and is never erased or programmed again,
\* in this job or a later one.
BadBlocksLeftAlone ==
  [][\A b \in Blocks :
       bad[b] => bad'[b] /\ (pc' # "idle" => cell'[b] = cell[b])]_vars

\* The write loop only ever programs blocks that the erase loop has blanked:
\* no NAND page is programmed over old data.
ProgramsOnlyErased ==
  [][\A b \in Blocks :
       pc = "write" /\ cell'[b] # cell[b] => cell[b] = Erased]_vars

\* A started job ends (or power is lost): no loop waits for a block that is
\* bad, skipped or failing.
JobEnds == pc = "idle" ~> pc \in {"end", "off"}
-----------------------------------------------------------------------------

\* An update as PartitionUpdate sees it: it has not started until the first
\* erase, and has ended when flash_image() returns.
UpdatePhase ==
  CASE pc \in {"idle", "check"} -> "idle"
    [] pc \in {"erase", "write"} -> "busy"
    [] pc = "end" -> IF ret = "ok" THEN "done" ELSE "failed"
    [] OTHER -> "off"

UpdateRegion ==
  [b \in Blocks |-> IF cell[b] = Old THEN "old"
                    ELSE IF cell[b] = b THEN "new" ELSE "other"]

Update == INSTANCE PartitionUpdate WITH
  strict <- strict_layout,
  exact <- verify,
  bad <- {b \in Blocks : bad[b]},
  region <- UpdateRegion,
  phase <- UpdatePhase

\* flash_image() on a raw partition implements an abstract update: a refusal
\* leaves the partition as it was, a job that cannot skip blocks starts only
\* on a good region, success of an offset-preserving job means the image is
\* there at its offsets, and nothing is touched before the start or after the
\* end, whatever the NAND and the power supply do.
ImplementsUpdate == Update!Spec
=============================================================================
