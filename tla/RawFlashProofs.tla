--------------------------- MODULE RawFlashProofs ---------------------------
(***************************************************************************)
(* TLAPS proofs about RawFlash, for a region of any number of eraseblocks. *)
(*                                                                         *)
(* Inv is the inductive invariant.  SuccessIsExact is not inductive: what  *)
(* makes it true is that the write loop counts a chunk exactly when it     *)
(* fills a block (written <= blk), so that a whole-partition image can     *)
(* only be complete if no block was skipped (written = blk), and then      *)
(* every chunk sits at its own offset.                                     *)
(***************************************************************************)
EXTENDS RawFlash, TLAPS

-----------------------------------------------------------------------------

\* Until the erase starts nothing was touched and no progress is shown.
InvUntouched ==
  /\ pc = "idle" => blk = 0 /\ nbad = 0
  /\ pc \in {"idle", "check"} => Intact /\ prog = NoProgress

\* The scan: as long as it has counted no bad block it has seen none.
InvCheck ==
  pc = "check" =>
    /\ strict_layout
    /\ nbad <= blk
    /\ nbad = 0 => \A b \in 0 .. blk - 1 : ~bad[b]

\* While the bootloader is erased and written, the only bad blocks are those
\* this job has marked, and those are no longer Old.
InvStrict ==
  strict_layout /\ pc \in {"erase", "write"} =>
    \A b \in Blocks : bad[b] => cell[b] = Junk

\* The erase loop leaves a blank or bad block behind it.
InvErase ==
  pc = "erase" =>
    /\ prog.erase_done = blk /\ prog.write_done = 0 /\ prog.done = blk
    /\ prog.erase_total = NBlocks /\ prog.total = NBlocks + image
    /\ \A b \in 0 .. blk - 1 : bad[b] \/ cell[b] = Erased

\* The write loop has blank or bad blocks before it and, as long as it has
\* skipped none, the image at its own offsets behind it.
InvWrite ==
  pc = "write" =>
    /\ written <= blk /\ written <= image
    /\ prog.erase_done = NBlocks /\ prog.write_done = written
    /\ prog.done = NBlocks + written /\ prog.total = NBlocks + image
    /\ \A b \in blk .. NBlocks - 1 : bad[b] \/ cell[b] = Erased
    /\ verify /\ written = blk =>
         \A b \in 0 .. blk - 1 : ~bad[b] /\ cell[b] = b

\* An answer is given when the job ends and not before; the counters of a job
\* that has ended are what the loops left.
InvEnd ==
  /\ ret = "ok" => pc \in {"end", "off"}
  /\ prog.done <= prog.total
  /\ prog.total \in {0, NBlocks + image}

Inv ==
  /\ TypeOK
  /\ AcceptedJob(target, image)
  /\ InvUntouched /\ InvCheck /\ InvStrict /\ InvErase /\ InvWrite /\ InvEnd
  /\ SuccessIsExact
  /\ FullProgressIsExact

-----------------------------------------------------------------------------

\* The initial states of a job satisfy the invariant.
LEMMA InitInv == Init => Inv
  <1> SUFFICES ASSUME Init PROVE Inv
    OBVIOUS
  <1>1. TypeOK
    BY NBlocksAssumption DEF Init, TypeOK, Blocks, Contents, Stages, Progress,
       NoProgress, Old
  <1>2. InvUntouched /\ InvCheck /\ InvStrict /\ InvErase /\ InvWrite
    BY DEF Init, InvUntouched, InvCheck, InvStrict, InvErase, InvWrite, Intact
  <1>3. InvEnd /\ SuccessIsExact /\ FullProgressIsExact
    BY DEF Init, InvEnd, SuccessIsExact, FullProgressIsExact, NoProgress
  <1> QED
    BY <1>1, <1>2, <1>3 DEF Init, Inv

\* flash_image() entering its MTD branch preserves the invariant.
LEMMA BeginInv == Inv /\ Begin => Inv'
  <1> SUFFICES ASSUME Inv, Begin PROVE Inv'
    OBVIOUS
  <1> USE NBlocksAssumption DEF Inv, Begin
  <1>1. TypeOK'
    BY DEF TypeOK, StartErase, StartProgress, NoProgress, Progress, Stages
  <1>2. (InvUntouched /\ InvCheck /\ InvStrict)'
    BY DEF TypeOK, InvUntouched, InvCheck, InvStrict, StartErase, Intact,
       strict_layout, Blocks
  <1>3. (InvErase /\ InvWrite)'
    BY DEF TypeOK, InvUntouched, InvErase, InvWrite, StartErase, StartProgress,
       NoProgress
  <1>4. (InvEnd /\ SuccessIsExact /\ FullProgressIsExact)'
    BY DEF TypeOK, InvEnd, SuccessIsExact, FullProgressIsExact, StartErase,
       StartProgress, NoProgress, Exact
  <1> QED
    BY <1>1, <1>2, <1>3, <1>4 DEF AcceptedJob

\* An error exit preserves the invariant, provided it leaves the flash alone
\* or the progress counters below 100 %.
LEMMA FailInv ==
  ASSUME Inv, Fail,
         bad' \in [Blocks -> BOOLEAN], cell' \in [Blocks -> Contents],
         UNCHANGED <<bad, cell>> \/ prog.done # prog.total
  PROVE  Inv'
  <1>1. TypeOK'
    BY DEF Inv, Fail, TypeOK, Stages
  <1>2. (InvUntouched /\ InvCheck /\ InvStrict /\ InvErase /\ InvWrite)'
    BY DEF Fail, InvUntouched, InvCheck, InvStrict, InvErase, InvWrite
  <1>3. (AcceptedJob(target, image) /\ InvEnd /\ SuccessIsExact)'
    BY DEF Inv, Fail, AcceptedJob, InvEnd, SuccessIsExact
  <1>4. FullProgressIsExact'
    BY DEF Inv, Fail, FullProgressIsExact, Exact
  <1> QED
    BY <1>1, <1>2, <1>3, <1>4 DEF Inv

\* One iteration of the bad-block scan preserves the invariant.
LEMMA CheckBlockInv == Inv /\ CheckBlock => Inv'
  <1> SUFFICES ASSUME Inv, CheckBlock PROVE Inv'
    OBVIOUS
  <1>1. CASE LoopError
    BY <1>1, FailInv DEF Inv, TypeOK, LoopError
  <1>2. CASE ~LoopError
    <2> USE NBlocksAssumption, <1>2 DEF CheckBlock
    <2>1. TypeOK'
      BY DEF Inv, TypeOK, InvCheck
    <2>2. InvCheck'
      BY DEF Inv, TypeOK, InvCheck, strict_layout, Blocks
    <2>3. (InvUntouched /\ InvStrict /\ InvErase /\ InvWrite)'
      BY DEF Inv, InvUntouched, InvStrict, InvErase, InvWrite, Intact
    <2>4. (AcceptedJob(target, image) /\ InvEnd /\ SuccessIsExact
             /\ FullProgressIsExact)'
      BY DEF Inv, AcceptedJob, InvEnd, SuccessIsExact, FullProgressIsExact,
         Exact
    <2> QED
      BY <2>1, <2>2, <2>3, <2>4 DEF Inv
  <1> QED
    BY <1>1, <1>2

\* The end of the scan preserves the invariant: an erase that starts here has
\* not a single bad block before it.
LEMMA CheckEndInv == Inv /\ CheckEnd => Inv'
  <1> SUFFICES ASSUME Inv, CheckEnd PROVE Inv'
    OBVIOUS
  <1>1. CASE nbad # 0
    BY <1>1, FailInv DEF Inv, TypeOK, CheckEnd
  <1>2. CASE nbad = 0
    <2> USE NBlocksAssumption, <1>2 DEF CheckEnd, StartErase
    <2>1. TypeOK'
      BY DEF Inv, TypeOK, StartProgress, Progress, Stages
    <2>2. \A b \in Blocks : ~bad[b]
      BY DEF Inv, InvCheck, Blocks
    <2>3. (InvUntouched /\ InvCheck /\ InvStrict /\ InvErase /\ InvWrite)'
      BY <2>2 DEF Inv, TypeOK, InvUntouched, InvCheck, InvStrict, InvErase,
         InvWrite, StartProgress, Blocks
    <2>4. (AcceptedJob(target, image) /\ InvEnd /\ SuccessIsExact
             /\ FullProgressIsExact)'
      BY DEF Inv, TypeOK, AcceptedJob, InvEnd, SuccessIsExact,
         FullProgressIsExact, StartProgress, Exact
    <2> QED
      BY <2>1, <2>3, <2>4 DEF Inv
  <1> QED
    BY <1>1, <1>2

\* What one completed iteration of the erase loop does to the flash.
LEMMA EraseBlockInv == Inv /\ EraseBlock => Inv'
  <1> SUFFICES ASSUME Inv, EraseBlock PROVE Inv'
    OBVIOUS
  <1> USE NBlocksAssumption
  <1>0. /\ pc = "erase" /\ blk \in Blocks
        /\ prog.done # prog.total
    BY DEF Inv, TypeOK, InvErase, EraseBlock, Blocks
  <1>1. CASE LoopError
    BY <1>1, FailInv DEF Inv, TypeOK, LoopError
  <1>2. CASE /\ Fail
             /\ \E c \in {cell[blk], Junk} : cell' = [cell EXCEPT ![blk] = c]
             /\ UNCHANGED bad
    <2>1. cell' \in [Blocks -> Contents]
      BY <1>0, <1>2 DEF Inv, TypeOK, Contents
    <2> QED
      BY <1>0, <1>2, <2>1, FailInv DEF Inv, TypeOK
  <1>3. CASE /\ \/ bad[blk] /\ UNCHANGED <<bad, cell>>
                \/ /\ ~bad[blk]
                   /\ cell' = [cell EXCEPT ![blk] = Erased]
                   /\ UNCHANGED bad
                \/ ~bad[blk] /\ MarkBad(blk)
             /\ EraseProgress(blk + 1)
             /\ blk' = blk + 1
             /\ UNCHANGED <<target, image, pc, nbad, written, ret, prog_phase>>
    <2>1. /\ bad' \in [Blocks -> BOOLEAN] /\ cell' \in [Blocks -> Contents]
          /\ bad'[blk] \/ cell'[blk] = Erased
          /\ ~bad[blk] /\ bad'[blk] => cell'[blk] = Junk
          /\ \A b \in Blocks : b # blk => bad'[b] = bad[b] /\ cell'[b] = cell[b]
          /\ bad[blk] => bad'[blk] /\ cell'[blk] = cell[blk]
      BY <1>0, <1>3 DEF Inv, TypeOK, Contents, MarkBad
    <2>2. /\ prog' \in Progress
          /\ prog'.erase_done = blk + 1 /\ prog'.done = blk + 1
          /\ prog'.erase_total = NBlocks /\ prog'.write_done = 0
          /\ prog'.total = NBlocks + image
      <3>1. /\ prog.erase_total = NBlocks /\ prog.write_done = 0
            /\ prog.total = NBlocks + image /\ prog \in Progress
            /\ blk \in 0 .. NBlocks - 1 /\ image \in Nat
        BY <1>0 DEF Inv, TypeOK, InvErase, Blocks
      <3>2. ~(blk + 1 > prog.erase_total)
        BY <3>1
      <3>3. prog' = [prog EXCEPT !.erase_done = blk + 1,
                                 !.done = blk + 1 + prog.write_done]
        BY <1>3, <3>2 DEF EraseProgress
      <3>4. /\ blk + 1 \in 0 .. NBlocks /\ blk + 1 \in Nat
            /\ blk + 1 + prog.write_done = blk + 1
        BY <3>1
      <3>5. prog' = [prog EXCEPT !.erase_done = blk + 1, !.done = blk + 1]
        BY <3>3, <3>4
      <3>6. prog' \in Progress
        BY <3>1, <3>4, <3>5 DEF Progress
      <3>7. /\ prog'.erase_done = blk + 1 /\ prog'.done = blk + 1
            /\ prog'.erase_total = prog.erase_total
            /\ prog'.write_done = prog.write_done /\ prog'.total = prog.total
        BY <3>1, <3>5 DEF Progress
      <3> QED
        BY <3>1, <3>6, <3>7
    <2>3. TypeOK'
      BY <1>0, <1>3, <2>1, <2>2 DEF Inv, TypeOK, Blocks
    <2>4. InvErase'
      BY <1>0, <1>3, <2>1, <2>2 DEF Inv, TypeOK, InvErase, Blocks, Progress
    <2>5. InvStrict'
      BY <1>0, <1>3, <2>1 DEF Inv, TypeOK, InvStrict, strict_layout
    <2>6. (InvUntouched /\ InvCheck /\ InvWrite)'
      BY <1>0, <1>3 DEF InvUntouched, InvCheck, InvWrite
    <2>7. (AcceptedJob(target, image) /\ InvEnd)'
      BY <1>0, <1>3, <2>2 DEF Inv, TypeOK, AcceptedJob, InvErase, InvEnd,
         Progress, Blocks
    <2>8. (SuccessIsExact /\ FullProgressIsExact)'
      BY <1>0, <1>3, <2>2 DEF Inv, TypeOK, InvErase, InvEnd, SuccessIsExact,
         FullProgressIsExact, Progress, Blocks
    <2> QED
      BY <2>3, <2>4, <2>5, <2>6, <2>7, <2>8 DEF Inv
  <1> QED
    BY <1>1, <1>2, <1>3 DEF EraseBlock

\* Entering the write loop preserves the invariant.
LEMMA EraseEndInv == Inv /\ EraseEnd => Inv'
  <1> SUFFICES ASSUME Inv, EraseEnd PROVE Inv'
    OBVIOUS
  <1> USE NBlocksAssumption DEF EraseEnd
  <1>1. TypeOK'
    BY DEF Inv, TypeOK, Stages
  <1>2. (InvUntouched /\ InvCheck /\ InvStrict /\ InvErase)'
    BY DEF Inv, InvUntouched, InvCheck, InvStrict, InvErase, strict_layout
  <1>3. InvWrite'
    BY DEF Inv, TypeOK, InvErase, InvWrite
  <1>4. (AcceptedJob(target, image) /\ InvEnd /\ SuccessIsExact
           /\ FullProgressIsExact)'
    BY DEF Inv, TypeOK, AcceptedJob, InvEnd, InvErase, SuccessIsExact,
       FullProgressIsExact, Exact
  <1> QED
    BY <1>1, <1>2, <1>3, <1>4 DEF Inv

\* One iteration of the write loop preserves the invariant: a chunk is
\* counted exactly when it fills a block, so the count stays at or below the
\* block index and equals it only if nothing was skipped.
LEMMA WriteBlockInv == Inv /\ WriteBlock => Inv'
  <1> SUFFICES ASSUME Inv, WriteBlock PROVE Inv'
    OBVIOUS
  <1> USE NBlocksAssumption
  <1>0. /\ pc = "write" /\ blk \in Blocks /\ written < image
        /\ written \in 0 .. NBlocks - 1 /\ image \in 1 .. NBlocks
        /\ written \in Contents /\ prog.done # prog.total
    BY DEF Inv, TypeOK, InvWrite, WriteBlock, Blocks, Contents
  <1>1. CASE LoopError
    BY <1>1, FailInv DEF Inv, TypeOK, LoopError
  <1>2. CASE Fail /\ UNCHANGED <<bad, cell>>
    BY <1>2, FailInv DEF Inv, TypeOK
  <1>3. CASE /\ Fail /\ UNCHANGED bad
             /\ \E c \in {cell[blk]} \cup Programmed(cell[blk], written) :
                  cell' = [cell EXCEPT ![blk] = c]
    <2>1. cell' \in [Blocks -> Contents]
      BY <1>0, <1>3 DEF Inv, TypeOK, Contents, Programmed
    <2> QED
      BY <1>0, <1>3, <2>1, FailInv DEF Inv, TypeOK
  <1>4. ASSUME WriteNext, WriteSkipped,
               bad' \in [Blocks -> BOOLEAN], cell' \in [Blocks -> Contents],
               \A b \in Blocks : b # blk => bad'[b] = bad[b] /\ cell'[b] = cell[b],
               ~strict_layout
        PROVE  Inv'
    <2> USE <1>0, <1>4 DEF WriteNext, WriteSkipped
    <2>1. TypeOK'
      BY DEF Inv, TypeOK, Blocks
    <2>2. InvWrite'
      BY DEF Inv, TypeOK, InvWrite, Blocks, verify
    <2>3. (InvUntouched /\ InvCheck /\ InvStrict /\ InvErase)'
      BY DEF InvUntouched, InvCheck, InvStrict, InvErase, strict_layout
    <2>4. (AcceptedJob(target, image) /\ InvEnd /\ SuccessIsExact
             /\ FullProgressIsExact)'
      BY DEF Inv, AcceptedJob, InvEnd, SuccessIsExact, FullProgressIsExact
    <2> QED
      BY <2>1, <2>2, <2>3, <2>4 DEF Inv
  <1>5. CASE WriteBad
    <2>1. CASE strict_layout
      BY <1>2, <1>5, <2>1 DEF WriteBad
    <2>2. CASE ~strict_layout
      BY <1>4, <1>5, <2>2 DEF WriteBad, Inv, TypeOK
    <2> QED
      BY <2>1, <2>2
  <1>6. CASE WriteFailed
    <2>1. CASE /\ ~strict_layout
               /\ MarkBad(blk)
               /\ WriteSkipped
               /\ WriteNext
      <3>1. /\ bad' \in [Blocks -> BOOLEAN] /\ cell' \in [Blocks -> Contents]
            /\ \A b \in Blocks : b # blk => bad'[b] = bad[b] /\ cell'[b] = cell[b]
        BY <1>0, <2>1 DEF MarkBad, Inv, TypeOK, Contents
      <3> QED
        BY <1>4, <2>1, <3>1
    <2> QED
      BY <1>3, <1>6, <2>1 DEF WriteFailed
  <1>7. CASE WriteGood
    <2>1. PICK c \in Programmed(cell[blk], written) :
            /\ verify => c = written
            /\ cell' = [cell EXCEPT ![blk] = c]
      BY <1>7 DEF WriteGood
    <2>2. /\ ~bad[blk] /\ UNCHANGED bad /\ cell' \in [Blocks -> Contents]
          /\ cell'[blk] = c
          /\ \A b \in Blocks : b # blk => cell'[b] = cell[b]
      BY <1>0, <1>7, <2>1 DEF WriteGood, Inv, TypeOK, Contents, Programmed
    <2>3. /\ prog' \in Progress
          /\ prog'.erase_done = NBlocks /\ prog'.write_done = written + 1
          /\ prog'.done = NBlocks + written + 1
          /\ prog'.total = NBlocks + image
      <3>1. /\ prog.erase_done = NBlocks /\ prog.total = NBlocks + image
            /\ prog \in Progress
        BY <1>0 DEF Inv, TypeOK, InvWrite
      <3>2. prog' = [prog EXCEPT !.write_done = written + 1,
                                 !.done = NBlocks + written + 1]
        BY <1>7, <3>1 DEF WriteGood, WriteAccepted
      <3>3. written + 1 \in 0 .. NBlocks /\ NBlocks + written + 1 \in Nat
        BY <1>0
      <3>4. prog' \in Progress
        BY <3>1, <3>2, <3>3 DEF Progress
      <3>5. /\ prog'.erase_done = prog.erase_done
            /\ prog'.write_done = written + 1
            /\ prog'.done = NBlocks + written + 1 /\ prog'.total = prog.total
        BY <3>1, <3>2 DEF Progress
      <3> QED
        BY <3>1, <3>4, <3>5
    <2>4. /\ written' = written + 1 /\ blk' = blk + 1
          /\ UNCHANGED <<target, image, pc, nbad, ret, prog_phase>>
      BY <1>7 DEF WriteGood, WriteAccepted, WriteNext
    <2>5. TypeOK'
      BY <1>0, <2>2, <2>3, <2>4 DEF Inv, TypeOK, Blocks
    <2>6. InvWrite'
      BY <1>0, <2>1, <2>2, <2>3, <2>4 DEF Inv, TypeOK, InvWrite, Blocks, verify
    <2>7. (InvUntouched /\ InvCheck /\ InvErase)'
      BY <1>0, <2>4 DEF InvUntouched, InvCheck, InvErase
    <2>8. InvStrict'
      BY <1>0, <2>2, <2>4 DEF Inv, InvStrict, strict_layout
    <2>9. (AcceptedJob(target, image) /\ InvEnd /\ SuccessIsExact)'
      BY <1>0, <2>3, <2>4 DEF Inv, AcceptedJob, InvEnd, SuccessIsExact
    <2>10. FullProgressIsExact'
      <3> SUFFICES ASSUME target' \in ExactTargets, prog'.done = prog'.total
                   PROVE  Exact'
        BY DEF FullProgressIsExact
      <3>0. target \in ExactTargets
        BY <2>4
      <3>1. image = NBlocks
        BY <3>0 DEF Inv, AcceptedJob
      <3>3. NBlocks + written + 1 = NBlocks + image
        BY <2>3
      <3>4. written + 1 = NBlocks
        BY <1>0, <3>1, <3>3
      <3>2. blk' = NBlocks /\ written' = NBlocks
        BY <1>0, <2>4, <3>4 DEF Inv, TypeOK, InvWrite, Blocks
      <3> QED
        BY <1>0, <2>4, <2>6, <3>2 DEF InvWrite, verify, Exact, Blocks
    <2> QED
      BY <2>5, <2>6, <2>7, <2>8, <2>9, <2>10 DEF Inv
  <1> QED
    BY <1>1, <1>5, <1>6, <1>7 DEF WriteBlock

\* The end of the write loop preserves the invariant: success is only reported
\* for a complete image.
LEMMA WriteEndInv == Inv /\ WriteEnd => Inv'
  <1> SUFFICES ASSUME Inv, WriteEnd PROVE Inv'
    OBVIOUS
  <1> USE NBlocksAssumption
  <1>1. CASE written < image
    BY <1>1, FailInv DEF WriteEnd, Inv, TypeOK
  <1>2. CASE ~(written < image)
    <2> USE <1>2 DEF WriteEnd
    <2>1. TypeOK'
      BY DEF Inv, TypeOK, Stages
    <2>2. (InvUntouched /\ InvCheck /\ InvStrict /\ InvErase /\ InvWrite)'
      BY DEF InvUntouched, InvCheck, InvStrict, InvErase, InvWrite
    <2>3. (AcceptedJob(target, image) /\ InvEnd /\ FullProgressIsExact)'
      BY DEF Inv, AcceptedJob, InvEnd, FullProgressIsExact, Exact
    <2>4. SuccessIsExact'
      <3> SUFFICES ASSUME target \in ExactTargets PROVE Exact
        BY DEF SuccessIsExact, Exact
      <3>1. image = NBlocks /\ written = NBlocks /\ blk = NBlocks
        BY DEF Inv, TypeOK, AcceptedJob, InvWrite
      <3> QED
        BY <3>1 DEF Inv, InvWrite, verify, Exact, Blocks
    <2> QED
      BY <2>1, <2>2, <2>3, <2>4 DEF Inv
  <1> QED
    BY <1>1, <1>2

\* A power cut preserves the invariant: a block torn by it was part of a job
\* that showed less than 100 % and had given no answer.
LEMMA PowerCutInv == Inv /\ PowerCut => Inv'
  <1> SUFFICES ASSUME Inv, PowerCut PROVE Inv'
    OBVIOUS
  <1> USE NBlocksAssumption DEF PowerCut
  <1>1. TypeOK'
    BY DEF Inv, TypeOK, Stages, Contents, Blocks
  <1>2. (InvUntouched /\ InvCheck /\ InvStrict /\ InvErase /\ InvWrite)'
    BY DEF InvUntouched, InvCheck, InvStrict, InvErase, InvWrite
  <1>3. (AcceptedJob(target, image) /\ InvEnd)'
    BY DEF Inv, AcceptedJob, InvEnd
  <1>4. (SuccessIsExact /\ FullProgressIsExact)'
    <2>1. CASE UNCHANGED cell
      BY <2>1 DEF Inv, SuccessIsExact, FullProgressIsExact, Exact
    <2>2. CASE pc = "erase" \/ (pc = "write" /\ written < image)
      <3>1. ret # "ok" /\ prog.done # prog.total
        BY <2>2 DEF Inv, TypeOK, InvErase, InvWrite, InvEnd
      <3> QED
        BY <3>1 DEF SuccessIsExact, FullProgressIsExact
    <2> QED
      BY <2>1, <2>2
  <1> QED
    BY <1>1, <1>2, <1>3, <1>4 DEF Inv

\* The next job starts in a state that satisfies the invariant.
LEMMA NewJobInv == Inv /\ NewJob => Inv'
  <1> SUFFICES ASSUME Inv, NewJob PROVE Inv'
    OBVIOUS
  <1> USE NBlocksAssumption DEF NewJob
  <1>1. TypeOK'
    BY DEF Inv, TypeOK, Stages, Contents, Progress, NoProgress, Blocks, Old
  <1>2. (InvUntouched /\ InvCheck /\ InvStrict /\ InvErase /\ InvWrite)'
    BY DEF InvUntouched, InvCheck, InvStrict, InvErase, InvWrite, Intact
  <1>3. (AcceptedJob(target, image) /\ InvEnd /\ SuccessIsExact
           /\ FullProgressIsExact)'
    BY DEF AcceptedJob, InvEnd, SuccessIsExact, FullProgressIsExact, NoProgress
  <1> QED
    BY <1>1, <1>2, <1>3 DEF Inv

\* Every step preserves the invariant.
LEMMA NextInv == Inv /\ [Next]_vars => Inv'
  <1> SUFFICES ASSUME Inv, [Next]_vars PROVE Inv'
    OBVIOUS
  <1>1. CASE Job
    BY <1>1, BeginInv, CheckBlockInv, CheckEndInv, EraseBlockInv, EraseEndInv,
       WriteBlockInv, WriteEndInv DEF Job
  <1>2. CASE PowerCut
    BY <1>2, PowerCutInv
  <1>3. CASE NewJob
    BY <1>3, NewJobInv
  <1>4. CASE UNCHANGED vars
    BY <1>4 DEF vars, Inv, TypeOK, AcceptedJob, InvUntouched, InvCheck,
       InvStrict, InvErase, InvWrite, InvEnd, SuccessIsExact,
       FullProgressIsExact, Intact, Exact, verify, strict_layout, NoProgress
  <1> QED
    BY <1>1, <1>2, <1>3, <1>4 DEF Next

\* The inductive invariant holds in every reachable state.
LEMMA SpecInv == Spec => []Inv
  <1> QED
    BY InitInv, NextInv, PTL DEF Spec

-----------------------------------------------------------------------------

\* Type correctness of the raw flash job, for any number of eraseblocks.
THEOREM TypeCorrect == Spec => []TypeOK
  <1>1. Inv => TypeOK
    BY DEF Inv
  <1> QED
    BY <1>1, SpecInv, PTL

\* recovery_write_mtd_region() returning 0 for a whole-partition image means
\* that every block is good and holds the chunk of its own offset, whatever
\* blocks went bad, failed silently or were skipped on the way.
THEOREM SuccessExact == Spec => []SuccessIsExact
  <1>1. Inv => SuccessIsExact
    BY DEF Inv
  <1> QED
    BY <1>1, SpecInv, PTL

\* /status shows 100 % only for a completely written image.
THEOREM FullProgressExact == Spec => []FullProgressIsExact
  <1>1. Inv => FullProgressIsExact
    BY DEF Inv
  <1> QED
    BY <1>1, SpecInv, PTL

\* recovery_mtd_require_good_blocks() comes before the first erase: a
\* bootloader region with a bad block is never touched.
THEOREM StrictUntouched == Spec => StrictTouchesOnlyGoodRegion
  <1>1. Inv /\ [Next]_vars =>
          [strict_layout /\ Intact /\ ~Intact' => \A b \in Blocks : ~bad[b]]_vars
    <2> SUFFICES ASSUME Inv, Next, strict_layout, Intact, ~Intact'
                 PROVE  \A b \in Blocks : ~bad[b]
      OBVIOUS
    <2>1. ~UNCHANGED cell
      BY DEF Intact
    <2>2. ~NewJob
      BY DEF NewJob, Intact
    <2>3. pc \in {"erase", "write"}
      BY <2>1, <2>2 DEF Next, Job, Begin, CheckBlock, CheckEnd, EraseBlock,
         EraseEnd, WriteBlock, WriteEnd, PowerCut, LoopError
    <2> QED
      BY <2>3 DEF Inv, InvStrict, Intact, Old, Junk
  <1> QED
    BY <1>1, SpecInv, PTL DEF Spec, StrictTouchesOnlyGoodRegion

\* The erase and write loops never touch a marked block, and no step takes a
\* marker back.
THEOREM BadLeftAlone == Spec => BadBlocksLeftAlone
  <1>1. Inv /\ [Next]_vars =>
          [\A b \in Blocks :
             bad[b] => bad'[b] /\ (pc' # "idle" => cell'[b] = cell[b])]_vars
    <2> SUFFICES ASSUME Inv, Next, NEW b \in Blocks, bad[b]
                 PROVE  bad'[b] /\ (pc' # "idle" => cell'[b] = cell[b])
      OBVIOUS
    <2> USE DEF Inv, TypeOK
    <2>1. CASE Begin \/ CheckBlock \/ CheckEnd \/ EraseEnd \/ WriteEnd \/ NewJob
      BY <2>1 DEF Begin, CheckBlock, CheckEnd, EraseEnd, WriteEnd, NewJob,
         LoopError
    <2>2. CASE EraseBlock
      BY <2>2 DEF EraseBlock, LoopError, MarkBad
    <2>3. CASE WriteBlock
      BY <2>3 DEF WriteBlock, LoopError, WriteBad, WriteGood, WriteFailed,
         MarkBad
    <2>4. CASE PowerCut
      BY <2>4 DEF PowerCut
    <2> QED
      BY <2>1, <2>2, <2>3, <2>4 DEF Next, Job
  <1> QED
    BY <1>1, SpecInv, PTL DEF Spec, BadBlocksLeftAlone

\* mtd_write() is only ever called on a block that mtd_erase() blanked.
THEOREM ProgramErased == Spec => ProgramsOnlyErased
  <1>1. Inv /\ [Next]_vars =>
          [\A b \in Blocks :
             pc = "write" /\ cell'[b] # cell[b] => cell[b] = Erased]_vars
    <2> SUFFICES ASSUME Inv, Next, NEW b \in Blocks, pc = "write",
                        cell'[b] # cell[b]
                 PROVE  cell[b] = Erased
      OBVIOUS
    <2>1. WriteBlock \/ PowerCut
      BY DEF Next, Job, Begin, CheckBlock, CheckEnd, EraseBlock, EraseEnd,
         WriteEnd, NewJob
    <2>2. b = blk /\ ~bad[blk] /\ blk < NBlocks
      BY <2>1 DEF Inv, TypeOK, WriteBlock, LoopError, WriteBad, WriteGood,
         WriteFailed, MarkBad, PowerCut
    <2> QED
      BY <2>2, NBlocksAssumption DEF Inv, TypeOK, InvWrite, Blocks
  <1> QED
    BY <1>1, SpecInv, PTL DEF Spec, ProgramsOnlyErased
-----------------------------------------------------------------------------
(* The refinement of PartitionUpdate.                                      *)

\* A step of a running job that leaves bad blocks and markers alone and does
\* not restore old contents is work of the abstract update.
LEMMA StepIsWork ==
  ASSUME Inv, Inv', UNCHANGED target,
         \A b \in Blocks : bad[b] => bad'[b] /\ cell'[b] = cell[b],
         \A b \in Blocks : cell'[b] = Old => cell[b] = Old
  PROVE  Update!Work
  <1>1. UpdateRegion' \in [Blocks -> Update!Contents]
    BY DEF UpdateRegion, Update!Contents
  <1>2. \A b \in Blocks : UpdateRegion[b] = (IF cell[b] = Old THEN "old"
                             ELSE IF cell[b] = b THEN "new" ELSE "other")
    BY DEF UpdateRegion
  <1>3. \A b \in Blocks : UpdateRegion'[b] = (IF cell'[b] = Old THEN "old"
                             ELSE IF cell'[b] = b THEN "new" ELSE "other")
    BY DEF UpdateRegion
  <1>4. /\ \A b \in {c \in Blocks : bad[c]} : UpdateRegion'[b] = UpdateRegion[b]
        /\ \A b \in Blocks : UpdateRegion'[b] = "old" => UpdateRegion[b] = "old"
    BY <1>2, <1>3
  <1> QED
    BY <1>1, <1>4 DEF Update!Work, Update!kind, strict_layout, verify

\* The first erase follows a scan that found no bad block, or a job that may
\* skip them.
LEMMA StartImplements ==
  ASSUME Inv, Begin \/ CheckEnd, pc' = "erase"
  PROVE  Update!Start
  <1>1. UNCHANGED <<target, bad, cell>> /\ UpdatePhase = "idle"
    BY DEF Begin, CheckEnd, StartErase, Fail, UpdatePhase
  <1>2. UpdatePhase' = "busy"
    BY DEF UpdatePhase
  <1>3. strict_layout => {b \in Blocks : bad[b]} = {}
    BY NBlocksAssumption
       DEF Begin, CheckEnd, StartErase, Fail, Inv, TypeOK, InvCheck, Blocks
  <1> QED
    BY <1>1, <1>2, <1>3 DEF Update!Start, Update!Leave, Update!kind, UpdateRegion,
       strict_layout, verify

\* An iteration of the erase or write loop goes on, gives up or, for the end
\* of the erase, changes nothing that is seen.
LEMMA LoopImplements ==
  ASSUME Inv, Inv', EraseBlock \/ WriteBlock
  PROVE  Update!Touch \/ Update!Abort
  <1>1. UpdatePhase = "busy" /\ UNCHANGED target
    BY DEF EraseBlock, WriteBlock, LoopError, Fail, UpdatePhase, WriteBad,
       WriteGood, WriteFailed, WriteNext
  <1>2. \A b \in Blocks : bad[b] => bad'[b] /\ cell'[b] = cell[b]
    <2>1. CASE EraseBlock
      BY <2>1 DEF EraseBlock, LoopError, MarkBad, Inv, TypeOK
    <2>2. CASE WriteBlock
      BY <2>2 DEF WriteBlock, LoopError, WriteBad, WriteGood, WriteFailed,
         MarkBad, Inv, TypeOK
    <2> QED
      BY <2>1, <2>2
  <1>3. \A b \in Blocks : cell'[b] = Old => cell[b] = Old
    <2> USE DEF Old, Erased, Junk, Inv, TypeOK
    <2>1. CASE EraseBlock
      BY <2>1 DEF EraseBlock, LoopError, MarkBad
    <2>2. CASE WriteBlock
      BY <2>2 DEF WriteBlock, LoopError, WriteBad, WriteGood, WriteFailed,
         MarkBad, Programmed
    <2> QED
      BY <2>1, <2>2
  <1>4. pc' = pc \/ (pc' = "end" /\ ret' = "error")
    BY DEF EraseBlock, WriteBlock, LoopError, Fail, WriteBad, WriteGood,
       WriteFailed, WriteNext
  <1>5. UpdatePhase' \in {"busy", "failed"}
    BY <1>4 DEF UpdatePhase, EraseBlock, WriteBlock
  <1> QED
    BY <1>1, <1>2, <1>3, <1>5, StepIsWork DEF Update!Touch, Update!Abort

\* The end of the write loop reports what the region holds.
LEMMA WriteEndImplements ==
  ASSUME Inv, Inv', WriteEnd
  PROVE  Update!Commit \/ Update!Abort
  <1>1. UpdatePhase = "busy" /\ UNCHANGED <<target, bad, cell>> /\ pc' = "end"
    BY DEF WriteEnd, Fail, UpdatePhase
  <1>2. CASE ret' = "ok"
    <2>1. UpdatePhase' = "done"
      BY <1>1, <1>2 DEF UpdatePhase
    <2>2. verify => Exact
      BY <1>1, <1>2 DEF Inv, SuccessIsExact, verify, Exact
    <2>3. verify => Update!Updated
      BY <2>2 DEF Update!Updated, Exact, UpdateRegion, Old, Blocks
    <2> QED
      BY <1>1, <2>1, <2>3 DEF Update!Commit, Update!Leave, Update!kind, UpdateRegion,
         strict_layout, verify
  <1>3. CASE ret' # "ok"
    <2>1. UpdatePhase' = "failed"
      BY <1>1, <1>3 DEF UpdatePhase
    <2> QED
      BY <1>1, <2>1, StepIsWork DEF Update!Abort
  <1> QED
    BY <1>2, <1>3

\* Power may go at any place; only a running job leaves traces.
LEMMA PowerCutImplements ==
  ASSUME Inv, Inv', PowerCut
  PROVE  Update!PowerLoss
  <1>1. UpdatePhase # "off" /\ UpdatePhase' = "off" /\ UNCHANGED target
    BY DEF PowerCut, UpdatePhase, Inv, TypeOK, Stages
  <1>2. CASE UpdatePhase = "busy"
    <2>1. \A b \in Blocks : bad[b] => bad'[b] /\ cell'[b] = cell[b]
      BY DEF PowerCut, Inv, TypeOK
    <2>2. \A b \in Blocks : cell'[b] = Old => cell[b] = Old
      BY DEF PowerCut, Inv, TypeOK, Old, Junk
    <2> QED
      BY <1>1, <1>2, <2>1, <2>2, StepIsWork DEF Update!PowerLoss
  <1>3. CASE UpdatePhase # "busy"
    <2>1. UNCHANGED <<target, bad, cell>>
      BY <1>3 DEF PowerCut, UpdatePhase
    <2> QED
      BY <1>1, <1>3, <2>1 DEF Update!PowerLoss, Update!Leave, Update!kind, UpdateRegion,
         strict_layout, verify
  <1> QED
    BY <1>2, <1>3

\* Every step is a step of the abstract update or leaves it unchanged.
LEMMA StepImplements ==
  Inv /\ Inv' /\ [Next]_vars => [Update!Next]_Update!pvars
  <1> SUFFICES ASSUME Inv, Inv', [Next]_vars
               PROVE  Update!Next \/ UNCHANGED Update!pvars
    OBVIOUS
  <1> USE DEF Update!Next
  <1>1. CASE (Begin \/ CheckEnd) /\ pc' = "erase"
    BY <1>1, StartImplements
  <1>2. CASE EraseBlock \/ WriteBlock
    BY <1>2, LoopImplements
  <1>3. CASE WriteEnd
    BY <1>3, WriteEndImplements
  <1>4. CASE PowerCut
    BY <1>4, PowerCutImplements
  <1>5. CASE NewJob
    <2>1. UpdatePhase \in {"done", "failed", "off"} /\ UpdatePhase' = "idle"
      BY <1>5 DEF NewJob, UpdatePhase
    <2>2. UpdateRegion' = [b \in Blocks |-> "old"]
      BY <1>5 DEF NewJob, UpdateRegion
    <2> QED
      BY <1>5, <2>1, <2>2 DEF NewJob, Update!NewJob, strict_layout, verify
  <1>6. CASE CheckBlock \/ ((Begin \/ CheckEnd) /\ pc' # "erase")
    <2>1. UNCHANGED <<target, bad, cell>> /\ UpdatePhase = "idle"
      BY <1>6 DEF Begin, CheckBlock, CheckEnd, StartErase, LoopError, Fail,
         UpdatePhase
    <2>2. pc' = "check" \/ (pc' = "end" /\ ret' = "error")
      BY <1>6 DEF Begin, CheckBlock, CheckEnd, StartErase, LoopError, Fail
    <2>3. UpdatePhase' \in {"idle", "failed"}
      BY <2>2 DEF UpdatePhase
    <2> QED
      BY <2>1, <2>3 DEF Update!Refuse, Update!pvars, Update!Leave, Update!kind, UpdateRegion,
         strict_layout, verify
  <1>7. CASE EraseEnd \/ UNCHANGED vars
    BY <1>7 DEF EraseEnd, vars, Update!pvars, UpdatePhase, UpdateRegion,
       strict_layout, verify
  <1> QED
    BY <1>1, <1>2, <1>3, <1>4, <1>5, <1>6, <1>7 DEF Next, Job

\* The raw half of flash_image() implements PartitionUpdate, for a region of
\* any size, any bad blocks, any NAND failure and power cut.
THEOREM RawFlashRefines == Spec => ImplementsUpdate
  <1>1. Init => Update!Init
    BY DEF Init, Update!Init, Update!Untouched, UpdateRegion, UpdatePhase,
       strict_layout, verify
  <1> QED
    BY <1>1, SpecInv, StepImplements, PTL DEF Spec, ImplementsUpdate, Update!Spec
=============================================================================
