----------------------------- MODULE NandProofs -----------------------------
(***************************************************************************)
(* For every flash, board and list of jobs: the arithmetic of nand_erase,  *)
(* the types of the NAND requests, what becomes of bad block marks, what   *)
(* an erase leaves, that a programmed image is stored, what is read back,  *)
(* where the code of its pages is, and what the error count may mean.      *)
(***************************************************************************)
EXTENDS NandSession, SequenceTheorems, FiniteSetTheorems, TLAPS

(***************************************************************************)
(* The pages of a block.                                                   *)
(***************************************************************************)

\* Division with remainder.
LEMMA Division ==
  ASSUME NEW m \in Nat \ {0}, NEW k \in Nat
  PROVE  k = (k \div m) * m + (k % m) /\ k \div m \in Nat /\ k % m \in 0 .. m - 1
<1>1. k = (k \div m) * m + (k % m)
  OBVIOUS
<1>2. k \div m \in Nat /\ k % m \in 0 .. m - 1
  OBVIOUS
<1> QED  BY <1>1, <1>2

\* The quotient and the remainder are the only ones.
LEMMA DivisionUnique ==
  ASSUME NEW m \in Nat \ {0}, NEW c \in Nat, NEW k \in 0 .. m - 1
  PROVE  (c * m + k) \div m = c /\ (c * m + k) % m = k
<1>1. (c * m + k) \div m = c
  OBVIOUS
<1>2. (c * m + k) % m = k
  OBVIOUS
<1> QED  BY <1>1, <1>2

\* Page k of block b, in the chip.
LEMMA PageInBlock ==
  ASSUME NEW b \in Nat, NEW k \in 0 .. Ppb - 1
  PROVE  /\ PageAt(b * Ppb + k) = BlockAt(b) * Ppb + k
         /\ PageAt(b * Ppb + k) \in PagesOf(b)
         /\ (b * Ppb + k) \div Ppb = b /\ (b * Ppb + k) % Ppb = k
<1> DEFINE c == b \div NBlocks
           d == b % NBlocks
           size == NBlocks * Ppb
           x == d * Ppb + k
<1>1. Ppb \in Nat \ {0} /\ NBlocks \in Nat \ {0}
  BY FlashAssumptions
<1>2. b = c * NBlocks + d /\ c \in Nat /\ d \in 0 .. NBlocks - 1
  BY <1>1, Division
<1>3. size \in Nat \ {0}
  BY <1>1
<1>4. x \in 0 .. size - 1
  <2>1. d * Ppb <= (NBlocks - 1) * Ppb
    BY <1>1, <1>2
  <2>2. (NBlocks - 1) * Ppb = size - Ppb
    BY <1>1
  <2>3. d * Ppb \in Nat
    BY <1>1, <1>2
  <2> HIDE DEF d, size
  <2> DEFINE y == d * Ppb
  <2>4. y + k \in 0 .. size - 1
    <3> HIDE DEF y
    <3> QED  BY <1>1, <1>3, <2>1, <2>2, <2>3 DEF y
  <2> QED  BY <2>4
<1>5. b * Ppb + k = c * size + x
  <2>1. (c * NBlocks + d) * Ppb = c * size + d * Ppb
    <3> HIDE DEF c, d
    <3> QED BY <1>1, <1>2
  <2>2. c * size \in Nat /\ d * Ppb \in Nat
    BY <1>1, <1>2
  <2> QED  BY <1>2, <2>1, <2>2
<1>6. PageAt(b * Ppb + k) = x
  <2> HIDE DEF c, size, x
  <2> QED BY <1>2, <1>3, <1>4, <1>5, DivisionUnique DEF PageAt, size
<1>7. x \div Ppb = d
  <2> HIDE DEF d
  <2> QED  BY <1>1, <1>2, DivisionUnique
<1>8. x \in Pages
  BY <1>4 DEF Pages
<1>9. (b * Ppb + k) \div Ppb = b /\ (b * Ppb + k) % Ppb = k
  BY <1>1, DivisionUnique
<1> QED  BY <1>6, <1>7, <1>8, <1>9 DEF BlockAt, PagesOf

\* Every page is one of its block, and the blocks of the chip are their own.
LEMMA PageAtBlock ==
  ASSUME NEW k \in Nat
  PROVE  PageAt(k) \in PagesOf(k \div Ppb) /\ k \div Ppb \in Nat
<1>1. Ppb \in Nat \ {0}
  BY FlashAssumptions
<1>2. k = (k \div Ppb) * Ppb + (k % Ppb) /\ k \div Ppb \in Nat /\ k % Ppb \in 0 .. Ppb - 1
  BY <1>1, Division
<1> QED  BY <1>2, PageInBlock

\* A block's pages are pages of the chip and of no other block.
LEMMA OwnPages ==
  /\ \A b \in Nat : PagesOf(b) \subseteq Pages /\ BlockAt(b) \in Blocks
  /\ \A b \in Nat : PagesOf(BlockAt(b)) = PagesOf(b)
  /\ \A q \in Pages : q \in Nat /\ q \div Ppb \in Blocks /\ q \in PagesOf(q \div Ppb)
  /\ \A b, c \in Nat : \A q \in PagesOf(b) : q \in PagesOf(c) => PagesOf(b) = PagesOf(c)
<1>1. Ppb \in Nat \ {0} /\ NBlocks \in Nat \ {0}
  BY FlashAssumptions
<1>2. \A b \in Nat : BlockAt(b) \in 0 .. NBlocks - 1
  BY <1>1 DEF BlockAt
<1>3. \A b \in 0 .. NBlocks - 1 : BlockAt(b) = b
  <2> SUFFICES ASSUME NEW b \in 0 .. NBlocks - 1 PROVE b % NBlocks = b
    BY DEF BlockAt
  <2>1. (0 * NBlocks + b) % NBlocks = b
    BY <1>1, DivisionUnique
  <2> QED  BY <1>1, <2>1
<1>4. ASSUME NEW q \in Pages
      PROVE  q \in Nat /\ q \div Ppb \in 0 .. NBlocks - 1
  <2>1. q \in Nat /\ q < NBlocks * Ppb /\ q >= 0
    BY <1>1 DEF Pages
  <2>2. q = (q \div Ppb) * Ppb + (q % Ppb) /\ q \div Ppb \in Nat /\ q % Ppb \in 0 .. Ppb - 1
    BY <1>1, <2>1, Division
  <2>3. q \div Ppb < NBlocks
    <3> DEFINE c == q \div Ppb
    <3>1. SUFFICES ASSUME c >= NBlocks PROVE FALSE
      BY <1>1, <2>2
    <3>2. c * Ppb >= NBlocks * Ppb
      <4> DEFINE more == c - NBlocks
      <4>1. more \in Nat /\ c = NBlocks + more
        BY <1>1, <2>2, <3>1
      <4> HIDE DEF c, more
      <4>2. (NBlocks + more) * Ppb = NBlocks * Ppb + more * Ppb /\ more * Ppb \in Nat
            /\ NBlocks * Ppb \in Nat
        BY <1>1, <4>1
      <4> QED BY <4>1, <4>2
    <3> DEFINE y == c * Ppb
               z == NBlocks * Ppb
    <3>3. y \in Nat /\ z \in Nat
      BY <1>1, <2>2
    <3> HIDE DEF y, z
    <3> QED  BY <1>1, <2>1, <2>2, <3>2, <3>3 DEF y, z
  <2> QED  BY <1>1, <2>1, <2>2, <2>3
<1> QED  BY <1>2, <1>3, <1>4 DEF PagesOf, Blocks

-----------------------------------------------------------------------------
(***************************************************************************)
(* nand_erase counts.                                                      *)
(***************************************************************************)

EraseType ==
  [from : Nat, n : Nat, blk : Nat, i : Nat, num : Nat, force : BOOLEAN,
   failed : SUBSET Nat, good : Nat, lost : Nat]

\* What the loop of nand_erase maintains: the bound moves with each block lost.
EraseLoop ==
  /\ e \in EraseType
  /\ e.num = e.n + board.plane * e.lost
  /\ e.i = IF chip = 4740 THEN e.good ELSE e.good + e.lost
  /\ e.i <= e.num
  /\ e.blk = e.from + e.good + e.lost

\* Only the request that started an operation is being served.
Serving ==
  /\ op = "erase" => request = "erase"
  /\ op \in {"program", "clean"} => request = "program"
  /\ op = "read" => request = "read"

EraseInv ==
  /\ board \in Boards
  /\ job \in Nat \ {0}
  /\ Serving
  /\ request = "erase" =>
       /\ EraseLoop
       /\ ~Busy => e.i >= e.num /\ ret = e.blk * Ppb

\* The loop each step of the driver belongs to.
LEMMA OpOf ==
  /\ EraseSkip \/ EraseBlock \/ EraseFails => op \in {"erase", "clean"}
  /\ EraseEnd => op = "erase"
  /\ ProgramSpl \/ ProgramSkip \/ ProgramNothing \/ ProgramPage \/ ProgramFails => op = "program"
  /\ ProgramEnd => op = "program"
  /\ CleanEnd => op = "clean"
  /\ ReadSpl \/ ReadSkip \/ ReadPage \/ ReadEnd => op = "read"
<1>1. EraseSkip \/ EraseBlock \/ EraseFails => op \in {"erase", "clean"}
  BY DEF EraseSkip, EraseBlock, EraseFails, EraseChecked
<1>2. ProgramSpl \/ ProgramSkip => op = "program"
  BY DEF ProgramSpl, ProgramSkip, Programming
<1>3. ProgramNothing \/ ProgramPage \/ ProgramFails => op = "program"
  BY DEF ProgramNothing, ProgramPage, ProgramFails, WritesPage, ProgramChecked, Programming
<1>4. (EraseEnd => op = "erase") /\ (ProgramEnd => op = "program") /\ (CleanEnd => op = "clean")
  BY DEF EraseEnd, ProgramEnd, CleanEnd
<1>5. ReadSpl \/ ReadSkip \/ ReadPage \/ ReadEnd => op = "read"
  BY DEF ReadSpl, ReadSkip, ReadPage, ReadEnd, Reading
<1> QED  BY <1>1, <1>2, <1>3, <1>4, <1>5

\* Every job of a board has the type of a job.
LEMMA JobInType ==
  ASSUME board \in Boards, job \in Nat \ {0}, ~Done
  PROVE  J \in JobType
BY DriverAssumptions DEF BoardType, Done, J

\* One more block lost moves the bound by nand_plane.
LEMMA OneMoreLost ==
  ASSUME NEW plane \in Nat, NEW lost \in Nat
  PROVE  plane * (lost + 1) = plane * lost + plane
BY SMT

\* Passing over a block keeps the invariant of the loop.
LEMMA PassedOverKeeps ==
  ASSUME board \in Boards, EraseLoop, e.i < e.num,
         NEW x, x = PassedOver(e)
  PROVE  /\ x \in EraseType
         /\ x.num = x.n + board.plane * x.lost
         /\ x.i = IF chip = 4740 THEN x.good ELSE x.good + x.lost
         /\ x.i <= x.num
         /\ x.blk = x.from + x.good + x.lost
<1>1. board.plane \in Nat
  BY DriverAssumptions DEF BoardType
<1>2. board.plane * (e.lost + 1) = board.plane * e.lost + board.plane
  BY <1>1, OneMoreLost DEF EraseLoop, EraseType
<1>. DEFINE q == board.plane * e.lost
            q1 == board.plane * (e.lost + 1)
<1>3. q \in Nat
  BY <1>1 DEF EraseLoop, EraseType
<1>0. e \in EraseType
  BY DEF EraseLoop
<1>4. /\ x \in EraseType /\ x.lost = e.lost + 1 /\ x.n = e.n /\ x.good = e.good
      /\ x.num = e.num + board.plane /\ x.from = e.from /\ x.blk = e.blk + 1
      /\ x.i = IF chip = 4740 THEN e.i ELSE e.i + 1
  <2>1. CASE chip = 4740
    <3>1. x = [e EXCEPT !.blk = @ + 1, !.num = @ + board.plane, !.lost = @ + 1, !.i = @]
      BY <2>1 DEF PassedOver
    <3>2. x = [from |-> e.from, n |-> e.n, blk |-> e.blk + 1, i |-> e.i,
               num |-> e.num + board.plane, force |-> e.force, failed |-> e.failed,
               good |-> e.good, lost |-> e.lost + 1]
      BY <1>0, <3>1 DEF EraseType
    <3>. QED BY <1>0, <1>1, <2>1, <3>2 DEF EraseType
  <2>2. CASE chip # 4740
    <3>1. x = [e EXCEPT !.blk = @ + 1, !.num = @ + board.plane, !.lost = @ + 1, !.i = @ + 1]
      BY <2>2 DEF PassedOver
    <3>2. x = [from |-> e.from, n |-> e.n, blk |-> e.blk + 1, i |-> e.i + 1,
               num |-> e.num + board.plane, force |-> e.force, failed |-> e.failed,
               good |-> e.good, lost |-> e.lost + 1]
      BY <1>0, <3>1 DEF EraseType
    <3>. QED BY <1>0, <1>1, <2>2, <3>2 DEF EraseType
  <2>. QED BY <2>1, <2>2
<1>5. e.num = e.n + q /\ q1 = q + board.plane
  BY <1>2 DEF EraseLoop
<1>6. x.num = x.n + q1
  <2>. HIDE DEF q, q1
  <2>. QED BY <1>1, <1>3, <1>4, <1>5 DEF EraseLoop, EraseType
<1>7. x.i = (IF chip = 4740 THEN x.good ELSE x.good + x.lost) /\ x.i <= x.num
  BY <1>1, <1>4 DEF EraseLoop, EraseType
<1>8. x.blk = x.from + x.good + x.lost
  BY <1>4 DEF EraseLoop, EraseType
<1>. QED
  BY <1>4, <1>6, <1>7, <1>8

\* The invariant of nand_erase at the start: no erase runs.
THEOREM EraseInvInit == Init => EraseInv
BY DEF Init, DriverInit, EraseInv, Serving

\* A turn of the loop or its end keeps the invariant.
LEMMA EraseStepKeeps ==
  ASSUME EraseInv, EraseSkip \/ EraseBlock \/ EraseFails \/ EraseEnd,
         UNCHANGED <<job, request, erasedTo>>
  PROVE  EraseInv'
<1>1. CASE op = "clean"
  <2>1. board' = board /\ op' = op
    BY <1>1 DEF EraseSkip, EraseBlock, EraseFails, EraseEnd
  <2>. QED
    BY <1>1, <2>1 DEF EraseInv, Serving, Busy
<1>2. CASE op = "erase"
  <2>0. board \in Boards /\ request = "erase" /\ EraseLoop /\ request' = request /\ job' = job
    BY <1>2 DEF EraseInv, Serving
  <2>1. CASE EraseSkip
    <3>1. e' = PassedOver(e) /\ e.i < e.num /\ op' = op /\ board' = board
      BY <2>1 DEF EraseSkip
    <3>2. EraseLoop'
      BY <2>0, <3>1, PassedOverKeeps DEF EraseLoop, chip
    <3>. QED
      BY <1>2, <2>0, <3>1, <3>2 DEF EraseInv, Serving, Busy
  <2>2. CASE EraseBlock
    <3>1. /\ e' = [e EXCEPT !.blk = @ + 1, !.i = @ + 1, !.good = @ + 1]
          /\ e.i < e.num /\ op' = op /\ board' = board
      BY <2>2 DEF EraseBlock, EraseChecked
    <3>2. EraseLoop'
      <4>1. /\ e' \in EraseType /\ e'.lost = e.lost /\ e'.n = e.n /\ e'.num = e.num
            /\ e'.good = e.good + 1 /\ e'.i = e.i + 1 /\ e'.blk = e.blk + 1
            /\ e'.from = e.from
        <5>1. e \in EraseType
          BY <2>0 DEF EraseLoop
        <5>2. e' = [from |-> e.from, n |-> e.n, blk |-> e.blk + 1, i |-> e.i + 1,
                    num |-> e.num, force |-> e.force, failed |-> e.failed,
                    good |-> e.good + 1, lost |-> e.lost]
          BY <3>1, <5>1 DEF EraseType
        <5>. QED BY <5>1, <5>2 DEF EraseType
      <4>2. e'.num = e'.n + board'.plane * e'.lost
        BY <2>0, <3>1, <4>1 DEF EraseLoop
      <4>3. e'.i = (IF chip' = 4740 THEN e'.good ELSE e'.good + e'.lost) /\ e'.i <= e'.num
        BY <2>0, <3>1, <4>1 DEF EraseLoop, EraseType, chip
      <4>4. e'.blk = e'.from + e'.good + e'.lost
        BY <2>0, <4>1 DEF EraseLoop, EraseType
      <4>. QED BY <4>1, <4>2, <4>3, <4>4 DEF EraseLoop
    <3>. QED
      BY <1>2, <2>0, <3>1, <3>2 DEF EraseInv, Serving, Busy
  <2>3. CASE EraseFails
    <3>. DEFINE x == PassedOver(e)
    <3>1. /\ e' = x \/ e' = [x EXCEPT !.failed = @ \cup {e.blk}]
          /\ e.i < e.num /\ op' = op /\ board' = board
      <4>1. e' = x \/ e' = [x EXCEPT !.failed = @ \cup {e.blk}]
        <5>1. CASE chip = 4770
          BY <2>3, <5>1 DEF EraseFails
        <5>2. CASE chip # 4770
          BY <2>3, <5>2 DEF EraseFails
        <5>. QED BY <5>1, <5>2
      <4>2. e.i < e.num
        BY <2>3 DEF EraseFails, EraseChecked
      <4>3. op' = op /\ board' = board
        BY <2>3 DEF EraseFails
      <4>. QED BY <4>1, <4>2, <4>3
    <3>2. /\ x \in EraseType
          /\ x.num = x.n + board.plane * x.lost
          /\ x.i = IF chip = 4740 THEN x.good ELSE x.good + x.lost
          /\ x.i <= x.num
          /\ x.blk = x.from + x.good + x.lost
      BY <2>0, <3>1, PassedOverKeeps
    <3>3. e.blk \in Nat
      BY <2>0 DEF EraseLoop, EraseType
    <3>4. EraseLoop'
      <4>. HIDE DEF x
      <4>1. e' = x \/ e' = [x EXCEPT !.failed = @ \cup {e.blk}]
        BY <3>1
      <4>2. /\ e' \in EraseType /\ e'.num = x.num /\ e'.n = x.n /\ e'.lost = x.lost
            /\ e'.i = x.i /\ e'.good = x.good /\ e'.blk = x.blk /\ e'.from = x.from
        BY <3>2, <3>3, <4>1 DEF EraseType
      <4>. QED BY <3>1, <3>2, <4>2 DEF EraseLoop, chip
    <3>. QED
      BY <1>2, <2>0, <3>1, <3>4 DEF EraseInv, Serving, Busy
  <2>4. CASE EraseEnd
    <3>1. /\ op' = "idle" /\ ret' = e.blk * Ppb /\ e' = e /\ board' = board
          /\ e.i >= e.num
      BY <2>4 DEF EraseEnd
    <3>2. EraseLoop'
      BY <2>0, <3>1 DEF EraseLoop, chip
    <3>. QED
      BY <1>2, <2>0, <3>1, <3>2 DEF EraseInv, Serving, Busy
  <2>. QED BY <2>1, <2>2, <2>3, <2>4
<1>. QED
  BY <1>1, <1>2 DEF EraseSkip, EraseBlock, EraseFails, EraseEnd, EraseChecked

\* Every step keeps what nand_erase counts.
THEOREM EraseInvNext == EraseInv /\ [Next]_vars => EraseInv'
<1>. SUFFICES ASSUME EraseInv, [Next]_vars PROVE EraseInv'
  OBVIOUS
<1>1. CASE Driver
  <2>1. CASE EraseSkip \/ EraseBlock \/ EraseFails \/ EraseEnd
    BY <1>1, <2>1, EraseStepKeeps DEF Driver
  <2>2. CASE \/ ProgramSpl \/ ProgramSkip \/ ProgramNothing \/ ProgramPage \/ ProgramFails
             \/ CleanEnd \/ ProgramEnd
    <3>1. op \in {"program", "clean"} /\ op' \in {"program", "clean", "idle"} /\ board' = board
      <4>1. CASE ProgramSpl \/ ProgramSkip
        BY <4>1 DEF ProgramSpl, ProgramSkip, Programming
      <4>2. CASE ProgramNothing \/ ProgramPage \/ ProgramFails
        <5>1. op = "program"
          BY <4>2 DEF ProgramNothing, ProgramPage, ProgramFails, WritesPage,
                      ProgramChecked, Programming
        <5>2. op' \in {"program", "clean"} /\ board' = board
          BY <4>2, <5>1 DEF ProgramNothing, ProgramPage, ProgramFails
        <5>. QED BY <5>1, <5>2
      <4>3. CASE CleanEnd
        <5>1. op' \in {"program", "idle"}
          <6>1. CASE chip = 4760
            BY <4>3, <6>1 DEF CleanEnd
          <6>2. CASE chip # 4760
            BY <4>3, <6>2 DEF CleanEnd
          <6>. QED BY <6>1, <6>2
        <5>. QED BY <4>3, <5>1 DEF CleanEnd
      <4>4. CASE ProgramEnd
        BY <4>4 DEF ProgramEnd
      <4>. QED BY <2>2, <4>1, <4>2, <4>3, <4>4
    <3>. QED
      BY <1>1, <3>1 DEF Driver, EraseInv, Serving, Busy
  <2>3. CASE ReadSpl \/ ReadSkip \/ ReadPage \/ ReadEnd
    <3>1. op = "read" /\ op' \in {"read", "idle"} /\ board' = board
      BY <2>3 DEF ReadSpl, ReadSkip, ReadPage, ReadEnd, Reading
    <3>. QED
      BY <1>1, <3>1 DEF Driver, EraseInv, Serving, Busy
  <2>. QED BY <1>1, <2>1, <2>2, <2>3 DEF Driver, DriverStep
<1>2. CASE HandleErase
  <2>1. J \in JobType /\ board \in Boards
    BY <1>2, JobInType DEF HandleErase, EraseInv
  <2>2. /\ e' = EraseOf(J.nblk, J.start, board.force) /\ op' = "erase"
        /\ request' = "erase" /\ board' = board /\ job' = job
    BY <1>2 DEF HandleErase, nand_erase
  <2>3. board.force \in BOOLEAN /\ board.plane \in Nat
    BY <2>1, DriverAssumptions DEF BoardType
  <2>4. EraseLoop'
    <3>1. J.nblk \in Nat /\ J.start \in Nat
      BY <2>1 DEF JobType
    <3>2. e' = [from |-> J.start, n |-> J.nblk, blk |-> J.start, i |-> 0, num |-> J.nblk,
                force |-> board.force, failed |-> {}, good |-> 0, lost |-> 0]
      BY <2>2 DEF EraseOf, NoErase
    <3>3. e' \in EraseType
      BY <2>3, <3>1, <3>2 DEF EraseType
    <3>4. board'.plane * 0 = 0
      BY <2>2, <2>3
    <3>. QED
      BY <3>1, <3>2, <3>3, <3>4 DEF EraseLoop, chip
  <2>. QED
    BY <2>2, <2>4 DEF EraseInv, Serving, Busy
<1>3. CASE HandleProgram
  <2>1. /\ request' = "program" \/ request' = "refused"
        /\ request' = "program" => op' = "program"
        /\ request' = "refused" => op' = op
        /\ op = "idle" /\ board' = board /\ job' = job
    BY <1>3 DEF HandleProgram, nand_program, Busy
  <2>. QED
    BY <2>1 DEF EraseInv, Serving, Busy
<1>4. CASE HandleRead
  BY <1>4 DEF HandleRead, nand_read, EraseInv, Serving, Busy
<1>5. CASE NextJob
  BY <1>5 DEF NextJob, EraseInv, Serving, Busy
<1>6. CASE Finished \/ UNCHANGED vars
  BY <1>6 DEF Finished, vars, EraseInv, Serving, Busy, EraseLoop, chip
<1>. QED
  BY <1>1, <1>2, <1>3, <1>4, <1>5, <1>6 DEF Next

\* When nand_erase ends, its two counters have met.
THEOREM EraseInvImplies == EraseInv => EraseCounts
<1>. SUFFICES ASSUME EraseInv, Erased1
              PROVE  /\ e.good = e.n + MadeUp * e.lost
                     /\ ret = (e.from + e.good + e.lost) * Ppb
  BY DEF EraseCounts
<1>1. EraseLoop /\ e.i = e.num /\ ret = e.blk * Ppb /\ board.plane \in Nat
  <2>1. EraseLoop /\ e.i >= e.num /\ ret = e.blk * Ppb
    BY DEF EraseInv, Erased1
  <2>2. e.i \in Nat /\ e.num \in Nat /\ e.i <= e.num
    BY <2>1 DEF EraseLoop, EraseType
  <2>3. board.plane \in Nat
    BY DriverAssumptions DEF EraseInv, BoardType
  <2> QED
    BY <2>1, <2>2, <2>3
<1>2. e.good \in Nat /\ e.lost \in Nat /\ e.n \in Nat
  BY <1>1 DEF EraseLoop, EraseType
<1>3. CASE chip = 4740
  BY <1>1, <1>2, <1>3 DEF EraseLoop, MadeUp
<1>4. CASE chip # 4740
  <2>1. (board.plane - 1) * e.lost = board.plane * e.lost - e.lost
    BY <1>1, <1>2, SMT
  <2>2. e.good + e.lost = e.n + board.plane * e.lost
    BY <1>1, <1>4 DEF EraseLoop
  <2>. DEFINE q == board.plane * e.lost
  <2>3. q \in Int
    BY <1>1, <1>2
  <2>4. e.good = e.n + (q - e.lost)
    <3>. HIDE DEF q
    <3>. QED BY <1>2, <2>2, <2>3 DEF q
  <2>. QED
    BY <1>1, <1>4, <2>1, <2>4 DEF EraseLoop, MadeUp
<1>. QED BY <1>3, <1>4

\* nand_erase erases as many blocks as it was asked for and those it makes up, on
\* every flash, whichever blocks are bad or fail.
THEOREM EraseCountsHolds == Spec => []EraseCounts
<1>1. Init => EraseInv
  BY EraseInvInit
<1>2. EraseInv /\ [Next]_vars => EraseInv'
  BY EraseInvNext
<1>3. EraseInv => EraseCounts
  BY EraseInvImplies
<1>. QED
  BY <1>1, <1>2, <1>3, PTL DEF Spec
-----------------------------------------------------------------------------
(***************************************************************************)
(* The types of all variables.                                             *)
(***************************************************************************)

Options == {"NO_OOB", "OOB"}

ProgramType ==
  [image : Seq(Data), option : Options, spage : Nat, cur : Nat, i : Nat, sav : Nat,
   per : Nat]

ReadType ==
  [n : Nat, option : Options, cur : Nat, cnt : Nat, per : Nat, buf : Seq(Data)]

\* What nand_program works on is the job's image, from the job's first block on.
ProgramsJob ==
  /\ p.image = J.image /\ p.option = J.option
  /\ p.spage >= J.start * Ppb /\ p.cur >= p.spage

TypeInv ==
  /\ board \in Boards /\ flash \in [Pages -> PageValues] /\ writable \in BOOLEAN
  /\ eccpos \in Nat /\ err \in {0, 1} /\ hit \subseteq board.faults
  /\ op \in {"idle", "erase", "program", "clean", "read"}
  /\ e \in EraseType /\ p \in ProgramType /\ r \in ReadType /\ ret \in Nat
  /\ job \in 1 .. Len(board.jobs) + 1 /\ erasedTo \in Nat
  /\ request \in {"none", "erase", "program", "refused", "read"}
  /\ request # "none" => ~Done
  /\ Serving
  /\ op \in {"program", "clean"} => ProgramsJob

\* What a board is made of.
LEMMA BoardParts ==
  ASSUME board \in Boards
  PROVE  /\ board.chip \in Chips /\ board.bbpage \in Nat /\ board.eccpos \in Nat
         /\ board.plane \in Nat /\ board.wp \in BOOLEAN /\ board.force \in BOOLEAN
         /\ board.layout \in BOOLEAN /\ board.bad \subseteq Blocks /\ board.full \in BOOLEAN
         /\ board.faults \subseteq Faults /\ board.jobs \in Seq(JobType)
         /\ InitialEccpos(board) \in Nat
BY DriverAssumptions DEF BoardType, InitialEccpos

\* Pages are programmed and marked with pages.
LEMMA OverType ==
  ASSUME NEW old \in PageValues, NEW new \in PageValues
  PROVE  Over(old, new) \in PageValues
<1>1. Spoilt \in Data /\ NoCode \in Codes
  BY DEF Data, Codes, NoCode
<1>2. old.bad \in BOOLEAN /\ new.bad \in BOOLEAN
  BY DEF PageValues
<1>3. Page(Spoilt, NoCode, old.bad \/ new.bad) \in PageValues
  BY <1>1, <1>2 DEF Page, PageValues
<1> QED  BY <1>3 DEF Over

\* What may be written to a page.
LEMMA PageTypes ==
  /\ Blank \in PageValues /\ Zeros \in PageValues /\ Old \in PageValues
  /\ \A data \in Data, bad \in BOOLEAN :
       /\ Page(data, SplData, bad) \in PageValues
       /\ Page(data, SplCode, bad) \in PageValues
       /\ \A pos, per \in Nat : Page(data, Code(pos, per), bad) \in PageValues
<1>1. Spoilt \in Data /\ Ff \in Data
  BY DEF Data
<1>2. NoCode \in Codes /\ SplData \in Codes /\ SplCode \in Codes
      /\ \A pos, per \in Nat : Code(pos, per) \in Codes
  BY DEF Codes, NoCode, SplData, SplCode, Code
<1> QED  BY <1>1, <1>2 DEF Blank, Zeros, Old, Page, PageValues

\* What erasing, marking and programming make of a flash is a flash.
LEMMA FlashTypes ==
  ASSUME NEW f \in [Pages -> PageValues]
  PROVE  /\ \A b : Erased(f, b) \in [Pages -> PageValues]
         /\ \A b : MarkedBad(f, b) \in [Pages -> PageValues]
         /\ \A k : \A new \in PageValues : Programmed(f, k, new) \in [Pages -> PageValues]
<1>1. \A b : Erased(f, b) \in [Pages -> PageValues]
  BY PageTypes DEF Erased
<1>2. \A b : MarkedBad(f, b) \in [Pages -> PageValues]
  <2> TAKE b
  <2>1. \A q \in Pages : Over(f[q], Zeros) \in PageValues
    BY PageTypes, OverType
  <2> QED  BY <2>1 DEF MarkedBad
<1>3. ASSUME NEW k, NEW new \in PageValues
      PROVE  Programmed(f, k, new) \in [Pages -> PageValues]
  <2>1. CASE PageAt(k) \in Pages
    BY <2>1, OverType DEF Programmed
  <2>2. CASE PageAt(k) \notin Pages
    BY <2>2 DEF Programmed
  <2> QED  BY <2>1, <2>2
<1> QED  BY <1>1, <1>2, <1>3

\* The types at the start.
LEMMA TypeInvInit == Init => TypeInv
<1> SUFFICES ASSUME Init PROVE TypeInv
  OBVIOUS
<1>1. board \in Boards /\ flash = FlashWith(board.bad, board.full) /\ eccpos = InitialEccpos(board)
      /\ writable = ~board.wp /\ err = 0 /\ op = "idle" /\ ret = 0 /\ hit = {}
      /\ e = NoErase /\ p = NoProgram /\ r = NoRead /\ job = 1 /\ request = "none" /\ erasedTo = 0
  BY DEF Init, DriverInit
<1>2. flash \in [Pages -> PageValues]
  BY <1>1, PageTypes DEF FlashWith
<1>3. NoErase \in EraseType /\ NoProgram \in ProgramType /\ NoRead \in ReadType
  BY DEF NoErase, NoProgram, NoRead, EraseType, ProgramType, ReadType, Options
<1>4. Len(board.jobs) \in Nat /\ eccpos \in Nat /\ writable \in BOOLEAN
  BY <1>1, BoardParts
<1> QED  BY <1>1, <1>2, <1>3, <1>4 DEF TypeInv, Serving

\* The inductive types give those of NandSession.
LEMMA TypeInvTypes == TypeInv => TypeOK
BY DEF TypeInv, TypeOK, EraseType, ProgramType, ReadType

\* A job in work, and its parts.
LEMMA JobParts ==
  ASSUME TypeInv, ~Done
  PROVE  /\ J \in JobType /\ job \in 1 .. Len(board.jobs) /\ job \in Nat \ {0}
         /\ J.start \in Nat /\ J.nblk \in Nat /\ J.image \in Seq(Data) /\ J.option \in Options
<1>1. board.jobs \in Seq(JobType) /\ board \in Boards
  BY BoardParts DEF TypeInv
<1>2. Len(board.jobs) \in Nat
  BY <1>1
<1>3. job \in 1 .. Len(board.jobs) /\ job \in Nat \ {0}
  BY <1>2 DEF TypeInv, Done
<1>4. J \in JobType
  BY <1>1, <1>3, JobInType
<1> QED  BY <1>3, <1>4 DEF JobType, Options

\* Where the code is put is a position, and what read_oob may do to the error count.
LEMMA CodeTypes ==
  ASSUME TypeInv
  PROVE  /\ eccpos \div EccCnt \in Nat
         /\ \A page, sav \in Nat : EccposAt(page, sav) \in Nat
         /\ ReadEccpos \in Nat
         /\ \A b : ErrAfterCheck(b) \subseteq {0, 1}
<1>1. eccpos \in Nat /\ EccCnt \in Nat \ {0} /\ board.eccpos \in Nat /\ r.cur \in Nat /\ err \in {0, 1}
  BY DriverAssumptions, BoardParts DEF TypeInv, ReadType
<1>2. eccpos \div EccCnt \in Nat
  BY <1>1
<1>3. \A page, sav \in Nat : EccposAt(page, sav) \in Nat
  BY <1>1 DEF EccposAt
<1>4. ReadEccpos \in Nat
  <2>1. EccposAt(r.cur, board.eccpos) \in Nat
    BY <1>1, <1>3
  <2> QED  BY <1>1, <2>1 DEF ReadEccpos
<1>5. \A b : ErrAfterCheck(b) \subseteq {0, 1}
  BY <1>1 DEF ErrAfterCheck
<1> QED  BY <1>2, <1>3, <1>4, <1>5

\* The steps of nand_erase.
LEMMA EraseTypes ==
  ASSUME TypeInv, EraseSkip \/ EraseBlock \/ EraseFails \/ EraseEnd,
         UNCHANGED <<job, request, erasedTo>>
  PROVE  TypeInv'
<1>1. /\ board' = board /\ eccpos' = eccpos /\ p' = p /\ r' = r /\ job' = job
      /\ request' = request /\ erasedTo' = erasedTo
  BY DEF EraseSkip, EraseBlock, EraseFails, EraseEnd
<1>2. board \in Boards /\ e \in EraseType /\ board.plane \in Nat /\ Ppb \in Nat
      /\ flash \in [Pages -> PageValues]
  BY BoardParts, FlashAssumptions DEF TypeInv
<1>3. PassedOver(e) \in EraseType
  <2>1. CASE chip = 4740
    <3>1. PassedOver(e) = [e EXCEPT !.blk = @ + 1, !.num = @ + board.plane, !.lost = @ + 1,
                                    !.i = @]
      BY <2>1 DEF PassedOver
    <3>2. PassedOver(e) = [from |-> e.from, n |-> e.n, blk |-> e.blk + 1, i |-> e.i,
                           num |-> e.num + board.plane, force |-> e.force,
                           failed |-> e.failed, good |-> e.good, lost |-> e.lost + 1]
      BY <1>2, <3>1 DEF EraseType
    <3> QED  BY <1>2, <3>2 DEF EraseType
  <2>2. CASE chip # 4740
    <3>1. PassedOver(e) = [e EXCEPT !.blk = @ + 1, !.num = @ + board.plane, !.lost = @ + 1,
                                    !.i = @ + 1]
      BY <2>2 DEF PassedOver
    <3>2. PassedOver(e) = [from |-> e.from, n |-> e.n, blk |-> e.blk + 1, i |-> e.i + 1,
                           num |-> e.num + board.plane, force |-> e.force,
                           failed |-> e.failed, good |-> e.good, lost |-> e.lost + 1]
      BY <1>2, <3>1 DEF EraseType
    <3> QED  BY <1>2, <3>2 DEF EraseType
  <2> QED  BY <2>1, <2>2
<1>4. e' \in EraseType
  <2>1. CASE EraseSkip
    BY <2>1, <1>3 DEF EraseSkip
  <2>2. CASE EraseBlock
    <3>1. e' = [e EXCEPT !.blk = @ + 1, !.i = @ + 1, !.good = @ + 1]
      BY <2>2 DEF EraseBlock
    <3>2. e' = [from |-> e.from, n |-> e.n, blk |-> e.blk + 1, i |-> e.i + 1,
                num |-> e.num, force |-> e.force, failed |-> e.failed,
                good |-> e.good + 1, lost |-> e.lost]
      BY <1>2, <3>1 DEF EraseType
    <3> QED  BY <1>2, <3>2 DEF EraseType
  <2>3. CASE EraseFails
    <3>1. e' = PassedOver(e) \/ e' = [PassedOver(e) EXCEPT !.failed = @ \cup {e.blk}]
      <4>1. CASE chip = 4770
        BY <2>3, <4>1 DEF EraseFails
      <4>2. CASE chip # 4770
        BY <2>3, <4>2 DEF EraseFails
      <4> QED  BY <4>1, <4>2
    <3>2. e.blk \in Nat
      BY <1>2 DEF EraseType
    <3> QED  BY <1>3, <3>1, <3>2 DEF EraseType
  <2>4. CASE EraseEnd
    BY <2>4, <1>2 DEF EraseEnd
  <2> QED  BY <2>1, <2>2, <2>3, <2>4
<1>5. flash' \in [Pages -> PageValues]
  BY <1>2, FlashTypes DEF EraseSkip, EraseBlock, EraseFails, EraseEnd
<1>6. writable' \in BOOLEAN /\ err' \in {0, 1}
  <2>1. writable' \in {writable, PinLow}
    BY DEF EraseSkip, EraseBlock, EraseFails, EraseEnd
  <2>2. err' \in {err} \/ err' \in ErrAfterCheck(e.blk)
    BY DEF EraseSkip, EraseBlock, EraseChecked, EraseFails, EraseEnd
  <2>3. err' \in {0, 1}
    BY <2>2, CodeTypes DEF TypeInv
  <2> QED  BY <1>2, <2>1, <2>3, BoardParts DEF TypeInv, PinLow
<1>7. hit' \subseteq board.faults
  BY DEF EraseSkip, EraseBlock, EraseFails, EraseEnd, MayFail, TypeInv
<1>8. \/ op' = op /\ ret' = ret
      \/ op = "erase" /\ op' = "idle" /\ ret' \in Nat
  <2>1. e.blk * Ppb \in Nat
    BY <1>2 DEF EraseType
  <2>2. CASE EraseSkip
    BY <2>2 DEF EraseSkip
  <2>3. CASE EraseBlock
    BY <2>3 DEF EraseBlock
  <2>4. CASE EraseFails
    BY <2>4 DEF EraseFails
  <2>5. CASE EraseEnd
    BY <2>1, <2>5 DEF EraseEnd
  <2> QED  BY <2>2, <2>3, <2>4, <2>5
<1>9. TypeInv
  OBVIOUS
<1>10. op' \in {"idle", "erase", "program", "clean", "read"} /\ ret' \in Nat
  BY <1>8, <1>9 DEF TypeInv
<1>11. Serving' /\ (op' \in {"program", "clean"} => ProgramsJob')
  BY <1>1, <1>8, <1>9 DEF TypeInv, Serving, ProgramsJob, J
<1>12. (request' # "none" => ~Done')
  BY <1>1, <1>9 DEF TypeInv, Done
<1> QED  BY <1>1, <1>4, <1>5, <1>6, <1>7, <1>9, <1>10, <1>11, <1>12 DEF TypeInv

\* A boot loader is programmed from page 0 on, for a job that starts there.
LEMMA LoaderWhole ==
  ASSUME TypeInv, Programming, SplTurn
  PROVE  /\ p.image = J.image /\ p.spage = 0 /\ J.start = 0 /\ Len(J.image) >= SplPages
         /\ \A k \in 0 .. SplPages - 1 : p.image[k + 1] \in Data
<1>1. op = "program"
  BY DEF Programming
<1>2. request = "program" /\ ~Done /\ ProgramsJob
  BY <1>1 DEF TypeInv, Serving
<1>3. /\ J.start \in Nat /\ J.image \in Seq(Data) /\ job \in 1 .. Len(board.jobs)
      /\ Ppb \in Nat \ {0} /\ p \in ProgramType /\ board \in Boards
  BY <1>2, JobParts, FlashAssumptions DEF TypeInv
<1>4. p.cur = 0 /\ board.chip \in {4760, 4770}
  BY DEF SplTurn, HasSplPages, chip
<1>5. p.spage \in Nat /\ p.spage = 0
  BY <1>2, <1>3, <1>4 DEF ProgramsJob, ProgramType
<1>6. J.start = 0
  <2>1. J.start * Ppb = 0
    BY <1>2, <1>3, <1>5 DEF ProgramsJob
  <2>2. ASSUME J.start > 0 PROVE FALSE
    <3>0. J.start - 1 \in Nat /\ J.start = (J.start - 1) + 1
      BY <1>3, <2>2
    <3>1. PICK m \in Nat : J.start = m + 1
      BY <3>0
    <3>2. (m + 1) * Ppb = m * Ppb + Ppb /\ m * Ppb \in Nat
      BY <1>3
    <3> DEFINE y == m * Ppb
    <3>3. y \in Nat /\ y + Ppb = 0
      BY <2>1, <3>1, <3>2
    <3> HIDE DEF y
    <3> QED  BY <1>3, <3>3
  <2> QED  BY <1>3, <2>2
<1>7. Len(J.image) >= SplPages
  BY <1>3, <1>4, <1>6, DriverAssumptions DEF J
<1>8. \A k \in 0 .. SplPages - 1 : J.image[k + 1] \in Data
  <2> SUFFICES ASSUME NEW k \in 0 .. SplPages - 1 PROVE J.image[k + 1] \in Data
    OBVIOUS
  <2>1. SplPages \in Nat /\ Len(J.image) \in Nat
    BY <1>3, DriverAssumptions
  <2>2. k + 1 \in 1 .. Len(J.image)
    BY <1>7, <2>1
  <2> QED  BY <1>3, <2>2
<1> QED  BY <1>2, <1>5, <1>6, <1>7, <1>8 DEF ProgramsJob

\* The page that is programmed.
LEMMA PageOfTypes ==
  ASSUME p \in ProgramType, Programming, NEW pos \in Nat
  PROVE  /\ p.image[p.i + 1] \in Data
         /\ PageOf(p.image[p.i + 1], pos, p.per, p.option) \in PageValues
<1> DEFINE x == p.image[p.i + 1]
<1>1. p.i \in Nat /\ p.image \in Seq(Data) /\ p.per \in Nat
  BY DEF ProgramType
<1>2. p.i + 1 \in 1 .. Len(p.image)
  BY <1>1 DEF Programming
<1>3. x \in Data /\ Spoilt \in Data
  BY <1>1, <1>2 DEF Data
<1>4. PageCode(pos, p.per, p.option) \in {Code(pos, 0), Code(pos, p.per)}
  BY DEF PageCode
<1>5. \E per \in Nat : PageCode(pos, p.per, p.option) = Code(pos, per)
  BY <1>1, <1>4
<1>6. (pos = 0) \in BOOLEAN
  OBVIOUS
<1>7. ASSUME NEW y \in Data
      PROVE  Page(y, PageCode(pos, p.per, p.option), pos = 0) \in PageValues
  BY <1>5, <1>6, PageTypes
<1> HIDE DEF x
<1>8. PageOf(x, pos, p.per, p.option) \in PageValues
  BY <1>3, <1>7 DEF PageOf
<1> QED  BY <1>3, <1>8 DEF x

\* A turn of the loops of nand_program.
LEMMA ProgramGoesOn ==
  ASSUME NEW x, x \in ProgramType, NEW c \in Nat, NEW k \in Nat, NEW y,
         y = [x EXCEPT !.cur = c, !.i = k]
  PROVE  y = [image |-> x.image, option |-> x.option, spage |-> x.spage, cur |-> c, i |-> k,
              sav |-> x.sav, per |-> x.per]
BY DEF ProgramType

\* The loops of nand_program: p stays what it was but for its place in the image.
LEMMA ProgramTypes ==
  ASSUME TypeInv, UNCHANGED <<job, request, erasedTo>>,
         \/ ProgramSpl \/ ProgramSkip \/ ProgramNothing \/ ProgramPage \/ ProgramFails
         \/ CleanEnd \/ ProgramEnd
  PROVE  TypeInv'
<1> DEFINE InLoop == ProgramSkip \/ ProgramNothing \/ ProgramPage \/ ProgramFails
<1>1. board' = board /\ r' = r /\ job' = job /\ request' = request /\ erasedTo' = erasedTo
  <2>1. CASE ProgramSpl
    BY <2>1 DEF ProgramSpl
  <2>2. CASE ProgramSkip \/ ProgramNothing
    BY <2>2 DEF ProgramSkip, ProgramNothing
  <2>3. CASE ProgramPage \/ ProgramFails
    BY <2>3 DEF ProgramPage, ProgramFails
  <2>4. CASE CleanEnd \/ ProgramEnd
    BY <2>4 DEF CleanEnd, ProgramEnd
  <2> QED  BY <2>1, <2>2, <2>3, <2>4
<1>2. op \in {"program", "clean"}
  BY OpOf
<1>3. request = "program" /\ ~Done /\ ProgramsJob /\ Serving
  BY <1>2 DEF TypeInv, Serving
<1>4. /\ J.start \in Nat /\ J.image \in Seq(Data) /\ Ppb \in Nat \ {0} /\ p \in ProgramType
      /\ board \in Boards /\ flash \in [Pages -> PageValues] /\ board.wp \in BOOLEAN
      /\ hit \subseteq board.faults /\ writable \in BOOLEAN /\ eccpos \in Nat
      /\ e \in EraseType /\ ret \in Nat /\ board.force \in BOOLEAN /\ board.eccpos \in Nat
      /\ EccCnt \in Nat \ {0} /\ SplPages \in Nat \ {0} /\ err \in {0, 1}
  BY <1>3, JobParts, FlashAssumptions, DriverAssumptions, BoardParts DEF TypeInv
<1>5. /\ p.cur \in Nat /\ p.i \in Nat /\ p.spage \in Nat /\ p.image \in Seq(Data)
      /\ p.option \in Options /\ p.per \in Nat /\ p.sav \in Nat
  BY <1>4 DEF ProgramType
<1>6. ASSUME InLoop PROVE eccpos' \in Nat /\ err' \in {0, 1}
  <2>1. eccpos' = EccposAt(p.cur, p.sav)
    BY <1>6 DEF ProgramSkip, ProgramNothing, ProgramPage, ProgramFails, WritesPage, ProgramChecked
  <2>2. err' \in {err} \/ err' \in ErrAfterCheck(p.cur \div Ppb)
    BY <1>6 DEF ProgramSkip, ProgramNothing, ProgramPage, ProgramFails, WritesPage, ProgramChecked
  <2> QED  BY <1>4, <1>5, <2>1, <2>2, CodeTypes
<1>7. ASSUME Programming, NEW pos \in Nat
      PROVE  PageOf(p.image[p.i + 1], pos, p.per, p.option) \in PageValues
  BY <1>4, <1>7, PageOfTypes
<1>8. CASE ProgramSpl
  <2>1. PICK failed \in SUBSET (0 .. SplPages - 1) :
          /\ failed # {} => MayFail("spl") /\ writable
          /\ hit' = IF failed = {} THEN hit ELSE hit \cup {"spl"}
          /\ flash' = IF ~writable THEN flash ELSE
               [q \in Pages |->
                  LET k == q \div 2 IN
                  IF q >= 2 * SplPages THEN flash[q]
                  ELSE IF q % 2 = 0
                  THEN Over(flash[q], IF k \in failed THEN Old
                                      ELSE Page(p.image[k + 1], SplData, FALSE))
                  ELSE IF k \in failed THEN flash[q]
                       ELSE Over(flash[q], Page(p.image[k + 1], SplCode, FALSE))]
    BY <1>8 DEF ProgramSpl
  <2>2. /\ Programming /\ SplTurn /\ p' = [p EXCEPT !.cur = 2 * Ppb, !.i = @ + SplPages]
        /\ writable' = writable /\ eccpos' = eccpos /\ err' = err /\ op' = op /\ e' = e
        /\ ret' = ret
    BY <1>8 DEF ProgramSpl
  <2>3. \A k \in 0 .. SplPages - 1 : p.image[k + 1] \in Data
    BY <2>2, LoaderWhole
  <2>4. flash' \in [Pages -> PageValues]
    <3>1. CASE ~writable
      BY <1>4, <2>1, <3>1
    <3>2. CASE writable
      <4>1. ASSUME NEW q \in Pages, q < 2 * SplPages PROVE q \div 2 \in 0 .. SplPages - 1
        BY <1>4, <4>1, OwnPages
      <4>2. ASSUME NEW q \in Pages PROVE flash'[q] \in PageValues
        <5>1. CASE q >= 2 * SplPages
          BY <1>4, <2>1, <3>2, <5>1
        <5>2. CASE ~(q >= 2 * SplPages)
          <6>1. q \div 2 \in 0 .. SplPages - 1
            BY <1>4, <4>1, <5>2, OwnPages
          <6>2. /\ Page(p.image[q \div 2 + 1], SplData, FALSE) \in PageValues
                /\ Page(p.image[q \div 2 + 1], SplCode, FALSE) \in PageValues
                /\ Old \in PageValues /\ flash[q] \in PageValues
            BY <1>4, <2>3, <6>1, PageTypes
          <6> QED  BY <2>1, <3>2, <5>2, <6>2, OverType
        <5> QED  BY <5>1, <5>2
      <4>3. DOMAIN flash' = Pages /\ flash' = [q \in Pages |-> flash'[q]]
        BY <2>1, <3>2
      <4> QED  BY <4>2, <4>3
    <3> QED  BY <3>1, <3>2
  <2>5. hit' \subseteq board.faults
    BY <1>4, <2>1 DEF MayFail
  <2>6. p' \in ProgramType /\ p'.image = p.image /\ p'.option = p.option
        /\ p'.spage = p.spage /\ p'.cur = 2 * Ppb
    <3>1. p' = [p EXCEPT !.cur = 2 * Ppb, !.i = p.i + SplPages]
      BY <2>2
    <3>2. 2 * Ppb \in Nat /\ p.i + SplPages \in Nat
      BY <1>4, <1>5
    <3>3. p' = [image |-> p.image, option |-> p.option, spage |-> p.spage, cur |-> 2 * Ppb,
                i |-> p.i + SplPages, sav |-> p.sav, per |-> p.per]
      BY <1>4, <3>1, <3>2, ProgramGoesOn
    <3> QED  BY <1>5, <3>2, <3>3 DEF ProgramType
  <2>7. p.spage = 0
    BY <2>2, LoaderWhole
  <2>8. ProgramsJob'
    BY <1>1, <1>3, <1>4, <2>6, <2>7 DEF ProgramsJob, J
  <2> QED  BY <1>1, <1>3, <1>4, <2>2, <2>4, <2>5, <2>6, <2>8 DEF TypeInv, Serving, Done
<1> DEFINE Same == /\ p' \in ProgramType /\ p'.image = p.image /\ p'.option = p.option
                   /\ p'.spage >= p.spage /\ p'.cur >= p'.spage
<1>9. ASSUME Same PROVE p' \in ProgramType /\ ProgramsJob'
  <2>1. p'.spage \in Nat /\ J.start * Ppb \in Nat /\ J' = J
    <3>1. p'.spage \in Nat
      BY <1>9 DEF ProgramType
    <3>2. J.start * Ppb \in Nat
      BY <1>4
    <3> QED  BY <1>1, <3>1, <3>2 DEF J
  <2> DEFINE y == J.start * Ppb
  <2>2. y \in Nat /\ p.spage >= y
    BY <1>3, <2>1 DEF ProgramsJob
  <2>3. p'.spage >= y
    <3> HIDE DEF y
    <3> QED  BY <1>5, <1>9, <2>1, <2>2
  <2> QED  BY <1>3, <1>9, <2>1, <2>3 DEF ProgramsJob
<1>10. CASE ProgramSkip \/ ProgramNothing
  <2>1. p' = [p EXCEPT !.cur = @ + Ppb] \/ p' = [p EXCEPT !.cur = @ + 1, !.i = @ + 1]
    BY <1>10 DEF ProgramSkip, ProgramNothing, OnePageOn
  <2>2. Same
    <3>1. PICK cur \in Nat, i \in Nat : p' = [p EXCEPT !.cur = cur, !.i = i] /\ cur >= p.cur
      <4>0. p.cur \in Nat /\ p.i \in Nat /\ Ppb \in Nat
        BY <1>4, <1>5
      <4>1. p.cur + Ppb \in Nat /\ p.cur + 1 \in Nat /\ p.i + 1 \in Nat
        BY ONLY <4>0
      <4>2. p.cur + Ppb >= p.cur /\ p.cur + 1 >= p.cur
        BY ONLY <4>0
      <4>3. p' = [p EXCEPT !.cur = p.cur + Ppb, !.i = p.i]
            \/ p' = [p EXCEPT !.cur = p.cur + 1, !.i = p.i + 1]
        BY <1>4, <2>1 DEF ProgramType
      <4> QED  BY <1>5, <4>1, <4>2, <4>3
    <3>2. p' = [image |-> p.image, option |-> p.option, spage |-> p.spage, cur |-> cur,
                i |-> i, sav |-> p.sav, per |-> p.per]
      BY <1>4, <3>1, ProgramGoesOn
    <3> QED  BY <1>3, <1>5, <3>1, <3>2 DEF ProgramType, ProgramsJob
  <2>3. /\ flash' = flash /\ writable' = writable /\ op' = op /\ e' = e /\ ret' = ret
        /\ hit' = hit
    BY <1>10 DEF ProgramSkip, ProgramNothing
  <2> QED  BY <1>1, <1>3, <1>4, <1>6, <1>9, <1>10, <2>2, <2>3 DEF TypeInv, Serving, Done
<1>11. CASE ProgramPage
  <2>1. p' = [p EXCEPT !.cur = @ + 1, !.i = @ + 1]
    BY <1>11 DEF ProgramPage, OnePageOn
  <2>2. Same
    <3>1. p' = [p EXCEPT !.cur = p.cur + 1, !.i = p.i + 1] /\ p.cur + 1 \in Nat
          /\ p.i + 1 \in Nat /\ p.cur + 1 >= p.cur
      <4>1. p.cur + 1 \in Nat /\ p.i + 1 \in Nat /\ p.cur + 1 >= p.cur
        BY <1>5
      <4> QED  BY <2>1, <4>1
    <3>2. p' = [image |-> p.image, option |-> p.option, spage |-> p.spage, cur |-> p.cur + 1,
                i |-> p.i + 1, sav |-> p.sav, per |-> p.per]
      <4> DEFINE c == p.cur + 1
                 k == p.i + 1
      <4>1. c \in Nat /\ k \in Nat /\ p' = [p EXCEPT !.cur = c, !.i = k]
        BY <3>1
      <4> HIDE DEF c, k
      <4>2. p' = [image |-> p.image, option |-> p.option, spage |-> p.spage, cur |-> c,
                  i |-> k, sav |-> p.sav, per |-> p.per]
        BY <1>4, <4>1, ProgramGoesOn
      <4> QED  BY <4>2 DEF c, k
    <3> QED  BY <1>3, <1>5, <3>1, <3>2 DEF ProgramType, ProgramsJob
  <2>3. /\ writable' = writable /\ op' = op /\ e' = e /\ ret' = ret /\ hit' = hit
        /\ Programming
    BY <1>11 DEF ProgramPage, WritesPage, ProgramChecked
  <2>4. PageOf(p.image[p.i + 1], eccpos', p.per, p.option) \in PageValues
    BY <1>6, <1>7, <1>11, <2>3
  <2>5. flash' \in [Pages -> PageValues]
    BY <1>4, <1>11, <2>4, FlashTypes DEF ProgramPage
  <2> QED  BY <1>1, <1>3, <1>4, <1>6, <1>9, <1>11, <2>2, <2>3, <2>5 DEF TypeInv, Serving, Done
<1>12. CASE ProgramFails
  <2>1. /\ p' = p /\ op' = "clean" /\ writable' = PinHigh /\ ret' = ret
        /\ flash' = Programmed(flash, p.cur, Old)
        /\ e' = EraseOf(1, p.cur \div Ppb, TRUE)
    BY <1>12 DEF ProgramFails
  <2>2. Same
    BY <1>3, <1>4, <1>5, <2>1 DEF ProgramType, ProgramsJob
  <2>3. hit' \subseteq board.faults
    BY <1>4, <1>12 DEF ProgramFails, MayFail
  <2>4. flash' \in [Pages -> PageValues]
    BY <1>4, <2>1, FlashTypes, PageTypes
  <2>5. p.cur \div Ppb \in Nat
    BY <1>5, PageAtBlock
  <2>6. e' \in EraseType
    BY <2>1, <2>5 DEF EraseOf, NoErase, EraseType
  <2>7. writable' \in BOOLEAN
    BY <2>1 DEF PinHigh
  <2> QED  BY <1>1, <1>3, <1>4, <1>6, <1>9, <1>12, <2>1, <2>2, <2>3, <2>4, <2>6, <2>7
           DEF TypeInv, Serving, Done
<1>13. CASE CleanEnd
  <2>1. /\ flash' = MarkedBad(flash, e.failed \cup {p.cur \div Ppb}) /\ writable' = PinLow
        /\ eccpos' = eccpos /\ err' = err /\ e' = e /\ hit' = hit
    BY <1>13 DEF CleanEnd
  <2>2. flash' \in [Pages -> PageValues] /\ writable' \in BOOLEAN
    BY <1>4, <2>1, FlashTypes DEF PinLow
  <2>3. CASE chip = 4760
    <3>1. op' = "idle" /\ ret' = 0 /\ p' = p
      BY <1>13, <2>3 DEF CleanEnd
    <3> QED  BY <1>1, <1>3, <1>4, <2>1, <2>2, <3>1 DEF TypeInv, Serving, Done
  <2>4. CASE chip # 4760
    <3>1. op' = "program" /\ ret' = ret /\ p' = RestartAt(p, p.spage + Ppb)
      BY <1>13, <2>4 DEF CleanEnd
    <3>2. eccpos \div EccCnt \in Nat
      BY CodeTypes
    <3>3. PICK sav \in Nat, per \in Nat :
             p' = [p EXCEPT !.spage = p.spage + Ppb, !.cur = p.spage + Ppb, !.i = 0,
                            !.sav = sav, !.per = per]
      <4>1. p' = [p EXCEPT !.spage = p.spage + Ppb, !.cur = p.spage + Ppb, !.i = 0,
                           !.sav = IF chip = 4740 THEN eccpos ELSE board.eccpos,
                           !.per = IF chip \in {4750, 4760} THEN eccpos \div EccCnt ELSE 0]
        BY <3>1 DEF RestartAt
      <4>2. /\ (IF chip = 4740 THEN eccpos ELSE board.eccpos) \in Nat
            /\ (IF chip \in {4750, 4760} THEN eccpos \div EccCnt ELSE 0) \in Nat
        BY <1>4, <3>2
      <4> DEFINE sav == IF chip = 4740 THEN eccpos ELSE board.eccpos
                 per == IF chip \in {4750, 4760} THEN eccpos \div EccCnt ELSE 0
      <4>3. sav \in Nat /\ per \in Nat
        BY <4>2
      <4>4. p' = [p EXCEPT !.spage = p.spage + Ppb, !.cur = p.spage + Ppb, !.i = 0,
                           !.sav = sav, !.per = per]
        BY <4>1
      <4> HIDE DEF sav, per
      <4> QED  BY <4>3, <4>4
    <3>4. Same
      <4>1. p' = [image |-> p.image, option |-> p.option, spage |-> p.spage + Ppb,
                  cur |-> p.spage + Ppb, i |-> 0, sav |-> sav, per |-> per]
        BY <1>4, <3>3 DEF ProgramType
      <4> QED  BY <1>4, <1>5, <4>1 DEF ProgramType
    <3> QED  BY <1>1, <1>3, <1>4, <1>9, <2>1, <2>2, <3>1, <3>4 DEF TypeInv, Serving, Done
  <2> QED  BY <2>3, <2>4
<1>14. CASE ProgramEnd
  <2>1. /\ op' = "idle" /\ ret' = p.cur /\ writable' = PinLow /\ flash' = flash /\ err' = err
        /\ e' = e /\ p' = p /\ hit' = hit /\ eccpos' \in {p.sav, eccpos}
    BY <1>14 DEF ProgramEnd
  <2>2. writable' \in BOOLEAN
    BY <1>4, <2>1 DEF PinLow
  <2> QED  BY <1>1, <1>3, <1>4, <1>5, <2>1, <2>2 DEF TypeInv, Serving, Done
<1> QED  BY <1>8, <1>10, <1>11, <1>12, <1>13, <1>14
\* The loop of nand_read: what it delivers is data.
LEMMA ReadTypes ==
  ASSUME TypeInv, ReadSpl \/ ReadSkip \/ ReadPage \/ ReadEnd,
         UNCHANGED <<job, request, erasedTo>>
  PROVE  TypeInv'
<1>1. /\ board' = board /\ flash' = flash /\ writable' = writable /\ e' = e /\ p' = p
      /\ job' = job /\ request' = request /\ erasedTo' = erasedTo
  BY DEF ReadSpl, ReadSkip, ReadPage, ReadEnd
<1>2. op = "read"
  BY DEF ReadSpl, ReadSkip, ReadPage, ReadEnd, Reading
<1>3. request = "read" /\ ~Done
  BY <1>2 DEF TypeInv, Serving
<1>4. /\ Ppb \in Nat \ {0, 1} /\ NBlocks \in Nat \ {0} /\ r \in ReadType /\ board \in Boards
      /\ flash \in [Pages -> PageValues] /\ hit \subseteq board.faults /\ eccpos \in Nat
      /\ ret \in Nat /\ SplPages \in Nat \ {0} /\ err \in {0, 1}
  BY FlashAssumptions, DriverAssumptions DEF TypeInv
<1>5. /\ r.cur \in Nat /\ r.cnt \in Nat /\ r.n \in Nat /\ r.option \in Options
      /\ r.per \in Nat /\ r.buf \in Seq(Data)
  BY <1>4 DEF ReadType
<1>6. r = [n |-> r.n, option |-> r.option, cur |-> r.cur, cnt |-> r.cnt, per |-> r.per,
           buf |-> r.buf]
  BY <1>4 DEF ReadType
<1>7. Spoilt \in Data /\ Ff \in Data
  BY DEF Data
<1> DEFINE Kept == /\ op' \in {"read", "idle"} /\ r' \in ReadType /\ hit' \subseteq board.faults
                   /\ err' \in {0, 1} /\ eccpos' \in Nat /\ ret' \in Nat
<1>8. ASSUME ReadSpl PROVE Kept
  <2> DEFINE m == IF r.n < SplPages THEN r.n ELSE SplPages
             buf == [k \in 1 .. m |-> SplPage(k - 1)]
  <2>1. /\ r' = [r EXCEPT !.cur = 2 * Ppb, !.cnt = SplPages, !.buf = buf]
        /\ op' = op /\ hit' = hit /\ err' = err /\ eccpos' = eccpos /\ ret' = ret
    BY <1>8 DEF ReadSpl
  <2>2. m \in Nat /\ m <= SplPages
    BY <1>4, <1>5
  <2>3. ASSUME NEW k \in 1 .. m PROVE SplPage(k - 1) \in Data
    <3>1. 2 * (k - 1) \in Nat /\ 2 * (k - 1) < 2 * SplPages
      BY <1>4, <2>2
    <3>2. 2 * SplPages <= NBlocks * Ppb /\ NBlocks * Ppb \in Nat
      BY <1>4, DriverAssumptions
    <3>3. 2 * (k - 1) \in Pages
      <4> DEFINE size == NBlocks * Ppb
                 x == 2 * (k - 1)
      <4>1. x \in Nat /\ x < 2 * SplPages /\ 2 * SplPages <= size /\ size \in Nat
        BY <3>1, <3>2
      <4>2. Pages = 0 .. size - 1
        BY DEF Pages
      <4> HIDE DEF size, x
      <4>3. x \in Pages
        BY <1>4, <4>1, <4>2
      <4> QED  BY <4>3 DEF x
    <3>4. flash[2 * (k - 1)].data \in Data
      BY <1>4, <3>3 DEF PageValues
    <3> QED  BY <1>7, <3>4 DEF SplPage
  <2>4. buf \in Seq(Data)
    <3> HIDE DEF m
    <3> QED  BY <2>2, <2>3
  <2> HIDE DEF m, buf
  <2>5. r' = [n |-> r.n, option |-> r.option, cur |-> 2 * Ppb, cnt |-> SplPages,
              per |-> r.per, buf |-> buf]
    BY <1>6, <2>1
  <2>6. r' \in ReadType
    <3>1. 2 * Ppb \in Nat
      BY <1>4
    <3> QED  BY <1>4, <1>5, <2>4, <2>5, <3>1 DEF ReadType
  <2> QED  BY <1>2, <1>4, <2>1, <2>6
<1>9. ASSUME ReadSkip PROVE Kept
  <2>1. /\ r' = [r EXCEPT !.cur = @ + Ppb] /\ op' = op /\ hit' = hit /\ ret' = ret
        /\ err' \in ErrAfterCheck(r.cur \div Ppb) /\ eccpos' = ReadEccpos
    BY <1>9 DEF ReadSkip
  <2>2. r.cur + Ppb \in Nat
    BY <1>4, <1>5
  <2>3. r' \in ReadType
    BY <1>4, <2>1, <2>2 DEF ReadType
  <2> QED  BY <1>2, <1>4, <2>1, <2>3, CodeTypes
<1>10. ASSUME ReadPage PROVE Kept
  <2> DEFINE pg == flash[PageAt(r.cur)]
             Delivers(data, errs, fault) ==
               /\ hit' = hit \cup fault /\ err' \in errs
               /\ r' = [r EXCEPT !.cur = @ + 1, !.cnt = @ + 1, !.buf = Append(@, data)]
  <2>1. op' = op /\ ret' = ret /\ eccpos' = ReadEccpos
    BY <1>10 DEF ReadPage
  <2>2. PICK was \in IF FirstOfBlock(r.cur) THEN ErrAfterCheck(r.cur \div Ppb) ELSE {err} :
          \/ Delivers(Decoded(pg, eccpos', was).data, Decoded(pg, eccpos', was).errs, {})
          \/ MayFail("many") /\ Delivers(Spoilt, {1}, {"many"})
          \/ MayFail("few") /\ Delivers(pg.data, {0}, {"few"})
    BY <1>10 DEF ReadPage, Damaged, Corrected
  <2>3. was \in {0, 1}
    BY <1>4, CodeTypes
  <2>4. pg.data \in Data
    <3>1. PageAt(r.cur) \in Pages
      BY <1>5, PageAtBlock DEF PagesOf
    <3> QED  BY <1>4, <3>1 DEF PageValues
  <2> HIDE DEF pg
  <2>5. /\ Decoded(pg, eccpos', was).data \in {Spoilt, Ff, pg.data}
        /\ Decoded(pg, eccpos', was).errs \subseteq {was, 1}
    BY DEF Decoded
  <2>6. PICK data \in Data, errs \in SUBSET {0, 1}, fault \in SUBSET board.faults :
          Delivers(data, errs, fault)
    <3>1. Decoded(pg, eccpos', was).data \in Data
      BY <1>7, <2>4, <2>5
    <3>2. Decoded(pg, eccpos', was).errs \in SUBSET {0, 1} /\ {0} \in SUBSET {0, 1}
          /\ {1} \in SUBSET {0, 1}
      BY <2>3, <2>5
    <3>3. /\ MayFail("many") => {"many"} \in SUBSET board.faults
          /\ MayFail("few") => {"few"} \in SUBSET board.faults
          /\ {} \in SUBSET board.faults
      BY DEF MayFail
    <3> HIDE DEF Delivers
    <3> QED  BY <1>7, <2>2, <2>4, <3>1, <3>2, <3>3
  <2>7. r.cur + 1 \in Nat /\ r.cnt + 1 \in Nat /\ Append(r.buf, data) \in Seq(Data)
    BY <1>5
  <2>8. r' \in ReadType
    <3>1. r' = [r EXCEPT !.cur = r.cur + 1, !.cnt = r.cnt + 1, !.buf = Append(r.buf, data)]
      BY <2>6
    <3> DEFINE b == Append(r.buf, data)
    <3>2. b \in Seq(Data) /\ r' = [r EXCEPT !.cur = r.cur + 1, !.cnt = r.cnt + 1, !.buf = b]
      BY <2>7, <3>1
    <3> HIDE DEF b
    <3>3. r' = [n |-> r.n, option |-> r.option, cur |-> r.cur + 1, cnt |-> r.cnt + 1,
                per |-> r.per, buf |-> b]
      BY <1>6, <3>2
    <3> QED  BY <1>5, <2>7, <3>2, <3>3 DEF ReadType
  <2> QED  BY <1>2, <1>4, <2>1, <2>6, <2>8, CodeTypes
<1>11. ASSUME ReadEnd PROVE Kept
  BY <1>4, <1>5, <1>11 DEF ReadEnd
<1>12. Kept
  BY <1>8, <1>9, <1>10, <1>11
<1> QED  BY <1>1, <1>3, <1>12 DEF TypeInv, Serving, Done

\* The host's requests.
LEMMA HostTypes ==
  ASSUME TypeInv, HandleErase \/ HandleProgram \/ HandleRead \/ NextJob
  PROVE  TypeInv'
<1>1. board' = board /\ flash' = flash /\ eccpos' = eccpos /\ op = "idle" /\ ~Done
  <2>1. CASE HandleErase
    BY <2>1 DEF HandleErase, nand_erase, Busy
  <2>2. CASE HandleProgram
    BY <2>2 DEF HandleProgram, nand_program, Busy, TypeInv
  <2>3. CASE HandleRead
    BY <2>3 DEF HandleRead, nand_read, Busy, TypeInv
  <2>4. CASE NextJob
    BY <2>4 DEF NextJob, Busy, TypeInv
  <2> QED  BY <2>1, <2>2, <2>3, <2>4
<1>2. /\ board \in Boards /\ J.start \in Nat /\ J.nblk \in Nat /\ J.image \in Seq(Data)
      /\ J.option \in Options /\ job \in 1 .. Len(board.jobs) /\ Ppb \in Nat \ {0}
      /\ Len(board.jobs) \in Nat /\ board.eccpos \in Nat /\ board.force \in BOOLEAN
      /\ eccpos \in Nat /\ eccpos \div EccCnt \in Nat /\ ret \in Nat /\ err \in {0, 1}
      /\ J.start * Ppb \in Nat
  <2>1. job \in 1 .. Len(board.jobs) /\ J.start \in Nat /\ J.nblk \in Nat
        /\ J.image \in Seq(Data) /\ J.option \in Options
    BY <1>1, JobParts
  <2>2. board.jobs \in Seq(JobType) /\ board.eccpos \in Nat /\ board.force \in BOOLEAN
    BY BoardParts DEF TypeInv
  <2>3. eccpos \div EccCnt \in Nat
    BY CodeTypes
  <2> QED  BY <2>1, <2>2, <2>3, FlashAssumptions DEF TypeInv
<1>3. CASE HandleErase
  <2>1. /\ op' = "erase" /\ e' = EraseOf(J.nblk, J.start, board.force) /\ writable' = PinHigh
        /\ UNCHANGED <<err, p, r, ret, hit, job, erasedTo>> /\ request' = "erase"
    BY <1>3 DEF HandleErase, nand_erase
  <2>2. e' \in EraseType
    BY <1>2, <2>1 DEF EraseOf, NoErase, EraseType
  <2> QED  BY <1>1, <2>1, <2>2 DEF TypeInv, Serving, Done, PinHigh
<1>4. CASE HandleProgram
  <2>1. erasedTo' \in Nat /\ job' = job
    <3>1. ret \div Ppb \in Nat
      BY <1>2
    <3> QED  BY <1>4, <3>1 DEF HandleProgram
  <2>2. CASE request' = "refused"
    <3>1. hit' = hit \cup {"usb"} /\ MayFail("usb")
          /\ UNCHANGED <<writable, err, op, e, p, r, ret>>
      BY <1>4, <2>2 DEF HandleProgram, CrcMatches
    <3> QED  BY <1>1, <2>1, <2>2, <3>1 DEF TypeInv, Serving, Done, MayFail
  <2>3. CASE request' # "refused"
    <3>1. /\ op' = "program" /\ request' = "program" /\ writable' = PinHigh
          /\ p' = RestartAt([NoProgram EXCEPT !.image = J.image, !.option = J.option],
                            J.start * Ppb)
          /\ UNCHANGED <<err, e, r, ret, hit>>
      BY <1>4, <2>3 DEF HandleProgram, nand_program, CrcMatches
    <3> DEFINE sav == IF chip = 4740 THEN eccpos ELSE board.eccpos
               per == IF chip \in {4750, 4760} THEN eccpos \div EccCnt ELSE 0
    <3>2. sav \in Nat /\ per \in Nat
      BY <1>2
    <3>3. p' = [image |-> J.image, option |-> J.option, spage |-> J.start * Ppb,
                cur |-> J.start * Ppb, i |-> 0, sav |-> sav, per |-> per]
      <4>1. p' = [[NoProgram EXCEPT !.image = J.image, !.option = J.option]
                   EXCEPT !.spage = J.start * Ppb, !.cur = J.start * Ppb, !.i = 0,
                          !.sav = sav, !.per = per]
        BY <3>1 DEF RestartAt
      <4> HIDE DEF sav, per
      <4> QED  BY <4>1 DEF NoProgram
    <3> HIDE DEF sav, per
    <3>4. p' \in ProgramType
      BY <1>2, <3>2, <3>3 DEF ProgramType
    <3>5. ProgramsJob'
      <4>1. J' = J
        BY <1>1, <2>1 DEF J
      <4> QED  BY <1>2, <3>3, <4>1 DEF ProgramsJob
    <3> QED  BY <1>1, <2>1, <3>1, <3>4, <3>5 DEF TypeInv, Serving, Done, PinHigh
  <2> QED  BY <2>2, <2>3
<1>5. CASE HandleRead
  <2>1. /\ op' = "read" /\ request' = "read" /\ err' \in {0, err}
        /\ UNCHANGED <<writable, e, p, ret, hit, job, erasedTo>>
        /\ r' = [NoRead EXCEPT !.n = Len(J.image), !.option = J.option, !.cur = J.start * Ppb,
                   !.per = IF chip \in {4750, 4760} THEN eccpos \div EccCnt ELSE 0]
    BY <1>5 DEF HandleRead, nand_read
  <2> DEFINE per == IF chip \in {4750, 4760} THEN eccpos \div EccCnt ELSE 0
  <2>2. per \in Nat /\ Len(J.image) \in Nat
    BY <1>2
  <2>3. r' = [n |-> Len(J.image), option |-> J.option, cur |-> J.start * Ppb, cnt |-> 0,
              per |-> per, buf |-> <<>>]
    <3>1. r' = [NoRead EXCEPT !.n = Len(J.image), !.option = J.option, !.cur = J.start * Ppb,
                 !.per = per]
      BY <2>1
    <3> HIDE DEF per
    <3> QED  BY <3>1 DEF NoRead
  <2> HIDE DEF per
  <2>4. r' \in ReadType
    BY <1>2, <2>2, <2>3 DEF ReadType
  <2>5. err' \in {0, 1} /\ job' \in 1 .. Len(board.jobs) + 1
    BY <1>2, <2>1
  <2>6. Serving' /\ ~Done'
    BY <1>1, <2>1 DEF Serving, Done
  <2>7. /\ board' \in Boards /\ flash' \in [Pages -> PageValues] /\ writable' \in BOOLEAN
        /\ eccpos' \in Nat /\ hit' \subseteq board'.faults
        /\ e' \in EraseType /\ p' \in ProgramType /\ ret' \in Nat /\ erasedTo' \in Nat
    BY <1>1, <2>1 DEF TypeInv
  <2> QED  BY <1>1, <2>1, <2>4, <2>5, <2>6, <2>7 DEF TypeInv
<1>6. CASE NextJob
  <2>1. /\ job' = job + 1 /\ request' = "none"
        /\ UNCHANGED <<writable, err, op, e, p, r, ret, hit, erasedTo>>
    BY <1>6 DEF NextJob
  <2>2. job' \in 1 .. Len(board.jobs) + 1
    BY <1>2, <2>1
  <2> QED  BY <1>1, <2>1, <2>2 DEF TypeInv, Serving
<1> QED  BY <1>3, <1>4, <1>5, <1>6

\* Every step keeps the types.
LEMMA TypeInvNext == TypeInv /\ [Next]_vars => TypeInv'
<1> SUFFICES ASSUME TypeInv, [Next]_vars PROVE TypeInv'
  OBVIOUS
<1>1. CASE Driver
  <2>1. UNCHANGED <<job, request, erasedTo>> /\ DriverStep
    BY <1>1 DEF Driver
  <2>2. CASE EraseSkip \/ EraseBlock \/ EraseFails \/ EraseEnd
    BY <2>1, <2>2, EraseTypes
  <2>3. CASE \/ ProgramSpl \/ ProgramSkip \/ ProgramNothing \/ ProgramPage \/ ProgramFails
             \/ CleanEnd \/ ProgramEnd
    BY <2>1, <2>3, ProgramTypes
  <2>4. CASE ReadSpl \/ ReadSkip \/ ReadPage \/ ReadEnd
    BY <2>1, <2>4, ReadTypes
  <2> QED  BY <2>1, <2>2, <2>3, <2>4 DEF DriverStep
<1>2. CASE HandleErase \/ HandleProgram \/ HandleRead \/ NextJob
  BY <1>2, HostTypes
<1>3. CASE Finished \/ UNCHANGED vars
  BY <1>3 DEF Finished, vars, TypeInv, Serving, Done, ProgramsJob, J
<1> QED  BY <1>1, <1>2, <1>3 DEF Next

\* Every variable keeps its type, in every run of jobs on every board.
THEOREM TypeOKHolds == Spec => []TypeOK
<1>1. Init => TypeInv
  BY TypeInvInit
<1>2. TypeInv /\ [Next]_vars => TypeInv'
  BY TypeInvNext
<1>3. TypeInv => TypeOK
  BY TypeInvTypes
<1> QED  BY <1>1, <1>2, <1>3, PTL DEF Spec
-----------------------------------------------------------------------------
(***************************************************************************)
(* Bad block marks.  A block is its pages; where in it the driver looks    *)
(* for a mark and where it puts one are the same in all blocks.            *)
(***************************************************************************)

FourOffsets == {0, 1, Ppb - 2, Ppb - 1}

CheckedOffsets ==
  IF board.bbpage >= Ppb /\ chip # 4760 THEN FourOffsets ELSE {board.bbpage}

MarkedOffsets ==
  IF board.bbpage >= Ppb \/ chip = 4760 THEN FourOffsets ELSE {board.bbpage}

PageK(b, k) == BlockAt(b) * Ppb + k

\* The marks of a flash, where the driver looks and anywhere.
BadIn(f, b) == \E k \in CheckedOffsets : f[PageK(b, k)].bad
MarkedIn(f, b) == \E q \in PagesOf(b) : f[q].bad
Visible(f) == \A b \in Nat : MarkedIn(f, b) => BadIn(f, b)

\* Programming a page does not touch the bad block byte.
SameMarks(f, g) == \A q \in Pages : g[q].bad = f[q].bad

\* The driver looks into the block itself and where it puts its own marks.
LEMMA OffsetsMeet ==
  ASSUME board \in Boards, MarksMeanBad
  PROVE  /\ CheckedOffsets \subseteq 0 .. Ppb - 1 /\ MarkedOffsets \subseteq 0 .. Ppb - 1
         /\ \E k \in CheckedOffsets : k \in MarkedOffsets
<1>1. Ppb \in Nat \ {0, 1} /\ board.bbpage \in Nat
  BY FlashAssumptions, BoardParts
<1>2. FourOffsets \subseteq 0 .. Ppb - 1 /\ FourOffsets # {}
  BY <1>1 DEF FourOffsets
<1>3. CASE chip = 4760
  BY <1>1, <1>2, <1>3 DEF MarksMeanBad, CheckedOffsets, MarkedOffsets, FourOffsets
<1>4. CASE chip # 4760
  <2>1. CheckedOffsets = MarkedOffsets
    BY <1>4 DEF CheckedOffsets, MarkedOffsets
  <2>2. CASE board.bbpage >= Ppb
    <3>1. CheckedOffsets = FourOffsets
      BY <1>4, <2>2 DEF CheckedOffsets
    <3> QED  BY <1>2, <2>1, <3>1
  <2>3. CASE ~(board.bbpage >= Ppb)
    <3>1. CheckedOffsets = {board.bbpage}
      BY <2>3 DEF CheckedOffsets
    <3>2. board.bbpage \in 0 .. Ppb - 1
      BY <1>1, <2>3
    <3> QED  BY <2>1, <3>1, <3>2
  <2> QED  BY <2>2, <2>3
<1> QED  BY <1>3, <1>4

\* Page k of a block.
LEMMA PageKAt ==
  ASSUME NEW b \in Nat, NEW k \in 0 .. Ppb - 1
  PROVE  PageAt(b * Ppb + k) = PageK(b, k) /\ PageK(b, k) \in PagesOf(b)
         /\ PageK(b, k) \in Pages
BY PageInBlock DEF PageK, PagesOf

\* The pages that the check of a block looks at.
LEMMA CheckedAt ==
  ASSUME board \in Boards, MarksMeanBad, NEW b \in Nat
  PROVE  /\ CheckedPages(b) = {b * Ppb + k : k \in CheckedOffsets}
         /\ \A k \in CheckedOffsets : PageAt(b * Ppb + k) = PageK(b, k) /\ PageK(b, k) \in Pages
<1>1. Ppb \in Nat \ {0, 1} /\ board.bbpage \in Nat /\ b * Ppb \in Nat
  BY FlashAssumptions, BoardParts
<1> DEFINE y == b * Ppb
<1>2. y \in Nat
  BY <1>1
<1>3. FourPages(b) = {y, y + 1, y + Ppb - 2, y + Ppb - 1}
  BY DEF FourPages
<1>4. CheckedPages(b) = IF board.bbpage >= Ppb /\ chip # 4760 THEN FourPages(b)
                        ELSE {y + board.bbpage}
  BY DEF CheckedPages
<1>5. \A k \in CheckedOffsets : PageAt(b * Ppb + k) = PageK(b, k) /\ PageK(b, k) \in Pages
  BY OffsetsMeet, PageKAt
<1> HIDE DEF y
<1>6. CheckedPages(b) = {y + k : k \in CheckedOffsets}
  <2>1. CASE board.bbpage >= Ppb /\ chip # 4760
    BY <1>1, <1>2, <1>3, <1>4, <2>1 DEF CheckedOffsets, FourOffsets
  <2>2. CASE ~(board.bbpage >= Ppb /\ chip # 4760)
    BY <1>4, <2>2 DEF CheckedOffsets
  <2> QED  BY <2>1, <2>2
<1> QED  BY <1>5, <1>6 DEF y

\* nand_check_block, by offset.
LEMMA CheckedByOffset ==
  ASSUME board \in Boards, MarksMeanBad, NEW b \in Nat
  PROVE  IsBad(b) <=> BadIn(flash, b)
BY CheckedAt DEF IsBad, BadIn

\* nand_mark_bad, by offset.
LEMMA MarkedByOffset ==
  ASSUME board \in Boards, MarksMeanBad, NEW blks \in SUBSET Nat
  PROVE  {PageAt(n) : n \in UNION {MarkedPages(b) : b \in blks}} =
           {PageK(x[1], x[2]) : x \in blks \X MarkedOffsets}
<1>1. Ppb \in Nat \ {0, 1} /\ board.bbpage \in Nat
  BY FlashAssumptions, BoardParts
<1>2. ASSUME NEW b \in Nat
      PROVE  MarkedPages(b) = {b * Ppb + k : k \in MarkedOffsets}
  <2> DEFINE y == b * Ppb
  <2>1. y \in Nat
    BY <1>1
  <2>2. FourPages(b) = {y, y + 1, y + Ppb - 2, y + Ppb - 1}
    BY DEF FourPages
  <2>3. MarkedPages(b) = IF board.bbpage >= Ppb \/ chip = 4760 THEN FourPages(b)
                         ELSE {y + board.bbpage}
    BY DEF MarkedPages
  <2> HIDE DEF y
  <2>4. MarkedPages(b) = {y + k : k \in MarkedOffsets}
    <3>1. CASE board.bbpage >= Ppb \/ chip = 4760
      BY <1>1, <2>1, <2>2, <2>3, <3>1 DEF MarkedOffsets, FourOffsets
    <3>2. CASE ~(board.bbpage >= Ppb \/ chip = 4760)
      BY <2>3, <3>2 DEF MarkedOffsets
    <3> QED  BY <3>1, <3>2
  <2> QED  BY <2>4 DEF y
<1>3. \A b \in Nat : \A k \in MarkedOffsets : PageAt(b * Ppb + k) = PageK(b, k)
  BY OffsetsMeet, PageKAt
<1>4. ASSUME NEW q, NEW n \in UNION {MarkedPages(b) : b \in blks}, q = PageAt(n)
      PROVE  q \in {PageK(x[1], x[2]) : x \in blks \X MarkedOffsets}
  <2>1. PICK b \in blks : n \in MarkedPages(b)
    OBVIOUS
  <2>2. PICK k \in MarkedOffsets : n = b * Ppb + k
    BY <1>2, <2>1
  <2>3. q = PageK(b, k)
    BY <1>3, <1>4, <2>2
  <2>4. <<b, k>> \in blks \X MarkedOffsets
    OBVIOUS
  <2> QED  BY <2>3, <2>4
<1>5. ASSUME NEW x \in blks \X MarkedOffsets
      PROVE  PageK(x[1], x[2]) \in {PageAt(n) : n \in UNION {MarkedPages(b) : b \in blks}}
  <2>1. x[1] \in blks /\ x[2] \in MarkedOffsets /\ x[1] \in Nat
    OBVIOUS
  <2>2. x[1] * Ppb + x[2] \in MarkedPages(x[1])
    BY <1>2, <2>1
  <2>3. x[1] * Ppb + x[2] \in UNION {MarkedPages(b) : b \in blks}
    BY <2>1, <2>2
  <2>4. PageK(x[1], x[2]) = PageAt(x[1] * Ppb + x[2])
    BY <1>3, <2>1
  <2> QED  BY <2>3, <2>4
<1> QED  BY <1>4, <1>5

\* Programming over a page clears what both clear.
LEMMA OverBad ==
  ASSUME NEW old \in PageValues, NEW new \in PageValues
  PROVE  /\ ~new.bad => Over(old, new).bad = old.bad
         /\ Over(old, Zeros).bad = TRUE
<1>1. old.bad \in BOOLEAN /\ new.bad \in BOOLEAN
  BY DEF PageValues
<1>2. Blank.bad = FALSE /\ Zeros.bad = TRUE
  BY DEF Blank, Zeros, Page
<1>3. \A x \in PageValues :
        Over(old, x).bad = IF old \in {Blank, x} THEN x.bad ELSE old.bad \/ x.bad
  BY DEF Over, Page
<1>4. Over(old, new).bad = IF old \in {Blank, new} THEN new.bad ELSE old.bad \/ new.bad
  BY <1>3
<1>5. Over(old, Zeros).bad = IF old \in {Blank, Zeros} THEN Zeros.bad ELSE old.bad \/ Zeros.bad
  BY <1>3, PageTypes
<1>6. Over(old, Zeros).bad = TRUE
  BY <1>2, <1>5
<1>7. ~new.bad => Over(old, new).bad = old.bad
  <2>1. CASE old = Blank
    BY <1>1, <1>2, <1>4, <2>1
  <2>2. CASE old = new
    BY <1>1, <1>4, <2>2
  <2>3. CASE old # Blank /\ old # new
    BY <1>1, <1>4, <2>3
  <2> QED  BY <2>1, <2>2, <2>3
<1> QED  BY <1>6, <1>7

\* An erased block has no mark and the others keep theirs.
LEMMA ErasedMarks ==
  ASSUME NEW f \in [Pages -> PageValues], NEW b \in Nat, board \in Boards, MarksMeanBad
  PROVE  /\ Visible(f) => Visible(Erased(f, b))
         /\ \A c \in Nat : MarkedIn(Erased(f, b), c) => MarkedIn(f, c)
<1> DEFINE g == Erased(f, b)
<1>1. \A q \in Pages : g[q] = IF q \in PagesOf(b) THEN Blank ELSE f[q]
  BY DEF Erased
<1>2. Blank.bad = FALSE
  BY DEF Blank, Page
<1> HIDE DEF g
<1>3. ASSUME NEW c \in Nat, MarkedIn(g, c)
      PROVE  MarkedIn(f, c) /\ \A q \in PagesOf(c) : q \in Pages /\ g[q] = f[q]
  <2>1. PICK x \in PagesOf(c) : g[x].bad
    BY <1>3 DEF MarkedIn
  <2>2. x \notin PagesOf(b)
    BY <1>1, <1>2, <2>1, OwnPages
  <2>3. \A q \in PagesOf(c) : q \notin PagesOf(b)
    BY <2>1, <2>2, OwnPages
  <2>4. \A q \in PagesOf(c) : q \in Pages /\ g[q] = f[q]
    BY <1>1, <2>3, OwnPages
  <2> QED  BY <2>1, <2>4 DEF MarkedIn
<1>4. ASSUME Visible(f), NEW c \in Nat, MarkedIn(g, c) PROVE BadIn(g, c)
  <2>1. BadIn(f, c)
    BY <1>3, <1>4 DEF Visible
  <2>2. PICK k \in CheckedOffsets : f[PageK(c, k)].bad
    BY <2>1 DEF BadIn
  <2>3. PageK(c, k) \in PagesOf(c)
    BY OffsetsMeet, PageKAt
  <2> QED  BY <1>3, <1>4, <2>2, <2>3 DEF BadIn
<1> QED  BY <1>3, <1>4 DEF Visible, g

\* Marking a block is seen by the driver; no mark goes away.
LEMMA MarkedMarks ==
  ASSUME NEW f \in [Pages -> PageValues], NEW blks \in SUBSET Nat,
         board \in Boards, MarksMeanBad
  PROVE  /\ Visible(f) => Visible(MarkedBad(f, blks))
         /\ \A q \in Pages : (\A b \in blks : q \notin PagesOf(b)) => MarkedBad(f, blks)[q] = f[q]
         /\ \A q \in Pages : f[q].bad => MarkedBad(f, blks)[q].bad
         /\ \A b \in blks : \A c \in Nat : BlockAt(c) = BlockAt(b) => BadIn(MarkedBad(f, blks), c)
<1> DEFINE g == MarkedBad(f, blks)
           marked == {PageK(x[1], x[2]) : x \in blks \X MarkedOffsets}
<1>1. \A q \in Pages : g[q] = IF q \in marked THEN Over(f[q], Zeros) ELSE f[q]
  BY MarkedByOffset DEF MarkedBad
<1> HIDE DEF g
<1>2. ASSUME NEW q \in marked PROVE \E b \in blks : q \in PagesOf(b)
  BY OffsetsMeet, PageKAt
<1>3. ASSUME NEW q \in Pages, \A b \in blks : q \notin PagesOf(b) PROVE g[q] = f[q]
  <2>1. q \notin marked
    BY <1>2, <1>3
  <2> QED  BY <1>1, <2>1
<1>4. ASSUME NEW q \in Pages, f[q].bad PROVE g[q].bad
  <2>1. Over(f[q], Zeros).bad
    BY OverBad
  <2> QED  BY <1>1, <1>4, <2>1
<1>5. ASSUME NEW b \in blks, NEW c \in Nat, BlockAt(c) = BlockAt(b) PROVE BadIn(g, c)
  <2>1. PICK k \in CheckedOffsets : k \in MarkedOffsets
    BY OffsetsMeet
  <2>2. PageK(b, k) = PageK(c, k) /\ PageK(b, k) \in Pages
    BY <1>5, OffsetsMeet, PageKAt DEF PageK
  <2>3. PageK(b, k) \in marked
    <3>1. <<b, k>> \in blks \X MarkedOffsets
      BY <2>1
    <3> QED  BY <3>1
  <2>4. g[PageK(b, k)] = Over(f[PageK(b, k)], Zeros)
    BY <1>1, <2>2, <2>3
  <2>5. Over(f[PageK(b, k)], Zeros).bad
    BY <2>2, OverBad
  <2> QED  BY <2>2, <2>4, <2>5 DEF BadIn
<1>6. ASSUME Visible(f), NEW c \in Nat, MarkedIn(g, c) PROVE BadIn(g, c)
  <2>1. PICK x \in PagesOf(c) : g[x].bad
    BY <1>6 DEF MarkedIn
  <2>2. CASE \E b \in blks : x \in PagesOf(b)
    <3>1. PICK b \in blks : x \in PagesOf(b)
      BY <2>2
    <3>2. BlockAt(c) = BlockAt(b)
      BY <2>1, <3>1 DEF PagesOf
    <3> QED  BY <1>5, <3>2
  <2>3. CASE \A b \in blks : x \notin PagesOf(b)
    <3>1. f[x].bad
      BY <1>3, <2>1, <2>3, OwnPages
    <3>2. BadIn(f, c)
      BY <1>6, <2>1, <3>1 DEF Visible, MarkedIn
    <3>3. PICK k \in CheckedOffsets : f[PageK(c, k)].bad
      BY <3>2 DEF BadIn
    <3>4. PageK(c, k) \in Pages
      BY OffsetsMeet, PageKAt
    <3> QED  BY <1>4, <3>3, <3>4 DEF BadIn
  <2> QED  BY <2>2, <2>3
<1> QED  BY <1>3, <1>4, <1>5, <1>6 DEF g, Visible

\* Programming a page of anything but a mark.
LEMMA ProgrammedMarks ==
  ASSUME NEW f \in [Pages -> PageValues], NEW k \in Nat, NEW new \in PageValues, ~new.bad
  PROVE  /\ SameMarks(f, Programmed(f, k, new))
         /\ \A q \in Pages : q \notin PagesOf(k \div Ppb) => Programmed(f, k, new)[q] = f[q]
<1>1. PageAt(k) \in PagesOf(k \div Ppb) /\ PageAt(k) \in Pages
  BY PageAtBlock DEF PagesOf
<1>2. \A q \in Pages : Programmed(f, k, new)[q] = IF q = PageAt(k) THEN Over(f[q], new) ELSE f[q]
  BY DEF Programmed
<1>3. Over(f[PageAt(k)], new).bad = f[PageAt(k)].bad
  BY <1>1, OverBad
<1> QED  BY <1>1, <1>2, <1>3 DEF SameMarks

\* With the same marks, the same blocks are bad.
LEMMA SameMarksSame ==
  ASSUME NEW f, NEW g, SameMarks(f, g), board \in Boards, MarksMeanBad
  PROVE  /\ \A b \in Nat : (MarkedIn(g, b) <=> MarkedIn(f, b)) /\ (BadIn(g, b) <=> BadIn(f, b))
         /\ Visible(f) => Visible(g)
<1>1. ASSUME NEW b \in Nat PROVE MarkedIn(g, b) <=> MarkedIn(f, b)
  BY OwnPages DEF MarkedIn, SameMarks
<1>2. ASSUME NEW b \in Nat PROVE BadIn(g, b) <=> BadIn(f, b)
  <2>1. \A k \in CheckedOffsets : PageK(b, k) \in Pages
    BY OffsetsMeet, PageKAt
  <2> QED  BY <2>1 DEF BadIn, SameMarks
<1> QED  BY <1>1, <1>2 DEF Visible
\* While the driver works: the bad block byte is never covered by code, every mark
\* is where the driver looks, and the blocks that it is about to mark or to program
\* on had none.
MarkParts ==
  /\ eccpos # 0
  /\ op \in {"program", "clean"} =>
       /\ chip \in {4740, 4750} => p.sav # 0
       /\ FirstOfBlock(p.spage)
  /\ Visible(flash)
  /\ op = "erase" =>
       /\ e.force = board.force
       /\ chip # 4770 => e.failed = {}
       /\ ~board.force => \A b \in e.failed : ~MarkedIn(flash, b)
  /\ (op = "program" /\ ~FirstOfBlock(p.cur)) => ~MarkedIn(flash, p.cur \div Ppb)

MarkInv == TypeInv /\ (MarksMeanBad => MarkParts)

\* What a step may do to the pages of marked blocks.
KeptInStep ==
  (~board.force /\ op # "clean") =>
    \A b \in Blocks : Marked(b) =>
      \A q \in PagesOf(b) : flash'[q] = flash[q] \/ UnderLoader(q)

\* It is enough that the pages that change are of blocks without a mark.
LEMMA OnlyUnmarked ==
  ASSUME ~board.force /\ op # "clean" =>
           \A q \in Pages : \/ flash'[q] = flash[q] \/ UnderLoader(q)
                           \/ \E b \in Nat : q \in PagesOf(b) /\ ~MarkedIn(flash, b)
  PROVE  KeptInStep
<1> SUFFICES ASSUME ~board.force, op # "clean", NEW b \in Blocks, Marked(b),
                    NEW q \in PagesOf(b)
             PROVE  flash'[q] = flash[q] \/ UnderLoader(q)
  BY DEF KeptInStep
<1>1. b \in Nat /\ q \in Pages
  BY FlashAssumptions, OwnPages DEF Blocks, PagesOf
<1>2. ASSUME NEW c \in Nat, q \in PagesOf(c) PROVE MarkedIn(flash, c)
  <2>1. PagesOf(b) = PagesOf(c)
    BY <1>1, <1>2, OwnPages
  <2> QED  BY <2>1 DEF Marked, MarkedIn
<1> QED  BY <1>1, <1>2

\* A block in which a page is marked where the driver looks has a mark.
LEMMA BadIsMarked ==
  ASSUME board \in Boards, MarksMeanBad, NEW f, NEW b \in Nat, BadIn(f, b)
  PROVE  MarkedIn(f, b)
<1>1. PICK k \in CheckedOffsets : f[PageK(b, k)].bad
  BY DEF BadIn
<1>2. PageK(b, k) \in PagesOf(b)
  BY OffsetsMeet, PageKAt
<1> QED  BY <1>1, <1>2 DEF MarkedIn

\* A flash from the factory: whole blocks are marked.
LEMMA MarkInit == Init => MarkInv
<1> SUFFICES ASSUME Init, MarksMeanBad PROVE MarkParts
  BY TypeInvInit DEF MarkInv
<1>1. board \in Boards /\ flash = FlashWith(board.bad, board.full) /\ op = "idle"
      /\ eccpos = InitialEccpos(board)
  BY DEF Init, DriverInit
<1>2. eccpos # 0
  BY <1>1 DEF InitialEccpos, MarksMeanBad, chip
<1>3. ASSUME NEW b \in Nat, MarkedIn(flash, b) PROVE BadIn(flash, b)
  <2>1. Blank.bad = FALSE /\ Old.bad = FALSE /\ Zeros.bad = TRUE
    BY DEF Blank, Old, Zeros, Page
  <2>2. \A q \in Pages : flash[q].bad <=> q \div Ppb \in board.bad
    BY <1>1, <2>1 DEF FlashWith
  <2>3. \A q \in PagesOf(b) : q \in Pages /\ q \div Ppb = BlockAt(b)
    BY DEF PagesOf
  <2>4. BlockAt(b) \in board.bad
    BY <1>3, <2>2, <2>3 DEF MarkedIn
  <2>5. PICK k \in CheckedOffsets : k \in 0 .. Ppb - 1
    BY <1>1, OffsetsMeet
  <2>6. PageK(b, k) \in PagesOf(b)
    BY <2>5, PageKAt
  <2> QED  BY <2>2, <2>3, <2>4, <2>5, <2>6 DEF BadIn
<1> QED  BY <1>1, <1>2, <1>3 DEF MarkParts, Visible

\* The steps of nand_erase.
LEMMA EraseMarks ==
  ASSUME TypeInv, MarksMeanBad, MarkParts, EraseSkip \/ EraseBlock \/ EraseFails \/ EraseEnd
  PROVE  MarkParts' /\ KeptInStep
<1>1. /\ board \in Boards /\ e \in EraseType /\ flash \in [Pages -> PageValues]
      /\ e.blk \in Nat /\ e.failed \in SUBSET Nat /\ Visible(flash) /\ eccpos # 0
  BY DEF TypeInv, EraseType, MarkParts
<1>2. board' = board /\ eccpos' = eccpos /\ p' = p /\ op \in {"erase", "clean"}
  BY DEF EraseSkip, EraseBlock, EraseChecked, EraseFails, EraseEnd
<1>3. /\ ~IsBad(e.blk) => ~MarkedIn(flash, e.blk)
      /\ op = "erase" => e.force = board.force /\ (chip # 4770 => e.failed = {})
      /\ op = "erase" /\ ~board.force => \A b \in e.failed : ~MarkedIn(flash, b)
  BY <1>1, CheckedByOffset DEF MarkParts, Visible
<1>4. CASE EraseSkip
  <2>1. flash' = flash /\ e' = PassedOver(e) /\ op' = op
    BY <1>4 DEF EraseSkip
  <2>2. e'.force = e.force /\ e'.failed = e.failed
    BY <1>1, <2>1 DEF PassedOver, EraseType
  <2> QED  BY <1>2, <2>1, <2>2, OnlyUnmarked DEF MarkParts, Visible, MarkedIn, BadIn,
              CheckedOffsets, PageK, chip
<1> DEFINE EraseParts ==
      /\ op' = op /\ Visible(flash')
      /\ e'.force = e.force
      /\ chip # 4770 => e'.failed = e.failed
      /\ ~board.force /\ op = "erase" =>
           /\ \A b \in e'.failed : ~MarkedIn(flash', b)
           /\ \A q \in Pages : \/ flash'[q] = flash[q]
                              \/ \E b \in Nat : q \in PagesOf(b) /\ ~MarkedIn(flash, b)
<1>5. ASSUME EraseParts PROVE MarkParts' /\ KeptInStep
  <2>1. KeptInStep
    BY <1>2, <1>5, OnlyUnmarked
  <2>2. Visible(flash)'
    BY <1>2, <1>5 DEF Visible, MarkedIn, BadIn, CheckedOffsets, PageK, chip
  <2> QED  BY <1>1, <1>2, <1>3, <1>5, <2>1, <2>2 DEF MarkParts, chip, MarkedIn
<1>6. CASE EraseBlock
  <2>1. /\ flash' = IF writable THEN Erased(flash, e.blk) ELSE flash
        /\ e' = [e EXCEPT !.blk = @ + 1, !.i = @ + 1, !.good = @ + 1] /\ op' = op
        /\ e.force \/ ~IsBad(e.blk)
    BY <1>6 DEF EraseBlock, EraseChecked
  <2>2. e'.force = e.force /\ e'.failed = e.failed
    BY <1>1, <2>1 DEF EraseType
  <2>3. Visible(flash') /\ \A b \in Nat : MarkedIn(flash', b) => MarkedIn(flash, b)
    BY <1>1, <2>1, ErasedMarks
  <2>4. \A q \in Pages : flash'[q] = flash[q] \/ q \in PagesOf(e.blk)
    BY <2>1 DEF Erased
  <2>5. EraseParts
    BY <1>1, <1>3, <2>1, <2>2, <2>3, <2>4
  <2> QED  BY <1>5, <2>5
<1>7. CASE EraseFails
  <2>1. (e.force \/ ~IsBad(e.blk)) /\ op' = op
    BY <1>7 DEF EraseFails, EraseChecked
  <2>2. PassedOver(e).force = e.force /\ PassedOver(e).failed = e.failed
        /\ DOMAIN PassedOver(e) = DOMAIN e
    BY <1>1 DEF PassedOver, EraseType
  <2>3. CASE chip = 4770
    <3>1. e' = [PassedOver(e) EXCEPT !.failed = @ \cup {e.blk}] /\ flash' = flash
      BY <1>7, <2>3 DEF EraseFails
    <3>2. e'.force = e.force /\ e'.failed = e.failed \cup {e.blk}
      <4>1. "failed" \in DOMAIN PassedOver(e) /\ "force" \in DOMAIN PassedOver(e)
        BY <1>1, <2>2 DEF EraseType
      <4> QED  BY <2>2, <3>1, <4>1
    <3>3. EraseParts
      BY <1>1, <1>3, <2>1, <2>3, <3>1, <3>2
    <3> QED  BY <1>5, <3>3
  <2>4. CASE chip # 4770
    <3>1. e' = PassedOver(e) /\ flash' = MarkedBad(flash, {e.blk})
      BY <1>7, <2>4 DEF EraseFails
    <3>2. {e.blk} \in SUBSET Nat
      BY <1>1
    <3>3. /\ Visible(flash')
          /\ \A q \in Pages : q \notin PagesOf(e.blk) => flash'[q] = flash[q]
      BY <1>1, <3>1, <3>2, MarkedMarks
    <3>4. op = "erase" => e.failed = {} \/ board.force
      BY <1>3, <2>4
    <3>5. EraseParts
      <4>1. op = "erase" /\ ~board.force => ~MarkedIn(flash, e.blk)
        BY <1>3, <2>1
      <4>2. \A q \in Pages : flash'[q] = flash[q] \/ q \in PagesOf(e.blk)
        BY <3>3
      <4>3. e'.force = e.force /\ e'.failed = e.failed
        BY <2>2, <3>1
      <4>4. ~board.force /\ op = "erase" =>
              /\ \A b \in e'.failed : ~MarkedIn(flash', b)
              /\ \A q \in Pages : \/ flash'[q] = flash[q]
                                 \/ \E b \in Nat : q \in PagesOf(b) /\ ~MarkedIn(flash, b)
        BY <1>1, <3>4, <4>1, <4>2, <4>3
      <4> QED  BY <2>1, <3>3, <4>3, <4>4
    <3> QED  BY <1>5, <3>5
  <2> QED  BY <2>3, <2>4
<1>8. CASE EraseEnd
  <2>1. op = "erase" /\ op' = "idle" /\ flash' = MarkedBad(flash, e.failed)
    BY <1>8 DEF EraseEnd
  <2>2. /\ Visible(flash')
        /\ \A q \in Pages : (\A b \in e.failed : q \notin PagesOf(b)) => flash'[q] = flash[q]
    BY <1>1, <2>1, MarkedMarks
  <2>3. KeptInStep
    <3>1. ASSUME ~board.force, NEW q \in Pages
          PROVE  flash'[q] = flash[q] \/ \E b \in Nat : q \in PagesOf(b) /\ ~MarkedIn(flash, b)
      BY <1>1, <1>3, <2>1, <2>2, <3>1
    <3> QED  BY <3>1, OnlyUnmarked
  <2>4. Visible(flash)'
    BY <1>2, <2>2 DEF Visible, MarkedIn, BadIn, CheckedOffsets, PageK, chip
  <2> QED  BY <1>1, <1>2, <2>1, <2>3, <2>4 DEF MarkParts
<1> QED  BY <1>4, <1>6, <1>7, <1>8
\* From page to page and from block to block.
LEMMA NextPage ==
  ASSUME NEW k \in Nat
  PROVE  /\ FirstOfBlock(k * Ppb) /\ (k * Ppb) \div Ppb = k
         /\ FirstOfBlock(k) => FirstOfBlock(k + Ppb)
         /\ ~FirstOfBlock(k + 1) => (k + 1) \div Ppb = k \div Ppb /\ (k + 1) % Ppb = (k % Ppb) + 1
         /\ FirstOfBlock(k + 1) => (k + 1) \div Ppb = (k \div Ppb) + 1 /\ k % Ppb = Ppb - 1
<1>1. Ppb \in Nat \ {0, 1}
  BY FlashAssumptions
<1> DEFINE c == k \div Ppb
           d == k % Ppb
<1>2. k = c * Ppb + d /\ c \in Nat /\ d \in 0 .. Ppb - 1
  BY <1>1, Division
<1>3. \A a \in Nat : \A x \in 0 .. Ppb - 1 : (a * Ppb + x) \div Ppb = a /\ (a * Ppb + x) % Ppb = x
  BY <1>1, DivisionUnique
<1>4. (k * Ppb + 0) \div Ppb = k /\ (k * Ppb + 0) % Ppb = 0 /\ k * Ppb + 0 = k * Ppb
  BY <1>1, <1>3
<1>5. FirstOfBlock(k) => FirstOfBlock(k + Ppb)
  <2>1. SUFFICES ASSUME d = 0 PROVE (k + Ppb) % Ppb = 0
    BY DEF FirstOfBlock
  <2> HIDE DEF c, d
  <2>2. (c + 1) * Ppb = c * Ppb + Ppb
    BY <1>1, <1>2
  <2> DEFINE y == c * Ppb
  <2>3. y \in Nat
    BY <1>1, <1>2
  <2>4. k + Ppb = (c + 1) * Ppb + 0
    <3>1. k = y + 0 /\ (c + 1) * Ppb = y + Ppb
      BY <1>2, <2>1, <2>2
    <3> DEFINE z == (c + 1) * Ppb
    <3>2. z = y + Ppb
      BY <3>1
    <3> HIDE DEF y, z
    <3>3. k + Ppb = z + 0
      BY <1>1, <2>3, <3>1, <3>2
    <3> QED  BY <3>3 DEF z
  <2>5. ((c + 1) * Ppb + 0) % Ppb = 0
    BY <1>1, <1>2, <1>3
  <2> QED  BY <2>4, <2>5
<1>6. CASE d < Ppb - 1
  <2> HIDE DEF c, d
  <2>1. k + 1 = c * Ppb + (d + 1) /\ d + 1 \in 0 .. Ppb - 1 /\ d + 1 # 0
    <3> DEFINE y == c * Ppb
    <3>1. y \in Nat /\ k = y + d
      BY <1>1, <1>2
    <3> HIDE DEF y
    <3>2. k + 1 = y + (d + 1)
      BY <1>2, <3>1
    <3> QED  BY <1>1, <1>2, <1>6, <3>2 DEF y
  <2>2. (k + 1) \div Ppb = c /\ (k + 1) % Ppb = d + 1
    BY <1>2, <1>3, <2>1
  <2> QED  BY <1>4, <1>5, <2>1, <2>2 DEF FirstOfBlock, c, d
<1>7. CASE d = Ppb - 1
  <2> HIDE DEF c, d
  <2>1. k + 1 = (c + 1) * Ppb + 0
    <3> DEFINE y == c * Ppb
               z == (c + 1) * Ppb
    <3>1. y \in Nat /\ k = y + d /\ z = y + Ppb
      BY <1>1, <1>2
    <3> HIDE DEF y, z
    <3>2. k + 1 = z + 0
      BY <1>1, <1>7, <3>1
    <3> QED  BY <3>2 DEF z
  <2>2. (k + 1) \div Ppb = c + 1 /\ (k + 1) % Ppb = 0
    BY <1>1, <1>2, <1>3, <2>1
  <2> QED  BY <1>4, <1>5, <1>7, <2>2 DEF FirstOfBlock, c, d
<1> QED  BY <1>1, <1>2, <1>6, <1>7

\* A page of an image covers the bad block byte only with code at position 0.
LEMMA PageOfMark ==
  ASSUME NEW data, NEW pos, NEW per, NEW option
  PROVE  PageOf(data, pos, per, option).bad = (pos = 0)
BY DEF PageOf, Page

\* Where the code goes, if it never covers the marks.
LEMMA EccposKeepsOff ==
  ASSUME TypeInv, MarksMeanBad, MarkParts, op \in {"program", "clean"}
  PROVE  EccposAt(p.cur, p.sav) # 0
BY DEF EccposAt, MarkParts

\* The steps of nand_program in the image's pages.
LEMMA ProgramMarks ==
  ASSUME TypeInv, TypeInv', MarksMeanBad, MarkParts, board' = board,
         \/ ProgramSpl \/ ProgramSkip \/ ProgramNothing \/ ProgramPage \/ ProgramFails \/ ProgramEnd
  PROVE  MarkParts' /\ KeptInStep
<1>1. /\ board \in Boards /\ p \in ProgramType /\ flash \in [Pages -> PageValues]
      /\ p.cur \in Nat /\ p.sav \in Nat /\ p.i \in Nat /\ Visible(flash) /\ eccpos # 0
      /\ Ppb \in Nat \ {0, 1}
  BY FlashAssumptions DEF TypeInv, ProgramType, MarkParts
<1>2. op = "program"
  BY OpOf
<1>3. /\ chip \in {4740, 4750} => p.sav # 0
      /\ FirstOfBlock(p.spage)
      /\ ~FirstOfBlock(p.cur) => ~MarkedIn(flash, p.cur \div Ppb)
  BY <1>2 DEF MarkParts
<1>4. p.cur \div Ppb \in Nat
  BY <1>1, PageAtBlock
<1> DEFINE Parts ==
      /\ op' \in {"program", "clean", "idle"} /\ eccpos' # 0
      /\ SameMarks(flash, flash')
      /\ p'.sav = p.sav /\ p'.spage = p.spage
      /\ op' = "program" /\ ~FirstOfBlock(p'.cur) => ~MarkedIn(flash, p'.cur \div Ppb)
      /\ p'.cur \in Nat
      /\ \A q \in Pages : \/ flash'[q] = flash[q] \/ UnderLoader(q)
                         \/ \E b \in Nat : q \in PagesOf(b) /\ ~MarkedIn(flash, b)
<1>5. ASSUME Parts PROVE MarkParts' /\ KeptInStep
  <2>1. KeptInStep
    BY <1>5, OnlyUnmarked
  <2>2. Visible(flash') /\ \A b \in Nat : MarkedIn(flash', b) <=> MarkedIn(flash, b)
    BY <1>1, <1>5, SameMarksSame
  <2>3. Visible(flash)'
    BY <2>2 DEF Visible, MarkedIn, BadIn, CheckedOffsets, PageK, chip
  <2>4. op' = "program" /\ ~FirstOfBlock(p'.cur) => ~MarkedIn(flash', p'.cur \div Ppb)
    BY <1>5, <2>2, PageAtBlock
  <2> QED  BY <1>3, <1>5, <2>1, <2>3, <2>4 DEF MarkParts, chip, MarkedIn, FirstOfBlock
<1>6. SameMarks(flash, flash)
  BY DEF SameMarks
<1>7. CASE ProgramSpl
  <2>1. PICK failed \in SUBSET (0 .. SplPages - 1) :
           flash' = IF ~writable THEN flash ELSE
               [q \in Pages |->
                  LET k == q \div 2 IN
                  IF q >= 2 * SplPages THEN flash[q]
                  ELSE IF q % 2 = 0
                  THEN Over(flash[q], IF k \in failed THEN Old
                                      ELSE Page(p.image[k + 1], SplData, FALSE))
                  ELSE IF k \in failed THEN flash[q]
                       ELSE Over(flash[q], Page(p.image[k + 1], SplCode, FALSE))]
    BY <1>7 DEF ProgramSpl
  <2>2. /\ p' = [p EXCEPT !.cur = 2 * Ppb, !.i = @ + SplPages] /\ op' = op /\ eccpos' = eccpos
        /\ Programming /\ SplTurn
    BY <1>7 DEF ProgramSpl
  <2>3. \A k \in 0 .. SplPages - 1 : p.image[k + 1] \in Data
    BY <2>2, LoaderWhole
  <2>4. ASSUME NEW q \in Pages
        PROVE  flash'[q].bad = flash[q].bad /\ (q >= 2 * SplPages => flash'[q] = flash[q])
    <3>1. SplPages \in Nat \ {0} /\ q \in Nat
      BY DriverAssumptions, OwnPages
    <3>2. CASE ~writable \/ q >= 2 * SplPages
      BY <2>1, <3>2
    <3>3. CASE writable /\ ~(q >= 2 * SplPages)
      <4>1. q \div 2 \in 0 .. SplPages - 1
        BY <3>1, <3>3
      <4>2. /\ Page(p.image[q \div 2 + 1], SplData, FALSE) \in PageValues
            /\ Page(p.image[q \div 2 + 1], SplCode, FALSE) \in PageValues
            /\ Old \in PageValues /\ flash[q] \in PageValues
        BY <1>1, <2>3, <4>1, PageTypes
      <4>3. /\ ~Page(p.image[q \div 2 + 1], SplData, FALSE).bad
            /\ ~Page(p.image[q \div 2 + 1], SplCode, FALSE).bad /\ ~Old.bad
        BY DEF Page, Old
      <4>4. /\ Over(flash[q], Page(p.image[q \div 2 + 1], SplData, FALSE)).bad = flash[q].bad
            /\ Over(flash[q], Page(p.image[q \div 2 + 1], SplCode, FALSE)).bad = flash[q].bad
            /\ Over(flash[q], Old).bad = flash[q].bad
        BY <4>2, <4>3, OverBad
      <4> QED  BY <2>1, <3>3, <4>4
    <3> QED  BY <3>2, <3>3
  <2>5. p'.cur = 2 * Ppb /\ p'.sav = p.sav /\ p'.spage = p.spage
    BY <1>1, <2>2 DEF ProgramType
  <2>6. FirstOfBlock(p'.cur) /\ p'.cur \in Nat
    <3>1. FirstOfBlock(2 * Ppb)
      BY NextPage, 2 \in Nat
    <3> QED  BY <1>1, <2>5, <3>1
  <2>7. \A q \in Pages : flash'[q] = flash[q] \/ UnderLoader(q)
    <3>1. \A q \in Pages : q < 2 * SplPages => UnderLoader(q)
      BY <1>2, <2>2 DEF UnderLoader
    <3>2. \A q \in Pages : q < 2 * SplPages \/ q >= 2 * SplPages
      BY DriverAssumptions, OwnPages
    <3> QED  BY <2>4, <3>1, <3>2
  <2>8. Parts
    BY <1>1, <1>2, <2>2, <2>4, <2>5, <2>6, <2>7 DEF SameMarks
  <2> QED  BY <1>5, <2>8
<1>8. CASE ProgramEnd
  <2>1. op' = "idle" /\ flash' = flash /\ p' = p
        /\ eccpos' = IF chip \in {4740, 4750} THEN p.sav ELSE eccpos
    BY <1>8 DEF ProgramEnd
  <2>2. Parts
    BY <1>1, <1>3, <1>6, <2>1
  <2> QED  BY <1>5, <2>2
<1>9. ASSUME ProgramSkip \/ ProgramChecked
      PROVE  eccpos' # 0 /\ eccpos' = EccposAt(p.cur, p.sav)
  <2>1. eccpos' = EccposAt(p.cur, p.sav)
    BY <1>9 DEF ProgramSkip, ProgramChecked
  <2> QED  BY <1>2, <2>1, EccposKeepsOff
<1>10. CASE ProgramSkip
  <2>1. /\ op' = op /\ flash' = flash /\ p' = [p EXCEPT !.cur = @ + Ppb] /\ FirstOfBlock(p.cur)
    BY <1>10 DEF ProgramSkip
  <2>2. p'.cur = p.cur + Ppb /\ p'.sav = p.sav /\ p'.spage = p.spage
    BY <1>1, <2>1 DEF ProgramType
  <2>3. FirstOfBlock(p'.cur) /\ p'.cur \in Nat
    BY <1>1, <2>1, <2>2, NextPage
  <2>4. Parts
    BY <1>2, <1>6, <1>9, <1>10, <2>1, <2>2, <2>3
  <2> QED  BY <1>5, <2>4
<1>11. ASSUME ProgramChecked PROVE ~MarkedIn(flash, p.cur \div Ppb)
  <2>1. FirstOfBlock(p.cur) => ~IsBad(p.cur \div Ppb)
    BY <1>11 DEF ProgramChecked
  <2>2. FirstOfBlock(p.cur) => ~MarkedIn(flash, p.cur \div Ppb)
    BY <1>1, <1>4, <2>1, CheckedByOffset DEF Visible
  <2> QED  BY <1>3, <2>2
<1>12. ASSUME ProgramChecked, p' = OnePageOn(p)
       PROVE  /\ p'.sav = p.sav /\ p'.spage = p.spage /\ p'.cur \in Nat
              /\ ~FirstOfBlock(p'.cur) => ~MarkedIn(flash, p'.cur \div Ppb)
  <2>1. p'.cur = p.cur + 1 /\ p'.sav = p.sav /\ p'.spage = p.spage
    BY <1>1, <1>12 DEF ProgramType, OnePageOn
  <2> QED  BY <1>1, <1>11, <1>12, <2>1, NextPage
<1>13. CASE ProgramNothing
  <2>1. /\ ProgramChecked /\ p' = OnePageOn(p) /\ op' = op /\ flash' = flash
    BY <1>13 DEF ProgramNothing
  <2>2. Parts
    BY <1>2, <1>6, <1>9, <1>12, <2>1
  <2> QED  BY <1>5, <2>2
<1>14. ASSUME ProgramChecked, NEW new \in PageValues, ~new.bad,
              flash' = flash \/ flash' = Programmed(flash, p.cur, new)
       PROVE  /\ SameMarks(flash, flash')
              /\ \A q \in Pages : \/ flash'[q] = flash[q]
                                 \/ \E b \in Nat : q \in PagesOf(b) /\ ~MarkedIn(flash, b)
  <2>1. CASE flash' = flash
    BY <1>6, <2>1
  <2>2. CASE flash' = Programmed(flash, p.cur, new)
    BY <1>1, <1>4, <1>11, <1>14, <2>2, ProgrammedMarks
  <2> QED  BY <1>14, <2>1, <2>2
<1>15. CASE ProgramPage
  <2> DEFINE new == PageOf(p.image[p.i + 1], eccpos', p.per, p.option)
  <2>1. /\ ProgramChecked /\ p' = OnePageOn(p) /\ op' = op
        /\ flash' = flash \/ flash' = Programmed(flash, p.cur, new)
    BY <1>15 DEF ProgramPage, WritesPage
  <2>2. ~new.bad
    BY <1>9, <2>1, PageOfMark
  <2>3. new \in PageValues
    <3>1. eccpos' \in Nat /\ Programming
      BY <2>1 DEF TypeInv, ProgramChecked
    <3> QED  BY <1>1, <3>1, PageOfTypes
  <2> HIDE DEF new
  <2>4. Parts
    BY <1>2, <1>9, <1>12, <1>14, <2>1, <2>2, <2>3
  <2> QED  BY <1>5, <2>4
<1>16. CASE ProgramFails
  <2>1. ProgramChecked /\ p' = p /\ op' = "clean" /\ flash' = Programmed(flash, p.cur, Old)
    BY <1>16 DEF ProgramFails, WritesPage
  <2>2. Old \in PageValues /\ ~Old.bad
    BY PageTypes DEF Old, Page
  <2>3. Parts
    BY <1>1, <1>2, <1>9, <1>14, <2>1, <2>2
  <2> QED  BY <1>5, <2>3
<1> QED  BY <1>7, <1>8, <1>10, <1>13, <1>15, <1>16
\* The block that failed is marked, and the image started again in the next one.
LEMMA CleanMarks ==
  ASSUME TypeInv, MarksMeanBad, MarkParts, CleanEnd
  PROVE  MarkParts' /\ KeptInStep
<1>1. /\ board' = board /\ op = "clean" /\ eccpos' = eccpos
      /\ flash' = MarkedBad(flash, e.failed \cup {p.cur \div Ppb})
  BY DEF CleanEnd
<1>2. /\ board \in Boards /\ p \in ProgramType /\ flash \in [Pages -> PageValues]
      /\ p.cur \in Nat /\ p.spage \in Nat /\ Visible(flash) /\ eccpos # 0
      /\ FirstOfBlock(p.spage) /\ e.failed \in SUBSET Nat /\ board.eccpos \in Nat
  <2>1. board \in Boards /\ p \in ProgramType /\ e \in EraseType /\ flash \in [Pages -> PageValues]
    BY DEF TypeInv
  <2>2. p.cur \in Nat /\ p.spage \in Nat /\ e.failed \in SUBSET Nat
    BY <2>1 DEF ProgramType, EraseType
  <2>3. Visible(flash) /\ eccpos # 0 /\ FirstOfBlock(p.spage)
    BY <1>1 DEF MarkParts
  <2> QED  BY <2>1, <2>2, <2>3, BoardParts
<1>3. e.failed \cup {p.cur \div Ppb} \in SUBSET Nat
  BY <1>2, PageAtBlock
<1>4. Visible(flash')
  BY <1>1, <1>2, <1>3, MarkedMarks
<1>5. Visible(flash)'
  <2>1. board' = board
    BY <1>1
  <2> QED  BY <1>4, <2>1 DEF Visible, MarkedIn, BadIn, CheckedOffsets, PageK, chip
<1>6. KeptInStep
  BY <1>1 DEF KeptInStep
<1>7. CASE chip = 4760
  <2>1. op' = "idle"
    BY <1>7 DEF CleanEnd
  <2> QED  BY <1>1, <1>2, <1>5, <1>6, <2>1 DEF MarkParts
<1>8. CASE chip # 4760
  <2>1. op' = "program" /\ p' = RestartAt(p, p.spage + Ppb)
    BY <1>8 DEF CleanEnd
  <2>2. /\ p'.spage = p.spage + Ppb /\ p'.cur = p.spage + Ppb
        /\ p'.sav = IF chip = 4740 THEN eccpos ELSE board.eccpos
    BY <1>2, <2>1 DEF RestartAt, ProgramType
  <2>3. FirstOfBlock(p'.spage) /\ FirstOfBlock(p'.cur)
    BY <1>2, <2>2, NextPage
  <2>4. chip \in {4740, 4750} => p'.sav # 0
    BY <1>2, <2>2 DEF MarksMeanBad
  <2> QED  BY <1>1, <1>2, <1>5, <1>6, <2>1, <2>3, <2>4 DEF MarkParts, chip, FirstOfBlock
<1> QED  BY <1>7, <1>8

\* Reading changes nothing of it; requests start with blocks.
LEMMA OtherMarks ==
  ASSUME TypeInv, MarksMeanBad, MarkParts,
         \/ ReadSpl \/ ReadSkip \/ ReadPage \/ ReadEnd
         \/ HandleErase \/ HandleProgram \/ HandleRead \/ NextJob
  PROVE  MarkParts' /\ KeptInStep
<1>1. board' = board /\ flash' = flash
  <2>1. ReadSpl \/ ReadSkip \/ ReadPage \/ ReadEnd => board' = board /\ flash' = flash
    BY DEF ReadSpl, ReadSkip, ReadPage, ReadEnd
  <2>2. HandleErase \/ HandleRead \/ NextJob => board' = board /\ flash' = flash
    BY DEF HandleErase, nand_erase, HandleRead, nand_read, NextJob
  <2>3. HandleProgram => board' = board /\ flash' = flash
    BY DEF HandleProgram, nand_program
  <2> QED  BY <2>1, <2>2, <2>3
<1>2. KeptInStep
  BY <1>1 DEF KeptInStep
<1>3. Visible(flash)'
  BY <1>1 DEF MarkParts, Visible, MarkedIn, BadIn, CheckedOffsets, PageK, chip
<1>4. board \in Boards /\ board.eccpos \in Nat /\ eccpos # 0
  BY BoardParts DEF TypeInv, MarkParts
<1>5. CASE ReadSpl \/ ReadSkip \/ ReadPage \/ ReadEnd
  <2>1. op' \in {"read", "idle"}
    BY <1>5 DEF ReadSpl, ReadSkip, ReadPage, ReadEnd, Reading
  <2>2. eccpos' \in {eccpos, ReadEccpos}
    BY <1>5 DEF ReadSpl, ReadSkip, ReadPage, ReadEnd
  <2>3. ReadEccpos # 0
    BY <1>4 DEF ReadEccpos, EccposAt, MarksMeanBad
  <2> QED  BY <1>2, <1>3, <1>4, <2>1, <2>2, <2>3 DEF MarkParts
<1>6. CASE HandleErase
  <2>1. op' = "erase" /\ eccpos' = eccpos /\ e' = EraseOf(J.nblk, J.start, board.force)
    BY <1>6 DEF HandleErase, nand_erase
  <2>2. e'.force = board.force /\ e'.failed = {}
    BY <2>1 DEF EraseOf, NoErase
  <2> QED  BY <1>1, <1>2, <1>3, <1>4, <2>1, <2>2 DEF MarkParts
<1>7. CASE HandleProgram
  <2>1. CASE request' = "refused"
    <3>1. op' = op /\ eccpos' = eccpos /\ op = "idle"
      BY <1>7, <2>1 DEF HandleProgram, CrcMatches, Busy
    <3> QED  BY <1>2, <1>3, <1>4, <3>1 DEF MarkParts
  <2>2. CASE request' # "refused"
    <3>1. /\ op' = "program" /\ eccpos' = eccpos /\ ~Done
          /\ p' = RestartAt([NoProgram EXCEPT !.image = J.image, !.option = J.option],
                            J.start * Ppb)
      BY <1>7, <2>2 DEF HandleProgram, nand_program, CrcMatches, TypeInv
    <3>2. /\ p'.spage = J.start * Ppb /\ p'.cur = J.start * Ppb
          /\ p'.sav = IF chip = 4740 THEN eccpos ELSE board.eccpos
      BY <3>1 DEF RestartAt, NoProgram
    <3>3. J.start \in Nat
      BY <3>1, JobParts
    <3>4. FirstOfBlock(p'.spage) /\ FirstOfBlock(p'.cur)
      BY <3>2, <3>3, NextPage
    <3>5. chip \in {4740, 4750} => p'.sav # 0
      BY <1>4, <3>2 DEF MarksMeanBad
    <3> QED  BY <1>1, <1>2, <1>3, <1>4, <3>1, <3>4, <3>5 DEF MarkParts, chip, FirstOfBlock
  <2> QED  BY <2>1, <2>2
<1>8. CASE HandleRead \/ NextJob
  <2>1. op' \in {"read", "idle"} /\ eccpos' = eccpos
    BY <1>8 DEF HandleRead, nand_read, NextJob, Busy
  <2> QED  BY <1>2, <1>3, <1>4, <2>1 DEF MarkParts
<1> QED  BY <1>5, <1>6, <1>7, <1>8

\* The board stays what it is.
LEMMA BoardKept == [Next]_vars => board' = board
<1>1. EraseSkip \/ EraseBlock \/ EraseFails \/ EraseEnd => board' = board
  BY DEF EraseSkip, EraseBlock, EraseFails, EraseEnd
<1>2. ProgramSpl \/ ProgramSkip \/ ProgramNothing \/ ProgramPage => board' = board
  BY DEF ProgramSpl, ProgramSkip, ProgramNothing, ProgramPage
<1>3. (ProgramFails => board' = board) /\ (CleanEnd \/ ProgramEnd => board' = board)
  <2>1. ProgramFails => board' = board
    BY DEF ProgramFails
  <2>2. CleanEnd \/ ProgramEnd => board' = board
    BY DEF CleanEnd, ProgramEnd
  <2> QED  BY <2>1, <2>2
<1>4. ReadSpl \/ ReadSkip \/ ReadPage \/ ReadEnd => board' = board
  BY DEF ReadSpl, ReadSkip, ReadPage, ReadEnd
<1>5. HandleErase \/ HandleProgram \/ HandleRead => board' = board
  <2>1. HandleErase \/ HandleRead => board' = board
    BY DEF HandleErase, nand_erase, HandleRead, nand_read
  <2>2. HandleProgram => board' = board
    BY DEF HandleProgram, nand_program
  <2> QED  BY <2>1, <2>2
<1>6. NextJob \/ Finished \/ UNCHANGED vars => board' = board
  BY DEF NextJob, Finished, vars
<1> QED  BY <1>1, <1>2, <1>3, <1>4, <1>5, <1>6 DEF Next, Driver, DriverStep

\* Every step keeps the marks and touches no marked block it should not.
LEMMA MarkNext ==
  ASSUME MarkInv, [Next]_vars
  PROVE  MarkInv' /\ (MarksMeanBad => KeptInStep)
<1>1. TypeInv /\ TypeInv'
  BY TypeInvNext DEF MarkInv
<1>2. board' = board
  BY BoardKept
<1>3. MarksMeanBad' <=> MarksMeanBad
  BY <1>2 DEF MarksMeanBad, chip
<1>4. SUFFICES ASSUME MarksMeanBad PROVE MarkParts' /\ KeptInStep
  BY <1>1, <1>3 DEF MarkInv
<1>5. MarkParts
  BY <1>4 DEF MarkInv
<1>6. CASE EraseSkip \/ EraseBlock \/ EraseFails \/ EraseEnd
  BY <1>1, <1>4, <1>5, <1>6, EraseMarks
<1>7. CASE \/ ProgramSpl \/ ProgramSkip \/ ProgramNothing \/ ProgramPage \/ ProgramFails
           \/ ProgramEnd
  BY <1>1, <1>2, <1>4, <1>5, <1>7, ProgramMarks
<1>8. CASE CleanEnd
  BY <1>1, <1>4, <1>5, <1>8, CleanMarks
<1>9. CASE \/ ReadSpl \/ ReadSkip \/ ReadPage \/ ReadEnd
           \/ HandleErase \/ HandleProgram \/ HandleRead \/ NextJob
  BY <1>1, <1>4, <1>5, <1>9, OtherMarks
<1>10. CASE Finished \/ UNCHANGED vars
  BY <1>5, <1>10 DEF Finished, vars, MarkParts, KeptInStep, Visible, MarkedIn, BadIn,
                     CheckedOffsets, PageK, chip, FirstOfBlock
<1> QED  BY <1>6, <1>7, <1>8, <1>9, <1>10 DEF Next, Driver, DriverStep

\* Unless it is forced to, or the page of a marked block is one of the boot loader's,
\* no step changes a page of a block that is marked bad, whatever fails.
THEOREM MarksKeptHolds == Spec => MarksKept
<1>1. Init => MarkInv
  BY MarkInit
<1>2. MarkInv /\ [Next]_vars => MarkInv'
  BY MarkNext
<1>3. MarkInv /\ [Next]_vars =>
        [(~board.force /\ MarksMeanBad /\ op # "clean") =>
            \A b \in Blocks : Marked(b) =>
              \A q \in PagesOf(b) : flash'[q] = flash[q] \/ UnderLoader(q)]_vars
  BY MarkNext DEF KeptInStep
<1> QED  BY <1>1, <1>2, <1>3, PTL DEF Spec, MarksKept
-----------------------------------------------------------------------------
(***************************************************************************)
(* What nand_erase leaves behind.                                          *)
(***************************************************************************)

BlankIn(f, b) == \A q \in PagesOf(b) : f[q] = Blank

\* While the loop runs a block that failed may still wait for its mark.
ErasedParts ==
  /\ op = "erase" =>
       /\ writable
       /\ \A b \in e.from .. e.blk - 1 :
            \/ MarkedIn(flash, b) \/ BlankIn(flash, b)
            \/ \E c \in e.failed : BlockAt(c) = BlockAt(b)
  /\ Erased1 => \A b \in e.from .. e.blk - 1 : MarkedIn(flash, b) \/ BlankIn(flash, b)

ErasedInv == MarkInv /\ EraseInv /\ ((MarksMeanBad /\ StaysWritable) => ErasedParts)

\* One block more.
LEMMA OneBlockMore ==
  ASSUME NEW from \in Nat, NEW blk \in Nat, NEW b \in from .. (blk + 1) - 1, b # blk
  PROVE  b \in from .. blk - 1
OBVIOUS

\* Blocks of the same number hold the same pages.
LEMMA SameBlock ==
  ASSUME NEW b \in Nat, NEW c \in Nat
  PROVE  /\ BlockAt(b) = BlockAt(c) => PagesOf(b) = PagesOf(c)
         /\ BlockAt(b) # BlockAt(c) => \A q \in PagesOf(b) : q \notin PagesOf(c)
BY DEF PagesOf

\* The steps of nand_erase.
LEMMA ErasedSteps ==
  ASSUME TypeInv, MarkParts, ErasedParts, MarksMeanBad, StaysWritable', op = "erase",
         board' = board, request' = request,
         EraseSkip \/ EraseBlock \/ EraseFails \/ EraseEnd
  PROVE  ErasedParts'
<1>1. /\ board \in Boards /\ e \in EraseType /\ flash \in [Pages -> PageValues]
      /\ e.blk \in Nat /\ e.from \in Nat /\ e.failed \in SUBSET Nat /\ writable
      /\ PassedOver(e).blk = e.blk + 1 /\ PassedOver(e).from = e.from
      /\ PassedOver(e).failed = e.failed /\ DOMAIN PassedOver(e) = DOMAIN e
  BY DEF TypeInv, EraseType, ErasedParts, PassedOver
<1> DEFINE Covered(f, b, failed) ==
             \/ MarkedIn(f, b) \/ BlankIn(f, b) \/ \E c \in failed : BlockAt(c) = BlockAt(b)
<1>2. \A b \in e.from .. e.blk - 1 : Covered(flash, b, e.failed)
  BY DEF ErasedParts
<1> DEFINE Turn ==
      /\ op' = "erase" /\ writable' /\ e'.blk = e.blk + 1 /\ e'.from = e.from
      /\ Covered(flash', e.blk, e'.failed)
      /\ \A b \in Nat : Covered(flash, b, e.failed) => Covered(flash', b, e'.failed)
<1>3. ASSUME Turn PROVE ErasedParts'
  <2>1. ~Erased1'
    BY <1>3 DEF Erased1, Busy
  <2>2. ASSUME NEW b \in e'.from .. e'.blk - 1 PROVE Covered(flash', b, e'.failed)
    <3>1. CASE b = e.blk
      BY <1>3, <3>1
    <3>2. CASE b # e.blk
      <4>1. b \in e.from .. (e.blk + 1) - 1
        BY <1>3, <2>2
      <4>2. b \in e.from .. e.blk - 1 /\ b \in Nat
        BY <1>1, <3>2, <4>1, OneBlockMore
      <4> QED  BY <1>2, <1>3, <4>2
    <3> QED  BY <3>1, <3>2
  <2> QED  BY <1>3, <2>1, <2>2 DEF ErasedParts, MarkedIn, BlankIn
<1>4. CASE EraseSkip
  <2>1. flash' = flash /\ e' = PassedOver(e) /\ op' = op /\ writable' = writable /\ IsBad(e.blk)
    BY <1>4 DEF EraseSkip
  <2>2. MarkedIn(flash, e.blk)
    BY <1>1, <2>1, CheckedByOffset, BadIsMarked
  <2>3. Turn
    BY <1>1, <2>1, <2>2
  <2> QED  BY <1>3, <2>3
<1>5. CASE EraseBlock
  <2>1. /\ flash' = Erased(flash, e.blk) /\ op' = op /\ writable' = writable
        /\ e' = [e EXCEPT !.blk = @ + 1, !.i = @ + 1, !.good = @ + 1]
    BY <1>1, <1>5 DEF EraseBlock
  <2>2. e'.blk = e.blk + 1 /\ e'.from = e.from /\ e'.failed = e.failed
    BY <1>1, <2>1 DEF EraseType
  <2>3. \A q \in Pages : flash'[q] = IF q \in PagesOf(e.blk) THEN Blank ELSE flash[q]
    BY <2>1 DEF Erased
  <2>4. BlankIn(flash', e.blk)
    BY <1>1, <2>3, OwnPages DEF BlankIn
  <2>5. ASSUME NEW b \in Nat, Covered(flash, b, e.failed) PROVE Covered(flash', b, e'.failed)
    <3>1. CASE BlockAt(b) = BlockAt(e.blk)
      <4>1. PagesOf(b) = PagesOf(e.blk)
        BY <1>1, <3>1, SameBlock
      <4> QED  BY <2>4, <4>1 DEF BlankIn
    <3>2. CASE BlockAt(b) # BlockAt(e.blk)
      <4>1. \A q \in PagesOf(b) : flash'[q] = flash[q]
        BY <1>1, <2>3, <3>2, SameBlock, OwnPages
      <4> QED  BY <2>2, <2>5, <4>1 DEF MarkedIn, BlankIn
    <3> QED  BY <3>1, <3>2
  <2> HIDE DEF Covered
  <2>6. Covered(flash', e.blk, e'.failed)
    BY <2>4 DEF Covered
  <2>7. Turn
    BY <1>1, <2>1, <2>2, <2>5, <2>6
  <2> QED  BY <1>3, <2>7
<1>6. CASE EraseFails
  <2>1. hit' = hit \cup {"erase"} /\ op' = op
    BY <1>6 DEF EraseFails
  <2>2. CASE chip = 4770
    <3>1. /\ e' = [PassedOver(e) EXCEPT !.failed = @ \cup {e.blk}] /\ flash' = flash
          /\ writable' = writable
      BY <1>6, <2>2 DEF EraseFails
    <3>2. e'.blk = e.blk + 1 /\ e'.from = e.from /\ e'.failed = e.failed \cup {e.blk}
      <4>1. {"failed", "blk", "from"} \subseteq DOMAIN PassedOver(e)
        BY <1>1 DEF EraseType
      <4> QED  BY <1>1, <3>1, <4>1
    <3>3. Turn
      BY <1>1, <2>1, <3>1, <3>2
    <3> QED  BY <1>3, <3>3
  <2>3. CASE chip # 4770
    <3>1. e' = PassedOver(e) /\ flash' = MarkedBad(flash, {e.blk}) /\ writable' = PinLow
      BY <1>6, <2>3 DEF EraseFails
    <3>2. writable'
      <4>1. ~board.wp
        BY <2>1, <2>3 DEF StaysWritable, chip
      <4> QED  BY <3>1, <4>1 DEF PinLow
    <3>3. {e.blk} \in SUBSET Nat
      BY <1>1
    <3>4. /\ \A q \in Pages : q \notin PagesOf(e.blk) => flash'[q] = flash[q]
          /\ \A c \in Nat : BlockAt(c) = BlockAt(e.blk) => BadIn(flash', c)
      BY <1>1, <3>1, <3>3, MarkedMarks
    <3>5. \A c \in Nat : BlockAt(c) = BlockAt(e.blk) => MarkedIn(flash', c)
      BY <1>1, <3>4, BadIsMarked
    <3>6. ASSUME NEW b \in Nat, Covered(flash, b, e.failed) PROVE Covered(flash', b, e'.failed)
      <4>1. CASE BlockAt(b) # BlockAt(e.blk)
        <5>1. \A q \in PagesOf(b) : flash'[q] = flash[q]
          BY <1>1, <3>4, <4>1, SameBlock, OwnPages
        <5> QED  BY <1>1, <3>1, <3>6, <5>1 DEF MarkedIn, BlankIn
      <4> QED  BY <3>5, <4>1
    <3>7. Covered(flash', e.blk, e'.failed)
      BY <1>1, <3>5
    <3> HIDE DEF Covered
    <3>8. Turn
      BY <1>1, <2>1, <3>1, <3>2, <3>6, <3>7
    <3> QED  BY <1>3, <3>8
  <2> QED  BY <2>2, <2>3
<1>7. CASE EraseEnd
  <2>1. op' = "idle" /\ e' = e /\ flash' = MarkedBad(flash, e.failed)
    BY <1>7 DEF EraseEnd
  <2>2. /\ \A q \in Pages : (\A c \in e.failed : q \notin PagesOf(c)) => flash'[q] = flash[q]
        /\ \A c \in e.failed : \A b \in Nat : BlockAt(b) = BlockAt(c) => BadIn(flash', b)
    BY <1>1, <2>1, MarkedMarks
  <2>3. ASSUME NEW b \in Nat, Covered(flash, b, e.failed)
        PROVE  MarkedIn(flash', b) \/ BlankIn(flash', b)
    <3>1. CASE \E c \in e.failed : BlockAt(c) = BlockAt(b)
      BY <1>1, <2>2, <3>1, BadIsMarked
    <3>2. CASE ~\E c \in e.failed : BlockAt(c) = BlockAt(b)
      <4>1. \A q \in PagesOf(b) : flash'[q] = flash[q]
        BY <1>1, <2>2, <3>2, SameBlock, OwnPages
      <4> QED  BY <2>3, <3>2, <4>1 DEF MarkedIn, BlankIn
    <3> QED  BY <3>1, <3>2
  <2>4. \A b \in e.from .. e.blk - 1 : b \in Nat
    BY <1>1
  <2>5. \A b \in e'.from .. e'.blk - 1 : MarkedIn(flash', b) \/ BlankIn(flash', b)
    BY <1>2, <2>1, <2>3, <2>4
  <2> QED  BY <2>1, <2>5 DEF ErasedParts, MarkedIn, BlankIn
<1> QED  BY <1>4, <1>5, <1>6, <1>7

\* Every step keeps what is known of the erased blocks.
LEMMA ErasedNext ==
  ASSUME ErasedInv, [Next]_vars
  PROVE  ErasedInv'
<1>1. MarkInv' /\ EraseInv'
  BY MarkNext, EraseInvNext DEF ErasedInv
<1>2. board' = board /\ hit \subseteq hit'
  <2>1. board' = board
    BY BoardKept
  <2>2. hit \subseteq hit'
    <3>1. CASE EraseSkip \/ EraseBlock \/ EraseFails \/ EraseEnd
      BY <3>1 DEF EraseSkip, EraseBlock, EraseFails, EraseEnd
    <3>2. CASE ProgramSkip \/ ProgramNothing \/ ProgramPage
      BY <3>2 DEF ProgramSkip, ProgramNothing, ProgramPage
    <3>8. CASE ProgramFails
      BY <3>8 DEF ProgramFails
    <3>9. CASE CleanEnd \/ ProgramEnd
      BY <3>9 DEF CleanEnd, ProgramEnd
    <3>3. CASE ProgramSpl
      BY <3>3 DEF ProgramSpl
    <3>4. CASE ReadSpl \/ ReadSkip \/ ReadEnd
      BY <3>4 DEF ReadSpl, ReadSkip, ReadEnd
    <3>5. CASE ReadPage
      BY <3>5 DEF ReadPage
    <3>6. CASE HandleErase \/ HandleRead \/ NextJob \/ Finished \/ UNCHANGED vars
      BY <3>6 DEF HandleErase, nand_erase, HandleRead, nand_read, NextJob, Finished, vars
    <3>7. CASE HandleProgram
      BY <3>7 DEF HandleProgram, nand_program
    <3> QED  BY <3>1, <3>2, <3>3, <3>4, <3>5, <3>6, <3>7, <3>8, <3>9 DEF Next, Driver, DriverStep
  <2> QED  BY <2>1, <2>2
<1>3. SUFFICES ASSUME MarksMeanBad, StaysWritable' PROVE ErasedParts'
  BY <1>1, <1>2 DEF ErasedInv, MarksMeanBad, chip
<1>4. /\ TypeInv /\ MarkParts /\ ErasedParts /\ EraseInv
  BY <1>2, <1>3 DEF ErasedInv, MarkInv, StaysWritable, chip
<1>5. CASE op = "erase" /\ Driver
  <2>1. EraseSkip \/ EraseBlock \/ EraseFails \/ EraseEnd
    BY <1>5, OpOf DEF Driver, DriverStep
  <2> QED  BY <1>2, <1>3, <1>4, <1>5, <2>1, ErasedSteps DEF Driver
<1>6. CASE op # "erase" /\ Driver
  <2>1. op' # "erase"
    <3>1. CASE EraseSkip \/ EraseBlock \/ EraseFails \/ EraseEnd
      BY <1>6, <3>1 DEF EraseSkip, EraseBlock, EraseFails, EraseEnd
    <3>2. CASE \/ ProgramSpl \/ ProgramSkip \/ ProgramNothing \/ ProgramPage \/ ProgramFails
               \/ ProgramEnd
      <4>1. CASE ProgramSpl \/ ProgramSkip \/ ProgramNothing \/ ProgramPage
        BY <1>6, <4>1 DEF ProgramSpl, ProgramSkip, ProgramNothing, ProgramPage
      <4>2. CASE ProgramFails
        BY <4>2 DEF ProgramFails
      <4>3. CASE ProgramEnd
        BY <4>3 DEF ProgramEnd
      <4> QED  BY <3>2, <4>1, <4>2, <4>3
    <3>3. CASE CleanEnd
      BY <3>3 DEF CleanEnd
    <3>4. CASE ReadSpl \/ ReadSkip \/ ReadPage \/ ReadEnd
      BY <1>6, <3>4 DEF ReadSpl, ReadSkip, ReadPage, ReadEnd
    <3> QED  BY <1>6, <3>1, <3>2, <3>3, <3>4 DEF Driver, DriverStep
  <2>2. request # "erase" /\ request' = request
    <3>1. op \in {"program", "clean", "read"}
      BY <1>6, OpOf DEF Driver, DriverStep
    <3> QED  BY <1>4, <1>6, <3>1 DEF Driver, TypeInv, Serving
  <2> QED  BY <2>1, <2>2 DEF ErasedParts, Erased1
<1>7. CASE HandleErase
  <2>1. op' = "erase" /\ e' = EraseOf(J.nblk, J.start, board.force) /\ writable' = PinHigh /\ ~Done
    BY <1>7 DEF HandleErase, nand_erase
  <2>2. e'.from = J.start /\ e'.blk = J.start
    BY <2>1 DEF EraseOf, NoErase
  <2>3. J.start \in Nat
    BY <1>4, <2>1, JobParts
  <2> QED  BY <2>1, <2>2, <2>3 DEF ErasedParts, Erased1, Busy, PinHigh
<1>8. CASE HandleProgram \/ HandleRead \/ NextJob
  <2>1. op' # "erase" /\ request' # "erase"
    <3>1. CASE HandleProgram
      BY <3>1 DEF HandleProgram, nand_program, Busy
    <3>2. CASE HandleRead \/ NextJob
      BY <3>2 DEF HandleRead, NextJob, nand_read, Busy
    <3> QED  BY <1>8, <3>1, <3>2
  <2> QED  BY <2>1 DEF ErasedParts, Erased1
<1>9. CASE Finished \/ UNCHANGED vars
  BY <1>4, <1>9 DEF Finished, vars, ErasedParts, Erased1, Busy, MarkedIn, BlankIn
<1> QED  BY <1>5, <1>6, <1>7, <1>8, <1>9 DEF Next

\* Every block up to where nand_erase stopped is blank or marked bad, on every board
\* and flash, whichever blocks were bad or fail.
THEOREM ErasedOrMarkedHolds == Spec => []ErasedOrMarked
<1>1. Init => ErasedInv
  <2>1. Init => ErasedParts
    BY DEF Init, DriverInit, ErasedParts, Erased1
  <2> QED  BY <2>1, MarkInit, EraseInvInit DEF ErasedInv
<1>2. ErasedInv /\ [Next]_vars => ErasedInv'
  BY ErasedNext
<1>3. ErasedInv => ErasedOrMarked
  <2> SUFFICES ASSUME ErasedInv, Erased1, MarksMeanBad, StaysWritable
               PROVE  \A b \in e.from .. (ret \div Ppb) - 1 :
                        Marked(b) \/ \A q \in PagesOf(b) : flash[q] = Blank
    BY DEF ErasedOrMarked
  <2>1. ret = e.blk * Ppb /\ e.blk \in Nat
    BY DEF ErasedInv, EraseInv, Erased1, EraseLoop, EraseType
  <2>2. ret \div Ppb = e.blk
    BY <2>1, NextPage
  <2> QED  BY <2>2 DEF ErasedInv, ErasedParts, Marked, MarkedIn, BlankIn
<1> QED  BY <1>1, <1>2, <1>3, PTL DEF Spec
-----------------------------------------------------------------------------
(***************************************************************************)
(* What nand_program leaves behind.  The pages of good blocks from the     *)
(* start of the image up to page c hold what nand_program has come to,     *)
(* and those above c are blank as far as the host erased.                  *)
(***************************************************************************)

FirstPage == IF SplStart THEN 2 * Ppb ELSE J.start * Ppb
Top == (J.start + NBlocks) * Ppb
Held(f, c) == {n \in FirstPage .. c - 1 : ~BadIn(f, n \div Ppb)}
Below(S, n) == {m \in S : m < n}

\* As far as the host erased, and not once round the chip.
InRoom(c) == c <= erasedTo * Ppb /\ c <= Top

BlankAbove(f, c) ==
  \A n \in Nat : (/\ c <= n /\ n < erasedTo * Ppb /\ n < Top
                 /\ ~BadIn(f, n \div Ppb)) => f[PageAt(n)] = Blank

InOrder(f, S) ==
  \A n \in S : f[PageAt(n)].data = J.image[SplCount + 1 + Cardinality(Below(S, n))]

LoaderFree(f) == \A b \in Blocks : b * Ppb < 2 * SplPages => ~MarkedIn(f, b)
LoaderIn(f) ==
  \A k \in 0 .. SplCount - 1 : /\ f[2 * k] = Page(J.image[k + 1], SplData, FALSE)
                              /\ f[2 * k + 1] = Page(J.image[k + 1], SplCode, FALSE)

Stores(f, c, i) ==
  /\ Cardinality(Held(f, c)) = i - SplCount
  /\ InRoom(c) => InOrder(f, Held(f, c)) /\ (LoaderFree(f) => LoaderIn(f))

\* Two pages less than the chip apart are not the same.
LEMMA ApartModulo ==
  ASSUME NEW m \in Nat \ {0}, NEW n \in Nat, NEW c \in Nat, n < c, c < n + m
  PROVE  n % m # c % m
<1> DEFINE q == n \div m
           t == c \div m
           u == n % m
           v == c % m
<1>1. n = q * m + u /\ q \in Nat /\ u \in 0 .. m - 1 /\ c = t * m + v /\ t \in Nat /\ v \in 0 .. m - 1
  BY Division
<1> HIDE DEF q, t, u, v
<1>2. SUFFICES ASSUME u = v PROVE FALSE
  BY DEF u, v
<1>3. q * m \in Nat /\ t * m \in Nat
  BY <1>1
<1>4. ASSUME t <= q PROVE FALSE
  <2>1. PICK k \in Nat : q = t + k
    <3>1. q - t \in Nat /\ q = t + (q - t)
      BY <1>1, <1>4
    <3> QED  BY <3>1
  <2>2. q * m = t * m + k * m /\ k * m \in Nat
    BY <1>1, <2>1
  <2> DEFINE x == q * m
             y == t * m
             z == k * m
  <2>3. x \in Nat /\ y \in Nat /\ z \in Nat /\ x = y + z /\ n = x + u /\ c = y + v
    BY <1>1, <1>3, <2>2
  <2> HIDE DEF x, y, z
  <2> QED  BY <1>1, <1>2, <2>3
<1>5. ASSUME t > q PROVE FALSE
  <2>1. PICK k \in Nat : t = q + (k + 1)
    <3>1. t - q - 1 \in Nat /\ t = q + ((t - q - 1) + 1)
      BY <1>1, <1>5
    <3> QED  BY <3>1
  <2>2. t * m = q * m + (k * m + m) /\ k * m \in Nat
    BY <1>1, <2>1
  <2> DEFINE x == q * m
             y == t * m
             z == k * m
  <2>3. x \in Nat /\ y \in Nat /\ z \in Nat /\ y = x + (z + m) /\ n = x + u /\ c = y + v
    BY <1>1, <1>3, <2>2
  <2> HIDE DEF x, y, z
  <2> QED  BY <1>1, <1>2, <2>3
<1> QED  BY <1>1, <1>4, <1>5

\* The pages of an image that does not come round are all different.
LEMMA ApartPages ==
  ASSUME NEW first \in Nat, NEW n \in Nat, NEW c \in Nat, n # c,
         first * Ppb <= n, n < (first + NBlocks) * Ppb,
         first * Ppb <= c, c < (first + NBlocks) * Ppb
  PROVE  PageAt(n) # PageAt(c)
<1> DEFINE size == NBlocks * Ppb
           y == first * Ppb
           z == (first + NBlocks) * Ppb
<1>1. Ppb \in Nat \ {0} /\ NBlocks \in Nat \ {0}
  BY FlashAssumptions
<1>2. size \in Nat \ {0} /\ y \in Nat /\ z = y + size
  BY <1>1
<1>3. y <= n /\ n < z /\ y <= c /\ c < z
  OBVIOUS
<1> HIDE DEF size, y, z
<1>4. CASE n < c
  <2>1. c < n + size
    BY <1>2, <1>3
  <2> QED  BY <1>2, <1>4, <2>1, ApartModulo DEF PageAt, size
<1>5. CASE c < n
  <2>1. n < c + size
    BY <1>2, <1>3
  <2> QED  BY <1>2, <1>5, <2>1, ApartModulo DEF PageAt, size
<1> QED  BY <1>4, <1>5

\* The chip's own page numbers.
LEMMA PageOfChip ==
  ASSUME NEW q \in Nat, q < NBlocks * Ppb
  PROVE  PageAt(q) = q /\ q \in Pages
<1> DEFINE size == NBlocks * Ppb
<1>1. size \in Nat \ {0}
  BY FlashAssumptions
<1>2. q < size
  OBVIOUS
<1> HIDE DEF size
<1>3. q \in 0 .. size - 1
  BY <1>1, <1>2
<1>4. (0 * size + q) % size = q /\ 0 * size + q = q
  BY <1>1, <1>3, DivisionUnique
<1> QED  BY <1>3, <1>4 DEF PageAt, Pages, size

\* The same of blocks.
LEMMA ApartBlocks ==
  ASSUME NEW b \in Nat, NEW c \in Nat, b < c, c < b + NBlocks
  PROVE  BlockAt(b) # BlockAt(c)
BY FlashAssumptions, ApartModulo DEF BlockAt

\* A page lies in or above a block.
LEMMA AboveBlock ==
  ASSUME NEW n \in Nat, NEW b \in Nat
  PROVE  /\ n >= b * Ppb <=> n \div Ppb >= b
         /\ n < b * Ppb <=> n \div Ppb < b
<1> DEFINE q == n \div Ppb
           d == n % Ppb
<1>1. Ppb \in Nat \ {0}
  BY FlashAssumptions
<1>2. n = q * Ppb + d /\ q \in Nat /\ d \in 0 .. Ppb - 1
  BY <1>1, Division
<1> HIDE DEF q, d
<1> DEFINE x == q * Ppb
           y == b * Ppb
<1>3. x \in Nat /\ y \in Nat /\ n = x + d
  BY <1>1, <1>2
<1>4. ASSUME q >= b PROVE n >= y
  <2>1. PICK k \in Nat : q = b + k
    <3>1. q - b \in Nat /\ q = b + (q - b)
      BY <1>2, <1>4
    <3> QED  BY <3>1
  <2>2. x = y + k * Ppb /\ k * Ppb \in Nat
    BY <1>1, <2>1
  <2> DEFINE z == k * Ppb
  <2>3. x = y + z /\ z \in Nat
    BY <2>2
  <2> HIDE DEF x, y, z
  <2> QED  BY <1>2, <1>3, <2>3
<1>5. ASSUME q < b PROVE n < y
  <2>1. PICK k \in Nat : b = q + (k + 1)
    <3>1. b - q - 1 \in Nat /\ b = q + ((b - q - 1) + 1)
      BY <1>2, <1>5
    <3> QED  BY <3>1
  <2>2. y = x + (k * Ppb + Ppb) /\ k * Ppb \in Nat
    BY <1>1, <1>2, <2>1
  <2> DEFINE z == k * Ppb
  <2>3. y = x + (z + Ppb) /\ z \in Nat
    BY <2>2
  <2> HIDE DEF x, y, z
  <2> QED  BY <1>1, <1>2, <1>3, <2>3
<1> HIDE DEF y
<1> QED  BY <1>2, <1>3, <1>4, <1>5 DEF q, y

\* One page more in order.
LEMMA OneMorePage ==
  ASSUME NEW a \in Nat, NEW c \in Nat, NEW S \in SUBSET (a .. c - 1)
  PROVE  /\ IsFiniteSet(S) /\ Cardinality(S) \in Nat
         /\ Cardinality(S \cup {c}) = Cardinality(S) + 1
         /\ \A n \in S : Below(S \cup {c}, n) = Below(S, n)
         /\ Below(S \cup {c}, c) = S
<1>1. IsFiniteSet(a .. c - 1)
  BY FS_Interval
<1>2. IsFiniteSet(S)
  BY <1>1, FS_Subset
<1>3. c \notin S
  OBVIOUS
<1>4. Cardinality(S \cup {c}) = Cardinality(S) + 1 /\ Cardinality(S) \in Nat
  BY <1>2, <1>3, FS_AddElement, FS_CardinalityType
<1>5. \A n \in S : n \in Int /\ n < c
  OBVIOUS
<1>6. ASSUME NEW n \in S PROVE Below(S \cup {c}, n) = Below(S, n)
  <2>1. ~(c < n)
    BY <1>5
  <2> QED  BY <2>1 DEF Below
<1>7. Below(S \cup {c}, c) = S
  <2>1. ~(c < c)
    OBVIOUS
  <2> QED  BY <1>5, <2>1 DEF Below
<1> QED  BY <1>2, <1>4, <1>6, <1>7
\* Where an image begins, and what is above or below a page of it.
LEMMA ImagePlace ==
  ASSUME TypeInv, ~Done
  PROVE  /\ J.start \in Nat /\ J.start * Ppb \in Nat /\ FirstPage \in Nat /\ Top \in Nat
         /\ FirstPage >= J.start * Ppb /\ FirstOfBlock(FirstPage)
         /\ SplStart => J.start = 0 /\ FirstPage = 2 * Ppb /\ Top = NBlocks * Ppb
         /\ SplCount \in Nat /\ (SplStart <=> SplCount # 0) /\ Ppb \in Nat \ {0, 1}
         /\ \A f, c : Held(f, c) \in SUBSET (FirstPage .. c - 1)
<1>1. J.start \in Nat /\ Ppb \in Nat \ {0, 1} /\ NBlocks \in Nat \ {0} /\ SplPages \in Nat \ {0}
  BY JobParts, FlashAssumptions, DriverAssumptions
<1>2. J.start * Ppb \in Nat /\ 2 * Ppb \in Nat /\ Top \in Nat
  BY <1>1 DEF Top
<1>3. FirstPage \in Nat /\ FirstPage >= J.start * Ppb
  <2>1. CASE SplStart
    <3>1. J.start = 0 /\ FirstPage = 2 * Ppb
      BY <2>1 DEF SplStart, FirstPage
    <3> QED  BY <1>1, <1>2, <3>1
  <2>2. CASE ~SplStart
    BY <1>2, <2>2 DEF FirstPage
  <2> QED  BY <2>1, <2>2
<1>4. FirstOfBlock(FirstPage)
  BY <1>1, NextPage, 2 \in Nat DEF FirstPage
<1>5. SplStart => J.start = 0 /\ FirstPage = 2 * Ppb /\ Top = NBlocks * Ppb
  <2>1. (0 + NBlocks) * Ppb = NBlocks * Ppb
    BY <1>1
  <2> QED  BY <2>1 DEF SplStart, FirstPage, Top
<1>6. SplCount \in Nat /\ (SplStart <=> SplCount # 0)
  BY <1>1 DEF SplCount
<1>7. \A f, c : Held(f, c) \in SUBSET (FirstPage .. c - 1)
  BY DEF Held
<1> QED  BY <1>1, <1>2, <1>3, <1>4, <1>5, <1>6, <1>7

\* The pages of good blocks do not become more when a bad block is passed over.
LEMMA SkippedHeld ==
  ASSUME TypeInv, ~Done, NEW f, NEW c \in Nat, c >= FirstPage, FirstOfBlock(c),
         BadIn(f, c \div Ppb)
  PROVE  Held(f, c + Ppb) = Held(f, c)
<1>1. Ppb \in Nat \ {0, 1} /\ FirstPage \in Nat
  BY ImagePlace
<1> DEFINE b == c \div Ppb
<1>2. b \in Nat /\ c = b * Ppb /\ c + Ppb = (b + 1) * Ppb
  <2>1. c = b * Ppb + (c % Ppb) /\ b \in Nat /\ c % Ppb = 0
    BY <1>1, Division DEF FirstOfBlock
  <2> HIDE DEF b
  <2>2. b * Ppb \in Nat /\ (b + 1) * Ppb = b * Ppb + Ppb
    BY <1>1, <2>1
  <2> QED  BY <1>1, <2>1, <2>2
<1>3. ASSUME NEW n \in c .. c + Ppb - 1 PROVE n \div Ppb = b
  <2>1. n \in Nat /\ n >= b * Ppb /\ n < (b + 1) * Ppb
    BY <1>1, <1>2
  <2>2. n \div Ppb >= b /\ n \div Ppb < b + 1 /\ n \div Ppb \in Nat
    BY <1>2, <2>1, AboveBlock, PageAtBlock
  <2> HIDE DEF b
  <2> QED  BY <1>2, <2>2
<1>4. ASSUME NEW n \in FirstPage .. (c + Ppb) - 1, ~BadIn(f, n \div Ppb)
      PROVE  n \in FirstPage .. c - 1
  <2>1. n \notin c .. c + Ppb - 1
    BY <1>3, <1>4
  <2> QED  BY <1>1, <2>1
<1>5. ASSUME NEW n \in FirstPage .. c - 1 PROVE n \in FirstPage .. (c + Ppb) - 1
  BY <1>1
<1> QED  BY <1>4, <1>5 DEF Held

\* A boot loader comes with all of its pages.
LEMMA LoaderInJob ==
  ASSUME TypeInv, ~Done, SplStart
  PROVE  SplPages <= Len(J.image) /\ SplPages \in Nat \ {0}
<1>1. board.chip \in {4760, 4770} /\ J.start = 0
  BY DEF SplStart, HasSplPages, chip
<1>2. board \in Boards /\ job \in 1 .. Len(board.jobs) /\ J.image \in Seq(Data)
  BY JobParts DEF TypeInv
<1>3. \A b \in Boards : b.chip \in {4760, 4770} =>
        \A x \in 1 .. Len(b.jobs) : b.jobs[x].start = 0 => Len(b.jobs[x].image) >= SplPages
  BY DriverAssumptions
<1>4. board.jobs[job].start = 0 => Len(board.jobs[job].image) >= SplPages
  BY <1>1, <1>2, <1>3
<1>5. Len(J.image) >= SplPages
  BY <1>1, <1>4 DEF J
<1>6. Len(J.image) \in Nat /\ SplPages \in Nat \ {0}
  BY <1>2, DriverAssumptions
<1> QED  BY <1>5, <1>6

\* A bad block has no pages of the image.
LEMMA SkippedStores ==
  ASSUME TypeInv, ~Done, NEW f, NEW c \in Nat, NEW i, c >= FirstPage, FirstOfBlock(c),
         BadIn(f, c \div Ppb), Stores(f, c, i)
  PROVE  Stores(f, c + Ppb, i)
<1>1. Ppb \in Nat \ {0, 1} /\ Top \in Nat /\ erasedTo \in Nat
  BY ImagePlace DEF TypeInv
<1>2. Held(f, c + Ppb) = Held(f, c)
  BY SkippedHeld
<1>3. InRoom(c + Ppb) => InRoom(c)
  <2>1. erasedTo * Ppb \in Nat
    BY <1>1
  <2> DEFINE y == erasedTo * Ppb
  <2> HIDE DEF y
  <2> QED  BY <1>1, <2>1 DEF InRoom, y
<1> QED  BY <1>2, <1>3 DEF Stores

\* One page more of a good block.
LEMMA HeldFurther ==
  ASSUME TypeInv, ~Done, NEW f, NEW c \in Nat, c >= FirstPage, ~BadIn(f, c \div Ppb)
  PROVE  /\ Held(f, c + 1) = Held(f, c) \cup {c}
         /\ Cardinality(Held(f, c)) \in Nat
         /\ Cardinality(Held(f, c + 1)) = Cardinality(Held(f, c)) + 1
         /\ \A n \in Held(f, c) : Below(Held(f, c + 1), n) = Below(Held(f, c), n)
         /\ Below(Held(f, c + 1), c) = Held(f, c)
<1>1. FirstPage \in Nat /\ Held(f, c) \in SUBSET (FirstPage .. c - 1)
  BY ImagePlace
<1>2. Held(f, c + 1) = Held(f, c) \cup {c}
  <2>1. ASSUME NEW n \in FirstPage .. (c + 1) - 1, n # c PROVE n \in FirstPage .. c - 1
    BY <1>1, <2>1
  <2>2. c \in FirstPage .. (c + 1) - 1 /\ FirstPage .. c - 1 \subseteq FirstPage .. (c + 1) - 1
    BY <1>1
  <2> QED  BY <2>1, <2>2 DEF Held
<1> DEFINE S == Held(f, c)
<1>3. S \in SUBSET (FirstPage .. c - 1) /\ Held(f, c + 1) = S \cup {c}
  BY <1>1, <1>2
<1> HIDE DEF S
<1>4. /\ IsFiniteSet(S) /\ Cardinality(S) \in Nat
      /\ Cardinality(S \cup {c}) = Cardinality(S) + 1
      /\ \A n \in S : Below(S \cup {c}, n) = Below(S, n)
      /\ Below(S \cup {c}, c) = S
  <2> DEFINE More(T) ==
        /\ IsFiniteSet(T) /\ Cardinality(T) \in Nat
        /\ Cardinality(T \cup {c}) = Cardinality(T) + 1
        /\ \A n \in T : Below(T \cup {c}, n) = Below(T, n)
        /\ Below(T \cup {c}, c) = T
  <2>1. \A a \in Nat : \A T \in SUBSET (a .. c - 1) : More(T)
    BY OneMorePage
  <2> HIDE DEF More
  <2>2. More(S)
    BY <1>1, <1>3, <2>1
  <2> QED  BY <2>2 DEF More
<1> QED  BY <1>3, <1>4 DEF S

\* A page of the image goes to a blank page.
LEMMA WrittenStores ==
  ASSUME TypeInv, ~Done, NEW f \in [Pages -> PageValues], NEW g \in [Pages -> PageValues],
         NEW c \in Nat, NEW i \in Nat, c >= FirstPage, ~BadIn(f, c \div Ppb),
         board.layout, MarksMeanBad, i < Len(J.image), Stores(f, c, i), BlankAbove(f, c),
         SameMarks(f, g), \A q \in Pages : q # PageAt(c) => g[q] = f[q],
         f[PageAt(c)] = Blank => g[PageAt(c)].data = J.image[i + 1]
  PROVE  Stores(g, c + 1, i + 1) /\ BlankAbove(g, c + 1)
<1>1. /\ Ppb \in Nat \ {0, 1} /\ FirstPage \in Nat /\ Top \in Nat /\ erasedTo \in Nat
      /\ FirstPage >= J.start * Ppb /\ J.start * Ppb \in Nat /\ J.start \in Nat
      /\ SplCount \in Nat /\ Held(f, c) \in SUBSET (FirstPage .. c - 1)
      /\ NBlocks \in Nat \ {0} /\ board \in Boards
  BY ImagePlace, FlashAssumptions DEF TypeInv
<1>2. \A b \in Nat : (MarkedIn(g, b) <=> MarkedIn(f, b)) /\ (BadIn(g, b) <=> BadIn(f, b))
  BY <1>1, SameMarksSame
<1>3. \A n \in Nat : n \div Ppb \in Nat
  BY PageAtBlock
<1>4. Held(g, c + 1) = Held(f, c) \cup {c}
  <2>1. Held(f, c + 1) = Held(f, c) \cup {c}
    BY HeldFurther
  <2>2. ASSUME NEW n \in FirstPage .. (c + 1) - 1
        PROVE  BadIn(g, n \div Ppb) <=> BadIn(f, n \div Ppb)
    <3>1. n \in Nat
      BY <1>1
    <3> QED  BY <1>2, <1>3, <3>1
  <2>3. Held(g, c + 1) = Held(f, c + 1)
    BY <2>2 DEF Held
  <2> QED  BY <2>1, <2>3
<1> DEFINE S == Held(f, c)
<1>5. /\ Cardinality(S) = i - SplCount /\ Cardinality(S) \in Nat
      /\ Cardinality(S \cup {c}) = Cardinality(S) + 1
      /\ \A n \in S : Below(S \cup {c}, n) = Below(S, n)
      /\ Below(S \cup {c}, c) = S
  <2>1. /\ Held(f, c + 1) = S \cup {c} /\ Cardinality(S) \in Nat
        /\ Cardinality(Held(f, c + 1)) = Cardinality(S) + 1
        /\ \A n \in S : Below(Held(f, c + 1), n) = Below(S, n)
        /\ Below(Held(f, c + 1), c) = S
    BY HeldFurther
  <2>2. Cardinality(S) = i - SplCount
    BY DEF Stores
  <2> HIDE DEF S
  <2> QED  BY <2>1, <2>2
<1>6. Cardinality(Held(g, c + 1)) = (i + 1) - SplCount
  <2> DEFINE k == Cardinality(S)
  <2>1. k \in Nat /\ k = i - SplCount /\ Cardinality(Held(g, c + 1)) = k + 1
    BY <1>4, <1>5
  <2> HIDE DEF k
  <2> QED  BY <1>1, <2>1
<1>7. ASSUME NEW n \in Nat, J.start * Ppb <= n, n < Top, J.start * Ppb <= c, c < Top, n # c
      PROVE  g[PageAt(n)] = f[PageAt(n)]
  <2>1. PageAt(n) # PageAt(c)
    BY <1>1, <1>7, ApartPages DEF Top
  <2>2. PageAt(n) \in Pages
    BY PageAtBlock DEF PagesOf
  <2> QED  BY <2>1, <2>2
<1>8. J.start * Ppb <= c /\ erasedTo * Ppb \in Nat
  <2>1. erasedTo * Ppb \in Nat
    BY <1>1
  <2> DEFINE y == J.start * Ppb
  <2>2. y \in Nat /\ FirstPage >= y
    BY <1>1
  <2>3. y <= c
    <3> HIDE DEF y
    <3> QED  BY <1>1, <2>2
  <2> QED  BY <2>1, <2>3
<1>9. ASSUME InRoom(c + 1) PROVE InRoom(c) /\ c < erasedTo * Ppb /\ c < Top
  <2> DEFINE y == erasedTo * Ppb
  <2>1. y \in Nat /\ c + 1 <= y /\ c + 1 <= Top
    BY <1>8, <1>9 DEF InRoom
  <2> HIDE DEF y
  <2>2. c <= y /\ c < y /\ c <= Top /\ c < Top
    BY <1>1, <2>1
  <2> QED  BY <2>2 DEF InRoom, y
<1>10. ASSUME InRoom(c + 1) PROVE InOrder(g, Held(g, c + 1))
  <2>1. g[PageAt(c)].data = J.image[i + 1]
    BY <1>9, <1>10 DEF BlankAbove
  <2>2. SplCount + 1 + Cardinality(Below(S \cup {c}, c)) = i + 1
    <3>1. Cardinality(Below(S \cup {c}, c)) = i - SplCount
      BY <1>5
    <3> QED  BY <1>1, <3>1
  <2>3. ASSUME NEW n \in S
        PROVE  g[PageAt(n)].data = J.image[SplCount + 1 + Cardinality(Below(S \cup {c}, n))]
    <3>1. f[PageAt(n)].data = J.image[SplCount + 1 + Cardinality(Below(S, n))]
      BY <1>9, <1>10 DEF Stores, InOrder
    <3>2. n \in Nat /\ n < c /\ n # c /\ n >= FirstPage
      BY <1>1
    <3>3. J.start * Ppb <= n
      <4> DEFINE y == J.start * Ppb
      <4>1. y \in Nat /\ FirstPage >= y
        BY <1>1
      <4> HIDE DEF y
      <4>2. y <= n
        BY <1>1, <3>2, <4>1
      <4> QED  BY <4>2 DEF y
    <3>4. n < Top
      BY <1>1, <1>9, <1>10, <3>2
    <3>5. g[PageAt(n)] = f[PageAt(n)]
      BY <1>7, <1>8, <1>9, <1>10, <3>2, <3>3, <3>4
    <3> QED  BY <1>5, <3>1, <3>5
  <2> HIDE DEF S
  <2>4. \A n \in S \cup {c} :
           g[PageAt(n)].data = J.image[SplCount + 1 + Cardinality(Below(S \cup {c}, n))]
    BY <2>1, <2>2, <2>3
  <2> QED  BY <1>4, <2>4 DEF InOrder, S
<1>11. ASSUME InRoom(c + 1), LoaderFree(g) PROVE LoaderIn(g)
  <2>1. LoaderFree(f)
    BY <1>2, <1>11, FlashAssumptions DEF LoaderFree, Blocks
  <2>2. LoaderIn(f)
    BY <1>9, <1>11, <2>1 DEF Stores
  <2>3. CASE ~SplStart
    BY <2>3 DEF LoaderIn, SplCount
  <2>4. CASE SplStart
    <3>1. /\ J.start = 0 /\ FirstPage = 2 * Ppb /\ Top = NBlocks * Ppb /\ SplCount = SplPages
          /\ SplPages \in Nat \ {0} /\ 2 * SplPages <= 2 * Ppb
      BY <2>4, ImagePlace, DriverAssumptions DEF SplCount
    <3>2. ASSUME NEW q \in Nat, q < 2 * SplPages PROVE g[q] = f[q]
      <4>1. q < c /\ q < Top /\ q # c
        BY <1>1, <1>9, <1>11, <3>1, <3>2
      <4>2. g[PageAt(q)] = f[PageAt(q)]
        <5>1. J.start * Ppb = 0
          BY <1>1, <3>1
        <5> QED  BY <1>7, <1>8, <1>9, <1>11, <4>1, <5>1
      <4>3. PageAt(q) = q
        BY <3>1, <4>1, PageOfChip
      <4> QED  BY <4>2, <4>3
    <3>3. ASSUME NEW k \in 0 .. SplCount - 1
          PROVE  /\ g[2 * k] = f[2 * k] /\ g[2 * k + 1] = f[2 * k + 1]
      <4>1. 2 * k \in Nat /\ 2 * k + 1 \in Nat /\ 2 * k < 2 * SplPages /\ 2 * k + 1 < 2 * SplPages
        BY <3>1
      <4> QED  BY <3>2, <4>1
    <3> QED  BY <2>2, <3>3 DEF LoaderIn
  <2> QED  BY <2>3, <2>4
<1>12. BlankAbove(g, c + 1)
  <2>1. SUFFICES ASSUME NEW n \in Nat, c + 1 <= n, n < erasedTo * Ppb, n < Top,
                        ~BadIn(g, n \div Ppb)
                 PROVE  g[PageAt(n)] = Blank
    BY DEF BlankAbove
  <2>2. c <= n /\ n # c /\ c < Top
    BY <1>1, <2>1
  <2>3. f[PageAt(n)] = Blank
    BY <1>2, <1>3, <2>1, <2>2 DEF BlankAbove
  <2>4. J.start * Ppb <= n
    <3> DEFINE y == J.start * Ppb
    <3>1. y \in Nat /\ y <= c
      BY <1>1, <1>8
    <3> HIDE DEF y
    <3>2. y <= n
      BY <2>2, <3>1
    <3> QED  BY <3>2 DEF y
  <2> QED  BY <1>7, <1>8, <2>1, <2>2, <2>3, <2>4
<1> QED  BY <1>6, <1>10, <1>11, <1>12 DEF Stores
\* When all of the image is in the block at hand, no block before it is good; with a
\* boot loader in front that is never so.
LEMMA FirstBlockOnly ==
  ASSUME TypeInv, ~Done, NEW f, NEW c \in Nat, c >= FirstPage, Stores(f, c, c % Ppb),
         FirstOfBlock(c) \/ ~BadIn(f, c \div Ppb)
  PROVE  ~SplStart /\ \A b \in J.start .. (c \div Ppb) - 1 : BadIn(f, b)
<1> DEFINE B == c \div Ppb
           d == c % Ppb
           y == B * Ppb
           S == Held(f, c)
           T == y .. c - 1
<1>1. /\ Ppb \in Nat \ {0, 1} /\ FirstPage \in Nat /\ SplCount \in Nat /\ J.start \in Nat
      /\ S \in SUBSET (FirstPage .. c - 1) /\ (SplStart <=> SplCount # 0)
  BY ImagePlace
<1>2. c = y + d /\ B \in Nat /\ d \in 0 .. Ppb - 1 /\ y \in Nat
  <2>1. c = B * Ppb + d /\ B \in Nat /\ d \in 0 .. Ppb - 1
    BY <1>1, Division
  <2>2. B * Ppb \in Nat
    <3> HIDE DEF B
    <3> QED  BY <1>1, <2>1
  <2> QED  BY <2>1, <2>2
<1>3. FirstPage <= y
  <2> DEFINE b0 == FirstPage \div Ppb
  <2>1. FirstPage = b0 * Ppb /\ b0 \in Nat
    <3>1. FirstPage = b0 * Ppb + (FirstPage % Ppb) /\ b0 \in Nat /\ FirstPage % Ppb = 0
      BY <1>1, ImagePlace, Division DEF FirstOfBlock
    <3> DEFINE z == b0 * Ppb
    <3>2. z \in Nat
      BY <1>1, <3>1
    <3> HIDE DEF b0
    <3> QED  BY <1>1, <3>1, <3>2
  <2> HIDE DEF b0, B
  <2>2. c \div Ppb >= b0
    BY <2>1, AboveBlock
  <2>3. (B * Ppb) \div Ppb = B
    BY <1>2, NextPage
  <2>4. B >= b0
    BY <2>2 DEF B
  <2>5. B * Ppb >= b0 * Ppb
    BY <1>2, <2>1, <2>3, <2>4, AboveBlock
  <2> QED  BY <2>1, <2>5
<1> HIDE DEF y, d
<1>4. ASSUME NEW n \in T PROVE n \in Nat /\ n \div Ppb = B
  <2>1. n \in Nat /\ n >= B * Ppb /\ n < (B + 1) * Ppb
    <3>1. (B + 1) * Ppb = y + Ppb
      BY <1>1, <1>2 DEF y
    <3>2. n \in Nat /\ n >= y /\ n < y + Ppb
      BY <1>1, <1>2
    <3> QED  BY <3>1, <3>2 DEF y
  <2> HIDE DEF B
  <2>2. n \div Ppb >= B /\ n \div Ppb < B + 1 /\ n \div Ppb \in Nat
    BY <1>2, <2>1, AboveBlock, PageAtBlock
  <2> QED  BY <1>2, <2>1, <2>2
<1>5. T \in SUBSET S
  <2>1. ASSUME NEW n \in T PROVE ~BadIn(f, n \div Ppb) /\ n \in FirstPage .. c - 1
    <3>1. c > y
      BY <1>2, <2>1
    <3>2. d # 0
      BY <1>2, <3>1
    <3>3. ~BadIn(f, B)
      BY <3>2 DEF FirstOfBlock, d
    <3>4. n \in FirstPage .. c - 1
      BY <1>1, <1>2, <1>3, <2>1
    <3> QED  BY <1>4, <2>1, <3>3, <3>4
  <2> QED  BY <2>1 DEF Held
<1>6. Cardinality(T) = d
  <2>1. Cardinality(T) = IF y > c - 1 THEN 0 ELSE (c - 1) - y + 1
    BY <1>2, FS_Interval
  <2> QED  BY <1>2, <2>1
<1>7. IsFiniteSet(S) /\ Cardinality(S) = d - SplCount
  <2>1. IsFiniteSet(S)
    <3>1. IsFiniteSet(FirstPage .. c - 1)
      BY <1>1, FS_Interval
    <3> QED  BY <1>1, <3>1, FS_Subset
  <2> QED  BY <2>1 DEF Stores, d
<1>8. Cardinality(T) <= Cardinality(S) /\ (Cardinality(S) = Cardinality(T) => S = T)
  BY <1>5, <1>7, FS_Subset
<1>9. SplCount = 0
  <2> HIDE DEF S, T
  <2> QED  BY <1>1, <1>2, <1>6, <1>7, <1>8
<1>10. S = T
  <2> HIDE DEF S, T
  <2> QED  BY <1>2, <1>6, <1>7, <1>8, <1>9
<1>11. ASSUME NEW b \in J.start .. B - 1 PROVE BadIn(f, b)
  <2>1. b \in Nat /\ b < B /\ b >= J.start
    BY <1>1, <1>2
  <2>2. (b * Ppb) \div Ppb = b /\ b * Ppb \in Nat
    BY <1>1, <2>1, NextPage
  <2>3. b * Ppb < y
    BY <1>2, <2>1, <2>2, AboveBlock DEF y
  <2>4. b * Ppb >= FirstPage
    <3>1. FirstPage = J.start * Ppb
      BY <1>1, <1>9 DEF FirstPage
    <3>2. b * Ppb >= J.start * Ppb
      BY <1>1, <2>1, <2>2, AboveBlock
    <3> QED  BY <3>1, <3>2
  <2> DEFINE n == b * Ppb
  <2>5. n \in Nat /\ n < y /\ n >= FirstPage /\ n \div Ppb = b
    BY <2>2, <2>3, <2>4
  <2> HIDE DEF n
  <2>6. n \in FirstPage .. c - 1 /\ n \notin T
    BY <1>1, <1>2, <2>5
  <2> QED  BY <1>10, <2>5, <2>6 DEF Held
<1> QED  BY <1>1, <1>9, <1>11

\* The boot loader's pages.
LEMMA SplSteps ==
  ASSUME TypeInv, ProgramSpl
  PROVE  /\ SameMarks(flash, flash')
         /\ \A q \in Pages : q >= 2 * SplPages => flash'[q] = flash[q]
         /\ (hit' \cap {"spl"} = {} /\ writable) =>
              \A k \in 0 .. SplPages - 1 :
                 /\ 2 * k \in Pages /\ 2 * k + 1 \in Pages
                 /\ flash'[2 * k] = Over(flash[2 * k], Page(p.image[k + 1], SplData, FALSE))
                 /\ flash'[2 * k + 1] = Over(flash[2 * k + 1], Page(p.image[k + 1], SplCode, FALSE))
<1>1. PICK failed \in SUBSET (0 .. SplPages - 1) :
         /\ hit' = IF failed = {} THEN hit ELSE hit \cup {"spl"}
         /\ flash' = IF ~writable THEN flash ELSE
             [q \in Pages |->
                LET k == q \div 2 IN
                IF q >= 2 * SplPages THEN flash[q]
                ELSE IF q % 2 = 0
                THEN Over(flash[q], IF k \in failed THEN Old
                                    ELSE Page(p.image[k + 1], SplData, FALSE))
                ELSE IF k \in failed THEN flash[q]
                     ELSE Over(flash[q], Page(p.image[k + 1], SplCode, FALSE))]
  BY DEF ProgramSpl
<1>2. \A k \in 0 .. SplPages - 1 : p.image[k + 1] \in Data
  BY LoaderWhole DEF ProgramSpl
<1>3. SplPages \in Nat \ {0} /\ flash \in [Pages -> PageValues] /\ 2 * SplPages <= NBlocks * Ppb
  BY DriverAssumptions DEF TypeInv
<1>4. ASSUME NEW q \in Pages
      PROVE  flash'[q].bad = flash[q].bad /\ (q >= 2 * SplPages => flash'[q] = flash[q])
  <2>1. q \in Nat
    BY OwnPages
  <2>2. CASE ~writable \/ q >= 2 * SplPages
    BY <1>1, <2>2
  <2>3. CASE writable /\ ~(q >= 2 * SplPages)
    <3>1. q \div 2 \in 0 .. SplPages - 1
      BY <1>3, <2>1, <2>3
    <3>2. /\ Page(p.image[q \div 2 + 1], SplData, FALSE) \in PageValues
          /\ Page(p.image[q \div 2 + 1], SplCode, FALSE) \in PageValues
          /\ Old \in PageValues /\ flash[q] \in PageValues
      BY <1>2, <1>3, <3>1, PageTypes
    <3>3. /\ ~Page(p.image[q \div 2 + 1], SplData, FALSE).bad
          /\ ~Page(p.image[q \div 2 + 1], SplCode, FALSE).bad /\ ~Old.bad
      BY DEF Page, Old
    <3>4. /\ Over(flash[q], Page(p.image[q \div 2 + 1], SplData, FALSE)).bad = flash[q].bad
          /\ Over(flash[q], Page(p.image[q \div 2 + 1], SplCode, FALSE)).bad = flash[q].bad
          /\ Over(flash[q], Old).bad = flash[q].bad
      BY <3>2, <3>3, OverBad
    <3> QED  BY <1>1, <2>3, <3>4
  <2> QED  BY <2>2, <2>3
<1>5. ASSUME hit' \cap {"spl"} = {}, writable, NEW k \in 0 .. SplPages - 1
      PROVE  /\ 2 * k \in Pages /\ 2 * k + 1 \in Pages
             /\ flash'[2 * k] = Over(flash[2 * k], Page(p.image[k + 1], SplData, FALSE))
             /\ flash'[2 * k + 1] = Over(flash[2 * k + 1], Page(p.image[k + 1], SplCode, FALSE))
  <2>1. failed = {}
    BY <1>1, <1>5
  <2>2. /\ 2 * k \in Nat /\ 2 * k + 1 \in Nat /\ 2 * k < 2 * SplPages /\ 2 * k + 1 < 2 * SplPages
        /\ (2 * k) \div 2 = k /\ (2 * k + 1) \div 2 = k /\ (2 * k) % 2 = 0 /\ (2 * k + 1) % 2 = 1
    BY <1>3
  <2>3. 2 * k \in Pages /\ 2 * k + 1 \in Pages
    <3> DEFINE size == NBlocks * Ppb
    <3>1. size \in Nat /\ 2 * SplPages <= size
      BY <1>3, FlashAssumptions
    <3> HIDE DEF size
    <3>2. 2 * k < size /\ 2 * k + 1 < size
      BY <1>3, <2>2, <3>1
    <3> QED  BY <2>2, <3>2, PageOfChip DEF size
  <2>4. ~(2 * k >= 2 * SplPages) /\ ~(2 * k + 1 >= 2 * SplPages)
    BY <1>3, <2>2
  <2>5. flash' = [q \in Pages |->
                IF q >= 2 * SplPages THEN flash[q]
                ELSE IF q % 2 = 0
                THEN Over(flash[q], Page(p.image[q \div 2 + 1], SplData, FALSE))
                ELSE Over(flash[q], Page(p.image[q \div 2 + 1], SplCode, FALSE))]
    BY <1>1, <1>5, <2>1
  <2>6. flash'[2 * k] = Over(flash[2 * k], Page(p.image[k + 1], SplData, FALSE))
    BY <2>2, <2>3, <2>4, <2>5
  <2>7. flash'[2 * k + 1] = Over(flash[2 * k + 1], Page(p.image[k + 1], SplCode, FALSE))
    <3> DEFINE q == 2 * k + 1
    <3>1. q \in Pages /\ ~(q >= 2 * SplPages) /\ q \div 2 = k /\ ~(q % 2 = 0)
      BY <2>2, <2>3, <2>4
    <3> HIDE DEF q
    <3>2. flash'[q] = Over(flash[q], Page(p.image[k + 1], SplCode, FALSE))
      BY <2>5, <3>1
    <3> QED  BY <3>2 DEF q
  <2> QED  BY <2>3, <2>6, <2>7
<1> QED  BY <1>4, <1>5 DEF SameMarks

\* Nothing that a repairable session may not have met.
Orderly ==
  /\ board.layout /\ MarksMeanBad /\ StaysWritable /\ Repairable
  /\ hit \cap {"later", "spl"} = {}

\* The erase after a page failure did not come round to the start of the image.
RoundOnce == p.spage # J.start * Ppb => e.blk <= J.start + NBlocks

\* The boot loader is still to be written.
Before == SplStart /\ p.cur = 0

\* While nand_program works, and while it erases the block that failed; and when it
\* has finished.
ImageParts ==
  /\ op = "program" =>
       /\ writable /\ p.i <= Len(p.image)
       /\ p.spage # J.start * Ppb => "first" \in hit /\ ~SplStart
       /\ RoundOnce => BlankAbove(flash, p.cur)
       /\ Before => p.i = 0
       /\ ~Before => p.cur >= FirstPage /\ (RoundOnce => Stores(flash, p.cur, p.i))
  /\ op = "clean" =>
       /\ ~SplStart /\ p.spage = J.start * Ppb /\ writable /\ ~board.wp /\ "first" \in hit
       /\ e.force /\ e.blk >= p.cur \div Ppb
       /\ e.blk <= J.start + NBlocks =>
            /\ \A b \in J.start .. (p.cur \div Ppb) - 1 : BadIn(flash, b)
            /\ BlankAbove(flash, (p.cur \div Ppb + 1) * Ppb)
  /\ Stored1 =>
       /\ ret = p.cur /\ p.i = Len(J.image) /\ ~Before
       /\ RoundOnce => Stores(flash, p.cur, p.i)

StoredInv ==
  /\ ErasedInv
  /\ request = "erase" => e.from = J.start
  /\ Orderly => ImageParts

\* The job in work, and what the host erased for it, stay while the driver works.
LEMMA SameJob ==
  ASSUME board' = board, job' = job, erasedTo' = erasedTo
  PROVE  /\ Stores(flash, p.cur, p.i)' <=> Stores(flash', p'.cur, p'.i)
         /\ BlankAbove(flash, p.cur)' <=> BlankAbove(flash', p'.cur)
         /\ BlankAbove(flash, (p.cur \div Ppb + 1) * Ppb)'
              <=> BlankAbove(flash', (p'.cur \div Ppb + 1) * Ppb)
         /\ \A b : BadIn(flash, b)' <=> BadIn(flash', b)
         /\ J' = J /\ (SplStart' <=> SplStart) /\ FirstPage' = FirstPage
<1>1. J' = J /\ (SplStart' <=> SplStart) /\ FirstPage' = FirstPage /\ SplCount' = SplCount
      /\ Top' = Top
  BY DEF J, SplStart, HasSplPages, chip, FirstPage, SplCount, Top
<1>2. ASSUME NEW b PROVE BadIn(flash, b)' <=> BadIn(flash', b)
  BY DEF BadIn, CheckedOffsets, PageK, chip
<1>3. /\ BlankAbove(flash, p.cur)' <=> BlankAbove(flash', p'.cur)
      /\ BlankAbove(flash, (p.cur \div Ppb + 1) * Ppb)'
              <=> BlankAbove(flash', (p'.cur \div Ppb + 1) * Ppb)
  BY <1>1 DEF BlankAbove, BadIn, CheckedOffsets, PageK, chip
<1>4. Held(flash, p.cur)' = Held(flash', p'.cur)
  BY <1>1 DEF Held, BadIn, CheckedOffsets, PageK, chip
<1>5. (InRoom(p.cur))' <=> InRoom(p'.cur)
  BY <1>1 DEF InRoom
<1>6. (LoaderFree(flash))' <=> LoaderFree(flash')
  BY DEF LoaderFree, MarkedIn
<1>7. (LoaderIn(flash))' <=> LoaderIn(flash')
  BY <1>1 DEF LoaderIn
<1>8. (InOrder(flash, Held(flash, p.cur)))' <=> InOrder(flash', Held(flash', p'.cur))
  BY <1>1, <1>4 DEF InOrder, Below
<1>9. Stores(flash, p.cur, p.i)' <=> Stores(flash', p'.cur, p'.i)
  BY <1>1, <1>4, <1>5, <1>6, <1>7, <1>8 DEF Stores
<1> QED  BY <1>1, <1>2, <1>3, <1>9

\* An erase goes on from the job's first block, so long as it is its own.
LEMMA BlankFurther ==
  ASSUME NEW f, NEW c \in Nat, NEW d \in Nat, c <= d, BlankAbove(f, c)
  PROVE  BlankAbove(f, d)
<1>1. \A n \in Nat : d <= n => c <= n
  OBVIOUS
<1> QED  BY <1>1 DEF BlankAbove

\* An image of which nothing is stored yet.
LEMMA NothingStored ==
  ASSUME TypeInv, ~Done, ~SplStart, NEW f, NEW c \in Nat,
         \A n \in FirstPage .. c - 1 : BadIn(f, n \div Ppb)
  PROVE  Stores(f, c, 0)
<1>1. Held(f, c) = {} /\ SplCount = 0
  BY DEF Held, SplCount
<1>2. Cardinality({}) = 0
  BY FS_EmptySet
<1> QED  BY <1>1, <1>2 DEF Stores, InOrder, LoaderIn

\* A turn of nand_program after which the image has come further.
LEMMA StoredTurn ==
  ASSUME TypeInv, ~Done, ImageParts, op = "program", op' = "program",
         board' = board, job' = job, erasedTo' = erasedTo, e' = e, writable' = writable,
         p'.spage = p.spage, p'.image = p.image, hit \subseteq hit',
         p'.i <= Len(p.image), p'.cur \in Nat, p'.cur >= FirstPage,
         RoundOnce => BlankAbove(flash', p'.cur) /\ Stores(flash', p'.cur, p'.i)
  PROVE  ImageParts'
<1>1. /\ Stores(flash, p.cur, p.i)' <=> Stores(flash', p'.cur, p'.i)
      /\ BlankAbove(flash, p.cur)' <=> BlankAbove(flash', p'.cur)
      /\ J' = J /\ (SplStart' <=> SplStart) /\ FirstPage' = FirstPage
  BY SameJob
<1>2. RoundOnce' <=> RoundOnce
  BY <1>1 DEF RoundOnce
<1>3. ~Before'
  <2>1. SplStart => FirstPage = 2 * Ppb /\ Ppb \in Nat \ {0, 1}
    BY ImagePlace
  <2>2. SplStart => p'.cur # 0
    BY <2>1
  <2> QED  BY <1>1, <2>2 DEF Before
<1>4. writable /\ (p.spage # J.start * Ppb => "first" \in hit /\ ~SplStart)
  BY DEF ImageParts
<1>5. ~Stored1'
  BY DEF Stored1, Busy
<1> QED  BY <1>1, <1>2, <1>3, <1>4, <1>5 DEF ImageParts

\* Where nand_program is when it comes to a page of the image.
LEMMA ProgramPlace ==
  ASSUME TypeInv, MarksMeanBad, MarkParts, ImageParts, Programming, ~SplTurn
  PROVE  /\ ~Done /\ p.image = J.image /\ p.option = J.option /\ p.cur \in Nat /\ p.i \in Nat
         /\ p.i < Len(J.image) /\ p.i < Len(p.image) /\ p.cur \div Ppb \in Nat
         /\ ~Before /\ p.cur >= FirstPage /\ writable
         /\ ProgramChecked => ~BadIn(flash, p.cur \div Ppb)
         /\ RoundOnce => Stores(flash, p.cur, p.i) /\ BlankAbove(flash, p.cur)
<1>1. op = "program" /\ request = "program"
  BY DEF Programming, TypeInv, Serving
<1>2. /\ ~Done /\ ProgramsJob /\ p.cur \in Nat /\ p.i \in Nat /\ board \in Boards
      /\ J.image \in Seq(Data)
  BY <1>1, JobParts DEF TypeInv, ProgramType
<1>3. p.image = J.image /\ p.option = J.option /\ p.i < Len(J.image) /\ p.i < Len(p.image)
  BY <1>2 DEF ProgramsJob, Programming
<1>4. ~Before
  BY DEF Before, SplStart, SplTurn
<1>5. p.cur \div Ppb \in Nat
  BY <1>2, PageAtBlock
<1>6. ASSUME ProgramChecked PROVE ~BadIn(flash, p.cur \div Ppb)
  <2>1. CASE FirstOfBlock(p.cur)
    BY <1>2, <1>5, <1>6, <2>1, CheckedByOffset DEF ProgramChecked
  <2>2. CASE ~FirstOfBlock(p.cur)
    <3>1. ~MarkedIn(flash, p.cur \div Ppb)
      BY <1>1, <2>2 DEF MarkParts
    <3> QED  BY <1>2, <1>5, <3>1, BadIsMarked
  <2> QED  BY <2>1, <2>2
<1> QED  BY <1>1, <1>2, <1>3, <1>4, <1>5, <1>6 DEF ImageParts

\* What one page of the image does to the flash.
LEMMA PageGoesIn ==
  ASSUME TypeInv, MarksMeanBad, MarkParts, ImageParts, board.layout,
         ProgramNothing \/ ProgramPage
  PROVE  /\ flash' \in [Pages -> PageValues] /\ SameMarks(flash, flash')
         /\ \A q \in Pages : q # PageAt(p.cur) => flash'[q] = flash[q]
         /\ flash[PageAt(p.cur)] = Blank =>
              /\ flash'[PageAt(p.cur)].data = J.image[p.i + 1]
              /\ \/ flash'[PageAt(p.cur)] = Blank
                 \/ flash'[PageAt(p.cur)].code = PageCode(eccpos', p.per, p.option)
<1>1. Programming /\ ~SplTurn /\ ProgramChecked
  BY DEF ProgramNothing, ProgramPage, WritesPage, ProgramChecked
<1>2. /\ ~Done /\ p.image = J.image /\ p.option = J.option /\ p.cur \in Nat /\ p.i \in Nat
      /\ p.i < Len(J.image) /\ p.i < Len(p.image) /\ writable
  BY <1>1, ProgramPlace
<1>3. p \in ProgramType /\ flash \in [Pages -> PageValues] /\ op = "program" /\ board \in Boards
  BY <1>1 DEF TypeInv, Programming
<1>4. CASE ProgramNothing
  <2>1. flash' = flash /\ p.image[p.i + 1] = Ff
    BY <1>4 DEF ProgramNothing
  <2>2. Blank.data = Ff
    BY DEF Blank, Page
  <2> QED  BY <1>2, <1>3, <2>1, <2>2 DEF SameMarks
<1>5. CASE ProgramPage
  <2> DEFINE new == PageOf(p.image[p.i + 1], eccpos', p.per, p.option)
  <2>1. flash' = Programmed(flash, p.cur, new)
    BY <1>2, <1>5 DEF ProgramPage
  <2>2. eccpos' = EccposAt(p.cur, p.sav) /\ p.sav \in Nat
    BY <1>1, <1>3 DEF ProgramChecked, ProgramType
  <2>3. eccpos' \in Nat /\ eccpos' # 0
    <3>1. EccposAt(p.cur, p.sav) # 0
      BY <1>3, EccposKeepsOff
    <3>2. EccposAt(p.cur, p.sav) \in Nat
      BY <1>2, <2>2, CodeTypes
    <3> QED  BY <2>2, <3>1, <3>2
  <2>4. new \in PageValues /\ ~new.bad
    <3>1. new \in PageValues
      BY <1>1, <1>3, <2>3, PageOfTypes
    <3>2. new.bad = (eccpos' = 0)
      BY PageOfMark
    <3> HIDE DEF new
    <3> QED  BY <2>3, <3>1, <3>2
  <2>5. new.data = J.image[p.i + 1] /\ new.code = PageCode(eccpos', p.per, p.option)
    BY <1>2 DEF PageOf, Page
  <2>6. \A q \in Pages : flash'[q] = IF q = PageAt(p.cur) THEN Over(flash[q], new) ELSE flash[q]
    BY <1>3, <2>1 DEF Programmed
  <2> HIDE DEF new
  <2>7. SameMarks(flash, flash')
    BY <1>2, <1>3, <2>1, <2>4, ProgrammedMarks
  <2>8. flash' \in [Pages -> PageValues]
    BY <1>2, <1>3, <2>1, <2>4, FlashTypes
  <2>9. PageAt(p.cur) \in Pages
    BY <1>2, PageAtBlock DEF PagesOf
  <2>10. Over(Blank, new) = new
    BY DEF Over
  <2> QED  BY <2>5, <2>6, <2>7, <2>8, <2>9, <2>10
<1> QED  BY <1>4, <1>5

\* A bad block is passed over, and a page of the image written or left blank.
LEMMA StoredPages ==
  ASSUME TypeInv, MarksMeanBad, MarkParts, ImageParts, board.layout,
         ProgramSkip \/ ProgramNothing \/ ProgramPage, UNCHANGED <<job, request, erasedTo>>
  PROVE  ImageParts'
<1>1. Programming /\ ~SplTurn
  BY DEF ProgramSkip, ProgramNothing, ProgramPage, WritesPage, ProgramChecked
<1>2. /\ op' = op /\ board' = board /\ e' = e /\ writable' = writable /\ hit' = hit
      /\ job' = job /\ erasedTo' = erasedTo
  BY DEF ProgramSkip, ProgramNothing, ProgramPage
<1>3. /\ ~Done /\ p.image = J.image /\ p.option = J.option /\ p.cur \in Nat /\ p.i \in Nat
      /\ p.i < Len(J.image) /\ p.i < Len(p.image) /\ p.cur \div Ppb \in Nat
      /\ ~Before /\ p.cur >= FirstPage /\ writable
      /\ ProgramChecked => ~BadIn(flash, p.cur \div Ppb)
      /\ RoundOnce => Stores(flash, p.cur, p.i) /\ BlankAbove(flash, p.cur)
  BY <1>1, ProgramPlace
<1>4. /\ Ppb \in Nat \ {0, 1} /\ FirstPage \in Nat /\ p \in ProgramType /\ board \in Boards
      /\ flash \in [Pages -> PageValues] /\ op = "program" /\ J.image \in Seq(Data)
  BY <1>1, <1>3, ImagePlace, JobParts DEF TypeInv, Programming
<1>5. CASE ProgramSkip
  <2>1. /\ flash' = flash /\ p' = [p EXCEPT !.cur = @ + Ppb]
        /\ FirstOfBlock(p.cur) /\ IsBad(p.cur \div Ppb)
    BY <1>5 DEF ProgramSkip
  <2>2. p'.cur = p.cur + Ppb /\ p'.i = p.i /\ p'.spage = p.spage /\ p'.image = p.image
    BY <1>4, <2>1 DEF ProgramType
  <2>3. BadIn(flash, p.cur \div Ppb)
    BY <1>3, <1>4, <2>1, CheckedByOffset
  <2>4. ASSUME RoundOnce PROVE BlankAbove(flash, p.cur + Ppb) /\ Stores(flash, p.cur + Ppb, p.i)
    <3>1. Stores(flash, p.cur + Ppb, p.i)
      BY <1>3, <2>1, <2>3, <2>4, SkippedStores
    <3>2. p.cur + Ppb \in Nat /\ p.cur <= p.cur + Ppb
      BY <1>3, <1>4
    <3> QED  BY <1>3, <2>4, <3>1, <3>2, BlankFurther
  <2>5. p'.cur \in Nat /\ p'.cur >= FirstPage /\ p'.i <= Len(p.image)
    BY <1>3, <1>4, <2>2
  <2> QED  BY <1>2, <1>3, <1>4, <2>1, <2>2, <2>4, <2>5, StoredTurn
<1>6. CASE ProgramNothing \/ ProgramPage
  <2>1. p' = OnePageOn(p) /\ ProgramChecked
    BY <1>6 DEF ProgramNothing, ProgramPage, WritesPage
  <2>2. p'.cur = p.cur + 1 /\ p'.i = p.i + 1 /\ p'.spage = p.spage /\ p'.image = p.image
    BY <1>4, <2>1 DEF ProgramType, OnePageOn
  <2>3. /\ flash' \in [Pages -> PageValues] /\ SameMarks(flash, flash')
        /\ \A q \in Pages : q # PageAt(p.cur) => flash'[q] = flash[q]
        /\ flash[PageAt(p.cur)] = Blank => flash'[PageAt(p.cur)].data = J.image[p.i + 1]
    BY <1>6, PageGoesIn
  <2>4. ASSUME RoundOnce
        PROVE  BlankAbove(flash', p.cur + 1) /\ Stores(flash', p.cur + 1, p.i + 1)
    <3>1. ~BadIn(flash, p.cur \div Ppb) /\ Stores(flash, p.cur, p.i) /\ BlankAbove(flash, p.cur)
      BY <1>3, <2>1, <2>4
    <3> QED  BY <1>3, <1>4, <2>3, <3>1, WrittenStores
  <2>5. p'.cur \in Nat /\ p'.cur >= FirstPage /\ p'.i <= Len(p.image)
    <3>1. Len(p.image) \in Nat
      BY <1>3, <1>4
    <3> QED  BY <1>3, <1>4, <2>2, <3>1
  <2> QED  BY <1>2, <1>3, <1>4, <2>2, <2>4, <2>5, StoredTurn
<1> QED  BY <1>5, <1>6

\* The boot loader is written, as one.
LEMMA StoredLoader ==
  ASSUME TypeInv, MarksMeanBad, ImageParts, ProgramSpl, hit' \cap {"spl"} = {},
         UNCHANGED <<job, request, erasedTo>>
  PROVE  ImageParts'
<1>1. /\ Programming /\ SplTurn /\ op' = op /\ board' = board /\ e' = e /\ writable' = writable
      /\ job' = job /\ erasedTo' = erasedTo /\ op = "program"
      /\ p' = [p EXCEPT !.cur = 2 * Ppb, !.i = @ + SplPages]
  BY DEF ProgramSpl, Programming
<1>2. /\ request = "program" /\ ~Done /\ ProgramsJob /\ p \in ProgramType /\ board \in Boards
      /\ flash \in [Pages -> PageValues] /\ erasedTo \in Nat
  BY <1>1 DEF TypeInv, Serving
<1>3. p.image = J.image /\ J.start = 0 /\ p.cur = 0 /\ SplStart
  BY <1>1, LoaderWhole DEF SplTurn, SplStart
<1>4. /\ FirstPage = 2 * Ppb /\ Top = NBlocks * Ppb /\ SplCount = SplPages
      /\ SplPages \in Nat \ {0} /\ 2 * SplPages <= 2 * Ppb /\ Ppb \in Nat \ {0, 1}
      /\ NBlocks \in Nat \ {0}
  BY <1>2, <1>3, ImagePlace, DriverAssumptions, FlashAssumptions DEF SplCount
<1>5. Before /\ writable /\ p.i = 0 /\ (RoundOnce => BlankAbove(flash, 0))
  BY <1>1, <1>3 DEF Before, ImageParts
<1>6. /\ p'.cur = 2 * Ppb /\ p'.i = SplPages /\ p'.spage = p.spage /\ p'.image = p.image
  <2>1. 0 + SplPages = SplPages
    BY <1>4
  <2> QED  BY <1>1, <1>2, <1>5, <2>1 DEF ProgramType
<1>7. Len(p.image) >= SplPages /\ Len(p.image) \in Nat
  <2>1. Len(J.image) >= SplPages
    BY <1>1, LoaderWhole
  <2>2. Len(J.image) \in Nat
    BY <1>2, JobParts
  <2> QED  BY <1>3, <2>1, <2>2
<1>8. /\ SameMarks(flash, flash')
      /\ \A q \in Pages : q >= 2 * SplPages => flash'[q] = flash[q]
      /\ \A k \in 0 .. SplPages - 1 :
           /\ 2 * k \in Pages /\ 2 * k + 1 \in Pages
           /\ flash'[2 * k] = Over(flash[2 * k], Page(p.image[k + 1], SplData, FALSE))
           /\ flash'[2 * k + 1] = Over(flash[2 * k + 1], Page(p.image[k + 1], SplCode, FALSE))
  BY <1>5, SplSteps
<1>9. \A b \in Nat : (MarkedIn(flash', b) <=> MarkedIn(flash, b))
                     /\ (BadIn(flash', b) <=> BadIn(flash, b))
  BY <1>2, <1>8, SameMarksSame
<1> DEFINE size == NBlocks * Ppb
           far == erasedTo * Ppb
<1>10. size \in Nat /\ far \in Nat
  BY <1>2, <1>4
<1>11. ASSUME RoundOnce PROVE BlankAbove(flash', 2 * Ppb)
  <2>1. SUFFICES ASSUME NEW n \in Nat, 2 * Ppb <= n, n < far, n < size,
                        ~BadIn(flash', n \div Ppb)
                 PROVE  flash'[PageAt(n)] = Blank
    BY <1>4 DEF BlankAbove
  <2>2. PageAt(n) = n /\ n \in Pages
    BY <2>1, PageOfChip
  <2>3. n \div Ppb \in Nat
    BY PageAtBlock
  <2>4. flash[n] = Blank
    BY <1>4, <1>5, <1>9, <1>11, <2>1, <2>2, <2>3 DEF BlankAbove
  <2>5. n >= 2 * SplPages
    BY <1>4, <2>1
  <2> QED  BY <1>8, <2>2, <2>4, <2>5
<1>12. ASSUME RoundOnce, InRoom(2 * Ppb), LoaderFree(flash') PROVE LoaderIn(flash')
  <2>1. 2 * Ppb <= far /\ 2 * Ppb <= size
    BY <1>4, <1>12 DEF InRoom
  <2>2. ASSUME NEW q \in Pages, q < 2 * SplPages PROVE flash[q] = Blank
    <3>1. /\ q \in Nat /\ q \div Ppb \in Blocks /\ q \div Ppb \in Nat
      BY OwnPages, PageAtBlock
    <3>2. (q \div Ppb) * Ppb < 2 * SplPages
      <4> DEFINE b == q \div Ppb
                 y == b * Ppb
      <4>1. q = y + (q % Ppb) /\ q % Ppb \in 0 .. Ppb - 1
        BY <1>4, <3>1, Division
      <4>2. y \in Nat
        <5> HIDE DEF b
        <5> QED  BY <1>4, <3>1 DEF b
      <4> HIDE DEF y
      <4>3. y < 2 * SplPages
        BY <1>4, <2>2, <3>1, <4>1, <4>2
      <4> QED  BY <4>3 DEF y
    <3>3. ~MarkedIn(flash, q \div Ppb)
      BY <1>9, <1>12, <3>1, <3>2 DEF LoaderFree
    <3>4. ~BadIn(flash, q \div Ppb)
      BY <1>2, <3>1, <3>3, BadIsMarked
    <3>5. q < far /\ q < size /\ 0 <= q
      <4> HIDE DEF far, size
      <4> QED  BY <1>4, <1>10, <2>1, <2>2, <3>1
    <3>6. PageAt(q) = q
      BY <3>1, <3>5, PageOfChip
    <3> QED  BY <1>4, <1>5, <1>12, <3>1, <3>4, <3>5, <3>6 DEF BlankAbove
  <2>3. ASSUME NEW k \in 0 .. SplPages - 1
        PROVE  /\ flash'[2 * k] = Page(J.image[k + 1], SplData, FALSE)
               /\ flash'[2 * k + 1] = Page(J.image[k + 1], SplCode, FALSE)
    <3>1. 2 * k \in Pages /\ 2 * k + 1 \in Pages
      BY <1>8
    <3>2. 2 * k < 2 * SplPages /\ 2 * k + 1 < 2 * SplPages
      BY <1>4
    <3>3. flash[2 * k] = Blank /\ flash[2 * k + 1] = Blank
      BY <2>2, <3>1, <3>2
    <3>4. \A new : Over(Blank, new) = new
      BY DEF Over
    <3> QED  BY <1>3, <1>8, <3>3, <3>4
  <2> QED  BY <1>4, <2>3 DEF LoaderIn
<1>13. ASSUME RoundOnce PROVE Stores(flash', 2 * Ppb, SplPages)
  <2>1. Held(flash', 2 * Ppb) = {}
    <3>1. FirstPage .. 2 * Ppb - 1 = {}
      BY <1>4
    <3> QED  BY <3>1 DEF Held
  <2>2. Cardinality({}) = 0 /\ SplPages - SplPages = 0
    BY <1>4, FS_EmptySet
  <2> QED  BY <1>4, <1>12, <1>13, <2>1, <2>2 DEF Stores, InOrder
<1>14. hit \subseteq hit'
  BY DEF ProgramSpl
<1>15. p'.cur \in Nat /\ p'.cur >= FirstPage /\ p'.i <= Len(p.image)
  BY <1>4, <1>6, <1>7
<1> QED  BY <1>1, <1>2, <1>6, <1>11, <1>13, <1>14, <1>15, StoredTurn

\* A page fails: only in the block in which the image begins can that be repaired.
LEMMA StoredFails ==
  ASSUME TypeInv, MarksMeanBad, MarkParts, ImageParts, ProgramFails, Repairable',
         hit' \cap {"later"} = {}, UNCHANGED <<job, request, erasedTo>>
  PROVE  ImageParts'
<1>1. /\ Programming /\ ~SplTurn /\ ProgramChecked /\ op' = "clean" /\ board' = board /\ p' = p
      /\ job' = job /\ erasedTo' = erasedTo /\ op = "program" /\ writable' = PinHigh
      /\ e' = EraseOf(1, p.cur \div Ppb, TRUE) /\ flash' = Programmed(flash, p.cur, Old)
  BY DEF ProgramFails, WritesPage, ProgramChecked, Programming
<1>2. /\ ~Done /\ p.cur \in Nat /\ p.cur \div Ppb \in Nat /\ p.cur >= FirstPage
      /\ ~BadIn(flash, p.cur \div Ppb)
      /\ RoundOnce => Stores(flash, p.cur, p.i) /\ BlankAbove(flash, p.cur)
  BY <1>1, ProgramPlace
<1>3. InFirstBlock /\ "first" \notin hit /\ hit' = hit \cup {"first"}
  <2>1. ~InFirstBlock => hit' = hit \cup {"later"}
    BY DEF ProgramFails
  <2>2. InFirstBlock
    BY <2>1
  <2> QED  BY <2>2 DEF ProgramFails, MayFail
<1>4. p.spage = J.start * Ppb /\ RoundOnce
  BY <1>1, <1>3 DEF ImageParts, RoundOnce
<1>5. p.i = p.cur % Ppb
  BY <1>3 DEF InFirstBlock
<1>6. ~SplStart /\ \A b \in J.start .. (p.cur \div Ppb) - 1 : BadIn(flash, b)
  BY <1>2, <1>4, <1>5, FirstBlockOnly
<1>7. ~board.wp
  BY <1>1, <1>3 DEF Repairable
<1>8. e'.force /\ e'.blk = p.cur \div Ppb
  BY <1>1 DEF EraseOf, NoErase
<1>9. /\ flash \in [Pages -> PageValues] /\ board \in Boards /\ J.start \in Nat
      /\ Ppb \in Nat \ {0, 1} /\ J.start * Ppb \in Nat /\ FirstPage \in Nat
      /\ FirstPage >= J.start * Ppb /\ Top \in Nat /\ erasedTo \in Nat
  BY <1>2, ImagePlace DEF TypeInv
<1>10. Old \in PageValues /\ ~Old.bad
  BY PageTypes DEF Old, Page
<1>11. SameMarks(flash, flash')
  BY <1>1, <1>2, <1>9, <1>10, ProgrammedMarks
<1>12. \A b \in Nat : BadIn(flash', b) <=> BadIn(flash, b)
  BY <1>9, <1>11, SameMarksSame
<1> DEFINE B == p.cur \div Ppb
<1>13. BlankAbove(flash', (B + 1) * Ppb)
  <2>1. SUFFICES ASSUME NEW n \in Nat, (B + 1) * Ppb <= n, n < erasedTo * Ppb, n < Top,
                        ~BadIn(flash', n \div Ppb)
                 PROVE  flash'[PageAt(n)] = Blank
    BY DEF BlankAbove
  <2>2. p.cur < (B + 1) * Ppb
    <3>1. B + 1 \in Nat /\ p.cur \div Ppb < B + 1
      BY <1>2
    <3> HIDE DEF B
    <3> QED  BY <1>2, <3>1, AboveBlock
  <2>3. p.cur < n /\ p.cur < Top
    <3> DEFINE y == (B + 1) * Ppb
    <3>1. y \in Nat
      BY <1>2, <1>9
    <3> HIDE DEF y
    <3>2. p.cur < n
      BY <1>2, <2>1, <2>2, <3>1 DEF y
    <3>3. p.cur \in Nat /\ Top \in Nat /\ n < Top
      BY <1>2, <1>9, <2>1
    <3> QED  BY <3>2, <3>3
  <2>4. J.start * Ppb <= p.cur /\ J.start * Ppb <= n /\ n # p.cur
    <3> DEFINE y == J.start * Ppb
    <3>1. y \in Nat /\ FirstPage >= y
      BY <1>9
    <3> HIDE DEF y
    <3>2. y <= p.cur /\ y <= n /\ n # p.cur
      BY <1>2, <1>9, <2>3, <3>1
    <3> QED  BY <3>2 DEF y
  <2>5. PageAt(n) # PageAt(p.cur)
    BY <1>2, <1>9, <2>1, <2>3, <2>4, ApartPages DEF Top
  <2>6. PageAt(n) \in Pages /\ n \div Ppb \in Nat
    BY PageAtBlock DEF PagesOf
  <2>7. flash'[PageAt(n)] = flash[PageAt(n)]
    BY <1>1, <1>9, <2>5, <2>6 DEF Programmed
  <2>8. flash[PageAt(n)] = Blank
    <3>1. p.cur <= n
      BY <1>2, <2>3
    <3> QED  BY <1>2, <1>4, <1>12, <2>1, <2>6, <3>1 DEF BlankAbove
  <2> QED  BY <2>7, <2>8
<1>14. \A b \in J.start .. B - 1 : BadIn(flash', b)
  <2>1. \A b \in J.start .. B - 1 : b \in Nat
    BY <1>9
  <2> QED  BY <1>6, <1>12, <2>1
<1>15. /\ BlankAbove(flash, (p.cur \div Ppb + 1) * Ppb)'
            <=> BlankAbove(flash', (p'.cur \div Ppb + 1) * Ppb)
       /\ \A b : BadIn(flash, b)' <=> BadIn(flash', b)
       /\ J' = J /\ (SplStart' <=> SplStart)
  BY <1>1, SameJob
<1>16. BlankAbove(flash, (p.cur \div Ppb + 1) * Ppb)'
  BY <1>1, <1>13, <1>15
<1>17. (\A b \in J.start .. (p.cur \div Ppb) - 1 : BadIn(flash, b))'
  BY <1>1, <1>14, <1>15
<1>18. e'.blk >= B
  BY <1>2, <1>8
<1>19. ~Stored1'
  BY <1>1 DEF Stored1, Busy
<1> QED  BY <1>1, <1>3, <1>4, <1>6, <1>7, <1>8, <1>15, <1>16, <1>17, <1>18, <1>19
         DEF ImageParts, PinHigh

\* A block less than the chip further on is another block.
LEMMA OtherBlock ==
  ASSUME NEW b \in Nat, NEW c \in Nat, NEW s \in Nat, s <= b, b < c, c < s + NBlocks
  PROVE  \A q \in PagesOf(b) : q \in Pages /\ q \notin PagesOf(c)
<1>1. NBlocks \in Nat
  BY FlashAssumptions
<1>2. c < b + NBlocks
  BY <1>1
<1>3. BlockAt(b) # BlockAt(c)
  BY <1>2, ApartBlocks
<1> QED  BY <1>3, SameBlock, OwnPages

\* What an erase or a mark of whole blocks leaves blank.
LEMMA BlankStays ==
  ASSUME NEW f, NEW g, NEW c \in Nat, BlankAbove(f, c), board \in Boards, MarksMeanBad,
         \A b \in Nat : \/ BadIn(g, b) \/ BlankIn(g, b)
                        \/ \A q \in PagesOf(b) : g[q] = f[q]
  PROVE  BlankAbove(g, c)
<1> SUFFICES ASSUME NEW n \in Nat, c <= n, n < erasedTo * Ppb, n < Top, ~BadIn(g, n \div Ppb)
             PROVE  g[PageAt(n)] = Blank
  BY DEF BlankAbove
<1>1. PageAt(n) \in PagesOf(n \div Ppb) /\ n \div Ppb \in Nat
  BY PageAtBlock
<1>2. CASE BlankIn(g, n \div Ppb)
  BY <1>1, <1>2 DEF BlankIn
<1>3. CASE \A q \in PagesOf(n \div Ppb) : g[q] = f[q]
  <2>1. ~BadIn(f, n \div Ppb)
    <3>1. ASSUME NEW k \in CheckedOffsets PROVE PageK(n \div Ppb, k) \in PagesOf(n \div Ppb)
      BY <1>1, OffsetsMeet, PageKAt
    <3> QED  BY <1>3, <3>1 DEF BadIn
  <2> QED  BY <1>1, <1>3, <2>1 DEF BlankAbove
<1> QED  BY <1>1, <1>2, <1>3

\* The blocks that an erase does not come to stay bad.
LEMMA BadStays ==
  ASSUME NEW f, NEW g, NEW b \in Nat, BadIn(f, b), board \in Boards, MarksMeanBad,
         \A q \in PagesOf(b) : q \in Pages /\ f[q].bad => g[q].bad
  PROVE  BadIn(g, b)
<1>1. PICK k \in CheckedOffsets : f[PageK(b, k)].bad
  BY DEF BadIn
<1>2. PageK(b, k) \in PagesOf(b) /\ PageK(b, k) \in Pages
  BY OffsetsMeet, PageKAt
<1> QED  BY <1>1, <1>2 DEF BadIn

\* The block of the page that failed is erased, and the next ones as long as that fails.
LEMMA StoredErase ==
  ASSUME TypeInv, MarksMeanBad, MarkParts, ImageParts, op = "clean",
         EraseSkip \/ EraseBlock \/ EraseFails, UNCHANGED <<job, request, erasedTo>>
  PROVE  ImageParts'
<1>1. /\ request = "program" /\ ~Done /\ ProgramsJob /\ board \in Boards /\ e \in EraseType
      /\ p \in ProgramType /\ flash \in [Pages -> PageValues] /\ board.plane \in Nat
  BY BoardParts DEF TypeInv, Serving
<1>2. /\ J.start \in Nat /\ J.start * Ppb \in Nat /\ Ppb \in Nat \ {0, 1}
      /\ NBlocks \in Nat \ {0} /\ p.cur \in Nat /\ e.blk \in Nat /\ p.cur \div Ppb \in Nat
  BY <1>1, ImagePlace, FlashAssumptions, PageAtBlock DEF ProgramType, EraseType
<1>3. /\ ~SplStart /\ p.spage = J.start * Ppb /\ writable /\ ~board.wp /\ "first" \in hit
      /\ e.force /\ e.blk >= p.cur \div Ppb
      /\ e.blk <= J.start + NBlocks =>
           /\ \A b \in J.start .. (p.cur \div Ppb) - 1 : BadIn(flash, b)
           /\ BlankAbove(flash, (p.cur \div Ppb + 1) * Ppb)
  BY DEF ImageParts
<1>4. ~EraseSkip
  BY <1>3 DEF EraseSkip
<1>5. /\ op' = op /\ board' = board /\ p' = p /\ job' = job /\ erasedTo' = erasedTo
      /\ hit \subseteq hit'
  BY <1>4 DEF EraseBlock, EraseFails
<1>6. e'.blk = e.blk + 1 /\ e'.force = e.force
  <2>1. PassedOver(e).blk = e.blk + 1 /\ PassedOver(e).force = e.force
    BY <1>1 DEF PassedOver, EraseType
  <2>2. DOMAIN PassedOver(e) = DOMAIN e
    BY <1>1 DEF PassedOver, EraseType
  <2>3. "blk" \in DOMAIN e /\ "force" \in DOMAIN e
    BY <1>1 DEF EraseType
  <2>4. CASE EraseBlock
    BY <1>1, <2>3, <2>4 DEF EraseBlock, EraseType
  <2>5. CASE EraseFails
    <3>1. e' = PassedOver(e) \/ e' = [PassedOver(e) EXCEPT !.failed = @ \cup {e.blk}]
      <4>1. CASE chip = 4770
        BY <2>5, <4>1 DEF EraseFails
      <4>2. CASE chip # 4770
        BY <2>5, <4>2 DEF EraseFails
      <4> QED  BY <4>1, <4>2
    <3> QED  BY <2>1, <2>2, <2>3, <3>1
  <2> QED  BY <1>4, <2>4, <2>5
<1>7. writable'
  <2>1. EraseFails => writable' = writable \/ writable' = PinLow
    <3>1. CASE chip = 4770
      BY <3>1 DEF EraseFails
    <3>2. CASE chip # 4770
      BY <3>2 DEF EraseFails
    <3> QED  BY <3>1, <3>2
  <2>2. EraseBlock => writable' = writable
    BY DEF EraseBlock
  <2> QED  BY <1>3, <1>4, <2>1, <2>2 DEF PinLow
<1>8. /\ flash' = flash \/ flash' = Erased(flash, e.blk) \/ flash' = MarkedBad(flash, {e.blk})
  BY <1>4 DEF EraseBlock, EraseFails
<1>9. {e.blk} \in SUBSET Nat
  BY <1>2
<1> DEFINE Same(b) == \A q \in PagesOf(b) : flash'[q] = flash[q]
<1>10. \A q \in Pages : q \notin PagesOf(e.blk) => flash'[q] = flash[q]
  <2>1. \A q \in Pages : q \notin PagesOf(e.blk) => Erased(flash, e.blk)[q] = flash[q]
    BY DEF Erased
  <2>2. \A q \in Pages : q \notin PagesOf(e.blk) => MarkedBad(flash, {e.blk})[q] = flash[q]
    BY <1>1, <1>9, MarkedMarks
  <2> QED  BY <1>8, <2>1, <2>2
<1>11. ASSUME NEW b \in Nat PROVE BadIn(flash', b) \/ BlankIn(flash', b) \/ Same(b)
  <2>1. CASE BlockAt(b) # BlockAt(e.blk)
    BY <1>2, <1>10, <2>1, SameBlock, OwnPages
  <2>2. CASE BlockAt(b) = BlockAt(e.blk)
    <3>1. CASE flash' = flash
      BY <3>1
    <3>2. CASE flash' = Erased(flash, e.blk)
      <4>1. PagesOf(b) = PagesOf(e.blk) /\ PagesOf(b) \subseteq Pages
        BY <1>2, <2>2, SameBlock, OwnPages
      <4> QED  BY <3>2, <4>1 DEF BlankIn, Erased
    <3>3. CASE flash' = MarkedBad(flash, {e.blk})
      <4>1. BadIn(MarkedBad(flash, {e.blk}), b)
        BY <1>1, <1>9, <2>2, MarkedMarks
      <4> QED  BY <3>3, <4>1
    <3> QED  BY <1>8, <3>1, <3>2, <3>3
  <2> QED  BY <2>1, <2>2
<1> HIDE DEF Same
<1> DEFINE B == p.cur \div Ppb
<1>12. ASSUME e'.blk <= J.start + NBlocks
       PROVE  /\ \A b \in J.start .. B - 1 : BadIn(flash', b)
              /\ BlankAbove(flash', (B + 1) * Ppb)
  <2>1. e.blk <= J.start + NBlocks /\ e.blk < J.start + NBlocks
    BY <1>2, <1>6, <1>12
  <2>2. ASSUME NEW b \in J.start .. B - 1 PROVE BadIn(flash', b)
    <3>1. b \in Nat /\ J.start <= b /\ b < e.blk
      BY <1>2, <1>3
    <3>2. \A q \in PagesOf(b) : q \in Pages /\ q \notin PagesOf(e.blk)
      BY <1>2, <2>1, <3>1, OtherBlock
    <3>3. BadIn(flash, b)
      BY <1>3, <2>1
    <3>4. \A q \in PagesOf(b) : q \in Pages /\ flash[q].bad => flash'[q].bad
      BY <1>10, <3>2
    <3> QED  BY <1>1, <3>1, <3>3, <3>4, BadStays
  <2>3. BlankAbove(flash', (B + 1) * Ppb)
    <3>1. (B + 1) * Ppb \in Nat
      BY <1>2
    <3>2. BlankAbove(flash, (B + 1) * Ppb)
      BY <1>3, <2>1
    <3> DEFINE c == (B + 1) * Ppb
    <3> HIDE DEF c
    <3>3. c \in Nat /\ BlankAbove(flash, c)
      BY <3>1, <3>2 DEF c
    <3>4. BlankAbove(flash', c)
      BY <1>1, <1>11, <3>3, BlankStays DEF Same
    <3> QED  BY <3>4 DEF c
  <2> QED  BY <2>2, <2>3
<1>13. /\ BlankAbove(flash, (p.cur \div Ppb + 1) * Ppb)'
            <=> BlankAbove(flash', (p'.cur \div Ppb + 1) * Ppb)
       /\ \A b : BadIn(flash, b)' <=> BadIn(flash', b)
       /\ J' = J /\ (SplStart' <=> SplStart)
  BY <1>5, SameJob
<1>14. (e.blk <= J.start + NBlocks =>
            /\ \A b \in J.start .. (p.cur \div Ppb) - 1 : BadIn(flash, b)
            /\ BlankAbove(flash, (p.cur \div Ppb + 1) * Ppb))'
  BY <1>5, <1>12, <1>13
<1>15. e'.blk >= B
  <2> HIDE DEF B
  <2>1. B \in Nat /\ e.blk >= B
    BY <1>2, <1>3 DEF B
  <2> QED  BY <1>2, <1>6, <2>1
<1>16. ~Stored1'
  BY <1>5 DEF Stored1, Busy
<1> QED  BY <1>3, <1>5, <1>6, <1>7, <1>13, <1>14, <1>15, <1>16 DEF ImageParts

\* The block is marked bad and the image is started again one block further on.
LEMMA StoredCleanEnd ==
  ASSUME TypeInv, MarksMeanBad, MarkParts, ImageParts, CleanEnd,
         UNCHANGED <<job, request, erasedTo>>
  PROVE  ImageParts'
<1>1. /\ op = "clean" /\ board' = board /\ job' = job /\ erasedTo' = erasedTo /\ hit' = hit
      /\ e' = e /\ writable' = PinLow
      /\ flash' = MarkedBad(flash, e.failed \cup {p.cur \div Ppb})
  BY DEF CleanEnd
<1>2. CASE chip = 4760
  <2>1. op' = "idle" /\ ret' = 0
    BY <1>2 DEF CleanEnd
  <2> QED  BY <2>1 DEF ImageParts, Stored1
<1>3. CASE chip # 4760
  <2>1. op' = "program" /\ p' = RestartAt(p, p.spage + Ppb)
    BY <1>3 DEF CleanEnd
  <2>2. /\ ~Done /\ ProgramsJob /\ board \in Boards /\ e \in EraseType /\ p \in ProgramType
        /\ flash \in [Pages -> PageValues]
    BY <1>1 DEF TypeInv, Serving
  <2>3. /\ J.start \in Nat /\ J.start * Ppb \in Nat /\ Ppb \in Nat \ {0, 1} /\ p.cur \in Nat
        /\ e.blk \in Nat /\ e.failed \in SUBSET Nat /\ p.cur \div Ppb \in Nat
        /\ p.image \in Seq(Data) /\ FirstPage = J.start * Ppb
    <3>1. ~SplStart
      BY <1>1 DEF ImageParts
    <3> QED  BY <2>2, <3>1, ImagePlace, PageAtBlock DEF ProgramType, EraseType, FirstPage
  <2>4. /\ ~SplStart /\ p.spage = J.start * Ppb /\ ~board.wp /\ "first" \in hit
        /\ e.blk <= J.start + NBlocks =>
             /\ \A b \in J.start .. (p.cur \div Ppb) - 1 : BadIn(flash, b)
             /\ BlankAbove(flash, (p.cur \div Ppb + 1) * Ppb)
    BY <1>1 DEF ImageParts
  <2> DEFINE B == p.cur \div Ppb
             s == J.start
             first == s * Ppb
             next == (s + 1) * Ppb
  <2>5. next = first + Ppb /\ first \in Nat /\ next \in Nat
    BY <2>3
  <2>6. p'.spage = next /\ p'.cur = next /\ p'.i = 0 /\ p'.image = p.image
    BY <2>1, <2>2, <2>4, <2>5 DEF RestartAt, ProgramType
  <2>7. B >= s
    <3>1. p.cur >= s * Ppb
      <4> HIDE DEF s
      <4> QED  BY <2>2, <2>4 DEF ProgramsJob, s
    <3> QED  BY <2>3, <3>1, AboveBlock
  <2>8. /\ \A q \in Pages : (\A c \in e.failed \cup {B} : q \notin PagesOf(c)) =>
                              flash'[q] = flash[q]
        /\ \A q \in Pages : flash[q].bad => flash'[q].bad
        /\ \A c \in e.failed \cup {B} : \A b \in Nat :
             BlockAt(b) = BlockAt(c) => BadIn(flash', b)
    <3>1. e.failed \cup {B} \in SUBSET Nat
      BY <2>3
    <3> DEFINE blks == e.failed \cup {B}
    <3>2. blks \in SUBSET Nat /\ flash' = MarkedBad(flash, blks)
      BY <1>1, <3>1
    <3> HIDE DEF blks
    <3>3. /\ \A q \in Pages : (\A c \in blks : q \notin PagesOf(c)) => flash'[q] = flash[q]
          /\ \A q \in Pages : flash[q].bad => flash'[q].bad
          /\ \A c \in blks : \A b \in Nat : BlockAt(b) = BlockAt(c) => BadIn(flash', b)
      BY <2>2, <3>2, MarkedMarks
    <3> QED  BY <3>3 DEF blks
  <2>9. \A b \in Nat : BadIn(flash, b) => BadIn(flash', b)
    <3>1. ASSUME NEW b \in Nat, BadIn(flash, b) PROVE BadIn(flash', b)
      <4>1. \A q \in PagesOf(b) : q \in Pages /\ flash[q].bad => flash'[q].bad
        BY <2>8
      <4> QED  BY <2>2, <3>1, <4>1, BadStays
    <3> QED  BY <3>1
  <2>10. BadIn(flash', B)
    BY <2>3, <2>8
  <2>11. ASSUME e.blk <= s + NBlocks PROVE BlankAbove(flash', next)
    <3>1. ASSUME NEW b \in Nat
          PROVE  BadIn(flash', b) \/ BlankIn(flash', b)
                 \/ \A q \in PagesOf(b) : flash'[q] = flash[q]
      <4>1. CASE \E c \in e.failed \cup {B} : BlockAt(b) = BlockAt(c)
        BY <2>8, <4>1
      <4>2. CASE \A c \in e.failed \cup {B} : BlockAt(b) # BlockAt(c)
        <5>1. \A c \in e.failed \cup {B} : c \in Nat
          BY <2>3
        <5>2. \A q \in PagesOf(b) : \A c \in e.failed \cup {B} : q \notin PagesOf(c)
          BY <4>2, <5>1, SameBlock
        <5>3. \A q \in PagesOf(b) : flash'[q] = flash[q]
          BY <2>8, <5>2, OwnPages
        <5> QED  BY <5>3
      <4> QED  BY <4>1, <4>2
    <3>2. BlankAbove(flash', (B + 1) * Ppb)
      <4> DEFINE c == (B + 1) * Ppb
      <4>1. c \in Nat /\ BlankAbove(flash, c)
        BY <2>3, <2>4, <2>11
      <4> HIDE DEF c
      <4>2. BlankAbove(flash', c)
        BY <2>2, <3>1, <4>1, BlankStays
      <4> QED  BY <4>2 DEF c
    <3>3. SUFFICES ASSUME NEW n \in Nat, next <= n, n < erasedTo * Ppb, n < Top,
                          ~BadIn(flash', n \div Ppb)
                   PROVE  flash'[PageAt(n)] = Blank
      BY DEF BlankAbove
    <3> DEFINE b == n \div Ppb
    <3>4. b \in Nat /\ b >= s + 1
      <4>1. s + 1 \in Nat /\ n >= (s + 1) * Ppb
        <5> HIDE DEF next
        <5>1. n >= next
          BY <2>5, <3>3
        <5>2. s \in Nat
          BY <2>3
        <5> HIDE DEF s
        <5> QED  BY <5>1, <5>2 DEF next
      <4> HIDE DEF s
      <4> QED  BY <4>1, AboveBlock, PageAtBlock
    <3> HIDE DEF b
    <3>5. ~(b < B) /\ b # B
      <4>1. b # B
        BY <2>10, <3>3 DEF b
      <4>2. ASSUME b < B PROVE FALSE
        <5>1. b \in J.start .. B - 1
          <6> HIDE DEF B
          <6>1. B \in Nat
            BY <2>3 DEF B
          <6> QED  BY <2>3, <3>4, <4>2, <6>1
        <5>2. BadIn(flash, b)
          BY <2>4, <2>11, <5>1
        <5> QED  BY <2>9, <3>3, <3>4, <5>2 DEF b
      <4> QED  BY <4>1, <4>2
    <3>6. n >= (B + 1) * Ppb
      <4> HIDE DEF B
      <4>1. B + 1 \in Nat /\ b >= B + 1
        <5>1. B \in Nat
          BY <2>3 DEF B
        <5> QED  BY <3>4, <3>5, <5>1
      <4> QED  BY <4>1, AboveBlock DEF b
    <3> QED  BY <3>2, <3>3, <3>6 DEF BlankAbove
  <2>12. ASSUME e.blk <= s + NBlocks PROVE Stores(flash', next, 0)
    <3>1. ASSUME NEW n \in FirstPage .. next - 1 PROVE BadIn(flash', n \div Ppb)
      <4>1. n \in Nat /\ n >= s * Ppb /\ n < (s + 1) * Ppb
        <5> HIDE DEF next, first
        <5>1. n \in Nat /\ n >= first /\ n < next
          BY <2>3, <2>5 DEF first
        <5> QED  BY <5>1 DEF next, first
      <4>2. n \div Ppb = s
        <5>0. s \in Nat
          BY <2>3
        <5> HIDE DEF s
        <5>1. s \in Nat /\ s + 1 \in Nat
          BY <5>0
        <5>2. n \div Ppb >= s /\ n \div Ppb < s + 1 /\ n \div Ppb \in Nat
          BY <4>1, <5>1, AboveBlock, PageAtBlock
        <5> QED  BY <5>1, <5>2
      <4>3. BadIn(flash', s)
        <5>1. CASE s = B
          BY <2>10, <5>1
        <5>2. CASE s # B
          <6>1. J.start \in J.start .. B - 1
            <7> HIDE DEF B
            <7>1. B \in Nat
              BY <2>3 DEF B
            <7> QED  BY <2>3, <2>7, <5>2, <7>1
          <6> QED  BY <2>3, <2>4, <2>9, <2>12, <6>1
        <5> QED  BY <5>1, <5>2
      <4> QED  BY <4>2, <4>3
    <3> HIDE DEF next
    <3> QED  BY <2>2, <2>4, <2>5, <3>1, NothingStored
  <2>13. /\ Stores(flash, p.cur, p.i)' <=> Stores(flash', p'.cur, p'.i)
         /\ BlankAbove(flash, p.cur)' <=> BlankAbove(flash', p'.cur)
         /\ J' = J /\ (SplStart' <=> SplStart) /\ FirstPage' = FirstPage
    BY <1>1, SameJob
  <2>14. p'.spage # J'.start * Ppb /\ p'.cur >= FirstPage'
    <3> HIDE DEF first, next
    <3>1. next # first /\ next >= first
      BY <2>3, <2>5
    <3> QED  BY <2>3, <2>6, <2>13, <3>1 DEF first
  <2>15. ~Before' /\ (RoundOnce' => e.blk <= s + NBlocks)
    BY <1>1, <2>4, <2>13, <2>14 DEF Before, RoundOnce
  <2>16. p'.i <= Len(p'.image)
    <3>1. Len(p.image) \in Nat
      BY <2>3
    <3> QED  BY <2>6, <3>1
  <2>17. /\ RoundOnce' => BlankAbove(flash, p.cur)'
         /\ RoundOnce' => Stores(flash, p.cur, p.i)'
    BY <2>6, <2>11, <2>12, <2>13, <2>15
  <2>18. ~Stored1' /\ writable'
    BY <1>1, <2>1, <2>4 DEF Stored1, Busy, PinLow
  <2> QED  BY <1>1, <2>1, <2>4, <2>13, <2>14, <2>15, <2>16, <2>17, <2>18 DEF ImageParts
<1> QED  BY <1>2, <1>3

\* The image is stored as a whole.
LEMMA StoredEnd ==
  ASSUME TypeInv, ImageParts, ProgramEnd, UNCHANGED <<job, request, erasedTo>>
  PROVE  ImageParts'
<1>1. /\ op = "program" /\ p.i >= Len(p.image) /\ op' = "idle" /\ ret' = p.cur /\ p' = p /\ e' = e
      /\ flash' = flash /\ board' = board /\ job' = job /\ erasedTo' = erasedTo
  BY DEF ProgramEnd
<1>2. ~Done /\ ProgramsJob /\ p.i \in Nat
  BY <1>1 DEF TypeInv, Serving, ProgramType
<1>3. J.image \in Seq(Data) /\ Len(J.image) \in Nat /\ p.image = J.image
  BY <1>2, JobParts DEF ProgramsJob
<1>4. p.i <= Len(p.image)
  BY <1>1 DEF ImageParts
<1>5. p.i = Len(J.image)
  BY <1>1, <1>2, <1>3, <1>4
<1>6. ~Before
  <2>1. SUFFICES ASSUME Before PROVE FALSE
    OBVIOUS
  <2>2. p.i = 0
    BY <1>1, <2>1 DEF ImageParts
  <2>3. SplPages <= Len(J.image) /\ SplPages \in Nat \ {0}
    BY <1>2, <2>1, LoaderInJob DEF Before
  <2> QED  BY <1>3, <1>5, <2>2, <2>3
<1>7. RoundOnce => Stores(flash, p.cur, p.i)
  BY <1>1, <1>6 DEF ImageParts
<1>8. /\ Stores(flash, p.cur, p.i)' <=> Stores(flash', p'.cur, p'.i)
      /\ J' = J /\ (SplStart' <=> SplStart)
  BY <1>1, SameJob
<1>9. (RoundOnce' <=> RoundOnce) /\ ~Before'
  BY <1>1, <1>6, <1>8 DEF RoundOnce, Before
<1> QED  BY <1>1, <1>5, <1>7, <1>8, <1>9 DEF ImageParts

\* nand_program begins on blocks that the host has had erased.
LEMMA StoredBegins ==
  ASSUME TypeInv, MarksMeanBad, MarkParts, EraseInv, ErasedParts, HandleProgram,
         e.from = J.start
  PROVE  ImageParts'
<1>1. /\ ~Busy /\ request = "erase" /\ erasedTo' = ret \div Ppb /\ job' = job
      /\ board' = board /\ flash' = flash /\ e' = e
  BY DEF HandleProgram, nand_program
<1>2. CASE request' = "program"
  <2>1. /\ op' = "program" /\ writable'
        /\ p' = RestartAt([NoProgram EXCEPT !.image = J.image, !.option = J.option], J.start * Ppb)
    BY <1>2 DEF HandleProgram, nand_program, CrcMatches, PinHigh
  <2>2. p'.image = J.image /\ p'.spage = J.start * Ppb /\ p'.cur = J.start * Ppb /\ p'.i = 0
    BY <2>1 DEF RestartAt, NoProgram
  <2>3. ~Done /\ board \in Boards
    BY <1>1 DEF TypeInv
  <2>4. /\ J.start \in Nat /\ J.start * Ppb \in Nat /\ Ppb \in Nat \ {0, 1}
        /\ J.image \in Seq(Data) /\ e.blk \in Nat /\ ret = e.blk * Ppb
    BY <1>1, <2>3, JobParts, ImagePlace DEF EraseInv, EraseLoop, EraseType
  <2>5. erasedTo' = e.blk
    BY <1>1, <2>4, NextPage
  <2>6. J' = J /\ (SplStart' <=> SplStart) /\ FirstPage' = FirstPage /\ Top' = Top
        /\ SplCount' = SplCount
    BY <1>1 DEF J, SplStart, HasSplPages, chip, FirstPage, Top, SplCount
  <2> DEFINE first == J.start * Ppb
             far == e.blk * Ppb
  <2>7. ASSUME NEW n \in Nat, first <= n, n < far, ~BadIn(flash, n \div Ppb)
        PROVE  flash[PageAt(n)] = Blank
    <3> DEFINE b == n \div Ppb
    <3>1. b \in Nat /\ PageAt(n) \in PagesOf(b)
      BY PageAtBlock
    <3>2. b >= J.start
      BY <2>4, <2>7, AboveBlock
    <3>3. b < e.blk
      BY <2>4, <2>7, AboveBlock
    <3> HIDE DEF b
    <3>4. b \in e.from .. e.blk - 1
      BY <2>4, <3>1, <3>2, <3>3
    <3>5. MarkedIn(flash, b) \/ BlankIn(flash, b)
      BY <1>1, <3>4 DEF ErasedParts, Erased1
    <3>6. ~MarkedIn(flash, b)
      BY <2>7, <3>1 DEF MarkParts, Visible, b
    <3> QED  BY <3>1, <3>5, <3>6 DEF BlankIn
  <2>8. BlankAbove(flash, p.cur)'
    BY <1>1, <2>2, <2>5, <2>7 DEF BlankAbove, BadIn, CheckedOffsets, PageK, chip
  <2>9. Before' <=> SplStart
    <3>1. SplStart => J.start * Ppb = 0
      BY <2>4 DEF SplStart
    <3> QED  BY <2>2, <2>6, <3>1 DEF Before
  <2>10. ASSUME ~SplStart PROVE Stores(flash, p.cur, p.i)' /\ p'.cur >= FirstPage'
    <3>1. FirstPage = first /\ SplCount = 0
      BY <2>10 DEF FirstPage, SplCount
    <3>2. FirstPage .. first - 1 = {}
      <4> HIDE DEF first
      <4> QED  BY <2>4, <3>1 DEF first
    <3>3. Held(flash, p.cur)' = {}
      BY <2>2, <2>6, <3>2 DEF Held
    <3>4. Cardinality({}) = 0
      BY FS_EmptySet
    <3>5. Stores(flash, p.cur, p.i)'
      BY <2>2, <2>6, <3>1, <3>3, <3>4 DEF Stores, InOrder, LoaderIn
    <3> QED  BY <2>2, <2>4, <2>6, <3>1, <3>5
  <2>11. p'.i <= Len(p'.image) /\ p'.spage = J'.start * Ppb
    <3>1. Len(J.image) \in Nat
      BY <2>4
    <3> QED  BY <2>2, <2>6, <3>1
  <2>12. ~Stored1'
    BY <2>1 DEF Stored1, Busy
  <2> QED  BY <2>1, <2>2, <2>8, <2>9, <2>10, <2>11, <2>12 DEF ImageParts
<1>3. CASE request' # "program"
  <2>1. op' = "idle"
    BY <1>1, <1>3 DEF HandleProgram, Busy
  <2> QED  BY <1>3, <2>1 DEF ImageParts, Stored1
<1> QED  BY <1>2, <1>3

\* Faults that have happened have happened.
LEMMA HitGrows == [Next]_vars => hit \subseteq hit'
<1> SUFFICES ASSUME [Next]_vars PROVE hit \subseteq hit'
  OBVIOUS
<1>1. CASE EraseSkip \/ EraseBlock \/ EraseFails \/ EraseEnd
  BY <1>1 DEF EraseSkip, EraseBlock, EraseFails, EraseEnd
<1>2. CASE ProgramSkip \/ ProgramNothing \/ ProgramPage
  BY <1>2 DEF ProgramSkip, ProgramNothing, ProgramPage
<1>3. CASE ProgramFails
  BY <1>3 DEF ProgramFails
<1>4. CASE CleanEnd \/ ProgramEnd
  BY <1>4 DEF CleanEnd, ProgramEnd
<1>5. CASE ProgramSpl
  BY <1>5 DEF ProgramSpl
<1>6. CASE ReadSpl \/ ReadSkip \/ ReadEnd
  BY <1>6 DEF ReadSpl, ReadSkip, ReadEnd
<1>7. CASE ReadPage
  BY <1>7 DEF ReadPage
<1>8. CASE HandleErase \/ HandleRead \/ NextJob \/ Finished \/ UNCHANGED vars
  BY <1>8 DEF HandleErase, nand_erase, HandleRead, nand_read, NextJob, Finished, vars
<1>9. CASE HandleProgram
  BY <1>9 DEF HandleProgram, nand_program
<1> QED  BY <1>1, <1>2, <1>3, <1>4, <1>5, <1>6, <1>7, <1>8, <1>9 DEF Next, Driver, DriverStep

\* Every step keeps what is stored.
LEMMA StoredNext ==
  ASSUME StoredInv, [Next]_vars
  PROVE  StoredInv'
<1>1. ErasedInv' /\ TypeInv /\ EraseInv
  BY ErasedNext DEF StoredInv, ErasedInv, MarkInv
<1>2. board' = board /\ hit \subseteq hit'
  BY BoardKept, HitGrows
<1>3. (request = "erase" => e.from = J.start)'
  <2>1. CASE EraseSkip \/ EraseBlock \/ EraseFails \/ EraseEnd
    <3>1. e'.from = e.from
      <4>0. PassedOver(e).from = e.from /\ DOMAIN PassedOver(e) = DOMAIN e /\ "from" \in DOMAIN e
        BY <1>1 DEF PassedOver, TypeInv, EraseType
      <4>1. CASE EraseSkip \/ EraseBlock \/ EraseEnd
        BY <1>1, <4>0, <4>1 DEF EraseSkip, EraseBlock, EraseEnd, TypeInv, EraseType
      <4>2. CASE EraseFails /\ chip = 4770
        BY <4>0, <4>2 DEF EraseFails
      <4>3. CASE EraseFails /\ chip # 4770
        BY <4>0, <4>3 DEF EraseFails
      <4> QED  BY <2>1, <4>1, <4>2, <4>3
    <3>2. op \in {"erase", "clean"}
      BY <2>1 DEF EraseSkip, EraseBlock, EraseFails, EraseEnd, EraseChecked
    <3>3. CASE Driver
      BY <1>2, <3>1, <3>3 DEF Driver, StoredInv, J
    <3>4. CASE ~Driver
      <4>1. Finished \/ UNCHANGED vars
        BY <3>2, <3>4 DEF Next, HandleErase, HandleProgram, HandleRead, NextJob, Busy
      <4> QED  BY <3>1, <4>1 DEF Finished, vars, StoredInv, J
    <3> QED  BY <3>3, <3>4
  <2>2. CASE Driver /\ ~(EraseSkip \/ EraseBlock \/ EraseFails \/ EraseEnd)
    <3>1. op # "erase" /\ op # "idle"
      BY <2>2, OpOf DEF Driver, DriverStep
    <3>2. request # "erase"
      BY <1>1, <3>1 DEF TypeInv, Serving
    <3> QED  BY <2>2, <3>2 DEF Driver
  <2>3. CASE HandleErase
    BY <1>2, <2>3 DEF HandleErase, nand_erase, EraseOf, NoErase, J
  <2>4. CASE HandleProgram \/ HandleRead \/ NextJob
    BY <2>4 DEF HandleProgram, HandleRead, NextJob
  <2>5. CASE Finished \/ UNCHANGED vars
    BY <2>5 DEF Finished, vars, StoredInv, J
  <2> QED  BY <2>1, <2>2, <2>3, <2>4, <2>5 DEF Next
<1>4. SUFFICES ASSUME Orderly' PROVE ImageParts'
  BY <1>1, <1>3 DEF StoredInv
<1>5. board.layout /\ MarksMeanBad /\ StaysWritable /\ Repairable' /\ hit' \cap {"later", "spl"} = {}
  BY <1>2, <1>4 DEF Orderly, MarksMeanBad, StaysWritable, chip
<1>6. Orderly
  BY <1>2, <1>5 DEF Orderly, Repairable
<1>7. ImageParts /\ MarkParts /\ ErasedParts
  BY <1>1, <1>5, <1>6 DEF StoredInv, ErasedInv, MarkInv
<1>8. CASE Driver
  <2>1. UNCHANGED <<job, request, erasedTo>>
    BY <1>8 DEF Driver
  <2>2. CASE EraseSkip \/ EraseBlock \/ EraseFails
    <3>1. CASE op = "clean"
      BY <1>1, <1>5, <1>7, <2>1, <2>2, <3>1, StoredErase
    <3>2. CASE op = "erase"
      <4>1. op' = "erase"
        BY <2>2, <3>2 DEF EraseSkip, EraseBlock, EraseFails
      <4> QED  BY <4>1 DEF ImageParts, Stored1, Busy
    <3> QED  BY <2>2, <3>1, <3>2 DEF EraseSkip, EraseBlock, EraseFails, EraseChecked
  <2>3. CASE EraseEnd
    <3>1. op' = "idle" /\ request' # "program"
      BY <1>1, <2>1, <2>3 DEF EraseEnd, TypeInv, Serving
    <3> QED  BY <3>1 DEF ImageParts, Stored1
  <2>4. CASE ProgramSpl
    BY <1>1, <1>5, <1>7, <2>1, <2>4, StoredLoader
  <2>5. CASE ProgramSkip \/ ProgramNothing \/ ProgramPage
    BY <1>1, <1>5, <1>7, <2>1, <2>5, StoredPages
  <2>6. CASE ProgramFails
    BY <1>1, <1>5, <1>7, <2>1, <2>6, StoredFails
  <2>7. CASE CleanEnd
    BY <1>1, <1>5, <1>7, <2>1, <2>7, StoredCleanEnd
  <2>8. CASE ProgramEnd
    BY <1>1, <1>7, <2>1, <2>8, StoredEnd
  <2>9. CASE ReadSpl \/ ReadSkip \/ ReadPage \/ ReadEnd
    <3>1. op' \in {"read", "idle"} /\ op = "read"
      BY <2>9 DEF ReadSpl, ReadSkip, ReadPage, ReadEnd, Reading
    <3>2. request' # "program"
      BY <1>1, <2>1, <3>1 DEF TypeInv, Serving
    <3> QED  BY <3>1, <3>2 DEF ImageParts, Stored1
  <2> QED  BY <1>8, <2>2, <2>3, <2>4, <2>5, <2>6, <2>7, <2>8, <2>9 DEF Driver, DriverStep
<1>9. CASE HandleProgram
  <2>1. e.from = J.start
    BY <1>9 DEF HandleProgram, StoredInv
  <2> QED  BY <1>1, <1>5, <1>7, <1>9, <2>1, StoredBegins
<1>10. CASE HandleErase \/ HandleRead \/ NextJob
  <2>1. op' \notin {"program", "clean"} /\ request' # "program"
    BY <1>10 DEF HandleErase, HandleRead, NextJob, nand_erase, nand_read, Busy
  <2> QED  BY <2>1 DEF ImageParts, Stored1
<1>11. CASE Finished \/ UNCHANGED vars
  <2>1. UNCHANGED vars
    BY <1>11 DEF Finished
  <2>2. /\ Stores(flash, p.cur, p.i)' <=> Stores(flash', p'.cur, p'.i)
        /\ BlankAbove(flash, p.cur)' <=> BlankAbove(flash', p'.cur)
        /\ BlankAbove(flash, (p.cur \div Ppb + 1) * Ppb)'
             <=> BlankAbove(flash', (p'.cur \div Ppb + 1) * Ppb)
        /\ \A b : BadIn(flash, b)' <=> BadIn(flash', b)
        /\ J' = J /\ (SplStart' <=> SplStart) /\ FirstPage' = FirstPage
    BY <2>1, SameJob DEF vars
  <2>3. /\ op' = op /\ p' = p /\ e' = e /\ flash' = flash /\ writable' = writable /\ hit' = hit
        /\ board' = board /\ ret' = ret /\ request' = request
    BY <2>1 DEF vars
  <2>4. (Stored1' <=> Stored1) /\ (RoundOnce' <=> RoundOnce) /\ (Before' <=> Before)
    BY <2>2, <2>3 DEF Stored1, Busy, RoundOnce, Before
  <2> QED  BY <1>7, <2>2, <2>3, <2>4 DEF ImageParts
<1> QED  BY <1>8, <1>9, <1>10, <1>11 DEF Next

\* No image is stored at the start.
LEMMA StoredInit == Init => StoredInv
<1> SUFFICES ASSUME Init PROVE StoredInv
  OBVIOUS
<1>1. op = "idle" /\ request = "none"
  BY DEF Init, DriverInit
<1>2. ErasedInv
  <2>1. ErasedParts
    BY <1>1 DEF ErasedParts, Erased1
  <2> QED  BY <2>1, MarkInit, EraseInvInit DEF ErasedInv
<1> QED  BY <1>1, <1>2 DEF StoredInv, ImageParts, Stored1

\* The pages that should hold the image are those of good blocks.
LEMMA StoredPlace ==
  ASSUME TypeInv, ~Done, MarksMeanBad, RoomForImage
  PROVE  InRoom(ret) /\ ImagePages = Held(flash, ret)
<1>1. /\ board \in Boards /\ FirstPage \in Nat /\ ret \in Nat /\ Top \in Nat
  BY ImagePlace DEF TypeInv
<1>2. InRoom(ret)
  <2> DEFINE y == erasedTo * Ppb
  <2>1. y \in Nat
    BY FlashAssumptions DEF TypeInv
  <2>2. y >= ret /\ ret <= Top
    BY DEF RoomForImage, Top
  <2> HIDE DEF y
  <2>3. ret <= y
    BY <1>1, <2>1, <2>2
  <2> QED  BY <2>2, <2>3 DEF InRoom, y
<1>3. ImagePages = Held(flash, ret)
  <2>1. ASSUME NEW n \in FirstPage .. ret - 1
        PROVE  IsBad(n \div Ppb) <=> BadIn(flash, n \div Ppb)
    <3>1. n \in Nat
      BY <1>1
    <3> QED  BY <1>1, <3>1, PageAtBlock, CheckedByOffset
  <2> QED  BY <2>1 DEF ImagePages, Held, FirstPage
<1> QED  BY <1>2, <1>3

\* What is stored is the image: on every board and flash, whichever blocks were bad or
\* could not be erased, the good blocks hold the image in order; also after a page
\* failure in the block in which the image begins.
THEOREM StoredHolds == Spec => []Stored
<1>1. Init => StoredInv
  BY StoredInit
<1>2. StoredInv /\ [Next]_vars => StoredInv'
  BY StoredNext
<1>3. StoredInv => Stored
  <2> SUFFICES ASSUME StoredInv, Stored1, board.layout, MarksMeanBad, RoomForImage, Repairable,
                      hit \cap {"later", "spl"} = {}
               PROVE  HoldsImage
    BY DEF Stored
  <2>1. Orderly /\ RoundOnce /\ TypeInv /\ ~Done
    BY DEF Orderly, RoomForImage, RoundOnce, StoredInv, ErasedInv, MarkInv, TypeInv, Stored1
  <2>2. ret = p.cur /\ p.i = Len(J.image) /\ Stores(flash, ret, Len(J.image))
    BY <2>1 DEF StoredInv, ImageParts
  <2>3. InRoom(ret) /\ ImagePages = Held(flash, ret)
    BY <2>1, StoredPlace
  <2>4. Cardinality(ImagePages) = Len(J.image) - SplCount
    BY <2>2, <2>3 DEF Stores
  <2>5. \A n \in ImagePages : flash[PageAt(n)].data = ImagePage(n)
    BY <2>2, <2>3 DEF Stores, InOrder, Below, ImagePage
  <2>6. \A k \in 0 .. SplCount - 1 : SplPage(k) = J.image[k + 1]
    <3>1. CASE ~SplStart
      BY <3>1 DEF SplCount
    <3>2. CASE SplStart
      <4>1. LoaderFree(flash)
        BY <3>2 DEF RoomForImage, LoaderFree, Marked, MarkedIn
      <4>2. LoaderIn(flash)
        BY <2>2, <2>3, <4>1 DEF Stores
      <4>3. ASSUME NEW k \in 0 .. SplCount - 1 PROVE SplPage(k) = J.image[k + 1]
        <5>1. /\ flash[2 * k] = Page(J.image[k + 1], SplData, FALSE)
              /\ flash[2 * k + 1] = Page(J.image[k + 1], SplCode, FALSE)
          BY <4>2 DEF LoaderIn
        <5>2. flash[2 * k].data = J.image[k + 1] /\ flash[2 * k].code = SplData
          BY <5>1 DEF Page
        <5> QED  BY <5>1, <5>2 DEF SplPage
      <4> QED  BY <4>3
    <3> QED  BY <3>1, <3>2
  <2> QED  BY <2>4, <2>5, <2>6 DEF HoldsImage
<1> QED  BY <1>1, <1>2, <1>3, PTL DEF Spec
-----------------------------------------------------------------------------
(***************************************************************************)
(* What nand_read delivers.  The pages of good blocks up to where it has   *)
(* come are those of the buffer, one after the other.                      *)
(***************************************************************************)

\* Byte for byte what is in the flash: the boot loader, then page after page.
BufMatches ==
  /\ \A k \in 1 .. SplCount : r.buf[k] = SplPage(k - 1)
  /\ \A i \in SplCount + 1 .. r.cnt : \E n \in Held(flash, r.cur) :
       /\ Cardinality(Below(Held(flash, r.cur), n)) = i - SplCount - 1
       /\ r.buf[i] = flash[PageAt(n)].data

\* The boot loader is still to be read.
LoaderFirst == SplStart /\ r.cur = 0

\* The check of a block that was read may have cleared the count.
CheckedSpoilt ==
  \E b \in Nat : b >= J.start /\ b * Ppb < r.cur /\ CheckMayErr(b)

\* An error that could not be corrected is the only thing that spoils the buffer,
\* and is counted until a corrected one clears the count.
Reported ==
  /\ "many" \notin hit => BufMatches
  /\ "few" \notin hit => BufMatches \/ err = 1 \/ CheckedSpoilt

ReadParts ==
  request = "read" =>
    /\ r.n = Len(J.image)
    /\ LoaderFirst => op = "read" /\ r.cnt = 0
    /\ ~LoaderFirst =>
         /\ r.cur >= FirstPage
         /\ ~FirstOfBlock(r.cur) => ~BadIn(flash, r.cur \div Ppb)
         /\ Len(r.buf) = r.cnt /\ r.cnt <= r.n
         /\ r.cnt = SplCount + Cardinality(Held(flash, r.cur))
         /\ Reported
    /\ op = "idle" => ret = r.cur /\ r.cnt = r.n

ReadInv == TypeInv /\ (board.layout /\ MarksMeanBad => ReadParts)

\* The job and its flash stay while the driver reads.
LEMMA SameRead ==
  ASSUME board' = board, job' = job, flash' = flash
  PROVE  /\ J' = J /\ (SplStart' <=> SplStart) /\ FirstPage' = FirstPage /\ SplCount' = SplCount
         /\ Held(flash, r.cur)' = Held(flash, r'.cur)
         /\ \A k : SplPage(k)' = SplPage(k)
         /\ \A b : BadIn(flash, b)' <=> BadIn(flash, b)
         /\ BufMatches' <=>
              /\ \A k \in 1 .. SplCount : r'.buf[k] = SplPage(k - 1)
              /\ \A i \in SplCount + 1 .. r'.cnt : \E n \in Held(flash, r'.cur) :
                   /\ Cardinality(Below(Held(flash, r'.cur), n)) = i - SplCount - 1
                   /\ r'.buf[i] = flash[PageAt(n)].data
<1>1. J' = J /\ (SplStart' <=> SplStart) /\ FirstPage' = FirstPage /\ SplCount' = SplCount
  BY DEF J, SplStart, HasSplPages, chip, FirstPage, SplCount
<1>2. \A b : BadIn(flash, b)' <=> BadIn(flash, b)
  BY DEF BadIn, CheckedOffsets, PageK, chip
<1>3. Held(flash, r.cur)' = Held(flash, r'.cur)
  BY <1>1 DEF Held, BadIn, CheckedOffsets, PageK, chip
<1>4. \A k : SplPage(k)' = SplPage(k)
  BY DEF SplPage
<1>5. BufMatches' <=>
              /\ \A k \in 1 .. SplCount : r'.buf[k] = SplPage(k - 1)
              /\ \A i \in SplCount + 1 .. r'.cnt : \E n \in Held(flash, r'.cur) :
                   /\ Cardinality(Below(Held(flash, r'.cur), n)) = i - SplCount - 1
                   /\ r'.buf[i] = flash[PageAt(n)].data
  <2>1. (\A k \in 1 .. SplCount : r.buf[k] = SplPage(k - 1))'
           <=> \A k \in 1 .. SplCount : r'.buf[k] = SplPage(k - 1)
    BY <1>1, <1>4
  <2>2. (\A i \in SplCount + 1 .. r.cnt : \E n \in Held(flash, r.cur) :
                   /\ Cardinality(Below(Held(flash, r.cur), n)) = i - SplCount - 1
                   /\ r.buf[i] = flash[PageAt(n)].data)'
           <=> \A i \in SplCount + 1 .. r'.cnt : \E n \in Held(flash, r'.cur) :
                   /\ Cardinality(Below(Held(flash, r'.cur), n)) = i - SplCount - 1
                   /\ r'.buf[i] = flash[PageAt(n)].data
    BY <1>1, <1>3
  <2> QED  BY <2>1, <2>2 DEF BufMatches
<1> QED  BY <1>1, <1>2, <1>3, <1>4, <1>5

\* Where nand_read is when it comes to a page of the image.
LEMMA ReadPlace ==
  ASSUME TypeInv, MarksMeanBad, ReadParts, Reading, ~SplRead
  PROVE  /\ ~Done /\ request = "read" /\ r.cur \in Nat /\ r.cnt \in Nat /\ r.n \in Nat
         /\ r.buf \in Seq(Data) /\ r.cur \div Ppb \in Nat /\ ~LoaderFirst /\ r.cur >= FirstPage
         /\ (FirstOfBlock(r.cur) => ~IsBad(r.cur \div Ppb)) => ~BadIn(flash, r.cur \div Ppb)
         /\ (FirstOfBlock(r.cur) /\ IsBad(r.cur \div Ppb)) => BadIn(flash, r.cur \div Ppb)
<1>1. op = "read" /\ request = "read" /\ ~Done /\ board \in Boards
  BY DEF Reading, TypeInv, Serving
<1>2. r.cur \in Nat /\ r.cnt \in Nat /\ r.n \in Nat /\ r.buf \in Seq(Data)
  BY DEF TypeInv, ReadType
<1>3. r.cur \div Ppb \in Nat
  BY <1>2, PageAtBlock
<1>4. ~LoaderFirst
  <2>1. 0 < 2 * SplPages
    BY DriverAssumptions
  <2> QED  BY <2>1 DEF LoaderFirst, SplStart, SplRead
<1>5. IsBad(r.cur \div Ppb) <=> BadIn(flash, r.cur \div Ppb)
  BY <1>1, <1>3, CheckedByOffset
<1> QED  BY <1>1, <1>2, <1>3, <1>4, <1>5 DEF ReadParts

\* Where nand_read is, in or above the first block of the job.
LEMMA ReadAbove ==
  ASSUME TypeInv, MarksMeanBad, ReadParts, Reading, ~SplRead
  PROVE  /\ ~Done /\ request = "read" /\ board \in Boards /\ r \in ReadType /\ r.cur \in Nat
         /\ J.start \in Nat /\ FirstPage \in Nat /\ r.cur >= FirstPage /\ r.cur >= J.start * Ppb
<1>1. /\ ~Done /\ request = "read" /\ r.cur \in Nat /\ r.cur >= FirstPage
      /\ board \in Boards /\ r \in ReadType
  BY ReadPlace DEF TypeInv
<1>2. J.start \in Nat /\ J.start * Ppb \in Nat /\ FirstPage \in Nat /\ FirstPage >= J.start * Ppb
  BY <1>1, ImagePlace
<1> DEFINE y == J.start * Ppb
<1>3. y \in Nat /\ FirstPage >= y
  BY <1>2
<1> HIDE DEF y
<1>4. r.cur >= y
  BY <1>1, <1>2, <1>3
<1> QED  BY <1>1, <1>2, <1>4 DEF y

\* What the checks saw can still be seen further on.
LEMMA CheckedStays ==
  ASSUME board' = board, job' = job, flash' = flash,
         r.cur \in Nat, r'.cur \in Nat, r'.cur >= r.cur, Ppb \in Nat
  PROVE  CheckedSpoilt => CheckedSpoilt'
<1>1. J' = J /\ \A b : CheckMayErr(b)' <=> CheckMayErr(b)
  BY DEF J, CheckMayErr, CheckedPages, FourPages, chip
<1>2. ASSUME NEW b \in Nat, b * Ppb < r.cur PROVE b * Ppb < r'.cur
  <2> DEFINE y == b * Ppb
  <2>1. y \in Nat /\ y < r.cur
    BY <1>2
  <2> HIDE DEF y
  <2>2. y < r'.cur
    BY <2>1
  <2> QED  BY <2>2 DEF y
<1> QED  BY <1>1, <1>2 DEF CheckedSpoilt

\* The check of a block may clear the count, but then it is one of those.
LEMMA CheckClears ==
  ASSUME TypeInv, MarksMeanBad, ReadParts, Reading, ~SplRead, FirstOfBlock(r.cur),
         board' = board, job' = job, flash' = flash, r'.cur \in Nat, r'.cur > r.cur,
         NEW x \in ErrAfterCheck(r.cur \div Ppb), err = 1
  PROVE  x = 1 \/ CheckedSpoilt'
<1> DEFINE b == r.cur \div Ppb
           y == b * Ppb
<1>1. r.cur \in Nat /\ J.start \in Nat /\ r.cur >= J.start * Ppb
  BY ReadAbove
<1>2. b \in Nat /\ b >= J.start
  BY <1>1, PageAtBlock, AboveBlock
<1>3. y \in Nat /\ y <= r.cur
  <2>1. Ppb \in Nat \ {0} /\ r.cur % Ppb = 0
    BY FlashAssumptions DEF FirstOfBlock
  <2>2. y \in Nat
    BY <1>2, <2>1
  <2>3. r.cur = y + (r.cur % Ppb)
    BY <1>1, <2>1, Division
  <2> HIDE DEF b, y
  <2>4. r.cur = y + 0
    BY <2>1, <2>3, Zenon
  <2>5. r.cur = y
    BY <2>2, <2>4
  <2> QED  BY <2>2, <2>5
<1>4. y < r'.cur
  <2> HIDE DEF y
  <2> QED  BY <1>1, <1>3
<1>5. x = 1 \/ CheckMayErr(b)
  BY DEF ErrAfterCheck
<1>6. J' = J /\ \A d : CheckMayErr(d)' <=> CheckMayErr(d)
  BY DEF J, CheckMayErr, CheckedPages, FourPages, chip
<1>7. ASSUME CheckMayErr(b) PROVE CheckedSpoilt'
  <2>1. PICK d \in Nat : d >= J.start /\ d * Ppb < r'.cur /\ CheckMayErr(d)
    BY <1>2, <1>4, <1>7
  <2> QED  BY <1>6, <2>1 DEF CheckedSpoilt
<1> QED  BY <1>5, <1>7

\* A bad block is passed over, as it was when the image was written.
LEMMA ReadSkips ==
  ASSUME TypeInv, MarksMeanBad, ReadParts, ReadSkip, UNCHANGED <<job, request, erasedTo>>
  PROVE  ReadParts'
<1>1. /\ Reading /\ ~SplRead /\ FirstOfBlock(r.cur) /\ IsBad(r.cur \div Ppb)
      /\ r' = [r EXCEPT !.cur = @ + Ppb] /\ err' \in ErrAfterCheck(r.cur \div Ppb)
      /\ op = "read" /\ op' = op /\ hit' = hit /\ board' = board /\ flash' = flash /\ job' = job
      /\ request' = request
  BY DEF ReadSkip, Reading
<1>2. /\ ~Done /\ request = "read" /\ r.cur \in Nat /\ r.cnt \in Nat /\ r.n \in Nat
      /\ r.buf \in Seq(Data) /\ ~LoaderFirst /\ r.cur >= FirstPage
      /\ BadIn(flash, r.cur \div Ppb)
  BY <1>1, ReadPlace
<1>3. /\ r'.cur = r.cur + Ppb /\ r'.cnt = r.cnt /\ r'.n = r.n /\ r'.buf = r.buf
  BY <1>1 DEF TypeInv, ReadType
<1>4. Ppb \in Nat \ {0, 1} /\ FirstPage \in Nat
  BY <1>2, ImagePlace
<1>5. Held(flash, r'.cur) = Held(flash, r.cur)
  BY <1>1, <1>2, <1>3, SkippedHeld
<1>6. /\ J' = J /\ (SplStart' <=> SplStart) /\ FirstPage' = FirstPage /\ SplCount' = SplCount
      /\ Held(flash, r.cur)' = Held(flash, r.cur)
      /\ (BufMatches' <=> BufMatches)
  BY <1>1, <1>3, <1>5, SameRead DEF BufMatches
<1>7. ~LoaderFirst' /\ r'.cur >= FirstPage
  BY <1>2, <1>3, <1>4, <1>6 DEF LoaderFirst
<1>8. FirstOfBlock(r.cur)'
  BY <1>1, <1>2, <1>3, NextPage DEF FirstOfBlock
<1>9. (err = 1 => err' = 1 \/ CheckedSpoilt') /\ (CheckedSpoilt => CheckedSpoilt')
  <2>1. r'.cur \in Nat /\ r'.cur > r.cur
    BY <1>2, <1>3, <1>4
  <2>2. err = 1 => err' = 1 \/ CheckedSpoilt'
    BY <1>1, <2>1, CheckClears
  <2>3. CheckedSpoilt => CheckedSpoilt'
    BY <1>1, <1>2, <1>4, <2>1, CheckedStays
  <2> QED  BY <2>2, <2>3
<1>10. Reported'
  BY <1>1, <1>2, <1>6, <1>9 DEF ReadParts, Reported
<1> QED  BY <1>1, <1>2, <1>3, <1>6, <1>7, <1>8, <1>10 DEF ReadParts

\* A page of a good block is delivered.
LEMMA ReadsPage ==
  ASSUME TypeInv, MarksMeanBad, ReadParts, board.layout, ReadPage,
         UNCHANGED <<job, request, erasedTo>>
  PROVE  ReadParts'
<1> DEFINE c == r.cur
           S == Held(flash, c)
           pg == flash[PageAt(c)]
<1>1. /\ Reading /\ ~SplRead
      /\ FirstOfBlock(c) => ~IsBad(c \div Ppb)
      /\ op = "read" /\ op' = op /\ board' = board /\ flash' = flash /\ job' = job
      /\ request' = request /\ r.cnt < r.n
  BY DEF ReadPage, Reading
<1>2. /\ ~Done /\ request = "read" /\ c \in Nat /\ r.cnt \in Nat /\ r.n \in Nat
      /\ r.buf \in Seq(Data) /\ ~LoaderFirst /\ c >= FirstPage
      /\ ~BadIn(flash, c \div Ppb)
  <2>1. Reading /\ ~SplRead
    BY <1>1
  <2>2. FirstOfBlock(r.cur) => ~IsBad(r.cur \div Ppb)
    BY <1>1
  <2> QED  BY <2>1, <2>2, ReadPlace
<1>3. PICK data \in Data, fault \in {{}, {"many"}, {"few"}} :
         /\ r' = [r EXCEPT !.cur = @ + 1, !.cnt = @ + 1, !.buf = Append(@, data)]
         /\ hit' = hit \cup fault
         /\ fault # {"many"} => data = pg.data
         /\ fault = {"many"} => err' = 1
         /\ (fault = {} /\ err = 1) => err' = 1 \/ CheckedSpoilt'
  <2> DEFINE Delivers(data, errs, fault) ==
               /\ hit' = hit \cup fault /\ err' \in errs
               /\ r' = [r EXCEPT !.cur = @ + 1, !.cnt = @ + 1, !.buf = Append(@, data)]
  <2>1. PICK was \in IF FirstOfBlock(c) THEN ErrAfterCheck(c \div Ppb) ELSE {err} :
          \/ Delivers(Decoded(pg, eccpos', was).data, Decoded(pg, eccpos', was).errs, {})
          \/ Delivers(Spoilt, {1}, {"many"})
          \/ Delivers(pg.data, {0}, {"few"})
    BY DEF ReadPage, Damaged, Corrected
  <2>2. err = 1 => was = 1 \/ CheckedSpoilt'
    <3>1. r'.cur = c + 1
      BY <2>1 DEF TypeInv, ReadType
    <3>2. r'.cur \in Nat /\ r'.cur > r.cur
      BY <1>2, <3>1
    <3>3. CASE FirstOfBlock(c)
      <4>1. was \in ErrAfterCheck(r.cur \div Ppb) /\ FirstOfBlock(r.cur)
        BY <2>1, <3>3
      <4> QED  BY <1>1, <3>2, <4>1, CheckClears
    <3>4. CASE ~FirstOfBlock(c)
      BY <2>1, <3>4
    <3> QED  BY <3>3, <3>4
  <2>3. Decoded(pg, eccpos', was).data = pg.data
        /\ Decoded(pg, eccpos', was).errs \subseteq {was, 1}
    <3>1. Blank.data = Ff
      BY DEF Blank, Page
    <3> HIDE DEF pg
    <3> QED  BY <3>1 DEF Decoded
  <2>4. pg.data \in Data /\ Spoilt \in Data
    <3>1. PageAt(r.cur) \in Pages
      BY <1>2, PageAtBlock DEF PagesOf
    <3>2. flash[PageAt(r.cur)] \in PageValues
      BY <3>1 DEF TypeInv
    <3> QED  BY <3>2 DEF PageValues, Data
  <2>5. CASE Delivers(Decoded(pg, eccpos', was).data, Decoded(pg, eccpos', was).errs, {})
    <3>1. Delivers(pg.data, Decoded(pg, eccpos', was).errs, {})
      BY <2>3, <2>5
    <3>2. err = 1 => err' = 1 \/ CheckedSpoilt'
      BY <2>2, <2>3, <3>1
    <3>3. {} # {"many"} /\ {} \in {{}, {"many"}, {"few"}}
      OBVIOUS
    <3> QED  BY <2>4, <3>1, <3>2, <3>3
  <2>6. CASE Delivers(Spoilt, {1}, {"many"})
    <3>1. {"many"} # {} /\ {"many"} \in {{}, {"many"}, {"few"}}
      OBVIOUS
    <3> QED  BY <2>4, <2>6, <3>1
  <2>7. CASE Delivers(pg.data, {0}, {"few"})
    <3>1. {"few"} # {} /\ {"few"} # {"many"} /\ {"few"} \in {{}, {"many"}, {"few"}}
      OBVIOUS
    <3> QED  BY <2>4, <2>7, <3>1
  <2> QED  BY <2>1, <2>5, <2>6, <2>7
<1> HIDE DEF c, pg
<1>4. /\ r'.cur = c + 1 /\ r'.cnt = r.cnt + 1 /\ r'.n = r.n /\ r'.buf = Append(r.buf, data)
  BY <1>3 DEF TypeInv, ReadType, c
<1>5. /\ Held(flash, c + 1) = S \cup {c} /\ Cardinality(S) \in Nat
      /\ Cardinality(Held(flash, c + 1)) = Cardinality(S) + 1
      /\ \A n \in S : Below(Held(flash, c + 1), n) = Below(S, n)
      /\ Below(Held(flash, c + 1), c) = S
  BY <1>2, HeldFurther
<1>6. /\ FirstPage \in Nat /\ SplCount \in Nat /\ (SplStart => FirstPage # 0)
  BY <1>2, ImagePlace
<1>7. /\ r.n = Len(J.image) /\ Len(r.buf) = r.cnt /\ r.cnt = SplCount + Cardinality(S) /\ Reported
  BY <1>2 DEF ReadParts, c
<1>8. /\ J' = J /\ (SplStart' <=> SplStart) /\ FirstPage' = FirstPage /\ SplCount' = SplCount
      /\ Held(flash, r.cur)' = Held(flash, c + 1)
      /\ \A b : BadIn(flash, b)' <=> BadIn(flash, b)
      /\ BufMatches' <=>
              /\ \A k \in 1 .. SplCount : r'.buf[k] = SplPage(k - 1)
              /\ \A i \in SplCount + 1 .. r'.cnt : \E n \in Held(flash, c + 1) :
                   /\ Cardinality(Below(Held(flash, c + 1), n)) = i - SplCount - 1
                   /\ r'.buf[i] = flash[PageAt(n)].data
  <2>1. r'.cur = c + 1
    BY <1>4
  <2>2. /\ J' = J /\ (SplStart' <=> SplStart) /\ FirstPage' = FirstPage /\ SplCount' = SplCount
        /\ Held(flash, r.cur)' = Held(flash, r'.cur)
        /\ \A b : BadIn(flash, b)' <=> BadIn(flash, b)
        /\ BufMatches' <=>
              /\ \A k \in 1 .. SplCount : r'.buf[k] = SplPage(k - 1)
              /\ \A i \in SplCount + 1 .. r'.cnt : \E n \in Held(flash, r'.cur) :
                   /\ Cardinality(Below(Held(flash, r'.cur), n)) = i - SplCount - 1
                   /\ r'.buf[i] = flash[PageAt(n)].data
    BY <1>1, SameRead
  <2> QED  BY ONLY <2>1, <2>2
<1>9. Len(r'.buf) = r'.cnt /\ r'.cnt <= r'.n /\ r'.cnt = SplCount + Cardinality(Held(flash, c + 1))
  <2>1. Len(r'.buf) = Len(r.buf) + 1
    BY <1>2, <1>4
  <2> DEFINE a == Cardinality(S)
             z == Cardinality(Held(flash, c + 1))
  <2>2. a \in Nat /\ z = a + 1 /\ r.cnt = SplCount + a
    BY <1>5, <1>7
  <2>3. r'.cnt = SplCount + z
    <3> HIDE DEF a, z
    <3> QED  BY <1>4, <1>6, <2>2
  <2>4. r'.cnt <= r'.n
    BY <1>1, <1>2, <1>4
  <2> QED  BY <1>2, <1>4, <1>7, <2>1, <2>3, <2>4
<1>10. ~LoaderFirst' /\ r'.cur >= FirstPage'
  BY <1>2, <1>4, <1>6, <1>8 DEF LoaderFirst
<1>11. (~FirstOfBlock(r.cur) => ~BadIn(flash, r.cur \div Ppb))'
  <2>1. SUFFICES ASSUME ~FirstOfBlock(c + 1) PROVE ~BadIn(flash, (c + 1) \div Ppb)
    BY <1>4, <1>8 DEF FirstOfBlock
  <2>2. (c + 1) \div Ppb = c \div Ppb
    BY <1>2, <2>1, NextPage
  <2> QED  BY <1>2, <2>2
<1>12. ASSUME BufMatches, data = pg.data PROVE BufMatches'
  <2>1. ASSUME NEW k \in 1 .. r.cnt PROVE r'.buf[k] = r.buf[k]
    BY <1>2, <1>4, <1>7
  <2>2. r'.buf[r.cnt + 1] = data
    BY <1>2, <1>4, <1>7
  <2>3. ASSUME NEW k \in 1 .. SplCount PROVE r'.buf[k] = SplPage(k - 1)
    <3>1. k \in 1 .. r.cnt
      <4> DEFINE a == Cardinality(S)
      <4>1. a \in Nat /\ r.cnt = SplCount + a
        BY <1>5, <1>7
      <4> HIDE DEF a
      <4> QED  BY <1>6, <4>1
    <3> QED  BY <1>12, <2>1, <3>1 DEF BufMatches
  <2>4. ASSUME NEW i \in SplCount + 1 .. r'.cnt
        PROVE  \E n \in Held(flash, c + 1) :
                   /\ Cardinality(Below(Held(flash, c + 1), n)) = i - SplCount - 1
                   /\ r'.buf[i] = flash[PageAt(n)].data
    <3>1. CASE i = r.cnt + 1
      <4> DEFINE a == Cardinality(S)
      <4>1. a \in Nat /\ r.cnt = SplCount + a /\ Cardinality(Below(Held(flash, c + 1), c)) = a
        BY <1>5, <1>7
      <4>2. a = i - SplCount - 1
        <5> HIDE DEF a
        <5> QED  BY <1>6, <3>1, <4>1
      <4>3. c \in Held(flash, c + 1)
        BY <1>5
      <4>4. r'.buf[i] = flash[PageAt(c)].data
        BY <1>12, <2>2, <3>1 DEF pg
      <4> QED  BY <4>1, <4>2, <4>3, <4>4
    <3>2. CASE i # r.cnt + 1
      <4>1. i \in SplCount + 1 .. r.cnt
        BY <1>2, <1>4, <1>6, <3>2
      <4>2. i \in 1 .. r.cnt
        BY <1>2, <1>6, <4>1
      <4>3. PICK n \in S : /\ Cardinality(Below(S, n)) = i - SplCount - 1
                           /\ r.buf[i] = flash[PageAt(n)].data
        BY <1>12, <4>1 DEF BufMatches, c
      <4>4. n \in Held(flash, c + 1) /\ Below(Held(flash, c + 1), n) = Below(S, n)
        BY <1>5
      <4> QED  BY <2>1, <4>2, <4>3, <4>4
    <3> QED  BY <3>1, <3>2
  <2> QED  BY <1>8, <2>3, <2>4
<1>13. Reported'
  <2>1. ASSUME "many" \notin hit' PROVE BufMatches'
    <3>1. "many" \notin hit /\ data = pg.data
      BY <1>3, <2>1
    <3> QED  BY <1>7, <1>12, <3>1 DEF Reported
  <2>2. ASSUME "few" \notin hit' PROVE BufMatches' \/ err' = 1 \/ CheckedSpoilt'
    <3>1. CASE fault = {"many"}
      BY <1>3, <3>1
    <3>2. CASE fault = {"few"}
      BY <1>3, <2>2, <3>2
    <3>3. CASE fault = {}
      <4>1. CheckedSpoilt => CheckedSpoilt'
        <5>1. r.cur \in Nat /\ r'.cur \in Nat /\ r'.cur >= r.cur /\ Ppb \in Nat
          BY <1>2, <1>4, FlashAssumptions DEF c
        <5> QED  BY <1>1, <5>1, CheckedStays
      <4>2. "few" \notin hit /\ data = pg.data
        BY <1>3, <2>2, <3>3
      <4>3. BufMatches \/ err = 1 \/ CheckedSpoilt
        BY <1>7, <4>2 DEF Reported
      <4> QED  BY <1>3, <1>12, <3>3, <4>1, <4>2, <4>3
    <3> QED  BY <1>3, <3>1, <3>2, <3>3
  <2> QED  BY <2>1, <2>2 DEF Reported
<1>14. (r.n = Len(J.image))' /\ op' = "read"
  BY <1>1, <1>4, <1>7, <1>8
<1> QED  BY <1>4, <1>8, <1>9, <1>10, <1>11, <1>13, <1>14 DEF ReadParts

\* The boot loader's pages, then on to the third block.
LEMMA ReadsSpl ==
  ASSUME TypeInv, MarksMeanBad, ReadParts, ReadSpl, UNCHANGED <<job, request, erasedTo>>
  PROVE  ReadParts'
<1> DEFINE m == IF r.n < SplPages THEN r.n ELSE SplPages
<1>1. /\ Reading /\ SplRead /\ op = "read" /\ op' = op /\ board' = board /\ flash' = flash
      /\ job' = job /\ request' = request /\ hit' = hit /\ err' = err
      /\ r' = [r EXCEPT !.cur = 2 * Ppb, !.cnt = SplPages,
                        !.buf = [k \in 1 .. m |-> SplPage(k - 1)]]
  BY DEF ReadSpl, Reading
<1>2. /\ request = "read" /\ ~Done /\ r.cur \in Nat /\ r.n \in Nat
  BY <1>1 DEF TypeInv, Serving, ReadType
<1>3. /\ Ppb \in Nat \ {0, 1} /\ SplPages \in Nat \ {0} /\ 2 * SplPages <= Ppb
  BY FlashAssumptions, DriverAssumptions
<1>4. SplStart
  <2>1. SUFFICES ASSUME ~SplStart PROVE FALSE
    OBVIOUS
  <2>2. J.start \in Nat /\ J.start # 0 /\ r.cur >= J.start * Ppb
    <3>1. J.start \in Nat /\ FirstPage = J.start * Ppb
      BY <1>2, <2>1, JobParts DEF FirstPage
    <3> QED  BY <1>1, <1>2, <2>1, <3>1 DEF SplStart, SplRead, ReadParts, LoaderFirst
  <2>3. J.start * Ppb >= Ppb
    <3>1. PICK k \in Nat : J.start = k + 1
      <4>1. J.start - 1 \in Nat /\ J.start = (J.start - 1) + 1
        BY <2>2
      <4> QED  BY <4>1
    <3>2. (k + 1) * Ppb = k * Ppb + Ppb /\ k * Ppb \in Nat
      BY <1>3, <3>1
    <3> DEFINE y == k * Ppb
               z == (k + 1) * Ppb
    <3>3. y \in Nat /\ z = y + Ppb
      BY <3>2
    <3> HIDE DEF y, z
    <3>4. z >= Ppb
      BY <1>3, <3>3
    <3> QED  BY <3>1, <3>4 DEF z
  <2>4. r.cur < 2 * SplPages
    BY <1>1 DEF SplRead
  <2> DEFINE y == J.start * Ppb
  <2>5. y \in Int /\ r.cur >= y /\ y >= Ppb
    BY <1>3, <2>2, <2>3
  <2> HIDE DEF y
  <2>6. r.cur \in Nat
    BY <1>2
  <2> QED  BY ONLY <1>3, <2>4, <2>5, <2>6
<1>5. r.n = Len(J.image) /\ SplPages <= r.n /\ SplCount = SplPages
  BY <1>2, <1>4, LoaderInJob DEF ReadParts, SplCount
<1>6. m = SplPages
  BY <1>2, <1>3, <1>5
<1> HIDE DEF m
<1> DEFINE buf == [k \in 1 .. m |-> SplPage(k - 1)]
<1>7. r'.cur = 2 * Ppb /\ r'.cnt = SplPages /\ r'.n = r.n /\ r'.buf = buf
  BY <1>1 DEF TypeInv, ReadType
<1>8. Len(buf) = SplPages
  BY <1>3, <1>6
<1>9. FirstPage = 2 * Ppb /\ FirstOfBlock(FirstPage)
  BY <1>2, <1>4, ImagePlace
<1>10. Held(flash, r'.cur) = {} /\ Cardinality(Held(flash, r'.cur)) = 0
  <2>1. FirstPage .. r'.cur - 1 = {}
    BY <1>3, <1>7, <1>9
  <2> QED  BY <2>1, FS_EmptySet DEF Held
<1>11. /\ J' = J /\ (SplStart' <=> SplStart) /\ FirstPage' = FirstPage /\ SplCount' = SplCount
       /\ Held(flash, r.cur)' = Held(flash, r'.cur)
  BY <1>1, SameRead
<1>12. BufMatches'
  <2>1. ASSUME NEW k \in 1 .. SplCount PROVE r'.buf[k] = SplPage(k - 1)
    BY <1>5, <1>6, <1>7
  <2>2. SplCount + 1 .. r'.cnt = {}
    BY <1>3, <1>5, <1>7
  <2> QED  BY <1>1, <2>1, <2>2, SameRead
<1>13. ~LoaderFirst' /\ FirstOfBlock(r.cur)'
  BY <1>3, <1>7, <1>9 DEF LoaderFirst, FirstOfBlock
<1>14. (r.cur >= FirstPage)' /\ (Len(r.buf) = r.cnt)' /\ (r.cnt <= r.n)'
  <2>1. 2 * Ppb >= 2 * Ppb
    BY <1>3
  <2>2. (r.cur >= FirstPage)'
    BY <1>7, <1>9, <1>11, <2>1
  <2>3. (r.cnt <= r.n)'
    BY <1>5, <1>7
  <2>4. (Len(r.buf) = r.cnt)'
    BY <1>7, <1>8
  <2> QED  BY <2>2, <2>3, <2>4
<1>15. (r.cnt = SplCount + Cardinality(Held(flash, r.cur)))'
  BY <1>3, <1>5, <1>7, <1>10, <1>11
<1> QED  BY <1>1, <1>2, <1>5, <1>7, <1>11, <1>12, <1>13, <1>14, <1>15 DEF ReadParts, Reported

\* nand_read begins, and ends.
LEMMA ReadBeginsEnds ==
  ASSUME TypeInv, MarksMeanBad, ReadParts,
         HandleRead \/ (ReadEnd /\ UNCHANGED <<job, request, erasedTo>>)
  PROVE  ReadParts'
<1>1. CASE HandleRead
  <2>1. /\ request = "program" /\ request' = "read" /\ op' = "read" /\ board' = board
        /\ flash' = flash /\ job' = job /\ hit' = hit
        /\ r'.cur = J.start * Ppb /\ r'.n = Len(J.image) /\ r'.cnt = 0 /\ r'.buf = <<>>
    BY <1>1 DEF HandleRead, nand_read, NoRead
  <2>2. ~Done
    BY <2>1 DEF TypeInv
  <2>3. /\ J.start \in Nat /\ J.start * Ppb \in Nat /\ Ppb \in Nat \ {0, 1} /\ FirstOfBlock(FirstPage)
        /\ J.image \in Seq(Data)
    BY <2>2, ImagePlace, JobParts
  <2>4. /\ J' = J /\ (SplStart' <=> SplStart) /\ FirstPage' = FirstPage /\ SplCount' = SplCount
        /\ Held(flash, r.cur)' = Held(flash, r'.cur)
    BY <2>1, SameRead
  <2>5. CASE SplStart
    <3>1. J.start * Ppb = 0
      BY <2>3, <2>5 DEF SplStart
    <3> QED  BY <2>1, <2>4, <2>5, <3>1 DEF ReadParts, LoaderFirst
  <2>6. CASE ~SplStart
    <3>1. FirstPage = J.start * Ppb /\ SplCount = 0
      BY <2>6 DEF FirstPage, SplCount
    <3>2. Held(flash, r'.cur) = {} /\ Cardinality(Held(flash, r'.cur)) = 0
      <4> DEFINE y == FirstPage
      <4>1. y \in Nat /\ r'.cur = y
        BY <2>1, <2>3, <3>1
      <4> HIDE DEF y
      <4>2. y .. r'.cur - 1 = {}
        BY <4>1
      <4>3. Held(flash, r'.cur) = {}
        BY <4>2 DEF Held, y
      <4> QED  BY <4>3, FS_EmptySet
    <3>3. 1 .. SplCount = {} /\ SplCount + 1 .. r'.cnt = {}
      BY <2>1, <3>1
    <3>4. BufMatches'
      BY <2>1, <3>3, SameRead
    <3>5. Len(r'.buf) = 0 /\ Len(J.image) \in Nat
      BY <2>1, <2>3
    <3>6. ~LoaderFirst' /\ FirstOfBlock(r.cur)'
      BY <2>1, <2>3, <2>4, <2>6, <3>1 DEF LoaderFirst, FirstOfBlock
    <3>7. (r.cnt = SplCount + Cardinality(Held(flash, r.cur)))'
      BY <2>1, <2>4, <3>1, <3>2
    <3>8. (r.cur >= FirstPage)' /\ (r.cnt <= r.n)'
      BY <2>1, <2>3, <2>4, <3>1, <3>5
    <3> QED  BY <2>1, <2>4, <3>4, <3>5, <3>6, <3>7, <3>8 DEF ReadParts, Reported
  <2> QED  BY <2>5, <2>6
<1>2. CASE ReadEnd /\ UNCHANGED <<job, request, erasedTo>>
  <2>1. /\ op = "read" /\ r.cnt >= r.n /\ op' = "idle" /\ ret' = r.cur /\ r' = r /\ hit' = hit
        /\ err' = err /\ board' = board /\ flash' = flash /\ job' = job /\ request' = request
    BY <1>2 DEF ReadEnd
  <2>2. request = "read" /\ ~Done /\ r.cnt \in Nat /\ r.n \in Nat
    BY <2>1 DEF TypeInv, Serving, ReadType
  <2>3. ~LoaderFirst
    <3>1. SUFFICES ASSUME LoaderFirst PROVE FALSE
      OBVIOUS
    <3>2. r.cnt = 0 /\ r.n = Len(J.image) /\ SplStart
      BY <2>2, <3>1 DEF ReadParts, LoaderFirst
    <3> QED  BY <2>1, <2>2, <3>2, LoaderInJob
  <2>4. r.cnt = r.n
    BY <2>1, <2>2, <2>3 DEF ReadParts
  <2>5. /\ J' = J /\ (SplStart' <=> SplStart) /\ FirstPage' = FirstPage /\ SplCount' = SplCount
        /\ Held(flash, r.cur)' = Held(flash, r.cur)
        /\ \A b : BadIn(flash, b)' <=> BadIn(flash, b)
        /\ (BufMatches' <=> BufMatches)
    BY <2>1, SameRead DEF BufMatches
  <2>6. ~LoaderFirst' /\ Reported'
    <3>1. CheckedSpoilt' <=> CheckedSpoilt
      BY <2>1, <2>5 DEF CheckedSpoilt, CheckMayErr, CheckedPages, FourPages, chip
    <3> QED  BY <2>1, <2>2, <2>3, <2>5, <3>1 DEF LoaderFirst, ReadParts, Reported
  <2>7. (~FirstOfBlock(r.cur) => ~BadIn(flash, r.cur \div Ppb))'
    BY <2>1, <2>2, <2>3, <2>5 DEF ReadParts, FirstOfBlock
  <2> QED  BY <2>1, <2>2, <2>3, <2>4, <2>5, <2>6, <2>7 DEF ReadParts
<1> QED  BY <1>1, <1>2

\* Every step keeps the buffer right.
LEMMA ReadNext ==
  ASSUME ReadInv, [Next]_vars
  PROVE  ReadInv'
<1>1. TypeInv /\ TypeInv' /\ board' = board
  BY TypeInvNext, BoardKept DEF ReadInv
<1>2. SUFFICES ASSUME board.layout, MarksMeanBad PROVE ReadParts'
  BY <1>1 DEF ReadInv, MarksMeanBad, chip
<1>3. ReadParts
  BY <1>2 DEF ReadInv
<1>4. CASE Driver
  <2>1. UNCHANGED <<job, request, erasedTo>>
    BY <1>4 DEF Driver
  <2>2. CASE ReadSpl
    BY <1>1, <1>2, <1>3, <2>1, <2>2, ReadsSpl
  <2>3. CASE ReadSkip
    BY <1>1, <1>2, <1>3, <2>1, <2>3, ReadSkips
  <2>4. CASE ReadPage
    BY <1>1, <1>2, <1>3, <2>1, <2>4, ReadsPage
  <2>5. CASE ReadEnd
    BY <1>1, <1>2, <1>3, <2>1, <2>5, ReadBeginsEnds
  <2>6. CASE ~(ReadSpl \/ ReadSkip \/ ReadPage \/ ReadEnd)
    <3>1. op \in {"erase", "program", "clean"}
      BY <1>4, <2>6, OpOf DEF Driver, DriverStep
    <3>2. request # "read"
      BY <1>1, <3>1 DEF TypeInv, Serving
    <3> QED  BY <2>1, <3>2 DEF ReadParts
  <2> QED  BY <2>2, <2>3, <2>4, <2>5, <2>6
<1>5. CASE HandleRead
  BY <1>1, <1>2, <1>3, <1>5, ReadBeginsEnds
<1>6. CASE HandleErase \/ HandleProgram \/ NextJob
  <2>1. request' # "read"
    BY <1>6 DEF HandleErase, HandleProgram, NextJob
  <2> QED  BY <2>1 DEF ReadParts
<1>7. CASE Finished \/ UNCHANGED vars
  <2>1. UNCHANGED vars
    BY <1>7 DEF Finished
  <2>2. /\ board' = board /\ flash' = flash /\ job' = job /\ op' = op /\ r' = r /\ hit' = hit
        /\ err' = err /\ ret' = ret /\ request' = request
    BY <2>1 DEF vars
  <2>3. /\ J' = J /\ (SplStart' <=> SplStart) /\ FirstPage' = FirstPage /\ SplCount' = SplCount
        /\ Held(flash, r.cur)' = Held(flash, r.cur)
        /\ \A b : BadIn(flash, b)' <=> BadIn(flash, b)
        /\ (BufMatches' <=> BufMatches)
    BY <2>2, SameRead DEF BufMatches
  <2>4. (LoaderFirst' <=> LoaderFirst) /\ (Reported' <=> Reported)
    <3>1. CheckedSpoilt' <=> CheckedSpoilt
      BY <2>2, <2>3 DEF CheckedSpoilt, CheckMayErr, CheckedPages, FourPages, chip
    <3> QED  BY <2>2, <2>3, <3>1 DEF LoaderFirst, Reported
  <2>5. (~FirstOfBlock(r.cur) => ~BadIn(flash, r.cur \div Ppb))' <=>
        (~FirstOfBlock(r.cur) => ~BadIn(flash, r.cur \div Ppb))
    BY <2>2, <2>3 DEF FirstOfBlock
  <2> QED  BY <1>3, <2>2, <2>3, <2>4, <2>5 DEF ReadParts
<1> QED  BY <1>4, <1>5, <1>6, <1>7 DEF Next

\* Nothing is read at first.
LEMMA ReadInit == Init => ReadInv
<1> SUFFICES ASSUME Init PROVE ReadInv
  OBVIOUS
<1>1. request = "none"
  BY DEF Init
<1> QED  BY <1>1, TypeInvInit DEF ReadInv, ReadParts

\* Of a stored image every page read is right, or the error count says that one is not:
\* on every board and flash, whatever failed when it was written.
THEOREM ReadBackHolds == Spec => []ReadBack
<1>1. Init => ReadInv
  BY ReadInit
<1>2. ReadInv /\ [Next]_vars => ReadInv'
  BY ReadNext
<1>3. ReadInv => ReadBack
  <2> SUFFICES ASSUME ReadInv, ReadBack1, board.layout, MarksMeanBad, HoldsImage,
                      "many" \in hit => ~MayBeCleared, err # 1
               PROVE  r.buf = J.image
    BY DEF ReadBack
  <2>1. request = "read" /\ op = "idle" /\ TypeInv /\ ~Done /\ ReadParts /\ board \in Boards
    BY DEF ReadInv, ReadBack1, Busy, TypeInv
  <2>2. /\ ret = r.cur /\ r.cnt = r.n /\ r.n = Len(J.image) /\ Len(r.buf) = r.cnt
        /\ r.cnt = SplCount + Cardinality(Held(flash, r.cur)) /\ BufMatches
    <3>1. /\ ret = r.cur /\ r.cnt = r.n /\ r.n = Len(J.image) /\ Len(r.buf) = r.cnt
          /\ r.cnt = SplCount + Cardinality(Held(flash, r.cur)) /\ Reported /\ ~LoaderFirst
      BY <2>1 DEF ReadParts
    <3>2. r.cur \in Nat /\ J.start \in Nat
      BY <2>1, ImagePlace DEF TypeInv, ReadType
    <3>3. ASSUME CheckedSpoilt PROVE MayBeCleared
      <4>1. PICK b \in Nat : b >= J.start /\ b * Ppb < r.cur /\ CheckMayErr(b)
        BY <3>3 DEF CheckedSpoilt
      <4> DEFINE y == b * Ppb
      <4>2. y \in Nat /\ y < r.cur
        BY <4>1, FlashAssumptions
      <4>3. r.cur - 1 \in Nat /\ r.cur - 1 >= y
        <5> HIDE DEF y
        <5> QED  BY <3>2, <4>2
      <4>4. (r.cur - 1) \div Ppb \in Nat /\ (r.cur - 1) \div Ppb >= b
        BY <4>3, PageAtBlock, AboveBlock
      <4>5. b \in J.start .. (ret - 1) \div Ppb
        BY <3>1, <3>2, <4>1, <4>4
      <4> QED  BY <4>1, <4>5 DEF MayBeCleared
    <3>4. BufMatches
      BY <3>1, <3>3 DEF Reported, MayBeCleared
    <3> QED  BY <3>1, <3>4
  <2>3. /\ FirstPage \in Nat /\ ret \in Nat /\ SplCount \in Nat /\ J.image \in Seq(Data)
        /\ r.buf \in Seq(Data)
    BY <2>1, ImagePlace, JobParts DEF TypeInv, ReadType
  <2>4. ImagePages = Held(flash, r.cur)
    <3>1. ASSUME NEW n \in FirstPage .. ret - 1
          PROVE  IsBad(n \div Ppb) <=> BadIn(flash, n \div Ppb)
      <4>1. n \in Nat
        BY <2>3
      <4> QED  BY <2>1, <4>1, PageAtBlock, CheckedByOffset
    <3> QED  BY <2>2, <3>1 DEF ImagePages, Held, FirstPage
  <2>5. ASSUME NEW i \in 1 .. r.cnt PROVE r.buf[i] = J.image[i]
    <3>1. CASE i <= SplCount
      <4>1. i \in 1 .. SplCount /\ i - 1 \in 0 .. SplCount - 1 /\ (i - 1) + 1 = i
        BY <2>3, <3>1
      <4>2. r.buf[i] = SplPage(i - 1)
        BY <2>2, <4>1 DEF BufMatches
      <4>3. SplPage(i - 1) = J.image[(i - 1) + 1]
        BY <4>1 DEF HoldsImage
      <4> QED  BY <4>1, <4>2, <4>3
    <3>2. CASE i > SplCount
      <4>1. i \in SplCount + 1 .. r.cnt
        BY <2>3, <3>2
      <4>2. PICK n \in ImagePages : /\ Cardinality(Below(ImagePages, n)) = i - SplCount - 1
                                    /\ r.buf[i] = flash[PageAt(n)].data
        BY <2>2, <2>4, <4>1 DEF BufMatches
      <4>3. flash[PageAt(n)].data = J.image[SplCount + 1 + Cardinality(Below(ImagePages, n))]
        BY DEF HoldsImage, ImagePage, Below
      <4>4. SplCount + 1 + (i - SplCount - 1) = i
        BY <2>3
      <4> QED  BY <4>2, <4>3, <4>4
    <3> QED  BY <2>3, <3>1, <3>2
  <2> QED  BY <2>2, <2>3, <2>5
<1> QED  BY <1>1, <1>2, <1>3, PTL DEF Spec
-----------------------------------------------------------------------------
(***************************************************************************)
(* Where the code goes.  On the 4760 and the 4770 the global eccpos never  *)
(* changes; on the 4740 and the 4750 it is moved for the boot loader's     *)
(* pages and put back at the end of nand_program, but not of nand_read,    *)
(* nor before a restart.                                                   *)
(***************************************************************************)

Conf == InitialEccpos(board)
PageFailed == hit \cap {"first", "later"} # {}

\* No restart of the 4740 took the boot loader's position for that of the rest.
NotMoved ==
  ~(/\ chip = 4740 /\ PageFailed
    /\ \E i \in 1 .. job : i \in 1 .. Len(board.jobs) /\ board.jobs[i].start = 0)

\* The global eccpos.
Position4740 ==
  (chip = 4740 /\ NotMoved) =>
    /\ op \notin {"program", "clean"} => eccpos = Conf
    /\ op \in {"program", "clean"} => p.sav = Conf /\ (eccpos = Conf \/ J.start = 0)

Position4750 ==
  chip = 4750 =>
    /\ op \in {"program", "clean"} => p.sav = Conf
    /\ op = "clean" => eccpos = Conf \/ J.start = 0
    /\ request \in {"none", "erase"} => eccpos = Conf \/ LoaderReadLast
    /\ request = "refused" =>
         eccpos = Conf \/ ("usb" \in hit /\ job > 1 /\ ReadsLoader(board.jobs[job - 1]))
    /\ (request = "program" /\ ~Busy) => eccpos = Conf
    /\ request = "read" =>
         /\ r.n = Len(J.image) /\ r.cnt <= r.cur /\ r.cnt <= r.n /\ r.cur >= J.start * Ppb
         /\ \/ eccpos = Conf
            \/ J.start = 0 /\ (r.cnt < r.n \/ r.n <= SplPages)
         /\ ~Busy => r.cnt = r.n

\* The spare bytes each code covers.
SpareBytes ==
  op \in {"program", "clean"} =>
    /\ chip \in {4740, 4770} => p.per = 0
    /\ chip = 4760 => p.per = Conf \div EccCnt
    /\ chip = 4750 => \/ p.per = Conf \div EccCnt \/ LoaderReadLast
                      \/ PageFailed /\ J.start = 0

EccParts ==
  /\ chip \in {4760, 4770} => eccpos = Conf
  /\ op = "clean" => PageFailed
  /\ Position4740 /\ Position4750 /\ SpareBytes

\* The exceptions of CodeAsConfigured.
Straight ==
  /\ NotMoved
  /\ ~(/\ chip = 4750 /\ J.option # "NO_OOB"
       /\ LoaderReadLast \/ (PageFailed /\ J.start = 0))

\* Pages that are blank or have their code where it is to be.
Coded(f, S) == \A n \in S : f[PageAt(n)] = Blank \/ f[PageAt(n)].code = CodeToBe(n)

CodedParts ==
  ((op = "program" \/ Stored1) /\ ~Before /\ RoundOnce /\ InRoom(p.cur) /\ Straight)
  => Coded(flash, Held(flash, p.cur))

CodeInv ==
  /\ StoredInv
  /\ MarksMeanBad => EccParts
  /\ Orderly => CodedParts

\* Jobs are done one after the other.
LEMMA JobGrows ==
  ASSUME TypeInv, [Next]_vars
  PROVE  job \in Nat /\ job' \in {job, job + 1}
<1>1. job \in Nat
  BY BoardParts DEF TypeInv
<1>2. CASE Driver
  BY <1>1, <1>2 DEF Driver
<1>3. CASE HandleErase \/ HandleProgram \/ HandleRead \/ NextJob
  BY <1>1, <1>3 DEF HandleErase, HandleProgram, HandleRead, NextJob
<1>4. CASE Finished \/ UNCHANGED vars
  BY <1>1, <1>4 DEF Finished, vars
<1> QED  BY <1>2, <1>3, <1>4 DEF Next

\* What a session has not met now, it had not met before.
LEMMA NotMovedBefore ==
  ASSUME job \in Nat, job' \in {job, job + 1}, board' = board, hit \subseteq hit', NotMoved'
  PROVE  NotMoved
<1>1. 1 .. job \subseteq 1 .. job'
  OBVIOUS
<1>2. PageFailed => PageFailed'
  BY DEF PageFailed
<1> QED  BY <1>1, <1>2 DEF NotMoved, chip

\* What was read last stays what was read last while a job is worked on.
LEMMA LoaderReadStays ==
  ASSUME job' = job, board' = board, hit \subseteq hit', LoaderReadLast
  PROVE  LoaderReadLast'
BY DEF LoaderReadLast, ReadsLoader

\* Only a job that starts at block 0 comes to the boot loader's pages.
LEMMA BelowLoader ==
  ASSUME TypeInv, ~Done, NEW c \in Nat, c >= J.start * Ppb, c < SplPages
  PROVE  J.start = 0
<1>1. /\ J.start \in Nat /\ Ppb \in Nat \ {0, 1} /\ SplPages \in Nat \ {0} /\ 2 * SplPages <= Ppb
  BY JobParts, FlashAssumptions, DriverAssumptions
<1>2. SUFFICES ASSUME J.start # 0 PROVE FALSE
  OBVIOUS
<1>3. PICK k \in Nat : J.start = k + 1
  <2>1. J.start - 1 \in Nat /\ J.start = (J.start - 1) + 1
    BY <1>1, <1>2
  <2> QED  BY <2>1
<1>4. (k + 1) * Ppb = k * Ppb + Ppb /\ k * Ppb \in Nat
  BY <1>1
<1> DEFINE y == k * Ppb
           z == (k + 1) * Ppb
<1>5. y \in Nat /\ z = y + Ppb /\ c >= z
  BY <1>3, <1>4
<1> HIDE DEF y, z
<1> QED  BY <1>1, <1>5

\* The positions of a board.
LEMMA ConfParts ==
  ASSUME board \in Boards
  PROVE  /\ Conf \in Nat /\ (chip = 4740 => Conf = board.eccpos)
         /\ (chip = 4750 /\ MarksMeanBad) => Conf = board.eccpos
         /\ chip \in {4740, 4750, 4760, 4770}
         /\ \A f : f = board' => Conf' = InitialEccpos(f)
BY BoardParts DEF Conf, InitialEccpos, MarksMeanBad, chip, Chips

\* Steps that leave eccpos and what nand_program has of it.
LEMMA EccSame ==
  ASSUME TypeInv, EccParts, board' = board, eccpos' = eccpos, r' = r, job' = job,
         p'.sav = p.sav, p'.per = p.per, request' = request, hit \subseteq hit',
         op' = op \/ (op = "erase" /\ op' = "idle")
  PROVE  EccParts'
<1>1. job \in Nat /\ job' \in {job, job + 1}
  BY BoardParts DEF TypeInv
<1>2. /\ Conf' = Conf /\ chip' = chip /\ J' = J /\ (NotMoved' => NotMoved)
      /\ (LoaderReadLast => LoaderReadLast') /\ (PageFailed => PageFailed')
  BY <1>1, NotMovedBefore, LoaderReadStays DEF Conf, chip, J, PageFailed
<1>3. (op = "erase" => request = "erase") /\ (op' = "clean" <=> op = "clean")
      /\ (op' \in {"program", "clean"} <=> op \in {"program", "clean"})
  BY DEF TypeInv, Serving
<1>4. Position4740'
  BY <1>2, <1>3 DEF EccParts, Position4740
<1>5. Position4750'
  BY <1>2, <1>3 DEF EccParts, Position4750, Busy, ReadsLoader
<1>6. SpareBytes'
  BY <1>2, <1>3 DEF EccParts, SpareBytes
<1> QED  BY <1>2, <1>3, <1>4, <1>5, <1>6 DEF EccParts

\* Pages programmed, left out or failed.
LEMMA EccProgram ==
  ASSUME TypeInv, MarksMeanBad, EccParts, ProgramSkip \/ ProgramNothing \/ ProgramPage \/ ProgramFails,
         UNCHANGED <<job, request, erasedTo>>, hit \subseteq hit'
  PROVE  EccParts'
<1>1. /\ board' = board /\ eccpos' = EccposAt(p.cur, p.sav) /\ job' = job /\ request' = request
      /\ r' = r /\ p'.sav = p.sav /\ p'.per = p.per /\ op = "program"
      /\ op' = "program" \/ (op' = "clean" /\ PageFailed')
  <2>1. p \in ProgramType
    BY DEF TypeInv
  <2>2. CASE ProgramSkip
    BY <2>1, <2>2 DEF ProgramSkip, Programming, ProgramType
  <2>3. CASE ProgramNothing \/ ProgramPage
    BY <2>1, <2>3 DEF ProgramNothing, ProgramPage, WritesPage, ProgramChecked, Programming, ProgramType,
         OnePageOn
  <2>4. CASE ProgramFails
    BY <2>1, <2>4 DEF ProgramFails, WritesPage, ProgramChecked, Programming, PageFailed
  <2> QED  BY <2>2, <2>3, <2>4
<1>2. /\ request = "program" /\ ~Done /\ p.cur \in Nat /\ p.cur >= J.start * Ppb /\ job \in Nat
      /\ board \in Boards
  <2>1. request = "program" /\ ~Done /\ ProgramsJob /\ board \in Boards
    BY <1>1 DEF TypeInv, Serving
  <2>2. p.cur \in Nat /\ p.spage \in Nat /\ J.start * Ppb \in Nat /\ job \in Nat
    BY <2>1, ImagePlace, JobParts DEF TypeInv, ProgramType
  <2> DEFINE y == J.start * Ppb
  <2>3. y \in Nat /\ p.spage >= y /\ p.cur >= p.spage
    BY <2>1, <2>2 DEF ProgramsJob
  <2> HIDE DEF y
  <2>4. p.cur >= y
    BY <2>2, <2>3
  <2> QED  BY <2>1, <2>2, <2>4 DEF y
<1>3. p.cur < SplPages => J.start = 0
  BY <1>2, BelowLoader
<1>4. /\ Conf' = Conf /\ chip' = chip /\ J' = J /\ (NotMoved' => NotMoved)
      /\ (LoaderReadLast => LoaderReadLast') /\ (PageFailed => PageFailed')
  BY <1>1, <1>2, NotMovedBefore, LoaderReadStays DEF Conf, chip, J, PageFailed
<1>5. Position4740'
  BY <1>1, <1>3, <1>4 DEF EccParts, Position4740, EccposAt
<1>6. Position4750'
  BY <1>1, <1>2, <1>3, <1>4 DEF EccParts, Position4750, EccposAt, Busy
<1>7. SpareBytes'
  BY <1>1, <1>4 DEF EccParts, SpareBytes
<1>8. chip \in {4760, 4770} => eccpos' = Conf
  BY <1>1 DEF EccParts, EccposAt
<1> QED  BY <1>1, <1>4, <1>5, <1>6, <1>7, <1>8 DEF EccParts

\* nand_program begins, begins again and ends.
LEMMA EccBegins ==
  ASSUME TypeInv, MarksMeanBad, EccParts, job' = job, board' = board, hit \subseteq hit',
         \/ HandleProgram
         \/ (CleanEnd \/ ProgramEnd) /\ UNCHANGED <<job, request, erasedTo>>
  PROVE  EccParts'
<1>1. board \in Boards /\ job \in Nat
  BY BoardParts DEF TypeInv
<1>2. /\ Conf' = Conf /\ chip' = chip /\ J' = J /\ (NotMoved' => NotMoved)
      /\ (LoaderReadLast => LoaderReadLast') /\ (PageFailed => PageFailed')
  BY <1>1, NotMovedBefore, LoaderReadStays DEF Conf, chip, J, PageFailed
<1>3. /\ Conf \in Nat /\ (chip = 4740 => Conf = board.eccpos) /\ (chip = 4750 => Conf = board.eccpos)
      /\ chip \in {4740, 4750, 4760, 4770}
  BY <1>1, ConfParts
<1>4. CASE HandleProgram /\ request' = "program"
  <2>1. /\ op' = "program" /\ eccpos' = eccpos /\ ~Busy /\ request = "erase"
        /\ p' = RestartAt([NoProgram EXCEPT !.image = J.image, !.option = J.option], J.start * Ppb)
    BY <1>4 DEF HandleProgram, nand_program, CrcMatches
  <2>2. /\ p'.sav = IF chip = 4740 THEN eccpos ELSE board.eccpos
        /\ p'.per = IF chip \in {4750, 4760} THEN eccpos \div EccCnt ELSE 0
    BY <2>1 DEF RestartAt, NoProgram
  <2>3. Position4740'
    BY <1>2, <1>3, <2>1, <2>2 DEF EccParts, Position4740, Busy
  <2>4. Position4750'
    BY <1>2, <1>3, <1>4, <2>1, <2>2 DEF EccParts, Position4750, Busy
  <2>5. SpareBytes'
    BY <1>2, <1>3, <2>1, <2>2 DEF EccParts, Position4750, SpareBytes
  <2> QED  BY <1>2, <2>1, <2>3, <2>4, <2>5 DEF EccParts
<1>5. CASE HandleProgram /\ request' # "program"
  <2>1. /\ request' = "refused" /\ op' = op /\ eccpos' = eccpos /\ ~Busy /\ request = "erase"
        /\ "usb" \notin hit /\ hit' = hit \cup {"usb"}
    BY <1>5 DEF HandleProgram, MayFail, CrcMatches
  <2>2. Position4740'
    BY <1>2, <2>1 DEF EccParts, Position4740, Busy
  <2>3. Position4750'
    BY <1>2, <2>1 DEF EccParts, Position4750, Busy, LoaderReadLast
  <2> QED  BY <1>2, <2>1, <2>2, <2>3 DEF EccParts, SpareBytes, Busy
<1>6. CASE ProgramEnd /\ UNCHANGED <<job, request, erasedTo>>
  <2>1. /\ op = "program" /\ op' = "idle" /\ request' = request
        /\ eccpos' = IF chip \in {4740, 4750} THEN p.sav ELSE eccpos
    BY <1>6 DEF ProgramEnd
  <2>2. request = "program"
    BY <2>1 DEF TypeInv, Serving
  <2>3. Position4740'
    BY <1>2, <2>1 DEF EccParts, Position4740
  <2>4. Position4750'
    BY <1>2, <2>1, <2>2 DEF EccParts, Position4750
  <2> QED  BY <1>2, <2>1, <2>3, <2>4 DEF EccParts, SpareBytes
<1>7. CASE CleanEnd /\ UNCHANGED <<job, request, erasedTo>>
  <2>1. /\ op = "clean" /\ eccpos' = eccpos /\ request' = request
        /\ chip = 4760 => op' = "idle"
        /\ chip # 4760 => op' = "program" /\ p' = RestartAt(p, p.spage + Ppb)
    BY <1>7 DEF CleanEnd
  <2>2. request = "program" /\ ~Done /\ p \in ProgramType
    BY <2>1 DEF TypeInv, Serving
  <2>3. chip # 4760 => /\ p'.sav = IF chip = 4740 THEN eccpos ELSE board.eccpos
                       /\ p'.per = IF chip \in {4750, 4760} THEN eccpos \div EccCnt ELSE 0
    <3> DEFINE sav == IF chip = 4740 THEN eccpos ELSE board.eccpos
               per == IF chip \in {4750, 4760} THEN eccpos \div EccCnt ELSE 0
    <3> SUFFICES ASSUME chip # 4760 PROVE p'.sav = sav /\ p'.per = per
      OBVIOUS
    <3>1. p' = [p EXCEPT !.spage = p.spage + Ppb, !.cur = p.spage + Ppb, !.i = 0,
                         !.sav = sav, !.per = per]
      BY <2>1 DEF RestartAt
    <3> HIDE DEF sav, per
    <3>2. p'.sav = sav /\ p'.per = per
      BY <2>2, <3>1 DEF ProgramType
    <3> QED  BY <3>2
  <2>4. PageFailed
    BY <2>1 DEF EccParts
  <2>5. (chip = 4740 /\ NotMoved) => J.start # 0
    <3>1. job \in 1 .. Len(board.jobs) /\ job \in 1 .. job
      BY <2>2, JobParts
    <3> QED  BY <2>4, <3>1 DEF NotMoved, J
  <2>6. Position4740'
    BY <1>2, <2>1, <2>3, <2>5 DEF EccParts, Position4740
  <2>7. Position4750'
    BY <1>2, <1>3, <2>1, <2>2, <2>3 DEF EccParts, Position4750, Busy
  <2>8. SpareBytes'
    BY <1>2, <1>3, <2>1, <2>3, <2>4 DEF EccParts, Position4750, SpareBytes
  <2>9. op' # "clean"
    BY <1>3, <2>1
  <2> QED  BY <1>2, <2>1, <2>6, <2>7, <2>8, <2>9 DEF EccParts
<1> QED  BY <1>4, <1>5, <1>6, <1>7

\* nand_read moves eccpos and leaves it where it is; the host goes on.
LEMMA EccReads ==
  ASSUME TypeInv, MarksMeanBad, EccParts, board' = board, hit \subseteq hit', job' \in {job, job + 1},
         \/ (ReadSkip \/ ReadPage \/ ReadEnd) /\ UNCHANGED <<job, request, erasedTo>>
         \/ HandleErase \/ HandleRead \/ NextJob
  PROVE  EccParts'
<1>1. board \in Boards /\ job \in Nat /\ r \in ReadType
  BY BoardParts DEF TypeInv
<1>2. /\ Conf' = Conf /\ chip' = chip /\ (NotMoved' => NotMoved) /\ (PageFailed => PageFailed')
  BY <1>1, NotMovedBefore DEF Conf, chip, PageFailed
<1>3. /\ Conf \in Nat /\ (chip = 4740 => Conf = board.eccpos) /\ (chip = 4750 => Conf = board.eccpos)
      /\ chip \in {4740, 4750, 4760, 4770}
  BY <1>1, ConfParts
<1>4. r.cur \in Nat /\ r.cnt \in Nat /\ r.n \in Nat
  BY <1>1 DEF ReadType
<1>5. CASE (ReadSkip \/ ReadPage) /\ UNCHANGED <<job, request, erasedTo>>
  <2>1. /\ op = "read" /\ op' = "read" /\ r.cnt < r.n /\ eccpos' = ReadEccpos /\ request' = request
        /\ J' = J
    BY <1>5 DEF ReadSkip, ReadPage, Reading, J
  <2>2. request = "read" /\ ~Done
    BY <2>1 DEF TypeInv, Serving
  <2>3. /\ r'.n = r.n /\ r'.cur \in Nat
        /\ \/ r'.cnt = r.cnt /\ r'.cur >= r.cur
           \/ r'.cnt = r.cnt + 1 /\ r'.cur = r.cur + 1
    <3>1. CASE ReadSkip
      <4>1. r'.n = r.n /\ r'.cnt = r.cnt /\ r'.cur = r.cur + Ppb
        BY <1>1, <3>1 DEF ReadSkip, ReadType
      <4> QED  BY <1>4, <4>1, FlashAssumptions
    <3>2. CASE ReadPage
      <4>1. \E data : r' = [r EXCEPT !.cur = @ + 1, !.cnt = @ + 1, !.buf = Append(@, data)]
        BY <3>2 DEF ReadPage
      <4>2. r'.n = r.n /\ r'.cnt = r.cnt + 1 /\ r'.cur = r.cur + 1
        BY <1>1, <4>1 DEF ReadType
      <4> QED  BY <1>4, <4>2
    <3> QED  BY <1>5, <3>1, <3>2
  <2>4. ASSUME chip = 4750 PROVE Position4750'
    <3>1. /\ r.n = Len(J.image) /\ r.cnt <= r.cur /\ r.cnt <= r.n /\ r.cur >= J.start * Ppb
      BY <2>2, <2>4 DEF EccParts, Position4750
    <3>2. /\ r'.n = Len(J.image) /\ r'.cnt <= r'.cur /\ r'.cnt <= r'.n /\ r'.cnt \in Nat
      BY <1>4, <2>1, <2>3, <3>1
    <3>3. r'.cur >= J.start * Ppb
      <4> DEFINE y == J.start * Ppb
      <4>1. y \in Nat /\ r.cur >= y
        BY <2>2, <3>1, ImagePlace
      <4> HIDE DEF y
      <4>2. r'.cur >= y
        BY <1>4, <2>3, <4>1
      <4> QED  BY <4>2 DEF y
    <3>4. eccpos' = IF r.cur < SplPages THEN 3 ELSE Conf
      <4>1. eccpos' = EccposAt(r.cur, Conf)
        BY <1>3, <2>1, <2>4 DEF ReadEccpos
      <4>2. ~(chip = 4740) /\ chip \in {4740, 4750}
        BY <2>4
      <4> QED  BY <2>4, <4>1, <4>2 DEF EccposAt
    <3>5. r.cur < SplPages => J.start = 0 /\ (r'.cnt < r'.n \/ r'.n <= SplPages)
      <4>1. ASSUME r.cur < SplPages PROVE J.start = 0
        BY <1>4, <2>2, <3>1, <4>1, BelowLoader
      <4>2. ASSUME r.cur < SplPages, ~(r'.cnt < r'.n) PROVE r'.n <= SplPages
        <5>1. SplPages \in Nat
          BY DriverAssumptions
        <5> QED  BY <1>4, <2>1, <2>3, <3>1, <3>2, <4>2, <5>1
      <4> QED  BY <4>1, <4>2
    <3> QED  BY <1>2, <2>1, <2>2, <3>2, <3>3, <3>4, <3>5 DEF Position4750, Busy
  <2>5. Position4740'
    BY <1>2, <2>1 DEF EccParts, Position4740, ReadEccpos
  <2>6. chip \in {4760, 4770} => eccpos' = Conf
    BY <2>1 DEF EccParts, ReadEccpos
  <2>7. Position4750'
    BY <1>2, <2>4 DEF Position4750
  <2> QED  BY <1>2, <2>1, <2>5, <2>6, <2>7 DEF EccParts, SpareBytes
<1>6. CASE ReadEnd /\ UNCHANGED <<job, request, erasedTo>>
  <2>1. /\ op = "read" /\ op' = "idle" /\ r.cnt >= r.n /\ eccpos' = eccpos /\ request' = request
        /\ r' = r /\ J' = J
    BY <1>6 DEF ReadEnd, J
  <2>2. request = "read"
    BY <2>1 DEF TypeInv, Serving
  <2>3. Position4750'
    BY <1>2, <1>4, <2>1, <2>2 DEF EccParts, Position4750
  <2>4. Position4740'
    BY <1>2, <2>1 DEF EccParts, Position4740
  <2> QED  BY <1>2, <2>1, <2>3, <2>4 DEF EccParts, SpareBytes
<1>7. CASE HandleErase
  <2>1. /\ ~Busy /\ request = "none" /\ request' = "erase" /\ op' = "erase" /\ eccpos' = eccpos
        /\ job' = job
    BY <1>7 DEF HandleErase, nand_erase
  <2>2. LoaderReadLast => LoaderReadLast'
    BY <2>1, LoaderReadStays
  <2>3. Position4740' /\ Position4750'
    BY <1>2, <2>1, <2>2 DEF EccParts, Position4740, Position4750, Busy
  <2> QED  BY <1>2, <2>1, <2>3 DEF EccParts, SpareBytes
<1>8. CASE HandleRead
  <2>1. /\ ~Busy /\ request = "program" /\ request' = "read" /\ op' = "read" /\ eccpos' = eccpos
        /\ r'.cur = J.start * Ppb /\ r'.n = Len(J.image) /\ r'.cnt = 0 /\ J' = J
    BY <1>8 DEF HandleRead, nand_read, NoRead, J
  <2>2. ~Done
    BY <2>1 DEF TypeInv
  <2>3. r'.cnt <= r'.cur /\ r'.cnt <= r'.n /\ r'.cur >= J.start * Ppb
    <3>1. J.start * Ppb \in Nat /\ Len(J.image) \in Nat
      BY <2>2, ImagePlace, JobParts
    <3> DEFINE y == J.start * Ppb
    <3>2. y \in Nat /\ r'.cur = y
      BY <2>1, <3>1
    <3> HIDE DEF y
    <3>3. r'.cnt <= r'.cur /\ r'.cnt <= r'.n /\ r'.cur >= y
      BY <2>1, <3>1, <3>2
    <3> QED  BY <3>3 DEF y
  <2>4. Position4740' /\ Position4750'
    BY <1>2, <2>1, <2>3 DEF EccParts, Position4740, Position4750, Busy
  <2> QED  BY <1>2, <2>1, <2>4 DEF EccParts, SpareBytes
<1>9. CASE NextJob
  <2>1. /\ ~Busy /\ request' = "none" /\ op' = op /\ eccpos' = eccpos /\ job' = job + 1 /\ hit' = hit
        /\ request \in {"program", "refused", "read"}
    BY <1>9 DEF NextJob
  <2>2. ~Done
    BY <2>1 DEF TypeInv
  <2>3. job \in Nat \ {0} /\ job' - 1 = job /\ job' - 2 = job - 1 /\ job' > 1
        /\ (job > 1 => job' > 2)
    BY <2>1, <2>2, JobParts
  <2>4. ASSUME chip = 4750 PROVE eccpos = Conf \/ LoaderReadLast'
    <3>1. CASE request = "program"
      BY <2>1, <2>4, <3>1 DEF EccParts, Position4750
    <3>2. CASE request = "refused"
      <4>1. eccpos = Conf \/ ("usb" \in hit /\ job > 1 /\ ReadsLoader(board.jobs[job - 1]))
        BY <2>4, <3>2 DEF EccParts, Position4750
      <4>2. CASE "usb" \in hit /\ job > 1 /\ ReadsLoader(board.jobs[job - 1])
        <5>1. /\ job' > 2 /\ "usb" \in hit' /\ board'.jobs[job' - 2] = board.jobs[job - 1]
          BY <2>1, <2>3, <4>2
        <5>2. ReadsLoader(board'.jobs[job' - 2])
          BY <4>2, <5>1
        <5> QED  BY <5>1, <5>2 DEF LoaderReadLast, ReadsLoader
      <4> QED  BY <4>1, <4>2
    <3>3. CASE request = "read"
      <4>1. /\ r.n = Len(J.image) /\ r.cnt = r.n
            /\ eccpos = Conf \/ (J.start = 0 /\ (r.cnt < r.n \/ r.n <= SplPages))
        BY <2>1, <2>4, <3>3 DEF EccParts, Position4750
      <4>2. eccpos = Conf \/ ReadsLoader(J)
        BY <1>4, <4>1 DEF ReadsLoader
      <4>3. CASE ReadsLoader(J)
        <5>1. board'.jobs[job' - 1] = J
          BY <2>3 DEF J
        <5> QED  BY <2>3, <4>3, <5>1 DEF LoaderReadLast, ReadsLoader
      <4> QED  BY <4>2, <4>3
    <3> QED  BY <2>1, <3>1, <3>2, <3>3
  <2>5. Position4740'
    BY <1>2, <2>1 DEF EccParts, Position4740, Busy
  <2>6. Position4750'
    BY <1>2, <2>1, <2>4 DEF Position4750, Busy
  <2> QED  BY <1>2, <2>1, <2>5, <2>6 DEF EccParts, SpareBytes, Busy
<1> QED  BY <1>5, <1>6, <1>7, <1>8, <1>9

\* Every step keeps the positions.
LEMMA EccNext ==
  ASSUME TypeInv, MarksMeanBad, EccParts, [Next]_vars
  PROVE  EccParts'
<1>1. /\ board' = board /\ hit \subseteq hit' /\ job \in Nat /\ job' \in {job, job + 1}
      /\ board \in Boards
  BY BoardKept, HitGrows, JobGrows DEF TypeInv
<1>2. CASE Driver
  <2>1. UNCHANGED <<job, request, erasedTo>>
    BY <1>2 DEF Driver
  <2>2. CASE EraseSkip \/ EraseBlock \/ EraseFails \/ EraseEnd
    <3>1. /\ eccpos' = eccpos /\ p' = p /\ r' = r
          /\ op' = op \/ (op = "erase" /\ op' = "idle")
      BY <2>2 DEF EraseSkip, EraseBlock, EraseFails, EraseEnd
    <3> QED  BY <1>1, <2>1, <3>1, EccSame
  <2>3. CASE ProgramSpl
    <3>1. eccpos' = eccpos /\ r' = r /\ op' = op /\ p'.sav = p.sav /\ p'.per = p.per
      BY <2>3 DEF ProgramSpl, TypeInv, ProgramType
    <3> QED  BY <1>1, <2>1, <3>1, EccSame
  <2>4. CASE ProgramSkip \/ ProgramNothing \/ ProgramPage \/ ProgramFails
    BY <1>1, <2>1, <2>4, EccProgram
  <2>5. CASE CleanEnd \/ ProgramEnd
    BY <1>1, <2>1, <2>5, EccBegins
  <2>6. CASE ReadSpl
    <3>1. /\ eccpos' = eccpos /\ op' = op /\ op = "read" /\ chip \in {4760, 4770}
      BY <2>6 DEF ReadSpl, Reading, SplRead, HasSplPages
    <3>2. Conf' = Conf /\ chip' = chip /\ PageFailed' = PageFailed
      BY <1>1, <2>6 DEF Conf, chip, PageFailed, ReadSpl
    <3> QED  BY <3>1, <3>2 DEF EccParts, Position4740, Position4750, SpareBytes
  <2>7. CASE ReadSkip \/ ReadPage \/ ReadEnd
    BY <1>1, <2>1, <2>7, EccReads
  <2> QED  BY <1>2, <2>2, <2>3, <2>4, <2>5, <2>6, <2>7 DEF Driver, DriverStep
<1>3. CASE HandleProgram
  <2>1. job' = job
    BY <1>3 DEF HandleProgram
  <2> QED  BY <1>1, <1>3, <2>1, EccBegins
<1>4. CASE HandleErase \/ HandleRead \/ NextJob
  BY <1>1, <1>4, EccReads
<1>5. CASE Finished \/ UNCHANGED vars
  <2>1. UNCHANGED vars
    BY <1>5 DEF Finished
  <2> QED  BY <1>1, <2>1, EccSame DEF vars
<1> QED  BY <1>2, <1>3, <1>4, <1>5 DEF Next

\* The code of a page as it is written is where it is to be.
LEMMA CodeWritten ==
  ASSUME TypeInv, MarksMeanBad, EccParts, Straight, op = "program", ~Done,
         eccpos' = EccposAt(p.cur, p.sav)
  PROVE  PageCode(eccpos', p.per, p.option) = CodeToBe(p.cur)
<1>1. /\ board \in Boards /\ ProgramsJob /\ p.option = J.option
      /\ chip \in {4740, 4750, 4760, 4770}
  BY ConfParts DEF TypeInv, ProgramsJob
<1>2. /\ chip = 4740 => p.sav = Conf
      /\ chip = 4750 => p.sav = Conf
      /\ chip \in {4760, 4770} => eccpos = Conf
  BY DEF EccParts, Position4740, Position4750, Straight
<1>3. eccpos' = CASE chip = 4740 /\ p.cur < SplPages -> 6
                  [] chip = 4750 /\ p.cur < SplPages -> 3
                  [] OTHER -> Conf
  <2>1. CASE chip = 4740
    BY <1>2, <2>1 DEF EccposAt
  <2>2. CASE chip = 4750
    BY <1>2, <2>2 DEF EccposAt
  <2>3. CASE chip \in {4760, 4770}
    BY <1>2, <2>3 DEF EccposAt
  <2> QED  BY <1>1, <2>1, <2>2, <2>3
<1>4. CASE p.option = "NO_OOB"
  BY <1>1, <1>3, <1>4 DEF CodeToBe, PageCode, Conf
<1>5. CASE p.option # "NO_OOB"
  <2>1. p.per = IF chip \in {4750, 4760} THEN Conf \div EccCnt ELSE 0
    BY <1>1, <1>5 DEF EccParts, SpareBytes, Straight
  <2> QED  BY <1>1, <1>3, <2>1 DEF CodeToBe, PageCode, Conf
<1> QED  BY <1>4, <1>5

\* One page more is coded where it is to be.
LEMMA CodedPage ==
  ASSUME TypeInv, MarksMeanBad, MarkParts, ImageParts, EccParts, board.layout, Straight,
         ProgramNothing \/ ProgramPage, RoundOnce, InRoom(p.cur + 1),
         Coded(flash, Held(flash, p.cur))
  PROVE  Coded(flash', Held(flash', p.cur + 1))
<1> DEFINE c == p.cur
           S == Held(flash, c)
<1>1. Programming /\ ~SplTurn /\ ProgramChecked
  BY DEF ProgramNothing, ProgramPage, WritesPage, ProgramChecked
<1>2. /\ ~Done /\ c \in Nat /\ c >= FirstPage /\ ~BadIn(flash, c \div Ppb)
      /\ BlankAbove(flash, c) /\ op = "program" /\ eccpos' = EccposAt(c, p.sav)
  BY <1>1, ProgramPlace DEF Programming, ProgramChecked
<1>3. /\ flash' \in [Pages -> PageValues] /\ SameMarks(flash, flash')
      /\ \A q \in Pages : q # PageAt(c) => flash'[q] = flash[q]
      /\ flash[PageAt(c)] = Blank =>
           \/ flash'[PageAt(c)] = Blank
           \/ flash'[PageAt(c)].code = PageCode(eccpos', p.per, p.option)
  BY PageGoesIn
<1>4. /\ FirstPage \in Nat /\ J.start \in Nat /\ J.start * Ppb \in Nat /\ FirstPage >= J.start * Ppb
      /\ Top \in Nat /\ erasedTo * Ppb \in Nat /\ S \in SUBSET (FirstPage .. c - 1)
  <2>1. erasedTo \in Nat /\ Ppb \in Nat
    BY FlashAssumptions DEF TypeInv
  <2> QED  BY <1>2, <2>1, ImagePlace
<1>5. c < erasedTo * Ppb /\ c < Top /\ J.start * Ppb <= c
  <2> DEFINE y == erasedTo * Ppb
             x == J.start * Ppb
  <2>1. y \in Nat /\ x \in Nat /\ c + 1 <= y /\ c + 1 <= Top /\ FirstPage >= x
    BY <1>4 DEF InRoom
  <2> HIDE DEF y, x
  <2>2. c < y /\ c < Top /\ x <= c
    BY <1>2, <1>4, <2>1
  <2> QED  BY <2>2 DEF y, x
<1>6. flash[PageAt(c)] = Blank
  <2>1. c <= c
    BY <1>2
  <2> QED  BY <1>2, <1>5, <2>1 DEF BlankAbove
<1>7. flash'[PageAt(c)] = Blank \/ flash'[PageAt(c)].code = CodeToBe(c)
  BY <1>2, <1>3, <1>6, CodeWritten
<1>8. Held(flash', c + 1) = S \cup {c}
  <2>1. Held(flash, c + 1) = S \cup {c}
    BY <1>2, HeldFurther
  <2>2. ASSUME NEW n \in FirstPage .. (c + 1) - 1
        PROVE  BadIn(flash', n \div Ppb) <=> BadIn(flash, n \div Ppb)
    <3>1. n \in Nat
      BY <1>4
    <3>2. n \div Ppb \in Nat /\ board \in Boards
      BY <3>1, PageAtBlock DEF TypeInv
    <3> QED  BY <1>3, <3>2, SameMarksSame
  <2>3. Held(flash', c + 1) = Held(flash, c + 1)
    BY <2>2 DEF Held
  <2> QED  BY <2>1, <2>3
<1>9. ASSUME NEW n \in S
      PROVE  flash'[PageAt(n)] = Blank \/ flash'[PageAt(n)].code = CodeToBe(n)
  <2>1. n \in Nat /\ n < c /\ n # c /\ n < Top /\ n >= FirstPage
    BY <1>2, <1>4, <1>5
  <2>2. J.start * Ppb <= n
    <3> DEFINE x == J.start * Ppb
    <3>1. x \in Nat /\ FirstPage >= x
      BY <1>4
    <3> HIDE DEF x
    <3>2. x <= n
      BY <1>4, <2>1, <3>1
    <3> QED  BY <3>2 DEF x
  <2>3. PageAt(n) # PageAt(c)
    BY <1>2, <1>4, <1>5, <2>1, <2>2, ApartPages DEF Top
  <2>4. PageAt(n) \in Pages
    BY <2>1, PageAtBlock DEF PagesOf
  <2>5. flash'[PageAt(n)] = flash[PageAt(n)]
    BY <1>3, <2>3, <2>4
  <2> QED  BY <2>5 DEF Coded
<1> HIDE DEF S
<1> QED  BY <1>7, <1>8, <1>9 DEF Coded

\* An image of which only the boot loader is stored holds no other page.
LEMMA NothingHeld ==
  ASSUME ~Done, TypeInv, NEW f, NEW c \in Nat, NEW i \in Nat, i <= SplCount,
         Cardinality(Held(f, c)) = i - SplCount
  PROVE  Held(f, c) = {}
<1> DEFINE S == Held(f, c)
           k == Cardinality(S)
<1>1. SplCount \in Nat /\ FirstPage \in Nat
  BY ImagePlace
<1>2. IsFiniteSet(S)
  <2>1. IsFiniteSet(FirstPage .. c - 1)
    BY <1>1, FS_Interval
  <2>2. S \subseteq FirstPage .. c - 1
    BY DEF Held
  <2> QED  BY <2>1, <2>2, FS_Subset
<1>3. k \in Nat
  BY <1>2, FS_CardinalityType
<1>4. k = i - SplCount
  OBVIOUS
<1>5. k = 0
  <2> HIDE DEF k
  <2> QED  BY <1>1, <1>3, <1>4
<1> QED  BY <1>2, <1>5, FS_EmptySet

\* What the exceptions and the pages held are, after a step of the job in work.
LEMMA CodedNow ==
  ASSUME job \in Nat, board' = board, job' = job, hit \subseteq hit'
  PROVE  /\ Straight' => Straight
         /\ Held(flash, p.cur)' = Held(flash', p'.cur) /\ SplCount' = SplCount /\ J' = J
         /\ Coded(flash, Held(flash, p.cur))' <=> Coded(flash', Held(flash', p'.cur))
         /\ erasedTo' = erasedTo => (InRoom(p.cur)' <=> InRoom(p'.cur))
         /\ p'.cur = p.cur => (Before' <=> Before)
         /\ p'.spage = p.spage /\ e' = e => (RoundOnce' <=> RoundOnce)
<1>1. J' = J /\ chip' = chip /\ (SplStart' <=> SplStart) /\ FirstPage' = FirstPage
      /\ SplCount' = SplCount /\ Top' = Top
  BY DEF J, SplStart, HasSplPages, chip, FirstPage, SplCount, Top
<1>2. Straight' => Straight
  <2>1. job' \in {job, job + 1}
    OBVIOUS
  <2>2. (NotMoved' => NotMoved) /\ (LoaderReadLast => LoaderReadLast') /\ (PageFailed => PageFailed')
    BY <2>1, NotMovedBefore, LoaderReadStays DEF PageFailed
  <2> QED  BY <1>1, <2>2 DEF Straight
<1>3. Held(flash, p.cur)' = Held(flash', p'.cur)
  BY <1>1 DEF Held, BadIn, CheckedOffsets, PageK, chip
<1>4. \A n : CodeToBe(n)' = CodeToBe(n)
  BY <1>1 DEF CodeToBe, PageCode
<1>5. Coded(flash, Held(flash, p.cur))' <=> Coded(flash', Held(flash', p'.cur))
  BY <1>3, <1>4 DEF Coded
<1>6. erasedTo' = erasedTo => (InRoom(p.cur)' <=> InRoom(p'.cur))
  BY <1>1 DEF InRoom
<1>7. /\ p'.cur = p.cur => (Before' <=> Before)
      /\ p'.spage = p.spage /\ e' = e => (RoundOnce' <=> RoundOnce)
  BY <1>1 DEF Before, RoundOnce
<1> QED  BY <1>1, <1>2, <1>3, <1>5, <1>6, <1>7

\* nand_program at the start of an image, or behind the boot loader.
LEMMA CodedNothing ==
  ASSUME TypeInv, ~Done, board' = board, job' = job, hit \subseteq hit', op' = "program",
         ImageParts', p'.cur \in Nat, p'.i \in Nat, p'.i <= SplCount
  PROVE  CodedParts'
<1>1. SUFFICES ASSUME ~Before', RoundOnce' PROVE Coded(flash, Held(flash, p.cur))'
  BY DEF CodedParts
<1>2. job \in Nat
  BY BoardParts DEF TypeInv
<1>3. Cardinality(Held(flash', p'.cur)) = p'.i - SplCount
  <2>1. Stores(flash, p.cur, p.i)'
    BY <1>1 DEF ImageParts
  <2> QED  BY <1>2, <2>1, CodedNow DEF Stores
<1>4. Held(flash', p'.cur) = {}
  BY <1>3, NothingHeld
<1> QED  BY <1>2, <1>4, CodedNow DEF Coded

\* A bad block is passed over, and a page of the image written or left blank.
LEMMA CodedPages ==
  ASSUME TypeInv, MarksMeanBad, MarkParts, ImageParts, EccParts, CodedParts, board.layout,
         ProgramSkip \/ ProgramNothing \/ ProgramPage, UNCHANGED <<job, request, erasedTo>>
  PROVE  CodedParts'
<1>1. Programming /\ ~SplTurn
  BY DEF ProgramSkip, ProgramNothing, ProgramPage, WritesPage, ProgramChecked
<1>2. /\ op = "program" /\ board' = board /\ e' = e /\ hit' = hit
      /\ job' = job /\ erasedTo' = erasedTo
  BY <1>1 DEF ProgramSkip, ProgramNothing, ProgramPage, Programming
<1>3. /\ ~Done /\ p.cur \in Nat /\ p.cur \div Ppb \in Nat /\ ~Before /\ p.cur >= FirstPage
  BY <1>1, ProgramPlace
<1>4. /\ Ppb \in Nat \ {0, 1} /\ FirstPage \in Nat /\ Top \in Nat /\ p \in ProgramType
      /\ board \in Boards /\ job \in Nat /\ erasedTo * Ppb \in Nat
  <2>1. erasedTo \in Nat /\ Ppb \in Nat
    BY FlashAssumptions DEF TypeInv
  <2> QED  BY <1>3, <2>1, ImagePlace, BoardParts DEF TypeInv
<1>5. p'.spage = p.spage /\ p'.cur = IF ProgramSkip THEN p.cur + Ppb ELSE p.cur + 1
  <2>1. CASE ProgramSkip
    BY <1>4, <2>1 DEF ProgramSkip, ProgramType
  <2>2. CASE ~ProgramSkip
    BY <1>4, <2>2 DEF ProgramNothing, ProgramPage, OnePageOn, ProgramType
  <2> QED  BY <2>1, <2>2
<1>6. SUFFICES ASSUME RoundOnce, InRoom(p'.cur), Straight
               PROVE  Coded(flash', Held(flash', p'.cur))
  BY <1>2, <1>4, <1>5, CodedNow DEF CodedParts
<1>7. InRoom(p.cur)
  <2> DEFINE y == erasedTo * Ppb
  <2>1. y \in Nat /\ p'.cur \in Nat /\ p'.cur >= p.cur
    BY <1>3, <1>4, <1>5
  <2>2. p'.cur <= y /\ p'.cur <= Top
    BY <1>6 DEF InRoom
  <2> HIDE DEF y
  <2>3. p.cur <= y /\ p.cur <= Top
    BY <1>3, <1>4, <2>1, <2>2
  <2> QED  BY <2>3 DEF InRoom, y
<1>8. Coded(flash, Held(flash, p.cur))
  BY <1>2, <1>3, <1>6, <1>7 DEF CodedParts
<1>9. CASE ProgramSkip
  <2>1. flash' = flash /\ FirstOfBlock(p.cur) /\ BadIn(flash, p.cur \div Ppb)
    BY <1>3, <1>4, <1>9, CheckedByOffset DEF ProgramSkip
  <2>2. Held(flash, p.cur + Ppb) = Held(flash, p.cur)
    BY <1>3, <2>1, SkippedHeld
  <2> QED  BY <1>5, <1>8, <1>9, <2>1, <2>2
<1>10. CASE ~ProgramSkip
  <2>1. ProgramNothing \/ ProgramPage
    BY <1>10
  <2>2. InRoom(p.cur + 1)
    BY <1>5, <1>6, <1>10
  <2>3. Coded(flash', Held(flash', p.cur + 1))
    BY <1>6, <1>8, <2>1, <2>2, CodedPage
  <2> QED  BY <1>5, <1>10, <2>3
<1> QED  BY <1>9, <1>10

\* Every step keeps where the code of the image's pages is.
LEMMA CodedNext ==
  ASSUME StoredInv, StoredInv', EccParts, CodedParts, Orderly, Orderly', [Next]_vars
  PROVE  CodedParts'
<1>1. /\ TypeInv /\ TypeInv' /\ MarksMeanBad /\ MarkParts /\ ImageParts /\ ImageParts' /\ board.layout
      /\ board' = board /\ hit \subseteq hit' /\ job \in Nat
  BY BoardKept, HitGrows, BoardParts DEF StoredInv, ErasedInv, MarkInv, Orderly, TypeInv
<1>2. ASSUME op' # "program", op' # "idle" \/ request' # "program" PROVE CodedParts'
  BY <1>2 DEF CodedParts, Stored1, Busy
<1>3. CASE Driver
  <2>1. UNCHANGED <<job, request, erasedTo>>
    BY <1>3 DEF Driver
  <2>2. CASE EraseSkip \/ EraseBlock \/ EraseFails \/ EraseEnd
    <3>1. /\ op' \in {"erase", "clean", "idle"}
          /\ op' = "idle" => op = "erase"
      BY <2>2 DEF EraseSkip, EraseBlock, EraseFails, EraseEnd, EraseChecked
    <3>2. op' = "idle" => request' # "program"
      BY <1>1, <2>1, <3>1 DEF TypeInv, Serving
    <3> QED  BY <1>2, <3>1, <3>2
  <2>3. CASE ProgramSpl
    <3>1. /\ op = "program" /\ op' = "program" /\ SplTurn
          /\ p' = [p EXCEPT !.cur = 2 * Ppb, !.i = @ + SplPages]
      BY <2>3 DEF ProgramSpl, Programming
    <3>2. ~Done /\ p \in ProgramType /\ SplPages \in Nat
      BY <1>1, <3>1, DriverAssumptions DEF TypeInv, Serving
    <3>3. SplStart /\ p.i = 0
      <4>1. J.start = 0
        BY <1>1, <2>3, LoaderWhole DEF ProgramSpl
      <4>2. Before
        BY <3>1, <4>1 DEF Before, SplStart, SplTurn
      <4> QED  BY <1>1, <3>1, <4>2 DEF ImageParts, Before
    <3>4. p'.i = SplPages /\ SplCount = SplPages /\ p'.cur \in Nat /\ p'.i <= SplCount
      <4>1. p'.i = 0 + SplPages /\ p'.cur = 2 * Ppb
        BY <3>1, <3>2, <3>3 DEF ProgramType
      <4> QED  BY <3>2, <3>3, <4>1, FlashAssumptions DEF SplCount
    <3> QED  BY <1>1, <2>1, <3>1, <3>2, <3>4, CodedNothing
  <2>4. CASE ProgramSkip \/ ProgramNothing \/ ProgramPage
    BY <1>1, <2>1, <2>4, CodedPages
  <2>5. CASE ProgramFails
    <3>1. op' = "clean"
      BY <2>5 DEF ProgramFails
    <3> QED  BY <1>2, <3>1
  <2>6. CASE CleanEnd
    <3>1. op = "clean"
      BY <2>6 DEF CleanEnd
    <3>2. CASE chip = 4760
      <4>1. op' = "idle" /\ ret' = 0
        BY <2>6, <3>2 DEF CleanEnd
      <4> QED  BY <4>1 DEF CodedParts, Stored1
    <3>3. CASE chip # 4760
      <4>1. op' = "program" /\ p' = RestartAt(p, p.spage + Ppb)
        BY <2>6, <3>3 DEF CleanEnd
      <4>2. ~Done /\ p \in ProgramType
        BY <1>1, <3>1 DEF TypeInv, Serving
      <4>3. p'.i = 0 /\ p'.cur \in Nat
        <5>1. p' \in ProgramType
          BY <1>1, <4>1 DEF TypeInv
        <5>2. p'.i = 0
          BY <4>1, <4>2 DEF RestartAt, ProgramType
        <5> QED  BY <5>1, <5>2 DEF ProgramType
      <4>4. SplCount \in Nat
        BY <1>1, <4>2, ImagePlace
      <4>5. p'.i \in Nat /\ p'.i <= SplCount
        BY <4>3, <4>4
      <4> QED  BY <1>1, <2>1, <4>1, <4>2, <4>3, <4>5, CodedNothing
    <3> QED  BY <3>2, <3>3
  <2>7. CASE ProgramEnd
    <3>1. op = "program" /\ op' = "idle" /\ flash' = flash /\ p' = p /\ e' = e
      BY <2>7 DEF ProgramEnd
    <3> QED  BY <1>1, <2>1, <3>1, CodedNow DEF CodedParts
  <2>8. CASE ReadSpl \/ ReadSkip \/ ReadPage \/ ReadEnd
    <3>1. op' \in {"read", "idle"} /\ op = "read"
      BY <2>8 DEF ReadSpl, ReadSkip, ReadPage, ReadEnd, Reading
    <3>2. request' # "program"
      BY <1>1, <2>1, <3>1 DEF TypeInv, Serving
    <3> QED  BY <1>2, <3>1, <3>2
  <2> QED  BY <1>3, <2>2, <2>3, <2>4, <2>5, <2>6, <2>7, <2>8 DEF Driver, DriverStep
<1>4. CASE HandleProgram /\ request' = "program"
  <2>1. /\ op' = "program" /\ job' = job /\ request = "erase"
        /\ p' = RestartAt([NoProgram EXCEPT !.image = J.image, !.option = J.option], J.start * Ppb)
    BY <1>4 DEF HandleProgram, nand_program, CrcMatches
  <2>2. ~Done
    BY <1>1, <2>1 DEF TypeInv
  <2>3. p'.i = 0 /\ p'.cur \in Nat
    <3>1. p'.i = 0 /\ p'.cur = J.start * Ppb
      BY <2>1 DEF RestartAt, NoProgram
    <3> QED  BY <1>1, <2>2, <3>1, ImagePlace
  <2>4. SplCount \in Nat
    BY <1>1, <2>2, ImagePlace
  <2>5. p'.i \in Nat /\ p'.i <= SplCount
    BY <2>3, <2>4
  <2> QED  BY <1>1, <2>1, <2>2, <2>3, <2>5, CodedNothing
<1>5. CASE (HandleProgram /\ request' # "program") \/ HandleErase \/ HandleRead \/ NextJob
  <2>1. op' # "program" /\ request' # "program"
    BY <1>5 DEF HandleProgram, HandleErase, HandleRead, NextJob, nand_erase, nand_read, Busy
  <2> QED  BY <1>2, <2>1
<1>6. CASE Finished \/ UNCHANGED vars
  <2>1. UNCHANGED vars
    BY <1>6 DEF Finished
  <2>2. /\ board' = board /\ job' = job /\ erasedTo' = erasedTo /\ op' = op /\ ret' = ret
        /\ request' = request /\ flash' = flash /\ p' = p /\ e' = e
    BY <2>1 DEF vars
  <2>3. Stored1' <=> Stored1
    BY <2>2 DEF Stored1, Busy
  <2> QED  BY <1>1, <2>2, <2>3, CodedNow DEF CodedParts
<1> QED  BY <1>3, <1>4, <1>5, <1>6 DEF Next

\* Nothing is written at first, and the position is the configured one.
LEMMA CodeInit == Init => CodeInv
<1> SUFFICES ASSUME Init PROVE CodeInv
  OBVIOUS
<1>1. /\ op = "idle" /\ request = "none" /\ eccpos = Conf
  BY DEF Init, DriverInit, Conf
<1>2. StoredInv
  BY StoredInit
<1>3. EccParts /\ CodedParts
  BY <1>1 DEF EccParts, Position4740, Position4750, SpareBytes, CodedParts, Stored1, Busy
<1> QED  BY <1>2, <1>3 DEF CodeInv

\* Every step keeps the positions and the pages written.
LEMMA CodeNext ==
  ASSUME CodeInv, [Next]_vars
  PROVE  CodeInv'
<1>1. StoredInv /\ StoredInv' /\ TypeInv
  BY StoredNext DEF CodeInv, StoredInv, ErasedInv, MarkInv
<1>2. board' = board /\ hit \subseteq hit'
  BY BoardKept, HitGrows
<1>3. MarksMeanBad' <=> MarksMeanBad
  BY <1>2 DEF MarksMeanBad, chip
<1>4. MarksMeanBad => EccParts'
  BY <1>1, EccNext DEF CodeInv
<1>5. Orderly' => Orderly
  BY <1>2, <1>3 DEF Orderly, StaysWritable, Repairable, chip
<1>6. Orderly' => CodedParts'
  <2> SUFFICES ASSUME Orderly' PROVE CodedParts'
    OBVIOUS
  <2>1. EccParts /\ CodedParts
    BY <1>5 DEF CodeInv, Orderly
  <2> QED  BY <1>1, <1>5, <2>1, CodedNext
<1> QED  BY <1>1, <1>3, <1>4, <1>6 DEF CodeInv

\* Where the code is: on every board the pages of a stored image have their code where
\* the configuration says, and the boot loader's where the boot ROM looks, but after the
\* sessions of a 4740 and a 4750 that CodeAsConfigured excepts.
THEOREM CodeAsConfiguredHolds == Spec => []CodeAsConfigured
<1>1. Init => CodeInv
  BY CodeInit
<1>2. CodeInv /\ [Next]_vars => CodeInv'
  BY CodeNext
<1>3. CodeInv => CodeAsConfigured
  <2> SUFFICES ASSUME CodeInv, Stored1, board.layout, hit \cap {"later", "spl"} = {},
                      RoomForImage, Repairable, MarksMeanBad,
                      ~(chip = 4740 /\ "first" \in hit /\ \E i \in 1 .. job : board.jobs[i].start = 0),
                      ~(/\ chip = 4750 /\ J.option # "NO_OOB"
                        /\ LoaderReadLast \/ ("first" \in hit /\ J.start = 0))
               PROVE  \A n \in ImagePages :
                        flash[PageAt(n)] = Blank \/ flash[PageAt(n)].code = CodeToBe(n)
    BY DEF CodeAsConfigured
  <2>1. Orderly /\ RoundOnce /\ TypeInv /\ ~Done
    BY DEF Orderly, RoomForImage, RoundOnce, CodeInv, StoredInv, ErasedInv, MarkInv, TypeInv, Stored1
  <2>2. ret = p.cur /\ ~Before
    BY <2>1 DEF CodeInv, StoredInv, ImageParts
  <2>3. InRoom(ret) /\ ImagePages = Held(flash, ret)
    BY <2>1, StoredPlace
  <2>4. Straight
    <3>1. PageFailed <=> "first" \in hit
      BY DEF PageFailed
    <3>2. NotMoved
      BY <3>1 DEF NotMoved
    <3> QED  BY <3>1, <3>2 DEF Straight
  <2>5. Coded(flash, Held(flash, ret))
    BY <2>1, <2>2, <2>3, <2>4 DEF CodeInv, CodedParts
  <2> QED  BY <2>3, <2>5 DEF Coded
<1> QED  BY <1>1, <1>2, <1>3, PTL DEF Spec
-----------------------------------------------------------------------------
(***************************************************************************)
(* What makes nand_read report an error, in the first job.  The count      *)
(* stays 0 until the driver meets a reason, and a reason that was met can  *)
(* still be seen when the image has been read: no step in between takes    *)
(* away what a check of a block takes for damaged.                         *)
(***************************************************************************)

\* A page whose first spare bytes the check of its block may take for damaged.
LooksSpoilt(pg) == pg.data = Spoilt \/ pg.bad \/ (pg.code[1] = "page" /\ pg.code[2] < 16)
SpoiltIn(f, b) == \E k \in CheckedOffsets : LooksSpoilt(f[PageK(b, k)])

\* The sessions that NoFalseAlarm is about, as long as they are.
Unprovoked ==
  /\ job = 1 /\ board.layout /\ MarksMeanBad
  /\ chip \in {4750, 4760} => ~board.full /\ ~PageFailed
  /\ chip = 4740 => J.start # 0

\* A flash on which nothing was programmed yet.
Untouched(f) ==
  \A q \in Pages :
    f[q] = Blank \/ (f[q].data = Spoilt /\ (chip \in {4750, 4760} => f[q].bad))

\* Pages that nand_read finds right if they hold the right data.
CodeFits(f, n) ==
  f[PageAt(n)] = Blank \/ f[PageAt(n)].data = Spoilt \/ f[PageAt(n)].code = CodeToBe(n)
PagesFit(f) == \A n \in Nat : (FirstPage <= n /\ n < Top) => CodeFits(f, n)

\* On the 4750 the first pages of the chip have their code elsewhere, so that the
\* place of a page's code depends on the turn.
GoneRound == chip = 4750 /\ p.cur > Top

\* The reasons, in the order they can be met: a bad block, in the erase; a block that
\* looks damaged, in the program; such a block or a page that is not right, in the read.
MetErase ==
  chip \in {4750, 4760} /\ ~e.force /\ \E b \in J.start .. e.blk - 1 : BadIn(flash, b)

\* A block up to page c that looks damaged.
MetCheck(c) ==
  /\ chip \in {4750, 4760}
  /\ \E b \in Nat : b >= J.start /\ b * Ppb <= c /\ SpoiltIn(flash, b)

MetProgram ==
  /\ chip \in {4750, 4760}
  /\ \E b \in Nat : /\ b >= J.start /\ (b < erasedTo \/ b * Ppb <= p.cur)
                    /\ SpoiltIn(flash, b)

Wrong(n) ==
  \/ n >= Top \/ flash[PageAt(n)].data = Spoilt
  \/ chip = 4770 /\ flash[PageAt(n)].data = Ff

MetRead ==
  \/ "many" \in hit \/ GoneRound \/ MetCheck(r.cur)
  \/ \E n \in Held(flash, r.cur) : Wrong(n)

AlarmParts ==
  /\ request = "none" => err = 0
  /\ request \in {"none", "erase"} => Untouched(flash)
  /\ request = "erase" => err = 0 \/ MetErase
  /\ request = "program" => err = 0 \/ MetProgram
  /\ request \in {"program", "read"} => GoneRound \/ PagesFit(flash)
  /\ request = "read" =>
       /\ r.option = J.option
       /\ r.per = IF chip \in {4750, 4760} THEN Conf \div EccCnt ELSE 0
       /\ err = 0 \/ MetProgram \/ MetRead

AlarmInv == CodeInv /\ ReadInv /\ (Unprovoked => AlarmParts)

\* What a page may become: programmed over or erased.
LEMMA OverSpoils ==
  ASSUME NEW old \in PageValues, NEW new \in PageValues
  PROVE  /\ LooksSpoilt(old) => LooksSpoilt(Over(old, new))
         /\ Over(old, new) = new \/ Over(old, new).data = Spoilt
         /\ ~LooksSpoilt(Blank)
<1>1. ~LooksSpoilt(Blank)
  BY DEF LooksSpoilt, Blank, Page, NoCode, Ff, Spoilt
<1>2. CASE old = Blank
  BY <1>1, <1>2 DEF Over
<1>3. CASE old = new
  BY <1>1, <1>3 DEF Over
<1>4. CASE old # Blank /\ old # new
  <2>1. Over(old, new) = Page(Spoilt, NoCode, old.bad \/ new.bad)
    BY <1>4 DEF Over
  <2>2. Over(old, new).data = Spoilt
    BY <2>1 DEF Page
  <2> QED  BY <1>1, <2>2 DEF LooksSpoilt
<1> QED  BY <1>1, <1>2, <1>3, <1>4

\* What the definitions are after a step of the job in work.
LEMMA AlarmNow ==
  ASSUME board' = board, job' = job
  PROVE  /\ J' = J /\ chip' = chip /\ (SplStart' <=> SplStart) /\ FirstPage' = FirstPage
         /\ Top' = Top /\ Conf' = Conf /\ (MarksMeanBad' <=> MarksMeanBad)
         /\ \A n : CodeToBe(n)' = CodeToBe(n)
         /\ \A b : SpoiltIn(flash, b)' <=> SpoiltIn(flash', b)
         /\ \A b : BadIn(flash, b)' <=> BadIn(flash', b)
         /\ Untouched(flash)' <=> Untouched(flash')
         /\ PagesFit(flash)' <=> PagesFit(flash')
         /\ Held(flash, r.cur)' = Held(flash', r'.cur)
<1>1. /\ J' = J /\ chip' = chip /\ (SplStart' <=> SplStart) /\ FirstPage' = FirstPage
      /\ Top' = Top /\ Conf' = Conf /\ (MarksMeanBad' <=> MarksMeanBad)
  BY DEF J, SplStart, HasSplPages, chip, FirstPage, Top, Conf, MarksMeanBad
<1>2. \A n : CodeToBe(n)' = CodeToBe(n)
  BY <1>1 DEF CodeToBe, PageCode
<1>3. /\ \A b : SpoiltIn(flash, b)' <=> SpoiltIn(flash', b)
      /\ \A b : BadIn(flash, b)' <=> BadIn(flash', b)
  BY <1>1 DEF SpoiltIn, BadIn, CheckedOffsets, PageK
<1>4. Untouched(flash)' <=> Untouched(flash')
  BY <1>1 DEF Untouched
<1>5. PagesFit(flash)' <=> PagesFit(flash')
  BY <1>1, <1>2 DEF PagesFit, CodeFits
<1>6. Held(flash, r.cur)' = Held(flash', r'.cur)
  BY <1>1 DEF Held, BadIn, CheckedOffsets, PageK
<1> QED  BY <1>1, <1>2, <1>3, <1>4, <1>5, <1>6

\* A session of NoFalseAlarm was one before.
LEMMA UnprovokedBefore ==
  ASSUME CodeInv, [Next]_vars, Unprovoked'
  PROVE  /\ Unprovoked /\ job' = job /\ board' = board /\ board \in Boards
         /\ TypeInv /\ TypeInv' /\ MarksMeanBad /\ MarkParts /\ EraseInv /\ EccParts
         /\ request = "erase" => e.from = J.start
         /\ op' = "clean" \/ op = "clean" => chip \in {4740, 4770}
<1>1. /\ TypeInv /\ EraseInv /\ (MarksMeanBad => MarkParts /\ EccParts)
      /\ request = "erase" => e.from = J.start
  BY DEF CodeInv, StoredInv, ErasedInv, MarkInv
<1>2. /\ board' = board /\ hit \subseteq hit' /\ job \in Nat \ {0} /\ job' \in {job, job + 1}
      /\ board \in Boards /\ TypeInv'
  BY <1>1, BoardKept, HitGrows, JobGrows, TypeInvNext DEF TypeInv
<1>3. job = 1 /\ job' = job
  BY <1>2 DEF Unprovoked
<1>4. J' = J /\ chip' = chip /\ (MarksMeanBad' <=> MarksMeanBad)
  BY <1>2, <1>3, AlarmNow
<1>5. PageFailed => PageFailed'
  BY <1>2 DEF PageFailed
<1>6. Unprovoked /\ MarksMeanBad
  BY <1>2, <1>3, <1>4, <1>5 DEF Unprovoked
<1>7. EccParts'
  BY <1>1, <1>6, EccNext
<1>8. PageFailed' => chip \in {4740, 4770}
  <2>1. chip \in {4740, 4750, 4760, 4770}
    BY <1>2, ConfParts
  <2> QED  BY <1>4, <2>1 DEF Unprovoked
<1>9. op' = "clean" \/ op = "clean" => PageFailed'
  BY <1>1, <1>5, <1>6, <1>7 DEF EccParts
<1> QED  BY <1>1, <1>2, <1>3, <1>6, <1>8, <1>9

\* In these sessions the exceptions of CodeAsConfigured do not happen.
LEMMA UnprovokedStraight ==
  ASSUME TypeInv, Unprovoked
  PROVE  Straight
<1>1. \A i \in 1 .. job : i = 1
  BY DEF Unprovoked
<1>2. NotMoved
  BY <1>1 DEF NotMoved, Unprovoked, J
<1>3. ~LoaderReadLast
  BY DEF LoaderReadLast, Unprovoked
<1> QED  BY <1>2, <1>3 DEF Straight, Unprovoked

\* When the check of a block may set the count.
LEMMA CheckSpoilt ==
  ASSUME board \in Boards, MarksMeanBad, NEW b \in Nat
  PROVE  CheckMayErr(b) <=> chip \in {4750, 4760} /\ SpoiltIn(flash, b)
<1>1. /\ CheckedPages(b) = {b * Ppb + k : k \in CheckedOffsets}
      /\ \A k \in CheckedOffsets : PageAt(b * Ppb + k) = PageK(b, k)
  BY CheckedAt
<1>2. CheckMayErr(b) <=> /\ chip \in {4750, 4760}
                         /\ \E n \in CheckedPages(b) : LooksSpoilt(flash[PageAt(n)])
  BY DEF CheckMayErr, LooksSpoilt
<1>3. (\E n \in CheckedPages(b) : LooksSpoilt(flash[PageAt(n)])) <=> SpoiltIn(flash, b)
  BY <1>1 DEF SpoiltIn
<1> QED  BY <1>2, <1>3

\* The count after the check of the block that starts at page c.
LEMMA CountAfter ==
  ASSUME board \in Boards, MarksMeanBad, NEW c \in Nat, FirstOfBlock(c),
         c >= J.start * Ppb, J.start \in Nat
  PROVE  \A x \in ErrAfterCheck(c \div Ppb) : x = err \/ MetCheck(c)
<1> SUFFICES ASSUME NEW x \in ErrAfterCheck(c \div Ppb) PROVE x = err \/ MetCheck(c)
  OBVIOUS
<1> DEFINE b == c \div Ppb
<1>1. b \in Nat /\ (c >= J.start * Ppb => b >= J.start)
  BY PageAtBlock, AboveBlock
<1>2. c = b * Ppb
  <2>1. Ppb \in Nat \ {0} /\ c % Ppb = 0
    BY FlashAssumptions DEF FirstOfBlock
  <2>2. c = b * Ppb + (c % Ppb)
    BY <2>1, Division
  <2> DEFINE y == b * Ppb
  <2>3. y \in Nat
    BY <1>1, <2>1
  <2> HIDE DEF b, y
  <2>4. c = y
    BY <2>1, <2>2, <2>3 DEF y
  <2> QED  BY <2>4 DEF y
<1>3. x = err \/ CheckMayErr(b)
  BY DEF ErrAfterCheck
<1>4. CheckMayErr(b) <=> chip \in {4750, 4760} /\ SpoiltIn(flash, b)
  BY <1>1, CheckSpoilt
<1>5. b * Ppb <= c
  BY <1>2
<1> HIDE DEF b
<1> QED  BY <1>1, <1>3, <1>4, <1>5 DEF MetCheck

\* What looks damaged keeps looking so under the programs that follow.
LEMMA SpoiltStays ==
  ASSUME board \in Boards, MarksMeanBad, NEW f, NEW g,
         \A q \in Pages : LooksSpoilt(f[q]) => LooksSpoilt(g[q])
  PROVE  \A b \in Nat : SpoiltIn(f, b) => SpoiltIn(g, b)
BY OffsetsMeet, PageKAt DEF SpoiltIn

\* Pages that are erased or spoilt fit.
Lost(f, g) == \A q \in Pages : g[q] = f[q] \/ g[q] = Blank \/ g[q].data = Spoilt

LEMMA PagesStay ==
  ASSUME NEW f, NEW g, PagesFit(f), Lost(f, g)
  PROVE  PagesFit(g)
<1>1. \A n \in Nat : PageAt(n) \in Pages
  BY PageAtBlock DEF PagesOf
<1> QED  BY <1>1 DEF PagesFit, CodeFits, Lost

\* Marking makes pages spoilt, and erasing makes them blank.
LEMMA MarkedPagesSpoilt ==
  ASSUME NEW f \in [Pages -> PageValues], NEW blks
  PROVE  \A q \in Pages : \/ MarkedBad(f, blks)[q] = f[q]
                          \/ MarkedBad(f, blks)[q].data = Spoilt /\ MarkedBad(f, blks)[q].bad
<1> DEFINE marked == {PageAt(n) : n \in UNION {MarkedPages(b) : b \in blks}}
           g == MarkedBad(f, blks)
<1>1. \A q \in Pages : g[q] = IF q \in marked THEN Over(f[q], Zeros) ELSE f[q]
  BY DEF MarkedBad
<1> HIDE DEF marked, g
<1>2. ASSUME NEW q \in Pages
      PROVE  Over(f[q], Zeros).data = Spoilt /\ Over(f[q], Zeros).bad
  <2>1. f[q] \in PageValues /\ Zeros \in PageValues
    BY PageTypes
  <2>2. Zeros.data = Spoilt
    BY DEF Zeros, Page
  <2>3. Over(f[q], Zeros) = Zeros \/ Over(f[q], Zeros).data = Spoilt
    BY <2>1, OverSpoils
  <2> QED  BY <2>1, <2>2, <2>3, OverBad
<1>3. \A q \in Pages : g[q] = f[q] \/ (g[q].data = Spoilt /\ g[q].bad)
  BY <1>1, <1>2
<1> QED  BY <1>3 DEF g

\* The reason of the erase is still there.
LEMMA MetEraseStays ==
  ASSUME board' = board, job' = job, e.blk \in Nat, e'.blk \in {e.blk, e.blk + 1},
         J.start \in Nat, e'.force = e.force, MetErase,
         \A b \in Nat : (BadIn(flash, b) /\ ~e.force) => BadIn(flash', b)
  PROVE  MetErase'
<1>1. PICK b \in J.start .. e.blk - 1 : BadIn(flash, b)
  BY DEF MetErase
<1>2. b \in Nat /\ b \in J.start .. e'.blk - 1
  OBVIOUS
<1>3. BadIn(flash', b)
  BY <1>1, <1>2 DEF MetErase
<1> QED  BY <1>2, <1>3, AlarmNow DEF MetErase

\* nand_erase counts nothing but bad blocks, and leaves them as they are.
LEMMA AlarmErase ==
  ASSUME TypeInv, MarksMeanBad, EraseInv, AlarmParts, e.from = J.start, op = "erase",
         board' = board, job' = job, request' = request, ~Done,
         EraseSkip \/ EraseBlock \/ EraseFails \/ EraseEnd
  PROVE  AlarmParts'
<1>1. /\ request = "erase" /\ board \in Boards /\ flash \in [Pages -> PageValues]
      /\ err \in {0, 1} /\ e \in EraseType /\ EraseLoop /\ J.start \in Nat
  BY ImagePlace DEF TypeInv, Serving, EraseInv
<1>2. /\ e.blk \in Nat /\ J.start <= e.blk /\ e.failed \in SUBSET Nat /\ e.force \in BOOLEAN
  BY <1>1 DEF EraseType, EraseLoop
<1>3. Untouched(flash) /\ (err = 0 \/ MetErase)
  BY <1>1 DEF AlarmParts
<1>4. SUFFICES Untouched(flash') /\ (err' = 0 \/ MetErase')
  BY <1>1, AlarmNow DEF AlarmParts
<1>5. IsBad(e.blk) <=> BadIn(flash, e.blk)
  BY <1>1, <1>2, CheckedByOffset
<1>6. CASE EraseSkip
  <2>1. /\ flash' = flash /\ ~e.force /\ BadIn(flash, e.blk) /\ e' = PassedOver(e)
        /\ err' \in ErrAfterCheck(e.blk)
    BY <1>5, <1>6 DEF EraseSkip
  <2>2. e'.blk = e.blk + 1 /\ e'.force = e.force
    BY <1>1, <2>1 DEF PassedOver, EraseType
  <2>3. err' = err \/ chip \in {4750, 4760}
    BY <2>1 DEF ErrAfterCheck, CheckMayErr
  <2>4. chip \in {4750, 4760} => MetErase'
    <3>1. e.blk \in J.start .. e'.blk - 1
      BY <1>1, <1>2, <2>2
    <3> QED  BY <2>1, <2>2, <3>1, AlarmNow DEF MetErase
  <2> QED  BY <1>3, <2>1, <2>3, <2>4 DEF MetErase
<1>7. CASE EraseBlock \/ EraseFails
  <2>1. EraseChecked
    BY <1>7 DEF EraseBlock, EraseFails
  <2>2. err' = err
    <3>1. CASE e.force
      BY <2>1, <3>1 DEF EraseChecked
    <3>2. CASE ~e.force
      <4>1. ~BadIn(flash, e.blk) /\ err' \in ErrAfterCheck(e.blk)
        BY <1>5, <2>1, <3>2 DEF EraseChecked
      <4>2. CASE chip \in {4750, 4760}
        <5>1. \A k \in CheckedOffsets : ~LooksSpoilt(flash[PageK(e.blk, k)])
          <6> SUFFICES ASSUME NEW k \in CheckedOffsets PROVE ~LooksSpoilt(flash[PageK(e.blk, k)])
            OBVIOUS
          <6>1. PageK(e.blk, k) \in Pages
            BY <1>1, <1>2, CheckedAt
          <6>2. flash[PageK(e.blk, k)] = Blank
            BY <1>3, <4>1, <4>2, <6>1 DEF Untouched, BadIn
          <6> QED  BY <6>2, PageTypes, OverSpoils
        <5>2. ~CheckMayErr(e.blk)
          BY <1>1, <1>2, <5>1, CheckSpoilt DEF SpoiltIn
        <5> QED  BY <4>1, <5>2 DEF ErrAfterCheck
      <4>3. CASE chip \notin {4750, 4760}
        BY <4>1, <4>3 DEF ErrAfterCheck, CheckMayErr
      <4> QED  BY <4>2, <4>3
    <3> QED  BY <1>2, <3>1, <3>2
  <2>3. e'.blk = e.blk + 1 /\ e'.force = e.force
    <3>1. PassedOver(e).blk = e.blk + 1 /\ PassedOver(e).force = e.force /\ PassedOver(e) \in EraseType
      BY <1>1, <2>1, PassedOverKeeps DEF PassedOver, EraseType, EraseChecked
    <3>2. CASE EraseBlock
      BY <1>1, <3>2 DEF EraseBlock, EraseType
    <3>3. CASE EraseFails /\ chip = 4770
      <4> DEFINE x == PassedOver(e)
      <4>1. e' = [x EXCEPT !.failed = @ \cup {e.blk}]
        BY <3>3 DEF EraseFails
      <4> HIDE DEF x
      <4>2. x \in EraseType => e'.blk = x.blk /\ e'.force = x.force
        BY <4>1 DEF EraseType
      <4> QED  BY <3>1, <4>2 DEF x
    <3>4. CASE EraseFails /\ chip # 4770
      <4>1. e' = PassedOver(e)
        BY <3>4 DEF EraseFails
      <4> QED  BY <3>1, <4>1
    <3> QED  BY <1>7, <3>2, <3>3, <3>4
  <2>4. CASE EraseBlock
    <3>1. flash' = flash \/ flash' = Erased(flash, e.blk)
      BY <2>4 DEF EraseBlock
    <3>2. Untouched(flash')
      BY <1>3, <3>1 DEF Untouched, Erased
    <3>3. ASSUME NEW b \in Nat, BadIn(flash, b), ~e.force PROVE BadIn(flash', b)
      <4>1. ~BadIn(flash, e.blk)
        BY <1>5, <2>1, <3>3 DEF EraseChecked
      <4>2. BlockAt(b) # BlockAt(e.blk)
        BY <3>3, <4>1 DEF BadIn, PageK
      <4>3. \A q \in PagesOf(b) : q \in Pages /\ q \notin PagesOf(e.blk)
        BY <1>2, <4>2, SameBlock, OwnPages
      <4>4. PICK k \in CheckedOffsets : flash[PageK(b, k)].bad
        BY <3>3 DEF BadIn
      <4>5. PageK(b, k) \in PagesOf(b)
        BY <1>1, OffsetsMeet, PageKAt
      <4>6. flash'[PageK(b, k)] = flash[PageK(b, k)]
        BY <3>1, <4>3, <4>5 DEF Erased
      <4> QED  BY <4>4, <4>6 DEF BadIn
    <3> QED  BY <1>1, <1>2, <1>3, <2>2, <2>3, <3>2, <3>3, MetEraseStays
  <2>5. CASE EraseFails
    <3>1. flash' = flash \/ flash' = MarkedBad(flash, {e.blk})
      <4>1. CASE chip = 4770
        BY <2>5, <4>1 DEF EraseFails
      <4>2. CASE chip # 4770
        BY <2>5, <4>2 DEF EraseFails
      <4> QED  BY <4>1, <4>2
    <3>2. /\ \A q \in Pages : flash'[q] = flash[q] \/ (flash'[q].data = Spoilt /\ flash'[q].bad)
          /\ \A q \in Pages : flash[q].bad => flash'[q].bad
      <4>1. {e.blk} \in SUBSET Nat
        BY <1>2
      <4> QED  BY <1>1, <3>1, <4>1, MarkedPagesSpoilt, MarkedMarks
    <3>3. Untouched(flash')
      BY <1>3, <3>2 DEF Untouched
    <3>4. \A b \in Nat : BadIn(flash, b) => BadIn(flash', b)
      BY <1>1, <3>2, CheckedAt DEF BadIn
    <3> QED  BY <1>1, <1>2, <1>3, <2>2, <2>3, <3>3, <3>4, MetEraseStays
  <2> QED  BY <1>7, <2>4, <2>5
<1>8. CASE EraseEnd
  <2>1. e' = e /\ err' = err /\ flash' = MarkedBad(flash, e.failed)
    BY <1>8 DEF EraseEnd
  <2>2. /\ \A q \in Pages : flash'[q] = flash[q] \/ (flash'[q].data = Spoilt /\ flash'[q].bad)
        /\ \A q \in Pages : flash[q].bad => flash'[q].bad
    BY <1>1, <1>2, <2>1, MarkedPagesSpoilt, MarkedMarks
  <2>3. Untouched(flash')
    BY <1>3, <2>2 DEF Untouched
  <2>4. \A b \in Nat : BadIn(flash, b) => BadIn(flash', b)
    BY <1>1, <2>2, CheckedAt DEF BadIn
  <2> QED  BY <1>1, <1>2, <1>3, <2>1, <2>3, <2>4, MetEraseStays
<1> QED  BY <1>6, <1>7, <1>8

\* But on the 4750 all pages of an image have their code at the same place.
LEMMA CodeAlike ==
  ASSUME TypeInv, Unprovoked, ~Done, chip # 4750, NEW n \in Nat, NEW c \in Nat,
         n >= J.start * Ppb, c >= J.start * Ppb
  PROVE  CodeToBe(n) = CodeToBe(c)
<1>1. chip = 4740 => ~(n < SplPages) /\ ~(c < SplPages)
  BY BelowLoader DEF Unprovoked
<1> QED  BY <1>1 DEF CodeToBe

\* A page is written where it fits.
LEMMA PageFits ==
  ASSUME TypeInv, Unprovoked, MarksMeanBad, EccParts, ~Done, ProgramPage,
         PagesFit(flash), chip = 4750 => p.cur < Top
  PROVE  PagesFit(flash')
<1> DEFINE c == p.cur
           new == PageOf(p.image[p.i + 1], eccpos', p.per, p.option)
<1>1. /\ op = "program" /\ Programming /\ eccpos' = EccposAt(c, p.sav)
      /\ flash' = flash \/ flash' = Programmed(flash, c, new)
  BY DEF ProgramPage, WritesPage, ProgramChecked, Programming
<1>2. /\ p \in ProgramType /\ c \in Nat /\ p.sav \in Nat /\ flash \in [Pages -> PageValues]
      /\ J.start \in Nat /\ J.start * Ppb \in Nat /\ FirstPage \in Nat /\ FirstPage >= J.start * Ppb
      /\ Top \in Nat /\ ProgramsJob /\ p.spage \in Nat
  BY <1>1, ImagePlace DEF TypeInv, ProgramType
<1>3. c >= J.start * Ppb
  <2> DEFINE y == J.start * Ppb
  <2>1. y \in Nat /\ p.spage >= y /\ c >= p.spage
    BY <1>2 DEF ProgramsJob
  <2> HIDE DEF y, c
  <2>2. c >= y
    BY <1>2, <2>1
  <2> QED  BY <2>2 DEF y
<1>4. new \in PageValues /\ new.code = CodeToBe(c)
  <2>1. Straight
    BY UnprovokedStraight
  <2>2. new.code = PageCode(eccpos', p.per, p.option)
    BY DEF PageOf, Page
  <2>3. eccpos' \in Nat
    BY <1>1, <1>2, CodeTypes
  <2> QED  BY <1>1, <1>2, <2>1, <2>2, <2>3, CodeWritten, PageOfTypes
<1> HIDE DEF new
<1>5. SUFFICES ASSUME NEW n \in Nat, FirstPage <= n, n < Top
               PROVE  CodeFits(flash', n)
  BY DEF PagesFit
<1>6. CodeFits(flash, n) /\ PageAt(n) \in Pages /\ PageAt(c) \in Pages
  BY <1>2, <1>5, PageAtBlock DEF PagesFit, PagesOf
<1>7. CASE flash' = flash \/ PageAt(n) # PageAt(c)
  <2>1. flash'[PageAt(n)] = flash[PageAt(n)]
    BY <1>1, <1>2, <1>6, <1>7 DEF Programmed
  <2> QED  BY <1>6, <2>1 DEF CodeFits
<1>8. CASE flash' # flash /\ PageAt(n) = PageAt(c)
  <2>1. flash'[PageAt(n)] = Over(flash[PageAt(n)], new)
    BY <1>1, <1>2, <1>6, <1>8 DEF Programmed
  <2>2. flash'[PageAt(n)] = new \/ flash'[PageAt(n)].data = Spoilt
    BY <1>2, <1>4, <1>6, <2>1, OverSpoils
  <2>3. n >= J.start * Ppb
    <3> DEFINE y == J.start * Ppb
    <3>1. y \in Nat /\ FirstPage >= y
      BY <1>2
    <3> HIDE DEF y
    <3>2. n >= y
      BY <1>2, <1>5, <3>1
    <3> QED  BY <3>2 DEF y
  <2>4. CodeToBe(n) = CodeToBe(c)
    <3>1. CASE chip = 4750
      <4>1. n = c
        BY <1>2, <1>3, <1>5, <1>8, <2>3, <3>1, ApartPages DEF Top
      <4> QED  BY <4>1
    <3>2. CASE chip # 4750
      BY <1>2, <1>3, <2>3, <3>2, CodeAlike
    <3> QED  BY <3>1, <3>2
  <2> QED  BY <1>4, <2>2, <2>4 DEF CodeFits
<1> QED  BY <1>7, <1>8

\* What looks damaged is not put right by what is programmed over it.
LEMMA ProgramSpoils ==
  ASSUME TypeInv, Unprovoked, MarksMeanBad, ~Done, ProgramSpl \/ ProgramPage
  PROVE  \A q \in Pages : LooksSpoilt(flash[q]) => LooksSpoilt(flash'[q])
<1>1. flash \in [Pages -> PageValues] /\ p \in ProgramType /\ SplPages \in Nat \ {0}
  BY DriverAssumptions DEF TypeInv
<1>2. CASE ProgramPage
  <2> DEFINE new == PageOf(p.image[p.i + 1], eccpos', p.per, p.option)
  <2>1. /\ Programming /\ eccpos' = EccposAt(p.cur, p.sav)
        /\ flash' = flash \/ flash' = Programmed(flash, p.cur, new)
    BY <1>2 DEF ProgramPage, WritesPage, ProgramChecked
  <2>2. eccpos' \in Nat
    BY <1>1, <2>1, CodeTypes DEF ProgramType
  <2>3. new \in PageValues
    BY <1>1, <2>1, <2>2, PageOfTypes
  <2> HIDE DEF new
  <2>4. \A q \in Pages : flash'[q] = flash[q] \/ flash'[q] = Over(flash[q], new)
    BY <1>1, <2>1 DEF Programmed
  <2> QED  BY <1>1, <2>3, <2>4, OverSpoils
<1>3. CASE ProgramSpl
  <2>1. PICK failed \in SUBSET (0 .. SplPages - 1) :
          flash' = IF ~writable THEN flash ELSE
               [q \in Pages |->
                  LET k == q \div 2 IN
                  IF q >= 2 * SplPages THEN flash[q]
                  ELSE IF q % 2 = 0
                  THEN Over(flash[q], IF k \in failed THEN Old
                                      ELSE Page(p.image[k + 1], SplData, FALSE))
                  ELSE IF k \in failed THEN flash[q]
                       ELSE Over(flash[q], Page(p.image[k + 1], SplCode, FALSE))]
    BY <1>3 DEF ProgramSpl
  <2>2. \A k \in 0 .. SplPages - 1 : p.image[k + 1] \in Data
    BY <1>3, LoaderWhole DEF ProgramSpl
  <2>3. ASSUME NEW q \in Pages
        PROVE  flash'[q] = flash[q] \/ \E new \in PageValues : flash'[q] = Over(flash[q], new)
    <3>1. q \in Nat
      BY OwnPages
    <3>2. CASE ~writable \/ q >= 2 * SplPages
      BY <2>1, <3>2
    <3>3. CASE writable /\ ~(q >= 2 * SplPages)
      <4>1. q \div 2 \in 0 .. SplPages - 1
        BY <1>1, <3>1, <3>3
      <4>2. /\ Page(p.image[q \div 2 + 1], SplData, FALSE) \in PageValues
            /\ Page(p.image[q \div 2 + 1], SplCode, FALSE) \in PageValues
            /\ Old \in PageValues
        BY <2>2, <4>1, PageTypes
      <4>3. \/ flash'[q] = flash[q] \/ flash'[q] = Over(flash[q], Old)
            \/ flash'[q] = Over(flash[q], Page(p.image[q \div 2 + 1], SplData, FALSE))
            \/ flash'[q] = Over(flash[q], Page(p.image[q \div 2 + 1], SplCode, FALSE))
        BY <2>1, <3>3
      <4> QED  BY <4>2, <4>3
    <3> QED  BY <3>2, <3>3
  <2> QED  BY <1>1, <2>3, OverSpoils
<1> QED  BY <1>2, <1>3

\* The boot loader is written in front of the image's other pages.
LEMMA SplFits ==
  ASSUME TypeInv, Unprovoked, ~Done, ProgramSpl, request = "program", PagesFit(flash)
  PROVE  PagesFit(flash')
<1>1. HasSplPages /\ p.cur = 0 /\ op = "program"
  BY DEF ProgramSpl, SplTurn, Programming
<1>2. /\ p.spage \in Nat /\ J.start \in Nat /\ J.start * Ppb \in Nat /\ Ppb \in Nat \ {0, 1}
      /\ SplPages \in Nat \ {0} /\ 2 * SplPages <= Ppb /\ NBlocks \in Nat \ {0}
      /\ p.spage >= J.start * Ppb /\ p.cur >= p.spage
  BY <1>1, ImagePlace, DriverAssumptions, FlashAssumptions DEF TypeInv, ProgramType, ProgramsJob
<1>3. SplStart
  <2> DEFINE y == J.start * Ppb
  <2>1. y \in Nat /\ p.spage >= y
    BY <1>2
  <2> HIDE DEF y
  <2>2. y = 0
    BY <1>1, <1>2, <2>1
  <2>3. J.start = 0
    BY <1>2, <2>2 DEF y
  <2> QED  BY <1>1, <2>3 DEF SplStart
<1>4. FirstPage = 2 * Ppb /\ Top = NBlocks * Ppb
  BY <1>3, ImagePlace
<1>5. ASSUME NEW n \in Nat, FirstPage <= n, n < Top PROVE CodeFits(flash', n)
  <2>1. PageAt(n) = n /\ n \in Pages
    BY <1>4, <1>5, PageOfChip
  <2>2. n >= 2 * SplPages
    BY <1>2, <1>4, <1>5
  <2>3. flash'[n] = flash[n]
    BY <2>1, <2>2, SplSteps
  <2> QED  BY <1>5, <2>1, <2>3 DEF PagesFit, CodeFits
<1> QED  BY <1>5 DEF PagesFit

\* Where nand_program is.
LEMMA ProgramAbove ==
  ASSUME TypeInv, op \in {"program", "clean"}
  PROVE  /\ ~Done /\ request = "program" /\ board \in Boards /\ p \in ProgramType
         /\ p.cur \in Nat /\ J.start \in Nat /\ p.cur >= J.start * Ppb
<1>1. /\ ~Done /\ request = "program" /\ ProgramsJob /\ board \in Boards /\ p \in ProgramType
  BY DEF TypeInv, Serving
<1>2. p.cur \in Nat /\ p.spage \in Nat /\ J.start \in Nat /\ J.start * Ppb \in Nat
  BY <1>1, ImagePlace DEF ProgramType
<1> DEFINE y == J.start * Ppb
<1>3. y \in Nat /\ p.spage >= y /\ p.cur >= p.spage
  BY <1>1, <1>2 DEF ProgramsJob
<1> HIDE DEF y
<1>4. p.cur >= y
  BY <1>2, <1>3
<1> QED  BY <1>1, <1>2, <1>4 DEF y

\* What nand_program met can still be seen further on.
LEMMA MetProgramStays ==
  ASSUME board' = board, job' = job, erasedTo' = erasedTo, p.cur \in Nat, p'.cur \in Nat,
         p'.cur >= p.cur, Ppb \in Nat,
         \A b \in Nat : SpoiltIn(flash, b) => SpoiltIn(flash', b)
  PROVE  MetProgram => MetProgram'
<1> SUFFICES ASSUME MetProgram PROVE MetProgram'
  OBVIOUS
<1>1. PICK b \in Nat : /\ b >= J.start /\ (b < erasedTo \/ b * Ppb <= p.cur)
                       /\ SpoiltIn(flash, b)
  BY DEF MetProgram
<1>2. b * Ppb <= p.cur => b * Ppb <= p'.cur
  <2> DEFINE y == b * Ppb
  <2>1. y \in Nat
    OBVIOUS
  <2> HIDE DEF y
  <2>2. y <= p.cur => y <= p'.cur
    BY <2>1
  <2> QED  BY <2>2 DEF y
<1>3. /\ J' = J /\ chip' = chip /\ (SpoiltIn(flash, b)' <=> SpoiltIn(flash', b))
  BY AlarmNow
<1> QED  BY <1>1, <1>2, <1>3 DEF MetProgram

\* nand_program counts nothing but blocks that look damaged, and its pages fit.
LEMMA AlarmProgram ==
  ASSUME TypeInv, Unprovoked, MarksMeanBad, EccParts, AlarmParts,
         board' = board, job' = job, request' = request, erasedTo' = erasedTo,
         ProgramSpl \/ ProgramSkip \/ ProgramNothing \/ ProgramPage \/ ProgramEnd
  PROVE  AlarmParts'
<1>1. op = "program"
  <2>1. ProgramSpl \/ ProgramSkip => op = "program"
    BY DEF ProgramSpl, ProgramSkip, Programming
  <2>2. ProgramNothing \/ ProgramPage => op = "program"
    BY DEF ProgramNothing, ProgramPage, WritesPage, ProgramChecked, Programming
  <2>3. ProgramEnd => op = "program"
    BY DEF ProgramEnd
  <2> QED  BY <2>1, <2>2, <2>3
<1>2. /\ ~Done /\ request = "program" /\ board \in Boards /\ p \in ProgramType
      /\ p.cur \in Nat /\ J.start \in Nat /\ p.cur >= J.start * Ppb /\ Ppb \in Nat \ {0, 1}
      /\ err \in {0, 1} /\ Top \in Nat
  BY <1>1, ProgramAbove, FlashAssumptions, ImagePlace DEF TypeInv
<1>3. (GoneRound \/ PagesFit(flash)) /\ (err = 0 \/ MetProgram)
  BY <1>2 DEF AlarmParts
<1>4. SUFFICES (GoneRound' \/ PagesFit(flash')) /\ (err' = 0 \/ MetProgram')
  BY <1>2, AlarmNow DEF AlarmParts
<1>5. /\ p'.cur \in Nat /\ p'.cur >= p.cur
      /\ (ProgramNothing \/ ProgramPage) => p'.cur = p.cur + 1
      /\ ~(ProgramSpl \/ ProgramPage) => flash' = flash
  <2>1. CASE ProgramSpl
    <3>1. p.cur = 0 /\ p'.cur = 2 * Ppb
      BY <1>2, <2>1 DEF ProgramSpl, SplTurn, ProgramType
    <3>2. ~ProgramNothing /\ ~ProgramPage
      BY <2>1 DEF ProgramSpl, ProgramNothing, ProgramPage, WritesPage, ProgramChecked
    <3> QED  BY <1>2, <2>1, <3>1, <3>2
  <2>2. CASE ProgramSkip
    <3>1. p'.cur = p.cur + Ppb /\ flash' = flash
      BY <1>2, <2>2 DEF ProgramSkip, ProgramType
    <3>2. ~ProgramNothing /\ ~ProgramPage
      BY <2>2 DEF ProgramSkip, ProgramNothing, ProgramPage, WritesPage, ProgramChecked
    <3> QED  BY <1>2, <3>1, <3>2
  <2>3. CASE ProgramNothing \/ ProgramPage
    <3>1. p' = OnePageOn(p) /\ (ProgramNothing => flash' = flash)
      BY <2>3 DEF ProgramNothing, ProgramPage
    <3>2. p'.cur = p.cur + 1
      BY <1>2, <3>1 DEF OnePageOn, ProgramType
    <3> QED  BY <1>2, <2>3, <3>1, <3>2
  <2>4. CASE ProgramEnd
    <3>1. p' = p /\ flash' = flash /\ p.i >= Len(p.image)
      BY <2>4 DEF ProgramEnd
    <3>2. ~ProgramNothing /\ ~ProgramPage
      <4>1. p.i \in Nat /\ Len(p.image) \in Nat
        BY <1>2 DEF ProgramType
      <4> QED  BY <3>1, <4>1 DEF ProgramNothing, ProgramPage, WritesPage, ProgramChecked, Programming
    <3> QED  BY <1>2, <3>1, <3>2
  <2> QED  BY <2>1, <2>2, <2>3, <2>4
<1>6. \A b \in Nat : SpoiltIn(flash, b) => SpoiltIn(flash', b)
  <2>1. CASE ProgramSpl \/ ProgramPage
    BY <1>2, <2>1, ProgramSpoils, SpoiltStays
  <2>2. CASE ~(ProgramSpl \/ ProgramPage)
    BY <1>5, <2>2
  <2> QED  BY <2>1, <2>2
<1>7. MetProgram => MetProgram'
  BY <1>2, <1>5, <1>6, MetProgramStays
<1>8. err' = err \/ MetProgram'
  <2>1. CASE ProgramSkip \/ ((ProgramNothing \/ ProgramPage) /\ FirstOfBlock(p.cur))
    <3>1. err' \in ErrAfterCheck(p.cur \div Ppb) /\ FirstOfBlock(p.cur)
      BY <2>1 DEF ProgramSkip, ProgramNothing, ProgramPage, WritesPage, ProgramChecked
    <3>2. err' = err \/ MetCheck(p.cur)
      <4>1. board \in Boards /\ p.cur \in Nat /\ J.start \in Nat /\ p.cur >= J.start * Ppb
        BY <1>2
      <4>2. \A x \in ErrAfterCheck(p.cur \div Ppb) : x = err \/ MetCheck(p.cur)
        BY <3>1, <4>1, CountAfter
      <4> QED  BY <3>1, <4>2
    <3>3. MetCheck(p.cur) => MetProgram
      BY DEF MetCheck, MetProgram
    <3> QED  BY <1>7, <3>2, <3>3
  <2>2. CASE (ProgramNothing \/ ProgramPage) /\ ~FirstOfBlock(p.cur)
    BY <2>2 DEF ProgramNothing, ProgramPage, WritesPage, ProgramChecked
  <2>3. CASE ProgramSpl
    BY <2>3 DEF ProgramSpl
  <2>4. CASE ProgramEnd
    BY <2>4 DEF ProgramEnd
  <2> QED  BY <2>1, <2>2, <2>3, <2>4
<1>9. GoneRound' \/ PagesFit(flash')
  <2>1. GoneRound' <=> chip = 4750 /\ p'.cur > Top
    BY AlarmNow DEF GoneRound
  <2>2. CASE GoneRound
    BY <1>2, <1>5, <2>1, <2>2 DEF GoneRound
  <2>3. CASE ~GoneRound /\ ProgramSpl
    BY <1>2, <1>3, <2>3, SplFits
  <2>4. CASE ~GoneRound /\ ProgramPage
    <3>1. CASE chip = 4750 /\ p.cur >= Top
      BY <1>2, <1>5, <2>1, <2>4, <3>1
    <3>2. CASE chip = 4750 => p.cur < Top
      BY <1>2, <1>3, <2>4, <3>2, PageFits
    <3> QED  BY <1>2, <3>1, <3>2
  <2>5. CASE ~GoneRound /\ ~(ProgramSpl \/ ProgramPage)
    BY <1>3, <1>5, <2>5
  <2> QED  BY <2>2, <2>3, <2>4, <2>5
<1> QED  BY <1>3, <1>7, <1>8, <1>9

\* After a page failure, which in these sessions only the 4740 and the 4770 may meet:
\* their checks count nothing, and pages are erased, marked or spoilt.
LEMMA AlarmClean ==
  ASSUME TypeInv, Unprovoked, MarksMeanBad, AlarmParts, chip \in {4740, 4770},
         board' = board, job' = job, request' = request,
         ProgramFails \/ CleanEnd \/ (op = "clean" /\ (EraseSkip \/ EraseBlock \/ EraseFails))
  PROVE  AlarmParts'
<1>1. op \in {"program", "clean"}
  <2>1. ProgramFails => op = "program"
    BY DEF ProgramFails, WritesPage, ProgramChecked, Programming
  <2>2. CleanEnd => op = "clean"
    BY DEF CleanEnd
  <2> QED  BY <2>1, <2>2
<1>2. /\ request = "program" /\ board \in Boards /\ flash \in [Pages -> PageValues]
      /\ p.cur \in Nat /\ e.blk \in Nat /\ e.failed \in SUBSET Nat
  BY <1>1, ProgramAbove DEF TypeInv, EraseType
<1>3. PagesFit(flash) /\ err = 0
  BY <1>2 DEF AlarmParts, GoneRound, MetProgram
<1>4. SUFFICES PagesFit(flash') /\ err' = 0
  BY <1>2, AlarmNow DEF AlarmParts
<1>5. \A b : ErrAfterCheck(b) = {err}
  BY DEF ErrAfterCheck, CheckMayErr
<1>6. err' = err
  <2>1. ProgramFails => err' = err
    BY <1>5 DEF ProgramFails, WritesPage, ProgramChecked
  <2>2. CleanEnd => err' = err
    BY DEF CleanEnd
  <2>3. EraseSkip => err' = err
    BY <1>5 DEF EraseSkip
  <2>4. EraseBlock \/ EraseFails => err' = err
    <3>1. EraseBlock \/ EraseFails => EraseChecked
      BY DEF EraseBlock, EraseFails
    <3> QED  BY <1>5, <3>1 DEF EraseChecked
  <2> QED  BY <2>1, <2>2, <2>3, <2>4
<1>7. Lost(flash, flash')
  <2>1. CASE ProgramFails
    <3>1. flash' = Programmed(flash, p.cur, Old)
      BY <2>1 DEF ProgramFails
    <3>2. \A q \in Pages : flash'[q] = flash[q] \/ flash'[q] = Over(flash[q], Old)
      BY <1>2, <3>1 DEF Programmed
    <3>3. \A q \in Pages : Over(flash[q], Old) = Old \/ Over(flash[q], Old).data = Spoilt
      BY <1>2, PageTypes, OverSpoils
    <3>4. Old.data = Spoilt
      BY DEF Old, Page
    <3> QED  BY <3>2, <3>3, <3>4 DEF Lost
  <2>2. CASE EraseSkip
    BY <2>2 DEF EraseSkip, Lost
  <2>3. CASE EraseBlock
    <3>1. flash' = flash \/ flash' = Erased(flash, e.blk)
      BY <2>3 DEF EraseBlock
    <3> QED  BY <3>1 DEF Erased, Lost
  <2>4. CASE EraseFails
    <3>1. flash' = flash \/ flash' = MarkedBad(flash, {e.blk})
      <4>1. CASE chip = 4770
        BY <2>4, <4>1 DEF EraseFails
      <4>2. CASE chip # 4770
        BY <2>4, <4>2 DEF EraseFails
      <4> QED  BY <4>1, <4>2
    <3> QED  BY <1>2, <3>1, MarkedPagesSpoilt DEF Lost
  <2>5. CASE CleanEnd
    <3>1. flash' = MarkedBad(flash, e.failed \cup {p.cur \div Ppb})
      BY <2>5 DEF CleanEnd
    <3> QED  BY <1>2, <3>1, MarkedPagesSpoilt DEF Lost
  <2> QED  BY <2>1, <2>2, <2>3, <2>4, <2>5
<1>8. PagesFit(flash')
  BY <1>3, <1>7, PagesStay
<1> QED  BY <1>3, <1>6, <1>8

\* The code of a page is looked for where it is to be.
LEMMA CodeRead ==
  ASSUME TypeInv, Unprovoked, MarksMeanBad, EccParts, AlarmParts, Reading, eccpos' = ReadEccpos,
         r.cur >= J.start * Ppb
  PROVE  PageCode(eccpos', r.per, r.option) = CodeToBe(r.cur)
<1>1. op = "read" /\ r.cnt < r.n
  BY DEF Reading
<1>2. request = "read" /\ ~Done /\ board \in Boards /\ r.cur \in Nat
  BY <1>1 DEF TypeInv, Serving, ReadType
<1>3. /\ r.option = J.option /\ r.per = IF chip \in {4750, 4760} THEN Conf \div EccCnt ELSE 0
  BY <1>2 DEF AlarmParts
<1>4. /\ chip \in {4740, 4750, 4760, 4770} /\ (chip = 4750 => Conf = board.eccpos)
  BY <1>2, ConfParts
<1>5. NotMoved
  BY <1>2, UnprovokedStraight DEF Straight
<1>6. chip = 4740 => ~(r.cur < SplPages)
  BY <1>2, BelowLoader DEF Unprovoked
<1>7. eccpos' = CASE chip = 4740 /\ r.cur < SplPages -> 6
                  [] chip = 4750 /\ r.cur < SplPages -> 3
                  [] OTHER -> Conf
  <2>1. CASE chip = 4740
    BY <1>1, <1>5, <1>6, <2>1 DEF ReadEccpos, EccParts, Position4740
  <2>2. CASE chip = 4750
    BY <1>4, <2>2 DEF ReadEccpos, EccposAt
  <2>3. CASE chip \in {4760, 4770}
    BY <2>3 DEF ReadEccpos, EccParts
  <2> QED  BY <1>4, <2>1, <2>2, <2>3
<1> QED  BY <1>3, <1>7 DEF CodeToBe, PageCode, Conf

\* What nand_read met can still be seen further on.
LEMMA MetReadStays ==
  ASSUME board' = board, job' = job, flash' = flash, p' = p, hit \subseteq hit',
         r.cur \in Nat, r'.cur \in Nat, r'.cur >= r.cur, Ppb \in Nat, FirstPage \in Nat
  PROVE  /\ MetRead => MetRead'
         /\ Held(flash, r.cur) \subseteq Held(flash, r.cur)'
         /\ \A n : Wrong(n)' <=> Wrong(n)
<1>1. /\ J' = J /\ chip' = chip /\ Top' = Top /\ \A b : SpoiltIn(flash, b)' <=> SpoiltIn(flash, b)
  BY AlarmNow
<1>2. GoneRound' <=> GoneRound
  BY <1>1 DEF GoneRound
<1>3. Held(flash, r.cur)' = Held(flash, r'.cur)
  BY AlarmNow
<1>4. Held(flash, r.cur) \subseteq Held(flash, r'.cur)
  <2>1. FirstPage .. r.cur - 1 \subseteq FirstPage .. r'.cur - 1
    OBVIOUS
  <2> QED  BY <2>1 DEF Held
<1>5. \A n : Wrong(n)' <=> Wrong(n)
  BY <1>1 DEF Wrong
<1>6. ASSUME NEW b \in Nat, b * Ppb <= r.cur PROVE b * Ppb <= r'.cur
  <2> DEFINE y == b * Ppb
  <2>1. y \in Nat /\ y <= r.cur
    BY <1>6
  <2> HIDE DEF y
  <2>2. y <= r'.cur
    BY <2>1
  <2> QED  BY <2>2 DEF y
<1>7. MetRead => MetRead'
  <2>1. CASE "many" \in hit \/ GoneRound
    BY <1>2, <2>1 DEF MetRead
  <2>2. CASE MetCheck(r.cur)
    BY <1>1, <1>6, <2>2 DEF MetRead, MetCheck
  <2>3. CASE \E n \in Held(flash, r.cur) : Wrong(n)
    BY <1>3, <1>4, <1>5, <2>3 DEF MetRead
  <2> QED  BY <2>1, <2>2, <2>3 DEF MetRead
<1> QED  BY <1>3, <1>4, <1>5, <1>7

\* nand_read counts nothing but a reason met.
LEMMA AlarmRead ==
  ASSUME TypeInv, Unprovoked, MarksMeanBad, EccParts, ReadParts, AlarmParts,
         board' = board, job' = job, request' = request, erasedTo' = erasedTo, hit \subseteq hit',
         ReadSpl \/ ReadSkip \/ ReadPage \/ ReadEnd
  PROVE  AlarmParts'
<1>1. op = "read" /\ flash' = flash /\ p' = p
  BY DEF ReadSpl, ReadSkip, ReadPage, ReadEnd, Reading
<1>2. /\ ~Done /\ request = "read" /\ board \in Boards /\ r \in ReadType /\ r.cur \in Nat
      /\ Ppb \in Nat \ {0, 1} /\ err \in {0, 1} /\ FirstPage \in Nat /\ J.start \in Nat /\ Top \in Nat
      /\ p.cur \in Nat
  <2>1. ~Done /\ request = "read" /\ board \in Boards /\ r \in ReadType /\ err \in {0, 1}
        /\ p \in ProgramType
    BY <1>1 DEF TypeInv, Serving
  <2> QED  BY <2>1, ImagePlace, FlashAssumptions DEF ReadType, ProgramType
<1>3. /\ GoneRound \/ PagesFit(flash)
      /\ r.option = J.option /\ r.per = IF chip \in {4750, 4760} THEN Conf \div EccCnt ELSE 0
      /\ err = 0 \/ MetProgram \/ MetRead
  BY <1>2 DEF AlarmParts
<1>4. /\ J' = J /\ chip' = chip /\ Top' = Top /\ Conf' = Conf
      /\ Held(flash, r.cur)' = Held(flash, r'.cur)
      /\ \A b : SpoiltIn(flash, b)' <=> SpoiltIn(flash, b)
  BY <1>1, AlarmNow
<1>5. (GoneRound' <=> GoneRound) /\ (PagesFit(flash)' <=> PagesFit(flash))
  BY <1>1, <1>4, AlarmNow DEF GoneRound
<1>6. /\ r'.cur \in Nat /\ r'.cur >= r.cur /\ r'.option = r.option /\ r'.per = r.per
      /\ ReadPage => r'.cur = r.cur + 1
  <2>1. CASE ReadSpl
    <3> DEFINE m == IF r.n < SplPages THEN r.n ELSE SplPages
               buf == [k \in 1 .. m |-> SplPage(k - 1)]
    <3>1. /\ r.cur < 2 * SplPages
          /\ r' = [r EXCEPT !.cur = 2 * Ppb, !.cnt = SplPages, !.buf = buf]
      BY <2>1 DEF ReadSpl, SplRead
    <3> HIDE DEF buf
    <3>2. r'.cur = 2 * Ppb /\ r'.option = r.option /\ r'.per = r.per
      BY <1>2, <3>1 DEF ReadType
    <3>3. SplPages \in Nat \ {0} /\ 2 * SplPages <= Ppb
      BY DriverAssumptions
    <3>4. r'.cur \in Nat /\ r'.cur >= r.cur
      BY <1>2, <3>1, <3>2, <3>3
    <3>5. ~ReadPage
      BY <2>1 DEF ReadSpl, ReadPage
    <3> QED  BY <3>2, <3>4, <3>5
  <2>2. CASE ReadSkip
    <3>1. r'.cur = r.cur + Ppb /\ r'.option = r.option /\ r'.per = r.per
      BY <1>2, <2>2 DEF ReadSkip, ReadType
    <3>2. ~ReadPage
      BY <2>2 DEF ReadSkip, ReadPage
    <3> QED  BY <1>2, <3>1, <3>2
  <2>3. CASE ReadPage
    <3>1. \E data : r' = [r EXCEPT !.cur = @ + 1, !.cnt = @ + 1, !.buf = Append(@, data)]
      BY <2>3 DEF ReadPage
    <3>2. r'.cur = r.cur + 1 /\ r'.option = r.option /\ r'.per = r.per
      BY <1>2, <3>1 DEF ReadType
    <3> QED  BY <1>2, <3>2
  <2>4. CASE ReadEnd
    <3>1. r' = r /\ r.cnt >= r.n
      BY <2>4 DEF ReadEnd
    <3>2. ~ReadPage
      <4>1. r.cnt \in Nat /\ r.n \in Nat
        BY <1>2 DEF ReadType
      <4>2. ~(r.cnt < r.n)
        BY <3>1, <4>1
      <4> QED  BY <4>2 DEF ReadPage, Reading
    <3> QED  BY <1>2, <3>1, <3>2
  <2> QED  BY <2>1, <2>2, <2>3, <2>4
<1>7. SUFFICES err' = 0 \/ MetProgram' \/ MetRead'
  BY <1>2, <1>3, <1>4, <1>5, <1>6 DEF AlarmParts
<1>8. /\ MetRead => MetRead'
      /\ Held(flash, r.cur) \subseteq Held(flash, r.cur)'
      /\ \A n : Wrong(n)' <=> Wrong(n)
  BY <1>1, <1>2, <1>6, MetReadStays
<1>9. MetProgram => MetProgram'
  <2>1. \A b \in Nat : SpoiltIn(flash, b) => SpoiltIn(flash', b)
    BY <1>1
  <2>2. p'.cur \in Nat /\ p'.cur >= p.cur
    BY <1>1, <1>2
  <2> QED  BY <1>2, <2>1, <2>2, MetProgramStays
<1>10. SUFFICES ASSUME err' # err, err' # 0 PROVE MetRead'
  BY <1>3, <1>8, <1>9
<1>11. (ReadSkip \/ ReadPage) /\ Reading /\ ~SplRead /\ eccpos' = ReadEccpos
  BY <1>10 DEF ReadSpl, ReadSkip, ReadPage, ReadEnd
<1>12. r.cur >= FirstPage /\ r.cur >= J.start * Ppb
  BY <1>11, ReadAbove
<1>13. ASSUME FirstOfBlock(r.cur), NEW x \in ErrAfterCheck(r.cur \div Ppb), x # err PROVE MetRead'
  <2>1. MetCheck(r.cur)
    <3>1. board \in Boards /\ r.cur \in Nat /\ J.start \in Nat /\ r.cur >= J.start * Ppb
      BY <1>2, <1>12
    <3>2. \A y \in ErrAfterCheck(r.cur \div Ppb) : y = err \/ MetCheck(r.cur)
      BY <1>13, <3>1, CountAfter
    <3> QED  BY <1>13, <3>2
  <2>2. MetRead
    BY <2>1 DEF MetRead
  <2> QED  BY <1>8, <2>2
<1>14. CASE ReadSkip
  BY <1>10, <1>13, <1>14 DEF ReadSkip
<1>15. CASE ReadPage
  <2>1. ~BadIn(flash, r.cur \div Ppb)
    BY <1>11, <1>15, ReadPlace DEF ReadPage
  <2>2. PICK was \in IF FirstOfBlock(r.cur) THEN ErrAfterCheck(r.cur \div Ppb) ELSE {err} :
          \/ err' \in Decoded(flash[PageAt(r.cur)], eccpos', was).errs
          \/ "many" \in hit'
          \/ err' = 0
    <3> DEFINE pg == flash[PageAt(r.cur)]
    <3>1. Corrected(pg).errs = {0}
      BY DEF Corrected
    <3>2. PICK was \in IF FirstOfBlock(r.cur) THEN ErrAfterCheck(r.cur \div Ppb) ELSE {err} :
            \/ err' \in Decoded(pg, eccpos', was).errs
            \/ hit' = hit \cup {"many"}
            \/ err' \in Corrected(pg).errs
      BY <1>15 DEF ReadPage
    <3> QED  BY <3>1, <3>2
  <2>3. CASE was # err
    <3>1. FirstOfBlock(r.cur) /\ was \in ErrAfterCheck(r.cur \div Ppb)
      BY <2>2, <2>3
    <3> QED  BY <1>13, <2>3, <3>1
  <2>4. CASE "many" \in hit'
    BY <2>4 DEF MetRead
  <2>5. CASE was = err /\ err' \in Decoded(flash[PageAt(r.cur)], eccpos', was).errs
    <3> DEFINE pg == flash[PageAt(r.cur)]
    <3>1. r.cur \in Held(flash, r.cur)'
      <4>1. r.cur \in FirstPage .. r'.cur - 1
        BY <1>2, <1>6, <1>12, <1>15
      <4> QED  BY <1>4, <2>1, <4>1 DEF Held
    <3>2. PageCode(eccpos', r.per, r.option) = CodeToBe(r.cur)
      BY <1>11, <1>12, CodeRead
    <3>3. GoneRound \/ r.cur >= Top \/ CodeFits(flash, r.cur)
      BY <1>2, <1>3, <1>12 DEF PagesFit
    <3>4. GoneRound \/ Wrong(r.cur)
      <4>1. SUFFICES ASSUME ~GoneRound, ~(r.cur >= Top), pg.data # Spoilt, chip = 4770 => pg.data # Ff
                     PROVE  FALSE
        BY DEF Wrong
      <4>2. pg = Blank \/ pg.code = PageCode(eccpos', r.per, r.option)
        BY <3>2, <3>3, <4>1 DEF CodeFits
      <4>3. chip = 4770 => pg # Blank
        BY <4>1 DEF Blank, Page
      <4>4. Decoded(pg, eccpos', was).errs = {was}
        BY <4>1, <4>2, <4>3 DEF Decoded, Unprovoked
      <4> QED  BY <1>10, <2>5, <4>4
    <3>5. PICK c \in Nat : c = r.cur
      BY <1>2
    <3>6. GoneRound' \/ Wrong(c)'
      <4>1. GoneRound \/ Wrong(c)
        BY <3>4, <3>5
      <4> QED  BY <1>5, <1>8, <4>1
    <3>7. c \in Held(flash, r.cur)'
      BY <3>1, <3>5
    <3> QED  BY <3>6, <3>7 DEF MetRead
  <2> QED  BY <1>10, <2>2, <2>3, <2>4, <2>5
<1> QED  BY <1>11, <1>14, <1>15

\* The host asks for the next thing.
LEMMA AlarmHost ==
  ASSUME TypeInv, Unprovoked, MarksMeanBad, EraseInv, EccParts, AlarmParts,
         board' = board, job' = job, HandleErase \/ HandleProgram \/ HandleRead
  PROVE  AlarmParts'
<1>1. /\ J' = J /\ chip' = chip /\ Conf' = Conf /\ Top' = Top
      /\ Untouched(flash)' <=> Untouched(flash')
      /\ PagesFit(flash)' <=> PagesFit(flash')
      /\ \A b : SpoiltIn(flash, b)' <=> SpoiltIn(flash', b)
  BY AlarmNow
<1>2. board \in Boards /\ Ppb \in Nat \ {0, 1}
  BY FlashAssumptions DEF TypeInv
<1>3. CASE HandleErase
  <2>1. request = "none" /\ request' = "erase" /\ flash' = flash /\ err' = err
    BY <1>3 DEF HandleErase, nand_erase
  <2> QED  BY <1>1, <2>1 DEF AlarmParts
<1>4. CASE HandleProgram /\ request' # "program"
  <2>1. request' = "refused"
    BY <1>4 DEF HandleProgram
  <2> QED  BY <2>1 DEF AlarmParts
<1>5. CASE HandleProgram /\ request' = "program"
  <2>1. /\ request = "erase" /\ ~Busy /\ erasedTo' = ret \div Ppb /\ flash' = flash /\ err' = err
    BY <1>5 DEF HandleProgram, nand_program
  <2>2. /\ ret = e.blk * Ppb /\ e.blk \in Nat /\ ~Done
    BY <2>1 DEF EraseInv, EraseLoop, EraseType, TypeInv
  <2>3. erasedTo' = e.blk
    BY <2>1, <2>2, NextPage
  <2>4. PagesFit(flash')
    <3>1. \A n \in Nat : PageAt(n) \in Pages
      BY PageAtBlock DEF PagesOf
    <3> QED  BY <2>1, <3>1 DEF AlarmParts, Untouched, PagesFit, CodeFits
  <2>5. MetErase => MetProgram'
    <3> SUFFICES ASSUME MetErase PROVE MetProgram'
      OBVIOUS
    <3>1. chip \in {4750, 4760}
      BY DEF MetErase
    <3>2. PICK b \in J.start .. e.blk - 1 : BadIn(flash, b)
      BY DEF MetErase
    <3>3. b \in Nat /\ b >= J.start /\ b < erasedTo'
      <4>1. J.start \in Nat
        BY <2>2, ImagePlace
      <4> QED  BY <2>2, <2>3, <4>1
    <3>4. SpoiltIn(flash', b)
      BY <2>1, <3>2 DEF SpoiltIn, BadIn, LooksSpoilt
    <3> QED  BY <1>1, <3>1, <3>3, <3>4 DEF MetProgram
  <2> QED  BY <1>1, <1>5, <2>1, <2>4, <2>5 DEF AlarmParts
<1>6. CASE HandleRead
  <2>1. /\ request = "program" /\ request' = "read" /\ ~Busy /\ flash' = flash /\ p' = p
        /\ (err' = err \/ err' = 0) /\ erasedTo' = erasedTo
        /\ r'.option = J.option /\ r'.per = IF chip \in {4750, 4760} THEN eccpos \div EccCnt ELSE 0
    BY <1>6 DEF HandleRead, nand_read, NoRead
  <2>2. chip \in {4750, 4760} => eccpos = Conf
    BY <2>1 DEF EccParts, Position4750
  <2>3. p.cur \in Nat
    BY DEF TypeInv, ProgramType
  <2>4. MetProgram => MetProgram'
    <3>1. \A b \in Nat : SpoiltIn(flash, b) => SpoiltIn(flash', b)
      BY <2>1
    <3>2. p'.cur \in Nat /\ p'.cur >= p.cur
      BY <2>1, <2>3
    <3> QED  BY <1>2, <2>1, <2>3, <3>1, <3>2, MetProgramStays
  <2>5. (GoneRound \/ PagesFit(flash)) /\ (err = 0 \/ MetProgram)
    BY <2>1 DEF AlarmParts
  <2>6. GoneRound' <=> GoneRound
    BY <1>1, <2>1 DEF GoneRound
  <2>7. (r.option = J.option)' /\ (r.per = IF chip \in {4750, 4760} THEN Conf \div EccCnt ELSE 0)'
    BY <1>1, <2>1, <2>2
  <2>8. err' = 0 \/ MetProgram'
    BY <2>1, <2>4, <2>5
  <2> QED  BY <1>1, <2>1, <2>5, <2>6, <2>7, <2>8 DEF AlarmParts
<1> QED  BY <1>3, <1>4, <1>5, <1>6

\* Nothing changes.
LEMMA AlarmSame ==
  ASSUME UNCHANGED vars, AlarmParts
  PROVE  AlarmParts'
<1>1. /\ board' = board /\ flash' = flash /\ err' = err /\ e' = e /\ p' = p /\ r' = r /\ hit' = hit
      /\ job' = job /\ request' = request /\ erasedTo' = erasedTo
  BY DEF vars
<1>2. /\ J' = J /\ chip' = chip /\ Conf' = Conf /\ Top' = Top
      /\ (Untouched(flash)' <=> Untouched(flash)) /\ (PagesFit(flash)' <=> PagesFit(flash))
      /\ \A b : SpoiltIn(flash, b)' <=> SpoiltIn(flash, b)
      /\ \A b : BadIn(flash, b)' <=> BadIn(flash, b)
      /\ Held(flash, r.cur)' = Held(flash, r.cur)
  BY <1>1, AlarmNow
<1>3. MetErase' <=> MetErase
  BY <1>1, <1>2 DEF MetErase
<1>4. MetProgram' <=> MetProgram
  BY <1>1, <1>2 DEF MetProgram
<1>5. GoneRound' <=> GoneRound
  BY <1>1, <1>2 DEF GoneRound
<1>6. \A n : Wrong(n)' <=> Wrong(n)
  BY <1>1, <1>2 DEF Wrong
<1>7. MetRead' <=> MetRead
  <2>1. MetCheck(r.cur)' <=> MetCheck(r.cur)
    BY <1>1, <1>2 DEF MetCheck
  <2> QED  BY <1>1, <1>2, <1>5, <1>6, <2>1 DEF MetRead
<1> QED  BY <1>1, <1>2, <1>3, <1>4, <1>5, <1>7 DEF AlarmParts

\* A board and its flash before the first request.
LEMMA AlarmInit == Init => (Unprovoked => AlarmParts)
<1> SUFFICES ASSUME Init, Unprovoked PROVE AlarmParts
  OBVIOUS
<1>1. /\ flash = FlashWith(board.bad, board.full) /\ err = 0 /\ request = "none"
  BY DEF Init, DriverInit
<1>2. ASSUME NEW q \in Pages
      PROVE  flash[q] = Blank \/ (flash[q].data = Spoilt /\ (chip \in {4750, 4760} => flash[q].bad))
  <2>1. flash[q] = IF q \div Ppb \in board.bad THEN Zeros ELSE IF board.full THEN Old ELSE Blank
    BY <1>1 DEF FlashWith
  <2>2. /\ Zeros.data = Spoilt /\ Zeros.bad /\ Old.data = Spoilt
    BY DEF Zeros, Old, Page
  <2> QED  BY <2>1, <2>2 DEF Unprovoked
<1> QED  BY <1>1, <1>2 DEF AlarmParts, Untouched

\* Every step keeps the reasons.
LEMMA AlarmNext ==
  ASSUME CodeInv, ReadInv, [Next]_vars, Unprovoked => AlarmParts, Unprovoked'
  PROVE  AlarmParts'
<1>1. /\ Unprovoked /\ job' = job /\ board' = board /\ board \in Boards
      /\ TypeInv /\ MarksMeanBad /\ EraseInv /\ EccParts
      /\ request = "erase" => e.from = J.start
      /\ op' = "clean" \/ op = "clean" => chip \in {4740, 4770}
  BY UnprovokedBefore
<1>2. AlarmParts /\ ReadParts /\ hit \subseteq hit'
  BY <1>1, HitGrows DEF ReadInv, Unprovoked
<1>3. CASE Driver
  <2>1. UNCHANGED <<job, request, erasedTo>>
    BY <1>3 DEF Driver
  <2>2. CASE EraseSkip \/ EraseBlock \/ EraseFails \/ EraseEnd
    <3>1. op \in {"erase", "clean"} /\ (EraseEnd => op = "erase")
      BY <2>2, OpOf
    <3>2. CASE op = "erase"
      <4>1. request = "erase" /\ ~Done
        BY <1>1, <3>2 DEF TypeInv, Serving
      <4> QED  BY <1>1, <1>2, <2>1, <2>2, <3>2, <4>1, AlarmErase
    <3>3. CASE op = "clean"
      BY <1>1, <1>2, <2>1, <2>2, <3>1, <3>3, AlarmClean
    <3> QED  BY <3>1, <3>2, <3>3
  <2>3. CASE ProgramSpl \/ ProgramSkip \/ ProgramNothing \/ ProgramPage \/ ProgramEnd
    BY <1>1, <1>2, <2>1, <2>3, AlarmProgram
  <2>4. CASE ProgramFails
    <3>1. op' = "clean"
      BY <2>4 DEF ProgramFails
    <3> QED  BY <1>1, <1>2, <2>1, <2>4, <3>1, AlarmClean
  <2>5. CASE CleanEnd
    <3>1. op = "clean"
      BY <2>5 DEF CleanEnd
    <3> QED  BY <1>1, <1>2, <2>1, <2>5, <3>1, AlarmClean
  <2>6. CASE ReadSpl \/ ReadSkip \/ ReadPage \/ ReadEnd
    BY <1>1, <1>2, <2>1, <2>6, AlarmRead
  <2> QED  BY <1>3, <2>2, <2>3, <2>4, <2>5, <2>6 DEF Driver, DriverStep
<1>4. CASE HandleErase \/ HandleProgram \/ HandleRead
  BY <1>1, <1>2, <1>4, AlarmHost
<1>5. CASE NextJob
  <2>1. job' = job + 1 /\ job = 1
    BY <1>1, <1>5 DEF NextJob, Unprovoked
  <2> QED  BY <1>1, <2>1
<1>6. CASE Finished \/ UNCHANGED vars
  BY <1>2, <1>6, AlarmSame DEF Finished
<1> QED  BY <1>3, <1>4, <1>5, <1>6 DEF Next

\* The pages of an image are finitely many.
LEMMA HeldFinite ==
  ASSUME ~Done, TypeInv, NEW f, NEW c \in Nat
  PROVE  IsFiniteSet(Held(f, c)) /\ Held(f, c) \in SUBSET Int
<1>1. FirstPage \in Nat
  BY ImagePlace
<1>2. IsFiniteSet(FirstPage .. c - 1)
  BY <1>1, FS_Interval
<1>3. Held(f, c) \subseteq FirstPage .. c - 1
  BY DEF Held
<1>4. IsFiniteSet(Held(f, c))
  BY <1>2, <1>3, FS_Subset
<1> QED  BY <1>1, <1>3, <1>4

\* Of a page of the image there is one in the job.
LEMMA ImageIndex ==
  ASSUME NEW S \in SUBSET Int, IsFiniteSet(S), NEW n \in S,
         NEW k \in Nat, NEW len \in Nat, Cardinality(S) = len - k
  PROVE  k + 1 + Cardinality(Below(S, n)) \in 1 .. len
<1> DEFINE T == Below(S, n)
<1>1. T \in SUBSET S /\ T \cup {n} \in SUBSET S /\ n \notin T
  <2>1. ~(n < n)
    OBVIOUS
  <2> QED  BY <2>1 DEF Below
<1>2. IsFiniteSet(T) /\ Cardinality(T \cup {n}) <= Cardinality(S)
  BY <1>1, FS_Subset
<1>3. Cardinality(T \cup {n}) = Cardinality(T) + 1 /\ Cardinality(T) \in Nat
  BY <1>1, <1>2, FS_AddElement, FS_CardinalityType
<1> HIDE DEF T
<1>4. k + 1 + Cardinality(T) \in 1 .. len
  BY <1>2, <1>3
<1> QED  BY <1>4 DEF T

\* In the first job a stored image that is read without an error is not reported as one
\* with errors, on every board and flash, but in the cases NoFalseAlarm excepts.
THEOREM NoFalseAlarmHolds == Spec => []NoFalseAlarm
<1>1. Init => AlarmInv
  BY CodeInit, ReadInit, AlarmInit DEF AlarmInv
<1>2. AlarmInv /\ [Next]_vars => AlarmInv'
  BY CodeNext, ReadNext, AlarmNext DEF AlarmInv
<1>3. AlarmInv => NoFalseAlarm
  <2> SUFFICES ASSUME AlarmInv, ReadBack1, job = 1, board.layout, MarksMeanBad, HoldsImage,
                      OnceRound, "many" \notin hit,
                      \A i \in 1 .. Len(J.image) :
                        J.image[i] # Spoilt /\ ~(chip = 4770 /\ J.image[i] = Ff),
                      ~LooksDamaged, ~(chip \in {4750, 4760} /\ board.full),
                      ~(chip = 4740 /\ J.start = 0)
               PROVE  err = 0
    BY DEF NoFalseAlarm
  <2>1. request = "read" /\ op = "idle" /\ TypeInv /\ ~Done /\ ReadParts /\ board \in Boards
    BY DEF AlarmInv, ReadInv, ReadBack1, Busy, TypeInv
  <2>2. Unprovoked
    BY DEF Unprovoked, LooksDamaged, PageFailed
  <2>3. err = 0 \/ MetProgram \/ MetRead
    BY <2>1, <2>2 DEF AlarmInv, AlarmParts
  <2>4. /\ ret = r.cur /\ r.cur \in Nat /\ p.cur \in Nat /\ erasedTo \in Nat /\ J.start \in Nat
        /\ SplCount \in Nat /\ FirstPage \in Nat /\ Top \in Nat /\ Len(J.image) \in Nat
    <3>1. ret = r.cur
      <4>1. ~LoaderFirst
        BY <2>1 DEF ReadParts
      <4> QED  BY <2>1, <4>1 DEF ReadParts
    <3>2. J.image \in Seq(Data)
      BY <2>1, JobParts
    <3>3. J.start \in Nat /\ SplCount \in Nat /\ FirstPage \in Nat /\ Top \in Nat
      BY <2>1, ImagePlace
    <3>4. r.cur \in Nat /\ p.cur \in Nat /\ erasedTo \in Nat
      BY <2>1 DEF TypeInv, ReadType, ProgramType
    <3>5. Len(J.image) \in Nat
      BY <3>2
    <3> QED  BY <3>1, <3>3, <3>4, <3>5
  <2>5. p.cur <= Top /\ r.cur <= Top
    BY <2>4 DEF OnceRound, Top
  <2>6. ASSUME chip \in {4750, 4760}, NEW b \in Nat, b >= J.start, SpoiltIn(flash, b),
               b < erasedTo \/ b * Ppb <= p.cur \/ b * Ppb <= r.cur
        PROVE  FALSE
    <3>1. CheckMayErr(b)
      BY <2>1, <2>6, CheckSpoilt
    <3>2. ASSUME NEW c \in Nat, b * Ppb <= c PROVE b \in J.start .. c \div Ppb
      <4>1. c \div Ppb \in Nat
        BY PageAtBlock
      <4>2. c >= b * Ppb
        <5> DEFINE y == b * Ppb
        <5>1. y \in Nat /\ y <= c
          BY <3>2, FlashAssumptions
        <5> HIDE DEF y
        <5>2. c >= y
          BY <5>1
        <5> QED  BY <5>2 DEF y
      <4>3. c \div Ppb >= b
        BY <4>2, AboveBlock
      <4> QED  BY <2>4, <2>6, <4>1, <4>3
    <3>3. b < erasedTo => b \in J.start .. erasedTo - 1
      BY <2>4, <2>6
    <3>4. b \in (J.start .. erasedTo - 1) \cup (J.start .. p.cur \div Ppb)
                \cup (J.start .. ret \div Ppb)
      BY <2>4, <2>6, <3>2, <3>3
    <3> QED  BY <3>1, <3>4 DEF LooksDamaged
  <2>7. ~MetProgram
    BY <2>6 DEF MetProgram
  <2>8. ImagePages = Held(flash, r.cur)
    <3>1. ASSUME NEW n \in FirstPage .. ret - 1
          PROVE  IsBad(n \div Ppb) <=> BadIn(flash, n \div Ppb)
      <4>1. n \in Nat
        BY <2>4
      <4> QED  BY <2>1, <4>1, PageAtBlock, CheckedByOffset
    <3> QED  BY <2>4, <3>1 DEF ImagePages, Held, FirstPage
  <2>9. ASSUME NEW n \in Held(flash, r.cur), Wrong(n) PROVE FALSE
    <3>1. n \in FirstPage .. r.cur - 1
      BY DEF Held
    <3>2. ~(n >= Top)
      BY <2>4, <2>5, <3>1
    <3>3. flash[PageAt(n)].data = J.image[SplCount + 1 + Cardinality(Below(ImagePages, n))]
      BY <2>8 DEF HoldsImage, ImagePage, Below
    <3>4. SplCount + 1 + Cardinality(Below(ImagePages, n)) \in 1 .. Len(J.image)
      <4>1. IsFiniteSet(ImagePages) /\ ImagePages \in SUBSET Int
        BY <2>1, <2>4, <2>8, HeldFinite
      <4>2. n \in ImagePages /\ Cardinality(ImagePages) = Len(J.image) - SplCount
        BY <2>8 DEF HoldsImage
      <4>3. Len(J.image) \in Nat /\ SplCount \in Nat
        BY <2>4
      <4> QED  BY <4>1, <4>2, <4>3, ImageIndex
    <3> QED  BY <2>9, <3>2, <3>3, <3>4 DEF Wrong
  <2>10. ~MetRead
    <3>1. ~GoneRound
      BY <2>4, <2>5 DEF GoneRound
    <3>2. ~MetCheck(r.cur)
      BY <2>6 DEF MetCheck
    <3> QED  BY <2>9, <3>1, <3>2 DEF MetRead
  <2> QED  BY <2>3, <2>7, <2>10
<1> QED  BY <1>1, <1>2, <1>3, PTL DEF Spec
=============================================================================
