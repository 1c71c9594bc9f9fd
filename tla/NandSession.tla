---------------------------- MODULE NandSession ----------------------------
(***************************************************************************)
(* The NAND requests of stage 2 (NAND_OPS_Handle in boothandler.c) on one  *)
(* of the drivers.  The repository has no host program that sends them;    *)
(* the host here does what they are for: it erases blocks, programs an     *)
(* image and reads it back, one job after the other.                       *)
(***************************************************************************)
EXTENDS NandDriver

VARIABLES
  job,       \* number of the job in board.jobs
  request,   \* the job's last request: "none" "erase" "program" "refused" "read"
  erasedTo   \* first block after those the host had erased for this job

vars == <<board, flash, writable, eccpos, err, op, e, p, r, ret, hit,
          job, request, erasedTo>>

J == board.jobs[job]
Busy == op # "idle"
Done == job > Len(board.jobs)

Init ==
  /\ DriverInit
  /\ job = 1 /\ request = "none" /\ erasedTo = 0

\* NAND_ERASE
HandleErase ==
  /\ ~Busy /\ ~Done /\ request = "none"
  /\ nand_erase(J.nblk, J.start)
  /\ request' = "erase"
  /\ UNCHANGED <<job, erasedTo>>

\* Mutant: the checksum is computed and not compared.
CrcIgnored(arrived) == TRUE

\* The checksum behind the data that arrived.
CrcMatches(arrived) == arrived = J.image

\* NAND_PROGRAM: data damaged on the way is refused and nothing is written.
HandleProgram ==
  /\ ~Busy /\ request = "erase"
  /\ erasedTo' = ret \div Ppb
  /\ \E arrived \in {J.image} \cup
                    (IF MayFail("usb") THEN {[J.image EXCEPT ![1] = Spoilt]} ELSE {}) :
       IF CrcMatches(arrived)
       THEN /\ nand_program(arrived, J.start * Ppb, J.option)
            /\ request' = "program"
       ELSE /\ request' = "refused"
            /\ hit' = hit \cup {"usb"}
            /\ UNCHANGED <<board, flash, writable, eccpos, err, op, e, p, r, ret>>
  /\ UNCHANGED job

\* NAND_READ: the host reads back what it programmed.
HandleRead ==
  /\ ~Busy /\ request = "program" /\ ret # 0
  /\ nand_read(J.start * Ppb, Len(J.image), J.option)
  /\ request' = "read"
  /\ UNCHANGED <<job, erasedTo>>

\* A job that was refused, or that the driver gave up (0), is not tried again.
NextJob ==
  /\ ~Busy
  /\ \/ request \in {"refused", "read"}
     \/ request = "program" /\ ret = 0
  /\ job' = job + 1 /\ request' = "none"
  /\ UNCHANGED <<board, flash, writable, eccpos, err, op, e, p, r, ret, hit, erasedTo>>

Finished == Done /\ UNCHANGED vars

Driver == DriverStep /\ UNCHANGED <<job, request, erasedTo>>

Next == Driver \/ HandleErase \/ HandleProgram \/ HandleRead \/ NextJob \/ Finished

Spec == Init /\ [][Next]_vars

\* The loops run without interruption; the host goes on to its last job.
FairSpec == Spec /\ WF_vars(Next)

-----------------------------------------------------------------------------
(***************************************************************************)
(* Properties                                                              *)
(***************************************************************************)

TypeOK ==
  /\ board \in Boards
  /\ flash \in [Pages -> PageValues]
  /\ writable \in BOOLEAN
  /\ eccpos \in Nat /\ err \in {0, 1}
  /\ op \in {"idle", "erase", "program", "clean", "read"}
  /\ e.n \in Nat /\ e.blk \in Nat /\ e.i \in Nat /\ e.num \in Nat
  /\ e.good \in Nat /\ e.lost \in Nat
  /\ p.cur \in Nat /\ p.i \in Nat /\ r.cur \in Nat /\ r.cnt \in Nat
  /\ hit \subseteq board.faults
  /\ job \in 1 .. Len(board.jobs) + 1
  /\ request \in {"none", "erase", "program", "refused", "read"}
  /\ erasedTo \in Nat

Erased1  == request = "erase" /\ ~Busy
Stored1  == request = "program" /\ ~Busy /\ ret # 0
ReadBack1 == request = "read" /\ ~Busy

\* What nand_erase makes up for each block it could not erase.
MadeUp == IF chip = 4740 THEN board.plane ELSE board.plane - 1

\* A finished nand_erase has erased the blocks it was asked for, and nand_plane
\* more (one less on all but the 4740) for each bad block it met; it says where
\* it stopped.  The loop's own counter and the bound it moves decide this.
EraseCounts ==
  Erased1 => /\ e.good = e.n + MadeUp * e.lost
             /\ ret = (e.from + e.good + e.lost) * Ppb

\* The mark is anywhere in the block.
Marked(b) == \E q \in PagesOf(b) : flash[q].bad

\* The driver can see the marks it makes and those from the factory: not the 4760
\* with a page number outside the block, or one of a page that it does not mark, nor
\* a board whose code covers them.
MarksMeanBad ==
  /\ chip = 4760 => board.bbpage \in {0, 1, Ppb - 2, Ppb - 1}
  /\ chip \in {4740, 4750} => board.eccpos # 0

\* A failing erase leaves the 4740, 4750 and 4760 write-protected for the rest.
StaysWritable == ~(board.wp /\ chip # 4770 /\ "erase" \in hit)

\* When nand_erase has finished, every block up to where it stopped is blank or
\* marked bad: a block that failed cannot be taken for an erased one.
ErasedOrMarked ==
  (Erased1 /\ MarksMeanBad /\ StaysWritable) =>
     \A b \in e.from .. (ret \div Ppb) - 1 :
        Marked(b) \/ \A q \in PagesOf(b) : flash[q] = Blank

SplStart == HasSplPages /\ J.start = 0
SplCount == IF SplStart THEN SplPages ELSE 0

\* The pages that should hold the image: those of good blocks up to ret.
ImagePages ==
  {n \in (IF SplStart THEN 2 * Ppb ELSE J.start * Ppb) .. ret - 1 : ~IsBad(n \div Ppb)}

ImagePage(n) == J.image[SplCount + 1 + Cardinality({m \in ImagePages : m < n})]

HoldsImage ==
  /\ Cardinality(ImagePages) = Len(J.image) - SplCount
  /\ \A n \in ImagePages : flash[PageAt(n)].data = ImagePage(n)
  /\ \A k \in 0 .. SplCount - 1 : SplPage(k) = J.image[k + 1]

\* The host erased as far as the image went, which is not once round the chip, and
\* the erase did its work; no more does the erase after a page failure come round to
\* the start of the image; the blocks of the boot loader, which are not checked before
\* it is written, could be erased.
RoomForImage ==
  /\ erasedTo * Ppb >= ret /\ ret <= (J.start + NBlocks) * Ppb
  /\ p.spage # J.start * Ppb => e.blk <= J.start + NBlocks
  /\ StaysWritable
  /\ SplStart => \A b \in Blocks : b * Ppb < 2 * SplPages => ~Marked(b)

\* A page failure the restart in nand_program can repair: in the image's first
\* block, and on a board without a write-protect pin.
Repairable == "first" \in hit => ~board.wp

\* After nand_program the good blocks hold the image in order, bad ones are passed
\* over, and damaged data was never written; also after the one kind of page failure
\* the driver can repair.
Stored ==
  (Stored1 /\ board.layout /\ MarksMeanBad /\ RoomForImage /\ Repairable
     /\ hit \cap {"later", "spl"} = {})
  => HoldsImage

\* "Skip a write fail block": a page failure in the image's first block makes the
\* driver go on with the next one, and the image is stored there.
SkipsWriteFailBlock ==
  (Stored1 /\ board.layout /\ MarksMeanBad /\ RoomForImage /\ hit \subseteq {"first"})
  => HoldsImage

\* Where the code is to be, for the boot ROM and for what reads the flash later.
CodeToBe(n) ==
  LET conf == InitialEccpos(board)
      pos == CASE chip = 4740 /\ n < SplPages -> 6
               [] chip = 4750 /\ n < SplPages -> 3
               [] OTHER -> conf
  IN  PageCode(pos, IF chip \in {4750, 4760} THEN conf \div EccCnt ELSE 0, J.option)

\* A job whose last page read is one of the boot loader's.
ReadsLoader(x) == x.start = 0 /\ Len(x.image) <= SplPages

\* The last job that was not refused was such a one.
LoaderReadLast ==
  \/ job > 1 /\ ReadsLoader(board.jobs[job - 1])
  \/ job > 2 /\ "usb" \in hit /\ ReadsLoader(board.jobs[job - 2])

\* The pages of a stored image have their code where the configuration says, the boot
\* loader's where the boot ROM looks.  Not so on a 4740 after a failure in the boot
\* loader's block; nor on a 4750, of an image with spare bytes, when its own first pages
\* are in the boot loader's place and one of them fails, or when a boot loader was read
\* before (a request that is refused does not put eccpos right again).
CodeAsConfigured ==
  (/\ Stored1 /\ HoldsImage /\ board.layout /\ hit \cap {"later", "spl"} = {}
   /\ RoomForImage /\ Repairable /\ MarksMeanBad
   /\ ~(chip = 4740 /\ "first" \in hit /\ \E i \in 1 .. job : board.jobs[i].start = 0)
   /\ ~(/\ chip = 4750 /\ J.option # "NO_OOB"
        /\ LoaderReadLast \/ ("first" \in hit /\ J.start = 0)))
  => \A n \in ImagePages : flash[PageAt(n)] = Blank \/ flash[PageAt(n)].code = CodeToBe(n)

\* The count may have been cleared: by a page that could be corrected, or by the
\* check of one of the blocks read, when the spare bytes of its mark could.
MayBeCleared ==
  "few" \in hit \/ \E b \in J.start .. (ret - 1) \div Ppb : CheckMayErr(b)

\* Every page read back from a stored image is right, or the error count in the
\* handshake says that one is not: unless a page could not be corrected and something
\* that could be cleared the count.
ReadBack ==
  (/\ ReadBack1 /\ board.layout /\ MarksMeanBad /\ HoldsImage
   /\ "many" \in hit => ~MayBeCleared)
  => r.buf = J.image \/ err = 1

\* Spare bytes that the 4750 and the 4760 may take for damaged: of a block that failed,
\* and of the blocks that were checked before they were erased, written and read.
LooksDamaged ==
  \/ chip \in {4750, 4760} /\ hit \cap {"first", "later"} # {}
  \/ \E b \in (J.start .. erasedTo - 1) \cup (J.start .. p.cur \div Ppb)
            \cup (J.start .. ret \div Ppb) : CheckMayErr(b)

\* Neither the program nor the read went round the chip and over the image's start.
OnceRound ==
  LET top == (J.start + NBlocks) * Ppb IN p.cur <= top /\ ret <= top

\* The first job that reads back a stored image without meeting an error does not
\* report one, but in three cases: blank pages on the 4770; bad blocks, code among the
\* first spare bytes or what was stored before on the 4750 and 4760, where the count
\* also lasts from one request to the next; the boot loader on the 4740.
NoFalseAlarm ==
  (/\ ReadBack1 /\ job = 1 /\ board.layout /\ MarksMeanBad /\ HoldsImage /\ OnceRound
   /\ "many" \notin hit
   /\ \A i \in 1 .. Len(J.image) : J.image[i] # Spoilt /\ ~(chip = 4770 /\ J.image[i] = Ff)
   /\ ~LooksDamaged /\ ~(chip \in {4750, 4760} /\ board.full)
   /\ ~(chip = 4740 /\ J.start = 0))
  => err = 0

\* Pages of the boot loader, written without a look at the marks of their block.
UnderLoader(q) == op = "program" /\ SplTurn /\ q < 2 * SplPages

\* Unless the user forces it, no operation changes a page of a block that is marked
\* bad, anywhere in it, but for the boot loader of the 4760 and the 4770.  The erase
\* after a page failure (op "clean") is forced, and goes on into the next block when
\* it fails.
MarksKept ==
  [][ (~board.force /\ MarksMeanBad /\ op # "clean") =>
        \A b \in Blocks : Marked(b) =>
          \A q \in PagesOf(b) : flash'[q] = flash[q] \/ UnderLoader(q) ]_vars

\* With enough good blocks every request is answered and the host comes to the end
\* of its jobs.
SessionEnds == <>Done
=============================================================================
