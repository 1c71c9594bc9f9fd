----------------------------- MODULE NandDriver -----------------------------
(***************************************************************************)
(* nand_erase, nand_program, nand_read and nand_mark_bad of the four NAND  *)
(* drivers, nandflash_4740.c, _4750.c, _4760.c and _4770.c, one turn of a  *)
(* loop at a time.  Where the four agree the action is shared; where they  *)
(* differ it asks which chip the board has.                                *)
(***************************************************************************)
EXTENDS NandFlash, Sequences

CONSTANTS
  Boards,    \* what fw_cfg_tool and the user may set up, see BoardType
  SplPages,  \* pages of the boot loader: 8 on the 4740, spl_size elsewhere
  EccCnt     \* codes in a page: pagesize / ECC_BLOCK

Chips == {4740, 4750, 4760, 4770}

\* Faults of the chip and of the cable: an erase that fails; a page that cannot
\* be programmed in the first block of an image or in a later one; the erase
\* after that; a boot loader page; data damaged on the cable; a page with
\* errors the code can correct, and with errors it cannot.
Faults == {"erase", "first", "later", "clean", "spl", "usb", "few", "many"}

JobType == [start : Nat, nblk : Nat, image : Seq(Data), option : {"NO_OOB", "OOB"}]

BoardType ==
  [chip   : Chips,
   bbpage : Nat,             \* Hand.nand_bbpage
   eccpos : Nat,             \* Hand.nand_eccpos
   plane  : Nat,             \* Hand.nand_plane
   wp     : BOOLEAN,         \* Hand.nand_wppin # 0
   force  : BOOLEAN,         \* Hand.nand_force_erase
   layout : BOOLEAN,         \* what nand_init_4770 takes from the stack is right
   bad    : SUBSET Blocks,   \* blocks marked at the factory
   full   : BOOLEAN,         \* the flash was used before
   faults : SUBSET Faults,   \* faults that may happen
   jobs   : Seq(JobType)]

ASSUME DriverAssumptions ==
  /\ Boards \subseteq BoardType
  /\ \A b \in Boards : b.chip # 4770 => b.layout
  /\ SplPages \in Nat \ {0} /\ EccCnt \in Nat \ {0}
  /\ 2 * SplPages <= Ppb /\ 2 * SplPages <= NBlocks * Ppb    \* 16 KB is a block at most
  /\ \A b \in Boards : b.chip \in {4760, 4770} =>
       \A i \in 1 .. Len(b.jobs) :    \* a boot loader comes with all of its pages
         b.jobs[i].start = 0 => Len(b.jobs[i].image) >= SplPages

VARIABLES
  board,   \* never changes
  flash,
  writable,  \* the write-protect pin is high, or there is none
  eccpos,    \* the global eccpos (ecc_pos in nandflash_4740.c)
  err,       \* handshake_PKT[3]
  op,        \* the loop that runs: "idle" "erase" "program" "clean" "read"
  e,         \* locals of nand_erase, with the blocks erased and not erased
  p,         \* locals of nand_program
  r,         \* locals of nand_read
  ret,       \* what the last operation returned
  hit        \* faults that have happened, each at most once

driverVars == <<board, flash, writable, eccpos, err, op, e, p, r, ret, hit>>

chip == board.chip
HasSplPages == chip \in {4760, 4770}
PinHigh == TRUE
PinLow  == ~board.wp
MayFail(f) == f \in board.faults \ hit

\* nand_init: on all but the 4740 position 0 means 3.
InitialEccpos(b) == IF b.eccpos = 0 /\ b.chip # 4740 THEN 3 ELSE b.eccpos

NoErase   == [from |-> 0, n |-> 0, blk |-> 0, i |-> 0, num |-> 0, force |-> FALSE,
              failed |-> {}, good |-> 0, lost |-> 0]
NoProgram == [image |-> <<>>, option |-> "NO_OOB", spage |-> 0, cur |-> 0, i |-> 0,
              sav |-> 0, per |-> 0]
NoRead    == [n |-> 0, option |-> "NO_OOB", cur |-> 0, cnt |-> 0, per |-> 0,
              buf |-> <<>>]

DriverInit ==
  /\ board \in Boards
  /\ flash = FlashWith(board.bad, board.full)
  /\ writable = ~board.wp
  /\ eccpos = InitialEccpos(board)
  /\ err = 0 /\ op = "idle" /\ ret = 0 /\ hit = {}
  /\ e = NoErase /\ p = NoProgram /\ r = NoRead

-----------------------------------------------------------------------------
(***************************************************************************)
(* nand_check_block and nand_mark_bad                                      *)
(***************************************************************************)

FourPages(b) == {b * Ppb, b * Ppb + 1, b * Ppb + Ppb - 2, b * Ppb + Ppb - 1}

\* The 4760 always looks at one page, of the next block when bbpage is too large.
CheckedPages(b) ==
  IF board.bbpage >= Ppb /\ chip # 4760
  THEN FourPages(b) ELSE {b * Ppb + board.bbpage}

IsBad(b) == \E n \in CheckedPages(b) : flash[PageAt(n)].bad

\* read_oob of the 4750 and the 4760 takes the first 16 spare bytes for data with
\* a code of their own: those of a bad block, or a page's code, look damaged.
\* What cannot be corrected sets handshake_PKT[3], what can be clears it.
CheckMayErr(b) ==
  /\ chip \in {4750, 4760}
  /\ \E n \in CheckedPages(b) :
       LET pg == flash[PageAt(n)]
       IN  pg.data = Spoilt \/ pg.bad \/ (pg.code[1] = "page" /\ pg.code[2] < 16)

ErrAfterCheck(b) == IF CheckMayErr(b) THEN {err, 0, 1} ELSE {err}

MarkedPages(b) ==
  IF board.bbpage >= Ppb \/ chip = 4760 THEN FourPages(b) ELSE {b * Ppb + board.bbpage}

\* Mutant: a block that failed is only passed over.
MarkedBadNot(f, blks) == f

\* nand_mark_bad raises the write-protect pin before each page and drops it after.
MarkedBad(f, blks) ==
  LET marked == {PageAt(n) : n \in UNION {MarkedPages(b) : b \in blks}}
  IN  [q \in Pages |-> IF q \in marked THEN Over(f[q], Zeros) ELSE f[q]]

-----------------------------------------------------------------------------
(***************************************************************************)
(* nand_erase                                                              *)
(***************************************************************************)

EraseOf(n, blk, force) ==
  [NoErase EXCEPT !.from = blk, !.n = n, !.blk = blk, !.num = n, !.force = force]

\* Mutant: a block that was not erased is not made up for.
PassedOverOnce(x) ==
  [x EXCEPT !.blk = @ + 1, !.lost = @ + 1, !.i = IF chip = 4740 THEN @ ELSE @ + 1]

\* A block not erased makes the loop longer by nand_plane; only the 4740 does not
\* count it as a turn.
PassedOver(x) ==
  [x EXCEPT !.blk = @ + 1, !.num = @ + board.plane, !.lost = @ + 1,
            !.i = IF chip = 4740 THEN @ ELSE @ + 1]

EraseSkip ==
  /\ op \in {"erase", "clean"} /\ e.i < e.num
  /\ ~e.force /\ IsBad(e.blk)
  /\ e' = PassedOver(e)
  /\ err' \in ErrAfterCheck(e.blk)
  /\ UNCHANGED <<board, flash, writable, eccpos, op, p, r, ret, hit>>

\* Mutant: the block is not looked at before it is erased.
EraseCheckedBlindly ==
  /\ op \in {"erase", "clean"} /\ e.i < e.num
  /\ err' = err

EraseChecked ==
  /\ op \in {"erase", "clean"} /\ e.i < e.num
  /\ e.force \/ ~IsBad(e.blk)
  /\ err' \in IF e.force THEN {err} ELSE ErrAfterCheck(e.blk)

\* A protected chip does nothing and reports no error.
EraseBlock ==
  /\ EraseChecked
  /\ flash' = IF writable THEN Erased(flash, e.blk) ELSE flash
  /\ e' = [e EXCEPT !.blk = @ + 1, !.i = @ + 1, !.good = @ + 1]
  /\ UNCHANGED <<board, writable, eccpos, op, p, r, ret, hit>>

\* The 4770 notes the block and marks it after the loop; the others mark it now,
\* which leaves the chip write-protected.
EraseFails ==
  /\ EraseChecked /\ writable
  /\ LET fault == IF op = "clean" THEN "clean" ELSE "erase"
     IN  MayFail(fault) /\ hit' = hit \cup {fault}
  /\ IF chip = 4770
     THEN /\ e' = [PassedOver(e) EXCEPT !.failed = @ \cup {e.blk}]
          /\ UNCHANGED <<flash, writable>>
     ELSE /\ e' = PassedOver(e)
          /\ flash' = MarkedBad(flash, {e.blk})
          /\ writable' = PinLow
  /\ UNCHANGED <<board, eccpos, op, p, r, ret>>

-----------------------------------------------------------------------------
(***************************************************************************)
(* nand_program                                                            *)
(***************************************************************************)

\* The values at the label restart.
RestartAt(x, spage) ==
  [x EXCEPT !.spage = spage, !.cur = spage, !.i = 0,
            !.sav = IF chip = 4740 THEN eccpos ELSE board.eccpos,
            !.per = IF chip \in {4750, 4760} THEN eccpos \div EccCnt ELSE 0]

\* Mutant: the code of the boot loader's pages is where the others have it.
EccposAtSame(page, sav) == sav

\* Boot loader pages have their code where the boot ROM looks for it.
EccposAt(page, sav) ==
  IF chip \notin {4740, 4750} THEN eccpos
  ELSE IF page < SplPages THEN IF chip = 4740 THEN 6 ELSE 3
  ELSE sav

PageCode(pos, per, option) == Code(pos, IF option = "NO_OOB" THEN 0 ELSE per)

\* What a page holds once written: the bad block byte is 0, and code at 0 covers it.
PageOf(data, pos, per, option) ==
  Page(IF board.layout THEN data ELSE Spoilt, PageCode(pos, per, option), pos = 0)

Programming == op = "program" /\ p.i < Len(p.image)
SplTurn == HasSplPages /\ p.cur = 0

\* program_nand_spl_page for the whole boot loader; what it returns is ignored.
ProgramSpl ==
  /\ Programming /\ SplTurn
  /\ \E failed \in SUBSET (0 .. SplPages - 1) :
       /\ failed # {} => MayFail("spl") /\ writable
       /\ hit' = IF failed = {} THEN hit ELSE hit \cup {"spl"}
       /\ flash' = IF ~writable THEN flash ELSE
            [q \in Pages |->
               LET k == q \div 2 IN
               IF q >= 2 * SplPages THEN flash[q]
               ELSE IF q % 2 = 0
               THEN Over(flash[q], IF k \in failed THEN Old
                                   ELSE Page(p.image[k + 1], SplData, FALSE))
               ELSE IF k \in failed THEN flash[q]
                    ELSE Over(flash[q], Page(p.image[k + 1], SplCode, FALSE))]
  /\ p' = [p EXCEPT !.cur = 2 * Ppb, !.i = @ + SplPages]
  /\ UNCHANGED <<board, writable, eccpos, err, op, e, r, ret>>

FirstOfBlock(n) == n % Ppb = 0

\* Mutant: a bad block is looked at again.
ProgramSkipStays ==
  /\ Programming /\ ~SplTurn
  /\ FirstOfBlock(p.cur) /\ IsBad(p.cur \div Ppb)
  /\ eccpos' = EccposAt(p.cur, p.sav)
  /\ err' \in ErrAfterCheck(p.cur \div Ppb)
  /\ UNCHANGED <<board, flash, writable, op, e, p, r, ret, hit>>

ProgramSkip ==
  /\ Programming /\ ~SplTurn
  /\ FirstOfBlock(p.cur) /\ IsBad(p.cur \div Ppb)
  /\ eccpos' = EccposAt(p.cur, p.sav)
  /\ err' \in ErrAfterCheck(p.cur \div Ppb)
  /\ p' = [p EXCEPT !.cur = @ + Ppb]
  /\ UNCHANGED <<board, flash, writable, op, e, r, ret, hit>>

ProgramChecked ==
  /\ Programming /\ ~SplTurn
  /\ FirstOfBlock(p.cur) => ~IsBad(p.cur \div Ppb)
  /\ eccpos' = EccposAt(p.cur, p.sav)
  /\ err' \in IF FirstOfBlock(p.cur) THEN ErrAfterCheck(p.cur \div Ppb) ELSE {err}

OnePageOn(x) == [x EXCEPT !.cur = @ + 1, !.i = @ + 1]

\* With spare bytes in the image, a page of nothing but 0xff is not written.
ProgramNothing ==
  /\ ProgramChecked
  /\ p.option # "NO_OOB" /\ p.image[p.i + 1] = Ff
  /\ p' = OnePageOn(p)
  /\ UNCHANGED <<board, flash, writable, op, e, r, ret, hit>>

WritesPage ==
  /\ ProgramChecked
  /\ p.option = "NO_OOB" \/ p.image[p.i + 1] # Ff

ProgramPage ==
  /\ WritesPage
  /\ flash' = IF writable
              THEN Programmed(flash, p.cur,
                     PageOf(p.image[p.i + 1], eccpos', p.per, p.option))
              ELSE flash
  /\ p' = OnePageOn(p)
  /\ UNCHANGED <<board, writable, op, e, r, ret, hit>>

\* The image's pages so far are all in the block that fails.
InFirstBlock == p.i = p.cur % Ppb

\* The page fails: its block is erased whatever its marks say (op "clean").
ProgramFails ==
  /\ WritesPage /\ writable
  /\ LET fault == IF InFirstBlock THEN "first" ELSE "later"
     IN  MayFail(fault) /\ hit' = hit \cup {fault}
  /\ flash' = Programmed(flash, p.cur, Old)
  /\ op' = "clean"
  /\ e' = EraseOf(1, p.cur \div Ppb, TRUE)
  /\ writable' = PinHigh
  /\ UNCHANGED <<board, p, r, ret>>

\* Then it is marked, which leaves the chip write-protected, and the image is
\* started again one block further on; the 4760 returns 0 instead.
CleanEnd ==
  /\ op = "clean" /\ e.i >= e.num
  /\ flash' = MarkedBad(flash, e.failed \cup {p.cur \div Ppb})
  /\ writable' = PinLow
  /\ IF chip = 4760
     THEN op' = "idle" /\ ret' = 0 /\ UNCHANGED p
     ELSE op' = "program" /\ p' = RestartAt(p, p.spage + Ppb) /\ UNCHANGED ret
  /\ UNCHANGED <<board, eccpos, err, e, r, hit>>

ProgramEnd ==
  /\ op = "program" /\ p.i >= Len(p.image)
  /\ op' = "idle" /\ ret' = p.cur
  /\ writable' = PinLow
  /\ eccpos' = IF chip \in {4740, 4750} THEN p.sav ELSE eccpos
  /\ UNCHANGED <<board, flash, err, e, p, r, hit>>

-----------------------------------------------------------------------------
(***************************************************************************)
(* nand_read                                                               *)
(***************************************************************************)

Reading == op = "read" /\ r.cnt < r.n
SplRead == HasSplPages /\ r.cur < 2 * SplPages

\* The boot loader's page k; errors that cannot be corrected are only printed.
SplPage(k) ==
  IF flash[2 * k].code = SplData /\ flash[2 * k + 1] = Page(flash[2 * k].data, SplCode, FALSE)
  THEN flash[2 * k].data ELSE Spoilt

ReadSpl ==
  /\ Reading /\ SplRead
  /\ LET m == IF r.n < SplPages THEN r.n ELSE SplPages
     IN  r' = [r EXCEPT !.cur = 2 * Ppb, !.cnt = SplPages,
                        !.buf = [k \in 1 .. m |-> SplPage(k - 1)]]
  /\ UNCHANGED <<board, flash, writable, eccpos, err, op, e, p, ret, hit>>

ReadEccpos == IF chip = 4750 THEN EccposAt(r.cur, board.eccpos) ELSE eccpos

ReadSkip ==
  /\ Reading /\ ~SplRead
  /\ FirstOfBlock(r.cur) /\ IsBad(r.cur \div Ppb)
  /\ eccpos' = ReadEccpos
  /\ err' \in ErrAfterCheck(r.cur \div Ppb)
  /\ r' = [r EXCEPT !.cur = @ + Ppb]
  /\ UNCHANGED <<board, flash, writable, op, e, p, ret, hit>>

\* Mutant: a blank page is an error on every chip.
DecodedStrictly(pg, pos, was) ==
  IF pg.data # Spoilt /\ pg.code = PageCode(pos, r.per, r.option)
  THEN [data |-> pg.data, errs |-> {was}]
  ELSE [data |-> pg.data, errs |-> {1}]

\* The data delivered and the possible values of err after it.  A blank page is
\* no error but on the 4770, where flag is always 1; when the page layout came off
\* the stack wrong, anything may be compared.
Decoded(pg, pos, was) ==
  IF ~board.layout THEN [data |-> Spoilt, errs |-> {was, 1}]
  ELSE IF pg = Blank
  THEN [data |-> Ff, errs |-> IF chip = 4770 THEN {1} ELSE {was}]
  ELSE IF pg.data # Spoilt /\ pg.code = PageCode(pos, r.per, r.option)
  THEN [data |-> pg.data, errs |-> {was}]
  ELSE [data |-> pg.data, errs |-> {1}]

\* Mutant: an error that cannot be corrected is not reported.
DamagedQuiet(pg, was) == [data |-> Spoilt, errs |-> {was}]

\* Mutant: errors are counted.
DamagedCounted(pg, was) == [data |-> Spoilt, errs |-> {was + 1}]

\* Errors the code cannot correct.
Damaged(pg, was) == [data |-> Spoilt, errs |-> {1}]

\* Errors it can: err is cleared, whatever an earlier page left there.
Corrected(pg) == [data |-> pg.data, errs |-> {0}]

ReadPage ==
  /\ Reading /\ ~SplRead
  /\ FirstOfBlock(r.cur) => ~IsBad(r.cur \div Ppb)
  /\ eccpos' = ReadEccpos
  /\ \E was \in IF FirstOfBlock(r.cur) THEN ErrAfterCheck(r.cur \div Ppb) ELSE {err} :
       LET pg == flash[PageAt(r.cur)]
           Gets(fault, page) ==
             /\ hit' = hit \cup fault
             /\ err' \in page.errs
             /\ r' = [r EXCEPT !.cur = @ + 1, !.cnt = @ + 1, !.buf = Append(@, page.data)]
       IN  \/ Gets({}, Decoded(pg, eccpos', was))
           \/ MayFail("many") /\ pg # Blank /\ Gets({"many"}, Damaged(pg, was))
           \/ /\ MayFail("few")
              /\ board.layout /\ pg.code = PageCode(eccpos', r.per, r.option)
              /\ Gets({"few"}, Corrected(pg))
  /\ UNCHANGED <<board, flash, writable, op, e, p, ret>>

ReadEnd ==
  /\ op = "read" /\ r.cnt >= r.n
  /\ op' = "idle" /\ ret' = r.cur
  /\ UNCHANGED <<board, flash, writable, eccpos, err, e, p, r, hit>>

-----------------------------------------------------------------------------
(***************************************************************************)
(* The calls.  nand_read_4740 alone clears handshake_PKT[3] first.         *)
(***************************************************************************)

nand_erase(n, blk) ==
  /\ op' = "erase" /\ e' = EraseOf(n, blk, board.force)
  /\ writable' = PinHigh
  /\ UNCHANGED <<board, flash, eccpos, err, p, r, ret, hit>>

EraseEnd ==
  /\ op = "erase" /\ e.i >= e.num
  /\ op' = "idle" /\ ret' = e.blk * Ppb
  /\ flash' = MarkedBad(flash, e.failed)
  /\ writable' = PinLow
  /\ UNCHANGED <<board, eccpos, err, e, p, r, hit>>

nand_program(image, spage, option) ==
  /\ op' = "program"
  /\ p' = RestartAt([NoProgram EXCEPT !.image = image, !.option = option], spage)
  /\ writable' = PinHigh
  /\ UNCHANGED <<board, flash, eccpos, err, e, r, ret, hit>>

nand_read(spage, n, option) ==
  /\ op' = "read"
  /\ r' = [NoRead EXCEPT !.n = n, !.option = option, !.cur = spage,
             !.per = IF chip \in {4750, 4760} THEN eccpos \div EccCnt ELSE 0]
  /\ err' = IF chip = 4740 THEN 0 ELSE err
  /\ UNCHANGED <<board, flash, writable, eccpos, e, p, ret, hit>>

DriverStep ==
  \/ EraseSkip \/ EraseBlock \/ EraseFails \/ EraseEnd
  \/ ProgramSpl \/ ProgramSkip \/ ProgramNothing \/ ProgramPage \/ ProgramFails
  \/ CleanEnd \/ ProgramEnd
  \/ ReadSpl \/ ReadSkip \/ ReadPage \/ ReadEnd
=============================================================================
