----------------------------- MODULE NandFlash -----------------------------
(***************************************************************************)
(* The NAND flash chip as the drivers in nandflash/ use it: pages that are *)
(* programmed once and erased by the block.  A page is its data, where the *)
(* error correcting code lies in it, and whether its bad block byte is     *)
(* other than 0xff.                                                        *)
(***************************************************************************)
EXTENDS Integers, FiniteSets

CONSTANTS
  Ppb,      \* pages in a block
  NBlocks,  \* blocks in the chip
  Images    \* names of the pages a host may want to store

ASSUME FlashAssumptions ==
  /\ Ppb \in Nat \ {0, 1}
  /\ NBlocks \in Nat \ {0}

Blocks  == 0 .. NBlocks - 1
Pages   == 0 .. NBlocks * Ppb - 1

Ff      == "0xff"      \* nothing but 0xff
Spoilt  == "spoilt"    \* programmed twice, or zeros
Data    == Images \cup {Ff, Spoilt}

\* Where the code is: kind of page, position in the spare bytes and the number
\* of spare bytes each code covers.
NoCode        == <<"none", 0, 0>>
Code(pos, per) == <<"page", pos, per>>
SplData       == <<"spl", 0, 0>>   \* page 2k, its code is in page 2k + 1
SplCode       == <<"code", 0, 0>>
Codes         == {"none", "page", "spl", "code"} \X Nat \X Nat

Page(data, code, bad) == [data |-> data, code |-> code, bad |-> bad]
Blank      == Page(Ff, NoCode, FALSE)
Zeros      == Page(Spoilt, NoCode, TRUE)
PageValues == [data : Data, code : Codes, bad : BOOLEAN]

\* The higher address lines are not connected.
PageAt(n)  == n % (NBlocks * Ppb)
BlockAt(n) == n % NBlocks
PagesOf(b) == {q \in Pages : q \div Ppb = BlockAt(b)}

\* Programming can clear bits and never set one.
Over(old, new) ==
  IF old \in {Blank, new} THEN new ELSE Page(Spoilt, NoCode, old.bad \/ new.bad)

Programmed(flash, n, new) == [flash EXCEPT ![PageAt(n)] = Over(@, new)]
Erased(flash, b) == [q \in Pages |-> IF q \in PagesOf(b) THEN Blank ELSE flash[q]]

\* Something that was stored before.
Old == Page(Spoilt, NoCode, FALSE)

\* A flash with blocks marked bad at the factory, new or full.
FlashWith(bad, full) ==
  [q \in Pages |-> IF q \div Ppb \in bad THEN Zeros ELSE IF full THEN Old ELSE Blank]
=============================================================================
