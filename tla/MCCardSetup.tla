---------------------------- MODULE MCCardSetup ----------------------------
(***************************************************************************)
(* CardSetup for two cards one after the other.                            *)
(***************************************************************************)
EXTENDS CardSetup

Card(kind, hw) == [kind |-> kind, hw |-> hw]

Cards == {Card("SD", "0208"), Card("MMC", "0208"), Card("SD", "0107"),
          Card("MMC", "000D"), Card("SD", "other"), Card("SD", "ITE")}

Opening == <<"query", "open", "init", "program", "swap", "open">>
Writing == <<"init", "program", "swap", "init", "program">>

Board(c, d, session, pinRight, faults) ==
  [cards |-> <<c, d>>, session |-> session, pin |-> pinRight, faults |-> faults]

\* Every pair of cards with each fault, and with pairs of them on one card.
TwoCards ==
  {Board(c, d, Opening, TRUE, {f}) : c \in Cards, d \in Cards, f \in Faults}
  \cup {Board(c, d, Writing, TRUE, {f}) :
          c \in {Card("SD", "0208"), Card("MMC", "0208")},
          d \in {Card("SD", "other"), Card("MMC", "000D")}, f \in Faults}

WrongPin ==
  {Board(c, d, Opening, FALSE, {"status"}) : c \in Cards, d \in Cards}

\* The card is opened again after a failure.
Again == <<"query", "open", "open", "init", "program">>
TwoFaults ==
  {Board(c, c, Again, TRUE, {f, g}) : c \in Cards, f \in Faults, g \in Faults}

AllBoards == TwoCards \cup WrongPin \cup TwoFaults
=============================================================================
