----------------------------- MODULE CardSetup -----------------------------
(***************************************************************************)
(* The requests that set a card up: CARD_QUERY_HW and CARD_OPEN_CARD       *)
(* (open_card.c), which write the firmware of a blank Skymedi card, and    *)
(* CARD_INIT and the wait at the end of CARD_PROGRAM (mmc_com.c), which    *)
(* share the card's address with them.  No host program in the repository  *)
(* sends the first two; the host here goes through a session of requests   *)
(* and of cards that are changed.                                          *)
(***************************************************************************)
EXTENDS Naturals, Sequences

CONSTANTS
  Boards  \* sessions, see BoardType

\* A card that does not get ready; one that is not in the state it should be in; a
\* transfer that fails; a write of the parameters, or an erase, nobody looks at; a low
\* level format that fails; firmware data stored wrong; CMD41 not answered.
Faults == {"ocr", "status", "transfer", "param", "erase", "llf", "corrupt", "cmd41"}

Styles   == {"6633SD", "6633MMC", "6617SD", "6811MMC"}
Requests == {"query", "open", "init", "program", "swap"}

\* Kind of card and the hardware version it reports, or another maker's.
CardType == [kind : {"SD", "MMC"}, hw : {"0208", "0107", "000D", "other", "ITE"}]

BoardType == [cards   : Seq(CardType),   \* inserted one after the other
              session : Seq(Requests),
              pin     : BOOLEAN,         \* the power pin the host names is the right one
              faults  : SUBSET Faults]

ASSUME CardAssumptions ==
  \A b \in Boards :
    /\ b \in BoardType /\ b.cards # <<>>
    /\ \A i \in 1 .. Len(b.session) : b.session[i] = "swap" => Len(b.cards) > 1

VARIABLES
  board,      \* never changes
  slot,       \* the card, see NewCard
  n,          \* requests taken from the session
  todo,       \* what is left of the running request
  ret,        \* what the last request, or its last step, returned
  style,      \* sk_hw_style
  card_type,  \* card_prameter.card_type
  rca,        \* the upper half of rca: 0 for an MMC, 1 for an SD card
  pin,        \* mmc_power_pin: "unset", "right" or "wrong"
  buf,        \* Bulk_in_buf
  hit         \* faults that have happened, each at most once

vars == <<board, slot, n, todo, ret, style, card_type, rca, pin, buf, hit>>

MayFail(f) == f \in board.faults \ hit
Idle == todo = <<>>
Done == Idle /\ n >= Len(board.session)

-----------------------------------------------------------------------------
(***************************************************************************)
(* The card                                                                *)
(***************************************************************************)

\* What it was told to be by CMD3 and CMD60, what runs on its controller, and what is
\* stored on it: the formats done, their status, the firmware data twice, the CID;
\* and whose files it was given.
NewCard(c) ==
  [type |-> c, on |-> TRUE, tran |-> FALSE, addr |-> 0, func |-> "none",
   helper |-> "none", llf |-> {}, status |-> "none", fdm |-> <<"none", "none">>,
   cid |-> "none", given |-> {}]

Cycled(c) == [c EXCEPT !.on = TRUE, !.tran = FALSE, !.addr = 0, !.func = "none",
                       !.helper = "none"]

\* CMD13 is answered by the card it is addressed to.
Answers == slot.on /\ slot.tran /\ slot.addr = rca

StyleOf(c) ==
  CASE c.hw = "0208" -> IF c.kind = "MMC" THEN "6633MMC" ELSE "6633SD"
    [] c.hw = "000D" -> "6811MMC"
    [] c.hw = "0107" -> "6617SD"
    [] OTHER         -> "none"

-----------------------------------------------------------------------------
(***************************************************************************)
(* The requests as sequences of steps                                      *)
(***************************************************************************)

Step(do, arg) == <<[do |-> do, arg |-> arg]>>
Power     == Step("power", "")
OpenInit  == Step("init", "must work")
Read      == Step("read", "")
SetFunc(f) == Step("func", f)

\* The loader of a stage: one file, sixteen on the 6633, none for an unknown style.
Load(s, stage) == IF s \in Styles THEN Step("load", stage) ELSE <<>>

SdStyles == {"6633SD", "6617SD"}

\* Mutant: the second copy of the firmware data is not compared.
FdmWrittenOnly(i) ==
  Step("fdm", i) \o Step("readback", i) \o (IF i = 1 THEN Step("compare", i) ELSE <<>>)

Fdm(i) == Step("fdm", i) \o Step("readback", i) \o Step("compare", i)

make_CID(s) ==
  SetFunc("55") \o SetFunc("57") \o Load(s, "erase") \o SetFunc("56")
  \o Step("cid", "") \o Power

SecondFormat(s) ==
  SetFunc("57") \o Load(s, "llf2") \o SetFunc("56")
  \o Step("param", "ignored") \o Step("status", "")
  \o SetFunc("57") \o (IF s \in SdStyles THEN Load(s, "erase") ELSE <<>>) \o SetFunc("56")

Prepare == Power \o OpenInit \o SetFunc("55") \o SetFunc("57")

Identify == Read \o Read \o SetFunc("AA") \o Step("width", "") \o SetFunc("55") \o Read

EraseAll(s) ==
  Prepare \o Load(s, "erase") \o SetFunc("56") \o Step("param", "ignored") \o Step("erase", "")

FirstFormat(s) ==
  Prepare \o Load(s, "llf1") \o SetFunc("56")
  \o (IF s = "6811MMC" THEN Step("vt_table", "") ELSE <<>>)
  \o Step("param", "checked") \o Step("status", "")

\* skymedi_open_card once sk_hw_style is known.
OpenRest(s) ==
  Identify \o EraseAll(s) \o FirstFormat(s)
  \o (IF s = "6811MMC" THEN <<>> ELSE SecondFormat(s))
  \o Fdm(1) \o Fdm(2)
  \o Power \o OpenInit \o make_CID(s)

skymedi_open_card == Power \o OpenInit \o SetFunc("55") \o Step("hw_version", "")

card_query_flash_id ==
  Step("init", "may be ITE") \o SetFunc("55") \o Read \o Read \o Read
  \o Step("off", "") \o Step("init", "must fail") \o Power

-----------------------------------------------------------------------------
(***************************************************************************)
(* The steps of a request                                                  *)
(***************************************************************************)

Now(do) == ~Idle /\ Head(todo).do = do
Arg == Head(todo).arg

\* The step is done, or it returns from the request.
GoOn == ret' = "ok" /\ todo' = Tail(todo)
Return(code) == ret' = code /\ todo' = <<>>

FailsWith(f) == MayFail(f) /\ hit' = hit \cup {f}

\* sd_skymedi_on_off_power, sd_skymedi_off_power
DoPower ==
  /\ Now("power") /\ GoOn
  /\ slot' = IF pin = "right" THEN Cycled(slot) ELSE slot
  /\ UNCHANGED <<board, n, style, card_type, rca, pin, buf, hit>>

DoOff ==
  /\ Now("off") /\ GoOn
  /\ slot' = IF pin = "right" THEN [Cycled(slot) EXCEPT !.on = FALSE] ELSE slot
  /\ UNCHANGED <<board, n, style, card_type, rca, pin, buf, hit>>

\* What the caller makes of the answer of sd_skymedi_open_card_init.
InitAnswer(code) ==
  IF Arg = "must fail" THEN IF code = "ocr" THEN GoOn ELSE Return("pin")
  ELSE CASE code = "ok"                        -> GoOn
         [] Arg = "may be ITE" /\ code = "ite" -> Return("ok")
         [] OTHER                              -> Return(code)

\* sd_skymedi_open_card_init.  A card that is off, or not ready after 100 tries, or
\* at the last of them; another maker's; one that does not reach the transfer state.
InitNotReady ==
  /\ Now("init")
  /\ \/ ~slot.on /\ UNCHANGED hit
     \/ slot.on /\ FailsWith("ocr")
  /\ slot' = [slot EXCEPT !.tran = FALSE, !.addr = 0]
  /\ InitAnswer("ocr")
  /\ UNCHANGED <<board, n, style, card_type, rca, pin, buf>>

InitOtherMaker ==
  /\ Now("init") /\ slot.on /\ slot.type.hw = "ITE"
  /\ slot' = [slot EXCEPT !.tran = FALSE, !.addr = 0]
  /\ card_type' = slot.type.kind
  /\ InitAnswer("ite")
  /\ UNCHANGED <<board, n, style, rca, pin, buf, hit>>

InitCard ==
  /\ Now("init") /\ slot.on /\ slot.type.hw # "ITE"
  /\ card_type' = slot.type.kind
  /\ rca' = IF slot.type.kind = "MMC" THEN 0 ELSE 1
  /\ \/ /\ slot' = [slot EXCEPT !.tran = TRUE, !.addr = rca']
        /\ InitAnswer("ok") /\ UNCHANGED hit
     \/ /\ slot' = [slot EXCEPT !.tran = FALSE, !.addr = rca']
        /\ FailsWith("status") /\ InitAnswer("status")
  /\ UNCHANGED <<board, n, style, pin, buf>>

\* sd_skymedi_set_func: the answer is not looked at.
DoFunc ==
  /\ Now("func") /\ GoOn
  /\ slot' = IF slot.on /\ (Arg = "55" \/ slot.func # "none")
             THEN [slot EXCEPT !.func = Arg] ELSE slot
  /\ UNCHANGED <<board, n, style, card_type, rca, pin, buf, hit>>

\* sd_skymedi_read, sd_skymedi_set_bus_width, and the write of a file that does not
\* change what the card keeps.
DoTransfer ==
  /\ Now("read") \/ Now("width") \/ Now("vt_table")
  /\ \/ GoOn /\ buf' = "other" /\ UNCHANGED hit
     \/ FailsWith("transfer") /\ Return("failed") /\ UNCHANGED buf
  /\ UNCHANGED <<board, slot, n, style, card_type, rca, pin>>

\* Mutant: every card of this version is taken for an SD card.
HwStyleSd(kind, hw) ==
  CASE hw = "0208" -> "6633SD"
    [] hw = "000D" -> "6811MMC"
    [] hw = "0107" -> "6617SD"
    [] OTHER       -> style

\* An unknown version is reported; sk_hw_style keeps what an earlier card left.
HwStyle(kind, hw) ==
  CASE hw = "0208" -> IF kind = "MMC" THEN "6633MMC" ELSE "6633SD"
    [] hw = "000D" -> "6811MMC"
    [] hw = "0107" -> "6617SD"
    [] OTHER       -> style

DoHwVersion ==
  /\ Now("hw_version")
  /\ \/ /\ style' = HwStyle(card_type, slot.type.hw)
        /\ todo' = OpenRest(style') /\ ret' = "ok" /\ buf' = "other"
        /\ UNCHANGED hit
     \/ FailsWith("transfer") /\ Return("failed") /\ UNCHANGED <<style, buf>>
  /\ UNCHANGED <<board, slot, n, card_type, rca, pin>>

\* sd_skymedi_write_file for the loaders.
DoLoad ==
  /\ Now("load")
  /\ \/ /\ slot' = [slot EXCEPT !.given = @ \cup {style},
                                !.helper = IF slot.func = "57" THEN Arg ELSE @]
        /\ GoOn /\ UNCHANGED hit
     \/ /\ slot' = [slot EXCEPT !.given = @ \cup {style}, !.helper = "part"]
        /\ FailsWith("transfer") /\ Return("failed")
  /\ UNCHANGED <<board, n, style, card_type, rca, pin, buf>>

Formats == {"llf1", "llf2"}

\* The loader starts when it gets its parameters; its status stays until the next one
\* has run.
Started(c, status) ==
  IF c.func = "56" /\ c.helper \in Formats
  THEN [c EXCEPT !.status = status, !.llf = IF status = "6567" THEN @ \cup {c.helper} ELSE @]
  ELSE c

DoParam ==
  /\ Now("param")
  /\ \/ slot' = Started(slot, "6567") /\ GoOn /\ UNCHANGED hit
     \/ slot' = Started(slot, "error") /\ GoOn /\ FailsWith("llf")
     \/ /\ UNCHANGED slot
        /\ IF Arg = "ignored" THEN FailsWith("param") /\ GoOn
                              ELSE FailsWith("transfer") /\ Return("failed")
  /\ UNCHANGED <<board, n, style, card_type, rca, pin, buf>>

\* sd_skymedi_perform_erase: its answer is not looked at.
DoErase ==
  /\ Now("erase") /\ GoOn
  /\ \/ /\ slot' = [slot EXCEPT !.func = "57", !.llf = {}, !.status = "none",
                                !.fdm = <<"none", "none">>]
        /\ UNCHANGED hit
     \/ UNCHANGED slot /\ FailsWith("erase")
  /\ UNCHANGED <<board, n, style, card_type, rca, pin, buf>>

\* "LLF STATUS ERROR" is printed and ret, which is 0, returned.
DoStatus ==
  /\ Now("status")
  /\ \/ /\ IF slot.status = "6567" THEN GoOn ELSE Return("ok")
        /\ buf' = "other" /\ UNCHANGED hit
     \/ FailsWith("transfer") /\ Return("failed") /\ UNCHANGED buf
  /\ UNCHANGED <<board, slot, n, style, card_type, rca, pin>>

\* sd_skymedi_write_file_fmd
DoFdm ==
  /\ Now("fdm")
  /\ \/ /\ slot' = [slot EXCEPT !.fdm[Arg] = IF slot.func = "56" THEN "fdm" ELSE @]
        /\ GoOn /\ UNCHANGED hit
     \/ slot' = [slot EXCEPT !.fdm[Arg] = "part"] /\ GoOn /\ FailsWith("corrupt")
     \/ slot' = [slot EXCEPT !.fdm[Arg] = "part"] /\ Return("failed") /\ FailsWith("transfer")
  /\ UNCHANGED <<board, n, style, card_type, rca, pin, buf>>

\* sd_skymedi_read_fmd
DoReadBack ==
  /\ Now("readback")
  /\ \/ buf' = slot.fdm[Arg] /\ GoOn /\ UNCHANGED hit
     \/ FailsWith("transfer") /\ Return("failed") /\ UNCHANGED buf
  /\ UNCHANGED <<board, slot, n, style, card_type, rca, pin>>

\* compare_chech_out_data
DoCompare ==
  /\ Now("compare")
  /\ IF buf = "fdm" THEN GoOn ELSE Return("failed")
  /\ UNCHANGED <<board, slot, n, style, card_type, rca, pin, buf, hit>>

DoCid ==
  /\ Now("cid")
  /\ \/ /\ slot' = [slot EXCEPT !.cid = IF slot.func = "56" THEN "CID" ELSE @]
        /\ GoOn /\ UNCHANGED hit
     \/ slot' = [slot EXCEPT !.cid = "part"] /\ Return("failed") /\ FailsWith("transfer")
  /\ UNCHANGED <<board, n, style, card_type, rca, pin, buf>>

DoStep ==
  \/ DoPower \/ DoOff \/ InitNotReady \/ InitOtherMaker \/ InitCard \/ DoFunc
  \/ DoTransfer \/ DoHwVersion \/ DoLoad \/ DoParam \/ DoErase \/ DoStatus
  \/ DoFdm \/ DoReadBack \/ DoCompare \/ DoCid

-----------------------------------------------------------------------------
(***************************************************************************)
(* CARD_INIT and CARD_PROGRAM                                              *)
(***************************************************************************)

\* Mutant: the address the card proposes is not kept.
sd_initKeepsRca ==
  /\ UNCHANGED rca
  /\ \/ /\ slot' = [slot EXCEPT !.tran = TRUE, !.addr = 1]
        /\ ret' = "ok" /\ UNCHANGED hit
     \/ /\ slot' = [slot EXCEPT !.tran = FALSE, !.addr = 0]
        /\ ret' = "failed" /\ FailsWith("ocr")

\* sd_init; only here rca is set.
sd_init ==
  \/ /\ slot' = [slot EXCEPT !.tran = TRUE, !.addr = 1]
     /\ rca' = 1 /\ ret' = "ok" /\ UNCHANGED hit
  \/ /\ slot' = [slot EXCEPT !.tran = FALSE, !.addr = 0]
     /\ ret' = "failed" /\ FailsWith("ocr") /\ UNCHANGED rca

\* Mutant: a card that did not get ready is selected all the same.
mmc_foundAnyway ==
  /\ UNCHANGED rca
  /\ \/ /\ slot' = [slot EXCEPT !.tran = slot.on, !.addr = 0]
        /\ ret' = "ok" /\ UNCHANGED hit
     \/ /\ slot' = [slot EXCEPT !.tran = FALSE, !.addr = 0]
        /\ ret' = "ok" /\ FailsWith("ocr")

\* mmc_found: the card's address is 0, whatever rca is.
mmc_found ==
  /\ UNCHANGED rca
  /\ \/ /\ slot.on
        /\ slot' = [slot EXCEPT !.tran = TRUE, !.addr = 0]
        /\ ret' = "ok" /\ UNCHANGED hit
     \/ /\ slot' = [slot EXCEPT !.tran = FALSE, !.addr = 0]
        /\ ret' = "failed"
        /\ IF slot.on THEN FailsWith("ocr") ELSE UNCHANGED hit

\* An SD card that does not answer CMD41 leaves ret as it came off the stack.
mmc_init ==
  /\ Now("mmc_init")
  /\ todo' = <<>>
  /\ IF slot.on /\ slot.type.kind = "SD"
     THEN \/ sd_init
          \/ /\ slot' = [slot EXCEPT !.tran = FALSE, !.addr = 0]
             /\ ret' \in {"ok", "failed"} /\ FailsWith("cmd41") /\ UNCHANGED rca
     ELSE mmc_found
  /\ UNCHANGED <<board, n, style, card_type, pin, buf>>

\* The end of mmc_block_writem: CMD13 until the card it addresses answers.
mmc_block_writem ==
  /\ Now("mmc_block_writem") /\ Answers
  /\ GoOn
  /\ UNCHANGED <<board, slot, n, style, card_type, rca, pin, buf, hit>>

-----------------------------------------------------------------------------
(***************************************************************************)
(* The host, the user and the specification                                *)
(***************************************************************************)

Init ==
  /\ board \in Boards
  /\ slot = NewCard(board.cards[1])
  /\ n = 0 /\ todo = <<>> /\ ret = "ok"
  /\ style = "none" /\ card_type = "none" /\ rca = 0 /\ pin = "unset"
  /\ buf = "other" /\ hit = {}

Request == IF n = 0 THEN "none" ELSE board.session[n]

Wanted(what) ==
  /\ Idle /\ n < Len(board.session)
  /\ board.session[n + 1] = what
  /\ n' = n + 1

NAND_OPS_Handle ==
  /\ \/ /\ Wanted("query") /\ todo' = card_query_flash_id
        /\ pin' = IF board.pin THEN "right" ELSE "wrong"
     \/ Wanted("open") /\ todo' = skymedi_open_card /\ UNCHANGED pin
     \/ Wanted("init") /\ todo' = Step("mmc_init", "") /\ UNCHANGED pin
     \/ Wanted("program") /\ ret = "ok" /\ todo' = Step("mmc_block_writem", "")
        /\ UNCHANGED pin
  /\ UNCHANGED <<board, slot, ret, style, card_type, rca, buf, hit>>

\* The host does not write to a card that CARD_INIT did not find.
NotWanted ==
  /\ Wanted("program") /\ ret # "ok"
  /\ UNCHANGED <<board, slot, todo, ret, style, card_type, rca, pin, buf, hit>>

\* The user changes the card for the second one.
SwapCard ==
  /\ Wanted("swap")
  /\ slot' = [NewCard(board.cards[2]) EXCEPT !.on = slot.on]
  /\ UNCHANGED <<board, todo, ret, style, card_type, rca, pin, buf, hit>>

Next ==
  \/ DoStep \/ mmc_init \/ mmc_block_writem
  \/ NAND_OPS_Handle \/ NotWanted \/ SwapCard

Spec == Init /\ [][Next]_vars

\* The device works on; the host goes through its session.
FairSpec == Spec /\ WF_vars(Next)

-----------------------------------------------------------------------------
(***************************************************************************)
(* Properties                                                              *)
(***************************************************************************)

Codes == {"ok", "failed", "ocr", "status", "ite", "pin"}

TypeOK ==
  /\ board \in Boards
  /\ slot.type \in CardType /\ slot.addr \in {0, 1} /\ slot.given \subseteq Styles
  /\ slot.on \in BOOLEAN /\ slot.tran \in BOOLEAN /\ slot.llf \subseteq Formats
  /\ n \in 0 .. Len(board.session)
  /\ ret \in Codes
  /\ style \in Styles \cup {"none"} /\ card_type \in {"SD", "MMC", "none"}
  /\ rca \in {0, 1} /\ pin \in {"unset", "right", "wrong"}
  /\ hit \subseteq board.faults

Answered(what) == Idle /\ Request = what

FormatsOf(c) == IF StyleOf(c) = "6811MMC" THEN {"llf1"} ELSE Formats

Complete ==
  /\ slot.llf = FormatsOf(slot.type)
  /\ slot.fdm = <<"fdm", "fdm">>
  /\ slot.cid = "CID"

\* When CARD_OPEN_CARD answers 0 the card is complete: formatted by all of its loaders,
\* both copies of the firmware data right, the CID written.  The steps whose failure
\* nobody looks at, and the format whose error is printed and answered with 0, are
\* excepted, and cards with a version the code does not know.
OpenComplete ==
  (Answered("open") /\ ret = "ok" /\ hit \cap {"llf", "param"} = {}
     /\ StyleOf(slot.type) # "none")
  => Complete

\* A card is given the loaders of its own controller and no others, if the program
\* knows its version: with another, it would be those of the card before it.
OwnLoaders ==
  StyleOf(slot.type) # "none" => slot.given \subseteq {StyleOf(slot.type)}

\* A card that CARD_INIT has found can be written to: it is in the transfer state and
\* answers at the address the program will ask.  Not when the answer was off the stack,
\* nor for an MMC after an SD card, whose address is still in rca.
InitMeansReady ==
  (Answered("init") /\ ret = "ok" /\ "cmd41" \notin hit
     /\ ~(slot.type.kind = "MMC" /\ rca = 1))
  => Answers

\* Waiting for a card that is not at rca, or not there.
Waits == Now("mmc_block_writem") /\ ~Answers

\* Every request is answered, with the same two exceptions.
RequestsAnswered ==
  <>(Done \/ (Waits /\ ("cmd41" \in hit \/ (slot.type.kind = "MMC" /\ rca = 1))))
=============================================================================
