----------------------------- MODULE CardProofs -----------------------------
(***************************************************************************)
(* The safety properties of CardSetup, for all cards, faults and sessions. *)
(* OwnLoaders: whatever fails on the way, the loaders written are those of *)
(* the card in the slot, because a request that still has loaders to write *)
(* has asked this card for its version.  InitMeansReady: CARD_INIT leaves  *)
(* the card at the address that is asked next.  OpenComplete: the rests of *)
(* skymedi_open_card get names, and each name says what the card has got   *)
(* by then.                                                                *)
(***************************************************************************)
EXTENDS CardSetup, SequenceTheorems, TLAPS

Dos == {"power", "off", "init", "read", "func", "width", "vt_table", "hw_version",
        "load", "param", "erase", "status", "fdm", "readback", "compare", "cid",
        "mmc_init", "mmc_block_writem"}

Args == {"", "must work", "may be ITE", "must fail", "AA", "55", "56", "57",
         "erase", "llf1", "llf2", "ignored", "checked", 1, 2}

\* All steps; those behind the one that asks for the version; those of them that
\* are no loaders.
Steps == [do : Dos, arg : Args]
Later == {x \in Steps : x.do # "hw_version"}
Plain == {x \in Later : x.do # "load"}

Stored == {"none", "fdm", "CID", "part"}

CardState ==
  [type : CardType, on : BOOLEAN, tran : BOOLEAN, addr : {0, 1},
   func : Args \cup {"none"}, helper : Args \cup {"none", "part"},
   llf : SUBSET Formats, status : {"none", "6567", "error"},
   fdm : [{1, 2} -> Stored], cid : Stored, given : SUBSET Styles]

\* What is left of skymedi_open_card before the version is known.
Opening4 == Step("hw_version", "")
Opening3 == SetFunc("55") \o Opening4
Opening2 == OpenInit \o Opening3
Opening1 == Power \o Opening2

\* sk_hw_style is that of the card in the slot, if there is one.
Fits == StyleOf(slot.type) # "none" => style = StyleOf(slot.type)

\* A request has loaders to write only for the card it asked for its version.
InTurn ==
  \/ todo \in Seq(Plain)
  \/ todo \in Seq(Later) /\ Fits /\ style \in Styles
  \/ todo \in {Opening1, Opening2}
  \/ todo \in {Opening3, Opening4} /\ card_type = slot.type.kind

CardInv == TypeOK /\ slot \in CardState /\ InTurn /\ OwnLoaders

-----------------------------------------------------------------------------
(***************************************************************************)
(* The requests as sequences                                               *)
(***************************************************************************)

\* The first step and the rest of a sequence.
LEMMA ConsHeadTail ==
  ASSUME NEW S, NEW x \in S, NEW t \in Seq(S)
  PROVE  /\ <<x>> \o t \in Seq(S)
         /\ <<x>> \o t # <<>>
         /\ Head(<<x>> \o t) = x
         /\ Tail(<<x>> \o t) = t
BY HeadTailProperties, SMT

\* Steps, and what they are not.
LEMMA PlainStep ==
  ASSUME NEW do \in Dos, NEW arg \in Args, do \notin {"hw_version", "load"}
  PROVE  Step(do, arg) \in Seq(Plain)
<1>1. [do |-> do, arg |-> arg] \in Plain
  BY DEF Plain, Later, Steps
<1>. QED  BY <1>1 DEF Step

\* Concatenations of sequences of steps.
LEMMA Concats == \A S : \A a, b \in Seq(S) : a \o b \in Seq(S)
BY ConcatProperties

\* The four rests of the beginning of skymedi_open_card.
LEMMA OpeningSteps ==
  /\ Opening4 \in Seq(Steps) /\ Opening4 # <<>>
  /\ Head(Opening4).do = "hw_version"
  /\ Opening3 \in Seq(Steps) /\ Opening3 # <<>>
  /\ Head(Opening3).do = "func" /\ Tail(Opening3) = Opening4
  /\ Opening2 \in Seq(Steps) /\ Opening2 # <<>>
  /\ Head(Opening2).do = "init" /\ Head(Opening2).arg = "must work"
  /\ Tail(Opening2) = Opening3
  /\ Opening1 \in Seq(Steps) /\ Opening1 # <<>>
  /\ Head(Opening1).do = "power" /\ Tail(Opening1) = Opening2
  /\ skymedi_open_card = Opening1
<1>. DEFINE p == [do |-> "power", arg |-> ""]
            o == [do |-> "init", arg |-> "must work"]
            f == [do |-> "func", arg |-> "55"]
            h == [do |-> "hw_version", arg |-> ""]
<1>1. p \in Steps /\ o \in Steps /\ f \in Steps /\ h \in Steps
  BY DEF Steps, Dos, Args
<1>a. /\ p.do = "power" /\ o.do = "init" /\ o.arg = "must work"
      /\ f.do = "func" /\ h.do = "hw_version"
  OBVIOUS
<1>2. /\ Opening4 = <<h>>
      /\ Opening3 = <<f>> \o Opening4
      /\ Opening2 = <<o>> \o Opening3
      /\ Opening1 = <<p>> \o Opening2
  BY DEF Opening1, Opening2, Opening3, Opening4, Step, Power, OpenInit, SetFunc
<1>3. skymedi_open_card = <<p>> \o <<o>> \o <<f>> \o <<h>>
  BY DEF skymedi_open_card, Step, Power, OpenInit, SetFunc
<1>. HIDE DEF p, o, f, h
<1>4. Opening4 \in Seq(Steps) /\ Opening4 # <<>> /\ Head(Opening4) = h
  BY <1>1, <1>2
<1>5. /\ Opening3 \in Seq(Steps) /\ Opening3 # <<>>
      /\ Head(Opening3) = f /\ Tail(Opening3) = Opening4
  <2>1. f \in Steps /\ Opening4 \in Seq(Steps) /\ Opening3 = <<f>> \o Opening4
    BY <1>1, <1>2, <1>4
  <2>. QED  BY ONLY <2>1, ConsHeadTail
<1>6. /\ Opening2 \in Seq(Steps) /\ Opening2 # <<>>
      /\ Head(Opening2) = o /\ Tail(Opening2) = Opening3
  <2>1. o \in Steps /\ Opening3 \in Seq(Steps) /\ Opening2 = <<o>> \o Opening3
    BY <1>1, <1>2, <1>5
  <2>. QED  BY ONLY <2>1, ConsHeadTail
<1>7. /\ Opening1 \in Seq(Steps) /\ Opening1 # <<>>
      /\ Head(Opening1) = p /\ Tail(Opening1) = Opening2
  <2>1. p \in Steps /\ Opening2 \in Seq(Steps) /\ Opening1 = <<p>> \o Opening2
    BY <1>1, <1>2, <1>6
  <2>. QED  BY ONLY <2>1, ConsHeadTail
<1>8. <<p>> \in Seq(Steps) /\ <<o>> \in Seq(Steps) /\ <<f>> \in Seq(Steps)
  BY <1>1
<1>9. skymedi_open_card = Opening1
  <2>1. <<p>> \o <<o>> \in Seq(Steps)
    BY <1>8, Concats
  <2>2. (<<p>> \o <<o>>) \o <<f>> \o Opening4 = (<<p>> \o <<o>>) \o (<<f>> \o Opening4)
    BY <1>8, <1>4, <2>1, ConcatAssociative
  <2>3. (<<p>> \o <<o>>) \o Opening3 = <<p>> \o (<<o>> \o Opening3)
    BY <1>8, <1>5, ConcatAssociative
  <2>. QED  BY <1>2, <1>3, <2>2, <2>3
<1>. QED  BY <1>a, <1>4, <1>5, <1>6, <1>7, <1>9

\* The steps that no loader is among.
LEMMA PlainSteps ==
  /\ Power \in Seq(Plain) /\ OpenInit \in Seq(Plain) /\ Read \in Seq(Plain)
  /\ SetFunc("55") \in Seq(Plain) /\ SetFunc("56") \in Seq(Plain)
  /\ SetFunc("57") \in Seq(Plain) /\ SetFunc("AA") \in Seq(Plain)
  /\ \A do \in Dos \ {"hw_version", "load"} : Step(do, "") \in Seq(Plain)
  /\ \A a \in Args : Step("param", a) \in Seq(Plain)
  /\ \A a \in Args : Step("init", a) \in Seq(Plain)
  /\ <<>> \in Seq(Plain)
<1>1. \A do \in Dos \ {"hw_version", "load"}, a \in Args : Step(do, a) \in Seq(Plain)
  BY PlainStep
<1>. QED  BY <1>1, EmptySeq DEF Power, OpenInit, Read, SetFunc, Dos, Args

\* What follows the version of a card of style s contains no loader unless the style
\* has one.
LEMMA OpenRestSteps ==
  ASSUME NEW s, NEW S, Plain \subseteq S,
         \A stage \in {"erase", "llf1", "llf2"} : Load(s, stage) \in Seq(S)
  PROVE  OpenRest(s) \in Seq(S)
<1>c. \A a, b \in Seq(S) : a \o b \in Seq(S)
  BY Concats
<1>1. \A t \in Seq(Plain) : t \in Seq(S)
  BY SeqMonotonic
<1>2. /\ Power \in Seq(S) /\ OpenInit \in Seq(S) /\ Read \in Seq(S)
      /\ SetFunc("55") \in Seq(S) /\ SetFunc("56") \in Seq(S)
      /\ SetFunc("57") \in Seq(S) /\ SetFunc("AA") \in Seq(S)
      /\ Step("width", "") \in Seq(S) /\ Step("erase", "") \in Seq(S)
      /\ Step("vt_table", "") \in Seq(S) /\ Step("status", "") \in Seq(S)
      /\ Step("cid", "") \in Seq(S)
      /\ Step("param", "ignored") \in Seq(S) /\ Step("param", "checked") \in Seq(S)
      /\ <<>> \in Seq(S)
  BY <1>1, PlainSteps DEF Dos, Args
<1>3. /\ Load(s, "erase") \in Seq(S)
      /\ Load(s, "llf1") \in Seq(S)
      /\ Load(s, "llf2") \in Seq(S)
  OBVIOUS
<1>4. Prepare \in Seq(S)
  BY <1>2, <1>c DEF Prepare
<1>5. Identify \in Seq(S)
  BY <1>2, <1>c DEF Identify
<1>6. EraseAll(s) \in Seq(S)
  BY <1>2, <1>3, <1>4, <1>c DEF EraseAll
<1>7. FirstFormat(s) \in Seq(S)
  BY <1>2, <1>3, <1>4, <1>c DEF FirstFormat
<1>8. SecondFormat(s) \in Seq(S)
  BY <1>2, <1>3, <1>c DEF SecondFormat
<1>9. Fdm(1) \in Seq(S) /\ Fdm(2) \in Seq(S)
  <2>1. \A k \in {1, 2} : /\ Step("fdm", k) \in Seq(S)
                          /\ Step("readback", k) \in Seq(S)
                          /\ Step("compare", k) \in Seq(S)
    BY <1>1, PlainStep DEF Dos, Args
  <2>. QED  BY <2>1, <1>c DEF Fdm
<1>10. make_CID(s) \in Seq(S)
  BY <1>2, <1>3, <1>c DEF make_CID
<1>. DEFINE second == IF s = "6811MMC" THEN <<>> ELSE SecondFormat(s)
<1>11. second \in Seq(S)
  BY <1>2, <1>8
<1>. HIDE DEF second
<1>12. Identify \o EraseAll(s) \o FirstFormat(s) \o second \o Fdm(1) \o Fdm(2)
         \o Power \o OpenInit \o make_CID(s) \in Seq(S)
  BY <1>2, <1>5, <1>6, <1>7, <1>9, <1>10, <1>11, <1>c
<1>. QED  BY <1>12 DEF OpenRest, second

\* The steps of card_query_flash_id are plain ones.
LEMMA QuerySteps == card_query_flash_id \in Seq(Plain)
<1>c. \A a, b \in Seq(Plain) : a \o b \in Seq(Plain)
  BY Concats
<1>1. /\ Step("init", "may be ITE") \in Seq(Plain)
      /\ Step("init", "must fail") \in Seq(Plain)
      /\ Step("off", "") \in Seq(Plain)
  BY PlainSteps DEF Dos, Args
<1>. QED  BY <1>1, PlainSteps, <1>c DEF card_query_flash_id

-----------------------------------------------------------------------------
(***************************************************************************)
(* The steps keep the order                                                *)
(***************************************************************************)

\* What the step that is next says of the request.
LEMMA NextStep ==
  ASSUME InTurn, todo # <<>>
  PROVE  /\ Head(todo) \in Steps
         /\ Head(todo).do = "load" => Fits /\ style \in Styles
         /\ Head(todo).do = "hw_version" => card_type = slot.type.kind
         /\ todo = Opening2 => Head(todo).do = "init" /\ Arg = "must work"
<1>1. CASE todo \in Seq(Plain)
  <2>1. Head(todo) \in Plain
    BY <1>1, HeadTailProperties
  <2>. QED  BY <2>1, OpeningSteps DEF Plain, Later, Arg
<1>2. CASE todo \in Seq(Later) /\ Fits /\ style \in Styles
  <2>1. Head(todo) \in Later
    BY <1>2, HeadTailProperties
  <2>. QED  BY <1>2, <2>1, OpeningSteps DEF Later, Arg
<1>3. CASE todo \in {Opening1, Opening2}
  <2>1. Head(todo) \in Steps
    BY <1>3, OpeningSteps, HeadTailProperties
  <2>. QED  BY <1>3, <2>1, OpeningSteps DEF Arg
<1>4. CASE todo \in {Opening3, Opening4} /\ card_type = slot.type.kind
  <2>1. Head(todo) \in Steps
    BY <1>4, OpeningSteps, HeadTailProperties
  <2>. QED  BY <1>4, <2>1, OpeningSteps DEF Arg
<1>. QED  BY <1>1, <1>2, <1>3, <1>4 DEF InTurn

\* A step that is done, or that ends its request, keeps the order if it neither asks
\* for the version nor forgets the kind of a card it sets up.
LEMMA StepKeepsOrder ==
  ASSUME InTurn, todo # <<>>, Head(todo).do # "hw_version",
         todo' \in {Tail(todo), <<>>},
         slot'.type = slot.type, style' = style,
         card_type' \in {card_type, slot.type.kind},
         todo = Opening2 /\ todo' # <<>> => card_type' = slot.type.kind
  PROVE  InTurn'
<1>1. CASE todo' = <<>>
  BY <1>1, EmptySeq DEF InTurn
<1>2. CASE todo' = Tail(todo) /\ todo \in Seq(Plain)
  BY <1>2, HeadTailProperties DEF InTurn
<1>3. CASE todo' = Tail(todo) /\ todo \in Seq(Later) /\ Fits /\ style \in Styles
  <2>1. todo' \in Seq(Later)
    BY <1>3, HeadTailProperties
  <2>. QED  BY <1>3, <2>1 DEF InTurn, Fits
<1>4. CASE todo' = Tail(todo) /\ todo = Opening1
  BY <1>4, OpeningSteps DEF InTurn
<1>5. CASE todo' = Tail(todo) /\ todo = Opening2
  <2>1. todo' = Opening3 /\ todo' # <<>>
    BY <1>5, OpeningSteps
  <2>. QED  BY <1>5, <2>1 DEF InTurn
<1>6. CASE todo' = Tail(todo) /\ todo = Opening3 /\ card_type = slot.type.kind
  <2>1. todo' = Opening4
    BY <1>6, OpeningSteps
  <2>. QED  BY <1>6, <2>1 DEF InTurn
<1>7. CASE todo = Opening4
  BY <1>7, OpeningSteps
<1>. QED  BY <1>1, <1>2, <1>3, <1>4, <1>5, <1>6, <1>7 DEF InTurn

\* The version decides the style; the loaders behind it are for this card.
LEMMA VersionKeepsOrder ==
  ASSUME slot \in CardState, style \in Styles \cup {"none"},
         card_type = slot.type.kind, slot' = slot,
         style' = HwStyle(card_type, slot.type.hw), todo' = OpenRest(style')
  PROVE  InTurn' /\ style' \in Styles \cup {"none"}
<1>1. style' \in Styles \cup {"none"} /\ Fits'
  BY DEF CardState, CardType, HwStyle, StyleOf, Fits, Styles
<1>2. CASE style' \in Styles
  <2>1. \A stage \in {"erase", "llf1", "llf2"} : Load(style', stage) \in Seq(Later)
    <3>. TAKE stage \in {"erase", "llf1", "llf2"}
    <3>1. [do |-> "load", arg |-> stage] \in Later
      BY DEF Later, Steps, Dos, Args
    <3>. QED  BY <1>2, <3>1 DEF Load, Step
  <2>2. OpenRest(style') \in Seq(Later)
    BY <2>1, OpenRestSteps DEF Plain
  <2>. QED  BY <1>1, <1>2, <2>2 DEF InTurn
<1>3. CASE style' \notin Styles
  <2>1. \A stage \in {"erase", "llf1", "llf2"} : Load(style', stage) \in Seq(Plain)
    BY <1>3, EmptySeq DEF Load
  <2>2. OpenRest(style') \in Seq(Plain)
    BY <2>1, OpenRestSteps
  <2>. QED  BY <1>1, <2>2 DEF InTurn
<1>. QED  BY <1>2, <1>3, <1>1

-----------------------------------------------------------------------------
(***************************************************************************)
(* The invariant                                                           *)
(***************************************************************************)

\* What every step but the one that asks for the version, and the loaders, does.
Ordinary ==
  /\ todo # <<>> /\ Head(todo).do \notin {"hw_version", "load"}
  /\ todo' \in {Tail(todo), <<>>}
  /\ slot' \in CardState
  /\ slot'.type = slot.type /\ slot'.given = slot.given
  /\ card_type' \in {card_type, slot.type.kind}
  /\ todo = Opening2 /\ todo' # <<>> => card_type' = slot.type.kind
  /\ ret' \in Codes /\ rca' \in {0, 1}
  /\ hit' \subseteq board.faults
  /\ UNCHANGED <<board, n, style, pin>>

\* A step that neither names a version nor loads anything keeps the invariant.
LEMMA OrdinaryKeeps ==
  ASSUME CardInv, Ordinary
  PROVE  CardInv'
<1>1. InTurn'
  BY StepKeepsOrder DEF CardInv, Ordinary
<1>2. OwnLoaders'
  BY DEF CardInv, Ordinary, OwnLoaders, StyleOf
<1>3. TypeOK'
  BY DEF CardInv, Ordinary, TypeOK, CardState, CardType
<1>. QED  BY <1>1, <1>2, <1>3 DEF CardInv, Ordinary

\* The steps are ordinary but for two.
LEMMA StepsAreOrdinary ==
  ASSUME CardInv,
         DoPower \/ DoOff \/ InitNotReady \/ InitOtherMaker \/ InitCard \/ DoFunc
           \/ DoTransfer \/ DoParam \/ DoErase \/ DoStatus \/ DoFdm \/ DoReadBack
           \/ DoCompare \/ DoCid \/ mmc_init \/ mmc_block_writem
  PROVE  Ordinary
<1>. USE DEF Ordinary, Now, Idle, GoOn, Return, FailsWith, MayFail, Codes
<1>1. /\ slot \in CardState /\ rca \in {0, 1} /\ hit \subseteq board.faults
      /\ card_type \in {"SD", "MMC", "none"}
  BY DEF CardInv, TypeOK
<1>2. /\ todo # <<>> => Head(todo) \in Steps
      /\ todo = Opening2 => Head(todo).do = "init" /\ Arg = "must work"
  BY NextStep, OpeningSteps DEF CardInv
<1>3. todo # <<>> => Arg \in Args
  BY <1>2 DEF Steps, Arg
<1>4. CASE DoPower
  BY <1>1, <1>2, <1>4 DEF DoPower, Cycled, CardState
<1>5. CASE DoOff
  BY <1>1, <1>2, <1>5 DEF DoOff, Cycled, CardState
<1>6. CASE InitNotReady
  BY <1>1, <1>2, <1>6 DEF InitNotReady, InitAnswer, CardState
<1>7. CASE InitOtherMaker
  BY <1>1, <1>2, <1>7 DEF InitOtherMaker, InitAnswer, CardState
<1>8. CASE InitCard
  <2>1. /\ todo # <<>> /\ Head(todo).do = "init"
        /\ card_type' = slot.type.kind /\ rca' \in {0, 1}
        /\ UNCHANGED <<board, n, style, pin>>
    BY <1>8 DEF InitCard
  <2>2. ret' \in Codes /\ todo' \in {Tail(todo), <<>>}
    BY <1>8 DEF InitCard, InitAnswer
  <2>3. hit' \subseteq board.faults
    BY <1>1, <1>8 DEF InitCard
  <2>4. PICK tran \in BOOLEAN : slot' = [slot EXCEPT !.tran = tran, !.addr = rca']
    BY <1>8 DEF InitCard
  <2>5. slot' \in CardState /\ slot'.type = slot.type /\ slot'.given = slot.given
    BY <1>1, <2>1, <2>4 DEF CardState
  <2>. QED  BY <2>1, <2>2, <2>3, <2>5
<1>9. CASE DoFunc
  BY <1>1, <1>2, <1>3, <1>9 DEF DoFunc, CardState
<1>10. CASE DoTransfer
  <2>1. /\ todo # <<>> /\ Head(todo).do \in {"read", "width", "vt_table"}
        /\ UNCHANGED <<board, slot, n, style, card_type, rca, pin>>
    BY <1>10 DEF DoTransfer
  <2>2. ret' \in Codes /\ todo' \in {Tail(todo), <<>>} /\ hit' \subseteq board.faults
    BY <1>1, <1>10 DEF DoTransfer
  <2>3. todo # Opening2
    BY <1>2, <2>1
  <2>. QED  BY <1>1, <2>1, <2>2, <2>3
<1>11. CASE DoParam
  <2>1. \A status \in {"6567", "error"} :
          LET c == Started(slot, status)
          IN  c \in CardState /\ c.type = slot.type /\ c.given = slot.given
    <3>1. slot.llf \in SUBSET Formats
      BY <1>1 DEF CardState
    <3>2. slot.helper \in Formats => slot.llf \cup {slot.helper} \in SUBSET Formats
      BY <3>1
    <3>. QED  BY <1>1, <3>2 DEF Started, CardState
  <2>. QED  BY <1>1, <1>2, <1>11, <2>1 DEF DoParam
<1>12. CASE DoErase
  <2>1. <<"none", "none">> \in [{1, 2} -> Stored] /\ {} \in SUBSET Formats
    BY DEF Stored
  <2>2. "57" \in Args
    BY DEF Args
  <2>. QED  BY <1>1, <1>2, <1>12, <2>1, <2>2 DEF DoErase, CardState
<1>13. CASE DoStatus
  BY <1>1, <1>2, <1>13 DEF DoStatus, CardState
<1>14. CASE DoFdm
  <2>1. slot.fdm \in [{1, 2} -> Stored]
    BY <1>1 DEF CardState
  <2>2. \A v \in Stored : [slot.fdm EXCEPT ![Arg] = v] \in [{1, 2} -> Stored]
    BY <2>1
  <2>3. \A v \in Stored :
          LET c == [slot EXCEPT !.fdm[Arg] = v]
          IN  c \in CardState /\ c.type = slot.type /\ c.given = slot.given
    BY <1>1, <2>2 DEF CardState
  <2>4. PICK v \in Stored \cup {slot.fdm[Arg]} : slot' = [slot EXCEPT !.fdm[Arg] = v]
    BY <1>14 DEF DoFdm, Stored
  <2>5. slot' \in CardState /\ slot'.type = slot.type /\ slot'.given = slot.given
    <3>1. CASE v \in Stored
      BY <2>3, <2>4, <3>1
    <3>2. CASE v = slot.fdm[Arg]
      BY <1>1, <2>1, <2>4, <3>2 DEF CardState
    <3>. QED  BY <3>1, <3>2
  <2>. QED  BY <1>1, <1>2, <1>14, <2>5 DEF DoFdm
<1>15. CASE DoReadBack
  BY <1>1, <1>2, <1>15 DEF DoReadBack, CardState
<1>16. CASE DoCompare
  BY <1>1, <1>2, <1>16 DEF DoCompare, CardState
<1>17. CASE DoCid
  BY <1>1, <1>2, <1>17 DEF DoCid, CardState, Stored
<1>18. CASE mmc_init
  <2>1. /\ todo # <<>> /\ Head(todo).do = "mmc_init" /\ todo' = <<>>
        /\ UNCHANGED <<board, n, style, card_type, pin>>
    BY <1>18 DEF mmc_init
  <2>2. PICK tran \in BOOLEAN, addr \in {0, 1} :
          slot' = [slot EXCEPT !.tran = tran, !.addr = addr]
    BY <1>18 DEF mmc_init, sd_init, mmc_found
  <2>3. /\ ret' \in Codes /\ rca' \in {0, 1} /\ hit' \subseteq board.faults
    BY <1>1, <1>18 DEF mmc_init, sd_init, mmc_found
  <2>4. slot' \in CardState /\ slot'.type = slot.type /\ slot'.given = slot.given
    BY <1>1, <2>2 DEF CardState
  <2>. QED  BY <2>1, <2>3, <2>4
<1>19. CASE mmc_block_writem
  BY <1>1, <1>2, <1>19 DEF mmc_block_writem, CardState
<1>. QED  BY <1>4, <1>5, <1>6, <1>7, <1>8, <1>9, <1>10, <1>11, <1>12, <1>13,
             <1>14, <1>15, <1>16, <1>17, <1>18, <1>19

\* A step that learns the version of the card keeps the invariant.
LEMMA VersionKeeps ==
  ASSUME CardInv, DoHwVersion
  PROVE  CardInv'
<1>. USE DEF Now, Idle, Return, FailsWith, MayFail, Codes
<1>1. card_type = slot.type.kind
  BY NextStep DEF DoHwVersion, CardInv
<1>2. CASE /\ style' = HwStyle(card_type, slot.type.hw)
           /\ todo' = OpenRest(style') /\ ret' = "ok" /\ UNCHANGED hit
  <2>1. InTurn' /\ style' \in Styles \cup {"none"}
    BY <1>1, <1>2, VersionKeepsOrder DEF DoHwVersion, CardInv, TypeOK
  <2>. QED  BY <1>2, <2>1 DEF DoHwVersion, CardInv, TypeOK, OwnLoaders, StyleOf
<1>3. CASE FailsWith("transfer") /\ Return("failed") /\ UNCHANGED style
  <2>1. InTurn'
    BY <1>3, EmptySeq DEF InTurn
  <2>. QED  BY <1>3, <2>1 DEF DoHwVersion, CardInv, TypeOK, OwnLoaders, StyleOf
<1>. QED  BY <1>2, <1>3 DEF DoHwVersion

\* A step that loads a loader keeps the invariant: the version is this card's.
LEMMA LoadKeeps ==
  ASSUME CardInv, DoLoad
  PROVE  CardInv'
<1>. USE DEF Now, Idle, GoOn, Return, FailsWith, MayFail, Codes
<1>1. todo # <<>> /\ Head(todo).do = "load" /\ Fits /\ style \in Styles
  BY NextStep DEF DoLoad, CardInv
<1>2. Arg \in Args
  BY <1>1, NextStep DEF CardInv, Steps, Arg
<1>3. slot' \in CardState
  <2>1. slot.given \cup {style} \in SUBSET Styles
    BY <1>1 DEF CardInv, CardState
  <2>. QED  BY <1>2, <2>1 DEF DoLoad, CardInv, CardState
<1>4. slot'.type = slot.type /\ slot'.given = slot.given \cup {style}
  BY DEF DoLoad, CardInv, CardState
<1>5. OwnLoaders'
  BY <1>1, <1>4 DEF CardInv, OwnLoaders, Fits, StyleOf
<1>6. InTurn'
  <2>1. todo # Opening2
    BY <1>1, OpeningSteps
  <2>. QED  BY <1>1, <1>4, <2>1, StepKeepsOrder DEF DoLoad, CardInv
<1>7. TypeOK'
  BY <1>3 DEF DoLoad, CardInv, TypeOK, CardState
<1>. QED  BY <1>3, <1>5, <1>6, <1>7 DEF CardInv

\* What a session and its cards are made of.
LEMMA SessionType ==
  ASSUME board \in Boards
  PROVE  /\ Len(board.session) \in Nat
         /\ board.cards[1] \in CardType
         /\ \A i \in 1 .. Len(board.session) :
              board.session[i] = "swap" => board.cards[2] \in CardType
<1>1. /\ board.cards \in Seq(CardType) /\ board.cards # <<>>
      /\ board.session \in Seq(Requests)
  BY CardAssumptions DEF BoardType
<1>2. Len(board.cards) \in Nat \ {0} /\ Len(board.session) \in Nat
  BY <1>1, EmptySeq, LenProperties
<1>3. \A i \in 1 .. Len(board.cards) : board.cards[i] \in CardType
  BY <1>1, ElementOfSeq
<1>. QED  BY <1>2, <1>3, CardAssumptions

\* A card as it comes.
LEMMA NewCardType ==
  ASSUME NEW c \in CardType
  PROVE  /\ NewCard(c) \in CardState
         /\ NewCard(c).type = c /\ NewCard(c).given = {}
<1>1. <<"none", "none">> \in [{1, 2} -> Stored]
  BY DEF Stored
<1>2. {} \in SUBSET Formats /\ {} \in SUBSET Styles
  OBVIOUS
<1>. QED  BY <1>1, <1>2 DEF NewCard, CardState, Stored

\* The invariant at the start.
LEMMA InitCardInv == Init => CardInv
<1>. SUFFICES ASSUME Init PROVE CardInv
  OBVIOUS
<1>1. board.cards[1] \in CardType /\ Len(board.session) \in Nat
  BY SessionType DEF Init
<1>2. slot \in CardState /\ slot.given = {}
  BY <1>1, NewCardType DEF Init
<1>3. InTurn
  BY EmptySeq DEF Init, InTurn
<1>4. TypeOK
  BY <1>1, <1>2 DEF Init, TypeOK, CardState, CardType, Codes
<1>. QED  BY <1>2, <1>3, <1>4 DEF CardInv, OwnLoaders

\* A request begins when the one before it has ended.
LEMMA RequestKeeps ==
  ASSUME CardInv, NAND_OPS_Handle \/ NotWanted
  PROVE  CardInv'
<1>. USE DEF Wanted, Idle
<1>1. Len(board.session) \in Nat /\ n \in Nat /\ n < Len(board.session) /\ n' = n + 1
  <2>1. board \in Boards /\ n \in 0 .. Len(board.session)
    BY DEF CardInv, TypeOK
  <2>2. Len(board.session) \in Nat
    BY <2>1, SessionType
  <2>3. n < Len(board.session) /\ n' = n + 1
    BY DEF NAND_OPS_Handle, NotWanted
  <2>. QED  BY <2>1, <2>2, <2>3
<1>2. InTurn'
  <2>1. CASE todo' = card_query_flash_id
    BY <2>1, QuerySteps DEF InTurn
  <2>2. CASE todo' = skymedi_open_card
    BY <2>2, OpeningSteps DEF InTurn
  <2>3. CASE todo' = Step("mmc_init", "") \/ todo' = Step("mmc_block_writem", "")
    BY <2>3, PlainSteps DEF InTurn, Dos
  <2>4. CASE todo' = todo /\ todo = <<>>
    BY <2>4, EmptySeq DEF InTurn
  <2>. QED  BY <2>1, <2>2, <2>3, <2>4 DEF NAND_OPS_Handle, NotWanted
<1>3. UNCHANGED <<board, slot, ret, style, card_type, rca, hit>>
      /\ pin' \in {pin, "right", "wrong"}
  BY DEF NAND_OPS_Handle, NotWanted
<1>4. TypeOK'
  BY <1>1, <1>3 DEF CardInv, TypeOK
<1>. QED  BY <1>2, <1>3, <1>4 DEF CardInv, OwnLoaders, StyleOf

\* No request runs while the card is changed.
LEMMA SwapKeeps ==
  ASSUME CardInv, SwapCard
  PROVE  CardInv'
<1>. USE DEF Wanted, Idle
<1>1. /\ n \in Nat /\ n < Len(board.session) /\ n' = n + 1
      /\ Len(board.session) \in Nat /\ board.session[n + 1] = "swap"
  BY SessionType DEF SwapCard, CardInv, TypeOK
<1>2. board.cards[2] \in CardType
  <2>1. n + 1 \in 1 .. Len(board.session)
    BY <1>1
  <2>. QED  BY <1>1, <2>1, SessionType DEF CardInv, TypeOK
<1>3. slot' \in CardState /\ slot'.given = {}
  BY <1>2, NewCardType DEF SwapCard, CardInv, CardState
<1>4. InTurn'
  BY EmptySeq DEF SwapCard, InTurn
<1>5. TypeOK'
  BY <1>1, <1>3 DEF SwapCard, CardInv, TypeOK, CardState, CardType
<1>. QED  BY <1>3, <1>4, <1>5 DEF CardInv, OwnLoaders

\* The invariant is kept by every step.
LEMMA CardInvInductive == CardInv /\ [Next]_vars => CardInv'
<1>. SUFFICES ASSUME CardInv, [Next]_vars PROVE CardInv'
  OBVIOUS
<1>1. CASE DoHwVersion
  BY <1>1, VersionKeeps
<1>2. CASE DoLoad
  BY <1>2, LoadKeeps
<1>3. CASE NAND_OPS_Handle \/ NotWanted
  BY <1>3, RequestKeeps
<1>4. CASE SwapCard
  BY <1>4, SwapKeeps
<1>5. CASE UNCHANGED vars
  BY <1>5 DEF vars, CardInv, TypeOK, InTurn, OwnLoaders, StyleOf, Fits
<1>6. CASE (DoStep /\ ~ DoHwVersion /\ ~ DoLoad) \/ mmc_init \/ mmc_block_writem
  BY <1>6, StepsAreOrdinary, OrdinaryKeeps DEF DoStep
<1>. QED  BY <1>1, <1>2, <1>3, <1>4, <1>5, <1>6 DEF Next, DoStep

\* Every variable keeps its type, whatever fails.
THEOREM CardTypeCorrect == Spec => []TypeOK
<1>1. CardInv => TypeOK
  BY DEF CardInv
<1>. QED  BY <1>1, InitCardInv, CardInvInductive, PTL DEF Spec

\* A card whose version is known is never given another controller's loaders, for all
\* cards, faults and sessions.
THEOREM OwnLoadersHolds == Spec => []OwnLoaders
<1>1. CardInv => OwnLoaders
  BY DEF CardInv
<1>. QED  BY <1>1, InitCardInv, CardInvInductive, PTL DEF Spec
-----------------------------------------------------------------------------
(***************************************************************************)
(* CARD_INIT: the card that was found is ready for the program.            *)
(***************************************************************************)

\* CARD_INIT is one step; when it has answered 0 without the two exceptions of
\* InitMeansReady, the card answers at the address that is kept.
InitAnswered ==
  Request = "init" =>
    \/ todo = Step("mmc_init", "")
    \/ /\ todo = <<>>
       /\ (/\ ret = "ok" /\ "cmd41" \notin hit
           /\ ~(slot.type.kind = "MMC" /\ rca = 1)) => Answers

\* mmc_init finds a card that answers where the program will ask, but for the exceptions.
LEMMA InitFinds ==
  ASSUME CardInv, mmc_init, ret' = "ok", "cmd41" \notin hit',
         ~(slot'.type.kind = "MMC" /\ rca' = 1)
  PROVE  Answers'
<1>1. slot \in CardState /\ rca \in {0, 1} /\ slot.type \in CardType
  BY DEF CardInv, TypeOK
<1>2. CASE slot.on /\ slot.type.kind = "SD"
  <2>1. slot' = [slot EXCEPT !.tran = TRUE, !.addr = 1] /\ rca' = 1
    BY <1>2 DEF mmc_init, sd_init, FailsWith
  <2> QED
    BY <1>1, <1>2, <2>1 DEF Answers, CardState
<1>3. CASE ~(slot.on /\ slot.type.kind = "SD")
  <2>1. slot.on /\ slot' = [slot EXCEPT !.tran = TRUE, !.addr = 0] /\ rca' = rca
    BY <1>3 DEF mmc_init, mmc_found
  <2>2. slot.type.kind = "MMC"
    BY <1>1, <1>3, <2>1 DEF CardType
  <2> QED
    BY <1>1, <2>1, <2>2 DEF Answers, CardState
<1> QED
  BY <1>2, <1>3

\* No other step is taken for CARD_INIT, and every other request replaces it.
LEMMA InitAnsweredInductive ==
  ASSUME CardInv, InitAnswered, [Next]_vars
  PROVE  InitAnswered'
<1>1. CASE UNCHANGED vars
  BY <1>1 DEF vars, InitAnswered, Request, Answers
<1>2. CASE NAND_OPS_Handle \/ NotWanted \/ SwapCard
  <2>1. n' = n + 1 /\ board' = board
    BY <1>2 DEF NAND_OPS_Handle, NotWanted, SwapCard, Wanted
  <2>a. n \in Nat
    <3>1. Len(board.session) \in Nat /\ n \in 0 .. Len(board.session)
      BY SessionType DEF CardInv, TypeOK
    <3> QED
      BY <3>1
  <2>2. Request' = board.session[n + 1]
    BY <2>1, <2>a DEF Request
  <2> QED
    BY <1>2, <2>2 DEF NAND_OPS_Handle, NotWanted, SwapCard, Wanted, InitAnswered
<1>3. CASE DoStep \/ mmc_init \/ mmc_block_writem
  <2>1. todo # <<>> /\ UNCHANGED <<board, n>>
    BY <1>3 DEF DoStep, DoPower, DoOff, InitNotReady, InitOtherMaker, InitCard, DoFunc,
       DoTransfer, DoHwVersion, DoLoad, DoParam, DoErase, DoStatus, DoFdm, DoReadBack,
       DoCompare, DoCid, mmc_init, mmc_block_writem, Now, Idle
  <2>2. Request' = Request
    BY <2>1 DEF Request
  <2>3. CASE Request = "init"
    <3>1. Head(todo).do = "mmc_init"
      <4>1. todo = Step("mmc_init", "")
        BY <2>1, <2>3 DEF InitAnswered
      <4> DEFINE x == [do |-> "mmc_init", arg |-> ""]
      <4>2. x.do = "mmc_init" /\ todo = <<x>>
        BY <4>1 DEF Step
      <4> HIDE DEF x
      <4>3. Head(<<x>>) = x
        OBVIOUS
      <4> QED
        BY <4>2, <4>3
    <3>2. mmc_init
      BY <1>3, <3>1 DEF DoStep, DoPower, DoOff, InitNotReady, InitOtherMaker, InitCard,
         DoFunc, DoTransfer, DoHwVersion, DoLoad, DoParam, DoErase, DoStatus, DoFdm,
         DoReadBack, DoCompare, DoCid, mmc_block_writem, Now
    <3>3. todo' = <<>>
      BY <3>2 DEF mmc_init
    <3> QED
      BY <3>2, <3>3, InitFinds DEF InitAnswered
  <2> QED
    BY <2>2, <2>3 DEF InitAnswered
<1> QED
  BY <1>1, <1>2, <1>3 DEF Next

\* A card that CARD_INIT has found can be written to by the request that follows, for
\* all cards, faults and sessions.
THEOREM InitMeansReadyHolds == Spec => []InitMeansReady
<1>1. Init => InitAnswered
  BY DEF Init, InitAnswered, Request
<1>2. CardInv /\ InitAnswered => InitMeansReady
  BY DEF InitAnswered, InitMeansReady, Answered, Idle, Step
<1>. QED  BY <1>1, <1>2, InitCardInv, CardInvInductive, InitAnsweredInductive, PTL DEF Spec

-----------------------------------------------------------------------------
(***************************************************************************)
(* CARD_OPEN_CARD: what is left of skymedi_open_card behind the erase, for *)
(* a card of style s.                                                      *)
(***************************************************************************)

\* The CID: power, identification, the loader, the write, power.
Cid8    == Power
Cid7    == Step("cid", "") \o Cid8
Cid6    == SetFunc("56") \o Cid7
Cid5(s) == Load(s, "erase") \o Cid6
Cid4(s) == SetFunc("57") \o Cid5(s)
Cid3(s) == SetFunc("55") \o Cid4(s)
Cid2(s) == OpenInit \o Cid3(s)
Cid1(s) == Power \o Cid2(s)

\* Both copies of the firmware data.
Fdm6(s) == Step("compare", 2) \o Cid1(s)
Fdm5(s) == Step("readback", 2) \o Fdm6(s)
Fdm4(s) == Step("fdm", 2) \o Fdm5(s)
Fdm3(s) == Step("compare", 1) \o Fdm4(s)
Fdm2(s) == Step("readback", 1) \o Fdm3(s)
Fdm1(s) == Step("fdm", 1) \o Fdm2(s)

\* The second format, which a 6811 does not get.
Second8(s) == SetFunc("56") \o Fdm1(s)
Second7(s) == IF s \in SdStyles THEN Load(s, "erase") \o Second8(s) ELSE Second8(s)
Second6(s) == SetFunc("57") \o Second7(s)
Second5(s) == Step("status", "") \o Second6(s)
Second4(s) == Step("param", "ignored") \o Second5(s)
Second3(s) == SetFunc("56") \o Second4(s)
Second2(s) == Load(s, "llf2") \o Second3(s)
Second1(s) == SetFunc("57") \o Second2(s)

\* The first format.
Behind(s) == IF s = "6811MMC" THEN Fdm1(s) ELSE Second1(s)
First9(s) == Step("status", "") \o Behind(s)
First8(s) == Step("param", "checked") \o First9(s)
First7(s) == IF s = "6811MMC" THEN Step("vt_table", "") \o First8(s) ELSE First8(s)
First6(s) == SetFunc("56") \o First7(s)
First5(s) == Load(s, "llf1") \o First6(s)
First4(s) == SetFunc("57") \o First5(s)
First3(s) == SetFunc("55") \o First4(s)
First2(s) == OpenInit \o First3(s)
First1(s) == Power \o First2(s)

\* The steps before: identification and erase.
Early == {x \in Steps :
            \/ x.do \in {"power", "read", "func", "width", "param", "erase"}
            \/ x.do = "init" /\ x.arg = "must work"
            \/ x.do = "load" /\ x.arg = "erase"}

\* The first step of x, and the rest.
Follows(x, do, arg, y) ==
  x # <<>> /\ Head(x).do = do /\ Head(x).arg = arg /\ Tail(x) = y

\* A step in front of a sequence.
LEMMA FollowsStep ==
  ASSUME NEW do \in Dos, NEW arg \in Args, NEW y \in Seq(Steps)
  PROVE  /\ Step(do, arg) \o y \in Seq(Steps)
         /\ Follows(Step(do, arg) \o y, do, arg, y)
<1> DEFINE x == [do |-> do, arg |-> arg]
<1>1. x \in Steps /\ x.do = do /\ x.arg = arg
  BY DEF Steps
<1>2. Step(do, arg) = <<x>>
  BY DEF Step
<1> HIDE DEF x
<1>3. <<x>> \o y \in Seq(Steps) /\ Follows(<<x>> \o y, do, arg, y)
  BY <1>1, ConsHeadTail DEF Follows
<1> QED
  BY <1>2, <1>3

\* The steps of the last part.
LEMMA CidSteps ==
  ASSUME NEW s \in Styles
  PROVE  /\ Cid1(s) \in Seq(Steps) /\ Cid3(s) \in Seq(Steps)
         /\ Follows(Cid1(s), "power", "", Cid2(s))
         /\ Follows(Cid2(s), "init", "must work", Cid3(s))
         /\ Follows(Cid3(s), "func", "55", Cid4(s))
         /\ Follows(Cid4(s), "func", "57", Cid5(s))
         /\ Follows(Cid5(s), "load", "erase", Cid6)
         /\ Follows(Cid6, "func", "56", Cid7)
         /\ Follows(Cid7, "cid", "", Cid8)
         /\ Follows(Cid8, "power", "", <<>>)
<1> DEFINE T == Seq(Steps)
<1>e. <<>> \in T
  BY EmptySeq
<1>1. \A do \in Dos, arg \in Args : \A y \in T :
        Step(do, arg) \o y \in T /\ Follows(Step(do, arg) \o y, do, arg, y)
  BY FollowsStep
<1>2. /\ {"power", "init", "func", "load", "cid"} \subseteq Dos
      /\ {"", "must work", "55", "56", "57", "erase"} \subseteq Args
  BY DEF Dos, Args
<1>3. Cid8 \in T /\ Follows(Cid8, "power", "", <<>>)
  <2>1. Step("power", "") \in Seq(Plain)
    BY PlainSteps DEF Dos
  <2>2. Step("power", "") \o <<>> = Step("power", "")
    BY <2>1, ConcatEmptySeq
  <2>3. Cid8 = Step("power", "") \o <<>>
    BY <2>2 DEF Cid8, Power
  <2> QED
    BY <1>e, <1>1, <1>2, <2>3
<1> HIDE DEF T
<1>4. Cid7 \in T /\ Follows(Cid7, "cid", "", Cid8)
  BY <1>1, <1>2, <1>3 DEF Cid7
<1>5. Cid6 \in T /\ Follows(Cid6, "func", "56", Cid7)
  BY <1>1, <1>2, <1>4 DEF Cid6, SetFunc
<1>6. Cid5(s) \in T /\ Follows(Cid5(s), "load", "erase", Cid6)
  BY <1>1, <1>2, <1>5 DEF Cid5, Load
<1>7. Cid4(s) \in T /\ Follows(Cid4(s), "func", "57", Cid5(s))
  BY <1>1, <1>2, <1>6 DEF Cid4, SetFunc
<1>8. Cid3(s) \in T /\ Follows(Cid3(s), "func", "55", Cid4(s))
  BY <1>1, <1>2, <1>7 DEF Cid3, SetFunc
<1>9. Cid2(s) \in T /\ Follows(Cid2(s), "init", "must work", Cid3(s))
  BY <1>1, <1>2, <1>8 DEF Cid2, OpenInit
<1>10. Cid1(s) \in T /\ Follows(Cid1(s), "power", "", Cid2(s))
  BY <1>1, <1>2, <1>9 DEF Cid1, Power
<1> QED
  BY <1>3, <1>4, <1>5, <1>6, <1>7, <1>8, <1>9, <1>10 DEF T

\* The steps that write the firmware data.
LEMMA FdmSteps ==
  ASSUME NEW s \in Styles
  PROVE  /\ Fdm1(s) \in Seq(Steps) /\ Fdm4(s) \in Seq(Steps)
         /\ Follows(Fdm1(s), "fdm", 1, Fdm2(s))
         /\ Follows(Fdm2(s), "readback", 1, Fdm3(s))
         /\ Follows(Fdm3(s), "compare", 1, Fdm4(s))
         /\ Follows(Fdm4(s), "fdm", 2, Fdm5(s))
         /\ Follows(Fdm5(s), "readback", 2, Fdm6(s))
         /\ Follows(Fdm6(s), "compare", 2, Cid1(s))
<1> DEFINE T == Seq(Steps)
<1>1. \A do \in Dos, arg \in Args : \A y \in T :
        Step(do, arg) \o y \in T /\ Follows(Step(do, arg) \o y, do, arg, y)
  BY FollowsStep
<1>2. {"fdm", "readback", "compare"} \subseteq Dos /\ {1, 2} \subseteq Args
  BY DEF Dos, Args
<1>3. Cid1(s) \in T
  BY CidSteps
<1> HIDE DEF T
<1>4. Fdm6(s) \in T /\ Follows(Fdm6(s), "compare", 2, Cid1(s))
  BY <1>1, <1>2, <1>3 DEF Fdm6
<1>5. Fdm5(s) \in T /\ Follows(Fdm5(s), "readback", 2, Fdm6(s))
  BY <1>1, <1>2, <1>4 DEF Fdm5
<1>6. Fdm4(s) \in T /\ Follows(Fdm4(s), "fdm", 2, Fdm5(s))
  BY <1>1, <1>2, <1>5 DEF Fdm4
<1>7. Fdm3(s) \in T /\ Follows(Fdm3(s), "compare", 1, Fdm4(s))
  BY <1>1, <1>2, <1>6 DEF Fdm3
<1>8. Fdm2(s) \in T /\ Follows(Fdm2(s), "readback", 1, Fdm3(s))
  BY <1>1, <1>2, <1>7 DEF Fdm2
<1>9. Fdm1(s) \in T /\ Follows(Fdm1(s), "fdm", 1, Fdm2(s))
  BY <1>1, <1>2, <1>8 DEF Fdm1
<1> QED
  BY <1>4, <1>5, <1>6, <1>7, <1>8, <1>9 DEF T

\* The steps of the second format.
LEMMA SecondSteps ==
  ASSUME NEW s \in Styles
  PROVE  /\ Second1(s) \in Seq(Steps)
         /\ Follows(Second1(s), "func", "57", Second2(s))
         /\ Follows(Second2(s), "load", "llf2", Second3(s))
         /\ Follows(Second3(s), "func", "56", Second4(s))
         /\ Follows(Second4(s), "param", "ignored", Second5(s))
         /\ Follows(Second5(s), "status", "", Second6(s))
         /\ Follows(Second6(s), "func", "57", Second7(s))
         /\ \/ Follows(Second7(s), "load", "erase", Second8(s))
            \/ Second7(s) = Second8(s)
         /\ Follows(Second8(s), "func", "56", Fdm1(s))
<1> DEFINE T == Seq(Steps)
<1>1. \A do \in Dos, arg \in Args : \A y \in T :
        Step(do, arg) \o y \in T /\ Follows(Step(do, arg) \o y, do, arg, y)
  BY FollowsStep
<1>2. /\ {"func", "load", "param", "status"} \subseteq Dos
      /\ {"", "56", "57", "erase", "llf2", "ignored"} \subseteq Args
  BY DEF Dos, Args
<1>3. Fdm1(s) \in T
  BY FdmSteps
<1> HIDE DEF T
<1>4. Second8(s) \in T /\ Follows(Second8(s), "func", "56", Fdm1(s))
  BY <1>1, <1>2, <1>3 DEF Second8, SetFunc
<1>5. /\ Second7(s) \in T
      /\ \/ Follows(Second7(s), "load", "erase", Second8(s))
         \/ Second7(s) = Second8(s)
  BY <1>1, <1>2, <1>4 DEF Second7, Load
<1>6. Second6(s) \in T /\ Follows(Second6(s), "func", "57", Second7(s))
  BY <1>1, <1>2, <1>5 DEF Second6, SetFunc
<1>7. Second5(s) \in T /\ Follows(Second5(s), "status", "", Second6(s))
  BY <1>1, <1>2, <1>6 DEF Second5
<1>8. Second4(s) \in T /\ Follows(Second4(s), "param", "ignored", Second5(s))
  BY <1>1, <1>2, <1>7 DEF Second4
<1>9. Second3(s) \in T /\ Follows(Second3(s), "func", "56", Second4(s))
  BY <1>1, <1>2, <1>8 DEF Second3, SetFunc
<1>10. Second2(s) \in T /\ Follows(Second2(s), "load", "llf2", Second3(s))
  BY <1>1, <1>2, <1>9 DEF Second2, Load
<1>11. Second1(s) \in T /\ Follows(Second1(s), "func", "57", Second2(s))
  BY <1>1, <1>2, <1>10 DEF Second1, SetFunc
<1> QED
  BY <1>4, <1>5, <1>6, <1>7, <1>8, <1>9, <1>10, <1>11 DEF T

\* The steps of the first format.
LEMMA FirstSteps ==
  ASSUME NEW s \in Styles
  PROVE  /\ First1(s) \in Seq(Steps)
         /\ Follows(First1(s), "power", "", First2(s))
         /\ Follows(First2(s), "init", "must work", First3(s))
         /\ Follows(First3(s), "func", "55", First4(s))
         /\ Follows(First4(s), "func", "57", First5(s))
         /\ Follows(First5(s), "load", "llf1", First6(s))
         /\ Follows(First6(s), "func", "56", First7(s))
         /\ \/ Follows(First7(s), "vt_table", "", First8(s))
            \/ First7(s) = First8(s)
         /\ Follows(First8(s), "param", "checked", First9(s))
         /\ Follows(First9(s), "status", "", Behind(s))
<1> DEFINE T == Seq(Steps)
<1>1. \A do \in Dos, arg \in Args : \A y \in T :
        Step(do, arg) \o y \in T /\ Follows(Step(do, arg) \o y, do, arg, y)
  BY FollowsStep
<1>2. /\ {"power", "init", "func", "load", "vt_table", "param", "status"} \subseteq Dos
      /\ {"", "must work", "55", "56", "57", "llf1", "checked"} \subseteq Args
  BY DEF Dos, Args
<1>3. Behind(s) \in T
  BY FdmSteps, SecondSteps DEF Behind
<1> HIDE DEF T
<1>4. First9(s) \in T /\ Follows(First9(s), "status", "", Behind(s))
  BY <1>1, <1>2, <1>3 DEF First9
<1>5. First8(s) \in T /\ Follows(First8(s), "param", "checked", First9(s))
  BY <1>1, <1>2, <1>4 DEF First8
<1>6. /\ First7(s) \in T
      /\ \/ Follows(First7(s), "vt_table", "", First8(s))
         \/ First7(s) = First8(s)
  BY <1>1, <1>2, <1>5 DEF First7
<1>7. First6(s) \in T /\ Follows(First6(s), "func", "56", First7(s))
  BY <1>1, <1>2, <1>6 DEF First6, SetFunc
<1>8. First5(s) \in T /\ Follows(First5(s), "load", "llf1", First6(s))
  BY <1>1, <1>2, <1>7 DEF First5, Load
<1>9. First4(s) \in T /\ Follows(First4(s), "func", "57", First5(s))
  BY <1>1, <1>2, <1>8 DEF First4, SetFunc
<1>10. First3(s) \in T /\ Follows(First3(s), "func", "55", First4(s))
  BY <1>1, <1>2, <1>9 DEF First3, SetFunc
<1>11. First2(s) \in T /\ Follows(First2(s), "init", "must work", First3(s))
  BY <1>1, <1>2, <1>10 DEF First2, OpenInit
<1>12. First1(s) \in T /\ Follows(First1(s), "power", "", First2(s))
  BY <1>1, <1>2, <1>11 DEF First1, Power
<1> QED
  BY <1>4, <1>5, <1>6, <1>7, <1>8, <1>9, <1>10, <1>11, <1>12 DEF T

\* Concatenation, under a name of its own, which the provers do not look into.
Then(a, b) == a \o b
StepSeq == Seq(Steps)

\* Concatenations are sequences of steps, and associative.
LEMMA ThenType == \A a, b \in StepSeq : Then(a, b) \in StepSeq
BY Concats DEF Then, StepSeq

\* Brackets move to the right.
LEMMA FromTheRight ==
  \A a, b, c \in StepSeq : Then(Then(a, b), c) = Then(a, Then(b, c))
BY ConcatAssociative DEF Then, StepSeq

\* Nothing in front.
LEMMA NothingBefore == \A a \in StepSeq : Then(<<>>, a) = a
BY ConcatEmptySeq DEF Then, StepSeq

\* The single steps, as sequences.
LEMMA StepTypes ==
  \A do \in Dos, arg \in Args : Step(do, arg) \in StepSeq
<1> SUFFICES ASSUME NEW do \in Dos, NEW arg \in Args PROVE Step(do, arg) \in StepSeq
  OBVIOUS
<1> DEFINE x == [do |-> do, arg |-> arg]
<1>1. x \in Steps /\ Step(do, arg) = <<x>>
  BY DEF Steps, Step
<1> QED
  BY <1>1 DEF StepSeq

\* The pieces that the operators of the model put together.
LEMMA PieceTypes ==
  ASSUME NEW s \in Styles
  PROVE  /\ Power \in StepSeq /\ OpenInit \in StepSeq /\ Read \in StepSeq
         /\ SetFunc("55") \in StepSeq /\ SetFunc("56") \in StepSeq
         /\ SetFunc("57") \in StepSeq /\ SetFunc("AA") \in StepSeq
         /\ Load(s, "erase") \in StepSeq /\ Load(s, "llf1") \in StepSeq
         /\ Load(s, "llf2") \in StepSeq
         /\ \A do \in {"cid", "status", "vt_table", "width", "erase"} :
              Step(do, "") \in StepSeq
         /\ Step("param", "ignored") \in StepSeq
         /\ Step("param", "checked") \in StepSeq
         /\ \A k \in {1, 2} : \A do \in {"fdm", "readback", "compare"} :
              Step(do, k) \in StepSeq
         /\ <<>> \in StepSeq
<1>1. /\ {"power", "init", "read", "func", "load", "cid", "status", "vt_table", "width",
          "erase", "param", "fdm", "readback", "compare"} \subseteq Dos
      /\ {"", "must work", "55", "56", "57", "AA", "erase", "llf1", "llf2", "ignored",
          "checked", 1, 2} \subseteq Args
  BY DEF Dos, Args
<1>2. <<>> \in StepSeq
  BY EmptySeq DEF StepSeq
<1> QED
  BY <1>1, <1>2, StepTypes DEF Power, OpenInit, Read, SetFunc, Load

\* make_CID, step by step.
LEMMA CidIs ==
  ASSUME NEW s \in Styles
  PROVE  make_CID(s) = Cid3(s)
<1> DEFINE a == SetFunc("55")
           b == SetFunc("57")
           c == Load(s, "erase")
           d == SetFunc("56")
           e == Step("cid", "")
           p == Power
<1>1. /\ a \in StepSeq /\ b \in StepSeq /\ c \in StepSeq
      /\ d \in StepSeq /\ e \in StepSeq /\ p \in StepSeq
  BY PieceTypes
<1>2. make_CID(s) = Then(Then(Then(Then(Then(a, b), c), d), e), p)
  BY DEF make_CID, Then
<1>3. Cid3(s) = Then(a, Then(b, Then(c, Then(d, Then(e, p)))))
  BY DEF Cid3, Cid4, Cid5, Cid6, Cid7, Cid8, Then
<1> HIDE DEF a, b, c, d, e, p
<1>4. /\ Then(a, b) \in StepSeq
      /\ Then(Then(a, b), c) \in StepSeq
      /\ Then(Then(Then(a, b), c), d) \in StepSeq
      /\ Then(Then(Then(Then(a, b), c), d), e) \in StepSeq
  BY <1>1, ThenType, Zenon
<1>5. /\ Then(e, p) \in StepSeq
      /\ Then(d, Then(e, p)) \in StepSeq
      /\ Then(c, Then(d, Then(e, p))) \in StepSeq
      /\ Then(b, Then(c, Then(d, Then(e, p)))) \in StepSeq
  BY <1>1, ThenType, Zenon
<1> QED
  BY <1>1, <1>2, <1>3, <1>4, <1>5, FromTheRight

\* A copy of the firmware data, with what follows.
LEMMA FdmIs ==
  ASSUME NEW k \in {1, 2}, NEW r \in StepSeq
  PROVE  /\ Then(Fdm(k), r)
              = Step("fdm", k) \o (Step("readback", k) \o (Step("compare", k) \o r))
         /\ Fdm(k) \in StepSeq
<1> DEFINE a == Step("fdm", k)
           b == Step("readback", k)
           c == Step("compare", k)
<1>1. a \in StepSeq /\ b \in StepSeq /\ c \in StepSeq
  BY StepTypes DEF Dos, Args
<1>2. Fdm(k) = Then(Then(a, b), c)
  BY DEF Fdm, Then
<1>3. a \o (b \o (c \o r)) = Then(a, Then(b, Then(c, r)))
  BY DEF Then
<1> HIDE DEF a, b, c
<1>4. /\ Then(a, b) \in StepSeq
      /\ Then(Then(a, b), c) \in StepSeq
  BY <1>1, ThenType, Zenon
<1>5. /\ Then(c, r) \in StepSeq
      /\ Then(b, Then(c, r)) \in StepSeq
  BY <1>1, ThenType, Zenon
<1>6. Then(Fdm(k), r) = Then(a, Then(b, Then(c, r))) /\ Fdm(k) \in StepSeq
  BY <1>1, <1>2, <1>4, <1>5, FromTheRight
<1> QED
  BY <1>3, <1>6 DEF a, b, c

\* The second format, with what follows.
LEMMA SecondIs ==
  ASSUME NEW s \in Styles
  PROVE  Then(SecondFormat(s), Fdm1(s)) = Second1(s) /\ SecondFormat(s) \in StepSeq
<1> DEFINE a == SetFunc("57")
           b == Load(s, "llf2")
           c == SetFunc("56")
           d == Step("param", "ignored")
           e == Step("status", "")
           g == IF s \in SdStyles THEN Load(s, "erase") ELSE <<>>
           r == Fdm1(s)
<1>1. /\ a \in StepSeq /\ b \in StepSeq /\ c \in StepSeq
      /\ d \in StepSeq /\ e \in StepSeq /\ g \in StepSeq /\ r \in StepSeq
  BY PieceTypes, FdmSteps DEF StepSeq
<1>2. SecondFormat(s)
        = Then(Then(Then(Then(Then(Then(Then(a, b), c), d), e), a), g), c)
  BY DEF SecondFormat, Then
<1>3. Then(g, Second8(s)) = Second7(s) /\ Second8(s) = Then(c, r)
  <2>1. Second8(s) = Then(c, r)
    BY DEF Second8, Then
  <2>2. Second8(s) \in StepSeq
    BY <1>1, <2>1, ThenType, Zenon
  <2>3. CASE s \in SdStyles
    BY <2>1, <2>3 DEF Second7, Then
  <2>4. CASE s \notin SdStyles
    BY <2>1, <2>2, <2>4, NothingBefore DEF Second7
  <2> QED
    BY <2>1, <2>3, <2>4
<1>4. Second1(s) = Then(a, Then(b, Then(c, Then(d, Then(e, Then(a, Second7(s)))))))
  BY DEF Second1, Second2, Second3, Second4, Second5, Second6, Then
<1> HIDE DEF a, b, c, d, e, g, r
<1>5. /\ Then(a, b) \in StepSeq
      /\ Then(Then(a, b), c) \in StepSeq
      /\ Then(Then(Then(a, b), c), d) \in StepSeq
      /\ Then(Then(Then(Then(a, b), c), d), e) \in StepSeq
      /\ Then(Then(Then(Then(Then(a, b), c), d), e), a) \in StepSeq
      /\ Then(Then(Then(Then(Then(Then(a, b), c), d), e), a), g) \in StepSeq
      /\ Then(Then(Then(Then(Then(Then(Then(a, b), c), d), e), a), g), c) \in StepSeq
  BY <1>1, ThenType, Zenon
<1>6. /\ Then(c, r) \in StepSeq
      /\ Then(g, Then(c, r)) \in StepSeq
      /\ Then(a, Then(g, Then(c, r))) \in StepSeq
      /\ Then(e, Then(a, Then(g, Then(c, r)))) \in StepSeq
      /\ Then(d, Then(e, Then(a, Then(g, Then(c, r))))) \in StepSeq
      /\ Then(c, Then(d, Then(e, Then(a, Then(g, Then(c, r)))))) \in StepSeq
      /\ Then(b, Then(c, Then(d, Then(e, Then(a, Then(g, Then(c, r))))))) \in StepSeq
  BY <1>1, ThenType, Zenon
<1>7. Then(SecondFormat(s), r)
        = Then(a, Then(b, Then(c, Then(d, Then(e, Then(a, Then(g, Then(c, r))))))))
  BY <1>1, <1>2, <1>5, <1>6, FromTheRight
<1>8. SecondFormat(s) \in StepSeq
  BY <1>2, <1>5
<1> QED
  BY <1>3, <1>4, <1>7, <1>8 DEF r

\* The first format, with what follows.
LEMMA FirstIs ==
  ASSUME NEW s \in Styles
  PROVE  Then(FirstFormat(s), Behind(s)) = First1(s) /\ FirstFormat(s) \in StepSeq
<1> DEFINE p == Power
           i == OpenInit
           x == SetFunc("55")
           y == SetFunc("57")
           l == Load(s, "llf1")
           c == SetFunc("56")
           v == IF s = "6811MMC" THEN Step("vt_table", "") ELSE <<>>
           d == Step("param", "checked")
           e == Step("status", "")
           r == Behind(s)
<1>1. /\ l \in StepSeq /\ c \in StepSeq /\ v \in StepSeq
      /\ d \in StepSeq /\ e \in StepSeq /\ r \in StepSeq
      /\ p \in StepSeq /\ i \in StepSeq /\ x \in StepSeq /\ y \in StepSeq
  BY PieceTypes, FdmSteps, SecondSteps DEF Behind, StepSeq
<1>2. FirstFormat(s)
        = Then(Then(Then(Then(Then(Then(Then(Then(p, i), x), y), l), c), v), d), e)
  BY DEF FirstFormat, Prepare, Then
<1>3. Then(v, First8(s)) = First7(s) /\ First8(s) = Then(d, Then(e, r))
  <2>1. First8(s) = Then(d, Then(e, r))
    BY DEF First8, First9, Then
  <2>2. First8(s) \in StepSeq
    BY <1>1, <2>1, ThenType, Zenon
  <2>3. CASE s = "6811MMC"
    BY <2>1, <2>3 DEF First7, Then
  <2>4. CASE s # "6811MMC"
    BY <2>1, <2>2, <2>4, NothingBefore DEF First7
  <2> QED
    BY <2>1, <2>3, <2>4
<1>4. First1(s) = Then(p, Then(i, Then(x, Then(y, Then(l, Then(c, First7(s)))))))
  BY DEF First1, First2, First3, First4, First5, First6, Then
<1> HIDE DEF p, i, x, y, l, c, v, d, e, r
<1>5. /\ Then(p, i) \in StepSeq
      /\ Then(Then(p, i), x) \in StepSeq
      /\ Then(Then(Then(p, i), x), y) \in StepSeq
      /\ Then(Then(Then(Then(p, i), x), y), l) \in StepSeq
      /\ Then(Then(Then(Then(Then(p, i), x), y), l), c) \in StepSeq
      /\ Then(Then(Then(Then(Then(Then(p, i), x), y), l), c), v) \in StepSeq
      /\ Then(Then(Then(Then(Then(Then(Then(p, i), x), y), l), c), v), d) \in StepSeq
      /\ Then(Then(Then(Then(Then(Then(Then(Then(p, i), x), y), l), c), v), d), e) \in StepSeq
  BY <1>1, ThenType, Zenon
<1>6. /\ Then(e, r) \in StepSeq
      /\ Then(d, Then(e, r)) \in StepSeq
      /\ Then(v, Then(d, Then(e, r))) \in StepSeq
      /\ Then(c, Then(v, Then(d, Then(e, r)))) \in StepSeq
      /\ Then(l, Then(c, Then(v, Then(d, Then(e, r))))) \in StepSeq
      /\ Then(y, Then(l, Then(c, Then(v, Then(d, Then(e, r)))))) \in StepSeq
      /\ Then(x, Then(y, Then(l, Then(c, Then(v, Then(d, Then(e, r))))))) \in StepSeq
      /\ Then(i, Then(x, Then(y, Then(l, Then(c, Then(v, Then(d, Then(e, r)))))))) \in StepSeq
  BY <1>1, ThenType, Zenon
<1>7. Then(FirstFormat(s), r)
        = Then(p, Then(i, Then(x, Then(y, Then(l, Then(c, Then(v, Then(d, Then(e, r)))))))))
  BY <1>1, <1>2, <1>5, <1>6, FromTheRight
<1>8. FirstFormat(s) \in StepSeq
  BY <1>2, <1>5
<1> QED
  BY <1>3, <1>4, <1>7, <1>8 DEF r

\* The erase and what is before it: early steps.
LEMMA EarlySteps ==
  ASSUME NEW s \in Styles
  PROVE  Identify \o EraseAll(s) \in Seq(Early)
<1>1. \A do \in {"power", "read", "func", "width", "param", "erase"} : \A arg \in Args :
        Step(do, arg) \in Seq(Early)
  <2> SUFFICES ASSUME NEW do \in {"power", "read", "func", "width", "param", "erase"},
                      NEW arg \in Args
               PROVE  Step(do, arg) \in Seq(Early)
    OBVIOUS
  <2> DEFINE x == [do |-> do, arg |-> arg]
  <2>1. x \in Early /\ Step(do, arg) = <<x>>
    BY DEF Early, Steps, Dos, Step
  <2> HIDE DEF x
  <2> QED
    BY <2>1
<1>2. Step("init", "must work") \in Seq(Early) /\ Step("load", "erase") \in Seq(Early)
  <2> DEFINE x == [do |-> "init", arg |-> "must work"]
             y == [do |-> "load", arg |-> "erase"]
  <2>1. x \in Early /\ y \in Early
    BY DEF Early, Steps, Dos, Args
  <2>2. Step("init", "must work") = <<x>> /\ Step("load", "erase") = <<y>>
    BY DEF Step
  <2> HIDE DEF x, y
  <2>3. <<x>> \in Seq(Early)
    BY <2>1
  <2>4. <<y>> \in Seq(Early)
    BY <2>1
  <2> QED
    BY <2>2, <2>3, <2>4, Zenon
<1>3. /\ Power \in Seq(Early) /\ OpenInit \in Seq(Early) /\ Read \in Seq(Early)
      /\ SetFunc("55") \in Seq(Early) /\ SetFunc("56") \in Seq(Early)
      /\ SetFunc("57") \in Seq(Early) /\ SetFunc("AA") \in Seq(Early)
      /\ Load(s, "erase") \in Seq(Early) /\ Step("width", "") \in Seq(Early)
      /\ Step("param", "ignored") \in Seq(Early) /\ Step("erase", "") \in Seq(Early)
  <2>1. {"", "55", "56", "57", "AA", "ignored"} \subseteq Args
    BY DEF Args
  <2> DEFINE T == Seq(Early)
  <2>2. \A do \in {"power", "read", "func", "width", "param", "erase"} : \A arg \in Args :
          Step(do, arg) \in T
    BY <1>1
  <2>3. Step("init", "must work") \in T /\ Step("load", "erase") \in T
    BY <1>2
  <2> HIDE DEF T
  <2>4. /\ Power \in T /\ OpenInit \in T /\ Read \in T
        /\ SetFunc("55") \in T /\ SetFunc("56") \in T
        /\ SetFunc("57") \in T /\ SetFunc("AA") \in T
        /\ Load(s, "erase") \in T /\ Step("width", "") \in T
        /\ Step("param", "ignored") \in T /\ Step("erase", "") \in T
    BY <2>1, <2>2, <2>3 DEF Power, OpenInit, Read, SetFunc, Load
  <2> QED
    BY <2>4 DEF T
<1>4. \A a, b \in Seq(Early) : a \o b \in Seq(Early)
  BY Concats
<1>5. Identify \in Seq(Early)
  BY <1>3, <1>4 DEF Identify
<1>6. Prepare \in Seq(Early)
  BY <1>3, <1>4 DEF Prepare
<1>7. EraseAll(s) \in Seq(Early)
  BY <1>3, <1>4, <1>6 DEF EraseAll
<1> QED
  BY <1>4, <1>5, <1>7

\* skymedi_open_card behind the version: early steps, then the rests named above.
LEMMA OpenRestIs ==
  ASSUME NEW s \in Styles
  PROVE  OpenRest(s) = (Identify \o EraseAll(s)) \o First1(s)
<1> DEFINE A == Identify \o EraseAll(s)
           F == FirstFormat(s)
           X == IF s = "6811MMC" THEN <<>> ELSE SecondFormat(s)
           c == Fdm(1)
           d == Fdm(2)
           p == Power
           i == OpenInit
           m == make_CID(s)
<1>1. /\ A \in StepSeq /\ F \in StepSeq /\ X \in StepSeq /\ c \in StepSeq
      /\ d \in StepSeq /\ p \in StepSeq /\ i \in StepSeq /\ m \in StepSeq
  <2>1. Early \subseteq Steps
    BY DEF Early
  <2>2. A \in StepSeq
    BY <2>1, EarlySteps, SeqMonotonic DEF StepSeq
  <2>3. m \in StepSeq
    BY CidIs, CidSteps DEF StepSeq
  <2>4. c \in StepSeq /\ d \in StepSeq
    BY PieceTypes, FdmIs
  <2> QED
    BY <2>2, <2>3, <2>4, FirstIs, SecondIs, PieceTypes
<1>2. OpenRest(s) = Then(Then(Then(Then(Then(Then(Then(A, F), X), c), d), p), i), m)
  BY DEF OpenRest, Then
<1>3. Then(p, Then(i, m)) = Cid1(s) /\ Cid1(s) \in StepSeq
  BY CidIs, CidSteps DEF Cid1, Cid2, Then, StepSeq
<1>4. Then(d, Cid1(s)) = Fdm4(s) /\ Fdm4(s) \in StepSeq
  BY <1>3, FdmIs, FdmSteps DEF Fdm4, Fdm5, Fdm6, StepSeq
<1>5. Then(c, Fdm4(s)) = Fdm1(s) /\ Fdm1(s) \in StepSeq
  BY <1>4, FdmIs, FdmSteps DEF Fdm1, Fdm2, Fdm3, StepSeq
<1>6. Then(X, Fdm1(s)) = Behind(s)
  BY <1>5, SecondIs, NothingBefore DEF Behind
<1>7. Then(F, Behind(s)) = First1(s)
  BY FirstIs
<1>8. (Identify \o EraseAll(s)) \o First1(s) = Then(A, First1(s))
  BY DEF Then
<1> HIDE DEF A, F, X, c, d, p, i, m
<1>9. /\ Then(A, F) \in StepSeq
       /\ Then(Then(A, F), X) \in StepSeq
       /\ Then(Then(Then(A, F), X), c) \in StepSeq
       /\ Then(Then(Then(Then(A, F), X), c), d) \in StepSeq
       /\ Then(Then(Then(Then(Then(A, F), X), c), d), p) \in StepSeq
       /\ Then(Then(Then(Then(Then(Then(A, F), X), c), d), p), i) \in StepSeq
  BY <1>1, ThenType, Zenon
<1>10. /\ Then(i, m) \in StepSeq
       /\ Then(p, Then(i, m)) \in StepSeq
       /\ Then(d, Then(p, Then(i, m))) \in StepSeq
       /\ Then(c, Then(d, Then(p, Then(i, m)))) \in StepSeq
       /\ Then(X, Then(c, Then(d, Then(p, Then(i, m))))) \in StepSeq
       /\ Then(F, Then(X, Then(c, Then(d, Then(p, Then(i, m)))))) \in StepSeq
  BY <1>1, ThenType, Zenon
<1>11. OpenRest(s) = Then(A, Then(F, Then(X, Then(c, Then(d, Then(p, Then(i, m)))))))
  BY <1>1, <1>2, <1>9, <1>10, FromTheRight
<1> QED
  BY <1>3, <1>4, <1>5, <1>6, <1>7, <1>8, <1>11

-----------------------------------------------------------------------------
(***************************************************************************)
(* What a step of CARD_OPEN_CARD does to the card.                         *)
(***************************************************************************)

\* The request has failed.
Ends == todo' = <<>> /\ ret' # "ok"

\* What the card keeps when only its state on the bus changes.
SameContents ==
  slot'.llf = slot.llf /\ slot'.fdm = slot.fdm /\ slot'.cid = slot.cid

SameState ==
  /\ SameContents
  /\ slot'.on = slot.on /\ slot'.func = slot.func
  /\ slot'.helper = slot.helper /\ slot'.status = slot.status

FuncSet == slot.on /\ slot.func # "none"
Func(f) == slot.on /\ slot.func = f

\* The step that is next decides on the action.
LEMMA ActionOf ==
  ASSUME Next, todo # <<>>
  PROVE  /\ Head(todo).do = "power" => DoPower
         /\ Head(todo).do = "init" => InitNotReady \/ InitOtherMaker \/ InitCard
         /\ Head(todo).do = "func" => DoFunc
         /\ Head(todo).do \in {"read", "width", "vt_table"} => DoTransfer
         /\ Head(todo).do = "hw_version" => DoHwVersion
         /\ Head(todo).do = "load" => DoLoad
         /\ Head(todo).do = "param" => DoParam
         /\ Head(todo).do = "erase" => DoErase
         /\ Head(todo).do = "status" => DoStatus
         /\ Head(todo).do = "fdm" => DoFdm
         /\ Head(todo).do = "readback" => DoReadBack
         /\ Head(todo).do = "compare" => DoCompare
         /\ Head(todo).do = "cid" => DoCid
BY DEF Next, DoStep, DoPower, DoOff, InitNotReady, InitOtherMaker, InitCard, DoFunc,
   DoTransfer, DoHwVersion, DoLoad, DoParam, DoErase, DoStatus, DoFdm, DoReadBack,
   DoCompare, DoCid, mmc_init, mmc_block_writem, NAND_OPS_Handle, NotWanted, SwapCard,
   Wanted, Now, Idle

\* No step of a request changes the session or the card, forgets a fault, or, but for the
\* one that asks for the version, the style.
LEMMA StepLeaves ==
  ASSUME CardInv, Next, todo # <<>>
  PROVE  /\ board' = board /\ n' = n /\ hit \subseteq hit'
         /\ slot'.type = slot.type
         /\ Head(todo).do # "hw_version" => style' = style
<1>1. DoStep \/ mmc_init \/ mmc_block_writem
  BY DEF Next, NAND_OPS_Handle, NotWanted, SwapCard, Wanted, Idle
<1>2. hit \subseteq hit'
  BY <1>1 DEF DoStep, DoPower, DoOff, InitNotReady, InitOtherMaker, InitCard, DoFunc,
     DoTransfer, DoHwVersion, DoLoad, DoParam, DoErase, DoStatus, DoFdm, DoReadBack,
     DoCompare, DoCid, mmc_init, sd_init, mmc_found, mmc_block_writem, FailsWith
<1>3. CASE DoHwVersion
  BY <1>2, <1>3 DEF DoHwVersion, Now
<1>4. CASE DoLoad
  <2>1. slot \in CardState
    BY DEF CardInv
  <2> QED
    BY <1>2, <1>4, <2>1 DEF DoLoad, CardState
<1>5. CASE ~ DoHwVersion /\ ~ DoLoad
  <2>1. Ordinary
    BY <1>1, <1>5, StepsAreOrdinary DEF DoStep
  <2> QED
    BY <1>2, <2>1 DEF Ordinary
<1> QED
  BY <1>3, <1>4, <1>5

\* Power off and on, if the pin is the right one.
LEMMA PowerEffect ==
  ASSUME CardInv, Next, NEW y, Follows(todo, "power", "", y)
  PROVE  todo' = y /\ ret' = "ok" /\ SameContents
<1>1. DoPower /\ slot \in CardState
  BY ActionOf DEF Follows, CardInv
<1> QED
  BY <1>1 DEF DoPower, GoOn, Follows, Cycled, CardState, SameContents

\* Identification: if it does not fail, the card is on.
LEMMA InitEffect ==
  ASSUME CardInv, Next, NEW y, Follows(todo, "init", "must work", y)
  PROVE  Ends \/ (todo' = y /\ slot'.on /\ SameContents)
<1>1. slot \in CardState /\ Arg = "must work" /\ Tail(todo) = y
  BY DEF Follows, CardInv, Arg
<1>2. CASE InitNotReady \/ InitOtherMaker
  BY <1>1, <1>2 DEF InitNotReady, InitOtherMaker, InitAnswer, Return, Ends
<1>3. CASE InitCard
  BY <1>1, <1>3 DEF InitCard, InitAnswer, GoOn, Return, Ends, CardState, SameContents
<1> QED
  BY <1>2, <1>3, ActionOf DEF Follows

\* A vendor function is selected, the first time with "55".
LEMMA FuncEffect ==
  ASSUME CardInv, Next, NEW y, NEW f, Follows(todo, "func", f, y),
         slot.on, f = "55" \/ slot.func # "none"
  PROVE  /\ todo' = y /\ Func(f)' /\ SameContents
         /\ slot'.helper = slot.helper /\ slot'.status = slot.status
<1>1. slot \in CardState /\ Arg = f /\ Tail(todo) = y /\ DoFunc
  BY ActionOf DEF Follows, CardInv, Arg
<1>2. slot' = [slot EXCEPT !.func = f] /\ todo' = y
  BY <1>1 DEF DoFunc, GoOn
<1> QED
  BY <1>1, <1>2 DEF CardState, SameContents, Func

\* A transfer that leaves nothing on the card.
LEMMA TransferEffect ==
  ASSUME CardInv, Next, NEW y, Follows(todo, "vt_table", "", y)
  PROVE  Ends \/ (todo' = y /\ SameState)
<1>1. DoTransfer /\ Tail(todo) = y
  BY ActionOf DEF Follows
<1> QED
  BY <1>1 DEF DoTransfer, GoOn, Return, Ends, SameState, SameContents

\* A loader, which runs if the function is "57".
LEMMA LoadEffect ==
  ASSUME CardInv, Next, NEW y, NEW stage, Follows(todo, "load", stage, y)
  PROVE  \/ Ends
         \/ /\ todo' = y /\ SameContents
            /\ slot'.on = slot.on /\ slot'.func = slot.func /\ slot'.status = slot.status
            /\ slot.func = "57" => slot'.helper = stage
<1>1. slot \in CardState /\ Arg = stage /\ Tail(todo) = y /\ DoLoad
  BY ActionOf DEF Follows, CardInv, Arg
<1> QED
  BY <1>1 DEF DoLoad, GoOn, Return, Ends, CardState, SameContents

\* The parameters start the loader.
LEMMA ParamEffect ==
  ASSUME CardInv, Next, NEW y, NEW arg, Follows(todo, "param", arg, y),
         hit' \cap {"llf", "param"} = {}
  PROVE  Ends \/ (todo' = y /\ slot' = Started(slot, "6567"))
<1>1. Arg = arg /\ Tail(todo) = y /\ DoParam
  BY ActionOf DEF Follows, Arg
<1> QED
  BY <1>1 DEF DoParam, FailsWith, GoOn, Return, Ends

\* The status of the format.
LEMMA StatusEffect ==
  ASSUME CardInv, Next, NEW y, Follows(todo, "status", "", y), slot.status = "6567"
  PROVE  Ends \/ (todo' = y /\ SameState)
<1>1. DoStatus /\ Tail(todo) = y
  BY ActionOf DEF Follows
<1> QED
  BY <1>1 DEF DoStatus, GoOn, Return, Ends, SameState, SameContents

\* A copy of the firmware data is written, read back and compared.
LEMMA FdmEffect ==
  ASSUME CardInv, Next, NEW y, NEW k \in {1, 2}, NEW m \in {1, 2}, m # k,
         Follows(todo, "fdm", k, y)
  PROVE  \/ Ends
         \/ /\ todo' = y /\ slot'.llf = slot.llf /\ slot'.fdm[m] = slot.fdm[m]
            /\ slot'.on = slot.on /\ slot'.func = slot.func
<1>1. slot \in CardState /\ Arg = k /\ Tail(todo) = y /\ DoFdm
  BY ActionOf DEF Follows, CardInv, Arg
<1>2. PICK v : slot' = [slot EXCEPT !.fdm[k] = v]
  BY <1>1 DEF DoFdm
<1>3. slot'.llf = slot.llf /\ slot'.on = slot.on /\ slot'.func = slot.func
      /\ slot'.fdm = [slot.fdm EXCEPT ![k] = v]
  BY <1>1, <1>2 DEF CardState
<1>4. slot'.fdm[m] = slot.fdm[m]
  BY <1>1, <1>3 DEF CardState
<1>5. Ends \/ todo' = y
  BY <1>1 DEF DoFdm, GoOn, Return, Ends
<1> QED
  BY <1>3, <1>4, <1>5

\* What was written comes back into the buffer.
LEMMA ReadBackEffect ==
  ASSUME CardInv, Next, NEW y, NEW k, Follows(todo, "readback", k, y)
  PROVE  Ends \/ (todo' = y /\ SameState /\ buf' = slot.fdm[k])
<1>1. DoReadBack /\ Tail(todo) = y /\ Arg = k
  BY ActionOf DEF Follows, Arg
<1> QED
  BY <1>1 DEF DoReadBack, GoOn, Return, Ends, SameState, SameContents

\* Only the right data compare equal.
LEMMA CompareEffect ==
  ASSUME CardInv, Next, NEW y, NEW k, Follows(todo, "compare", k, y)
  PROVE  Ends \/ (todo' = y /\ SameState /\ buf = "fdm")
<1>1. DoCompare /\ Tail(todo) = y
  BY ActionOf DEF Follows
<1> QED
  BY <1>1 DEF DoCompare, GoOn, Return, Ends, SameState, SameContents

\* The CID is written if the function is "56".
LEMMA CidEffect ==
  ASSUME CardInv, Next, NEW y, Follows(todo, "cid", "", y), slot.func = "56"
  PROVE  \/ Ends
         \/ todo' = y /\ slot'.cid = "CID" /\ slot'.llf = slot.llf /\ slot'.fdm = slot.fdm
<1>1. DoCid /\ Tail(todo) = y /\ slot \in CardState
  BY ActionOf DEF Follows, CardInv
<1> QED
  BY <1>1 DEF DoCid, GoOn, Return, Ends, CardState

-----------------------------------------------------------------------------
(***************************************************************************)
(* CARD_OPEN_CARD: what the card has got by each step.                     *)
(***************************************************************************)

Formatted == slot.llf = FormatsOf(slot.type)
Data(k) == slot.fdm[k] = "fdm"

InFirst(s) ==
  \/ todo = First2(s)
  \/ todo = First3(s) /\ slot.on
  \/ todo = First4(s) /\ FuncSet
  \/ todo = First5(s) /\ Func("57")
  \/ todo = First6(s) /\ FuncSet /\ slot.helper = "llf1"
  \/ todo \in {First7(s), First8(s)} /\ Func("56") /\ slot.helper = "llf1"
  \/ todo = First9(s) /\ Func("56") /\ slot.status = "6567" /\ "llf1" \in slot.llf

InSecond(s) ==
  \/ /\ "llf1" \in slot.llf /\ s # "6811MMC"
     /\ \/ todo = Second1(s) /\ FuncSet
        \/ todo = Second2(s) /\ Func("57")
        \/ todo = Second3(s) /\ FuncSet /\ slot.helper = "llf2"
        \/ todo = Second4(s) /\ Func("56") /\ slot.helper = "llf2"
  \/ /\ Formatted
     /\ \/ todo = Second5(s) /\ FuncSet /\ slot.status = "6567"
        \/ todo \in {Second6(s), Second7(s), Second8(s)} /\ FuncSet

InFdm(s) ==
  /\ Formatted
  /\ \/ todo \in {Fdm1(s), Fdm2(s)} /\ Func("56")
     \/ todo = Fdm3(s) /\ Func("56") /\ buf = slot.fdm[1]
     \/ todo = Fdm4(s) /\ Func("56") /\ Data(1)
     \/ todo = Fdm5(s) /\ Data(1)
     \/ todo = Fdm6(s) /\ Data(1) /\ buf = slot.fdm[2]

InCid(s) ==
  /\ Formatted /\ Data(1) /\ Data(2)
  /\ \/ todo \in {Cid1(s), Cid2(s)}
     \/ todo = Cid3(s) /\ slot.on
     \/ todo \in {Cid4(s), Cid5(s), Cid6} /\ FuncSet
     \/ todo = Cid7 /\ Func("56")
     \/ todo = Cid8 /\ slot.cid = "CID"

InEarly(s) == \E a \in Seq(Early) : todo = a \o First1(s)

Openings == {Opening1, Opening2, Opening3, Opening4}

\* Without the two faults whose results nobody looks at, a card of a known version has at
\* each step what the steps before it were to give it.
OpenInv ==
  (Request = "open" /\ hit \cap {"llf", "param"} = {} /\ StyleOf(slot.type) # "none") =>
    \/ todo = <<>> /\ (ret = "ok" => Complete)
    \/ todo \in Openings
    \/ /\ style = StyleOf(slot.type)
       /\ InEarly(style) \/ InFirst(style) \/ InSecond(style) \/ InFdm(style) \/ InCid(style)

\* A 6811 never gets the loader of the second format, whatever request runs.
Lean == {x \in Later : ~(x.do = "load" /\ x.arg = "llf2")}

NoSecond ==
  StyleOf(slot.type) = "6811MMC" =>
    /\ "llf2" \notin slot.llf /\ slot.helper # "llf2"
    /\ todo \in Seq(Lean) \/ todo \in Openings

\* The first format leaves its mark.
LEMMA FirstMoves ==
  ASSUME CardInv, NoSecond, Next, NEW s \in Styles, s = StyleOf(slot.type),
         hit' \cap {"llf", "param"} = {},
         todo = First1(s) \/ InFirst(s)
  PROVE  Ends \/ InFirst(s)' \/ InSecond(s)' \/ InFdm(s)'
<1> USE FirstSteps
<1>t. slot \in CardState /\ slot.type \in CardType /\ slot.llf \subseteq Formats
  BY DEF CardInv, TypeOK
<1>1. CASE todo = First1(s)
  BY <1>1, PowerEffect DEF InFirst
<1>2. CASE todo = First2(s)
  BY <1>2, InitEffect DEF InFirst
<1>3. CASE todo = First3(s) /\ slot.on
  <2>1. todo' = First4(s) /\ Func("55")'
    BY <1>3, FuncEffect
  <2> QED
    BY <2>1 DEF InFirst, Func, FuncSet
<1>4. CASE todo = First4(s) /\ FuncSet
  <2>1. todo' = First5(s) /\ Func("57")'
    BY <1>4, FuncEffect DEF FuncSet
  <2> QED
    BY <2>1 DEF InFirst
<1>5. CASE todo = First5(s) /\ Func("57")
  <2>1. \/ Ends
        \/ todo' = First6(s) /\ slot'.on = slot.on /\ slot'.func = slot.func
             /\ slot'.helper = "llf1"
    BY <1>5, LoadEffect DEF Func
  <2> QED
    BY <1>5, <2>1 DEF InFirst, Func, FuncSet
<1>6. CASE todo = First6(s) /\ FuncSet /\ slot.helper = "llf1"
  <2>1. todo' = First7(s) /\ Func("56")' /\ slot'.helper = "llf1"
    BY <1>6, FuncEffect DEF FuncSet
  <2> QED
    BY <2>1 DEF InFirst
<1>7. CASE todo \in {First7(s), First8(s)} /\ Func("56") /\ slot.helper = "llf1"
  <2>1. CASE todo = First8(s)
    <3>1. Ends \/ (todo' = First9(s) /\ slot' = Started(slot, "6567"))
      BY <2>1, ParamEffect
    <3>2. Started(slot, "6567")
            = [slot EXCEPT !.status = "6567", !.llf = slot.llf \cup {"llf1"}]
      BY <1>7 DEF Started, Func, Formats
    <3>3. CASE todo' = First9(s) /\ slot' = Started(slot, "6567")
      <4>1. /\ slot'.on = slot.on /\ slot'.func = slot.func /\ slot'.status = "6567"
            /\ "llf1" \in slot'.llf
        BY <1>t, <3>2, <3>3 DEF CardState
      <4> QED
        BY <1>7, <3>3, <4>1 DEF InFirst, Func
    <3> QED
      BY <3>1, <3>3
  <2>2. CASE todo = First7(s) /\ Follows(First7(s), "vt_table", "", First8(s))
    <3>1. Ends \/ (todo' = First8(s) /\ SameState)
      BY <2>2, TransferEffect
    <3> QED
      BY <1>7, <3>1 DEF InFirst, Func, SameState
  <2> QED
    BY <1>7, <2>1, <2>2
<1>8. CASE todo = First9(s) /\ Func("56") /\ slot.status = "6567" /\ "llf1" \in slot.llf
  <2>1. Ends \/ (todo' = Behind(s) /\ SameState)
    BY <1>8, StatusEffect
  <2>2. CASE todo' = Behind(s) /\ SameState /\ s = "6811MMC"
    <3>1. slot.llf = {"llf1"}
      BY <1>t, <1>8, <2>2 DEF NoSecond, Formats
    <3>a. todo' = Fdm1(s) /\ Func("56")'
      BY <1>8, <2>2 DEF Behind, SameState, Func
    <3>2. Formatted' /\ todo' = Fdm1(s) /\ Func("56")'
      <4>1. todo # <<>>
        BY <1>8, FirstSteps DEF Follows
      <4>2. slot'.type = slot.type
        BY <4>1, StepLeaves
      <4> QED
        BY <2>2, <3>1, <3>a, <4>2 DEF Formatted, FormatsOf, SameState, SameContents
    <3> QED
      BY <3>2 DEF InFdm
  <2>3. CASE todo' = Behind(s) /\ SameState /\ s # "6811MMC"
    BY <1>8, <2>3 DEF Behind, InSecond, SameState, SameContents, Func, FuncSet
  <2> QED
    BY <2>1, <2>2, <2>3
<1> QED
  BY <1>1, <1>2, <1>3, <1>4, <1>5, <1>6, <1>7, <1>8 DEF InFirst

\* The second format leaves its mark beside that of the first.
LEMMA SecondMoves ==
  ASSUME CardInv, Next, NEW s \in Styles, s = StyleOf(slot.type),
         hit' \cap {"llf", "param"} = {}, InSecond(s)
  PROVE  Ends \/ InSecond(s)' \/ InFdm(s)'
<1> USE SecondSteps
<1>t. slot \in CardState /\ slot.llf \subseteq Formats
  BY DEF CardInv, TypeOK
<1>1. todo # <<>> /\ slot'.type = slot.type
  <2>1. /\ Second1(s) # <<>> /\ Second2(s) # <<>> /\ Second3(s) # <<>> /\ Second4(s) # <<>>
        /\ Second5(s) # <<>> /\ Second6(s) # <<>> /\ Second7(s) # <<>> /\ Second8(s) # <<>>
    BY DEF Follows
  <2>2. todo # <<>>
    BY <2>1, Zenon DEF InSecond
  <2> QED
    BY <2>2, StepLeaves
<1>2. CASE "llf1" \in slot.llf /\ s # "6811MMC" /\ todo = Second1(s) /\ FuncSet
  <2>1. todo' = Second2(s) /\ Func("57")' /\ SameContents
    BY <1>2, FuncEffect DEF FuncSet
  <2> QED
    BY <1>2, <2>1 DEF InSecond, SameContents
<1>3. CASE "llf1" \in slot.llf /\ s # "6811MMC" /\ todo = Second2(s) /\ Func("57")
  <2>1. \/ Ends
        \/ todo' = Second3(s) /\ slot'.on = slot.on /\ slot'.func = slot.func
             /\ slot'.helper = "llf2" /\ SameContents
    BY <1>3, LoadEffect DEF Func
  <2> QED
    BY <1>3, <2>1 DEF InSecond, Func, FuncSet, SameContents
<1>4. CASE /\ "llf1" \in slot.llf /\ s # "6811MMC" /\ todo = Second3(s) /\ FuncSet
           /\ slot.helper = "llf2"
  <2>1. todo' = Second4(s) /\ Func("56")' /\ slot'.helper = "llf2" /\ SameContents
    BY <1>4, FuncEffect DEF FuncSet
  <2> QED
    BY <1>4, <2>1 DEF InSecond, SameContents
<1>5. CASE /\ "llf1" \in slot.llf /\ s # "6811MMC" /\ todo = Second4(s) /\ Func("56")
           /\ slot.helper = "llf2"
  <2>1. Ends \/ (todo' = Second5(s) /\ slot' = Started(slot, "6567"))
    BY <1>5, ParamEffect
  <2>2. Started(slot, "6567")
          = [slot EXCEPT !.status = "6567", !.llf = slot.llf \cup {"llf2"}]
    BY <1>5 DEF Started, Func, Formats
  <2>3. CASE todo' = Second5(s) /\ slot' = Started(slot, "6567")
    <3>1. /\ slot'.on = slot.on /\ slot'.func = slot.func /\ slot'.status = "6567"
          /\ slot'.llf = slot.llf \cup {"llf2"}
      BY <1>t, <2>2, <2>3 DEF CardState
    <3>2. Formatted'
      BY <1>t, <1>1, <1>5, <3>1 DEF Formatted, FormatsOf, Formats
    <3> QED
      BY <1>5, <2>3, <3>1, <3>2 DEF InSecond, Func, FuncSet
  <2> QED
    BY <2>1, <2>3
<1>6. CASE Formatted /\ todo = Second5(s) /\ FuncSet /\ slot.status = "6567"
  <2>1. Ends \/ (todo' = Second6(s) /\ SameState)
    BY <1>6, StatusEffect
  <2> QED
    BY <1>1, <1>6, <2>1 DEF InSecond, Formatted, SameState, SameContents, FuncSet
<1>7. CASE Formatted /\ todo = Second6(s) /\ FuncSet
  <2>1. todo' = Second7(s) /\ Func("57")' /\ SameContents
    BY <1>7, FuncEffect DEF FuncSet
  <2> QED
    BY <1>1, <1>7, <2>1 DEF InSecond, Formatted, SameContents, Func, FuncSet
<1>8. CASE Formatted /\ todo = Second8(s) /\ FuncSet
  <2>1. todo' = Fdm1(s) /\ Func("56")' /\ SameContents
    BY <1>8, FuncEffect DEF FuncSet
  <2> QED
    BY <1>1, <1>8, <2>1 DEF InFdm, Formatted, SameContents
<1>9. CASE /\ Formatted /\ todo = Second7(s) /\ FuncSet
           /\ Follows(Second7(s), "load", "erase", Second8(s))
  <2>1. \/ Ends
        \/ todo' = Second8(s) /\ slot'.on = slot.on /\ slot'.func = slot.func
             /\ SameContents
    BY <1>9, LoadEffect
  <2> QED
    BY <1>1, <1>9, <2>1 DEF InSecond, Formatted, FuncSet, SameContents
<1> QED
  BY <1>2, <1>3, <1>4, <1>5, <1>6, <1>7, <1>8, <1>9 DEF InSecond

\* Both copies of the firmware data are right when they have been compared.
LEMMA FdmMoves ==
  ASSUME CardInv, Next, NEW s \in Styles, InFdm(s)
  PROVE  Ends \/ InFdm(s)' \/ InCid(s)'
<1> USE FdmSteps
<1>1. slot'.type = slot.type /\ Formatted
  <2>1. todo # <<>> /\ Formatted
    BY DEF InFdm, Follows
  <2> QED
    BY <2>1, StepLeaves
<1>2. CASE todo = Fdm1(s) /\ Func("56")
  <2>1. \/ Ends
        \/ todo' = Fdm2(s) /\ slot'.llf = slot.llf /\ slot'.on = slot.on
             /\ slot'.func = slot.func
    BY <1>2, FdmEffect, 1 # 2
  <2> QED
    BY <1>1, <1>2, <2>1 DEF InFdm, Formatted, Func
<1>3. CASE todo = Fdm2(s) /\ Func("56")
  <2>1. Ends \/ (todo' = Fdm3(s) /\ SameState /\ buf' = slot.fdm[1])
    BY <1>3, ReadBackEffect
  <2> QED
    BY <1>1, <1>3, <2>1 DEF InFdm, Formatted, Func, SameState, SameContents
<1>4. CASE todo = Fdm3(s) /\ Func("56") /\ buf = slot.fdm[1]
  <2>1. Ends \/ (todo' = Fdm4(s) /\ SameState /\ buf = "fdm")
    BY <1>4, CompareEffect
  <2> QED
    BY <1>1, <1>4, <2>1 DEF InFdm, Formatted, Func, SameState, SameContents, Data
<1>5. CASE todo = Fdm4(s) /\ Func("56") /\ Data(1)
  <2>1. \/ Ends
        \/ todo' = Fdm5(s) /\ slot'.llf = slot.llf /\ slot'.fdm[1] = slot.fdm[1]
    BY <1>5, FdmEffect, 1 # 2
  <2> QED
    BY <1>1, <1>5, <2>1 DEF InFdm, Formatted, Data
<1>6. CASE todo = Fdm5(s) /\ Data(1)
  <2>1. Ends \/ (todo' = Fdm6(s) /\ SameState /\ buf' = slot.fdm[2])
    BY <1>6, ReadBackEffect
  <2> QED
    BY <1>1, <1>6, <2>1 DEF InFdm, Formatted, SameState, SameContents, Data
<1>7. CASE todo = Fdm6(s) /\ Data(1) /\ buf = slot.fdm[2]
  <2>1. Ends \/ (todo' = Cid1(s) /\ SameState /\ buf = "fdm")
    BY <1>7, CompareEffect
  <2> QED
    BY <1>1, <1>7, <2>1 DEF InCid, Formatted, SameState, SameContents, Data
<1> QED
  BY <1>2, <1>3, <1>4, <1>5, <1>6, <1>7 DEF InFdm

\* Two copies that are right.
LEMMA BothCopies ==
  ASSUME NEW f \in [{1, 2} -> Stored], f[1] = "fdm", f[2] = "fdm"
  PROVE  f = <<"fdm", "fdm">>
<1>1. <<"fdm", "fdm">> \in [{1, 2} -> Stored]
  BY DEF Stored
<1>2. \A i \in {1, 2} : <<"fdm", "fdm">>[i] = f[i]
  OBVIOUS
<1> QED
  BY <1>1, <1>2

\* The CID comes last.
LEMMA CidMoves ==
  ASSUME CardInv, Next, NEW s \in Styles, InCid(s), slot.type \in CardType
  PROVE  Ends \/ InCid(s)' \/ (todo' = <<>> /\ Complete')
<1> USE CidSteps
<1>1. slot'.type = slot.type /\ Formatted /\ Data(1) /\ Data(2)
  <2>1. todo # <<>> /\ Formatted /\ Data(1) /\ Data(2)
    BY DEF InCid, Follows
  <2> QED
    BY <2>1, StepLeaves
<1>2. SameContents => (Formatted /\ Data(1) /\ Data(2))'
  BY <1>1 DEF SameContents, Formatted, Data
<1>3. CASE todo = Cid1(s)
  BY <1>2, <1>3, PowerEffect DEF InCid
<1>4. CASE todo = Cid2(s)
  BY <1>2, <1>4, InitEffect DEF InCid
<1>5. CASE todo = Cid3(s) /\ slot.on
  <2>1. todo' = Cid4(s) /\ Func("55")' /\ SameContents
    BY <1>5, FuncEffect
  <2> QED
    BY <1>2, <2>1 DEF InCid, Func, FuncSet
<1>6. CASE todo = Cid4(s) /\ FuncSet
  <2>1. todo' = Cid5(s) /\ Func("57")' /\ SameContents
    BY <1>6, FuncEffect DEF FuncSet
  <2> QED
    BY <1>2, <2>1 DEF InCid, Func, FuncSet
<1>7. CASE todo = Cid5(s) /\ FuncSet
  <2>1. \/ Ends
        \/ todo' = Cid6 /\ slot'.on = slot.on /\ slot'.func = slot.func /\ SameContents
    BY <1>7, LoadEffect
  <2> QED
    BY <1>2, <1>7, <2>1 DEF InCid, FuncSet
<1>8. CASE todo = Cid6 /\ FuncSet
  <2>1. todo' = Cid7 /\ Func("56")' /\ SameContents
    BY <1>8, FuncEffect DEF FuncSet
  <2> QED
    BY <1>2, <2>1 DEF InCid
<1>9. CASE todo = Cid7 /\ Func("56")
  <2>1. \/ Ends
        \/ todo' = Cid8 /\ slot'.cid = "CID" /\ slot'.llf = slot.llf /\ slot'.fdm = slot.fdm
    BY <1>9, CidEffect DEF Func
  <2> QED
    BY <1>1, <2>1 DEF InCid, Formatted, Data
<1>10. CASE todo = Cid8 /\ slot.cid = "CID"
  <2>1. todo' = <<>> /\ SameContents
    BY <1>10, PowerEffect
  <2>2. slot.fdm = <<"fdm", "fdm">>
    <3>1. slot.fdm \in [{1, 2} -> Stored] /\ slot.fdm[1] = "fdm" /\ slot.fdm[2] = "fdm"
      BY <1>1 DEF CardInv, CardState, Data
    <3> QED
      BY <3>1, BothCopies
  <2> QED
    BY <1>1, <1>10, <2>1, <2>2 DEF Complete, Formatted, SameContents
<1> QED
  BY <1>3, <1>4, <1>5, <1>6, <1>7, <1>8, <1>9, <1>10 DEF InCid

\* Identification and erase either fail or are done.
LEMMA EarlyEffect ==
  ASSUME CardInv, Next, todo # <<>>, Head(todo) \in Early
  PROVE  Ends \/ todo' = Tail(todo)
<1> USE ActionOf DEF GoOn, Return, Ends
<1>1. CASE Head(todo).do = "power"
  BY <1>1 DEF DoPower
<1>2. CASE Head(todo).do \in {"read", "width"}
  BY <1>2 DEF DoTransfer
<1>3. CASE Head(todo).do = "func"
  BY <1>3 DEF DoFunc
<1>4. CASE Head(todo).do = "param"
  BY <1>4 DEF DoParam
<1>5. CASE Head(todo).do = "erase"
  BY <1>5 DEF DoErase
<1>6. CASE Head(todo).do = "init" /\ Head(todo).arg = "must work"
  BY <1>6 DEF InitNotReady, InitOtherMaker, InitCard, InitAnswer, Arg
<1>7. CASE Head(todo).do = "load"
  BY <1>7 DEF DoLoad
<1> QED
  BY <1>1, <1>2, <1>3, <1>4, <1>5, <1>6, <1>7 DEF Early

\* The first step of two sequences, one behind the other.
LEMMA HeadOfThen ==
  ASSUME NEW S, NEW a \in Seq(S), a # <<>>, NEW b \in Seq(S)
  PROVE  /\ a \o b # <<>> /\ Head(a \o b) = Head(a)
         /\ Tail(a \o b) = Tail(a) \o b
<1>1. PICK x \in S, t \in Seq(S) : a = <<x>> \o t /\ x = Head(a) /\ t = Tail(a)
  <2>1. Head(a) \in S /\ Tail(a) \in Seq(S) /\ a = <<Head(a)>> \o Tail(a)
    BY HeadTailProperties
  <2> QED
    BY <2>1
<1>2. a \o b = <<x>> \o (t \o b) /\ t \o b \in Seq(S)
  <2>1. <<x>> \in Seq(S)
    OBVIOUS
  <2> QED
    BY <1>1, <2>1, ConcatAssociative, ConcatProperties
<1> QED
  BY <1>1, <1>2, ConsHeadTail

\* Identification and erase leave the rest of the request.
LEMMA EarlyMoves ==
  ASSUME CardInv, NoSecond, Next, NEW s \in Styles, s = StyleOf(slot.type),
         hit' \cap {"llf", "param"} = {}, InEarly(s)
  PROVE  Ends \/ InEarly(s)' \/ InFirst(s)' \/ InSecond(s)' \/ InFdm(s)'
<1>1. PICK a \in Seq(Early) : todo = a \o First1(s)
  BY DEF InEarly
<1>2. First1(s) \in Seq(Steps)
  BY FirstSteps
<1>3. CASE a = <<>>
  <2>1. todo = First1(s)
    BY <1>1, <1>2, <1>3, ConcatEmptySeq
  <2> QED
    BY <2>1, FirstMoves
<1>4. CASE a # <<>>
  <2>1. a \in Seq(Steps)
    BY SeqMonotonic DEF Early
  <2>2. todo # <<>> /\ Head(todo) = Head(a) /\ Tail(todo) = Tail(a) \o First1(s)
    BY <1>1, <1>2, <1>4, <2>1, HeadOfThen
  <2>3. Head(a) \in Early /\ Tail(a) \in Seq(Early)
    BY <1>4, HeadTailProperties
  <2>4. Ends \/ todo' = Tail(todo)
    BY <2>2, <2>3, EarlyEffect
  <2> QED
    BY <2>2, <2>3, <2>4 DEF InEarly
<1> QED
  BY <1>3, <1>4

\* The beginning: nothing is known of the card until its version is.
LEMMA OpeningMoves ==
  ASSUME CardInv, Next, todo \in Openings, NEW s \in Styles, s = StyleOf(slot.type)
  PROVE  \/ Ends
         \/ todo' \in Openings
         \/ style' = s /\ InEarly(s)'
<1>o. \A x \in {Opening1, Opening2, Opening3, Opening4} : x # <<>>
  BY OpeningSteps
<1>1. CASE todo = Opening1
  <2>1. Follows(todo, "power", Head(todo).arg, Opening2)
    BY <1>1, OpeningSteps DEF Follows
  <2>2. DoPower
    BY <2>1, ActionOf DEF Follows
  <2> QED
    BY <2>1, <2>2 DEF DoPower, GoOn, Follows, Openings
<1>2. CASE todo = Opening2
  <2>1. Follows(todo, "init", "must work", Opening3)
    BY <1>2, OpeningSteps DEF Follows
  <2> QED
    BY <2>1, InitEffect DEF Openings
<1>3. CASE todo = Opening3
  <2>1. DoFunc /\ Tail(todo) = Opening4
    BY <1>3, OpeningSteps, ActionOf
  <2> QED
    BY <2>1 DEF DoFunc, GoOn, Openings
<1>4. CASE todo = Opening4
  <2>1. DoHwVersion /\ todo # <<>> /\ Head(todo).do = "hw_version"
    BY <1>4, OpeningSteps, ActionOf
  <2>2. card_type = slot.type.kind /\ slot \in CardState
    BY <2>1, NextStep DEF CardInv
  <2>3. CASE style' = HwStyle(card_type, slot.type.hw) /\ todo' = OpenRest(style')
    <3>1. style' = s
      BY <2>2, <2>3 DEF HwStyle, StyleOf, Styles
    <3>2. todo' = (Identify \o EraseAll(s)) \o First1(s)
      BY <2>3, <3>1, OpenRestIs
    <3>3. Identify \o EraseAll(s) \in Seq(Early)
      BY EarlySteps
    <3> QED
      BY <3>1, <3>2, <3>3 DEF InEarly
  <2> QED
    BY <2>1, <2>3 DEF DoHwVersion, Return, Ends
<1> QED
  BY <1>1, <1>2, <1>3, <1>4 DEF Openings

-----------------------------------------------------------------------------
(***************************************************************************)
(* A 6811 has one format.                                                  *)
(***************************************************************************)

\* What follows the version of a 6811 has no loader of the second format.
LEMMA LeanRest == OpenRest("6811MMC") \in Seq(Lean)
<1> DEFINE s == "6811MMC"
           T == Seq(Lean)
<1>c. \A a, b \in T : a \o b \in T
  BY Concats
<1>1. \A t \in Seq(Plain) : t \in T
  BY SeqMonotonic DEF Lean, Plain
<1>2. /\ Load(s, "erase") \in T /\ Load(s, "llf1") \in T
  <2>1. \A stage \in {"erase", "llf1"} : Load(s, stage) \in T
    <3> SUFFICES ASSUME NEW stage \in {"erase", "llf1"} PROVE Load(s, stage) \in T
      OBVIOUS
    <3> DEFINE x == [do |-> "load", arg |-> stage]
    <3>1. x \in Lean /\ Load(s, stage) = <<x>>
      BY DEF Lean, Later, Steps, Dos, Args, Load, Step, Styles
    <3> HIDE DEF x
    <3>2. <<x>> \in Seq(Lean)
      BY <3>1
    <3> QED
      BY <3>1, <3>2, Zenon
  <2> QED
    BY <2>1
<1>3. /\ Power \in T /\ OpenInit \in T /\ Read \in T
      /\ SetFunc("55") \in T /\ SetFunc("56") \in T
      /\ SetFunc("57") \in T /\ SetFunc("AA") \in T
      /\ Step("width", "") \in T /\ Step("erase", "") \in T
      /\ Step("vt_table", "") \in T /\ Step("status", "") \in T
      /\ Step("cid", "") \in T
      /\ Step("param", "ignored") \in T /\ Step("param", "checked") \in T
      /\ <<>> \in T
  BY <1>1, PlainSteps DEF Dos, Args
<1>4. Fdm(1) \in T /\ Fdm(2) \in T
  <2>1. \A k \in {1, 2} : /\ Step("fdm", k) \in T
                          /\ Step("readback", k) \in T
                          /\ Step("compare", k) \in T
    BY <1>1, PlainStep DEF Dos, Args
  <2> HIDE DEF T
  <2> QED
    BY <2>1, <1>c DEF Fdm
<1> HIDE DEF T
<1>5. Prepare \in T /\ Identify \in T
  BY <1>3, <1>c DEF Prepare, Identify
<1>6. EraseAll(s) \in T /\ FirstFormat(s) \in T /\ make_CID(s) \in T
  BY <1>2, <1>3, <1>5, <1>c DEF EraseAll, FirstFormat, make_CID
<1> DEFINE second == IF s = "6811MMC" THEN <<>> ELSE SecondFormat(s)
<1>7. second \in T
  BY <1>3
<1> HIDE DEF second, s
<1>8. Identify \o EraseAll(s) \o FirstFormat(s) \o second \o Fdm(1) \o Fdm(2)
        \o Power \o OpenInit \o make_CID(s) \in T
  BY <1>3, <1>4, <1>5, <1>6, <1>7, <1>c
<1>9. OpenRest(s) \in T
  BY <1>8 DEF OpenRest, second
<1> QED
  BY <1>9 DEF T, s

\* The rest of a lean request is lean.
LEMMA LeanTail ==
  ASSUME NoSecond, StyleOf(slot.type) = "6811MMC", todo # <<>>,
         Head(todo).do # "hw_version"
  PROVE  /\ Tail(todo) \in Seq(Lean) \/ Tail(todo) \in Openings
         /\ ~(Head(todo).do = "load" /\ Head(todo).arg = "llf2")
<1>1. CASE todo \in Seq(Lean)
  <2>1. Head(todo) \in Lean /\ Tail(todo) \in Seq(Lean)
    BY <1>1, HeadTailProperties
  <2> QED
    BY <2>1 DEF Lean
<1>2. CASE todo \in Openings
  BY <1>2, OpeningSteps DEF Openings
<1> QED
  BY <1>1, <1>2 DEF NoSecond

\* No step brings the second format to a 6811.
LEMMA NoSecondInductive ==
  ASSUME CardInv, NoSecond, [Next]_vars
  PROVE  NoSecond'
<1> SUFFICES ASSUME StyleOf(slot'.type) = "6811MMC"
             PROVE  /\ "llf2" \notin slot'.llf /\ slot'.helper # "llf2"
                    /\ todo' \in Seq(Lean) \/ todo' \in Openings
  BY DEF NoSecond, StyleOf
<1>e. <<>> \in Seq(Lean)
  BY EmptySeq
<1>p. \A t \in Seq(Plain) : t \in Seq(Lean)
  BY SeqMonotonic DEF Lean, Plain
<1>t. slot \in CardState
  BY DEF CardInv
<1>1. CASE UNCHANGED vars
  BY <1>1 DEF vars, NoSecond
<1>2. CASE SwapCard
  <2>1. slot'.llf = {} /\ slot'.helper = "none" /\ todo' = <<>>
    BY <1>2 DEF SwapCard, NewCard, Wanted, Idle
  <2> QED
    BY <1>e, <2>1
<1>3. CASE NAND_OPS_Handle \/ NotWanted
  <2>1. slot' = slot
    BY <1>3 DEF NAND_OPS_Handle, NotWanted
  <2>2. todo' \in Seq(Lean) \/ todo' \in Openings
    <3>1. CASE todo' = card_query_flash_id
      BY <1>p, <3>1, QuerySteps
    <3>2. CASE todo' = skymedi_open_card
      BY <3>2, OpeningSteps DEF Openings
    <3>3. CASE todo' = Step("mmc_init", "") \/ todo' = Step("mmc_block_writem", "")
      BY <1>p, <3>3, PlainSteps DEF Dos
    <3>4. CASE todo' = todo /\ todo = <<>>
      BY <1>e, <3>4
    <3> QED
      BY <1>3, <3>1, <3>2, <3>3, <3>4 DEF NAND_OPS_Handle, NotWanted, Wanted, Idle
  <2> QED
    BY <2>1, <2>2 DEF NoSecond
<1>4. CASE DoStep \/ mmc_init \/ mmc_block_writem
  <2>1. todo # <<>> /\ slot'.type = slot.type
    <3>1. todo # <<>>
      BY <1>4 DEF DoStep, DoPower, DoOff, InitNotReady, InitOtherMaker, InitCard, DoFunc,
         DoTransfer, DoHwVersion, DoLoad, DoParam, DoErase, DoStatus, DoFdm, DoReadBack,
         DoCompare, DoCid, mmc_init, mmc_block_writem, Now, Idle
    <3> QED
      BY <1>4, <3>1, StepLeaves DEF Next
  <2>2. "llf2" \notin slot.llf /\ slot.helper # "llf2"
    BY <2>1 DEF NoSecond
  <2>3. CASE DoHwVersion
    <3>1. CASE style' = HwStyle(card_type, slot.type.hw) /\ todo' = OpenRest(style')
      <4>1. slot.type.hw = "000D"
        BY <2>1 DEF StyleOf
      <4>2. todo' = OpenRest("6811MMC")
        BY <3>1, <4>1 DEF HwStyle
      <4> QED
        BY <2>2, <2>3, <4>2, LeanRest DEF DoHwVersion
    <3>2. CASE todo' = <<>>
      BY <1>e, <2>2, <2>3, <3>2 DEF DoHwVersion
    <3> QED
      BY <2>3, <3>1, <3>2 DEF DoHwVersion, Return
  <2>4. CASE Head(todo).do # "hw_version"
    <3>1. /\ Tail(todo) \in Seq(Lean) \/ Tail(todo) \in Openings
          /\ ~(Head(todo).do = "load" /\ Head(todo).arg = "llf2")
      BY <2>1, <2>4, LeanTail
    <3>2. CASE DoLoad
      <4>1. slot'.llf = slot.llf /\ slot'.helper \in {Arg, slot.helper, "part"}
        BY <1>t, <3>2 DEF DoLoad, CardState
      <4> QED
        BY <1>e, <2>2, <3>1, <3>2, <4>1 DEF DoLoad, Arg, Now, GoOn, Return
    <3>3. CASE ~DoLoad
      <4>1. todo' \in {Tail(todo), <<>>}
        <5>1. ~DoHwVersion
          BY <2>4 DEF DoHwVersion, Now
        <5> QED
          BY <1>4, <3>3, <5>1, StepsAreOrdinary DEF DoStep, Ordinary
      <4>2. CASE DoParam
        <5>1. PICK x : slot' = slot \/ slot' = Started(slot, x)
          BY <4>2 DEF DoParam
        <5>2. slot'.helper = slot.helper /\ slot'.llf \subseteq slot.llf \cup {slot.helper}
          <6>1. CASE slot' = slot
            BY <6>1
          <6>2. CASE slot' = [slot EXCEPT !.status = x, !.llf = slot.llf \cup {slot.helper}]
            BY <1>t, <6>2 DEF CardState
          <6>3. CASE slot' = [slot EXCEPT !.status = x, !.llf = slot.llf]
            BY <1>t, <6>3 DEF CardState
          <6> QED
            BY <5>1, <6>1, <6>2, <6>3 DEF Started
        <5> QED
          BY <1>e, <2>2, <3>1, <4>1, <5>2
      <4>3. CASE ~DoParam
        <5>1. slot'.llf \subseteq slot.llf /\ slot'.helper \in {slot.helper, "none"}
          BY <1>t, <1>4, <2>4, <3>3, <4>3 DEF DoStep, DoPower, DoOff, InitNotReady,
             InitOtherMaker, InitCard, DoFunc, DoTransfer, DoHwVersion, DoErase, DoStatus,
             DoFdm, DoReadBack, DoCompare, DoCid, mmc_init, sd_init, mmc_found,
             mmc_block_writem, Now, Cycled, CardState
        <5> QED
          BY <1>e, <2>2, <3>1, <4>1, <5>1
      <4> QED
        BY <4>2, <4>3
    <3> QED
      BY <3>2, <3>3
  <2> QED
    BY <1>4, <2>1, <2>3, <2>4, ActionOf DEF Next
<1> QED
  BY <1>1, <1>2, <1>3, <1>4 DEF Next

-----------------------------------------------------------------------------
(***************************************************************************)
(* The order of CARD_OPEN_CARD as an invariant.                            *)
(***************************************************************************)

\* The style is the card's own as long as the request runs.
LEMMA StyleStays ==
  ASSUME CardInv, Next, todo # <<>>, style = StyleOf(slot.type), style # "none"
  PROVE  style' = style
<1>1. CASE Head(todo).do = "hw_version"
  <2>1. card_type = slot.type.kind /\ DoHwVersion /\ slot \in CardState
    BY <1>1, NextStep, ActionOf DEF CardInv
  <2> QED
    BY <2>1 DEF DoHwVersion, HwStyle, StyleOf
<1>2. CASE Head(todo).do # "hw_version"
  BY <1>2, StepLeaves
<1> QED
  BY <1>1, <1>2

\* A card of a known version has a style.
LEMMA KnownStyles ==
  ASSUME StyleOf(slot.type) # "none"
  PROVE  StyleOf(slot.type) \in Styles
BY DEF StyleOf, Styles

\* Where the request is, and what the card has got.
Within(s) == InEarly(s) \/ InFirst(s) \/ InSecond(s) \/ InFdm(s) \/ InCid(s)

\* Each part leads into the next.
LEMMA PartsMove ==
  ASSUME CardInv, NoSecond, Next, NEW s \in Styles, s = StyleOf(slot.type),
         hit' \cap {"llf", "param"} = {}, Within(s)
  PROVE  Ends \/ Within(s)' \/ (todo' = <<>> /\ Complete')
<1>1. CASE InEarly(s)
  BY <1>1, EarlyMoves DEF Within
<1>2. CASE InFirst(s)
  BY <1>2, FirstMoves DEF Within
<1>3. CASE InSecond(s)
  BY <1>3, SecondMoves DEF Within
<1>4. CASE InFdm(s)
  BY <1>4, FdmMoves DEF Within
<1>5. CASE InCid(s)
  <2>1. slot.type \in CardType
    BY DEF CardInv, TypeOK
  <2> QED
    BY <1>5, <2>1, CidMoves DEF Within
<1> QED
  BY <1>1, <1>2, <1>3, <1>4, <1>5 DEF Within

\* A request in one of these parts is not over.
LEMMA WithinRuns ==
  ASSUME NEW s \in Styles, Within(s)
  PROVE  todo # <<>>
<1>1. CASE InEarly(s)
  <2>1. PICK a \in Seq(Early) : todo = a \o First1(s)
    BY <1>1 DEF InEarly
  <2>2. a \in Seq(Steps)
    BY SeqMonotonic DEF Early
  <2>3. First1(s) \in Seq(Steps) /\ First1(s) # <<>>
    BY FirstSteps DEF Follows
  <2> QED
    BY <2>1, <2>2, <2>3, ConcatEqualIffEmpty
<1>2. CASE InFirst(s)
  <2>1. /\ First2(s) # <<>> /\ First3(s) # <<>> /\ First4(s) # <<>> /\ First5(s) # <<>>
        /\ First6(s) # <<>> /\ First7(s) # <<>> /\ First8(s) # <<>> /\ First9(s) # <<>>
    BY FirstSteps DEF Follows
  <2> QED
    BY <1>2, <2>1, Zenon DEF InFirst
<1>3. CASE InSecond(s)
  <2>1. /\ Second1(s) # <<>> /\ Second2(s) # <<>> /\ Second3(s) # <<>> /\ Second4(s) # <<>>
        /\ Second5(s) # <<>> /\ Second6(s) # <<>> /\ Second7(s) # <<>> /\ Second8(s) # <<>>
    BY SecondSteps DEF Follows
  <2> QED
    BY <1>3, <2>1, Zenon DEF InSecond
<1>4. CASE InFdm(s)
  BY <1>4, FdmSteps DEF InFdm, Follows
<1>5. CASE InCid(s)
  BY <1>5, CidSteps DEF InCid, Follows
<1> QED
  BY <1>1, <1>2, <1>3, <1>4, <1>5 DEF Within

\* The invariant is kept by every step.
LEMMA OpenInvInductive ==
  ASSUME CardInv, NoSecond, OpenInv, [Next]_vars
  PROVE  OpenInv'
<1> SUFFICES ASSUME Request' = "open", hit' \cap {"llf", "param"} = {},
                    StyleOf(slot'.type) # "none"
             PROVE  \/ todo' = <<>> /\ (ret' = "ok" => Complete')
                    \/ todo' \in Openings
                    \/ style' = StyleOf(slot'.type) /\ Within(style)'
  BY Zenon DEF OpenInv, Within
<1>1. CASE UNCHANGED vars
  <2>1. Request' = Request
    BY <1>1 DEF vars, Request
  <2>2. \/ todo = <<>> /\ (ret = "ok" => Complete)
        \/ todo \in Openings
        \/ style = StyleOf(slot.type) /\ Within(style)
    BY <1>1, <2>1 DEF vars, OpenInv, Within
  <2>3. Complete' <=> Complete
    BY <1>1 DEF vars, Complete
  <2>4. Within(style)' <=> Within(style)
    BY <1>1 DEF vars, Within, InEarly, InFirst, InSecond, InFdm, InCid, Formatted, Data,
       FuncSet, Func
  <2> QED
    BY <1>1, <2>2, <2>3, <2>4 DEF vars
<1>2. CASE NAND_OPS_Handle \/ NotWanted \/ SwapCard
  <2>1. n' = n + 1 /\ board' = board
    BY <1>2 DEF NAND_OPS_Handle, NotWanted, SwapCard, Wanted
  <2>2. n \in Nat
    <3>1. Len(board.session) \in Nat /\ n \in 0 .. Len(board.session)
      BY SessionType DEF CardInv, TypeOK
    <3> QED
      BY <3>1
  <2>3. board.session[n + 1] = "open"
    BY <2>1, <2>2 DEF Request
  <2>4. todo' = Opening1
    BY <1>2, <2>3, OpeningSteps DEF NAND_OPS_Handle, NotWanted, SwapCard, Wanted
  <2> QED
    BY <2>4 DEF Openings
<1>3. CASE DoStep \/ mmc_init \/ mmc_block_writem
  <2>1. Next
    BY <1>3 DEF Next
  <2>2. todo # <<>>
    BY <1>3 DEF DoStep, DoPower, DoOff, InitNotReady, InitOtherMaker, InitCard, DoFunc,
       DoTransfer, DoHwVersion, DoLoad, DoParam, DoErase, DoStatus, DoFdm, DoReadBack,
       DoCompare, DoCid, mmc_init, mmc_block_writem, Now, Idle
  <2>3. /\ board' = board /\ n' = n /\ hit \subseteq hit' /\ slot'.type = slot.type
    BY <2>1, <2>2, StepLeaves
  <2>4. Request = "open" /\ hit \cap {"llf", "param"} = {} /\ StyleOf(slot.type) # "none"
    BY <2>3 DEF Request
  <2>5. PICK s \in Styles : s = StyleOf(slot.type)
    BY <2>4, KnownStyles
  <2>6. todo \in Openings \/ (style = s /\ Within(style))
    BY <2>2, <2>4, <2>5, Zenon DEF OpenInv, Within
  <2>7. CASE todo \in Openings
    <3>1. Ends \/ todo' \in Openings \/ (style' = s /\ InEarly(s)')
      BY <2>1, <2>4, <2>5, <2>7, OpeningMoves
    <3> QED
      BY <2>3, <2>5, <3>1 DEF Ends, Within
  <2>8. CASE style = s /\ Within(s)
    <3>1. style' = s
      BY <2>1, <2>2, <2>4, <2>5, <2>8, StyleStays
    <3>2. Ends \/ Within(s)' \/ (todo' = <<>> /\ Complete')
      BY <2>1, <2>4, <2>5, <2>8, PartsMove
    <3> QED
      BY <2>3, <2>5, <3>1, <3>2 DEF Ends
  <2> QED
    BY <2>5, <2>6, <2>7, <2>8
<1> QED
  BY <1>1, <1>2, <1>3 DEF Next

\* A card that CARD_OPEN_CARD has answered with 0 is complete, but for the exceptions of
\* OpenComplete, for all cards, faults and sessions.
THEOREM OpenCompleteHolds == Spec => []OpenComplete
<1>1. Init => NoSecond
  BY EmptySeq DEF Init, NoSecond, NewCard
<1>2. Init => OpenInv
  BY DEF Init, OpenInv, Request
<1>3. CardInv /\ OpenInv => OpenComplete
  <2> SUFFICES ASSUME CardInv, OpenInv, Request = "open", todo = <<>>, ret = "ok",
                      hit \cap {"llf", "param"} = {}, StyleOf(slot.type) # "none"
               PROVE  Complete
    BY DEF OpenComplete, Answered, Idle
  <2>1. todo \notin Openings
    BY OpeningSteps DEF Openings
  <2>2. StyleOf(slot.type) \in Styles
    BY KnownStyles
  <2>3. ~ Within(StyleOf(slot.type))
    BY <2>2, WithinRuns
  <2> QED
    BY <2>1, <2>3, Zenon DEF OpenInv, Within
<1>4. CardInv /\ NoSecond /\ [Next]_vars => NoSecond'
  BY NoSecondInductive
<1>5. CardInv /\ NoSecond /\ OpenInv /\ [Next]_vars => OpenInv'
  BY OpenInvInductive
<1> QED
  BY <1>1, <1>2, <1>3, <1>4, <1>5, InitCardInv, CardInvInductive, PTL DEF Spec
=============================================================================
