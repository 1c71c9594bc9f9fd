---------------------------- MODULE MCStage1Boot ----------------------------
(***************************************************************************)
(* Stage 1 of both kinds.  Stage1Main for every clock that fw_cfg_tool     *)
(* accepts, with one memory of each type, and for one clock with many      *)
(* memories; and for what fw_cfg_tool makes of the board files.  Stage1Sdr *)
(* for all these clocks and PHM dividers, and for one configuration with   *)
(* many memories.                                                          *)
(***************************************************************************)
EXTENDS Stage1Main, Stage1Sdr, FwHand, FwBoards, TLC

VARIABLE soc  \* which stage 1 runs; the other's variables keep their first values

\* CPUSPEED is a byte.
AllArgs == {a \in [ext_clk : 12 .. 27, cpu_speed : 0 .. 21] :
              /\ (a.cpu_speed * a.ext_clk) % 12 = 0
              /\ a.cpu_speed * a.ext_clk <= 255}

BoardArgs == {[ext_clk |-> FwArgs(c).ext_clk, cpu_speed |-> FwArgs(c).cpu_speed] :
                c \in Boards}

\* Sets of working delays: none, the first alone, one inside, one up to the last
\* delay, all, and one with holes.
Windows == {{}, {0}, 2 .. 11, 7 .. 15, 0 .. 15, {1, 2, 5, 9, 15}}

\* Working adjustments, all with the one the delays are searched with; and how
\* many elements RDQS has.
Adjs  == {{-5}, -8 .. 4, -31 .. 30, -9 .. -4, {-7, -5, -4, 3}}
Lines == {0, 3, 40}

MCMemories == [search : {"windows", "first"}, part : {DDR2, MDDR},
               delays : [0 .. 3 -> Windows], adjs : Adjs, rdqs : Lines]

\* The delays that work move up by one when DQS is adjusted above zero.
MCWorks(m, t, d, a) ==
  a \in m.adjs /\ (IF a > 0 THEN d - 1 ELSE d) \in m.delays[t]
MCRdqs(m) == m.rdqs
MCPartOf(m) == IF m.search = "first" THEN DDR1 ELSE m.part

Delayed(w, x, y, z) == (0 :> w) @@ (1 :> x) @@ (2 :> y) @@ (3 :> z)

Memory(s, p, d, a, l) ==
  [search |-> s, part |-> p, delays |-> d, adjs |-> a, rdqs |-> l]

TypicalMemories ==
  {Memory(s, p, Delayed({}, {0}, {}, {}), {-5}, 0) :
     s \in {"windows", "first"}, p \in {DDR2, MDDR}}

\* Any windows with one adjustment; any adjustments with some windows.
ManyMemories ==
  {Memory(s, DDR2, d, -9 .. -4, 3) :
     s \in {"windows", "first"}, d \in [0 .. 3 -> Windows]} \cup
  {Memory("windows", DDR2, Delayed({}, x, y, {}), a, l) :
     x, y \in Windows, a \in Adjs, l \in Lines}

TypicalArgs == [ext_clk |-> 12, cpu_speed |-> 20]

-----------------------------------------------------------------------------
\* A memory of 2^6 words of which 2^5 are tested, every bit of a word being alone
\* in one of them.
MCRowCol == 2

SdrArgsOf(ext_clk, cpu_speed, phm_div, bank_num) ==
  [ext_clk |-> ext_clk, cpu_speed |-> cpu_speed, phm_div |-> phm_div,
   bus_width |-> 0, bank_num |-> bank_num,
   row_addr |-> MCRowCol, col_addr |-> MCRowCol]

\* All clocks, with two banks, where the memory is not tested; and one with four.
ClockArgs == {f \in {SdrArgsOf(x, m, p, 0) : x \in 12 .. 27, m \in 0 .. 21, p \in 1 .. 32} :
                f.cpu_speed * f.ext_clk <= 255 /\ PllValid(f)}
MemoryArgs == SdrArgsOf(12, 20, 3, 1)
MCSdrArgs == ClockArgs \cup {MemoryArgs}

Ram(bits, defect, line, other, value, dirty) ==
  [bits |-> bits, defect |-> defect, line |-> line, other |-> other,
   value |-> value, dirty |-> dirty]

\* Where it is not tested.
SmallRam == Ram(2, "none", 0, 0, 0, FALSE)

\* Also memories with fewer address lines than configured.
MCRams ==
  {Ram(b, "none", 0, 0, 0, FALSE) : b \in 2 .. 6} \cup
  {Ram(6, "stuck", l, 0, v, d) : l \in DataLines, v \in {0, 1}, d \in BOOLEAN} \cup
  {Ram(6, "open", l, 0, 0, d) : l \in DataLines, d \in BOOLEAN} \cup
  {Ram(6, "short", l, n, 0, TRUE) : l \in {0, 13}, n \in DataLines \ {0, 13}} \cup
  {Ram(6, "address", l, 0, v, TRUE) : l \in 0 .. 5, v \in {0, 1}} \cup
  {Ram(6, "addresses", l, n, 0, FALSE) : l \in {0, 3, 5}, n \in {1, 2, 4}} \cup
  {Ram(6, "cell", l, c, v, d) : l \in {0, 15, 31}, c \in {0, 1, 30, 31, 32},
                                v \in {0, 1}, d \in BOOLEAN}

-----------------------------------------------------------------------------
\* The first state of a stage 1 that does not run.
NoMain ==
  /\ fw_args = TypicalArgs
  /\ memory = Memory("first", DDR2, Delayed({}, {0}, {}, {}), {-5}, 0)
  /\ MainInit
NoSdr == args = MemoryArgs /\ sdram = SmallRam /\ build = "reload" /\ SdrInit

MCInit ==
  \/ /\ soc = "JZ4770" /\ NoSdr
     /\ \/ fw_args = TypicalArgs /\ memory \in ManyMemories /\ MainInit
        \/ memory \in TypicalMemories /\ MainInit
  \/ /\ soc = "JZ4755" /\ NoMain
     /\ \/ args = MemoryArgs /\ SdrInit
        \/ args \in ClockArgs /\ sdram = SmallRam /\ build = "forward" /\ SdrInit

MCNext ==
  \/ soc = "JZ4770" /\ c_main /\ UNCHANGED <<sdrVars, soc>>
  \/ soc = "JZ4755" /\ SdrNext /\ UNCHANGED <<mainVars, soc>>

MCSpec == MCInit /\ [][MCNext]_<<mainVars, sdrVars, soc>>
=============================================================================
