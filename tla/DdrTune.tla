------------------------------- MODULE DdrTune ------------------------------
(***************************************************************************)
(* The search for delays with which stage 1 of the JZ4770 can use its DDR  *)
(* memory (the second half of sdram_init_4770).  A setting is a tsel, one  *)
(* of the delays (msel, hl and quar are its digits) and a signed           *)
(* adjustment of the read DQS delay.  ddr_controller_init programs it and  *)
(* ddr_dma_test tries it: one action below.                                *)
(* DDR2 and mobile DDR look for windows of working delays at every tsel,   *)
(* take the middle of one of them, then adjust DQS (jz4770_ddr2.c).  DDR1  *)
(* takes the first tsel that works at all and the mean of its delays, and  *)
(* adjusts nothing (jz4770_ddr1.c, and the JZ4760's three files).          *)
(***************************************************************************)
EXTENDS Integers, Sequences

CONSTANTS
  MAX_TSEL_VALUE,    \* 4 in the code
  MAX_DELAY_VALUES,  \* 16 in the code
  ADJRDQS_MAX,       \* what the field ADJRDQS holds: 31
  Memories,          \* memory parts, with a field "search"
  Works(_, _, _, _), \* Works(m, tsel, delay, adj): ddr_dma_test returns 0
  Rdqs(_)            \* the delay line elements the DLL uses for RDQS: 0 .. 63

\* DQS_ADJ during the search is 0x2325: minus 5.
StartAdj == -5

ASSUME DdrAssumptions ==
  /\ MAX_TSEL_VALUE \in Nat \ {0, 1}
  /\ MAX_DELAY_VALUES \in Nat \ {0}
  /\ ADJRDQS_MAX \in Nat /\ ADJRDQS_MAX >= -StartAdj
  /\ \A m \in Memories : m.search \in {"windows", "first"} /\ Rdqs(m) \in Nat

VARIABLES
  memory,     \* the part on the board
  ddr_pc,     \* where sdram_init is
  i,          \* tsel being searched
  j,          \* delay being tested
  first, num, \* index[0] and num of the run of working delays at hand
  found,      \* mdelay_pass_array: the k windows, [tsel, first, num]
  tsel, index,\* the setting chosen
  max_adj,    \* limit of the DQS adjustment
  adj,        \* adjustment being tested, or in use
  index_min, index_max  \* the run of working adjustments

searchVars == <<i, j, first, num, found>>
choiceVars == <<tsel, index>>
adjVars    == <<max_adj, adj, index_min, index_max>>
ddrVars    == <<memory, ddr_pc, searchVars, choiceVars, adjVars>>

Tsels  == 0 .. MAX_TSEL_VALUE - 1
Delays == 0 .. MAX_DELAY_VALUES - 1

-----------------------------------------------------------------------------

DdrInit ==
  /\ memory \in Memories
  /\ ddr_pc = "search"
  /\ i = IF memory.search = "first" THEN 1 ELSE 0
  /\ j = 0 /\ first = 0 /\ num = 0 /\ found = <<>>
  /\ tsel = 0 /\ index = 0
  /\ max_adj = 0 /\ adj = StartAdj /\ index_min = 0 /\ index_max = 0

\* The inner loop goes on to the next delay, or ends.
NextDelay ==
  IF j < MAX_DELAY_VALUES - 1
  THEN j' = j + 1 /\ UNCHANGED ddr_pc
  ELSE ddr_pc' = "next" /\ UNCHANGED j

DelayWorks ==
  /\ ddr_pc = "search"
  /\ Works(memory, i, j, StartAdj)
  /\ first' = IF num = 0 THEN j ELSE first
  /\ num' = num + 1
  /\ NextDelay
  /\ UNCHANGED <<memory, i, found, choiceVars, adjVars>>

DelayFails ==
  /\ ddr_pc = "search"
  /\ ~ Works(memory, i, j, StartAdj)
  /\ num = 0
  /\ NextDelay
  /\ UNCHANGED <<memory, i, first, num, found, choiceVars, adjVars>>

\* The first failure after a success ends the run.  Only here is a window
\* recorded: a run that reaches the last delay is not.
RunEnds ==
  /\ ddr_pc = "search"
  /\ ~ Works(memory, i, j, StartAdj)
  /\ num > 0
  /\ found' = IF memory.search = "windows"
              THEN Append(found, [tsel |-> i, first |-> first, num |-> num])
              ELSE found
  /\ ddr_pc' = "next"
  /\ UNCHANGED <<memory, i, j, first, num, choiceVars, adjVars>>

\* Mutant: no more tsels after one without any working delay.
EnoughTselsEager ==
  \/ i = MAX_TSEL_VALUE - 1
  \/ IF memory.search = "windows" THEN num = 0 ELSE num > 0

\* "windows": no more tsels once one without any working delay follows a
\* window.  "first": no more tsels after one with a working delay.
EnoughTsels ==
  \/ i = MAX_TSEL_VALUE - 1
  \/ IF memory.search = "windows" THEN found # <<>> /\ num = 0 ELSE num > 0

\* Mutant: num is not reset.
NextTselKeepsNum ==
  /\ ddr_pc = "next" /\ ~ EnoughTsels
  /\ i' = i + 1 /\ j' = 0
  /\ ddr_pc' = "search"
  /\ UNCHANGED <<memory, num, first, found, choiceVars, adjVars>>

NextTsel ==
  /\ ddr_pc = "next" /\ ~ EnoughTsels
  /\ i' = i + 1 /\ j' = 0 /\ num' = 0
  /\ ddr_pc' = "search"
  /\ UNCHANGED <<memory, first, found, choiceVars, adjVars>>

\* "can't find a suitable mask delay", and while (1).
GiveUp ==
  /\ ddr_pc = "next" /\ EnoughTsels
  /\ memory.search = "windows" /\ found = <<>>
  /\ ddr_pc' = "hung"
  /\ UNCHANGED <<memory, searchVars, choiceVars, adjVars>>

\* Mutant: the adjustment is not kept within what its field holds.
MaxAdjUnlimited(m) == Rdqs(m) - StartAdj

MaxAdj(m) ==
  LET a == Rdqs(m) - StartAdj IN IF a > ADJRDQS_MAX THEN ADJRDQS_MAX ELSE a

\* Mutant: the number of working delays is taken for the last of them.
ChooseWindowByNum ==
  /\ ddr_pc = "next" /\ EnoughTsels
  /\ memory.search = "windows" /\ found # <<>>
  /\ LET w == found[(Len(found) - 1) \div 2 + 1]
     IN  /\ tsel' = w.tsel
         /\ index' = (w.first + w.num - 1) \div 2
  /\ max_adj' = MaxAdj(memory)
  /\ index_min' = -MaxAdj(memory) /\ index_max' = MaxAdj(memory)
  /\ adj' = -MaxAdj(memory)
  /\ num' = 0
  /\ ddr_pc' = "adjust"
  /\ UNCHANGED <<memory, i, j, first, found>>

\* The window in the middle and, since its indices follow each other, the
\* middle of index[0] and index[num - 1].
ChooseWindow ==
  /\ ddr_pc = "next" /\ EnoughTsels
  /\ memory.search = "windows" /\ found # <<>>
  /\ LET w == found[(Len(found) - 1) \div 2 + 1]
     IN  /\ tsel' = w.tsel
         /\ index' = (w.first + (w.first + w.num - 1)) \div 2
  /\ max_adj' = MaxAdj(memory)
  /\ index_min' = -MaxAdj(memory) /\ index_max' = MaxAdj(memory)
  /\ adj' = -MaxAdj(memory)
  /\ num' = 0
  /\ ddr_pc' = "adjust"
  /\ UNCHANGED <<memory, i, j, first, found>>

\* The mean of num numbers from f on, whose sum the code divides by num.
MeanOf(f, n) == (n * f + (n * (n - 1)) \div 2) \div n

\* DDR1: without any working delay the error is printed, and the memory is
\* initialised with delay 0.
ChooseFirst ==
  /\ ddr_pc = "next" /\ EnoughTsels
  /\ memory.search = "first"
  /\ tsel' = i
  /\ index' = IF num = 0 THEN 0 ELSE MeanOf(first, num)
  /\ ddr_pc' = "done"
  /\ UNCHANGED <<memory, searchVars, adjVars>>

-----------------------------------------------------------------------------
(***************************************************************************)
(* The adjustment of DQS, from -max_adj to max_adj - 1.                    *)
(***************************************************************************)

AdjWorks ==
  /\ ddr_pc = "adjust" /\ adj < max_adj
  /\ Works(memory, tsel, index, adj)
  /\ index_min' = IF num = 0 THEN adj ELSE index_min
  /\ num' = num + 1
  /\ adj' = adj + 1
  /\ UNCHANGED <<memory, ddr_pc, i, j, first, found, choiceVars, max_adj,
                 index_max>>

AdjFails ==
  /\ ddr_pc = "adjust" /\ adj < max_adj
  /\ ~ Works(memory, tsel, index, adj)
  /\ num = 0
  /\ adj' = adj + 1
  /\ UNCHANGED <<memory, ddr_pc, searchVars, choiceVars, max_adj, index_min,
                 index_max>>

AdjRunEnds ==
  /\ ddr_pc = "adjust" /\ adj < max_adj
  /\ ~ Works(memory, tsel, index, adj)
  /\ num > 0
  /\ index_max' = adj
  /\ ddr_pc' = "settle"
  /\ UNCHANGED <<memory, searchVars, choiceVars, max_adj, adj, index_min>>

AdjEnds ==
  /\ ddr_pc = "adjust" /\ adj >= max_adj
  /\ ddr_pc' = "settle"
  /\ UNCHANGED <<memory, searchVars, choiceVars, adjVars>>

\* C's division by 2.
Half(n) == IF n >= 0 THEN n \div 2 ELSE -((-n) \div 2)

\* Mutant: the end of the run is taken for its last member.
SettleOneOff ==
  /\ ddr_pc = "settle"
  /\ adj' = Half(index_min + index_max)
  /\ ddr_pc' = "done"
  /\ UNCHANGED <<memory, searchVars, choiceVars, max_adj, index_min, index_max>>

\* The middle of the run.  It is programmed again, but not tested again.
Settle ==
  /\ ddr_pc = "settle"
  /\ adj' = Half(index_min + index_max - 1)
  /\ ddr_pc' = "done"
  /\ UNCHANGED <<memory, searchVars, choiceVars, max_adj, index_min, index_max>>

DdrNext ==
  \/ DelayWorks \/ DelayFails \/ RunEnds \/ NextTsel \/ GiveUp
  \/ ChooseWindow \/ ChooseFirst
  \/ AdjWorks \/ AdjFails \/ AdjRunEnds \/ AdjEnds \/ Settle

DdrSpec == DdrInit /\ [][DdrNext]_ddrVars

-----------------------------------------------------------------------------
(***************************************************************************)
(* Properties.                                                             *)
(***************************************************************************)

\* Type correctness; the windows fit mdelay_pass_array, the delay its fields
\* and the adjustment the five bits and the sign it is written as.
DdrTypeOK ==
  /\ memory \in Memories
  /\ ddr_pc \in {"search", "next", "hung", "adjust", "settle", "done"}
  /\ i \in Tsels /\ j \in Delays /\ first \in Delays
  /\ num \in Nat
  /\ found \in Seq([tsel : Tsels, first : Delays, num : 1 .. MAX_DELAY_VALUES])
  /\ Len(found) <= MAX_TSEL_VALUE
  /\ tsel \in Tsels /\ index \in Delays
  /\ max_adj \in 0 .. ADJRDQS_MAX
  /\ adj \in -ADJRDQS_MAX .. ADJRDQS_MAX
  /\ index_min \in -ADJRDQS_MAX .. ADJRDQS_MAX
  /\ index_max \in -ADJRDQS_MAX .. ADJRDQS_MAX

\* The memory works at the setting that stage 1 leaves it with: the tsel and
\* the delay that one search chose from its windows, with the adjustment that a
\* second search, started from them, ends with.  The programs do not test it
\* once more.  DDR1 goes on without a working setting after it has reported
\* that there is none.
FinalWorks ==
  ddr_pc = "done" =>
    \/ Works(memory, tsel, index, adj)
    \/ /\ memory.search = "first"
       /\ \A t \in Tsels \ {0}, d \in Delays : ~ Works(memory, t, d, StartAdj)

\* Some delay works at tsel t, and a later one does not: a window that the
\* search can record.
HasWindow(t) ==
  \E d, e \in Delays : /\ d < e
                       /\ Works(memory, t, d, StartAdj)
                       /\ ~ Works(memory, t, e, StartAdj)

\* The search hangs the board only if no tsel has a window that ends before
\* the last delay.
RefusesOnlyHopeless == ddr_pc = "hung" => \A t \in Tsels : ~ HasWindow(t)

\* x is in the middle of its run of W: as many neighbours belong to W on one
\* side as on the other, but for one.
Centred(x, W) ==
  \A m \in 1 .. MAX_DELAY_VALUES + 2 * ADJRDQS_MAX :
    /\ (x .. x + m \subseteq W) => (x - (m - 1) .. x \subseteq W)
    /\ (x - m .. x \subseteq W) => (x .. x + (m - 1) \subseteq W)

\* The delay and the adjustment chosen have the same margin to the first
\* setting that fails, or to the end of the range, on both sides.
Balanced ==
  ddr_pc = "done" /\ Works(memory, tsel, index, StartAdj) =>
    /\ Centred(index, {d \in Delays : Works(memory, tsel, d, StartAdj)})
    /\ memory.search = "windows" =>
         Centred(adj, {a \in -max_adj .. max_adj - 1 :
                         Works(memory, tsel, index, a)})
=============================================================================
