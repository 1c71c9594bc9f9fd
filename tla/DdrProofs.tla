------------------------------ MODULE DdrProofs -----------------------------
(***************************************************************************)
(* Stage 1 of the JZ4770, for every memory and every pair of values in     *)
(* fw_args.  The delay search leaves the memory at a setting that works, in*)
(* the middle of a window, and hangs only when no tsel has a window it can *)
(* record; the timings and the waits suffice at the clock that the PLL     *)
(* makes of the board's crystal; type correctness.                         *)
(***************************************************************************)
EXTENDS Stage1Main, SequenceTheorems, TLAPS

-----------------------------------------------------------------------------
(***************************************************************************)
(* Arithmetic.                                                             *)
(***************************************************************************)

\* The middle of two numbers, divided as C does, lies between them.
LEMMA HalfBetween ==
  ASSUME NEW a \in Int, NEW b \in Int, a <= b
  PROVE  Half(a + b) \in Int /\ a <= Half(a + b) /\ Half(a + b) <= b
  BY DEF Half

\* The position of the middle one of n.
LEMMA MiddleOf ==
  ASSUME NEW n \in Nat, n > 0
  PROVE  (n - 1) \div 2 + 1 \in 1 .. n
  OBVIOUS

\* A product with a positive factor keeps the order.
LEMMA Cancel ==
  ASSUME NEW n \in Nat, n > 0, NEW a \in Int, NEW b \in Int, n * a <= n * b
  PROVE  a <= b
<1>1. SUFFICES ASSUME b + 1 <= a PROVE FALSE
  OBVIOUS
<1>2. n * (b + 1) <= n * a
  BY <1>1
<1>3. n * (b + 1) = n * b + n
  OBVIOUS
<1> QED
  BY <1>2, <1>3, n * a \in Int, n * b \in Int

\* The mean of a run of numbers belongs to it.
LEMMA MeanBetween ==
  ASSUME NEW f \in Nat, NEW n \in Nat, n > 0
  PROVE  MeanOf(f, n) \in Int /\ f <= MeanOf(f, n) /\ MeanOf(f, n) <= f + n - 1
<1> DEFINE p == n * (n - 1)
           x == n * f + p \div 2
           q == x \div n
<1>1. p \in Nat
  <2>1. n - 1 \in Nat
    OBVIOUS
  <2> QED
    BY <2>1
<1>2. p \div 2 \in Nat /\ p \div 2 <= p
  BY <1>1
<1>3. n * f \in Nat
  OBVIOUS
<1>4. x \in Nat /\ n * f <= x /\ x <= n * f + p
  BY <1>2, <1>3
<1>5. q \in Int /\ n * q <= x /\ x < n * q + n
  <2> HIDE DEF x
  <2> QED
    BY <1>4
<1>6. n * f + p = n * (f + n - 1)
  OBVIOUS
<1>7. f <= q
  <2>1. n * (q + 1) = n * q + n
    BY <1>5
  <2>2. n * f <= n * (q + 1)
    BY <1>3, <1>4, <1>5, <2>1
  <2>3. f < q + 1
    <3>1. SUFFICES ASSUME q + 1 <= f PROVE FALSE
      BY <1>5
    <3>2. n * (q + 1) <= n * f
      BY <3>1, <1>5
    <3> QED
      BY <3>2, <2>1, <1>3, <1>4, <1>5
  <2> QED
    BY <2>3, <1>5
<1>8. q <= f + n - 1
  <2>1. n * q <= n * (f + n - 1)
    BY <1>1, <1>3, <1>4, <1>5, <1>6
  <2> QED
    BY <2>1, <1>5, Cancel
<1> QED
  BY <1>5, <1>7, <1>8 DEF MeanOf

-----------------------------------------------------------------------------
(***************************************************************************)
(* The inductive invariant.                                                *)
(***************************************************************************)

\* The n delays from f on work at tsel t; no delay from f to before n does.
RunAt(t, f, n)  == \A d \in Int : f <= d /\ d < f + n => Works(memory, t, d, StartAdj)
NoneAt(t, f, n) == \A d \in Int : f <= d /\ d < n => ~ Works(memory, t, d, StartAdj)

Types ==
  /\ memory \in Memories
  /\ ddr_pc \in {"search", "next", "hung", "adjust", "settle", "done"}
  /\ i \in Tsels /\ j \in Delays /\ first \in Delays
  /\ num \in Nat
  /\ found \in Seq([tsel : Tsels, first : Delays, num : 1 .. MAX_DELAY_VALUES])
  /\ tsel \in Tsels /\ index \in Delays
  /\ max_adj \in 0 .. ADJRDQS_MAX
  /\ adj \in -ADJRDQS_MAX .. ADJRDQS_MAX
  /\ index_min \in -ADJRDQS_MAX .. ADJRDQS_MAX
  /\ index_max \in -ADJRDQS_MAX .. ADJRDQS_MAX

\* What is known of the delays of tsel i before delay e.
Scanned(e) ==
  /\ num = 0 => NoneAt(i, 0, e)
  /\ num > 0 => /\ first + num <= e
                /\ NoneAt(i, 0, first)
                /\ RunAt(i, first, num)

\* The loop over the delays.
SearchInv ==
  /\ ddr_pc = "search" => /\ Scanned(j)
                          /\ num > 0 => first + num = j
                          /\ Len(found) <= i
  /\ ddr_pc = "next" => /\ Scanned(MAX_DELAY_VALUES)
                        /\ Len(found) <= i + 1
  /\ ddr_pc \in {"hung", "adjust", "settle", "done"} =>
       Len(found) <= MAX_TSEL_VALUE
  /\ memory.search = "first" /\ ddr_pc \in {"search", "next"} =>
       \A t \in Tsels \ {0} : t < i => NoneAt(t, 0, MAX_DELAY_VALUES)

\* The windows recorded work, and none has been missed.
FoundInv ==
  /\ \A k \in 1 .. Len(found) :
       RunAt(found[k].tsel, found[k].first, found[k].num)
       /\ found[k].first + found[k].num <= MAX_DELAY_VALUES
  /\ ddr_pc = "hung" => memory.search = "windows" /\ found = <<>>
  /\ memory.search = "windows" /\ found = <<>> =>
       /\ ddr_pc = "search" => \A t \in Tsels : t < i => ~ HasWindow(t)
       /\ ddr_pc = "next" => \A t \in Tsels : t <= i => ~ HasWindow(t)
       /\ ddr_pc = "hung" => \A t \in Tsels : ~ HasWindow(t)

WorksFrom(a, b) == \A x \in Int : a <= x /\ x < b => Works(memory, tsel, index, x)

\* The loop over the adjustments, which passes the one the chosen delay is
\* known to work with.
AdjustInv ==
  /\ ddr_pc \in {"search", "next"} => adj = StartAdj
  /\ ddr_pc = "adjust" =>
       /\ Works(memory, tsel, index, StartAdj)
       /\ max_adj >= -StartAdj
       /\ -max_adj <= adj /\ adj <= max_adj
       /\ index_max = max_adj
       /\ num = 0 => \A x \in Int : -max_adj <= x /\ x < adj =>
                                      ~ Works(memory, tsel, index, x)
       /\ num > 0 => index_min < adj /\ WorksFrom(index_min, adj)
  /\ ddr_pc = "settle" => index_min < index_max /\ WorksFrom(index_min, index_max)

IInv == Types /\ SearchInv /\ FoundInv /\ AdjustInv /\ FinalWorks

\* The invariant at the start of the search.
LEMMA InitIInv == DdrInit => IInv
<1> SUFFICES ASSUME DdrInit PROVE IInv
  OBVIOUS
<1> USE DdrAssumptions DEF DdrInit, Tsels, Delays, StartAdj
<1>1. found \in Seq([tsel : Tsels, first : Delays, num : 1 .. MAX_DELAY_VALUES])
      /\ Len(found) = 0
  OBVIOUS
<1>2. Types
  BY <1>1 DEF Types
<1>3. SearchInv
  BY <1>1 DEF SearchInv, Scanned, NoneAt
<1>4. FoundInv
  BY <1>1 DEF FoundInv
<1>5. AdjustInv /\ FinalWorks
  BY DEF AdjustInv, FinalWorks
<1> QED
  BY <1>2, <1>3, <1>4, <1>5 DEF IInv

\* A delay at which the memory works: the window at hand grows.
LEMMA DelayWorksIInv == IInv /\ DelayWorks => IInv'
<1> SUFFICES ASSUME IInv, DelayWorks PROVE IInv'
  OBVIOUS
<1> USE DdrAssumptions DEF DelayWorks, NextDelay, Tsels, Delays, choiceVars, adjVars
<1>1. Types'
  BY DEF IInv, Types
<1>2. SearchInv'
  <2>1. /\ num' > 0 /\ first' + num' = j + 1
        /\ NoneAt(i, 0, first)' /\ RunAt(i, first, num)'
    BY DEF IInv, Types, SearchInv, Scanned, NoneAt, RunAt
  <2>2. num' # 0 /\ first' + num' <= j + 1
    BY <2>1 DEF IInv, Types
  <2>3. Len(found) <= i /\ Len(found) \in Nat
    BY DEF IInv, Types, SearchInv
  <2>4. ddr_pc' = "search" => j' = j + 1
    BY DEF IInv, Types
  <2>5. ddr_pc' = "next" => j + 1 = MAX_DELAY_VALUES
    BY DEF IInv, Types
  <2>6. \A t \in Tsels \ {0} : memory.search = "first" /\ t < i =>
            NoneAt(t, 0, MAX_DELAY_VALUES)'
    BY DEF IInv, Types, SearchInv, NoneAt
  <2>7. ddr_pc' \in {"search", "next"} /\ i' = i /\ found' = found
        /\ memory' = memory
    OBVIOUS
  <2>8. (ddr_pc' = "search" => Scanned(j)') /\ (ddr_pc' = "next" => Scanned(MAX_DELAY_VALUES)')
    BY <2>1, <2>2, <2>4, <2>5 DEF Scanned
  <2>9. i \in Nat
    BY DEF IInv, Types
  <2> QED
    BY <2>1, <2>3, <2>4, <2>6, <2>7, <2>8, <2>9 DEF SearchInv
<1>3. FoundInv'
  BY DEF IInv, Types, SearchInv, FoundInv, Scanned, NoneAt, RunAt, HasWindow
<1>4. AdjustInv' /\ FinalWorks'
  BY DEF IInv, Types, AdjustInv, FinalWorks
<1> QED
  BY <1>1, <1>2, <1>3, <1>4 DEF IInv

\* A delay at which it fails.
LEMMA DelayFailsIInv == IInv /\ DelayFails => IInv'
<1> SUFFICES ASSUME IInv, DelayFails PROVE IInv'
  OBVIOUS
<1> USE DdrAssumptions DEF DelayFails, NextDelay, Tsels, Delays, choiceVars, adjVars
<1>1. Types'
  BY DEF IInv, Types
<1>2. SearchInv'
  BY DEF IInv, Types, SearchInv, Scanned, NoneAt, RunAt
<1>3. FoundInv'
  BY DEF IInv, Types, SearchInv, FoundInv, Scanned, NoneAt, RunAt, HasWindow
<1>4. AdjustInv' /\ FinalWorks'
  BY DEF IInv, Types, AdjustInv, FinalWorks
<1> QED
  BY <1>1, <1>2, <1>3, <1>4 DEF IInv

\* The window appended is the one scanned; the others are untouched.
LEMMA RunEndsIInv == IInv /\ RunEnds => IInv'
<1> SUFFICES ASSUME IInv, RunEnds PROVE IInv'
  OBVIOUS
<1> USE DdrAssumptions DEF RunEnds, Tsels, Delays, choiceVars, adjVars
<1> DEFINE w == [tsel |-> i, first |-> first, num |-> num]
           W == [tsel : Tsels, first : Delays, num : 1 .. MAX_DELAY_VALUES]
<1>1. w \in W /\ first + num = j /\ RunAt(i, first, num) /\ NoneAt(i, 0, first)
  BY DEF IInv, Types, SearchInv, Scanned
<1>2. found \in Seq(W) /\ Len(found) \in Nat /\ Len(found) <= i
  BY DEF IInv, Types, SearchInv
<1>3. CASE memory.search = "windows"
  <2>1. /\ found' \in Seq(W) /\ Len(found') = Len(found) + 1 /\ found' # <<>>
        /\ found'[Len(found) + 1] = w
        /\ \A k \in 1 .. Len(found) : found'[k] = found[k]
    BY <1>1, <1>2, <1>3
  <2>2. Types'
    BY <2>1 DEF IInv, Types
  <2>3. SearchInv'
    BY <1>1, <1>2, <2>1 DEF IInv, Types, SearchInv, Scanned, NoneAt, RunAt
  <2>4. FoundInv'
    <3>1. ASSUME NEW k \in 1 .. Len(found')
          PROVE  /\ RunAt(found[k].tsel, found[k].first, found[k].num)'
                 /\ found'[k].first + found'[k].num <= MAX_DELAY_VALUES
      <4>1. CASE k = Len(found) + 1
        <5>1. found'[k] = w
          BY <2>1, <4>1
        <5>2. RunAt(found[k].tsel, found[k].first, found[k].num)'
          BY <1>1, <5>1 DEF RunAt
        <5>3. first + num <= MAX_DELAY_VALUES
          BY <1>1 DEF IInv, Types
        <5> QED
          BY <5>1, <5>2, <5>3
      <4>2. CASE k \in 1 .. Len(found)
        BY <2>1, <4>2 DEF RunAt, IInv, FoundInv
      <4> QED
        BY <1>2, <2>1, <4>1, <4>2
    <3> QED
      BY <2>1, <3>1 DEF FoundInv
  <2>5. AdjustInv' /\ FinalWorks'
    BY DEF IInv, Types, AdjustInv, FinalWorks
  <2> QED
    BY <2>2, <2>3, <2>4, <2>5 DEF IInv
<1>4. CASE memory.search # "windows"
  <2>1. Types'
    BY <1>4 DEF IInv, Types
  <2>2. SearchInv'
    BY <1>1, <1>2, <1>4 DEF IInv, Types, SearchInv, Scanned, NoneAt, RunAt
  <2>3. FoundInv'
    BY <1>4 DEF IInv, Types, FoundInv, RunAt
  <2>4. AdjustInv' /\ FinalWorks'
    BY DEF IInv, Types, AdjustInv, FinalWorks
  <2> QED
    BY <2>1, <2>2, <2>3, <2>4 DEF IInv
<1> QED
  BY <1>3, <1>4

\* The search goes on with the next tsel.
LEMMA NextTselIInv == IInv /\ NextTsel => IInv'
<1> SUFFICES ASSUME IInv, NextTsel PROVE IInv'
  OBVIOUS
<1> USE DdrAssumptions DEF NextTsel, EnoughTsels, Tsels, Delays, choiceVars, adjVars
<1>1. Types'
  BY DEF IInv, Types
<1>2. SearchInv'
  BY DEF IInv, Types, SearchInv, Scanned, NoneAt, RunAt
<1>3. FoundInv'
  BY DEF IInv, Types, SearchInv, FoundInv, Scanned, RunAt, HasWindow
<1>4. AdjustInv' /\ FinalWorks'
  BY DEF IInv, Types, AdjustInv, FinalWorks
<1> QED
  BY <1>1, <1>2, <1>3, <1>4 DEF IInv

\* No window was found.
LEMMA GiveUpIInv == IInv /\ GiveUp => IInv'
<1> SUFFICES ASSUME IInv, GiveUp PROVE IInv'
  OBVIOUS
<1> USE DdrAssumptions DEF GiveUp, EnoughTsels, Tsels, Delays, searchVars, choiceVars, adjVars
<1>1. Types'
  BY DEF IInv, Types
<1>2. SearchInv'
  BY DEF IInv, Types, SearchInv, Scanned, NoneAt, RunAt
<1>3. FoundInv'
  BY DEF IInv, Types, FoundInv, RunAt, HasWindow
<1>4. AdjustInv' /\ FinalWorks'
  BY DEF IInv, Types, AdjustInv, FinalWorks
<1> QED
  BY <1>1, <1>2, <1>3, <1>4 DEF IInv

\* The delay chosen lies inside a recorded window, so that it works.
LEMMA ChooseWindowIInv == IInv /\ ChooseWindow => IInv'
<1> SUFFICES ASSUME IInv, ChooseWindow PROVE IInv'
  OBVIOUS
<1> USE DdrAssumptions DEF ChooseWindow, Tsels, Delays
<1> DEFINE k == (Len(found) - 1) \div 2 + 1
           w == found[k]
           W == [tsel : Tsels, first : Delays, num : 1 .. MAX_DELAY_VALUES]
<1>1. found \in Seq(W) /\ found # <<>> /\ Len(found) \in Nat /\ Len(found) > 0
  <2>1. found \in Seq(W) /\ found # <<>>
    BY DEF IInv, Types
  <2> QED
    BY <2>1, EmptySeq
<1>2. k \in 1 .. Len(found) /\ w \in W
  <2>1. k \in 1 .. Len(found)
    BY <1>1, MiddleOf
  <2> HIDE DEF k, W
  <2> QED
    BY <1>1, <2>1, ElementOfSeq
<1>3. RunAt(w.tsel, w.first, w.num) /\ w.first + w.num <= MAX_DELAY_VALUES
  BY <1>2 DEF IInv, FoundInv
<1>4. /\ tsel' = w.tsel /\ tsel' \in Tsels
      /\ index' \in Delays
      /\ w.first <= index' /\ index' < w.first + w.num
  <2> DEFINE f == w.first
             n == w.num
  <2>1. f \in Nat /\ n \in Nat /\ n >= 1 /\ f + n <= MAX_DELAY_VALUES
    BY <1>2, <1>3
  <2>2. index' = (f + (f + n - 1)) \div 2
    OBVIOUS
  <2> HIDE DEF f, n
  <2>3. index' \in Int /\ f <= index' /\ index' < f + n
    BY <2>1, <2>2
  <2>4. index' \in Delays
    BY <2>1, <2>3 DEF Delays
  <2>5. tsel' = w.tsel /\ tsel' \in Tsels
    BY <1>2
  <2> QED
    BY <2>3, <2>4, <2>5 DEF f, n
<1>5. Works(memory, tsel', index', StartAdj)
  BY <1>3, <1>4 DEF RunAt
<1>6. MaxAdj(memory) \in 0 .. ADJRDQS_MAX /\ MaxAdj(memory) >= -StartAdj
  <2>1. Rdqs(memory) \in Nat
    BY DEF IInv, Types
  <2> QED
    BY <2>1 DEF MaxAdj, StartAdj
<1>7. Types'
  <2> DEFINE a == MaxAdj(memory)
  <2>1. a \in Int /\ 0 <= a /\ a <= ADJRDQS_MAX /\ max_adj' = a /\ index_max' = a
        /\ adj' = -a /\ index_min' = -a
    BY <1>6
  <2> HIDE DEF a
  <2>2. /\ max_adj' \in 0 .. ADJRDQS_MAX
        /\ adj' \in -ADJRDQS_MAX .. ADJRDQS_MAX
        /\ index_min' \in -ADJRDQS_MAX .. ADJRDQS_MAX
        /\ index_max' \in -ADJRDQS_MAX .. ADJRDQS_MAX
    BY <2>1
  <2> QED
    BY <1>4, <2>2 DEF IInv, Types
<1>8. SearchInv' /\ FoundInv'
  BY DEF IInv, Types, SearchInv, FoundInv, RunAt, EnoughTsels
<1>9. AdjustInv' /\ FinalWorks'
  <2> DEFINE a == MaxAdj(memory)
  <2>1. a \in Int /\ a >= -StartAdj /\ max_adj' = a /\ index_max' = a /\ adj' = -a
        /\ -StartAdj >= 0 /\ num' = 0 /\ ddr_pc' = "adjust" /\ memory' = memory
    BY <1>6 DEF StartAdj
  <2>2. -a <= adj' /\ adj' <= a
        /\ \A x \in Int : ~ (-a <= x /\ x < adj')
    <3> HIDE DEF a
    <3> QED
      BY <2>1 DEF StartAdj
  <2> HIDE DEF a
  <2> QED
    BY <1>5, <2>1, <2>2 DEF AdjustInv, FinalWorks
<1> QED
  BY <1>7, <1>8, <1>9 DEF IInv

\* The mean of the first delays that work is taken.
LEMMA ChooseFirstIInv == IInv /\ ChooseFirst => IInv'
<1> SUFFICES ASSUME IInv, ChooseFirst PROVE IInv'
  OBVIOUS
<1> USE DdrAssumptions DEF ChooseFirst, Tsels, Delays, searchVars, adjVars
<1>1. num > 0 => /\ MeanOf(first, num) \in Int
                 /\ first <= MeanOf(first, num) /\ MeanOf(first, num) < first + num
                 /\ first + num <= MAX_DELAY_VALUES
                 /\ RunAt(i, first, num)
  BY MeanBetween DEF IInv, Types, SearchInv, Scanned
<1>2. index' \in Delays /\ tsel' = i /\ i \in Tsels
  BY <1>1 DEF IInv, Types
<1>3. Types'
  BY <1>2 DEF IInv, Types
<1>4. SearchInv' /\ FoundInv'
  BY DEF IInv, Types, SearchInv, FoundInv, RunAt
<1>5. FinalWorks'
  <2>1. CASE num > 0
    <3>1. Works(memory, i, MeanOf(first, num), StartAdj)
      BY <1>1, <2>1 DEF RunAt
    <3> QED
      BY <3>1, <2>1 DEF FinalWorks, IInv, AdjustInv
  <2>2. CASE num = 0
    BY <2>2 DEF FinalWorks, IInv, Types, SearchInv, Scanned, NoneAt, EnoughTsels
  <2> QED
    BY <2>1, <2>2 DEF IInv, Types
<1>6. AdjustInv'
  BY DEF AdjustInv
<1> QED
  BY <1>3, <1>4, <1>5, <1>6 DEF IInv

\* The steps of the search for an adjustment.
LEMMA AdjIInv == IInv /\ (AdjWorks \/ AdjFails \/ AdjRunEnds \/ AdjEnds) => IInv'
<1> SUFFICES ASSUME IInv, AdjWorks \/ AdjFails \/ AdjRunEnds \/ AdjEnds PROVE IInv'
  OBVIOUS
<1> USE DdrAssumptions DEF AdjWorks, AdjFails, AdjRunEnds, AdjEnds, Tsels, Delays,
                           searchVars, choiceVars, adjVars
<1>1. Types'
  <2>1. /\ max_adj \in 0 .. ADJRDQS_MAX /\ adj \in -ADJRDQS_MAX .. ADJRDQS_MAX
        /\ index_min \in -ADJRDQS_MAX .. ADJRDQS_MAX
        /\ index_max \in -ADJRDQS_MAX .. ADJRDQS_MAX
        /\ num \in Nat
    BY DEF IInv, Types
  <2>2. /\ adj' \in -ADJRDQS_MAX .. ADJRDQS_MAX
        /\ index_min' \in -ADJRDQS_MAX .. ADJRDQS_MAX
        /\ index_max' \in -ADJRDQS_MAX .. ADJRDQS_MAX
        /\ num' \in Nat
    BY <2>1
  <2>3. UNCHANGED <<memory, i, j, first, found, tsel, index, max_adj>>
        /\ ddr_pc' \in {"adjust", "settle"}
    OBVIOUS
  <2> QED
    BY <2>2, <2>3 DEF IInv, Types
<1>2. SearchInv' /\ FoundInv' /\ FinalWorks'
  BY DEF IInv, Types, SearchInv, FoundInv, RunAt, FinalWorks
<1>3. AdjustInv'
  <2>1. CASE AdjWorks
    BY <2>1 DEF IInv, Types, AdjustInv, WorksFrom
  <2>2. CASE AdjFails
    BY <2>2 DEF IInv, Types, AdjustInv
  <2>3. CASE AdjRunEnds
    BY <2>3 DEF IInv, Types, AdjustInv, WorksFrom
  <2>4. CASE AdjEnds
    <3>1. num > 0
      BY <2>4 DEF IInv, Types, AdjustInv, StartAdj
    <3> QED
      BY <2>4, <3>1 DEF IInv, Types, AdjustInv, WorksFrom
  <2> QED
    BY <2>1, <2>2, <2>3, <2>4
<1> QED
  BY <1>1, <1>2, <1>3 DEF IInv

\* The middle of the adjustments that work is taken.
LEMMA SettleIInv == IInv /\ Settle => IInv'
<1> SUFFICES ASSUME IInv, Settle PROVE IInv'
  OBVIOUS
<1> USE DdrAssumptions DEF Settle, Tsels, Delays, searchVars, choiceVars
<1>1. /\ adj' \in Int /\ index_min <= adj' /\ adj' < index_max
      /\ index_min \in Int /\ index_max \in Int
  <2>1. /\ index_min \in Int /\ index_max \in Int /\ index_max - 1 \in Int
        /\ index_min <= index_max - 1
    BY DEF IInv, Types, AdjustInv
  <2>2. index_min + index_max - 1 = index_min + (index_max - 1)
    BY <2>1
  <2>3. adj' = Half(index_min + (index_max - 1))
    BY <2>2
  <2>4. adj' \in Int /\ index_min <= adj' /\ adj' <= index_max - 1
    BY <2>1, <2>3, HalfBetween
  <2> QED
    BY <2>1, <2>4
<1>2. Types'
  BY <1>1 DEF IInv, Types
<1>3. SearchInv' /\ FoundInv'
  BY DEF IInv, Types, SearchInv, FoundInv, RunAt
<1>4. AdjustInv'
  BY DEF AdjustInv
<1>5. FinalWorks'
  BY <1>1 DEF IInv, AdjustInv, WorksFrom, FinalWorks
<1> QED
  BY <1>2, <1>3, <1>4, <1>5 DEF IInv

\* Steps that leave the search alone.
LEMMA StutterIInv == IInv /\ UNCHANGED ddrVars => IInv'
<1> SUFFICES ASSUME IInv, UNCHANGED ddrVars PROVE IInv'
  OBVIOUS
<1> USE DEF ddrVars, searchVars, choiceVars, adjVars, Tsels, Delays
<1>1. Types'
  BY DEF IInv, Types
<1>2. SearchInv'
  BY DEF IInv, SearchInv, Scanned, NoneAt, RunAt
<1>3. FoundInv'
  BY DEF IInv, FoundInv, RunAt, HasWindow
<1>4. AdjustInv' /\ FinalWorks'
  BY DEF IInv, AdjustInv, WorksFrom, FinalWorks
<1> QED
  BY <1>1, <1>2, <1>3, <1>4 DEF IInv

\* The invariant is kept by every step of the search.
LEMMA StepIInv == IInv /\ [DdrNext]_ddrVars => IInv'
BY DelayWorksIInv, DelayFailsIInv, RunEndsIInv, NextTselIInv, GiveUpIInv,
   ChooseWindowIInv, ChooseFirstIInv, AdjIInv, SettleIInv, StutterIInv
   DEF DdrNext

\* Stage 1 as a whole: its steps are steps of the search, or leave it alone.
LEMMA MainStep == [c_main]_mainVars => [DdrNext]_ddrVars
BY DEF c_main, mainVars, SetTimings

\* The invariant holds throughout stage 1.
LEMMA Invariance == MainSpec => []IInv
<1>1. MainInit => IInv
  BY InitIInv DEF MainInit
<1>2. IInv /\ [c_main]_mainVars => IInv'
  BY MainStep, StepIInv
<1> QED
  BY <1>1, <1>2, PTL DEF MainSpec

\* For every memory, and whatever the PLL was set to: stage 1 leaves the memory
\* at a setting that works, unless it is DDR1 and no setting does.
THEOREM FinalWorksHolds == MainSpec => []FinalWorks
<1>1. IInv => FinalWorks
  BY DEF IInv
<1> QED
  BY Invariance, <1>1, PTL

\* Stage 1 hangs in the search only if no tsel has a window to be found.
THEOREM RefusesOnlyHopelessHolds == MainSpec => []RefusesOnlyHopeless
<1>1. IInv => RefusesOnlyHopeless
  <2> SUFFICES ASSUME IInv, ddr_pc = "hung" PROVE \A t \in Tsels : ~ HasWindow(t)
    BY DEF RefusesOnlyHopeless
  <2> QED
    BY DEF IInv, FoundInv
<1> QED
  BY Invariance, <1>1, PTL

\* The invariant gives the types of the search.
LEMMA DdrTypes == IInv => DdrTypeOK
BY DdrAssumptions DEF IInv, Types, SearchInv, DdrTypeOK, Tsels

-----------------------------------------------------------------------------
(***************************************************************************)
(* The margins on both sides.                                              *)
(***************************************************************************)

\* x is in the middle of a .. b: its distances to the ends differ by at most one.
Middle(x, a, b) ==
  a <= x /\ x <= b /\ x - a <= b - x + 1 /\ b - x <= x - a + 1

\* The middle of a run that has no neighbour in W on either side is centred in W.
LEMMA MiddleIsCentred ==
  ASSUME NEW W, NEW a \in Int, NEW b \in Int, NEW x \in Int,
         a .. b \subseteq W, a - 1 \notin W, b + 1 \notin W, Middle(x, a, b)
  PROVE  Centred(x, W)
<1> SUFFICES ASSUME NEW m \in Int, m >= 1
             PROVE  /\ (x .. x + m \subseteq W) => (x - (m - 1) .. x \subseteq W)
                    /\ (x - m .. x \subseteq W) => (x .. x + (m - 1) \subseteq W)
  BY DdrAssumptions DEF Centred
<1>1. a <= x /\ x <= b /\ x - a <= b - x + 1 /\ b - x <= x - a + 1
  BY DEF Middle
<1>2. ASSUME x .. x + m \subseteq W PROVE x - (m - 1) .. x \subseteq W
  <2>1. x + m <= b
    <3>1. SUFFICES ASSUME b + 1 <= x + m PROVE FALSE
      OBVIOUS
    <3>2. b + 1 \in x .. x + m
      BY <1>1, <3>1
    <3> QED
      BY <1>2, <3>2
  <2>2. x - (m - 1) .. x \subseteq a .. b
    BY <1>1, <2>1
  <2> QED
    BY <2>2
<1>3. ASSUME x - m .. x \subseteq W PROVE x .. x + (m - 1) \subseteq W
  <2>1. a <= x - m
    <3>1. SUFFICES ASSUME x - m <= a - 1 PROVE FALSE
      OBVIOUS
    <3>2. a - 1 \in x - m .. x
      BY <1>1, <3>1
    <3> QED
      BY <1>3, <3>2
  <2>2. x .. x + (m - 1) \subseteq a .. b
    BY <1>1, <2>1
  <2> QED
    BY <2>2
<1> QED
  BY <1>2, <1>3

\* C's half of the sum of two numbers is in their middle.
LEMMA HalfMiddle ==
  ASSUME NEW a \in Int, NEW b \in Int, a <= b
  PROVE  Middle(Half(a + b), a, b)
  BY DEF Half, Middle

\* So is the mean of the run between them.
LEMMA MeanMiddle ==
  ASSUME NEW f \in Nat, NEW n \in Nat, n > 0
  PROVE  Middle(MeanOf(f, n), f, f + n - 1)
<1> DEFINE h == (n - 1) \div 2
           t == (n * (n - 1)) \div 2
           x == n * f + t
           q == x \div n
<1>1. h \in Nat /\ (n - 1 = 2 * h \/ n - 1 = 2 * h + 1)
  OBVIOUS
<1>2. t \in Nat /\ n * h <= t /\ t < n * h + n
  <2> HIDE DEF h
  <2>1. n * h \in Nat
    BY <1>1
  <2>2. CASE n - 1 = 2 * h
    <3>1. n * (n - 1) = 2 * (n * h)
      BY <1>1, <2>2
    <3> QED
      BY <2>1, <3>1
  <2>3. CASE n - 1 = 2 * h + 1
    <3>1. n * (n - 1) = 2 * (n * h) + n
      BY <1>1, <2>3
    <3> QED
      BY <2>1, <3>1
  <2> QED
    BY <1>1, <2>2, <2>3
<1>3. n * (f + h) = n * f + n * h /\ n * f \in Nat /\ n * h \in Nat
  <2> HIDE DEF h
  <2> QED
    BY <1>1
<1>4. x \in Nat /\ n * (f + h) <= x /\ x < n * (f + h) + n
  <2> HIDE DEF h, t
  <2> QED
    BY <1>2, <1>3
<1>5. q \in Int /\ n * q <= x /\ x < n * q + n
  <2> HIDE DEF x
  <2> QED
    BY <1>4
<1>6. q = f + h
  <2> DEFINE g == f + h
  <2>1. g \in Nat
    BY <1>1
  <2>2. n * g <= x /\ x < n * g + n
    BY <1>4
  <2> HIDE DEF g, q, x
  <2>3. x \in Int /\ n * g \in Int /\ n * q \in Int
    BY <1>4, <1>5, <2>1
  <2>4. q <= g
    <3>1. SUFFICES ASSUME g + 1 <= q PROVE FALSE
      BY <1>5, <2>1
    <3>2. n * (g + 1) <= n * q
      BY <3>1, <1>5, <2>1
    <3>3. n * (g + 1) = n * g + n
      BY <2>1
    <3> QED
      BY <1>5, <2>2, <2>3, <3>2, <3>3
  <2>5. g <= q
    <3>1. SUFFICES ASSUME q + 1 <= g PROVE FALSE
      BY <1>5, <2>1
    <3>2. n * (q + 1) <= n * g
      BY <3>1, <1>5, <2>1
    <3>3. n * (q + 1) = n * q + n
      BY <1>5
    <3> QED
      BY <1>5, <2>2, <2>3, <3>2, <3>3
  <2> QED
    BY <1>5, <2>1, <2>4, <2>5 DEF g
<1>7. Middle(f + h, f, f + n - 1)
  <2> HIDE DEF h
  <2> QED
    BY <1>1 DEF Middle
<1> QED
  BY <1>6, <1>7 DEF MeanOf

\* No delay next to the n from f on works at tsel t.
Alone(t, f, n) ==
  /\ f > 0 => ~ Works(memory, t, f - 1, StartAdj)
  /\ f + n < MAX_DELAY_VALUES => ~ Works(memory, t, f + n, StartAdj)

\* The delay chosen is the middle of such a run, if any delay works.
ChosenInMiddle ==
  \/ ~ Works(memory, tsel, index, StartAdj)
  \/ \E f, n \in Nat : /\ f + n <= MAX_DELAY_VALUES
                       /\ RunAt(tsel, f, n) /\ Alone(tsel, f, n)
                       /\ Middle(index, f, f + n - 1)

\* No adjustment before index_min works.
MinIsFirst ==
  /\ -max_adj <= index_min
  /\ index_min > -max_adj => ~ Works(memory, tsel, index, index_min - 1)

\* The run of adjustments is index_min .. index_max - 1, and no more.
AdjRun ==
  /\ MinIsFirst
  /\ index_min < index_max /\ index_max <= max_adj
  /\ WorksFrom(index_min, index_max)
  /\ index_max < max_adj => ~ Works(memory, tsel, index, index_max)

\* The windows recorded have no working neighbours, nor has the run at hand once the
\* loop has left it; what is chosen is in the middle.
MarginInv ==
  /\ \A k \in 1 .. Len(found) : Alone(found[k].tsel, found[k].first, found[k].num)
  /\ ddr_pc = "next" /\ num > 0 => Alone(i, first, num)
  /\ ddr_pc \in {"adjust", "settle", "done"} => ChosenInMiddle
  /\ ddr_pc = "adjust" => memory.search = "windows" /\ (num > 0 => MinIsFirst)
  /\ ddr_pc = "settle" => memory.search = "windows" /\ AdjRun
  /\ ddr_pc = "done" /\ memory.search = "windows" =>
       AdjRun /\ Middle(adj, index_min, index_max - 1)

\* The steps of the loop over the delays.
LEMMA SearchMargin ==
  ASSUME IInv, MarginInv, DelayWorks \/ DelayFails \/ RunEnds \/ NextTsel \/ GiveUp
  PROVE  MarginInv'
<1> USE DdrAssumptions DEF Tsels, Delays
<1>1. /\ j \in Nat /\ first \in Nat /\ num \in Nat /\ MAX_DELAY_VALUES \in Nat \ {0}
      /\ j < MAX_DELAY_VALUES
  BY DEF IInv, Types
<1>2. /\ memory' = memory /\ tsel' = tsel /\ index' = index
      /\ ddr_pc \in {"search", "next"} /\ ddr_pc' \in {"search", "next", "hung"}
  BY DEF DelayWorks, DelayFails, RunEnds, NextTsel, GiveUp, NextDelay, choiceVars, searchVars
<1>3. ASSUME NEW t, NEW f, NEW n PROVE Alone(t, f, n)' <=> Alone(t', f', n')
  BY <1>2 DEF Alone
<1>4. ASSUME found' = found, ddr_pc' = "next" /\ num' > 0 => Alone(i', first', num')
      PROVE  MarginInv'
  BY <1>2, <1>4 DEF MarginInv, Alone
<1>5. CASE DelayWorks
  <2>1. ddr_pc' = "next" => /\ first' + num' = MAX_DELAY_VALUES /\ i' = i
                            /\ first' > 0 => ~ Works(memory, i, first' - 1, StartAdj)
    <3>1. SUFFICES ASSUME j = MAX_DELAY_VALUES - 1
          PROVE  /\ first' + num' = MAX_DELAY_VALUES /\ i' = i
                 /\ first' > 0 => ~ Works(memory, i, first' - 1, StartAdj)
      BY <1>1, <1>5 DEF DelayWorks, NextDelay
    <3>2. Scanned(j) /\ (num > 0 => first + num = j)
      BY <1>5 DEF IInv, SearchInv, DelayWorks
    <3>3. CASE num = 0
      BY <1>1, <1>5, <3>1, <3>2, <3>3 DEF DelayWorks, Scanned, NoneAt
    <3>4. CASE num > 0
      BY <1>1, <1>5, <3>1, <3>2, <3>4 DEF DelayWorks, Scanned, NoneAt
    <3> QED
      BY <1>1, <3>3, <3>4
  <2>2. found' = found /\ first' \in Nat /\ num' \in Nat
    BY <1>1, <1>5 DEF DelayWorks
  <2>3. ddr_pc' = "next" /\ num' > 0 => Alone(i', first', num')
    <3>1. SUFFICES ASSUME ddr_pc' = "next" PROVE Alone(i', first', num')
      OBVIOUS
    <3>2. /\ ~ (first' + num' < MAX_DELAY_VALUES)
          /\ first' > 0 => ~ Works(memory, i', first' - 1, StartAdj)
      BY <1>1, <2>1, <3>1
    <3> QED
      BY <3>2 DEF Alone
  <2> QED
    BY <1>4, <2>2, <2>3
<1>6. CASE DelayFails
  BY <1>1, <1>4, <1>6 DEF DelayFails, NextDelay
<1>7. CASE RunEnds
  <2>1. /\ Scanned(j) /\ num > 0 /\ first + num = j /\ ~ Works(memory, i, j, StartAdj)
        /\ i' = i /\ first' = first /\ num' = num /\ ddr_pc' = "next"
    BY <1>1, <1>7 DEF IInv, SearchInv, RunEnds
  <2>2. Alone(i, first, num)
    BY <1>1, <2>1 DEF Scanned, NoneAt, Alone
  <2>3. CASE found' = found
    BY <1>4, <2>1, <2>2, <2>3
  <2>4. CASE found' = Append(found, [tsel |-> i, first |-> first, num |-> num])
    <3>1. found \in Seq([tsel : Tsels, first : Delays, num : 1 .. MAX_DELAY_VALUES])
      BY DEF IInv, Types
    <3> DEFINE w == [tsel |-> i, first |-> first, num |-> num]
    <3>2. /\ Len(found) \in Nat /\ Len(found') = Len(found) + 1
          /\ found'[Len(found) + 1] = w
          /\ \A k \in 1 .. Len(found) : found'[k] = found[k]
      BY <2>4, <3>1
    <3>3. ASSUME NEW k \in 1 .. Len(found')
          PROVE  Alone(found[k].tsel, found[k].first, found[k].num)'
      <4>1. CASE k = Len(found) + 1
        BY <1>2, <2>2, <3>2, <4>1 DEF Alone
      <4>2. CASE k \in 1 .. Len(found)
        BY <1>2, <3>2, <4>2 DEF MarginInv, Alone
      <4> QED
        BY <3>2, <4>1, <4>2
    <3>4. Alone(i, first, num)'
      BY <1>2, <2>1, <2>2 DEF Alone
    <3> QED
      BY <1>2, <2>1, <3>3, <3>4 DEF MarginInv
  <2> QED
    BY <1>7, <2>3, <2>4 DEF RunEnds
<1>8. CASE NextTsel \/ GiveUp
  BY <1>4, <1>8 DEF NextTsel, GiveUp, searchVars
<1> QED
  BY <1>5, <1>6, <1>7, <1>8

\* The middle of a window, or the mean of the first delays that work.
LEMMA ChooseMargin ==
  ASSUME IInv, MarginInv, ChooseWindow \/ ChooseFirst
  PROVE  MarginInv'
<1> USE DdrAssumptions DEF Tsels, Delays
<1>1. memory' = memory /\ found' = found /\ i' = i /\ first' = first
  BY DEF ChooseWindow, ChooseFirst, searchVars
<1>2. \A k \in 1 .. Len(found') : Alone(found[k].tsel, found[k].first, found[k].num)'
  BY <1>1 DEF MarginInv, Alone
<1>3. CASE ChooseWindow
  <2> DEFINE k == (Len(found) - 1) \div 2 + 1
             w == found[k]
             W == [tsel : Tsels, first : Delays, num : 1 .. MAX_DELAY_VALUES]
  <2>1. found \in Seq(W) /\ found # <<>> /\ Len(found) \in Nat /\ Len(found) > 0
    <3>1. found \in Seq(W) /\ found # <<>>
      BY <1>3 DEF IInv, Types, ChooseWindow
    <3> QED
      BY <3>1, EmptySeq
  <2>2. k \in 1 .. Len(found) /\ w \in W
    <3>1. k \in 1 .. Len(found)
      BY <2>1, MiddleOf
    <3> HIDE DEF k, W
    <3> QED
      BY <2>1, <3>1, ElementOfSeq
  <2>3. /\ RunAt(w.tsel, w.first, w.num) /\ Alone(w.tsel, w.first, w.num)
        /\ w.first + w.num <= MAX_DELAY_VALUES
    BY <2>2 DEF IInv, FoundInv, MarginInv
  <2>4. /\ tsel' = w.tsel /\ index' = (w.first + (w.first + w.num - 1)) \div 2
        /\ ddr_pc' = "adjust" /\ num' = 0 /\ memory.search = "windows"
    BY <1>3 DEF ChooseWindow
  <2>5. Middle(index', w.first, w.first + w.num - 1)
    <3> DEFINE f == w.first
               n == w.num
    <3>1. f \in Nat /\ n \in Nat /\ n >= 1
      BY <2>2
    <3> HIDE DEF f, n
    <3>2. Middle((f + (f + n - 1)) \div 2, f, f + n - 1)
      BY <3>1 DEF Middle
    <3> QED
      BY <2>4, <3>2 DEF f, n
  <2>6. ChosenInMiddle'
    <3>1. w.first \in Nat /\ w.num \in Nat
      BY <2>2
    <3>2. RunAt(tsel, w.first, w.num)' /\ Alone(tsel, w.first, w.num)'
          <=> /\ RunAt(w.tsel, w.first', w.num') /\ Alone(w.tsel, w.first', w.num')
      BY <1>1, <2>4 DEF RunAt, Alone
    <3> QED
      BY <1>1, <2>3, <2>4, <2>5, <3>1 DEF ChosenInMiddle, RunAt, Alone
  <2> QED
    BY <1>1, <1>2, <2>4, <2>6 DEF MarginInv
<1>4. CASE ChooseFirst
  <2>1. /\ tsel' = i /\ index' = IF num = 0 THEN 0 ELSE MeanOf(first, num)
        /\ ddr_pc' = "done" /\ memory.search = "first" /\ ddr_pc = "next"
    BY <1>4 DEF ChooseFirst
  <2>2. Scanned(MAX_DELAY_VALUES) /\ first \in Nat /\ num \in Nat /\ MAX_DELAY_VALUES \in Nat \ {0}
    BY <2>1 DEF IInv, Types, SearchInv
  <2>3. ChosenInMiddle'
    <3>1. CASE num = 0
      <4>1. ~ Works(memory, i, 0, StartAdj)
        BY <2>2, <3>1 DEF Scanned, NoneAt
      <4> QED
        BY <1>1, <2>1, <3>1, <4>1 DEF ChosenInMiddle
    <3>2. CASE num > 0
      <4>1. /\ RunAt(i, first, num) /\ Alone(i, first, num) /\ first + num <= MAX_DELAY_VALUES
        BY <2>1, <2>2, <3>2 DEF MarginInv, Scanned
      <4>2. Middle(index', first, first + num - 1)
        BY <2>1, <2>2, <3>2, MeanMiddle
      <4> QED
        BY <1>1, <2>1, <2>2, <4>1, <4>2 DEF ChosenInMiddle, RunAt, Alone
    <3> QED
      BY <2>2, <3>1, <3>2
  <2> QED
    BY <1>1, <1>2, <2>1, <2>3 DEF MarginInv
<1> QED
  BY <1>3, <1>4

\* The loop over the adjustments, and its middle.
LEMMA AdjustMargin ==
  ASSUME IInv, MarginInv, AdjWorks \/ AdjFails \/ AdjRunEnds \/ AdjEnds \/ Settle
  PROVE  MarginInv'
<1> USE DdrAssumptions DEF StartAdj
<1>1. /\ memory' = memory /\ found' = found /\ tsel' = tsel /\ index' = index
      /\ max_adj' = max_adj /\ ddr_pc \in {"adjust", "settle"}
      /\ ddr_pc' \in {"adjust", "settle", "done"}
  BY DEF AdjWorks, AdjFails, AdjRunEnds, AdjEnds, Settle, searchVars, choiceVars, adjVars
<1>2. \A k \in 1 .. Len(found') : Alone(found[k].tsel, found[k].first, found[k].num)'
  BY <1>1 DEF MarginInv, Alone
<1>3. ChosenInMiddle' /\ memory.search = "windows"
  BY <1>1 DEF MarginInv, ChosenInMiddle, RunAt, Alone
<1>4. /\ max_adj \in Int /\ adj \in Int /\ index_min \in Int /\ index_max \in Int /\ num \in Nat
  BY DEF IInv, Types
<1>5. CASE AdjWorks
  <2>1. /\ num > 0 => MinIsFirst
        /\ num = 0 => \A x \in Int : -max_adj <= x /\ x < adj => ~ Works(memory, tsel, index, x)
        /\ -max_adj <= adj
    BY <1>5 DEF MarginInv, IInv, AdjustInv, AdjWorks
  <2>2. /\ index_min' = IF num = 0 THEN adj ELSE index_min
        /\ ddr_pc' = "adjust"
    BY <1>1, <1>5 DEF AdjWorks
  <2>3. MinIsFirst'
    BY <1>1, <1>4, <2>1, <2>2 DEF MinIsFirst
  <2> QED
    BY <1>1, <1>2, <1>3, <2>2, <2>3 DEF MarginInv
<1>6. CASE AdjFails
  BY <1>1, <1>2, <1>3, <1>6 DEF MarginInv, AdjFails, searchVars
<1>7. CASE AdjRunEnds
  <2>1. /\ MinIsFirst /\ index_min < adj /\ adj < max_adj /\ WorksFrom(index_min, adj)
        /\ ~ Works(memory, tsel, index, adj)
    BY <1>7 DEF MarginInv, IInv, AdjustInv, AdjRunEnds
  <2>2. index_max' = adj /\ index_min' = index_min /\ ddr_pc' = "settle"
    BY <1>7 DEF AdjRunEnds
  <2>3. AdjRun'
    BY <1>1, <1>4, <2>1, <2>2 DEF AdjRun, MinIsFirst, WorksFrom
  <2> QED
    BY <1>1, <1>2, <1>3, <2>2, <2>3 DEF MarginInv
<1>8. CASE AdjEnds
  <2>1. num > 0 /\ adj = max_adj
    BY <1>4, <1>8 DEF IInv, AdjustInv, AdjEnds
  <2>2. MinIsFirst /\ index_min < adj /\ WorksFrom(index_min, adj) /\ index_max = max_adj
    BY <1>8, <2>1 DEF MarginInv, IInv, AdjustInv, AdjEnds
  <2>3. index_max' = index_max /\ index_min' = index_min /\ ddr_pc' = "settle"
    BY <1>8 DEF AdjEnds, adjVars
  <2>4. AdjRun'
    BY <1>1, <1>4, <2>1, <2>2, <2>3 DEF AdjRun, MinIsFirst, WorksFrom
  <2> QED
    BY <1>1, <1>2, <1>3, <2>3, <2>4 DEF MarginInv
<1>9. CASE Settle
  <2>1. AdjRun /\ index_min < index_max
    BY <1>9 DEF MarginInv, Settle, AdjRun
  <2>2. /\ index_max' = index_max /\ index_min' = index_min /\ ddr_pc' = "done"
        /\ adj' = Half(index_min + index_max - 1)
    BY <1>9 DEF Settle
  <2>3. AdjRun'
    BY <1>1, <2>1, <2>2 DEF AdjRun, MinIsFirst, WorksFrom
  <2>4. Middle(adj', index_min, index_max - 1)
    <3>1. /\ index_max - 1 \in Int /\ index_min <= index_max - 1
          /\ index_min + index_max - 1 = index_min + (index_max - 1)
      BY <1>4, <2>1
    <3> QED
      BY <1>4, <2>2, <3>1, HalfMiddle
  <2> QED
    BY <1>1, <1>2, <1>3, <2>2, <2>3, <2>4 DEF MarginInv
<1> QED
  BY <1>5, <1>6, <1>7, <1>8, <1>9

\* The margins are kept by every step of the search.
LEMMA StepMargin == IInv /\ MarginInv /\ [DdrNext]_ddrVars => MarginInv'
<1> SUFFICES ASSUME IInv, MarginInv, [DdrNext]_ddrVars PROVE MarginInv'
  OBVIOUS
<1>1. CASE UNCHANGED ddrVars
  BY <1>1 DEF MarginInv, ChosenInMiddle, AdjRun, MinIsFirst, WorksFrom, RunAt, Alone,
              ddrVars, searchVars, choiceVars, adjVars
<1> QED
  BY <1>1, SearchMargin, ChooseMargin, AdjustMargin DEF DdrNext

\* What is left in the controller is in the middle of what works.
LEMMA MarginBalanced == IInv /\ MarginInv => Balanced
<1> SUFFICES ASSUME IInv, MarginInv, ddr_pc = "done", Works(memory, tsel, index, StartAdj)
             PROVE  /\ Centred(index, {d \in Delays : Works(memory, tsel, d, StartAdj)})
                    /\ memory.search = "windows" =>
                         Centred(adj, {a \in -max_adj .. max_adj - 1 :
                                         Works(memory, tsel, index, a)})
  BY DEF Balanced
<1>1. Centred(index, {d \in Delays : Works(memory, tsel, d, StartAdj)})
  <2> DEFINE W == {d \in Delays : Works(memory, tsel, d, StartAdj)}
  <2>1. PICK f \in Nat, n \in Nat : /\ f + n <= MAX_DELAY_VALUES
                       /\ RunAt(tsel, f, n) /\ Alone(tsel, f, n)
                       /\ Middle(index, f, f + n - 1)
    BY DEF MarginInv, ChosenInMiddle
  <2>2. index \in Int /\ MAX_DELAY_VALUES \in Nat \ {0}
    BY DdrAssumptions DEF IInv, Types, Delays
  <2>3. f .. f + n - 1 \subseteq W
    BY <2>1, <2>2 DEF RunAt, Delays
  <2>4. f - 1 \notin W
    BY <2>1 DEF Alone, Delays
  <2>5. f + n - 1 + 1 \notin W
    <3>1. f + n - 1 + 1 = f + n
      BY <2>1
    <3>2. f + n \notin W
      BY <2>1, <2>2 DEF Alone, Delays
    <3> QED
      BY <3>1, <3>2
  <2>6. f \in Int /\ f + n - 1 \in Int
    BY <2>1
  <2> HIDE DEF W
  <2>7. Centred(index, W)
    BY <2>1, <2>2, <2>3, <2>4, <2>5, <2>6, MiddleIsCentred
  <2> QED
    BY <2>7 DEF W
<1>2. ASSUME memory.search = "windows"
      PROVE  Centred(adj, {a \in -max_adj .. max_adj - 1 : Works(memory, tsel, index, a)})
  <2> DEFINE W == {a \in -max_adj .. max_adj - 1 : Works(memory, tsel, index, a)}
  <2>1. AdjRun /\ Middle(adj, index_min, index_max - 1)
    BY <1>2 DEF MarginInv
  <2>2. adj \in Int /\ index_min \in Int /\ index_max \in Int /\ max_adj \in Int
    BY DdrAssumptions DEF IInv, Types
  <2>3. index_min .. index_max - 1 \subseteq W
    BY <2>1, <2>2 DEF AdjRun, MinIsFirst, WorksFrom
  <2>4. index_min - 1 \notin W
    BY <2>1, <2>2 DEF AdjRun, MinIsFirst
  <2>5. index_max - 1 + 1 \notin W /\ index_max - 1 \in Int
    <3>1. index_max - 1 + 1 = index_max
      BY <2>2
    <3>2. index_max \notin W
      BY <2>1, <2>2 DEF AdjRun
    <3> QED
      BY <2>2, <3>1, <3>2
  <2> HIDE DEF W
  <2>6. Centred(adj, W)
    BY <2>1, <2>2, <2>3, <2>4, <2>5, MiddleIsCentred
  <2> QED
    BY <2>6 DEF W
<1> QED
  BY <1>1, <1>2

\* Delay and adjustment have the same margin on both sides, for every memory.
THEOREM BalancedHolds == MainSpec => []Balanced
<1>1. MainInit => MarginInv
  BY DEF MainInit, DdrInit, MarginInv
<1>2. IInv /\ MarginInv /\ [c_main]_mainVars => MarginInv'
  BY MainStep, StepMargin
<1>3. IInv /\ MarginInv => Balanced
  BY MarginBalanced
<1> QED
  BY Invariance, <1>1, <1>2, <1>3, PTL DEF MainSpec

-----------------------------------------------------------------------------
(***************************************************************************)
(* The clocks.  Whatever is patched in, the PLL is set for 288 MHz.        *)
(***************************************************************************)

\* The setting for the macros of board_4770.h.
TheSetting == [m |-> 47, od |-> 1, bs |-> 1]

\* The output divider of the setting.
LEMMA Halves == 2^1 = 2
OBVIOUS

\* It is the only one that pll_calc_m_n_od returns.
LEMMA OnlySetting == pll_calc_m_n_od(BOARD_CPU_SPEED, BOARD_EXTAL) = {TheSetting}
<1>1. PLL_OD(288) = {1}
  BY DEF PLL_OD, PLL_OUT_MAX
<1>2. NF(288, 12, 1) = 48
  BY Halves DEF NF
<1>3. Vco(288, 12, 1) = 576
  BY <1>2, Halves DEF Vco, FOUT
<1>4. PllInRange(288, 12, 1)
  BY <1>2, <1>3 DEF PllInRange, PLL_OUT_MAX
<1>5. PLL_BS(288, 12, 1) = 1
  BY <1>3 DEF PLL_BS
<1>6. {d \in PLL_OD(288) : PllInRange(288, 12, d)} = {1}
  BY <1>1, <1>4, Zenon
<1>7. [m |-> NF(288, 12, 1) - 1, od |-> 1, bs |-> PLL_BS(288, 12, 1)] = TheSetting
  BY <1>2, <1>5 DEF TheSetting
<1> QED
  BY <1>6, <1>7 DEF pll_calc_m_n_od, BOARD_CPU_SPEED, BOARD_EXTAL

\* The clock that sdram_init_4770 reads back, and the ones the board has.
MemClk == 72000

LEMMA Clocks ==
  ASSUME plcr1 = TheSetting, Crystal \in Nat
  PROVE  /\ mem_clk(plcr1) = MemClk
         /\ RealClk = 6 * Crystal
         /\ RealCpuClk = 24 * Crystal
<1>1. mem_clk(plcr1) = MemClk
  BY Halves DEF MemClk, mem_clk, JZ_EXTAL, TheSetting
<1>2. RealClk = (Crystal * 48) \div 8
  BY Halves DEF RealClk, TheSetting
<1>3. RealCpuClk = (Crystal * 48) \div 2
  BY Halves DEF RealCpuClk, TheSetting
<1> HIDE DEF Crystal
<1> QED
  BY <1>1, <1>2, <1>3

\* The fields for the three parts at 72 MHz.
DDR2Fields ==
  [tRAS |-> 2, tRTP |-> 1, tRP |-> 1, tRCD |-> 1,
   tRC |-> 3, tRRD |-> 1, tWR |-> 1, tRFC |-> 5]
MDDRFields ==
  [tRAS |-> 2, tRTP |-> 0, tRP |-> 1, tRCD |-> 1,
   tRC |-> 2, tRRD |-> 1, tWR |-> 1, tRFC |-> 4]
DDR1Fields ==
  [tRAS |-> 2, tRTP |-> 0, tRP |-> 1, tRCD |-> 1,
   tRC |-> 2, tRRD |-> 1, tWR |-> 1, tRFC |-> 3]

\* They are what sdram_init_4770 computes.
LEMMA FieldsAre ==
  /\ Timing(DDR2, MemClk, TRUE) = DDR2Fields
  /\ Timing(MDDR, MemClk, TRUE) = MDDRFields
  /\ Timing(DDR1, MemClk, FALSE) = DDR1Fields
<1>1. 1000000000 \div MemClk = 13888
  BY DEF MemClk
<1>2. 1000000 \div MemClk = 13
  BY DEF MemClk
<1> DEFINE cyc(x) == Cycles(x, MemClk, TRUE)
           ns(x) == Cycles(x, MemClk, FALSE)
<1>3. Timing(DDR2, MemClk, TRUE) = DDR2Fields
  <2>1. /\ DDR2.tRAS = 60 /\ DDR2.tRTP = 20 /\ DDR2.tRP = 20 /\ DDR2.tRCD = 20
        /\ DDR2.tRC = 80 /\ DDR2.tRRD = 18 /\ DDR2.tWR = 25 /\ DDR2.tRFC = 128
    BY DEF DDR2
  <2>2. /\ Clamp(5, 1, 31) = 5 /\ Clamp(2, 1, 4) = 2 /\ Clamp(2, 1, 8) = 2
        /\ Clamp(6, 3, 31) = 6 /\ Clamp(2, 2, 4) = 2 /\ Clamp(2, 2, 6) = 2
        /\ Clamp(10, 0, 31) = 10
    BY DEF Clamp
  <2>3. /\ Clamp(cyc(DDR2.tRAS), 1, 31) \div 2 = 2
        /\ Clamp(cyc(DDR2.tRTP), 1, 4) - 1 = 1
        /\ Clamp(cyc(DDR2.tRP), 1, 8) - 1 = 1
        /\ Clamp(cyc(DDR2.tRCD), 1, 8) - 1 = 1
        /\ Clamp(cyc(DDR2.tRC), 3, 31) \div 2 = 3
        /\ Clamp(cyc(DDR2.tRRD), 2, 4) - 1 = 1
        /\ Clamp(cyc(DDR2.tWR), 2, 6) - 1 = 1
        /\ Clamp(cyc(DDR2.tRFC), 0, 31) \div 2 = 5
    BY <1>1, <2>1, <2>2 DEF Cycles
  <2> QED
    BY <2>3 DEF Timing, Cycles, DDR2Fields
<1>4. Timing(MDDR, MemClk, TRUE) = MDDRFields
  <2>1. /\ MDDR.tRAS = 45 /\ MDDR.tRTP = 12 /\ MDDR.tRP = 18 /\ MDDR.tRCD = 20
        /\ MDDR.tRC = 60 /\ MDDR.tRRD = 12 /\ MDDR.tWR = 15 /\ MDDR.tRFC = 110
    BY DEF MDDR
  <2>2. /\ Clamp(4, 1, 31) = 4 /\ Clamp(1, 1, 4) = 1 /\ Clamp(2, 1, 8) = 2
        /\ Clamp(5, 3, 31) = 5 /\ Clamp(1, 2, 4) = 2 /\ Clamp(2, 2, 6) = 2
        /\ Clamp(8, 0, 31) = 8
    BY DEF Clamp
  <2>3. /\ Clamp(cyc(MDDR.tRAS), 1, 31) \div 2 = 2
        /\ Clamp(cyc(MDDR.tRTP), 1, 4) - 1 = 0
        /\ Clamp(cyc(MDDR.tRP), 1, 8) - 1 = 1
        /\ Clamp(cyc(MDDR.tRCD), 1, 8) - 1 = 1
        /\ Clamp(cyc(MDDR.tRC), 3, 31) \div 2 = 2
        /\ Clamp(cyc(MDDR.tRRD), 2, 4) - 1 = 1
        /\ Clamp(cyc(MDDR.tWR), 2, 6) - 1 = 1
        /\ Clamp(cyc(MDDR.tRFC), 0, 31) \div 2 = 4
    BY <1>1, <2>1, <2>2 DEF Cycles
  <2> QED
    BY <2>3 DEF Timing, Cycles, MDDRFields
<1>5. Timing(DDR1, MemClk, FALSE) = DDR1Fields
  <2>1. /\ DDR1.tRAS = 40 /\ DDR1.tRTP = 12 /\ DDR1.tRP = 15 /\ DDR1.tRCD = 15
        /\ DDR1.tRC = 55 /\ DDR1.tRRD = 10 /\ DDR1.tWR = 15 /\ DDR1.tRFC = 70
    BY DEF DDR1
  <2>2. /\ Clamp(4, 1, 31) = 4 /\ Clamp(1, 1, 4) = 1 /\ Clamp(2, 1, 8) = 2
        /\ Clamp(5, 3, 31) = 5 /\ Clamp(1, 2, 4) = 2 /\ Clamp(2, 2, 6) = 2
        /\ Clamp(6, 0, 31) = 6
    BY DEF Clamp
  <2>3. /\ Clamp(ns(DDR1.tRAS), 1, 31) \div 2 = 2
        /\ Clamp(ns(DDR1.tRTP), 1, 4) - 1 = 0
        /\ Clamp(ns(DDR1.tRP), 1, 8) - 1 = 1
        /\ Clamp(ns(DDR1.tRCD), 1, 8) - 1 = 1
        /\ Clamp(ns(DDR1.tRC), 3, 31) \div 2 = 2
        /\ Clamp(ns(DDR1.tRRD), 2, 4) - 1 = 1
        /\ Clamp(ns(DDR1.tWR), 2, 6) - 1 = 1
        /\ Clamp(ns(DDR1.tRFC), 0, 31) \div 2 = 3
    BY <1>2, <2>1, <2>2 DEF Cycles
  <2> QED
    BY <2>3 DEF Timing, Cycles, DDR1Fields
<1> QED
  BY <1>3, <1>4, <1>5, Zenon

\* The refresh count at 72 MHz.
LEMMA RefConIs == RefCon(MemClk) = 16
BY DEF MemClk, RefCon, Clamp, DDR_tREFI, DDR_CLK_DIV

\* What the variables and registers hold.
SettingInv ==
  pc = "sdram" =>
    /\ plcr1 = TheSetting
    /\ CFG_CPU_SPEED = IF fw_args.ext_clk = 19 THEN 192 ELSE fw_args.cpu_speed

\* And once load_args has run.
LoadedInv ==
  pc = "pll" =>
    CFG_CPU_SPEED = IF fw_args.ext_clk = 19 THEN 192 ELSE fw_args.cpu_speed

\* The controller has the timings of the part at the clock read back.
ProgrammedInv ==
  /\ memory \in Memories
  /\ ddrc.set =>
       /\ pc = "sdram"
       /\ ddrc.timing = Timing(PartOf(memory), MemClk, memory.search = "windows")
       /\ ddrc.con = 16

\* The inductive invariant of the clocks and timings.
TimingInv == TypeOK /\ LoadedInv /\ SettingInv /\ ProgrammedInv

\* It holds at the start of stage 1.
LEMMA InitTiming == MainInit => TimingInv
<1> SUFFICES ASSUME MainInit PROVE TimingInv
  OBVIOUS
<1>1. TypeOK
  BY Stage1Assumptions DEF MainInit, Init, TypeOK
<1>2. LoadedInv /\ SettingInv
  BY DEF MainInit, Init, LoadedInv, SettingInv
<1>3. ProgrammedInv
  BY DEF MainInit, DdrInit, NotSet, ProgrammedInv
<1> QED
  BY <1>1, <1>2, <1>3 DEF TimingInv

\* No step of the search for the delays changes the part on the board.
LEMMA SameMemory == [DdrNext]_ddrVars => memory' = memory
BY DEF DdrNext, ddrVars, DelayWorks, DelayFails, RunEnds, NextTsel, GiveUp,
       ChooseWindow, ChooseFirst, AdjWorks, AdjFails, AdjRunEnds, AdjEnds, Settle

\* Every step of stage 1 keeps it.
LEMMA StepTiming == TimingInv /\ [c_main]_mainVars => TimingInv'
<1> SUFFICES ASSUME TimingInv, [c_main]_mainVars PROVE TimingInv'
  OBVIOUS
<1> USE DEF TimingInv
<1>1. CASE load_args /\ UNCHANGED <<ddrVars, ddrc>>
  <2>1. fw_args \in [ext_clk : 12 .. 27, cpu_speed : 0 .. 21]
    BY Stage1Assumptions DEF TypeOK
  <2>2. TypeOK'
    BY <1>1, <2>1 DEF load_args, TypeOK
  <2>3. LoadedInv' /\ SettingInv'
    BY <1>1 DEF load_args, LoadedInv, SettingInv
  <2>4. ProgrammedInv'
    BY <1>1 DEF load_args, ddrVars, ProgrammedInv
  <2> QED
    BY <2>2, <2>3, <2>4
<1>2. CASE pll_init_4770 /\ UNCHANGED <<ddrVars, ddrc>>
  <2>1. plcr1' = TheSetting
    BY <1>2, OnlySetting DEF pll_init_4770
  <2>2. TypeOK'
    BY <1>2, <2>1 DEF pll_init_4770, TypeOK, TheSetting
  <2>3. LoadedInv' /\ SettingInv'
    BY <1>2, <2>1 DEF pll_init_4770, LoadedInv, SettingInv
  <2>4. ProgrammedInv'
    BY <1>2 DEF pll_init_4770, ddrVars, ProgrammedInv
  <2> QED
    BY <2>2, <2>3, <2>4
<1>3. CASE SetTimings
  <2>1. TypeOK' /\ LoadedInv' /\ SettingInv'
    BY <1>3 DEF SetTimings, vars, TypeOK, LoadedInv, SettingInv
  <2>2. pc' = "sdram" /\ memory' = memory
    BY <1>3 DEF SetTimings, vars, ddrVars
  <2>3. mem_clk(plcr1) = MemClk
    <3>1. plcr1 = TheSetting
      BY <1>3 DEF SetTimings, SettingInv
    <3> QED
      BY <3>1, Halves DEF MemClk, mem_clk, JZ_EXTAL, TheSetting
  <2>4. /\ ddrc'.timing = Timing(PartOf(memory), MemClk, memory.search = "windows")
        /\ ddrc'.con = 16
    BY <1>3, <2>3, RefConIs DEF SetTimings
  <2>5. ProgrammedInv'
    BY <2>2, <2>4 DEF ProgrammedInv
  <2> QED
    BY <2>1, <2>5
<1>4. CASE UNCHANGED <<vars, ddrc>> /\ [DdrNext]_ddrVars
  <2>1. memory' = memory
    BY <1>4, SameMemory
  <2> QED
    BY <1>4, <2>1 DEF vars, TypeOK, LoadedInv, SettingInv, ProgrammedInv
<1> QED
  BY <1>1, <1>2, <1>3, <1>4 DEF c_main, Next, mainVars

\* The invariant holds throughout stage 1.
LEMMA TimingInvariance == MainSpec => []TimingInv
BY InitTiming, StepTiming, PTL DEF MainSpec

\* The part's fields, and which of the three it is.
LEMMA Programmed ==
  ASSUME TimingInv, ddrc.set
  PROVE  \/ PartOf(memory) = DDR2 /\ ddrc.timing = DDR2Fields /\ memory.search = "windows"
         \/ PartOf(memory) = MDDR /\ ddrc.timing = MDDRFields /\ memory.search = "windows"
         \/ PartOf(memory) = DDR1 /\ ddrc.timing = DDR1Fields /\ memory.search = "first"
<1>1. memory \in Memories /\ memory.search \in {"windows", "first"}
  BY DdrAssumptions DEF TimingInv, ProgrammedInv
<1>2. ddrc.timing = Timing(PartOf(memory), MemClk, memory.search = "windows")
  BY DEF TimingInv, ProgrammedInv
<1>3. CASE memory.search = "first"
  <2>1. (memory.search = "windows") = FALSE
    BY <1>3
  <2>2. PartOf(memory) = DDR1
    BY <1>1, <1>3, PartAssumption
  <2> QED
    BY <1>2, <1>3, <2>1, <2>2, FieldsAre, Zenon
<1>4. CASE memory.search = "windows"
  <2>1. (memory.search = "windows") = TRUE
    BY <1>4
  <2>2. PartOf(memory) = DDR2 \/ PartOf(memory) = MDDR
    BY <1>1, <1>4, PartAssumption
  <2> QED
    BY <1>2, <1>4, <2>1, <2>2, FieldsAre, Zenon
<1> QED
  BY <1>1, <1>3, <1>4

\* The crystal is one that fw_cfg_tool accepts.
LEMMA CrystalIs ==
  ASSUME TypeOK
  PROVE  /\ fw_args.ext_clk \in 12 .. 27 /\ fw_args.cpu_speed \in 0 .. 21
         /\ Crystal \in 12000 .. 27000
<1>1. fw_args \in [ext_clk : 12 .. 27, cpu_speed : 0 .. 21]
  BY Stage1Assumptions DEF TypeOK
<1>2. fw_args.ext_clk \in 12 .. 27 /\ fw_args.cpu_speed \in 0 .. 21
  BY <1>1
<1> DEFINE x == fw_args.ext_clk
<1>3. Crystal = IF x = 19 THEN 19200 ELSE x * 1000
  BY DEF Crystal
<1>4. x \in 12 .. 27
  BY <1>2
<1> HIDE DEF x
<1>5. Crystal \in 12000 .. 27000
  BY <1>3, <1>4
<1> QED
  BY <1>2, <1>5

\* Type correctness of stage 1: the PLL setting and the times fit their registers,
\* the windows never overrun mdelay_pass_array, and the adjustment fits its field.
THEOREM MainTypeOKHolds == MainSpec => []MainTypeOK
<1>1. TimingInv /\ IInv => MainTypeOK
  <2> SUFFICES ASSUME TimingInv, IInv PROVE MainTypeOK
    OBVIOUS
  <2>1. TypeOK /\ DdrTypeOK
    BY DdrTypes DEF TimingInv
  <2>2. ASSUME ddrc.set PROVE FieldsFit
    <3>1. ddrc.timing \in {DDR2Fields, MDDRFields, DDR1Fields}
      BY <2>2, Programmed
    <3>2. ddrc.con = 16
      BY <2>2 DEF TimingInv, ProgrammedInv
    <3> QED
      BY <3>1, <3>2 DEF FieldsFit, DDR2Fields, MDDRFields, DDR1Fields
  <2> QED
    BY <2>1, <2>2 DEF MainTypeOK
<1> QED
  BY Invariance, TimingInvariance, <1>1, PTL

\* For every crystal that can be patched into the program, whatever the CPUSPEED,
\* and every memory of the parts known: the memory is refreshed in time.
THEOREM RefreshInTimeHolds == MainSpec => []RefreshInTime
<1>1. TimingInv => RefreshInTime
  <2> SUFFICES ASSUME TimingInv, ddrc.set
               PROVE  (ddrc.con + 1) * 16 * 2^DDR_CLK_DIV * 1000
                        <= (DDR_tREFI * RealClk) \div 1000
    BY DEF RefreshInTime
  <2>1. plcr1 = TheSetting /\ ddrc.con = 16
    BY DEF TimingInv, SettingInv, ProgrammedInv
  <2>2. Crystal \in 12000 .. 27000
    BY CrystalIs DEF TimingInv
  <2>3. RealClk = 6 * Crystal
    BY <2>1, <2>2, Clocks
  <2>4. 2^DDR_CLK_DIV = 2 /\ DDR_tREFI = 7800
    BY Halves DEF DDR_CLK_DIV, DDR_tREFI
  <2> HIDE DEF Crystal
  <2>5. (7800 * (6 * Crystal)) \div 1000 >= 544000
    BY <2>2
  <2> QED
    BY <2>1, <2>3, <2>4, <2>5
<1> QED
  BY <1>1, TimingInvariance, PTL

\* So many cycles last at least t ns.  If they do at 78 MHz, so at a slower clock.
Covers(n, t, clk) == n * 1000000 >= t * clk
Fastest == 78000
Upto78MHz == 72000 .. 78000

LEMMA Slower ==
  ASSUME NEW t \in Nat, NEW n \in Nat, NEW clk \in Upto78MHz, Covers(n, t, Fastest)
  PROVE  Covers(n, t, clk)
<1>1. clk \in Nat /\ clk <= 78000
  BY DEF Upto78MHz
<1>2. t * clk <= t * 78000
  BY <1>1
<1> QED
  BY <1>1, <1>2 DEF Covers, Fastest

\* For every crystal of at most 13 MHz and every memory of the parts known: no
\* command comes sooner than the part allows.
THEOREM TimingCoversHolds == MainSpec => []TimingCovers
<1>1. TimingInv => TimingCovers
  <2> SUFFICES ASSUME TimingInv, ddrc.set, Crystal <= 13000,
                      NEW f \in DOMAIN ddrc.timing
               PROVE  Covers(FieldCycles(f, ddrc.timing[f]), PartOf(memory)[f], RealClk)
    BY DEF TimingCovers, Covers
  <2>1. Crystal \in 12000 .. 13000
    <3>1. Crystal \in 12000 .. 27000
      BY CrystalIs DEF TimingInv
    <3> QED
      BY <3>1
  <2>2. RealClk = 6 * Crystal
    BY <2>1, Clocks DEF TimingInv, SettingInv, ProgrammedInv
  <2>3. RealClk \in Upto78MHz
    BY <2>1, <2>2 DEF Upto78MHz
  <2>4. CASE PartOf(memory) = DDR2 /\ ddrc.timing = DDR2Fields
    <3>1. f \in {"tRAS", "tRTP", "tRP", "tRCD", "tRC", "tRRD", "tWR", "tRFC"}
      BY <2>4 DEF DDR2Fields
    <3>2. DDR2[f] \in Nat /\ FieldCycles(f, DDR2Fields[f]) \in Nat
      BY <3>1 DEF FieldCycles, DDR2Fields, DDR2
    <3> DEFINE Covered(g) == Covers(FieldCycles(g, DDR2Fields[g]), DDR2[g], Fastest)
    <3>3. /\ Covered("tRAS") /\ Covered("tRTP") /\ Covered("tRP") /\ Covered("tRCD")
          /\ Covered("tRC") /\ Covered("tRRD") /\ Covered("tWR") /\ Covered("tRFC")
      BY DEF Covers, Fastest, FieldCycles, DDR2Fields, DDR2
    <3>4. Covered(f)
      BY <3>1, <3>3
    <3>5. Covers(FieldCycles(f, DDR2Fields[f]), DDR2[f], RealClk)
      BY <2>3, <3>2, <3>4, Slower
    <3> QED
      BY <2>4, <3>5
  <2>5. CASE PartOf(memory) = MDDR /\ ddrc.timing = MDDRFields
    <3>1. f \in {"tRAS", "tRTP", "tRP", "tRCD", "tRC", "tRRD", "tWR", "tRFC"}
      BY <2>5 DEF MDDRFields
    <3>2. MDDR[f] \in Nat /\ FieldCycles(f, MDDRFields[f]) \in Nat
      BY <3>1 DEF FieldCycles, MDDRFields, MDDR
    <3> DEFINE Covered(g) == Covers(FieldCycles(g, MDDRFields[g]), MDDR[g], Fastest)
    <3>3. /\ Covered("tRAS") /\ Covered("tRTP") /\ Covered("tRP") /\ Covered("tRCD")
          /\ Covered("tRC") /\ Covered("tRRD") /\ Covered("tWR") /\ Covered("tRFC")
      BY DEF Covers, Fastest, FieldCycles, MDDRFields, MDDR
    <3>4. Covered(f)
      BY <3>1, <3>3
    <3>5. Covers(FieldCycles(f, MDDRFields[f]), MDDR[f], RealClk)
      BY <2>3, <3>2, <3>4, Slower
    <3> QED
      BY <2>5, <3>5
  <2>6. CASE PartOf(memory) = DDR1 /\ ddrc.timing = DDR1Fields
    <3>1. f \in {"tRAS", "tRTP", "tRP", "tRCD", "tRC", "tRRD", "tWR", "tRFC"}
      BY <2>6 DEF DDR1Fields
    <3>2. DDR1[f] \in Nat /\ FieldCycles(f, DDR1Fields[f]) \in Nat
      BY <3>1 DEF FieldCycles, DDR1Fields, DDR1
    <3> DEFINE Covered(g) == Covers(FieldCycles(g, DDR1Fields[g]), DDR1[g], Fastest)
    <3>3. /\ Covered("tRAS") /\ Covered("tRTP") /\ Covered("tRP") /\ Covered("tRCD")
          /\ Covered("tRC") /\ Covered("tRRD") /\ Covered("tWR") /\ Covered("tRFC")
      BY DEF Covers, Fastest, FieldCycles, DDR1Fields, DDR1
    <3>4. Covered(f)
      BY <3>1, <3>3
    <3>5. Covers(FieldCycles(f, DDR1Fields[f]), DDR1[f], RealClk)
      BY <2>3, <3>2, <3>4, Slower
    <3> QED
      BY <2>6, <3>5
  <2> QED
    BY <2>4, <2>5, <2>6, Programmed
<1> QED
  BY <1>1, TimingInvariance, PTL

\* For every memory, crystal of at most 16 MHz and CPUSPEED of at least 192: the
\* waits behind the commands to the memory are long enough, although they are
\* counted for one clock and spent at another.
THEOREM WaitsSufficeHolds == MainSpec => []WaitsSuffice
<1>1. TimingInv => WaitsSuffice
  <2> SUFFICES ASSUME TimingInv, ddrc.set,
                      memory.search = "windows" =>
                        Crystal <= 16000 /\ fw_args.cpu_speed * fw_args.ext_clk >= 192
               PROVE  WaitCycles >= (PartOf(memory).tRFC * RealCpuClk + 999999) \div 1000000
    BY DEF WaitsSuffice
  <2> DEFINE w == WaitCycles
             n == PartOf(memory).tRFC * RealCpuClk
             LongEnough == w \in Nat /\ n \in Nat /\ w * 1000000 >= n
  <2>1. /\ plcr1 = TheSetting
        /\ CFG_CPU_SPEED = IF fw_args.ext_clk = 19 THEN 192 ELSE fw_args.cpu_speed
    BY DEF TimingInv, SettingInv, ProgrammedInv
  <2>2. /\ fw_args.ext_clk \in 12 .. 27 /\ fw_args.cpu_speed \in 0 .. 21
        /\ Crystal \in 12000 .. 27000
    BY CrystalIs DEF TimingInv
  <2>3. RealCpuClk = 24 * Crystal
    BY <2>1, <2>2, Clocks
  <2>4. ASSUME memory.search = "first" PROVE LongEnough
    <3>1. PartOf(memory).tRFC = 70
      BY <2>4, Programmed DEF DDR1
    <3>2. WaitCycles = 1156
      BY <2>4 DEF WaitCycles, cpu_clk, BOARD_CPU_SPEED, PASS_CYCLES
    <3> HIDE DEF Crystal
    <3> QED
      BY <2>2, <2>3, <3>1, <3>2
  <2>5. ASSUME memory.search = "windows" PROVE LongEnough
    <3> DEFINE x == fw_args.ext_clk
               s == fw_args.cpu_speed
               t == PartOf(memory).tRFC
    <3>1. x \in {12, 13, 14, 15, 16} /\ Crystal = 1000 * x /\ s * x >= 192
      <4>1. Crystal <= 16000 /\ s * x >= 192
        BY <2>5
      <4>2. x \in 12 .. 27
        BY <2>2
      <4>3. Crystal = IF x = 19 THEN 19200 ELSE x * 1000
        BY DEF Crystal
      <4> HIDE DEF x, s
      <4> QED
        BY <4>1, <4>2, <4>3
    <3>2. WaitCycles = 4 * s + 4
      <4>1. CFG_CPU_SPEED = s
        BY <2>1, <3>1
      <4>2. cpu_clk = s
        BY <2>5, <4>1 DEF cpu_clk
      <4> HIDE DEF x, s
      <4>3. s \in 0 .. 21
        BY <2>2 DEF s
      <4> QED
        BY <4>2, <4>3 DEF WaitCycles, PASS_CYCLES
    <3>3. t \in {110, 128}
      BY <2>5, Programmed DEF DDR2, MDDR
    <3>4. s \in 0 .. 21
      BY <2>2
    <3>5. RealCpuClk = 24000 * x
      BY <2>3, <3>1
    <3> HIDE DEF x, s, t
    <3>6. t * (24000 * x) \in Nat /\ (4 * s + 4) * 1000000 >= t * (24000 * x)
      <4>1. (4 * s + 4) * 1000000 >= 128 * (24000 * x)
        BY <3>1, <3>4
      <4>2. t * (24000 * x) <= 128 * (24000 * x)
        BY <3>1, <3>3
      <4> QED
        BY <3>1, <3>3, <3>4, <4>1, <4>2
    <3> QED
      BY <3>2, <3>4, <3>5, <3>6 DEF t
  <2>6. LongEnough
    BY <2>4, <2>5, Programmed
  <2> HIDE DEF w, n
  <2>7. w >= (n + 999999) \div 1000000
    BY <2>6
  <2> QED
    BY <2>7 DEF w, n
<1> QED
  BY <1>1, TimingInvariance, PTL
=============================================================================
