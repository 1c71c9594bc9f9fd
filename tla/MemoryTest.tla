----------------------------- MODULE MemoryTest -----------------------------
(***************************************************************************)
(* The memory test of stage 1 of the JZ4725B, JZ4750 and JZ4755 (memory.c) *)
(* on a memory of 32 data lines that may be wired or work wrong.  A word   *)
(* is the set of its bits that are 1; addresses count the words from       *)
(* CFG_SDRAM_BASE.                                                         *)
(***************************************************************************)
EXTENDS Integers, SequencesExt

CONSTANT Rams  \* memories, see RamType

WordLog   == 5
WordBits  == 2^WordLog
DataLines == 0 .. WordBits - 1

\* A memory and at most one defect: a data line that is stuck, open, or short to
\* another one; an address line that is stuck or short to another one; a bit of a
\* cell that is stuck.
RamType ==
  [bits   : 1 .. 30,          \* address lines
   defect : {"none", "stuck", "open", "short", "address", "addresses", "cell"},
   line   : DataLines,        \* the line or bit
   other  : Nat,              \* the other line or the cell
   value  : {0, 1},           \* what the line or bit is stuck at
   dirty  : BOOLEAN]          \* what it holds when switched on

ASSUME MemoryAssumptions == Rams \subseteq RamType

VARIABLES
  sdram, \* never changes
  cells, \* what the memory holds
  bus,   \* the word driven last
  build, \* what the compiler made of a value stored and loaded again
  at,    \* the test that is next
  ret

memVars == <<sdram, cells, bus, build, at, ret>>

-----------------------------------------------------------------------------
(***************************************************************************)
(* The memory (external)                                                   *)
(***************************************************************************)

BitSet(n, k) == k < 31 /\ (n \div 2^k) % 2 = 1
Flip(n, k)   == IF BitSet(n, k) THEN n - 2^k ELSE n + 2^k

\* Address n with line k at 0 or 1.
Driven(n, k, x) == IF BitSet(n, k) = (x = 1) THEN n ELSE Flip(n, k)

Cells == 0 .. 2^sdram.bits - 1

\* The cell at an address; lines the memory does not have are ignored.
At(a) ==
  LET n == a % 2^sdram.bits IN
  CASE sdram.defect = "address"   -> Driven(n, sdram.line, sdram.value)
    [] sdram.defect = "addresses" ->
         IF BitSet(n, sdram.line) /\ BitSet(n, sdram.other) THEN n
         ELSE Driven(Driven(n, sdram.line, 0), sdram.other, 0)
    [] OTHER -> n

Put(v, b, x) == IF x = 1 THEN v \cup {b} ELSE v \ {b}

\* A word that comes over the data lines; an open one keeps what was last driven
\* on its end, and two that are short are 1 when both are.
Carried(v, last) ==
  CASE sdram.defect = "stuck" -> Put(v, sdram.line, sdram.value)
    [] sdram.defect = "open"  -> (v \ {sdram.line}) \cup (last \cap {sdram.line})
    [] sdram.defect = "short" -> IF {sdram.line, sdram.other} \subseteq v THEN v
                               ELSE v \ {sdram.line, sdram.other}
    [] OTHER -> v

Kept(c, v) ==
  IF sdram.defect = "cell" /\ c = sdram.other THEN Put(v, sdram.line, sdram.value) ELSE v

\* A store and a load, in a record of memory, bus and the errors found.
Store(m, a, v) ==
  [m EXCEPT !.cells[At(a)] = Kept(At(a), Carried(v, {})), !.bus = v]
Load(m, a) == Carried(m.cells[At(a)], m.bus)

-----------------------------------------------------------------------------
(***************************************************************************)
(* The tests                                                               *)
(***************************************************************************)

Found(m, wrong) == IF wrong THEN [m EXCEPT !.ret = -1] ELSE m

Not(v)  == DataLines \ v
Bits(n) == {b \in DataLines : BitSet(n, b)}
UpTo(n) == [k \in 1 .. n |-> k - 1]

\* pattern[] and otherpattern: double words, low word first.
Stripes(k) == {b \in DataLines : BitSet(b, k)}
Pattern ==
  [k \in 1 .. WordLog |-> <<Stripes(k - 1), Stripes(k - 1)>>] \o
  << <<{}, DataLines>>, <<DataLines, {}>> >> \o
  [k \in 1 .. WordLog |-> <<Not(Stripes(WordLog - k)), Not(Stripes(WordLog - k))>>]
OtherPattern == <<{b \in DataLines : BitSet(15 - b \div 4, b % 4)},
                  {b \in DataLines : BitSet(7 - b \div 4, b % 4)}>>

\* move64 to the memory.
Store64(m, a, d) == Store(Store(m, a, d[1]), a + 1, d[2])

\* pmem is not volatile: a compiler may take the pattern for what it would load.
memory_post_dataline(m) ==
  LET try(x, d) ==
        LET y == Store64(Store64(x, 0, d), 2, OtherPattern)
        IN  Found(y, build = "reload" /\ <<Load(y, 0), Load(y, 1)>> # d)
  IN  FoldLeft(try, m, Pattern)

\* Every address line flipped, as far as the address stays below size.  What was
\* stored at testaddr need not be loaded again.
memory_post_addrline(m, testaddr, size) ==
  LET try(x, k) ==
        LET target == Flip(testaddr, k)
            v      == Not(Load(x, target))
            y      == Store(x, testaddr, v)
        IN  Found(y, Load(y, target) =
                       IF build = "reload" THEN Load(y, testaddr) ELSE v)
  IN  FoldLeft(try, m, SelectSeq(UpTo(30), LAMBDA k : Flip(testaddr, k) < size))

\* memory_post_test1 to 4: fill the memory with val, then compare.
FillAndCompare(m, size, val) ==
  LET fill(x, n)    == Store(x, n, val[n])
      compare(x, n) == Found(x, Load(x, n) # val[n])
  IN  FoldLeft(compare, FoldLeft(fill, m, UpTo(size)), UpTo(size))

\* The values of memory_post_test1 are 0, ~0, 0x55555555 and 0xaaaaaaaa.
memory_post_test1(v) == [n \in Nat |-> v]
memory_post_test2 == [n \in Nat |-> {n % WordBits}]
memory_post_test3 == [n \in Nat |-> Bits(n)]
memory_post_test4 == [n \in Nat |-> Not(Bits(n))]

\* memory_post_tests: test n.
Tests == 10
Test(n, m, size) ==
  CASE n = 1  -> memory_post_dataline(m)
    [] n = 2  -> memory_post_addrline(m, 0, size)
    [] n = 3  -> memory_post_addrline(m, size - 2, size)
    [] n = 4  -> FillAndCompare(m, size, memory_post_test1({}))
    [] n = 5  -> FillAndCompare(m, size, memory_post_test1(DataLines))
    [] n = 6  -> FillAndCompare(m, size, memory_post_test1(Not(Stripes(0))))
    [] n = 7  -> FillAndCompare(m, size, memory_post_test1(Stripes(0)))
    [] n = 8  -> FillAndCompare(m, size, memory_post_test2)
    [] n = 9  -> FillAndCompare(m, size, memory_post_test3)
    [] n = 10 -> FillAndCompare(m, size, memory_post_test4)

MemInit ==
  /\ sdram \in Rams
  /\ cells = [c \in Cells |-> Kept(c, IF sdram.dirty THEN DataLines ELSE {})]
  /\ bus = {} /\ at = 1 /\ ret = 0
  /\ build \in {"reload", "forward"}

Tested == at > Tests

\* One test on the memory as the one before it left it.
Made(size) ==
  LET m == Test(at, [cells |-> cells, bus |-> bus, ret |-> 0], size)
  IN  cells' = m.cells /\ bus' = m.bus /\ ret' = m.ret

\* Mutant: every test is made, and the last one decides.
LastTestCounts(size) ==
  ~ Tested /\ at' = at + 1 /\ Made(size) /\ UNCHANGED <<sdram, build>>

\* A test is made when those before it found nothing.
NextTest(size) ==
  /\ ~ Tested
  /\ at' = at + 1
  /\ IF ret = 0 THEN Made(size) ELSE UNCHANGED <<cells, bus, ret>>
  /\ UNCHANGED <<sdram, build>>

\* The first size words do not work as memory.
Defective(size) ==
  \/ sdram.defect \in {"stuck", "open", "short"}
  \/ \E a, b \in 0 .. size - 1 : a # b /\ At(a) = At(b)
  \/ sdram.defect = "cell" /\ \E a \in 0 .. size - 1 : At(a) = sdram.other
=============================================================================
