----------------------------- MODULE Stage1Sdr ------------------------------
(***************************************************************************)
(* Stage 1 of the JZ4725B, JZ4750 and JZ4755, which share all but their    *)
(* pins and UARTs: load_args, jz4755_pll_init, jz4755_sdram_init and the   *)
(* memory test (MemoryTest).  Clocks are in kHz.                           *)
(***************************************************************************)
EXTENDS MemoryTest

CONSTANT SdrArgs  \* the fw_args that may be in the program

ASSUME SdrAssumptions ==
  \A f \in SdrArgs :
    /\ {f.ext_clk, f.cpu_speed} \subseteq 0 .. 255
    /\ f.phm_div \in 1 .. 32 /\ f.bus_width \in {0, 1} /\ f.bank_num \in {0, 1}
    /\ {f.row_addr, f.col_addr} \subseteq 1 .. 255

VARIABLES
  args,
  sdr_extal, sdr_speed,  \* CFG_EXTAL and CFG_CPU_SPEED
  cpccr,  \* fields of the clock control register
  pllm,   \* the field M of CPPCR
  dmcr,   \* the time fields of the memory controller
  rtcor,  \* its refresh count
  sdr_pc

bootVars == <<args, sdr_extal, sdr_speed, cpccr, pllm, dmcr, rtcor, sdr_pc>>
sdrVars  == <<memVars, bootVars>>

SdrInit ==
  /\ args \in SdrArgs /\ MemInit
  /\ sdr_extal = 0 /\ sdr_speed = 0
  /\ cpccr = [mdiv |-> 0, udiv |-> 0] /\ pllm = 0
  /\ dmcr = [ras |-> 0, rcd |-> 0, tpc |-> 0, rwl |-> 0, rc |-> 0] /\ rtcor = 0
  /\ sdr_pc = "load"

-----------------------------------------------------------------------------

AtMost(n, hi) == IF n > hi THEN hi ELSE n

SDRAM_TRAS == 45
SDRAM_RCD  == 20
SDRAM_TPC  == 20
SDRAM_TRWL == 7
SDRAM_TREF == 15625

\* get_sdram_configure: the times, in ns, in cycles of a clock of at least 1 MHz.
get_sdram_configure(clk) ==
  LET ps        == 1000000 \div (clk \div 1000)
      cycles(t) == (t * 1000) \div ps
      ras       == AtMost(cycles(SDRAM_TRAS), 11)
  IN  [ras |-> IF ras < 4 THEN 0 ELSE ras - 4,
       rcd |-> AtMost(cycles(SDRAM_RCD), 3),
       tpc |-> AtMost(cycles(SDRAM_TPC), 7),
       rwl |-> AtMost(cycles(SDRAM_TRWL), 3),
       rc  |-> (AtMost(cycles(SDRAM_TRAS + SDRAM_TPC), 14) + 1) \div 2]

\* Its sdram_freq.
RefreshCount(clk) ==
  AtMost(((SDRAM_TREF * 1000) \div (1000000 \div (clk \div 1000))) \div 64 + 1, 255)

\* A crystal of 19 means 19.2 MHz and 192 MHz.
sdr_load_args ==
  /\ sdr_pc = "load" /\ sdr_pc' = "pll"
  /\ sdr_extal' = IF args.ext_clk = 19 THEN 19200 ELSE args.ext_clk * 1000
  /\ sdr_speed' = IF args.ext_clk = 19 THEN 192000
                  ELSE args.cpu_speed * args.ext_clk * 1000
  /\ UNCHANGED <<memVars, args, cpccr, pllm, dmcr, rtcor>>

\* n2FR and, in GetCommonClock, its inverse; 0 for divisors that do not exist.
div_matrix == <<1, 2, 3, 4, 6, 8, 12, 16, 24, 32>>
n2FR(n) == IF \E k \in DOMAIN div_matrix : div_matrix[k] = n
           THEN (CHOOSE k \in DOMAIN div_matrix : div_matrix[k] = n) - 1 ELSE 0

\* CalcutatePLLClock for NR = 2 and NO = 1, as set below.
PllClock(m) == (sdr_extal * (m + 2)) \div 2

\* Mutant: the divisor of the USB clock, not one less.
UDivOffByOne(pll) == ((pll \div 1000) \div 12) % 64

UDiv(pll) == ((pll \div 1000) \div 12 - 1) % 64

\* The multiplier 0 ends in the trap of a division by a clock of 0 MHz.
jz4755_pll_init ==
  /\ sdr_pc = "pll"
  /\ cpccr' = [mdiv |-> n2FR(args.phm_div), udiv |-> UDiv(sdr_speed)]
  /\ pllm' = ((sdr_speed * 2) \div sdr_extal - 2) % 512
  /\ IF sdr_speed < 1000 THEN sdr_pc' = "trap" /\ UNCHANGED rtcor
     ELSE sdr_pc' = "sdram" /\ rtcor' = RefreshCount(sdr_speed)
  /\ UNCHANGED <<memVars, args, sdr_extal, sdr_speed, dmcr>>

\* The count computed before is replaced.  (Left out: row, column, bank and bus
\* width fields, which the test's size stands for; waits.)
jz4755_sdram_init ==
  /\ sdr_pc = "sdram"
  /\ LET clk == PllClock(pllm) \div div_matrix[cpccr.mdiv + 1]
     IN  IF clk < 1000 THEN sdr_pc' = "trap" /\ UNCHANGED <<dmcr, rtcor>>
         ELSE /\ sdr_pc' = "test"
              /\ dmcr' = get_sdram_configure(clk)
              /\ rtcor' = 11
  /\ UNCHANGED <<memVars, args, sdr_extal, sdr_speed, cpccr, pllm>>

\* The bytes that memory_post_test tests.
memsize ==
  2^(args.row_addr + args.col_addr) * args.bank_num
    * ((IF args.bus_width = 1 THEN 16 ELSE 32) \div 4)

TestedWords == memsize \div 4

\* The end: back to the boot ROM, or while (1).
SdrEnds ==
  /\ sdr_pc = "test" /\ Tested
  /\ sdr_pc' = IF ret = 0 THEN "pass" ELSE "fail"
  /\ UNCHANGED <<memVars, args, sdr_extal, sdr_speed, cpccr, pllm, dmcr, rtcor>>

\* c_main.
SdrNext ==
  \/ sdr_load_args \/ jz4755_pll_init \/ jz4755_sdram_init
  \/ sdr_pc = "test" /\ NextTest(TestedWords) /\ UNCHANGED bootVars
  \/ SdrEnds

SdrSpec == SdrInit /\ [][SdrNext]_sdrVars

-----------------------------------------------------------------------------
(***************************************************************************)
(* Properties.                                                             *)
(***************************************************************************)

\* What the controllers make of their fields, in kHz and in cycles.
SdrPll == (sdr_extal * (pllm + 2)) \div 2
SdrClk == SdrPll \div div_matrix[cpccr.mdiv + 1]

\* memory_post_test tells, whatever the compiler made of its loads, a memory
\* whose first half (the words it tests) does not work from one that does: data
\* lines that are stuck, open or short, address lines that are stuck, short or
\* missing, and bits that do not change.
RightVerdict ==
  sdr_pc \in {"pass", "fail"} /\ TestedWords > 0 =>
    (sdr_pc = "fail") = Defective(TestedWords)

\* With the divisors the hardware has, the PLL, the USB clock (12 MHz) and the
\* memory clock are as configured for every configuration that is accepted; and
\* at whole MHz up to 200 (the code drops the rest) the memory is not given less
\* than its RAS to CAS delay, its precharge and write times and its row cycle;
\* from 46 MHz on it is refreshed in time.
SdrSetUp ==
  sdr_pc \in {"test", "pass", "fail"} =>
    /\ SdrPll = sdr_speed
    /\ SdrPll = 12000 * (cpccr.udiv + 1)
    /\ args.phm_div \in {div_matrix[k] : k \in DOMAIN div_matrix} =>
         SdrClk = sdr_speed \div args.phm_div
    /\ SdrClk <= 200000 /\ SdrClk % 1000 = 0 =>
         \A t \in {<<SDRAM_RCD, dmcr.rcd + 1>>, <<SDRAM_TPC, dmcr.tpc + 1>>,
                   <<SDRAM_TRWL, dmcr.rwl + 1>>,
                   <<SDRAM_TRAS + SDRAM_TPC, 2 * dmcr.rc + 1>>} :
           t[2] * 1000000 >= t[1] * SdrClk
    /\ SdrClk >= 46000 => rtcor * 64 * 1000 <= SDRAM_TREF * (SdrClk \div 1000)
=============================================================================
