------------------------------ MODULE DdrTiming -----------------------------
(***************************************************************************)
(* The timings that stage 1 of the JZ4770 programs for the DDR memory (the *)
(* first half of sdram_init_4770), from the clock that it reads back from  *)
(* the PLL register.  Clocks are in kHz, times in ns and ps.               *)
(***************************************************************************)
EXTENDS Integers

\* The parts of DDR2_V59C1G02168QB-3.h, mddr.h and ddr1.h, times in ns.
DDR2 == [tRAS |-> 60, tRTP |-> 20, tRP |-> 20, tRCD |-> 20, tRC |-> 80,
         tRRD |-> 18, tWR |-> 25, tRFC |-> 128]
MDDR == [tRAS |-> 45, tRTP |-> 12, tRP |-> 18, tRCD |-> 20, tRC |-> 60,
         tRRD |-> 12, tWR |-> 15, tRFC |-> 110]
DDR1 == [tRAS |-> 40, tRTP |-> 12, tRP |-> 15, tRCD |-> 15, tRC |-> 55,
         tRRD |-> 10, tWR |-> 15, tRFC |-> 70]

DDR_tREFI == 7800
DDR_CLK_DIV == 1

\* The crystal of __cpm_get_pllout: JZ_EXTAL is 12 MHz whatever the board has,
\* because jz4770.h tests for a macro CFG_EXTAL before board_4770.h defines it.
JZ_EXTAL == 12000

\* __cpm_get_mclk with the H0 divider of 4.
mem_clk(plcr1) == (JZ_EXTAL * (plcr1.m + 1)) \div (4 * 2^plcr1.od)

Clamp(n, lo, hi) == IF n < lo THEN lo ELSE IF n > hi THEN hi ELSE n

\* Mutant: clock cycles are rounded down.
CyclesDown(x, clk, psec) ==
  IF psec THEN (x * 1000) \div (1000000000 \div clk)
          ELSE x \div (1000000 \div clk)

\* DDR_GET_VALUE (from a period in whole ps), and DDR1's from whole ns: the
\* clock cycles that cover x ns, rounded up.
Cycles(x, clk, psec) ==
  IF psec THEN LET ps == 1000000000 \div clk
               IN  (x * 1000 + ps - 1) \div ps
          ELSE LET ns == 1000000 \div clk
               IN  (x + ns - 1) \div ns

\* The fields of TIMING1 and TIMING2 that stand for a time.  Those of tRAS, tRC
\* and tRFC count pairs of cycles.
Timing(part, clk, psec) ==
  LET cyc(x, lo, hi) == Clamp(Cycles(x, clk, psec), lo, hi)
  IN  [tRAS |-> cyc(part.tRAS, 1, 31) \div 2,
       tRTP |-> cyc(part.tRTP, 1, 4) - 1,
       tRP  |-> cyc(part.tRP, 1, 8) - 1,
       tRCD |-> cyc(part.tRCD, 1, 8) - 1,
       tRC  |-> cyc(part.tRC, 3, 31) \div 2,
       tRRD |-> cyc(part.tRRD, 2, 4) - 1,
       tWR  |-> cyc(part.tWR, 2, 6) - 1,
       tRFC |-> cyc(part.tRFC, 0, 31) \div 2]

\* Mutant: the period is rounded down.
RefConDown(clk) ==
  Clamp((DDR_tREFI \div (1000000 \div clk)) \div (16 * 2^DDR_CLK_DIV) - 1, 1, 4095)

\* The compare value of REFCNT; below 0 it is an unsigned that is too large.
RefCon(clk) ==
  LET ns_int == (1000000 + clk - 1) \div clk
      n == (DDR_tREFI \div ns_int) \div (16 * 2^DDR_CLK_DIV) - 1
  IN  IF n < 0 THEN 4095 ELSE Clamp(n, 1, 4095)

\* The cycles the controller makes of a field.
FieldCycles(f, n) == IF f \in {"tRAS", "tRC", "tRFC"} THEN 2 * n + 1 ELSE n + 1
=============================================================================
