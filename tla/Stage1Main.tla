----------------------------- MODULE Stage1Main -----------------------------
(***************************************************************************)
(* c_main of the JZ4770's stage 1: load_args, pll_init_4770 (Stage1Boot),  *)
(* and sdram_init_4770: the timings (DdrTiming), then the search for the   *)
(* delays (DdrTune).                                                       *)
(***************************************************************************)
EXTENDS Stage1Boot, DdrTune, DdrTiming

CONSTANT
  PartOf(_)   \* the times of a memory

\* DDR1's program is the one with the other search.
ASSUME PartAssumption ==
  \A m \in Memories :
    PartOf(m) \in IF m.search = "first" THEN {DDR1} ELSE {DDR2, MDDR}

VARIABLES
  ddrc        \* the time fields of TIMING1, TIMING2 and REFCNT

mainVars == <<vars, ddrVars, ddrc>>

NotSet == [set |-> FALSE]

MainInit == Init /\ DdrInit /\ ddrc = NotSet

\* The first half of sdram_init_4770.
SetTimings ==
  /\ pc = "sdram" /\ ~ ddrc.set
  /\ LET clk == mem_clk(plcr1)
     IN  ddrc' = [set |-> TRUE,
                  timing |-> Timing(PartOf(memory), clk,
                                    memory.search = "windows"),
                  con |-> RefCon(clk)]
  /\ UNCHANGED <<vars, ddrVars>>

c_main ==
  \/ Next /\ UNCHANGED <<ddrVars, ddrc>>
  \/ SetTimings
  \/ /\ pc = "sdram" /\ ddrc.set
     /\ DdrNext
     /\ UNCHANGED <<vars, ddrc>>

MainSpec == MainInit /\ [][c_main]_mainVars

-----------------------------------------------------------------------------
(***************************************************************************)
(* The waits of ddr_mem_init, which every setting tried begins with, are   *)
(* loops "while (tmp_cnt--)" with tmp_cnt = (cpu_clk / 1000000) * n.  The  *)
(* files with the one of DDR2 and of mobile DDR do not include             *)
(* board_4770.h: their cpu_clk is the variable that load_args filled.      *)
(***************************************************************************)

cpu_clk == IF memory.search = "first" THEN BOARD_CPU_SPEED ELSE CFG_CPU_SPEED

\* A pass reads the volatile counter, counts it down, stores it and branches:
\* no fewer cycles of the CPU than these.
PASS_CYCLES == 4

\* The CPU cycles of a wait with n = 1, which follows every command to the
\* memory.  The counter is tested once more than it is counted down.
WaitCycles == (cpu_clk + 1) * PASS_CYCLES

-----------------------------------------------------------------------------
(***************************************************************************)
(* Properties.                                                             *)
(***************************************************************************)

\* The times fit the fields of the registers TIMING1, TIMING2 and REFCNT.
FieldsFit ==
  /\ ddrc.timing \in [tRAS : 0 .. 15, tRTP : 0 .. 3, tRP : 0 .. 7, tRCD : 0 .. 7,
                     tRC : 0 .. 15, tRRD : 0 .. 3, tWR : 0 .. 7, tRFC : 0 .. 15]
  /\ ddrc.con \in 1 .. 4095

\* Type correctness of all parts, and of the registers once they are set.
MainTypeOK == TypeOK /\ DdrTypeOK /\ (ddrc.set => FieldsFit)

\* The memory clock in kHz that the board really has.
RealClk == (Crystal * (plcr1.m + 1)) \div (4 * 2^plcr1.od)

\* No memory command comes sooner than the part allows, on a board with a
\* crystal of at most 13 MHz.  (With a larger one the memory's clock is faster
\* than sdram_init_4770 takes it to be.)
TimingCovers ==
  ddrc.set /\ Crystal <= 13000 =>
    \A f \in DOMAIN ddrc.timing :
      FieldCycles(f, ddrc.timing[f]) * 1000000 >= PartOf(memory)[f] * RealClk

\* Every row is refreshed in time, whatever crystal of those fw_cfg_tool accepts
\* the board has.
RefreshInTime ==
  ddrc.set =>
    (ddrc.con + 1) * 16 * 2^DDR_CLK_DIV * 1000 <= (DDR_tREFI * RealClk) \div 1000

\* The wait behind a precharge or a refresh command is as long as the memory
\* needs (tRFC, the longest of its times), although for DDR2 and mobile DDR it is
\* counted with the configured multiplier of the crystal and spent at the clock of
\* board_4770.h: with a crystal of at most 16 MHz and a CPUSPEED of at least 192.
WaitsSuffice ==
  /\ ddrc.set
  /\ memory.search = "windows" =>
       Crystal <= 16000 /\ fw_args.cpu_speed * fw_args.ext_clk >= 192
  => WaitCycles >= (PartOf(memory).tRFC * RealCpuClk + 999999) \div 1000000
=============================================================================
