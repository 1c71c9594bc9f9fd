----------------------------- MODULE Stage1Boot -----------------------------
(***************************************************************************)
(* Stage 1 of the JZ4770 (stage1/jz4770): load_args reads the fw_args that *)
(* were patched into the program, pll_init_4770 sets the PLL.  The two use *)
(* the names CFG_EXTAL and CFG_CPU_SPEED for different things: main.c for  *)
(* the variables that load_args fills, board_4770.c for the macros of      *)
(* board_4770.h, which it includes behind the declaration of the variables.*)
(* Clocks are in MHz: the code divides them by 1000000 before use.         *)
(***************************************************************************)
EXTENDS Integers

CONSTANT
  PatchedArgs   \* the [ext_clk, cpu_speed] pairs that may be in the program

\* fw_cfg_tool accepts no other crystal, and computes cpu_speed by a division
\* of a byte by ext_clk.
ASSUME Stage1Assumptions ==
  PatchedArgs \subseteq [ext_clk : 12 .. 27, cpu_speed : 0 .. 21]

VARIABLES
  fw_args,        \* the values at 0x80002008
  CFG_EXTAL,      \* the variables of main.c (19 stands for 19.2)
  CFG_CPU_SPEED,
  plcr1,          \* the fields M, OD and BS of CPPCR
  pc

vars == <<fw_args, CFG_EXTAL, CFG_CPU_SPEED, plcr1, pc>>

\* Mutant: another of the lines of board_4770.h is the one that is not a comment.
BOARD_CPU_SPEED_996 == 996

\* The macros of board_4770.h.
BOARD_EXTAL == 12
BOARD_CPU_SPEED == 288

PLL_OUT_MAX == 1200

-----------------------------------------------------------------------------
(***************************************************************************)
(* pll_calc_m_n_od.  NR is always 1.                                       *)
(***************************************************************************)

\* The values PLL_OD may have after the chain of tests, whose last alternative
\* (below 48) is an error; above the maximum it is not initialized.
PLL_OD(out) ==
  CASE out > PLL_OUT_MAX         -> 0 .. 31
    [] out \in 301 .. PLL_OUT_MAX -> {0}
    [] out \in 156 .. 300        -> {1}
    [] out \in 77 .. 155         -> {2}
    [] out \in 48 .. 76          -> {3}
    [] OTHER                     -> {}

\* NF, the loop divider; PLL_MO is one less.
NF(out, xtal, od) == (out \div xtal) * 2^od

FOUT(out, xtal, od) == (xtal * NF(out, xtal, od)) \div 2^od

Vco(out, xtal, od) == FOUT(out, xtal, od) * 2^od

\* The tests; those that fail end in the endless loop __ERROR_PLL.
PllInRange(out, xtal, od) ==
  /\ xtal \in 10 .. 50
  /\ NF(out, xtal, od) - 1 \in 1 .. 127
  /\ Vco(out, xtal, od) \in 300 .. PLL_OUT_MAX

PLL_BS(out, xtal, od) == IF Vco(out, xtal, od) < 500 THEN 0 ELSE 1

\* The settings pll_calc_m_n_od can return; none if it does not return.
pll_calc_m_n_od(out, xtal) ==
  {[m  |-> NF(out, xtal, od) - 1, od |-> od, bs |-> PLL_BS(out, xtal, od)] :
     od \in {d \in PLL_OD(out) : PllInRange(out, xtal, d)}}

-----------------------------------------------------------------------------

Init ==
  /\ fw_args \in PatchedArgs
  /\ CFG_EXTAL = 0 /\ CFG_CPU_SPEED = 0
  /\ plcr1 = [m |-> 0, od |-> 0, bs |-> 0]
  /\ pc = "load"

\* load_args: a crystal of 19 means 19.2 MHz and 192 MHz.
load_args ==
  /\ pc = "load"
  /\ CFG_EXTAL' = fw_args.ext_clk
  /\ CFG_CPU_SPEED' = IF fw_args.ext_clk = 19 THEN 192 ELSE fw_args.cpu_speed
  /\ pc' = "pll"
  /\ UNCHANGED <<fw_args, plcr1>>

\* pll_init_4770: the setting is the one for the macros, whatever is patched in.
\* There is one, so that the code never gets to __ERROR_PLL.
pll_init_4770 ==
  /\ pc = "pll"
  /\ plcr1' \in pll_calc_m_n_od(BOARD_CPU_SPEED, BOARD_EXTAL)
  /\ pc' = "sdram"
  /\ UNCHANGED <<fw_args, CFG_EXTAL, CFG_CPU_SPEED>>

Next == load_args \/ pll_init_4770

Spec == Init /\ [][Next]_vars

-----------------------------------------------------------------------------
(***************************************************************************)
(* Properties.                                                             *)
(***************************************************************************)

\* Type correctness; the fields fit the bits they are shifted into.
TypeOK ==
  /\ fw_args \in PatchedArgs
  /\ CFG_EXTAL \in 0 .. 27
  /\ CFG_CPU_SPEED \in 0 .. 21 \cup {192}
  /\ plcr1 \in [m : 0 .. 127, od : 0 .. 3, bs : {0, 1}]
  /\ pc \in {"load", "pll", "sdram"}

\* The crystal of the board, in kHz: the one its configuration file names.
Crystal == IF fw_args.ext_clk = 19 THEN 19200 ELSE fw_args.ext_clk * 1000

\* The PLL output that the register's fields make of that crystal, in kHz; it
\* is the CPU's clock.
RealCpuClk == (Crystal * (plcr1.m + 1)) \div 2^plcr1.od

\* The board files name as CPUSPEED "the PLL output frequency", and fw_cfg_tool
\* stores it as a multiple of the crystal.  The PLL is set for 288 MHz whatever
\* they say: a run refutes this.
SpeedAsConfigured ==
  pc = "sdram" => RealCpuClk = fw_args.cpu_speed * Crystal
=============================================================================
