------------------------------- MODULE FwHand -------------------------------
(***************************************************************************)
(* What fw_cfg_tool computes from a configuration file: parse_configure    *)
(* and check_dump_cfg of fw_cfg_tool.c.                                    *)
(*                                                                         *)
(* A configuration is the record of its options; those that the tool only  *)
(* copies (UART, baud rate, debug and most NAND options) are left out.     *)
(***************************************************************************)
EXTENDS Integers

\* The fields of struct fw_args are unsigned chars.
Byte(n) == n % 256

\* Mutant: the values are not truncated to unsigned chars.
FwArgsWide(c) ==
  [ext_clk   |-> c.EXTCLK,
   cpu_speed |-> c.CPUSPEED \div c.EXTCLK,
   phm_div   |-> c.PHMDIV,
   bus_width |-> IF c.BUSWIDTH = 32 THEN 0 ELSE 1,
   bank_num  |-> c.BANKS \div 4,
   row_addr  |-> c.ROWADDR,
   col_addr  |-> c.COLADDR]

\* Mutant: the multiplier is rounded up.
FwArgsRounded(c) ==
  [ext_clk   |-> Byte(c.EXTCLK),
   cpu_speed |-> (Byte(c.CPUSPEED) + Byte(c.EXTCLK) - 1) \div Byte(c.EXTCLK),
   phm_div   |-> Byte(c.PHMDIV),
   bus_width |-> IF Byte(c.BUSWIDTH) = 32 THEN 0 ELSE 1,
   bank_num  |-> Byte(c.BANKS) \div 4,
   row_addr  |-> Byte(c.ROWADDR),
   col_addr  |-> Byte(c.COLADDR)]

\* struct fw_args.  Defined when Byte(c.EXTCLK) # 0.
FwArgs(c) ==
  [ext_clk   |-> Byte(c.EXTCLK),
   cpu_speed |-> Byte(c.CPUSPEED) \div Byte(c.EXTCLK),
   phm_div   |-> Byte(c.PHMDIV),
   bus_width |-> IF Byte(c.BUSWIDTH) = 32 THEN 0 ELSE 1,
   bank_num  |-> Byte(c.BANKS) \div 4,
   row_addr  |-> Byte(c.ROWADDR),
   col_addr  |-> Byte(c.COLADDR)]

Hand(c) == [nand_ps |-> c.NAND_PAGESIZE, nand_os |-> c.NAND_OOBSIZE,
            nand_ppb |-> c.NAND_PAGEPERBLOCK, fw_args |-> FwArgs(c)]

\* Mutant: the conversion of the bank count is forgotten in the size.
TotalMBBanks(f) ==
  LET bits == f.row_addr + f.col_addr
      rest == (f.bank_num + 1) * (2 * (2 - f.bus_width))
  IN  CASE bits \notin 1 .. 30 -> -1
        [] bits \in 1 .. 19    -> (2^bits * rest) \div 2^20
        [] OTHER               -> (2^(bits - 20) * rest) % 2^12

\* total_size / 0x100000.  The product is an unsigned int of 2^20 * 2^12
\* bytes; -1 stands for the result of a shift that C leaves undefined.
TotalMB(f) ==
  LET bits == f.row_addr + f.col_addr
      rest == (2 * (f.bank_num + 1)) * (2 * (2 - f.bus_width))
  IN  CASE bits \notin 1 .. 30 -> -1
        [] bits \in 1 .. 19    -> (2^bits * rest) \div 2^20
        [] OTHER               -> (2^(bits - 20) * rest) % 2^12

PllValid(f) ==
  /\ f.ext_clk \in 12 .. 27
  /\ ~ (f.phm_div > 32 \/ f.ext_clk < 2)     \* the code tests ext_clk
  /\ (f.cpu_speed * f.ext_clk) % 12 = 0

SdramValid(f) ==
  /\ f.bus_width <= 1
  /\ f.bank_num <= 1
  /\ ~ (f.row_addr > 13 /\ f.row_addr < 11)
  /\ ~ (f.col_addr > 13 /\ f.col_addr < 11)

NandValid(h) ==
  /\ h.nand_ps < 2048 => h.nand_os <= 16 /\ h.nand_ppb <= 32
  /\ h.nand_ps > 512  => h.nand_os > 16  /\ h.nand_ppb >= 64

\* The outcome of parse_configure for a file that libconfuse can parse.  The
\* division by ext_clk comes before the check, the one by phm_div after it.
parse_configure(c) ==
  IF Byte(c.EXTCLK) = 0 THEN "crashed"
  ELSE IF ~ (PllValid(FwArgs(c)) /\ SdramValid(FwArgs(c)) /\ NandValid(Hand(c)))
       THEN "refused"
  ELSE IF FwArgs(c).phm_div = 0 THEN "crashed"
  ELSE "ok"
=============================================================================
