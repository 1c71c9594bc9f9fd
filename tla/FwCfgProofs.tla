---------------------------- MODULE FwCfgProofs ----------------------------
(***************************************************************************)
(* What patch_fw.sh and fw_cfg_tool promise, for every set of              *)
(* configurations and every number of runs, and what stage 1 of the        *)
(* JZ4755 makes of a configuration the tool accepted.                      *)
(***************************************************************************)
EXTENDS FwCfg, Stage1Sdr, TLAPS

\* What the script does not notice has to be excluded: short writes, and board
\* files that name no program.
NoticedFaults ==
  /\ "write" \notin Faults
  /\ \A c \in Configs : c.RAMTYPE \in Bases

\* The values of the clock options, of which the tool makes bytes.
ClockOptions ==
  \A c \in Configs : c.EXTCLK \in Nat /\ c.CPUSPEED \in Nat

(***************************************************************************)
(* The inductive invariant: what the script has made so far, at each place *)
(* of a run, is made from this run's configuration.                        *)
(***************************************************************************)
Accepted == cfg \in Configs /\ parse_configure(cfg) = "ok" /\ hand = Hand(cfg)

PatchInv ==
  /\ runs \in Nat
  /\ pc \in {"idle", "parse", "hand", "fw", "patch", "patchUsb"}
  /\ pc = "parse" => cfg \in Configs
  /\ pc \in {"hand", "fw", "patch", "patchUsb"} => Accepted
  /\ pc \in {"fw", "patch", "patchUsb"} => handBin = Hand(cfg)
  /\ pc \in {"patch", "patchUsb"} => fwBin = FwArgs(cfg)
  /\ pc = "patchUsb" => fwPatched = [base |-> cfg.RAMTYPE, args |-> FwArgs(cfg)]
  /\ Succeeded => Accepted /\ PatchedForThisBoard

-----------------------------------------------------------------------------

\* The states in which fw/ is empty satisfy the invariant.
LEMMA PatchInvInit == Init => PatchInv
BY DEF Init, PatchInv, Succeeded

\* Every step of the script and of the tool keeps it.
LEMMA PatchInvStep ==
  ASSUME NoticedFaults, PatchInv, [Next]_vars
  PROVE  PatchInv'
<1> USE DEF PatchInv, Accepted, Succeeded, PatchedForThisBoard, files
<1>1. ASSUME NEW c \in Configs, patch_fw(c) PROVE PatchInv'
  BY <1>1 DEF patch_fw, Exit
<1>2. CASE ParseConfigure
  <2>1. parse_configure(cfg) \in {"ok", "refused", "crashed"}
    BY DEF parse_configure
  <2> QED
    BY <1>2, <2>1 DEF ParseConfigure, Exit
<1>3. CASE WriteHand
  BY <1>3 DEF WriteHand, Exit, Written, NoticedFaults
<1>4. CASE WriteFw
  <2>1. hand.fw_args = FwArgs(cfg)
    BY <1>4 DEF WriteFw, Hand
  <2> QED
    BY <1>4, <2>1 DEF WriteFw, Exit, Written, NoticedFaults
<1>5. CASE PatchFw
  <2>1. fwPatched' = [base |-> cfg.RAMTYPE, args |-> FwArgs(cfg)]
    BY <1>5 DEF PatchFw, Patched, Copied, NoticedFaults
  <2> QED
    BY <1>5, <2>1 DEF PatchFw
<1>6. CASE PatchUsb
  <2>1. usbPatched' = [base |-> "usb_boot", args |-> FwArgs(cfg)]
    BY <1>6 DEF PatchUsb, Patched, Copied
  <2> QED
    BY <1>6, <2>1 DEF PatchUsb, Exit
<1>7. CASE UNCHANGED vars
  BY <1>7 DEF vars
<1> QED
  BY <1>1, <1>2, <1>3, <1>4, <1>5, <1>6, <1>7 DEF Next

\* patch_fw.sh succeeds only with files made from the configuration as it is
\* now, however many runs before it ended early: for every set of boards.
THEOREM PatchedFromConfig ==
  ASSUME NoticedFaults
  PROVE  Spec => []PatchedForThisBoard
<1>1. PatchInv => PatchedForThisBoard
  BY DEF PatchInv, PatchedForThisBoard
<1> QED
  BY PatchInvInit, PatchInvStep, <1>1, PTL DEF Spec

-----------------------------------------------------------------------------

\* A quotient times its divisor is at most one divisor below the dividend.
LEMMA RoundedDown ==
  ASSUME NEW a \in Nat, NEW d \in Nat \ {0}
  PROVE  (a \div d) * d <= a /\ a < (a \div d) * d + d
OBVIOUS

\* What parse_configure accepts keeps its clock, for every configuration: the
\* division before the check loses less than one step of the crystal.
LEMMA AcceptedSpeed ==
  ASSUME NEW c, c.EXTCLK \in Nat, c.CPUSPEED \in Nat, c.CPUSPEED < 256,
         parse_configure(c) = "ok"
  PROVE  LET f == FwArgs(c)
             mhz == f.cpu_speed * f.ext_clk
         IN  mhz % 12 = 0 /\ mhz <= c.CPUSPEED /\ c.CPUSPEED < mhz + f.ext_clk
<1> DEFINE f == FwArgs(c)
<1>1. PllValid(f)
  BY DEF parse_configure
<1>2. Byte(c.CPUSPEED) = c.CPUSPEED
  BY DEF Byte
<1>3. f.ext_clk \in Nat \ {0} /\ f.cpu_speed = c.CPUSPEED \div f.ext_clk
  BY <1>1, <1>2 DEF PllValid, FwArgs
<1>4. f.cpu_speed * f.ext_clk <= c.CPUSPEED /\ c.CPUSPEED < f.cpu_speed * f.ext_clk + f.ext_clk
  BY <1>3, RoundedDown
<1> QED
  BY <1>1, <1>4 DEF PllValid

\* The speed that a successful run puts into the firmware is the one asked for,
\* rounded down to the crystal: for every set of boards.
THEOREM SpeedKeptHolds ==
  ASSUME NoticedFaults, ClockOptions
  PROVE  Spec => []SpeedKept
<1>1. ASSUME PatchInv PROVE SpeedKept
  <2> SUFFICES ASSUME Succeeded, cfg.CPUSPEED < 256
               PROVE  LET mhz == hand.fw_args.cpu_speed * hand.fw_args.ext_clk
                      IN  /\ mhz % 12 = 0 /\ mhz <= cfg.CPUSPEED
                          /\ cfg.CPUSPEED < mhz + hand.fw_args.ext_clk
    BY DEF SpeedKept
  <2>1. Accepted
    BY <1>1 DEF PatchInv
  <2>2. hand.fw_args = FwArgs(cfg) /\ cfg.EXTCLK \in Nat /\ cfg.CPUSPEED \in Nat
    BY <2>1, ClockOptions DEF Accepted, Hand, ClockOptions
  <2> QED
    BY <2>1, <2>2, AcceptedSpeed DEF Accepted
<1> QED
  BY PatchInvInit, PatchInvStep, <1>1, PTL DEF Spec

-----------------------------------------------------------------------------
(***************************************************************************)
(* Types, and the size of the memory.                                      *)
(***************************************************************************)

\* The options of a configuration are numbers, as libconfuse delivers them.
NumericOptions ==
  \A c \in Configs :
    /\ {c.EXTCLK, c.CPUSPEED, c.PHMDIV, c.BUSWIDTH, c.BANKS, c.ROWADDR, c.COLADDR} \subseteq Nat
    /\ {c.NAND_PAGESIZE, c.NAND_OOBSIZE, c.NAND_PAGEPERBLOCK} \subseteq Nat

\* What total_size may be.
Sizes == -1 .. 4095

\* The three cases of TotalMB, with its local definitions as parameters.
LEMMA TotalMBCases ==
  ASSUME NEW f, NEW bits \in Nat, bits = f.row_addr + f.col_addr,
         NEW rest, rest = (2 * (f.bank_num + 1)) * (2 * (2 - f.bus_width))
  PROVE  \/ bits \notin 1 .. 30 /\ TotalMB(f) = -1
         \/ bits \in 1 .. 19 /\ TotalMB(f) = (2^bits * rest) \div 2^20
         \/ bits \in 20 .. 30 /\ TotalMB(f) = (2^(bits - 20) * rest) % 2^12
<1>1. TotalMB(f) = CASE bits \notin 1 .. 30 -> -1
                     [] bits \in 1 .. 19    -> (2^bits * rest) \div 2^20
                     [] OTHER               -> (2^(bits - 20) * rest) % 2^12
  BY Zenon DEF TotalMB
<1>2. \/ bits \notin 1 .. 30
      \/ bits \in 1 .. 19 /\ bits \in 1 .. 30
      \/ bits \in 20 .. 30 /\ bits \in 1 .. 30 /\ bits \notin 1 .. 19
  OBVIOUS
<1> QED
  BY <1>1, <1>2, Zenon

\* The two ways to compute the size stay in the range of its type.
LEMMA SmallSize ==
  ASSUME NEW bits \in 1 .. 19, NEW rest \in {4, 8, 16}
  PROVE  (2^bits * rest) \div 2^20 \in Sizes
<1> DEFINE pow(n) == 2^n
<1>1. /\ pow(1) = 2 /\ pow(2) = 4 /\ pow(3) = 8 /\ pow(4) = 16 /\ pow(5) = 32 /\ pow(6) = 64
      /\ pow(7) = 128 /\ pow(8) = 256 /\ pow(9) = 512 /\ pow(10) = 1024 /\ pow(11) = 2048
      /\ pow(12) = 4096 /\ pow(13) = 8192 /\ pow(14) = 16384 /\ pow(15) = 32768
      /\ pow(16) = 65536 /\ pow(17) = 131072 /\ pow(18) = 262144 /\ pow(19) = 524288
      /\ pow(20) = 1048576
  BY SMT
<1> HIDE DEF pow
<1>2. pow(bits) \in {2, 4, 8, 16, 32, 64, 128, 256, 512, 1024, 2048, 4096, 8192, 16384,
                     32768, 65536, 131072, 262144, 524288}
  BY <1>1, SMT
<1>3. (pow(bits) * rest) \div pow(20) \in Sizes
  <2> DEFINE y == pow(bits)
  <2>1. y \in Nat /\ y <= 524288
    BY <1>2, SMT
  <2> HIDE DEF y
  <2> DEFINE x == y * rest
  <2>2. x \in Nat /\ x <= 8388608
    BY <2>1, SMT
  <2> HIDE DEF x
  <2>3. x \div 1048576 \in Sizes
    BY <2>2, SMT DEF Sizes
  <2>4. x \div pow(20) \in Sizes
    BY <1>1, <2>3, SMT
  <2> QED
    BY <2>4, Zenon DEF x, y
<1> QED
  BY <1>3, Zenon DEF pow

\* And for 20 to 30 bits.
LEMMA LargeSize ==
  ASSUME NEW bits \in 20 .. 30, NEW rest \in {4, 8, 16}
  PROVE  (2^(bits - 20) * rest) % 2^12 \in Sizes
<1> DEFINE pow(n) == 2^n
<1>1. /\ pow(0) = 1 /\ pow(1) = 2 /\ pow(2) = 4 /\ pow(3) = 8 /\ pow(4) = 16 /\ pow(5) = 32
      /\ pow(6) = 64 /\ pow(7) = 128 /\ pow(8) = 256 /\ pow(9) = 512 /\ pow(10) = 1024
      /\ pow(12) = 4096
  BY SMT
<1> HIDE DEF pow
<1>2. pow(bits - 20) \in {1, 2, 4, 8, 16, 32, 64, 128, 256, 512, 1024}
  <2>1. bits - 20 \in 0 .. 10
    OBVIOUS
  <2> QED
    BY <1>1, <2>1, SMT
<1>3. (pow(bits - 20) * rest) % pow(12) \in Sizes
  <2> DEFINE y == pow(bits - 20)
  <2>1. y \in 1 .. 1024
    BY <1>2, SMT
  <2> HIDE DEF y
  <2> DEFINE x == y * rest
  <2>2. x \in Nat
    BY <2>1, SMT
  <2> HIDE DEF x
  <2>3. x % 4096 \in Sizes
    BY <2>2, SMT DEF Sizes
  <2>4. x % pow(12) \in Sizes
    BY <1>1, <2>3, SMT
  <2> QED
    BY <2>4, Zenon DEF x, y
<1> QED
  BY <1>3, Zenon DEF pow

\* The size that the tool prints fits its type, whatever the numbers of rows and columns.
LEMMA SizeInRange ==
  ASSUME NEW f \in Args, f.bank_num <= 1
  PROVE  TotalMB(f) \in Sizes
<1> DEFINE bits == f.row_addr + f.col_addr
           rest == (2 * (f.bank_num + 1)) * (2 * (2 - f.bus_width))
<1>1. bits \in Nat
  <2>1. f.row_addr \in 0 .. 255 /\ f.col_addr \in 0 .. 255
    BY DEF Args, Bytes
  <2>2. \A x, y \in 0 .. 255 : x + y \in Nat
    OBVIOUS
  <2> QED
    BY <2>1, <2>2, Zenon
<1>2. rest \in {4, 8, 16}
  <2>1. f.bank_num \in 0 .. 63 /\ f.bus_width \in {0, 1}
    BY DEF Args
  <2>2. f.bank_num \in {0, 1}
    BY <2>1
  <2> QED
    BY <2>1, <2>2
<1>3. /\ bits = f.row_addr + f.col_addr
      /\ rest = (2 * (f.bank_num + 1)) * (2 * (2 - f.bus_width))
  OBVIOUS
<1> HIDE DEF bits, rest
<1>4. -1 \in Sizes
  BY SMT DEF Sizes
<1>5. \/ TotalMB(f) = -1
      \/ bits \in 1 .. 19 /\ TotalMB(f) = (2^bits * rest) \div 2^20
      \/ bits \in 20 .. 30 /\ TotalMB(f) = (2^(bits - 20) * rest) % 2^12
  BY <1>1, <1>3, TotalMBCases
<1>6. CASE TotalMB(f) = -1
  BY <1>4, <1>6
<1>7. CASE bits \in 1 .. 19 /\ TotalMB(f) = (2^bits * rest) \div 2^20
  <2>1. (2^bits * rest) \div 2^20 \in Sizes
    BY <1>2, <1>7, SmallSize, Zenon
  <2> QED
    BY <1>7, <2>1, Zenon
<1>8. CASE bits \in 20 .. 30 /\ TotalMB(f) = (2^(bits - 20) * rest) % 2^12
  <2>1. (2^(bits - 20) * rest) % 2^12 \in Sizes
    BY <1>2, <1>8, LargeSize, Zenon
  <2> QED
    BY <1>8, <2>1, Zenon
<1> QED
  BY <1>5, <1>6, <1>7, <1>8

\* What the tool makes of an accepted configuration fits its structures.
LEMMA HandTyped ==
  ASSUME NumericOptions, NEW c \in Configs, parse_configure(c) = "ok"
  PROVE  Hand(c) \in Hands /\ TotalMB(FwArgs(c)) \in Sizes
<1>1. \A n \in Nat : Byte(n) \in 0 .. 255
  BY DEF Byte
<1>2. Byte(c.EXTCLK) \in 1 .. 255
  BY <1>1 DEF NumericOptions, parse_configure
<1>3. Byte(c.CPUSPEED) \div Byte(c.EXTCLK) \in 0 .. 255
  <2>1. ASSUME NEW a \in 0 .. 255, NEW d \in 1 .. 255 PROVE a \div d \in 0 .. 255
    <3>1. a \div d \in Nat
      OBVIOUS
    <3>2. (a \div d) * d <= a
      BY RoundedDown
    <3>3. (a \div d) <= (a \div d) * d
      BY <3>1
    <3> QED
      BY <3>1, <3>2, <3>3
  <2> QED
    BY <1>1, <1>2, <2>1 DEF NumericOptions
<1>4. Byte(c.BANKS) \div 4 \in 0 .. 63
  <2>1. Byte(c.BANKS) \in 0 .. 255
    BY <1>1 DEF NumericOptions
  <2> QED
    BY <2>1
<1>5. /\ Byte(c.PHMDIV) \in Bytes /\ Byte(c.ROWADDR) \in Bytes /\ Byte(c.COLADDR) \in Bytes
      /\ Byte(c.EXTCLK) \in Bytes
  BY <1>1 DEF NumericOptions, Bytes
<1>6. FwArgs(c) \in Args
  BY <1>3, <1>4, <1>5 DEF FwArgs, Args, Bytes
<1>7. FwArgs(c).bank_num <= 1
  BY DEF parse_configure, SdramValid
<1> QED
  BY <1>6, <1>7, SizeInRange DEF Hand, Hands, NumericOptions

\* The types hold, during a run it is one of the configurations that is read, and what
\* is written comes from a structure that was filled.
TypeInv ==
  /\ TypeOK
  /\ pc # "idle" => cfg \in Configs
  /\ pc \in {"hand", "fw"} => hand \in Hands

\* A program that was copied and patched has a type.
LEMMA PatchedTyped ==
  ASSUME TypeOK, NEW base, NEW old \in Images
  PROVE  Patched(Copied(base, old)) \in Images
<1>1. Copied(base, old) \in Images
  BY DEF Copied, Images
<1> QED
  BY <1>1 DEF Patched, Images, TypeOK

\* Every step keeps the types, whatever fails.
LEMMA TypeInvStep ==
  ASSUME NumericOptions, TypeInv, [Next]_vars
  PROVE  TypeInv'
<1> USE DEF TypeInv
<1>1. ASSUME NEW c \in Configs, patch_fw(c) PROVE TypeInv'
  BY <1>1, FwCfgAssumptions DEF patch_fw, Exit, TypeOK, files
<1>2. CASE ParseConfigure
  <2>1. parse_configure(cfg) \in {"ok", "refused", "crashed"}
    BY DEF parse_configure
  <2>2. cfg \in Configs
    BY <1>2 DEF ParseConfigure
  <2>3. CASE parse_configure(cfg) = "ok" /\ pc' = "hand"
    <3>1. Hand(cfg) \in Hands /\ TotalMB(FwArgs(cfg)) \in Sizes
      BY <2>2, <2>3, HandTyped
    <3>2. hand' \in Hands /\ total_size' \in Sizes /\ status' = status
      BY <1>2, <2>3, <3>1 DEF ParseConfigure, Exit
    <3> QED
      BY <1>2, <2>2, <2>3, <3>2 DEF ParseConfigure, TypeOK, files, Sizes
  <2>4. CASE ~(parse_configure(cfg) = "ok" /\ pc' = "hand")
    <3>1. /\ pc' = "idle" /\ status' \in {"ok", "refused", "crashed", "failed"}
          /\ UNCHANGED <<cfg, runs, hand, total_size, handBin, fwBin, fwPatched, usbPatched>>
      BY <1>2, <2>1, <2>4 DEF ParseConfigure, Exit, files
    <3> QED
      BY <3>1 DEF TypeOK
  <2> QED
    BY <2>3, <2>4
<1>3. CASE WriteHand
  BY <1>3 DEF WriteHand, Written, Exit, TypeOK
<1>4. CASE WriteFw
  <2>1. hand.fw_args \in Args
    BY <1>4 DEF WriteFw, Hands
  <2> QED
    BY <1>4, <2>1 DEF WriteFw, Written, Exit, TypeOK
<1>5. CASE PatchFw
  <2>1. fwPatched' \in Images
    BY <1>5, PatchedTyped DEF PatchFw, TypeOK
  <2> QED
    BY <1>5, <2>1 DEF PatchFw, TypeOK
<1>6. CASE PatchUsb
  <2>1. usbPatched' \in Images
    BY <1>6, PatchedTyped DEF PatchUsb, TypeOK
  <2> QED
    BY <1>6, <2>1 DEF PatchUsb, Exit, TypeOK
<1>7. CASE UNCHANGED vars
  BY <1>7 DEF vars, files, TypeOK
<1> QED
  BY <1>1, <1>2, <1>3, <1>4, <1>5, <1>6, <1>7 DEF Next

\* Every value that the tool writes fits the byte it is written to, and every file is
\* of its kind or cut short: for every set of boards and faults.
THEOREM TypeOKHolds ==
  ASSUME NumericOptions
  PROVE  Spec => []TypeOK
<1>1. Init => TypeInv
  BY FwCfgAssumptions DEF Init, TypeInv, TypeOK, Images, NoProgram
<1>2. TypeInv => TypeOK
  BY DEF TypeInv
<1> QED
  BY <1>1, TypeInvStep, <1>2, PTL DEF Spec

-----------------------------------------------------------------------------

\* The size printed is that of the run's configuration.
SizeInv ==
  /\ pc \in {"hand", "fw", "patch", "patchUsb"} => total_size = TotalMB(FwArgs(cfg))
  /\ Succeeded => total_size = TotalMB(FwArgs(cfg))

\* The size of a memory with 19 to 26 bits of addresses is the number of its MB.
LEMMA SizeOf ==
  ASSUME NEW bits \in 19 .. 26, NEW rest \in {4, 8, 16}
  PROVE  /\ 2^(bits - 10) \in Nat
         /\ bits \in 1 .. 19 => (2^bits * rest) \div 2^20 = (2^(bits - 10) * rest) \div 2^10
         /\ bits \in 20 .. 30 =>
              (2^(bits - 20) * rest) % 2^12 = (2^(bits - 10) * rest) \div 2^10
<1> DEFINE pow(n) == 2^n
<1>1. /\ pow(0) = 1 /\ pow(1) = 2 /\ pow(2) = 4 /\ pow(3) = 8 /\ pow(4) = 16 /\ pow(5) = 32
      /\ pow(6) = 64 /\ pow(9) = 512 /\ pow(10) = 1024 /\ pow(11) = 2048 /\ pow(12) = 4096
      /\ pow(13) = 8192 /\ pow(14) = 16384 /\ pow(15) = 32768 /\ pow(16) = 65536
      /\ pow(19) = 524288 /\ pow(20) = 1048576
  BY SMT
<1> HIDE DEF pow
<1>2. \/ bits = 19 /\ bits - 10 = 9
      \/ bits - 20 = 0 /\ bits - 10 = 10
      \/ bits - 20 = 1 /\ bits - 10 = 11
      \/ bits - 20 = 2 /\ bits - 10 = 12
      \/ bits - 20 = 3 /\ bits - 10 = 13
      \/ bits - 20 = 4 /\ bits - 10 = 14
      \/ bits - 20 = 5 /\ bits - 10 = 15
      \/ bits - 20 = 6 /\ bits - 10 = 16
  OBVIOUS
<1>3. /\ pow(bits - 10) \in Nat
      /\ bits = 19 => (pow(bits) * rest) \div pow(20) = (pow(bits - 10) * rest) \div pow(10)
      /\ bits \in 20 .. 30 =>
           (pow(bits - 20) * rest) % pow(12) = (pow(bits - 10) * rest) \div pow(10)
  BY <1>1, <1>2, SMT
<1> QED
  BY <1>3, SMT DEF pow

\* The encodings of bus width and banks lose nothing of a memory that the sample file
\* describes, nor does the product of 32 bits, whose upper 12 are the size in MB.
LEMMA DocumentedSize ==
  ASSUME NEW c, Documented(c)
  PROVE  TotalMB(FwArgs(c)) =
           (2^(c.ROWADDR + c.COLADDR - 10) * c.BANKS * (c.BUSWIDTH \div 8)) \div 2^10
<1> DEFINE f == FwArgs(c)
           bits == c.ROWADDR + c.COLADDR
           rest == (2 * (f.bank_num + 1)) * (2 * (2 - f.bus_width))
<1>1. /\ c.ROWADDR \in 11 .. 14 /\ c.COLADDR \in 8 .. 12
      /\ c.BANKS \in {2, 4} /\ c.BUSWIDTH \in {16, 32}
  BY DEF Documented
<1>2. /\ f = FwArgs(c)
      /\ bits = f.row_addr + f.col_addr /\ bits = c.ROWADDR + c.COLADDR /\ bits \in 19 .. 26
      /\ rest = (2 * (f.bank_num + 1)) * (2 * (2 - f.bus_width))
  BY <1>1 DEF FwArgs, Byte
<1>3. /\ f.bank_num = c.BANKS \div 4
      /\ f.bus_width = IF c.BUSWIDTH = 32 THEN 0 ELSE 1
  BY <1>1 DEF FwArgs, Byte
<1>4. rest = c.BANKS * (c.BUSWIDTH \div 8) /\ rest \in {4, 8, 16}
  <2> HIDE DEF f
  <2> QED
    BY <1>1, <1>3
<1>5. TotalMB(f) = (2^(bits - 10) * c.BANKS * (c.BUSWIDTH \div 8)) \div 2^10
  <2> HIDE DEF bits, rest, f
  <2>1. bits \in Nat /\ bits \in 1 .. 30
    BY <1>2
  <2>2. \/ bits \in 1 .. 19 /\ TotalMB(f) = (2^bits * rest) \div 2^20
        \/ bits \in 20 .. 30 /\ TotalMB(f) = (2^(bits - 20) * rest) % 2^12
    BY <1>2, <2>1, TotalMBCases
  <2>3. /\ 2^(bits - 10) \in Nat
        /\ bits \in 1 .. 19 => (2^bits * rest) \div 2^20 = (2^(bits - 10) * rest) \div 2^10
        /\ bits \in 20 .. 30 =>
             (2^(bits - 20) * rest) % 2^12 = (2^(bits - 10) * rest) \div 2^10
    BY <1>2, <1>4, SizeOf, Zenon
  <2>4. TotalMB(f) = (2^(bits - 10) * rest) \div 2^10
    BY <2>2, <2>3, Zenon
  <2>5. c.BANKS \in Nat /\ c.BUSWIDTH \div 8 \in Nat
    BY <1>1
  <2>6. \A x, y, z \in Nat : x * y * z = x * (y * z)
    BY SMT
  <2>7. 2^(bits - 10) * c.BANKS * (c.BUSWIDTH \div 8) = 2^(bits - 10) * rest
    BY <1>4, <2>3, <2>5, <2>6, Zenon
  <2> QED
    BY <2>4, <2>7, Zenon
<1>6. bits - 10 = c.ROWADDR + c.COLADDR - 10
  BY <1>1
<1> QED
  <2> HIDE DEF bits, rest
  <2> QED
    BY <1>5, <1>6, Zenon

\* The size that a successful run has printed is the size of the memory described, for
\* every set of boards and all faults.
THEOREM SizeIsExactHolds == Spec => []SizeIsExact
<1>1. Init => SizeInv
  BY DEF SizeInv, Init, Succeeded
<1>2. ASSUME SizeInv, [Next]_vars PROVE SizeInv'
  BY <1>2 DEF SizeInv, Succeeded, Next, patch_fw, ParseConfigure, WriteHand, WriteFw,
              PatchFw, PatchUsb, Exit, vars, files
<1>3. SizeInv => SizeIsExact
  BY DocumentedSize DEF SizeInv, SizeIsExact
<1> QED
  BY <1>1, <1>2, <1>3, PTL DEF Spec
-----------------------------------------------------------------------------
(***************************************************************************)
(* What stage 1 of the JZ4755 makes of the clocks that the tool accepts.   *)
(***************************************************************************)

\* The fw_args in the program are those of configurations that were accepted.
ArgsAccepted ==
  SdrArgs \subseteq {FwArgs(c) : c \in {d \in Configs : parse_configure(d) = "ok"}}

\* What load_args makes of the fw_args.
Loaded ==
  /\ sdr_extal = IF args.ext_clk = 19 THEN 19200 ELSE args.ext_clk * 1000
  /\ sdr_speed = IF args.ext_clk = 19 THEN 192000
                 ELSE args.cpu_speed * args.ext_clk * 1000

\* What jz4755_pll_init leaves if it does not trap.
ClocksSet ==
  /\ sdr_speed >= 1000
  /\ cpccr = [mdiv |-> n2FR(args.phm_div), udiv |-> UDiv(sdr_speed)]
  /\ pllm = ((sdr_speed * 2) \div sdr_extal - 2) % 512

\* And jz4755_sdram_init.
SdramSet ==
  SdrClk >= 1000 /\ dmcr = get_sdram_configure(SdrClk) /\ rtcor = 11

\* The inductive invariant: what each step has left is still there.
SetUpInv ==
  /\ args \in SdrArgs
  /\ sdr_pc \in {"pll", "sdram", "test", "pass", "fail"} => Loaded
  /\ sdr_pc \in {"sdram", "test", "pass", "fail"} => ClocksSet
  /\ sdr_pc \in {"test", "pass", "fail"} => SdramSet

\* The invariant is kept by every step.
LEMMA StepSetUp == SetUpInv /\ [SdrNext]_sdrVars => SetUpInv'
<1> SUFFICES ASSUME SetUpInv, [SdrNext]_sdrVars PROVE SetUpInv'
  OBVIOUS
<1> USE DEF SetUpInv
<1>1. CASE sdr_load_args
  BY <1>1, SMT DEF sdr_load_args, Loaded
<1>2. CASE jz4755_pll_init
  <2>1. /\ args' = args /\ sdr_extal' = sdr_extal /\ sdr_speed' = sdr_speed
        /\ sdr_pc' \in {"sdram", "trap"}
    BY <1>2 DEF jz4755_pll_init
  <2>2. Loaded'
    BY <1>2, <2>1, SMT DEF jz4755_pll_init, Loaded
  <2>3. ASSUME sdr_pc' = "sdram" PROVE ClocksSet'
    <3>1. args.ext_clk \in 0 .. 255 /\ args.cpu_speed \in 0 .. 255
      BY SdrAssumptions
    <3>2. sdr_speed \in Nat
      <4>1. sdr_speed = IF args.ext_clk = 19 THEN 192000
                        ELSE args.cpu_speed * args.ext_clk * 1000
        BY <1>2, SMT DEF jz4755_pll_init, Loaded
      <4> DEFINE x == args.ext_clk
                 m == args.cpu_speed
      <4> HIDE DEF x, m
      <4>2. m \in Nat /\ x \in Nat
        BY <3>1 DEF m, x
      <4>3. m * x * 1000 \in Nat
        BY <4>2, SMT
      <4> QED
        BY <4>1, <4>3, SMT DEF x, m
    <3>3. ~ (sdr_speed < 1000)
      BY <1>2, <2>3, SMT DEF jz4755_pll_init
    <3>4. sdr_speed >= 1000
      BY <3>2, <3>3, SMT
    <3>5. /\ cpccr' = [mdiv |-> n2FR(args.phm_div), udiv |-> UDiv(sdr_speed)]
          /\ pllm' = ((sdr_speed * 2) \div sdr_extal - 2) % 512
      BY <1>2, SMT DEF jz4755_pll_init
    <3> QED
      BY <2>1, <3>4, <3>5, SMT DEF ClocksSet
  <2> QED
    BY <2>1, <2>2, <2>3
<1>3. CASE jz4755_sdram_init
  <2>1. UNCHANGED <<args, sdr_extal, sdr_speed, cpccr, pllm>>
    BY <1>3 DEF jz4755_sdram_init
  <2>2. Loaded' /\ ClocksSet'
    BY <1>3, <2>1, SMT DEF jz4755_sdram_init, Loaded, ClocksSet
  <2>3. SdrClk = PllClock(pllm) \div div_matrix[cpccr.mdiv + 1] /\ SdrClk' = SdrClk
    BY <2>1, SMT DEF SdrClk, SdrPll, PllClock
  <2>4. sdr_pc' \in {"test", "trap"} /\ (sdr_pc' = "test" => SdramSet')
    BY <1>3, <2>3, SMT DEF jz4755_sdram_init, SdramSet
  <2> QED
    BY <2>1, <2>2, <2>4
<1>4. ASSUME UNCHANGED <<args, sdr_extal, sdr_speed, cpccr, pllm, dmcr, rtcor>>
      PROVE  /\ args' = args
             /\ Loaded' = Loaded /\ ClocksSet' = ClocksSet /\ SdramSet' = SdramSet
  BY <1>4, SMT DEF Loaded, ClocksSet, SdramSet, SdrClk, SdrPll
<1>5. CASE SdrEnds
  BY <1>4, <1>5 DEF SdrEnds
<1>6. CASE UNCHANGED bootVars
  BY <1>4, <1>6 DEF bootVars
<1> QED
  BY <1>1, <1>2, <1>3, <1>5, <1>6 DEF SdrNext, sdrVars

\* A product grows with its factors.
LEMMA TimesGrows ==
  ASSUME NEW a \in Nat, NEW b \in Nat, NEW k \in Nat, a <= b
  PROVE  a * k <= b * k
<1>1. PICK e \in Nat : b = a + e
  <2>1. b - a \in Nat /\ b = a + (b - a)
    OBVIOUS
  <2> QED
    BY <2>1
<1>2. b * k = a * k + e * k
  BY <1>1
<1>3. a * k \in Nat /\ e * k \in Nat
  BY <1>1
<1> QED
  BY <1>2, <1>3

\* A product is divided by one of its factors.
LEMMA Quotient ==
  ASSUME NEW c \in Nat, NEW d \in Nat \ {0}
  PROVE  (c * d) \div d = c
<1> DEFINE q == (c * d) \div d
<1>1. q \in Nat /\ q * d <= c * d /\ c * d < q * d + d
  OBVIOUS
<1> HIDE DEF q
<1>2. q <= c
  <2>1. SUFFICES ASSUME c + 1 <= q PROVE FALSE
    BY <1>1
  <2>2. (c + 1) * d <= q * d /\ (c + 1) * d = c * d + d
    BY <1>1, <2>1, TimesGrows
  <2> QED
    BY <1>1, <2>2
<1>3. c <= q
  <2>1. SUFFICES ASSUME q + 1 <= c PROVE FALSE
    BY <1>1
  <2>2. (q + 1) * d <= c * d /\ (q + 1) * d = q * d + d
    BY <1>1, <2>1, TimesGrows
  <2> QED
    BY <1>1, <2>2
<1> QED
  BY <1>1, <1>2, <1>3 DEF q

\* The crystal is an allowed one, and the PLL a multiple of 12 MHz that a byte holds.
LEMMA ArgsValid ==
  ASSUME ArgsAccepted, ClockOptions, NEW f \in SdrArgs
  PROVE  /\ f.ext_clk \in 12 .. 27
         /\ f.cpu_speed \in 0 .. 255
         /\ f.cpu_speed * f.ext_clk \in 0 .. 255
         /\ (f.cpu_speed * f.ext_clk) % 12 = 0
<1>1. PICK c \in Configs : parse_configure(c) = "ok" /\ f = FwArgs(c)
  BY DEF ArgsAccepted
<1>2. PllValid(f)
  BY <1>1 DEF parse_configure
<1>3. f.ext_clk \in 12 .. 27 /\ (f.cpu_speed * f.ext_clk) % 12 = 0
  BY <1>2 DEF PllValid
<1>4. f.ext_clk = Byte(c.EXTCLK) /\ f.cpu_speed = Byte(c.CPUSPEED) \div Byte(c.EXTCLK)
  BY <1>1 DEF FwArgs
<1>5. Byte(c.CPUSPEED) \in 0 .. 255
  BY DEF ClockOptions, Byte
<1> DEFINE b == Byte(c.CPUSPEED)
           e == f.ext_clk
<1>6. f.cpu_speed = b \div e
  BY <1>4
<1> HIDE DEF b, e
<1>7. b \in 0 .. 255 /\ e \in 12 .. 27
  BY <1>3, <1>5 DEF b, e
<1>8. b \div e \in 0 .. 255 /\ (b \div e) * e \in 0 .. 255
  BY <1>7
<1>9. f.cpu_speed * f.ext_clk = (b \div e) * e
  BY <1>6 DEF e
<1> QED
  BY <1>3, <1>6, <1>8, <1>9

\* The divisors that the hardware has are found again.
LEMMA DivisorFound ==
  ASSUME NEW n
  PROVE  /\ n2FR(n) + 1 \in 1 .. 10
         /\ div_matrix[n2FR(n) + 1] \in Nat \ {0}
         /\ n \in {div_matrix[k] : k \in DOMAIN div_matrix} =>
              div_matrix[n2FR(n) + 1] = n
<1>1. DOMAIN div_matrix = 1 .. 10
  BY DEF div_matrix
<1>2. \A k \in 1 .. 10 : div_matrix[k] \in Nat \ {0}
  BY DEF div_matrix
<1>3. CASE \E k \in DOMAIN div_matrix : div_matrix[k] = n
  <2> DEFINE k == CHOOSE k \in DOMAIN div_matrix : div_matrix[k] = n
  <2>1. k \in DOMAIN div_matrix /\ div_matrix[k] = n
    BY <1>3
  <2>2. n2FR(n) = k - 1
    BY <1>3 DEF n2FR
  <2> HIDE DEF k
  <2>3. n2FR(n) + 1 = k
    BY <1>1, <2>1, <2>2
  <2> QED
    BY <1>1, <1>2, <2>1, <2>3
<1>4. CASE ~ \E k \in DOMAIN div_matrix : div_matrix[k] = n
  <2>1. n2FR(n) = 0
    BY <1>4 DEF n2FR
  <2> QED
    BY <1>2, <1>4, <2>1
<1> QED
  BY <1>3, <1>4

\* The PLL gives what was asked for, n times 12 MHz, and the divisor of the USB
\* clock fits it.
LEMMA PllIsSet ==
  ASSUME ArgsAccepted, ClockOptions, SetUpInv, Loaded, ClocksSet
  PROVE  \E n \in 1 .. 21 : /\ sdr_speed = 12000 * n
                            /\ SdrPll = sdr_speed
                            /\ cpccr.udiv = n - 1
<1> DEFINE x == args.ext_clk
           m == args.cpu_speed
<1>1. x \in 12 .. 27 /\ m \in 0 .. 255 /\ m * x \in 0 .. 255 /\ (m * x) % 12 = 0
  BY ArgsValid DEF SetUpInv
<1>2. sdr_extal = (IF x = 19 THEN 19200 ELSE x * 1000)
      /\ sdr_speed = (IF x = 19 THEN 192000 ELSE m * x * 1000)
  BY SMT DEF Loaded
<1>3. /\ sdr_speed >= 1000
      /\ cpccr.udiv = UDiv(sdr_speed)
      /\ pllm = ((sdr_speed * 2) \div sdr_extal - 2) % 512
  BY SMT DEF ClocksSet
<1> HIDE DEF x, m
<1>4. PICK n \in 1 .. 21 : sdr_speed = 12000 * n
  <2>1. CASE x = 19
    <3>1. sdr_speed = 12000 * 16
      BY <1>2, <2>1, SMT
    <3> QED
      BY <3>1, SMT
  <2>2. CASE x # 19
    <3> DEFINE p == m * x
    <3>1. sdr_speed = p * 1000 /\ p \in 0 .. 255 /\ p % 12 = 0
      BY <1>1, <1>2, <2>2, SMT
    <3> HIDE DEF p
    <3>2. p # 0
      BY <1>3, <3>1, SMT
    <3>3. p = 12 * (p \div 12) /\ p \div 12 \in 1 .. 21
      BY <3>1, <3>2, SMT
    <3>4. sdr_speed = 12000 * (p \div 12)
      BY <3>1, <3>3, SMT
    <3> QED
      BY <3>3, <3>4, SMT
  <2> QED
    BY <2>1, <2>2
<1>5. cpccr.udiv = n - 1
  <2>1. UDiv(12000 * n) = n - 1
    BY SMT DEF UDiv
  <2> QED
    BY <1>3, <1>4, <2>1, SMT
<1>6. SdrPll = sdr_speed
  <2>1. CASE x = 19
    <3>1. sdr_speed = 192000 /\ sdr_extal = 19200
      BY <1>2, <2>1, SMT
    <3>2. pllm = 18
      BY <1>3, <3>1, SMT
    <3> QED
      BY <3>1, <3>2, SMT DEF SdrPll
  <2>2. CASE x # 19
    <3>1. sdr_extal = x * 1000 /\ sdr_speed = (m * x) * 1000
      BY <1>1, <1>2, <2>2, SMT
    <3>2. (sdr_speed * 2) \div sdr_extal = 2 * m
      <4>1. sdr_speed * 2 = (2 * m) * (x * 1000)
        BY <1>1, <3>1, SMT
      <4>2. 2 * m \in Nat /\ x * 1000 \in Nat \ {0}
        BY <1>1, SMT
      <4>3. ((2 * m) * (x * 1000)) \div (x * 1000) = 2 * m
        BY <4>2, Quotient, SMT
      <4> QED
        BY <3>1, <4>1, <4>3, SMT
    <3>3. m \in 1 .. 255
      <4>1. m # 0
        BY <1>1, <1>3, <3>1, SMT
      <4> QED
        BY <1>1, <4>1
    <3>4. pllm + 2 = 2 * m
      BY <1>3, <3>2, <3>3, SMT
    <3>5. sdr_extal * (pllm + 2) = 2 * ((m * x) * 1000)
      BY <1>1, <3>1, <3>4, SMT
    <3>6. (2 * ((m * x) * 1000)) \div 2 = (m * x) * 1000
      BY <1>1, SMT
    <3> QED
      BY <3>1, <3>5, <3>6, SMT DEF SdrPll
  <2> QED
    BY <2>1, <2>2
<1> QED
  BY <1>4, <1>5, <1>6
\* The most that a time of t ns takes at k MHz, counted in whole cycles of whole ps
\* and cut off at hi: one cycle more covers it.
CoversOneMore(t, k, hi) ==
  LET c == AtMost((t * 1000) \div (1000000 \div k), hi)
  IN  c \in Nat /\ (c + 1) * 1000000 >= t * (1000 * k)

\* It does, if hi + 1 cycles do.
LEMMA OneMore ==
  ASSUME NEW t \in Nat, NEW k \in 1 .. 200, NEW hi \in Nat, t * k <= (hi + 1) * 1000
  PROVE  CoversOneMore(t, k, hi)
<1> DEFINE ps == 1000000 \div k
           n == (t * 1000) \div ps
           c == AtMost(n, hi)
<1>1. ps \in Nat /\ ps >= 5000 /\ ps * k <= 1000000
  BY SMT
<1> HIDE DEF ps
<1>2. n \in Nat /\ t * 1000 <= (n + 1) * ps
  BY <1>1, SMT
<1> HIDE DEF n
<1>3. (t * 1000) * k <= (n + 1) * 1000000
  <2>1. (t * 1000) * k <= ((n + 1) * ps) * k
    <3>1. t * 1000 \in Nat /\ (n + 1) * ps \in Nat /\ k \in Nat
      BY <1>1, <1>2, SMT
    <3> QED
      BY <1>2, <3>1, TimesGrows, SMT
  <2>2. ((n + 1) * ps) * k = (ps * k) * (n + 1)
    BY <1>1, <1>2, SMT
  <2>3. (ps * k) * (n + 1) <= 1000000 * (n + 1)
    <3>1. ps * k \in Nat /\ n + 1 \in Nat /\ 1000000 \in Nat
      BY <1>1, <1>2, SMT
    <3> QED
      BY <1>1, <3>1, TimesGrows, SMT
  <2>4. (t * 1000) * k \in Nat /\ (ps * k) * (n + 1) \in Nat /\ n + 1 \in Nat
    BY <1>1, <1>2, SMT
  <2> QED
    BY <2>1, <2>2, <2>3, <2>4, SMT
<1>4. (t * 1000) * k = t * (1000 * k) /\ (t * 1000) * k = 1000 * (t * k) /\ t * k \in Nat
  BY SMT
<1>5. CASE n <= hi
  <2>1. c = n
    BY <1>2, <1>5, SMT DEF AtMost
  <2> QED
    BY <1>2, <1>3, <1>4, <2>1, SMT DEF CoversOneMore, n, ps
<1>6. CASE n > hi
  <2>1. c = hi
    BY <1>2, <1>6, SMT DEF AtMost
  <2>2. t * (1000 * k) <= (hi + 1) * 1000000
    BY <1>4, SMT
  <2> QED
    BY <2>1, <2>2, SMT DEF CoversOneMore, n, ps
<1> QED
  BY <1>2, <1>5, <1>6, SMT

\* The times of the memory, with the limits of their fields.
LEMMA TimesCovered ==
  ASSUME NEW k \in 1 .. 200
  PROVE  /\ CoversOneMore(20, k, 3) /\ CoversOneMore(20, k, 7)
         /\ CoversOneMore(7, k, 3) /\ CoversOneMore(65, k, 14)
<1>1. \A t, hi \in Nat : t * k <= (hi + 1) * 1000 => CoversOneMore(t, k, hi)
  BY OneMore
<1>2. /\ 20 * k <= (3 + 1) * 1000 /\ 20 * k <= (7 + 1) * 1000
      /\ 7 * k <= (3 + 1) * 1000 /\ 65 * k <= (14 + 1) * 1000
  BY SMT
<1> QED
  BY <1>1, <1>2, SMT

\* For every configuration that the tool accepts and every memory: the clocks are
\* those configured, and the memory gets its times and its refreshes.
THEOREM SdrSetUpHolds ==
  ASSUME ArgsAccepted, ClockOptions
  PROVE  SdrSpec => []SdrSetUp
<1>1. SdrInit => SetUpInv
  BY SMT DEF SdrInit, SetUpInv
<1>2. SetUpInv => SdrSetUp
  <2> SUFFICES ASSUME SetUpInv, sdr_pc \in {"test", "pass", "fail"} PROVE SdrSetUp
    BY SMT DEF SdrSetUp
  <2>1. PICK n \in 1 .. 21 : /\ sdr_speed = 12000 * n
                             /\ SdrPll = sdr_speed
                             /\ cpccr.udiv = n - 1
    BY PllIsSet DEF SetUpInv
  <2>2. SdrPll = sdr_speed /\ SdrPll = 12000 * (cpccr.udiv + 1)
    BY <2>1, SMT
  <2>3. cpccr.mdiv = n2FR(args.phm_div)
    BY SMT DEF SetUpInv, ClocksSet
  <2>4. args.phm_div \in {div_matrix[k] : k \in DOMAIN div_matrix} =>
          SdrClk = sdr_speed \div args.phm_div
    BY <2>1, <2>3, DivisorFound DEF SdrClk
  <2>5. SdrClk \in Nat /\ SdrClk >= 1000
    <3>1. SdrPll \in Nat
      BY <2>1, SMT
    <3> DEFINE d == div_matrix[cpccr.mdiv + 1]
    <3>2. d \in Nat \ {0}
      BY <2>3, DivisorFound
    <3>3. SdrClk = SdrPll \div d
      BY DEF SdrClk
    <3> HIDE DEF d
    <3>4. SdrClk \in Nat
      BY <3>1, <3>2, <3>3, SMT
    <3>5. SdrClk >= 1000
      BY SMT DEF SetUpInv, SdramSet
    <3> QED
      BY <3>4, <3>5
  <2>6. dmcr = get_sdram_configure(SdrClk) /\ rtcor = 11
    BY SMT DEF SetUpInv, SdramSet
  <2>7. ASSUME SdrClk <= 200000, SdrClk % 1000 = 0
        PROVE  /\ (dmcr.rcd + 1) * 1000000 >= SDRAM_RCD * SdrClk
               /\ (dmcr.tpc + 1) * 1000000 >= SDRAM_TPC * SdrClk
               /\ (dmcr.rwl + 1) * 1000000 >= SDRAM_TRWL * SdrClk
               /\ (2 * dmcr.rc + 1) * 1000000 >= (SDRAM_TRAS + SDRAM_TPC) * SdrClk
    <3> DEFINE k == SdrClk \div 1000
               cut(t, hi) == AtMost((t * 1000) \div (1000000 \div k), hi)
    <3>1. k \in 1 .. 200 /\ SdrClk = 1000 * k
      BY <2>5, <2>7, SMT
    <3>2. /\ dmcr.rcd = cut(20, 3) /\ dmcr.tpc = cut(20, 7) /\ dmcr.rwl = cut(7, 3)
          /\ dmcr.rc = (cut(65, 14) + 1) \div 2
      BY <2>6, SMT DEF get_sdram_configure, SDRAM_TRAS, SDRAM_RCD, SDRAM_TPC, SDRAM_TRWL
    <3> HIDE DEF k
    <3>3. /\ CoversOneMore(20, k, 3) /\ CoversOneMore(20, k, 7)
          /\ CoversOneMore(7, k, 3) /\ CoversOneMore(65, k, 14)
      BY <3>1, TimesCovered
    <3>4. /\ cut(20, 3) \in Nat /\ (cut(20, 3) + 1) * 1000000 >= 20 * (1000 * k)
          /\ cut(20, 7) \in Nat /\ (cut(20, 7) + 1) * 1000000 >= 20 * (1000 * k)
          /\ cut(7, 3) \in Nat /\ (cut(7, 3) + 1) * 1000000 >= 7 * (1000 * k)
          /\ cut(65, 14) \in Nat /\ (cut(65, 14) + 1) * 1000000 >= 65 * (1000 * k)
      BY <3>3, SMT DEF CoversOneMore
    <3> HIDE DEF cut
    <3>5. 2 * ((cut(65, 14) + 1) \div 2) + 1 >= cut(65, 14) + 1
      BY <3>4, SMT
    <3> QED
      BY <3>1, <3>2, <3>4, <3>5, SMT DEF SDRAM_TRAS, SDRAM_RCD, SDRAM_TPC, SDRAM_TRWL
  <2>8. SdrClk >= 46000 => rtcor * 64 * 1000 <= SDRAM_TREF * (SdrClk \div 1000)
    BY <2>5, <2>6, SMT DEF SDRAM_TREF
  <2> QED
    BY <2>2, <2>4, <2>7, <2>8, SMT DEF SdrSetUp
<1> QED
  BY <1>1, <1>2, StepSetUp, PTL DEF SdrSpec
=============================================================================
