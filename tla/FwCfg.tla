------------------------------- MODULE FwCfg -------------------------------
(***************************************************************************)
(* How a board's configuration file becomes firmware: patch_fw.sh runs     *)
(* fw_cfg_tool, which parses and checks the file and writes hand-X.bin and *)
(* hand-fw-X.bin, and then puts the latter at offset 8 of copies of the    *)
(* stage 1 and stage 2 programs.  All files stay in fw/ from one run to    *)
(* the next.                                                               *)
(***************************************************************************)
EXTENDS FwHand

CONSTANTS
  Configs,     \* the configuration files the user may have in fw/X.cfg
  Bases,       \* the RAM types for which fw/fw_<type>.bin exists
  Faults,      \* subset of {"file", "open", "write"}
  MaxRuns,     \* bound on the runs of patch_fw.sh
  NoFile,      \* a file that does not exist
  Short        \* a file cut short, or a patch from such a file

ASSUME FwCfgAssumptions ==
  /\ MaxRuns \in Nat
  /\ Faults \subseteq {"file", "open", "write"}

VARIABLES
  cfg,         \* fw/X.cfg during the latest run
  runs,        \* runs of patch_fw.sh so far
  pc,          \* place in patch_fw.sh and fw_cfg_tool
  status,      \* "ok" or how the latest run failed
  hand,        \* struct hand of fw_cfg_tool
  total_size,  \* SDRAM size that the tool prints, in MB
  handBin,     \* hand-X.bin
  fwBin,       \* hand-fw-X.bin
  fwPatched,   \* fw-cfg-X.bin: the program copied and the fw_args in it
  usbPatched   \* usb_boot-cfg-X.bin, likewise

files == <<handBin, fwBin, fwPatched, usbPatched>>
vars == <<cfg, runs, pc, status, hand, total_size, files>>

-----------------------------------------------------------------------------
(***************************************************************************)
(* patch_fw.sh, with main of fw_cfg_tool.                                  *)
(***************************************************************************)

\* A patched program that has not been made yet.
NoProgram == [base |-> NoFile, args |-> NoFile]

Init ==
  /\ cfg = NoFile
  /\ runs = 0
  /\ pc = "idle"
  /\ status = "ok"
  /\ hand = NoFile
  /\ total_size = 0
  /\ handBin = NoFile /\ fwBin = NoFile
  /\ fwPatched = NoProgram /\ usbPatched = NoProgram

\* The script ends; the caller sees whether it failed.
Exit(how) == pc' = "idle" /\ status' = how

\* patch_fw.sh starts; without fw/X.cfg it exits with status 1.
patch_fw(c) ==
  /\ pc = "idle" /\ runs < MaxRuns
  /\ runs' = runs + 1
  /\ cfg' = c
  /\ \/ pc' = "parse" /\ UNCHANGED status
     \/ "file" \in Faults /\ Exit("failed")
  /\ UNCHANGED <<hand, total_size, files>>

\* Mutant: fw_cfg_tool's failure does not end the script.
ParseConfigureNoExit ==
  /\ pc = "parse"
  /\ \/ /\ parse_configure(cfg) = "ok"
        /\ hand' = Hand(cfg)
        /\ total_size' = TotalMB(FwArgs(cfg))
        /\ pc' = "hand"
     \/ /\ parse_configure(cfg) # "ok"
        /\ pc' = "patch"
        /\ UNCHANGED <<hand, total_size>>
  /\ UNCHANGED <<cfg, runs, status, files>>

\* parse_configure fails (a file that cannot be parsed, a value that does not
\* pass) or succeeds; "../bin/fw_cfg_tool ${CONFIG} || exit" ends the script.
ParseConfigure ==
  /\ pc = "parse"
  /\ \/ /\ parse_configure(cfg) = "ok"
        /\ hand' = Hand(cfg)
        /\ total_size' = TotalMB(FwArgs(cfg))
        /\ pc' = "hand"
        /\ UNCHANGED status
     \/ /\ parse_configure(cfg) # "ok"
        /\ Exit(parse_configure(cfg))
        /\ UNCHANGED <<hand, total_size>>
     \/ /\ "file" \in Faults
        /\ Exit("refused")
        /\ UNCHANGED <<hand, total_size>>
  /\ UNCHANGED <<cfg, runs, files>>

\* What write() leaves in a file that has just been truncated: its result is
\* not looked at.
Written(content) == {content} \cup (IF "write" \in Faults THEN {Short} ELSE {})

WriteHand ==
  /\ pc = "hand"
  /\ \/ handBin' \in Written(hand) /\ pc' = "fw" /\ UNCHANGED status
     \/ "open" \in Faults /\ Exit("failed") /\ UNCHANGED handBin
  /\ UNCHANGED <<cfg, runs, hand, total_size, fwBin, fwPatched, usbPatched>>

WriteFw ==
  /\ pc = "fw"
  /\ \/ fwBin' \in Written(hand.fw_args) /\ pc' = "patch" /\ UNCHANGED status
     \/ "open" \in Faults /\ Exit("failed") /\ UNCHANGED fwBin
  /\ UNCHANGED <<cfg, runs, hand, total_size, handBin, fwPatched, usbPatched>>

\* What cp of the program `base` over the file `old` leaves: an earlier patch
\* stays when there is no such program.  cp's status is not looked at.
Copied(base, old) ==
  IF base \in Bases \cup {"usb_boot"} THEN [base |-> base, args |-> NoFile] ELSE old

\* What dd makes of it: it overwrites the fw_args, or creates a file that has
\* nothing else.
Patched(file) == [file EXCEPT !.args = fwBin]

PatchFw ==
  /\ pc = "patch"
  /\ fwPatched' = Patched(Copied(cfg.RAMTYPE, fwPatched))
  /\ pc' = "patchUsb"
  /\ UNCHANGED <<cfg, runs, status, hand, total_size, handBin, fwBin, usbPatched>>

\* The status of the script is that of this last dd.
PatchUsb ==
  /\ pc = "patchUsb"
  /\ usbPatched' = Patched(Copied("usb_boot", usbPatched))
  /\ Exit("ok")
  /\ UNCHANGED <<cfg, runs, hand, total_size, handBin, fwBin, fwPatched>>

Next ==
  \/ \E c \in Configs : patch_fw(c)
  \/ ParseConfigure \/ WriteHand \/ WriteFw \/ PatchFw \/ PatchUsb

Spec == Init /\ [][Next]_vars

-----------------------------------------------------------------------------
(***************************************************************************)
(* Properties.                                                             *)
(***************************************************************************)

\* The values that struct fw_args and the files can hold.
Bytes == 0 .. 255
Args == [ext_clk : Bytes, cpu_speed : Bytes, phm_div : Bytes, bus_width : {0, 1},
         bank_num : 0 .. 63, row_addr : Bytes, col_addr : Bytes]
Hands == [nand_ps : Nat, nand_os : Nat, nand_ppb : Nat, fw_args : Args]
Images == [base : Bases \cup {"usb_boot", NoFile}, args : Args \cup {NoFile, Short}]

\* Type correctness of the script's and the tool's state: in particular every
\* fw_args value that is written fits its unsigned char.
TypeOK ==
  /\ cfg \in Configs \cup {NoFile}
  /\ runs \in 0 .. MaxRuns
  /\ pc \in {"idle", "parse", "hand", "fw", "patch", "patchUsb"}
  /\ status \in {"ok", "refused", "crashed", "failed"}
  /\ hand \in Hands \cup {NoFile}
  /\ total_size \in -1 .. 4095
  /\ handBin \in Hands \cup {NoFile, Short}
  /\ fwBin \in Args \cup {NoFile, Short}
  /\ fwPatched \in Images
  /\ usbPatched \in Images

Succeeded == pc = "idle" /\ runs > 0 /\ status = "ok"

\* patch_fw.sh succeeds only with programs and a hand file made from the
\* configuration as it is now, though fw/ keeps those of earlier runs and a run
\* may end between any two of them.  (Given that writes do not fall short and
\* that RAMTYPE names an existing program: neither is noticed.)
PatchedForThisBoard ==
  Succeeded =>
    /\ handBin = Hand(cfg)
    /\ fwPatched = [base |-> cfg.RAMTYPE, args |-> FwArgs(cfg)]
    /\ usbPatched = [base |-> "usb_boot", args |-> FwArgs(cfg)]

\* An accepted CPUSPEED that fits the unsigned char reaches the firmware as
\* a multiple of 12 MHz that is less than one crystal step below it.
SpeedKept ==
  Succeeded /\ cfg.CPUSPEED < 256 =>
    LET mhz == hand.fw_args.cpu_speed * hand.fw_args.ext_clk
    IN  mhz % 12 = 0 /\ mhz <= cfg.CPUSPEED /\ cfg.CPUSPEED < mhz + hand.fw_args.ext_clk

\* The size that check_dump_cfg prints is the size of the SDRAM described, for
\* the values the board files allow: the encodings of bus width and banks and
\* the 32-bit product lose nothing.
Documented(c) ==
  /\ c.ROWADDR \in 11 .. 14 /\ c.COLADDR \in 8 .. 12
  /\ c.BANKS \in {2, 4} /\ c.BUSWIDTH \in {16, 32}

SizeIsExact ==
  Succeeded /\ Documented(cfg) =>
    total_size = (2^(cfg.ROWADDR + cfg.COLADDR - 10) * cfg.BANKS
                    * (cfg.BUSWIDTH \div 8)) \div 2^10
=============================================================================
