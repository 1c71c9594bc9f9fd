---------------------------- MODULE BootSession ----------------------------
(***************************************************************************)
(* A session with a board: the scripts ingenic-boot, down_fw.sh and        *)
(* down2ram.sh call one host tool after the other, and the board goes from *)
(* its boot ROM through stage 1 to stage 2 and is rebooted.                *)
(*                                                                         *)
(* A tool makes a few USB transfers.  A control message ends for the host  *)
(* when the board takes it, before its handler has run (req).  Packets     *)
(* and the cut of an image into downloads are in module Stage2Sd, the      *)
(* making of the patched files in module FwCfg.                            *)
(***************************************************************************)
EXTENDS Integers, Sequences

CONSTANTS
  Configs,   \* board configurations
  CpuId,     \* the CPU_ID of each configuration
  Jobs,      \* scripts: records [config, check, unreadable, cmds], the first
             \* and second of the command line; unreadable if reads of the
             \* card may fail while the script runs
  Addrs,     \* addresses of memory that programs are downloaded to
  Faults,    \* subset of {"kill", "power", "read", "card", "stage1"}; "card" is
             \* a failing initialisation or write
  MaxRuns,   \* bound on the number of scripts run
  Junk,      \* contents that no script sent
  Unset      \* a pointer, structure or request that has no value

\* The chips whose drivers Borad_Init knows.
CpuIds == {4740, 4750, 4760, 4770}

\* A file is the program or image and the configuration it was patched for.
File(name, c) == [name |-> name, config |-> c]

ASSUME SessionAssumptions ==
  /\ CpuId \in [Configs -> Nat]
  /\ MaxRuns \in Nat
  /\ Faults \subseteq {"kill", "power", "read", "card", "stage1"}
  /\ \A j \in Jobs :
       j.config \in Configs /\ j.check \in BOOLEAN /\ j.unreadable \in BOOLEAN

VARIABLES
  \* the host
  job, step,     \* the script's command line and its current command
  t,             \* the transfer that command is at
  result,        \* "idle", "running", "done" or "failed"
  runs,
  clean,         \* history: the board was in its ROM and quiet when the script began
  \* the board
  mode,          \* "rom", "stage2", "hung", "wild" or "off"
  sdram,         \* stage 1 has set up the SDRAM
  mem,           \* what is at each of Addrs
  flushed,       \* the caches were flushed after the last download to memory
  start_addr,
  req,           \* a request that was acknowledged and not yet handled
  bufHead,       \* the file at the start of Bulk_out_buf
  Bulk_out_size, \* files in Bulk_out_buf since it was last emptied
  handshake,     \* a handshake waits in the IN FIFO
  Hand,          \* the hand file that config_hand has copied
  drivers,       \* the chip whose driver functions Borad_Init has set
  hw_reset,      \* the chip whose reset function it has set
  cardReady,     \* mmc_init found a card
  onCard         \* files programmed since the script began

hostVars == <<job, step, t, result, runs, clean>>
memVars == <<sdram, mem, flushed>>
stage2Vars == <<bufHead, Bulk_out_size, handshake, Hand, drivers, hw_reset, cardReady>>
boardVars == <<mode, memVars, start_addr, req, stage2Vars, onCard>>
vars == <<hostVars, boardVars>>

-----------------------------------------------------------------------------
(***************************************************************************)
(* The scripts, as sequences of tool commands.                             *)
(***************************************************************************)

Cmd(op, arg) == [op |-> op, arg |-> arg]

\* Mutant: the caches are not flushed before stage 2 is started.
down_fwNoFlush(c, base) ==
  << Cmd("probe", Unset), Cmd("addr", base), Cmd("if", File("fw", c)),
     Cmd("start1", base), Cmd("probe", Unset), Cmd("addr", base),
     Cmd("if", File("usb_boot", c)), Cmd("start2", base), Cmd("probe", Unset) >>

\* down_fw.sh: both programs go to 0x80002000 (base).
down_fw(c, base) ==
  << Cmd("probe", Unset), Cmd("addr", base), Cmd("if", File("fw", c)),
     Cmd("start1", base), Cmd("probe", Unset), Cmd("addr", base),
     Cmd("if", File("usb_boot", c)), Cmd("flush", Unset),
     Cmd("start2", base), Cmd("probe", Unset) >>

\* ingenic-boot with the images (of mbr, boot, system and data) that were
\* given, in this order.
ingenic_boot(c, base, images) ==
  << Cmd("patch", Unset) >>
    \o down_fw(c, base)
    \o << Cmd("config", File("hand", c)), Cmd("sdinit", Unset) >>
    \o [n \in 1 .. Len(images) |-> Cmd("sdif", File(images[n], c))]
    \o << Cmd("reboot", Unset) >>

\* ingenic-boot --probe.
probe_only == << Cmd("probe", Unset) >>

\* down2ram.sh: a program of the user's instead of stage 2.
down2ram(c, base, downto, runat) ==
  << Cmd("patch", Unset), Cmd("probe", Unset), Cmd("addr", base),
     Cmd("if", File("fw", c)), Cmd("start1", base), Cmd("probe", Unset),
     Cmd("addr", downto), Cmd("if", File("bin", c)), Cmd("flush", Unset),
     Cmd("start2", runat) >>

\* The transfers of a tool command.  "check" is the read-back of sdif.
Transfers(op) ==
  CASE op = "patch"                                        -> <<"files">>
    [] op = "probe"                                        -> <<"in">>
    [] op \in {"addr", "flush", "start1", "start2", "reboot"} -> <<"ctl">>
    [] op = "if"                                           -> <<"data">>
    [] op = "config"                                       -> <<"data", "ctl", "ack">>
    [] op = "sdinit"                                       -> <<"ctl", "ack">>
    [] op = "sdif"                                         -> <<"data", "ctl", "ack", "check">>

cmd == job.cmds[step]
Doing(transfer) == result = "running" /\ Transfers(cmd.op)[t] = transfer

-----------------------------------------------------------------------------
(***************************************************************************)
(* The host.                                                               *)
(***************************************************************************)

\* The transfer succeeded: the next one, the next command, or "Done.".
Proceed ==
  /\ IF t < Len(Transfers(cmd.op))
     THEN t' = t + 1 /\ UNCHANGED <<step, result>>
     ELSE IF step < Len(job.cmds)
     THEN t' = 1 /\ step' = step + 1 /\ UNCHANGED result
     ELSE result' = "done" /\ UNCHANGED <<t, step>>
  /\ UNCHANGED <<job, runs, clean>>

\* Mutant: the script does not look at the status of the tool.
GoOn ==
  /\ IF step < Len(job.cmds)
     THEN t' = 1 /\ step' = step + 1 /\ UNCHANGED result
     ELSE result' = "done" /\ UNCHANGED <<t, step>>
  /\ UNCHANGED <<job, runs, clean>>

\* The tool returns an error and "|| exit" ends the script.
Fail ==
  /\ result' = "failed"
  /\ UNCHANGED <<job, step, t, runs, clean>>

\* The user starts a script.
StartScript(j) ==
  /\ result # "running" /\ runs < MaxRuns
  /\ runs' = runs + 1
  /\ job' = j /\ step' = 1 /\ t' = 1 /\ result' = "running"
  /\ clean' = (mode = "rom" /\ req = Unset)
  /\ onCard' = {}
  /\ UNCHANGED <<mode, memVars, start_addr, req, stage2Vars>>

\* patch_fw.sh succeeds, with all files made from the configuration, or fails.
PatchFirmware ==
  /\ Doing("files")
  /\ Proceed \/ Fail
  /\ UNCHANGED boardVars

\* dev_init finds the board; a board that runs wild may still answer.
Answers == mode \in {"rom", "stage2", "wild"} /\ req = Unset

\* What read() brings of a file: an error only prints a message.
ReadFile(f) == {f} \cup (IF "read" \in Faults THEN {Junk} ELSE {})

\* probe: both the ROM and stage 2 answer with a name that the tool knows.
usb_get_ingenic_cpu ==
  /\ Doing("in") /\ Answers
  /\ Proceed
  /\ UNCHANGED boardVars

\* The requests that a board in its ROM knows.
RomRequests == {"addr", "flush", "start1", "start2"}

usb_control_msg ==
  /\ Doing("ctl") /\ Answers
  /\ mode = "rom" => cmd.op \in RomRequests
  /\ req' = cmd
  /\ Proceed
  /\ UNCHANGED <<mode, memVars, start_addr, stage2Vars, onCard>>

\* The ROM stalls a request that it does not know.
Stalled ==
  /\ Doing("ctl") /\ Answers
  /\ mode = "rom" /\ cmd.op \notin RomRequests
  /\ Fail
  /\ UNCHANGED boardVars

\* The ROM stores the data at the address set.  Before the SDRAM works there is
\* only the cache, which the stage 1 program fits.
RomStores(f) ==
  /\ mode = "rom"
  /\ start_addr \in Addrs
  /\ mem' = [mem EXCEPT ![start_addr] =
               IF sdram \/ f = Junk THEN f ELSE IF f.name = "fw" THEN f ELSE Junk]
  /\ flushed' = FALSE
  /\ UNCHANGED <<sdram, bufHead, Bulk_out_size>>

\* EPOUT_Handler stores it behind what Bulk_out_buf holds.
Stage2Stores(f) ==
  /\ mode = "stage2"
  /\ bufHead' = IF Bulk_out_size = 0 THEN f ELSE bufHead
  /\ Bulk_out_size' = Bulk_out_size + 1
  /\ UNCHANGED memVars

WildStores == mode = "wild" /\ UNCHANGED <<memVars, bufHead, Bulk_out_size>>

usb_send_data_to_ingenic ==
  /\ Doing("data") /\ Answers
  /\ \E f \in ReadFile(cmd.arg) : RomStores(f) \/ Stage2Stores(f) \/ WildStores
  /\ Proceed
  /\ UNCHANGED <<mode, start_addr, req, handshake, Hand, drivers, hw_reset,
                 cardReady, onCard>>

\* The handshake's contents are not looked at.
usb_read_data_from_ingenic ==
  /\ Doing("ack")
  /\ handshake \/ mode = "wild"
  /\ handshake' = FALSE
  /\ Proceed
  /\ UNCHANGED <<mode, memVars, start_addr, req, bufHead, Bulk_out_size, Hand,
                 drivers, hw_reset, cardReady, onCard>>

\* What is read back is the image: it is on the card (which, when the script
\* began, held other data in its place), or mmc_block_readm fails and CARD_READ
\* sends what an earlier one left in Bulk_in_buf (followed in Stage2Sd).
ReadsImage ==
  \/ mode = "wild"
  \/ mode = "stage2" /\ (cmd.arg \in onCard \/ job.unreadable)

\* It is not, or the ROM stalls the request.
ReadsOther ==
  \/ mode \in {"rom", "wild"}
  \/ mode = "stage2" /\ (cmd.arg \notin onCard \/ job.unreadable)

\* With check the image is read back and compared.
CheckImage ==
  /\ Doing("check")
  /\ \/ ~ job.check /\ Proceed
     \/ job.check /\ Answers /\ ReadsImage /\ Proceed
     \/ job.check /\ Answers /\ ReadsOther /\ Fail
  /\ UNCHANGED boardVars

\* Mutant: the tools wait without a limit for a board that has stopped.
TimedOutIfOff ==
  /\ result = "running" /\ ~ Doing("files")
  /\ mode = "off"
  /\ Fail
  /\ UNCHANGED boardVars

\* No answer within USB_TIMEOUT, or no device found: the board is off or
\* hung, or in its ROM and knows neither address nor handshake.
TimedOut ==
  /\ result = "running" /\ ~ Doing("files")
  /\ \/ mode \in {"hung", "off", "wild"}
     \/ Doing("data") /\ mode = "rom" /\ start_addr \notin Addrs
     \/ Doing("ack") /\ mode = "rom"
  /\ Fail
  /\ UNCHANGED boardVars

\* The user stops the script, or a transfer is given up after USB_TIMEOUT though
\* the board is only slow.
Kill ==
  /\ "kill" \in Faults /\ result = "running"
  /\ Fail
  /\ UNCHANGED boardVars

-----------------------------------------------------------------------------
(***************************************************************************)
(* The board.                                                              *)
(***************************************************************************)

\* The state of a board that has just been switched on in USB boot mode.
Switched ==
  /\ mode' = "rom" /\ sdram' = FALSE /\ flushed' = FALSE
  /\ mem' = [a \in Addrs |-> Junk]
  /\ start_addr' = Unset /\ req' = Unset
  /\ bufHead' = Junk /\ Bulk_out_size' = 0 /\ handshake' = FALSE
  /\ Hand' = Unset /\ drivers' = Unset /\ hw_reset' = Unset /\ cardReady' = FALSE

\* The user switches the board off and on, between scripts or (a fault) during one.
PowerCycle ==
  /\ result # "running" \/ "power" \in Faults
  /\ mode # "rom" \/ sdram \/ req # Unset
  /\ Switched
  /\ clean' = FALSE
  /\ UNCHANGED <<job, step, t, result, runs, onCard>>

Handling(op) == req # Unset /\ req.op = op /\ req' = Unset

\* SET_DATA_ADDERSS_Handle, and the same request in the ROM.
SetAddress ==
  /\ mode \in {"rom", "stage2"} /\ Handling("addr")
  /\ start_addr' = req.arg
  /\ UNCHANGED <<hostVars, mode, memVars, stage2Vars, onCard>>

\* FLUSH_CACHES: only the ROM does something.
FlushCaches ==
  /\ mode \in {"rom", "stage2"} /\ Handling("flush")
  /\ flushed' = (flushed \/ mode = "rom")
  /\ UNCHANGED <<hostVars, mode, sdram, mem, start_addr, stage2Vars, onCard>>

\* PROGRAM_START1 in the ROM: stage 1 sets up clocks and SDRAM and jumps back
\* into the ROM, or loops for ever.  Anything else that is started runs wild.
RomStart1 ==
  /\ mode = "rom" /\ Handling("start1")
  /\ LET f == mem[req.arg]
     IN  IF f # Junk /\ f.name = "fw"
         THEN \/ mode' = "rom" /\ sdram' = TRUE
              \/ "stage1" \in Faults /\ mode' = "hung" /\ UNCHANGED sdram
         ELSE mode' = "wild" /\ UNCHANGED sdram
  /\ UNCHANGED <<hostVars, mem, flushed, start_addr, stage2Vars, onCard>>

\* PROGRAM_START2 in the ROM: c_main of stage 2 corrects its GOT and calls
\* usb_main.  A program of the user's is no longer on the USB.
RomStart2 ==
  /\ mode = "rom" /\ Handling("start2")
  /\ LET f == mem[req.arg]
     IN  mode' = IF ~flushed \/ f = Junk THEN "wild"
                 ELSE CASE f.name = "usb_boot" -> "stage2"
                        [] f.name = "bin"      -> "off"
                        [] OTHER               -> "wild"
  /\ bufHead' = Junk /\ Bulk_out_size' = 0 /\ handshake' = FALSE
  /\ Hand' = Unset /\ drivers' = Unset /\ hw_reset' = Unset /\ cardReady' = FALSE
  /\ UNCHANGED <<hostVars, memVars, start_addr, onCard>>

\* PROGRAM_START1_Handle: remembers the address for a NAND request.
PROGRAM_START1_Handle ==
  /\ mode = "stage2" /\ Handling("start1")
  /\ UNCHANGED <<hostVars, mode, memVars, start_addr, stage2Vars, onCard>>

\* PROGRAM_START2_Handle jumps to the address.  What the host sent is in
\* Bulk_out_buf; at the address is stage 2 itself, whose GOT c_main would
\* correct a second time, or what was there before.
PROGRAM_START2_Handle ==
  /\ mode = "stage2" /\ Handling("start2")
  /\ mode' = "wild"
  /\ UNCHANGED <<hostVars, memVars, start_addr, stage2Vars, onCard>>

\* The cpu_id that a file has where the hand structure has it.
CpuIdsIn(f) ==
  IF f # Junk /\ f.name = "hand" THEN {CpuId[f.config]} ELSE CpuIds \cup {0}

\* Mutant: a break is missing, and the JZ4750 gets the functions of the JZ4760.
Borad_InitFallsThrough(cpu) ==
  IF cpu \in CpuIds
  THEN /\ drivers' = IF cpu = 4750 THEN 4760 ELSE cpu
       /\ hw_reset' = IF cpu = 4740 THEN hw_reset ELSE drivers'
       /\ UNCHANGED mode
  ELSE /\ mode' = IF drivers = Unset THEN "wild" ELSE mode
       /\ UNCHANGED <<drivers, hw_reset>>

\* Mutant: an unknown cpu_id is taken like one that is known.
Borad_InitAny(cpu) ==
  /\ drivers' = cpu
  /\ hw_reset' = IF cpu = 4740 THEN hw_reset ELSE cpu
  /\ UNCHANGED mode

\* Borad_Init sets the functions of a chip it knows, except that the JZ4740
\* has no hw_reset, and calls nand_enable.
Borad_Init(cpu) ==
  IF cpu \in CpuIds
  THEN /\ drivers' = cpu
       /\ hw_reset' = IF cpu = 4740 THEN hw_reset ELSE cpu
       /\ UNCHANGED mode
  ELSE /\ mode' = IF drivers = Unset THEN "wild" ELSE mode
       /\ UNCHANGED <<drivers, hw_reset>>

\* CONFIGRATION_Handle: config_hand copies from the start of Bulk_out_buf.
CONFIGRATION_Handle ==
  /\ mode = "stage2" /\ Handling("config")
  /\ Hand' = bufHead
  /\ \E cpu \in CpuIdsIn(bufHead) : Borad_Init(cpu)
  /\ handshake' = TRUE
  /\ Bulk_out_size' = 0
  /\ UNCHANGED <<hostVars, memVars, start_addr, bufHead, cardReady, onCard>>

\* NAND_OPS_Handle, CARD_INIT: the result only goes into the handshake.
CardInit ==
  /\ mode = "stage2" /\ Handling("sdinit")
  /\ \/ drivers = Unset /\ mode' = "wild" /\ UNCHANGED <<cardReady, handshake>>
     \/ /\ drivers # Unset
        /\ cardReady' \in (IF "card" \in Faults THEN BOOLEAN ELSE {TRUE})
        /\ handshake' = TRUE
        /\ UNCHANGED mode
  /\ Bulk_out_size' = 0
  /\ UNCHANGED <<hostVars, memVars, start_addr, bufHead, Hand, drivers, hw_reset, onCard>>

\* NAND_OPS_Handle, CARD_PROGRAM: likewise.
CardProgram ==
  /\ mode = "stage2" /\ Handling("sdif")
  /\ \/ drivers = Unset /\ mode' = "wild" /\ UNCHANGED <<onCard, handshake>>
     \/ /\ drivers # Unset
        /\ \/ cardReady /\ onCard' = onCard \cup {bufHead}
           \/ (~ cardReady \/ "card" \in Faults) /\ UNCHANGED onCard
        /\ handshake' = TRUE
        /\ UNCHANGED mode
  /\ Bulk_out_size' = 0
  /\ UNCHANGED <<hostVars, memVars, start_addr, bufHead, Hand, drivers, hw_reset, cardReady>>

\* SDRAM_OPS_Handle, DEVICE_RESET: the board goes down and does not come back
\* to this request.
DeviceReset ==
  /\ mode = "stage2" /\ Handling("reboot")
  /\ mode' = IF hw_reset = Unset THEN "wild" ELSE "off"
  /\ UNCHANGED <<hostVars, memVars, start_addr, stage2Vars, onCard>>

\* A board that runs wild may drop a request.
WildHandles ==
  /\ mode = "wild" /\ req # Unset /\ req' = Unset
  /\ UNCHANGED <<hostVars, mode, memVars, start_addr, stage2Vars, onCard>>

Board ==
  \/ SetAddress \/ FlushCaches \/ RomStart1 \/ RomStart2
  \/ PROGRAM_START1_Handle \/ PROGRAM_START2_Handle \/ CONFIGRATION_Handle
  \/ CardInit \/ CardProgram \/ DeviceReset \/ WildHandles

Host ==
  \/ PatchFirmware \/ usb_get_ingenic_cpu \/ usb_control_msg \/ Stalled
  \/ usb_send_data_to_ingenic \/ usb_read_data_from_ingenic \/ CheckImage \/ TimedOut

Next == (\E j \in Jobs : StartScript(j)) \/ Host \/ Kill \/ PowerCycle \/ Board

Init ==
  /\ job = Unset /\ step = 1 /\ t = 1 /\ result = "idle" /\ runs = 0 /\ clean = FALSE
  /\ mode = "rom" /\ sdram = FALSE /\ flushed = FALSE
  /\ mem = [a \in Addrs |-> Junk]
  /\ start_addr = Unset /\ req = Unset
  /\ bufHead = Junk /\ Bulk_out_size = 0 /\ handshake = FALSE
  /\ Hand = Unset /\ drivers = Unset /\ hw_reset = Unset /\ cardReady = FALSE
  /\ onCard = {}

Spec == Init /\ [][Next]_vars
FairSpec == Spec /\ WF_vars(Host) /\ WF_vars(Board)

-----------------------------------------------------------------------------
(***************************************************************************)
(* Properties.                                                             *)
(***************************************************************************)

Names == {"fw", "usb_boot", "bin", "hand", "mbr", "boot", "system", "data"}
Files == [name : Names, config : Configs]

\* Type correctness of the session: what is in memory, buffer and structures
\* came from a file, and a script's position is one of its transfers.
TypeOK ==
  /\ job \in Jobs \cup {Unset}
  /\ result \in {"idle", "running", "done", "failed"}
  /\ result = "running" => step \in 1 .. Len(job.cmds) /\ t \in 1 .. Len(Transfers(cmd.op))
  /\ runs \in 0 .. MaxRuns
  /\ clean \in BOOLEAN
  /\ mode \in {"rom", "stage2", "hung", "wild", "off"}
  /\ sdram \in BOOLEAN /\ flushed \in BOOLEAN
  /\ mem \in [Addrs -> Files \cup {Junk}]
  /\ start_addr \in Addrs \cup {Unset}
  /\ bufHead \in Files \cup {Junk}
  /\ Bulk_out_size \in Nat
  /\ handshake \in BOOLEAN
  /\ Hand \in Files \cup {Junk, Unset}
  /\ drivers \in CpuIds \cup {Unset} /\ hw_reset \in CpuIds \cup {Unset}
  /\ cardReady \in BOOLEAN
  /\ onCard \subseteq Files \cup {Junk}

\* The images that the script is to download.
Asked == {job.cmds[n].arg : n \in {m \in 1 .. Len(job.cmds) : job.cmds[m].op = "sdif"}}

\* In a script that found the board quiet in its ROM, whatever earlier scripts
\* left in its memory, the board never executes anything but a program that
\* was loaded for this run, on SDRAM that works and after the caches were
\* flushed, and never calls a driver function that Borad_Init has not set.
NeverStrays == clean => mode # "wild"

\* Such a script only writes its own images to the card, with the drivers of
\* its own configuration: Bulk_out_buf held nothing of an earlier transfer when
\* config_hand and CARD_PROGRAM used it.
WrittenForThisRun ==
  clean /\ onCard # {} =>
    /\ onCard \subseteq Asked
    /\ Hand = File("hand", job.config)
    /\ drivers = CpuId[job.config]

\* The script compares what it wrote, and the card can be read.
Verifies(j) == j.check /\ ~ j.unreadable

\* "Done." means that every image that was asked for is on the card, though
\* no tool looks at a handshake: with --check even if writing to the card
\* fails, as long as reading does not, and without it if writing does not.
DoneMeansDownloaded ==
  result = "done" /\ clean /\ (Verifies(job) \/ "card" \notin Faults) => Asked \subseteq onCard

\* Every script ends, whatever becomes of the board: each transfer is answered
\* or given up after USB_TIMEOUT.
ScriptEnds == (result = "running") ~> (result # "running")
=============================================================================
