--------------------------- MODULE SessionProofs ---------------------------
(***************************************************************************)
(* Proofs about the sessions of module BootSession, for every set of       *)
(* configurations, addresses and scripts, and every number of runs.        *)
(***************************************************************************)
EXTENDS BootSession, TLAPS

Ops == {"patch", "probe", "addr", "if", "flush", "start1", "start2", "config",
        "sdinit", "sdif", "reboot"}

\* Every command has the argument that its tool takes, and a value that stands
\* for none is not one of these.
JobsTyped ==
  /\ \A j \in Jobs :
       /\ Len(j.cmds) \in Nat \ {0}
       /\ \A n \in 1 .. Len(j.cmds) :
            /\ j.cmds[n].op \in Ops /\ j.cmds[n] # Unset
            /\ j.cmds[n].op = "addr" => j.cmds[n].arg \in Addrs
            /\ j.cmds[n].op \in {"if", "config", "sdif"} => j.cmds[n].arg \in Files
  /\ Unset \notin Jobs /\ Unset \notin Addrs /\ Unset \notin CpuIds
  /\ Junk \notin Files

-----------------------------------------------------------------------------
(***************************************************************************)
(* Types.                                                                  *)
(***************************************************************************)

\* The transfers that each tool makes.
LEMMA TransfersAre ==
  /\ Transfers("patch") = <<"files">> /\ Transfers("probe") = <<"in">>
  /\ \A op \in {"addr", "flush", "start1", "start2", "reboot"} : Transfers(op) = <<"ctl">>
  /\ Transfers("if") = <<"data">>
  /\ Transfers("config") = <<"data", "ctl", "ack">>
  /\ Transfers("sdinit") = <<"ctl", "ack">>
  /\ Transfers("sdif") = <<"data", "ctl", "ack", "check">>
BY DEF Transfers

\* How many transfers a command takes.
LEMMA TransferCount ==
  ASSUME NEW op \in Ops
  PROVE  /\ Len(Transfers(op)) \in 1 .. 4
         /\ Len(Transfers(op)) = CASE op = "config" -> 3 [] op = "sdinit" -> 2
                                   [] op = "sdif" -> 4   [] OTHER -> 1
<1>1. CASE op \in {"config", "sdinit", "sdif"}
  BY <1>1, TransfersAre
<1>2. CASE op \in {"patch", "probe", "if"}
  BY <1>2, TransfersAre
<1>3. CASE op \in {"addr", "flush", "start1", "start2", "reboot"}
  BY <1>3, TransfersAre
<1> QED
  BY <1>1, <1>2, <1>3 DEF Ops

\* The requests the board may have are those of some job.
TypeInv ==
  /\ TypeOK
  /\ result = "running" => job \in Jobs
  /\ req # Unset /\ req.op = "addr" => req.arg \in Addrs

\* The command under way is one of a job.
LEMMA RunningFacts ==
  ASSUME JobsTyped, TypeInv, result = "running"
  PROVE  /\ job \in Jobs /\ Len(job.cmds) \in Nat \ {0} /\ job.check \in BOOLEAN
         /\ step \in 1 .. Len(job.cmds) /\ step \in Nat
         /\ t \in 1 .. Len(Transfers(cmd.op)) /\ t \in Nat
         /\ Len(Transfers(cmd.op)) \in 1 .. 4
         /\ cmd.op \in Ops /\ cmd # Unset
         /\ cmd.op = "addr" => cmd.arg \in Addrs
         /\ cmd.op \in {"if", "config", "sdif"} => cmd.arg \in Files
<1>1. job \in Jobs /\ step \in 1 .. Len(job.cmds) /\ t \in 1 .. Len(Transfers(cmd.op))
  BY DEF TypeInv, TypeOK
<1>2. Len(job.cmds) \in Nat \ {0} /\ job.check \in BOOLEAN
  BY <1>1, SessionAssumptions DEF JobsTyped
<1>3. /\ cmd.op \in Ops /\ cmd # Unset
      /\ cmd.op = "addr" => cmd.arg \in Addrs
      /\ cmd.op \in {"if", "config", "sdif"} => cmd.arg \in Files
  BY <1>1 DEF JobsTyped, cmd
<1>4. Len(Transfers(cmd.op)) \in 1 .. 4
  BY <1>3, TransferCount
<1> QED
  BY <1>1, <1>2, <1>3, <1>4

\* Which commands make a transfer, and as their how manieth.
LEMMA DoingFacts ==
  ASSUME JobsTyped, TypeInv, NEW x, Doing(x)
  PROVE  /\ result = "running"
         /\ x = "files" => cmd.op = "patch" /\ t = 1
         /\ x = "in" => cmd.op = "probe" /\ t = 1
         /\ x = "ctl" => \/ cmd.op \in {"addr", "flush", "start1", "start2", "reboot", "sdinit"}
                            /\ t = 1
                         \/ cmd.op \in {"config", "sdif"} /\ t = 2
         /\ x = "data" => cmd.op \in {"if", "config", "sdif"} /\ t = 1
         /\ x = "ack" => \/ cmd.op = "sdinit" /\ t = 2
                         \/ cmd.op \in {"config", "sdif"} /\ t = 3
         /\ x = "check" => cmd.op = "sdif" /\ t = 4
<1> DEFINE op == cmd.op
<1>1. result = "running" /\ Transfers(op)[t] = x /\ op \in Ops /\ t \in 1 .. Len(Transfers(op))
  BY RunningFacts DEF Doing
<1> HIDE DEF op
<1>2. CASE op \in {"patch", "probe", "if"}
  BY <1>1, <1>2, TransfersAre DEF op
<1>3. CASE op \in {"addr", "flush", "start1", "start2", "reboot"}
  BY <1>1, <1>3, TransfersAre DEF op
<1>4. CASE op = "config"
  <2>1. Transfers(op) = <<"data", "ctl", "ack">>
    BY <1>4, TransfersAre
  <2>2. t \in 1 .. 3 /\ x = <<"data", "ctl", "ack">>[t]
    BY <1>1, <2>1
  <2>3. t = 1 \/ t = 2 \/ t = 3
    BY <2>2
  <2>4. (t = 1 => x = "data") /\ (t = 2 => x = "ctl") /\ (t = 3 => x = "ack")
    BY <2>2
  <2> QED
    BY <1>1, <1>4, <2>3, <2>4 DEF op
<1>5. CASE op = "sdinit"
  BY <1>1, <1>5, TransfersAre DEF op
<1>6. CASE op = "sdif"
  BY <1>1, <1>6, TransfersAre DEF op
<1> QED
  BY <1>1, <1>2, <1>3, <1>4, <1>5, <1>6 DEF Ops

\* The host's part of the types, when a transfer has succeeded or the script ends.
HostOK ==
  /\ job \in Jobs \cup {Unset}
  /\ result \in {"idle", "running", "done", "failed"}
  /\ result = "running" =>
       job \in Jobs /\ step \in 1 .. Len(job.cmds) /\ t \in 1 .. Len(Transfers(cmd.op))
  /\ runs \in 0 .. MaxRuns
  /\ clean \in BOOLEAN

\* The types of the host when it goes on or gives up.
LEMMA HostGoesOn ==
  ASSUME JobsTyped, TypeInv, result = "running", Proceed \/ Fail
  PROVE  HostOK'
<1>0. HostOK /\ job \in Jobs
  BY DEF TypeInv, TypeOK, HostOK
<1>1. CASE Fail
  BY <1>0, <1>1 DEF Fail, HostOK
<1>2. CASE Proceed
  <2>0. /\ job' = job /\ runs' = runs /\ clean' = clean
    BY <1>2 DEF Proceed
  <2>1. CASE t < Len(Transfers(cmd.op))
    <3>1. t' = t + 1 /\ step' = step /\ result' = result /\ cmd' = cmd
      BY <1>2, <2>0, <2>1 DEF Proceed, cmd
    <3>2. t' \in 1 .. Len(Transfers(cmd'.op))
      BY <2>1, <3>1, RunningFacts
    <3> QED
      BY <1>0, <2>0, <3>1, <3>2 DEF HostOK
  <2>2. CASE ~(t < Len(Transfers(cmd.op))) /\ step < Len(job.cmds)
    <3>1. t' = 1 /\ step' = step + 1 /\ result' = result
      BY <1>2, <2>2 DEF Proceed
    <3>2. step' \in 1 .. Len(job'.cmds)
      BY <2>0, <2>2, <3>1, RunningFacts
    <3>3. cmd'.op \in Ops
      BY <1>0, <2>0, <3>2 DEF JobsTyped, cmd
    <3>4. t' \in 1 .. Len(Transfers(cmd'.op))
      BY <3>1, <3>3, TransferCount
    <3> QED
      BY <1>0, <2>0, <3>1, <3>2, <3>4 DEF HostOK
  <2>3. CASE ~(t < Len(Transfers(cmd.op))) /\ ~(step < Len(job.cmds))
    <3>1. result' = "done"
      BY <1>2, <2>3 DEF Proceed
    <3> QED
      BY <1>0, <2>0, <3>1 DEF HostOK
  <2> QED
    BY <2>1, <2>2, <2>3
<1> QED
  BY <1>1, <1>2

\* The board's part of the types.
BoardOK ==
  /\ mode \in {"rom", "stage2", "hung", "wild", "off"}
  /\ sdram \in BOOLEAN /\ flushed \in BOOLEAN
  /\ mem \in [Addrs -> Files \cup {Junk}]
  /\ start_addr \in Addrs \cup {Unset}
  /\ req # Unset /\ req.op = "addr" => req.arg \in Addrs

Stage2OK ==
  /\ bufHead \in Files \cup {Junk}
  /\ Bulk_out_size \in Nat
  /\ handshake \in BOOLEAN
  /\ Hand \in Files \cup {Junk, Unset}
  /\ drivers \in CpuIds \cup {Unset} /\ hw_reset \in CpuIds \cup {Unset}
  /\ cardReady \in BOOLEAN
  /\ onCard \subseteq Files \cup {Junk}

\* The types, by who keeps the variables.
LEMMA TypeParts == TypeInv <=> HostOK /\ BoardOK /\ Stage2OK
BY DEF TypeInv, TypeOK, HostOK, BoardOK, Stage2OK

\* The same of the next state.
LEMMA TypePartsNext == HostOK' /\ BoardOK' /\ Stage2OK' => TypeInv'
BY DEF TypeInv, TypeOK, HostOK, BoardOK, Stage2OK

\* Steps of the others leave the host's types alone.
LEMMA HostSame == UNCHANGED hostVars /\ HostOK => HostOK'
BY DEF hostVars, HostOK, cmd

\* And the board's.
LEMMA BoardSame == UNCHANGED <<mode, memVars, start_addr, req>> /\ BoardOK => BoardOK'
BY DEF memVars, BoardOK

\* And those of stage 2 and of the card.
LEMMA Stage2Same == UNCHANGED <<stage2Vars, onCard>> /\ Stage2OK => Stage2OK'
BY DEF stage2Vars, Stage2OK

\* The types at the start.
THEOREM TypeInvInit == Init => TypeInv
<1> SUFFICES ASSUME Init PROVE TypeInv
  OBVIOUS
<1>0. 0 \in 0 .. MaxRuns
  BY SessionAssumptions
<1>1. HostOK
  BY <1>0 DEF Init, HostOK
<1>2. BoardOK
  BY DEF Init, BoardOK
<1>3. Stage2OK
  BY DEF Init, Stage2OK
<1> QED
  BY <1>1, <1>2, <1>3, TypeParts

\* The board is switched on again.
LEMMA SwitchedTypes == Switched => BoardOK'
BY DEF Switched, BoardOK

\* Every step keeps the types.
THEOREM TypeInvNext ==
  ASSUME JobsTyped, TypeInv, [Next]_vars
  PROVE  TypeInv'
<1>0. HostOK /\ BoardOK /\ Stage2OK /\ Junk \notin Files
  BY TypeParts DEF JobsTyped
<1>1. ASSUME NEW j \in Jobs, StartScript(j) PROVE TypeInv'
  <2>1. /\ job' = j /\ step' = 1 /\ t' = 1 /\ result' = "running" /\ runs' = runs + 1
        /\ runs < MaxRuns /\ clean' \in BOOLEAN
    BY <1>1 DEF StartScript
  <2>2. cmd' = j.cmds[1]
    BY <2>1 DEF cmd
  <2>3. Len(j.cmds) \in Nat \ {0} /\ j.cmds[1].op \in Ops
    BY DEF JobsTyped
  <2>4. Len(Transfers(j.cmds[1].op)) \in 1 .. 4
    BY <2>3, TransferCount
  <2>5. runs' \in 0 .. MaxRuns
    BY <1>0, <2>1, SessionAssumptions DEF HostOK
  <2>8. 1 \in 1 .. Len(j.cmds)
    BY <2>3
  <2> DEFINE L == Len(Transfers(j.cmds[1].op))
  <2>9. 1 \in 1 .. L
    <3> HIDE DEF L
    <3>1. \A n \in 1 .. 4 : 1 \in 1 .. n
      OBVIOUS
    <3>2. L \in 1 .. 4
      BY <2>4 DEF L
    <3> QED
      BY <3>1, <3>2, Zenon
  <2>10. step' \in 1 .. Len(job'.cmds) /\ job' \in Jobs
    BY <2>1, <2>8
  <2>11. t' \in 1 .. Len(Transfers(cmd'.op))
    BY <2>1, <2>2, <2>9
  <2>6. HostOK'
    BY <2>1, <2>5, <2>10, <2>11, Zenon DEF HostOK
  <2>7. BoardOK'
    BY <1>0, <1>1, BoardSame DEF StartScript
  <2>12. Stage2OK'
    BY <1>0, <1>1 DEF StartScript, stage2Vars, Stage2OK
  <2> QED
    BY <2>6, <2>7, <2>12, TypePartsNext
<1>2. CASE PatchFirmware \/ usb_get_ingenic_cpu \/ Stalled \/ CheckImage \/ TimedOut \/ Kill
  <2>1. result = "running" /\ (Proceed \/ Fail) /\ UNCHANGED boardVars
    BY <1>2 DEF PatchFirmware, usb_get_ingenic_cpu, Stalled, CheckImage, TimedOut, Kill, Doing
  <2>2. HostOK'
    BY <2>1, HostGoesOn
  <2>3. BoardOK' /\ Stage2OK'
    BY <1>0, <2>1, BoardSame, Stage2Same DEF boardVars
  <2> QED
    BY <2>2, <2>3, TypePartsNext
<1>3. CASE usb_control_msg
  <2>1. HostOK'
    BY <1>3, HostGoesOn DEF usb_control_msg, Doing
  <2>2. req' = cmd /\ (cmd.op = "addr" => cmd.arg \in Addrs)
    BY <1>3, RunningFacts DEF usb_control_msg, Doing
  <2>3. BoardOK'
    BY <1>0, <1>3, <2>2 DEF usb_control_msg, memVars, BoardOK
  <2>4. Stage2OK'
    BY <1>0, <1>3, Stage2Same DEF usb_control_msg
  <2> QED
    BY <2>1, <2>3, <2>4, TypePartsNext
<1>4. CASE usb_send_data_to_ingenic
  <2>1. HostOK'
    BY <1>4, HostGoesOn DEF usb_send_data_to_ingenic, Doing
  <2>2. PICK f \in ReadFile(cmd.arg) : RomStores(f) \/ Stage2Stores(f) \/ WildStores
    BY <1>4 DEF usb_send_data_to_ingenic
  <2>3. f \in Files \cup {Junk}
    BY <1>4, RunningFacts, DoingFacts DEF usb_send_data_to_ingenic, ReadFile
  <2>4. UNCHANGED <<mode, start_addr, req, handshake, Hand, drivers, hw_reset, cardReady, onCard>>
    BY <1>4 DEF usb_send_data_to_ingenic
  <2>5. CASE RomStores(f)
    <3>1. mem' \in [Addrs -> Files \cup {Junk}]
      BY <1>0, <2>3, <2>5 DEF RomStores, BoardOK
    <3>2. BoardOK' /\ Stage2OK'
      BY <1>0, <2>4, <2>5, <3>1 DEF RomStores, BoardOK, Stage2OK
    <3> QED
      BY <2>1, <3>2, TypePartsNext
  <2>6. CASE Stage2Stores(f)
    <3>1. BoardOK' /\ Stage2OK'
      BY <1>0, <2>3, <2>4, <2>6 DEF Stage2Stores, memVars, BoardOK, Stage2OK
    <3> QED
      BY <2>1, <3>1, TypePartsNext
  <2>7. CASE WildStores
    <3>1. BoardOK' /\ Stage2OK'
      BY <1>0, <2>4, <2>7 DEF WildStores, memVars, BoardOK, Stage2OK
    <3> QED
      BY <2>1, <3>1, TypePartsNext
  <2> QED
    BY <2>2, <2>5, <2>6, <2>7
<1>5. CASE usb_read_data_from_ingenic
  <2>1. HostOK'
    BY <1>5, HostGoesOn DEF usb_read_data_from_ingenic, Doing
  <2>2. /\ handshake' = FALSE
        /\ UNCHANGED <<mode, memVars, start_addr, req, bufHead, Bulk_out_size, Hand,
                       drivers, hw_reset, cardReady, onCard>>
    BY <1>5 DEF usb_read_data_from_ingenic
  <2>3. BoardOK'
    BY <1>0, <2>2, BoardSame
  <2>4. Stage2OK'
    BY <1>0, <2>2 DEF Stage2OK
  <2> QED
    BY <2>1, <2>3, <2>4, TypePartsNext
<1>6. CASE PowerCycle
  <2>1. HostOK'
    BY <1>0, <1>6 DEF PowerCycle, HostOK, cmd
  <2>2. BoardOK'
    BY <1>6, SwitchedTypes DEF PowerCycle
  <2>3. Stage2OK'
    BY <1>0, <1>6 DEF PowerCycle, Switched, Stage2OK
  <2> QED
    BY <2>1, <2>2, <2>3, TypePartsNext
<1>7. CASE Board
  <2>0. UNCHANGED hostVars
    BY <1>7 DEF Board, SetAddress, FlushCaches, RomStart1, RomStart2, PROGRAM_START1_Handle,
      PROGRAM_START2_Handle, CONFIGRATION_Handle, CardInit, CardProgram, DeviceReset, WildHandles
  <2>1. HostOK'
    BY <1>0, <2>0, HostSame
  <2>2. CASE SetAddress
    BY <1>0, <2>1, <2>2, TypePartsNext, Stage2Same DEF SetAddress, Handling, memVars, BoardOK
  <2>3. CASE FlushCaches
    BY <1>0, <2>1, <2>3, TypePartsNext, Stage2Same DEF FlushCaches, Handling, BoardOK
  <2>4. CASE RomStart1
    BY <1>0, <2>1, <2>4, TypePartsNext, Stage2Same DEF RomStart1, Handling, BoardOK
  <2>5. CASE RomStart2
    <3>1. mode' \in {"rom", "stage2", "hung", "wild", "off"}
      BY <2>5 DEF RomStart2
    <3>2. BoardOK'
      BY <1>0, <2>5, <3>1 DEF RomStart2, Handling, memVars, BoardOK
    <3>3. Stage2OK'
      BY <1>0, <2>5 DEF RomStart2, Stage2OK
    <3> QED
      BY <2>1, <3>2, <3>3, TypePartsNext
  <2>6. CASE PROGRAM_START1_Handle
    BY <1>0, <2>1, <2>6, TypePartsNext, Stage2Same DEF PROGRAM_START1_Handle, Handling, memVars, BoardOK
  <2>7. CASE PROGRAM_START2_Handle
    BY <1>0, <2>1, <2>7, TypePartsNext, Stage2Same DEF PROGRAM_START2_Handle, Handling, memVars, BoardOK
  <2>8. CASE CONFIGRATION_Handle
    <3>1. PICK cpu \in CpuIdsIn(bufHead) : Borad_Init(cpu)
      BY <2>8 DEF CONFIGRATION_Handle
    <3>2. /\ mode' \in {"rom", "stage2", "hung", "wild", "off"}
          /\ drivers' \in CpuIds \cup {Unset} /\ hw_reset' \in CpuIds \cup {Unset}
      BY <1>0, <3>1 DEF Borad_Init, BoardOK, Stage2OK
    <3>3. BoardOK'
      BY <1>0, <2>8, <3>2 DEF CONFIGRATION_Handle, Handling, memVars, BoardOK
    <3>4. Stage2OK'
      BY <1>0, <2>8, <3>2 DEF CONFIGRATION_Handle, Stage2OK
    <3> QED
      BY <2>1, <3>3, <3>4, TypePartsNext
  <2>9. CASE CardInit
    <3>1. BoardOK'
      BY <1>0, <2>9 DEF CardInit, Handling, memVars, BoardOK
    <3>2. Stage2OK'
      BY <1>0, <2>9 DEF CardInit, Stage2OK
    <3> QED
      BY <2>1, <3>1, <3>2, TypePartsNext
  <2>10. CASE CardProgram
    <3>1. BoardOK'
      BY <1>0, <2>10 DEF CardProgram, Handling, memVars, BoardOK
    <3>2. Stage2OK'
      BY <1>0, <2>10 DEF CardProgram, Stage2OK
    <3> QED
      BY <2>1, <3>1, <3>2, TypePartsNext
  <2>11. CASE DeviceReset
    BY <1>0, <2>1, <2>11, TypePartsNext, Stage2Same DEF DeviceReset, Handling, memVars, BoardOK
  <2>12. CASE WildHandles
    BY <1>0, <2>1, <2>12, TypePartsNext, Stage2Same DEF WildHandles, memVars, BoardOK
  <2> QED
    BY <1>7, <2>2, <2>3, <2>4, <2>5, <2>6, <2>7, <2>8, <2>9, <2>10, <2>11, <2>12 DEF Board
<1>8. CASE UNCHANGED vars
  BY <1>0, <1>8, HostSame, BoardSame, Stage2Same, TypePartsNext DEF vars, boardVars
<1> QED
  BY <1>1, <1>2, <1>3, <1>4, <1>5, <1>6, <1>7, <1>8 DEF Next, Host

\* The state keeps its types, whatever commands the scripts and the user give: what
\* is in memory, buffer and structures came from a file, and a script's position is
\* one of its transfers.
THEOREM TypeOKHolds ==
  ASSUME JobsTyped
  PROVE  Spec => []TypeOK
<1>1. TypeInv /\ [Next]_vars => TypeInv'
  BY TypeInvNext
<1>2. TypeInv => TypeOK
  BY DEF TypeInv
<1> QED
  BY <1>1, <1>2, TypeInvInit, PTL DEF Spec

-----------------------------------------------------------------------------
(***************************************************************************)
(* Where a script that began cleanly can be, and what the board then is.   *)
(***************************************************************************)

C == job.cmds

\* The commands that ingenic-boot and down2ram.sh have in common: the stage 1
\* program is loaded and run, and after it another one.
Loading(j) ==
  /\ Len(j.cmds) >= 10
  /\ j.cmds[1].op = "patch" /\ j.cmds[2].op = "probe"
  /\ j.cmds[3].op = "addr"
  /\ j.cmds[4] = Cmd("if", File("fw", j.config))
  /\ j.cmds[5] = Cmd("start1", j.cmds[3].arg)
  /\ j.cmds[6].op = "probe" /\ j.cmds[7].op = "addr"
  /\ j.cmds[8].op = "if" /\ j.cmds[8].arg.name \in {"usb_boot", "bin"}
  /\ j.cmds[9].op = "flush"
  /\ j.cmds[10] = Cmd("start2", j.cmds[7].arg)

\* down2ram.sh ends with the start of the program.
LoadsProgram(j) == Loading(j) /\ Len(j.cmds) = 10 /\ j.cmds[8].arg.name = "bin"

\* ingenic-boot goes on with stage 2.
LoadsStage2(j) ==
  /\ Loading(j) /\ Len(j.cmds) >= 14 /\ j.cmds[8].arg.name = "usb_boot"
  /\ j.cmds[11].op = "probe"
  /\ j.cmds[12] = Cmd("config", File("hand", j.config))
  /\ j.cmds[13].op = "sdinit"
  /\ \A n \in 14 .. Len(j.cmds) - 1 : j.cmds[n].op = "sdif"
  /\ j.cmds[Len(j.cmds)].op = "reboot"

\* Nothing but requests that only stage 2 knows.
NeedsStage2(j) ==
  \A n \in 1 .. Len(j.cmds) :
    j.cmds[n].op \in {"patch", "probe", "config", "sdinit", "sdif", "reboot"}

Stage1At    == C[3].arg
ProgramAt  == C[7].arg
Program == C[8].arg

InRom == mode = "rom" /\ req = Unset

\* Commands 1 to 10.  The fw file is at Stage1At when it is started, the other
\* program at ProgramAt, on working SDRAM and with the caches flushed.
AtLoading ==
  /\ step \in 1 .. 3 => InRom
  /\ step = 4 => mode = "rom" /\ (req = C[3] \/ (req = Unset /\ start_addr = Stage1At))
  /\ step = 5 => InRom /\ mem[Stage1At] = C[4].arg
  /\ step = 6 => \/ mode = "hung" /\ req = Unset
                 \/ mode = "rom" /\ req = C[5] /\ mem[Stage1At] = C[4].arg
                 \/ InRom /\ sdram
  /\ step = 7 => InRom /\ sdram
  /\ step = 8 => mode = "rom" /\ sdram
                 /\ (req = C[7] \/ (req = Unset /\ start_addr = ProgramAt))
  /\ step = 9 => InRom /\ mem[ProgramAt] = Program
  /\ step = 10 => mode = "rom" /\ mem[ProgramAt] = Program
                  /\ (req = C[9] \/ (req = Unset /\ flushed))

Starting == mode = "rom" /\ req = C[10] /\ mem[ProgramAt] = Program /\ flushed

\* Stage 2 has nothing to do and its transfer buffer is empty.
Idle == req = Unset /\ Bulk_out_size = 0 /\ ~handshake

Configured ==
  /\ Hand = File("hand", job.config)
  /\ drivers = CpuId[job.config]
  /\ hw_reset = IF drivers = 4740 THEN Unset ELSE drivers

\* Commands 11 to 13.
AtStage2 ==
  /\ step = 11 => \/ Starting
                  \/ mode = "stage2" /\ Idle /\ hw_reset = Unset
  /\ step = 12 =>
       /\ mode = "stage2"
       /\ t = 1 => Idle /\ hw_reset = Unset
       /\ t = 2 => req = Unset /\ bufHead = C[12].arg /\ ~handshake /\ hw_reset = Unset
       /\ t = 3 => \/ req = C[12] /\ bufHead = C[12].arg /\ ~handshake /\ hw_reset = Unset
                   \/ req = Unset /\ Bulk_out_size = 0 /\ Configured
  /\ step = 13 =>
       /\ mode = "stage2" /\ Configured
       /\ t = 1 => Idle
       /\ t = 2 => \/ req = C[13] /\ ~handshake
                   \/ /\ req = Unset /\ Bulk_out_size = 0
                      /\ "card" \notin Faults => cardReady

\* With a card that does not fail the image of command n is on it.
Programmed(n) == "card" \notin Faults => C[n].arg \in onCard

\* The images, and the reboot.
AtImages ==
  /\ step \in 14 .. Len(C) - 1 =>
       /\ mode = "stage2" /\ Configured
       /\ "card" \notin Faults => cardReady
       /\ t = 1 => Idle
       /\ t = 2 => req = Unset /\ bufHead = C[step].arg /\ ~handshake
       /\ t = 3 => \/ req = C[step] /\ bufHead = C[step].arg /\ ~handshake
                   \/ req = Unset /\ Bulk_out_size = 0 /\ Programmed(step)
       /\ t = 4 => Idle /\ Programmed(step)
  /\ step = Len(C) /\ step >= 14 => mode = "stage2" /\ Configured /\ req = Unset

\* "Done." of down2ram.sh and of ingenic-boot.  The board may still have the
\* last request before it.
AfterProgram ==
  Starting \/ (mode = "off" /\ req = Unset)

AfterReboot ==
  /\ Configured
  /\ \/ mode = "stage2" /\ req = C[Len(C)]
     \/ mode = (IF hw_reset = Unset THEN "wild" ELSE "off") /\ req = Unset

\* Of a tool that needs stage 2 the board in its ROM takes no request.
AtRom ==
  /\ InRom /\ onCard = {}
  /\ \A n \in 1 .. Len(C) :
       n < step \/ (n = step /\ result = "done") => C[n].op \in {"patch", "probe"}
  /\ result = "done" => step = Len(C)
  /\ C[step].op \in {"config", "sdif"} => t \in {1, 2}
  /\ C[step].op \in {"sdinit", "reboot"} => t = 1

\* The images up to the command under way, and what is on the card of them.
CardSoFar ==
  /\ onCard \subseteq {C[n].arg : n \in {m \in 14 .. Len(C) - 1 : m <= step}}
  /\ Verifies(job) \/ "card" \notin Faults =>
       \A n \in 14 .. Len(C) - 1 : n < step => C[n].arg \in onCard

\* A script that found the board quiet in its ROM has the board where the
\* script is; whether the script has failed makes no difference.
SessionInv ==
  clean =>
    /\ result \in {"running", "failed", "done"} /\ job \in Jobs
    /\ step \in 1 .. Len(C) /\ t \in 1 .. Len(Transfers(cmd.op))
    /\ \/ NeedsStage2(job) /\ AtRom
       \/ /\ LoadsProgram(job) /\ onCard = {}
          /\ IF result = "done" THEN step = Len(C) /\ AfterProgram ELSE AtLoading
       \/ /\ LoadsStage2(job) /\ CardSoFar
          /\ IF result = "done" THEN step = Len(C) /\ AfterReboot
             ELSE AtLoading /\ AtStage2 /\ AtImages

-----------------------------------------------------------------------------
(***************************************************************************)
(* The steps of a script.                                                  *)
(***************************************************************************)

\* The scripts and tools that are run, without errors in reading a file and on
\* chips that Borad_Init knows.
Sessions ==
  /\ JobsTyped
  /\ \A j \in Jobs : LoadsStage2(j) \/ LoadsProgram(j) \/ NeedsStage2(j)
  /\ \A j \in Jobs : CpuId[j.config] \in CpuIds
  /\ "read" \notin Faults

\* After its last transfer a command makes room for the next one.
LastTransfer ==
  t = CASE cmd.op = "config" -> 3 [] cmd.op = "sdinit" -> 2 [] cmd.op = "sdif" -> 4
        [] OTHER -> 1

\* A command is done: the next one of the script follows, or its end.
LEMMA NextCommand ==
  ASSUME JobsTyped, TypeInv, result = "running", Proceed, LastTransfer
  PROVE  /\ job' = job /\ clean' = clean
         /\ \/ step < Len(C) /\ step' = step + 1 /\ t' = 1 /\ result' = "running"
            \/ step = Len(C) /\ step' = step /\ t' = t /\ result' = "done"
<1>1. t = Len(Transfers(cmd.op))
  BY RunningFacts, TransferCount DEF LastTransfer
<1>2. step \in 1 .. Len(C) /\ Len(C) \in Nat
  BY RunningFacts DEF C
<1>3. ~(t < Len(Transfers(cmd.op)))
  BY <1>1, RunningFacts
<1> QED
  BY <1>2, <1>3 DEF Proceed, C

\* A transfer is done: the next one of the same command follows.
LEMMA NextTransfer ==
  ASSUME JobsTyped, TypeInv, result = "running", Proceed, ~LastTransfer
  PROVE  /\ job' = job /\ clean' = clean
         /\ step' = step /\ t' = t + 1 /\ result' = "running"
<1>1. t # Len(Transfers(cmd.op))
  BY RunningFacts, TransferCount DEF LastTransfer
<1>2. t < Len(Transfers(cmd.op))
  BY <1>1, RunningFacts
<1> QED
  BY <1>2 DEF Proceed

\* A failure changes nothing but the result.
LEMMA FailureStays ==
  ASSUME Fail
  PROVE  UNCHANGED <<job, step, t, clean>> /\ result' = "failed"
BY DEF Fail

\* What a board takes a request for.
LEMMA BoardInRom ==
  ASSUME Board, mode = "rom"
  PROVE  /\ req # Unset
         /\ \/ req.op = "addr" /\ SetAddress
            \/ req.op = "flush" /\ FlushCaches
            \/ req.op = "start1" /\ RomStart1
            \/ req.op = "start2" /\ RomStart2
BY DEF Board, SetAddress, FlushCaches, RomStart1, RomStart2, PROGRAM_START1_Handle,
   PROGRAM_START2_Handle, CONFIGRATION_Handle, CardInit, CardProgram, DeviceReset,
   WildHandles, Handling

\* What the board may do in stage 2, by the request it has.
LEMMA BoardInStage2 ==
  ASSUME Board, mode = "stage2"
  PROVE  /\ req # Unset
         /\ \/ req.op \in {"addr", "flush", "start1", "start2"}
            \/ req.op = "config" /\ CONFIGRATION_Handle
            \/ req.op = "sdinit" /\ CardInit
            \/ req.op = "sdif" /\ CardProgram
            \/ req.op = "reboot" /\ DeviceReset
BY DEF Board, SetAddress, FlushCaches, RomStart1, RomStart2, PROGRAM_START1_Handle,
   PROGRAM_START2_Handle, CONFIGRATION_Handle, CardInit, CardProgram, DeviceReset,
   WildHandles, Handling

\* The board acts on a request only, and leaves the host's variables alone.
LEMMA BoardHasRequest ==
  ASSUME Board
  PROVE  req # Unset /\ UNCHANGED hostVars /\ mode \in {"rom", "stage2", "wild"}
BY DEF Board, SetAddress, FlushCaches, RomStart1, RomStart2, PROGRAM_START1_Handle,
   PROGRAM_START2_Handle, CONFIGRATION_Handle, CardInit, CardProgram, DeviceReset,
   WildHandles, Handling

\* The next place in the loading of the programs, the last of them being Starting.
LoadingGoes ==
  /\ UNCHANGED <<job, clean, onCard>>
  /\ \/ step' \in 1 .. 10 /\ result' \in {"running", "failed"} /\ AtLoading'
     \/ /\ step = 10 /\ step < Len(C) /\ step' = 11 /\ t' = 1 /\ result' = "running"
        /\ Starting'
     \/ step = 10 /\ step = Len(C) /\ step' = 10 /\ result' = "done" /\ Starting'

\* The commands that load and start stage 1 and the program.
LEMMA LoadingOps ==
  ASSUME Loading(job), step \in 1 .. 10
  PROVE  /\ cmd = C[step]
         /\ step = 1 => cmd.op = "patch"
         /\ step \in {2, 6} => cmd.op = "probe"
         /\ step \in {3, 7} => cmd.op = "addr"
         /\ step \in {4, 8} => cmd.op = "if"
         /\ step = 5 => cmd.op = "start1"
         /\ step = 9 => cmd.op = "flush"
         /\ step = 10 => cmd.op = "start2"
<1>1. cmd = C[step]
  BY DEF cmd, C
<1>2. /\ C[1].op = "patch" /\ C[2].op = "probe" /\ C[3].op = "addr" /\ C[4].op = "if"
      /\ C[5].op = "start1" /\ C[6].op = "probe" /\ C[7].op = "addr" /\ C[8].op = "if"
      /\ C[9].op = "flush" /\ C[10].op = "start2"
  BY DEF Loading, Cmd, C
<1> QED
  BY <1>1, <1>2

\* A command that fails while the programs are loaded ends the session.
LEMMA LoadingKeeps ==
  ASSUME Loading(job), AtLoading, step \in 1 .. 10, result \in {"running", "failed"},
         UNCHANGED boardVars, Fail
  PROVE  LoadingGoes
<1>1. /\ UNCHANGED <<job, step, t, clean, mode, req, mem, start_addr, sdram, flushed, onCard>>
      /\ result' = "failed"
  BY FailureStays DEF boardVars, memVars
<1>2. AtLoading'
  BY <1>1 DEF AtLoading, InRom, Stage1At, ProgramAt, Program, C
<1> QED
  BY <1>1, <1>2 DEF LoadingGoes

\* The ways a tool of one transfer succeeds while the programs are loaded.
LEMMA LoadingProceeds ==
  ASSUME JobsTyped, TypeInv, Loading(job), step \in 1 .. 10, result = "running", Proceed
  PROVE  /\ job' = job /\ clean' = clean
         /\ \/ step \in 1 .. 9 /\ step' = step + 1 /\ result' = "running"
            \/ step = 10 /\ step < Len(C) /\ step' = 11 /\ t' = 1 /\ result' = "running"
            \/ step = 10 /\ step = Len(C) /\ step' = 10 /\ result' = "done"
<1>1. cmd.op \in Ops \ {"config", "sdinit", "sdif"}
  <2>1. step = 1 \/ step = 2 \/ step = 3 \/ step = 4 \/ step = 5 \/ step = 6 \/ step = 7
        \/ step = 8 \/ step = 9 \/ step = 10
    OBVIOUS
  <2> QED
    BY <2>1, LoadingOps DEF Ops
<1>2. Len(Transfers(cmd.op)) = 1
  BY <1>1, TransferCount
<1>3. t = 1
  BY <1>2, RunningFacts
<1>4. LastTransfer
  BY <1>1, <1>3 DEF LastTransfer
<1>5. Len(C) \in Nat /\ Len(C) >= 10
  BY RunningFacts DEF Loading, C
<1> QED
  BY <1>4, <1>5, NextCommand

\* The host's steps while it loads.
LEMMA LoadingHost ==
  ASSUME Sessions, TypeInv, Loading(job), AtLoading, step \in 1 .. 10,
         result \in {"running", "failed"}, Host \/ Kill
  PROVE  LoadingGoes
<1>0. JobsTyped /\ result = "running"
  BY DEF Sessions, Host, Kill, PatchFirmware, usb_get_ingenic_cpu, usb_control_msg, Stalled,
     usb_send_data_to_ingenic, usb_read_data_from_ingenic, CheckImage, TimedOut, Doing
<1>1. CASE Fail /\ UNCHANGED boardVars
  BY <1>1, LoadingKeeps
<1>s. step = 1 \/ step = 2 \/ step = 3 \/ step = 4 \/ step = 5 \/ step = 6 \/ step = 7
      \/ step = 8 \/ step = 9 \/ step = 10
  OBVIOUS
<1>2. ASSUME Proceed, UNCHANGED boardVars, cmd.op \in {"patch", "probe"},
             step = 6 => req = Unset /\ mode # "hung"
      PROVE  LoadingGoes
  <2>1. /\ UNCHANGED <<job, clean, mode, req, mem, start_addr, sdram, flushed, onCard>>
        /\ step \in 1 .. 9 /\ step' = step + 1 /\ result' = "running"
        /\ step \in {1, 2, 6}
    BY <1>0, <1>2, <1>s, LoadingProceeds, LoadingOps DEF boardVars, memVars
  <2>2. step \in {1, 2} => InRom
    BY <2>1 DEF AtLoading
  <2>3. step = 6 => InRom /\ sdram
    <3>2. job \in Jobs /\ Len(C) \in Nat /\ Len(C) >= 10
      BY <1>0, RunningFacts DEF C, Loading
    <3>1. job \in Jobs /\ C[5] # Unset
      BY <1>0, <3>2 DEF JobsTyped, C
    <3> QED
      BY <1>2, <3>1 DEF AtLoading, InRom
  <2>4. AtLoading'
    BY <2>1, <2>2, <2>3 DEF AtLoading, InRom
  <2> QED
    BY <2>1, <2>4 DEF LoadingGoes
<1>3. CASE PatchFirmware
  <2>1. cmd.op = "patch" /\ step # 6
    BY <1>0, <1>3, <1>s, DoingFacts, LoadingOps DEF PatchFirmware
  <2> QED
    BY <1>1, <1>2, <1>3, <2>1 DEF PatchFirmware
<1>4. CASE usb_get_ingenic_cpu
  BY <1>0, <1>2, <1>4, DoingFacts DEF usb_get_ingenic_cpu, Answers
<1>5. CASE usb_control_msg
  <2>1. /\ cmd.op \in {"addr", "flush", "start1", "start2", "sdinit", "reboot", "config", "sdif"}
        /\ req = Unset /\ mode # "hung" /\ req' = cmd /\ Proceed
        /\ UNCHANGED <<mode, mem, start_addr, sdram, flushed, onCard>>
    BY <1>0, <1>5, DoingFacts DEF usb_control_msg, Answers, memVars
  <2>2. step = 3 \/ step = 5 \/ step = 7 \/ step = 9 \/ step = 10
    BY <1>s, <2>1, LoadingOps
  <2>3. req' = C[step] /\ UNCHANGED <<job, clean>>
    BY <1>0, <2>1, LoadingOps, LoadingProceeds
  <2>4. CASE step = 10
    <3>1. C[9] # Unset
      <4>1. job \in Jobs /\ Len(job.cmds) \in Nat /\ Len(job.cmds) >= 10
        BY <1>0, RunningFacts DEF Loading
      <4> QED
        BY <1>0, <4>1 DEF JobsTyped, C
    <3>a. mode = "rom" /\ mem[ProgramAt] = Program /\ flushed
      BY <2>1, <2>4, <3>1 DEF AtLoading
    <3>b. job' = job /\ mode' = mode /\ mem' = mem /\ flushed' = flushed
      BY <2>1, <2>3
    <3>c. req' = C[10]
      BY <2>3, <2>4
    <3>2. Starting'
      BY <3>a, <3>b, <3>c DEF Starting, C, ProgramAt, Program
    <3> QED
      BY <1>0, <2>1, <2>4, <3>2, LoadingProceeds DEF LoadingGoes
  <2>5. CASE step # 10
    <3>1. step' = step + 1 /\ step' \in 1 .. 10 /\ result' = "running"
      BY <1>0, <2>1, <2>2, <2>5, LoadingProceeds
    <3>2. C' = C /\ Stage1At' = Stage1At /\ ProgramAt' = ProgramAt /\ Program' = Program
      BY <2>3 DEF C, Stage1At, ProgramAt, Program
    <3>3. AtLoading'
      BY <2>1, <2>2, <2>3, <2>5, <3>1, <3>2 DEF AtLoading, InRom
    <3> QED
      BY <2>1, <2>3, <3>1, <3>3 DEF LoadingGoes
  <2> QED
    BY <2>4, <2>5
<1>6. CASE Stalled
  BY <1>1, <1>6 DEF Stalled
<1>7. CASE usb_send_data_to_ingenic
  <2>1. cmd.op \in {"if", "config", "sdif"}
    BY <1>0, <1>7, DoingFacts DEF usb_send_data_to_ingenic
  <2>2. step = 4 \/ step = 8
    BY <1>s, <2>1, LoadingOps
  <2>3. mode = "rom" /\ req = Unset /\ Proceed
    BY <1>7, <2>2 DEF usb_send_data_to_ingenic, Answers, AtLoading
  <2>4. /\ RomStores(cmd.arg)
        /\ UNCHANGED <<mode, start_addr, req, onCard>>
    BY <1>7, <2>3 DEF usb_send_data_to_ingenic, ReadFile, Sessions, Stage2Stores, WildStores
  <2>5. /\ C[3] # Unset /\ C[7] # Unset /\ C[4].arg \in Files /\ C[8].arg \in Files
    <3>1. Len(C) >= 10 /\ Len(C) \in Nat /\ job \in Jobs /\ C[4].op = "if" /\ C[8].op = "if"
      BY <1>0, RunningFacts DEF Loading, C, Cmd
    <3> QED
      BY <1>0, <3>1 DEF JobsTyped, C
  <2>6. mem \in [Addrs -> Files \cup {Junk}] /\ start_addr \in Addrs
    BY <2>4 DEF TypeInv, TypeOK, RomStores
  <2>7. mem'[start_addr] = cmd.arg /\ UNCHANGED sdram
    <3>1. CASE step = 4
      <4>1. cmd.arg.name = "fw"
        BY <3>1, LoadingOps DEF Loading, Cmd, File, C
      <4> QED
        BY <2>4, <2>6, <4>1 DEF RomStores
    <3>2. CASE step = 8
      <4>1. sdram
        BY <3>2 DEF AtLoading
      <4> QED
        BY <2>4, <2>6, <4>1 DEF RomStores
    <3> QED
      BY <2>2, <3>1, <3>2
  <2>8. step' = step + 1 /\ UNCHANGED <<job, clean>> /\ result' = "running"
    BY <1>0, <2>2, <2>3, LoadingProceeds
  <2>9. C' = C /\ Stage1At' = Stage1At /\ ProgramAt' = ProgramAt /\ Program' = Program
    BY <2>8 DEF C, Stage1At, ProgramAt, Program
  <2>10. start_addr = IF step = 4 THEN Stage1At ELSE ProgramAt
    BY <2>2, <2>3, <2>5 DEF AtLoading
  <2>11. cmd.arg = C[step].arg
    BY LoadingOps
  <2>12. AtLoading'
    BY <2>2, <2>3, <2>4, <2>7, <2>8, <2>9, <2>10, <2>11 DEF AtLoading, InRom, Program
  <2> QED
    BY <2>2, <2>4, <2>8, <2>12 DEF LoadingGoes
<1>8. CASE usb_read_data_from_ingenic \/ CheckImage
  <2>1. cmd.op \in {"sdinit", "config", "sdif"}
    BY <1>0, <1>8, DoingFacts DEF usb_read_data_from_ingenic, CheckImage
  <2> QED
    BY <2>1, <1>s, LoadingOps
<1>9. CASE TimedOut \/ Kill
  BY <1>1, <1>9 DEF TimedOut, Kill
<1> QED
  BY <1>3, <1>4, <1>5, <1>6, <1>7, <1>8, <1>9 DEF Host

\* The board's steps while it is loaded.
LEMMA LoadingBoard ==
  ASSUME Sessions, TypeInv, Loading(job), AtLoading, step \in 1 .. 10, job \in Jobs,
         result \in {"running", "failed"}, Board
  PROVE  LoadingGoes
<1>1. /\ req # Unset /\ UNCHANGED <<job, step, t, result, clean>>
  BY BoardHasRequest DEF hostVars
<1>2. C' = C /\ Stage1At' = Stage1At /\ ProgramAt' = ProgramAt /\ Program' = Program
  BY <1>1 DEF C, Stage1At, ProgramAt, Program
<1>3. \/ step = 4 /\ req = C[3] /\ mode = "rom"
      \/ step = 6 /\ req = C[5] /\ mode = "rom" /\ mem[Stage1At] = C[4].arg
      \/ step = 8 /\ req = C[7] /\ mode = "rom" /\ sdram
      \/ step = 10 /\ req = C[9] /\ mode = "rom" /\ mem[ProgramAt] = Program
  <2>1. step = 1 \/ step = 2 \/ step = 3 \/ step = 4 \/ step = 5 \/ step = 6 \/ step = 7
      \/ step = 8 \/ step = 9 \/ step = 10
    OBVIOUS
  <2> QED
    BY <1>1, <2>1 DEF AtLoading, InRom
<1>4. CASE step \in {4, 8}
  <2>1. SetAddress
    BY <1>3, <1>4, BoardInRom DEF Loading, C
  <2>2. /\ start_addr' = req.arg /\ req' = Unset
        /\ UNCHANGED <<mode, mem, sdram, flushed, onCard>>
    BY <2>1 DEF SetAddress, Handling, memVars
  <2>3. AtLoading'
    BY <1>1, <1>2, <1>3, <1>4, <2>2 DEF AtLoading, InRom, Stage1At, ProgramAt
  <2> QED
    BY <1>1, <2>2, <2>3 DEF LoadingGoes
<1>5. CASE step = 6
  <2>1. RomStart1 /\ req.arg = Stage1At
    BY <1>3, <1>5, BoardInRom DEF Loading, C, Cmd, Stage1At
  <2>2. mem[Stage1At] # Junk /\ mem[Stage1At].name = "fw"
    <3>1. Len(C) >= 10 /\ Len(C) \in Nat /\ C[4].op = "if"
      BY DEF Loading, C, Cmd, JobsTyped, Sessions
    <3>2. C[4].arg \in Files
      BY <3>1 DEF JobsTyped, C, Sessions
    <3>3. C[4].arg.name = "fw"
      BY DEF Loading, C, Cmd, File
    <3> QED
      BY <1>3, <1>5, <3>2, <3>3 DEF Sessions, JobsTyped
  <2>3. /\ (mode' = "rom" /\ sdram' = TRUE) \/ mode' = "hung"
        /\ req' = Unset /\ UNCHANGED onCard
    BY <2>1, <2>2 DEF RomStart1, Handling
  <2>4. AtLoading'
    BY <1>1, <1>5, <2>3 DEF AtLoading, InRom
  <2> QED
    BY <1>1, <1>5, <2>3, <2>4 DEF LoadingGoes
<1>6. CASE step = 10
  <2>1. FlushCaches
    BY <1>3, <1>6, BoardInRom DEF Loading, C
  <2>2. flushed' /\ req' = Unset /\ UNCHANGED <<mode, mem, sdram, onCard>>
    BY <1>3, <1>6, <2>1 DEF FlushCaches, Handling
  <2>3. AtLoading'
    BY <1>1, <1>2, <1>3, <1>6, <2>2 DEF AtLoading, InRom
  <2> QED
    BY <1>1, <1>6, <2>2, <2>3 DEF LoadingGoes
<1> QED
  BY <1>3, <1>4, <1>5, <1>6

-----------------------------------------------------------------------------
\* The next place of a script that has started stage 2.
Stage2Goes ==
  /\ UNCHANGED <<job, clean>> /\ CardSoFar'
  /\ \/ /\ step' \in 11 .. Len(C) /\ result' \in {"running", "failed"}
        /\ AtStage2' /\ AtImages'
     \/ step' = Len(C) /\ result' = "done" /\ AfterReboot'

\* The places of such a script, one for each command and the last for the images.
LEMMA Stage2Ops ==
  ASSUME Sessions, job \in Jobs, LoadsStage2(job), step \in 11 .. Len(C)
  PROVE  /\ Len(C) \in Nat /\ Len(C) >= 14 /\ cmd = C[step] /\ step \in Nat
         /\ \A n \in 1 .. Len(C) : C[n] # Unset
         /\ C[10] # Unset /\ C[12] # Unset /\ C[13] # Unset /\ cmd # Unset
         /\ \/ step = 11 /\ cmd.op = "probe"
            \/ step = 12 /\ cmd.op = "config"
            \/ step = 13 /\ cmd.op = "sdinit"
            \/ step \in 14 .. Len(C) - 1 /\ cmd.op = "sdif"
            \/ step = Len(C) /\ cmd.op = "reboot"
<1>1. Len(C) \in Nat /\ Len(C) >= 14 /\ cmd = C[step] /\ step \in Nat
  BY DEF Sessions, JobsTyped, LoadsStage2, C, cmd
<1>2. \A n \in 1 .. Len(C) : C[n] # Unset
  BY DEF Sessions, JobsTyped, C
<1>3. 10 \in 1 .. Len(C) /\ 12 \in 1 .. Len(C) /\ 13 \in 1 .. Len(C) /\ step \in 1 .. Len(C)
  BY <1>1
<1>4. step = 11 \/ step = 12 \/ step = 13 \/ step \in 14 .. Len(C) - 1 \/ step = Len(C)
  BY <1>1
<1>5. CASE step = 11
  BY <1>1, <1>2, <1>3, <1>5 DEF LoadsStage2, C
<1>6. CASE step = 12
  BY <1>1, <1>2, <1>3, <1>6 DEF LoadsStage2, C, Cmd
<1>7. CASE step = 13
  BY <1>1, <1>2, <1>3, <1>7 DEF LoadsStage2, C
<1>8. CASE step \in 14 .. Len(C) - 1
  BY <1>1, <1>2, <1>3, <1>8 DEF LoadsStage2, C
<1>9. CASE step = Len(C)
  BY <1>1, <1>2, <1>3, <1>9 DEF LoadsStage2, C
<1> QED
  BY <1>4, <1>5, <1>6, <1>7, <1>8, <1>9

\* Nothing on the card changes, and the images left behind are on it.
LEMMA CardKeeps ==
  ASSUME CardSoFar, Len(C) \in Nat, step \in Nat, step' \in Nat, step <= step',
         UNCHANGED <<job, onCard>>,
         Verifies(job) \/ "card" \notin Faults =>
           \A n \in 14 .. Len(C) - 1 : step <= n /\ n < step' => C[n].arg \in onCard
  PROVE  CardSoFar'
<1>1. C' = C
  BY DEF C
<1>2. onCard' \subseteq {C'[n].arg : n \in {m \in 14 .. Len(C') - 1 : m <= step'}}
  <2>1. {m \in 14 .. Len(C) - 1 : m <= step} \subseteq {m \in 14 .. Len(C) - 1 : m <= step'}
    OBVIOUS
  <2> QED
    BY <1>1, <2>1 DEF CardSoFar
<1>3. ASSUME Verifies(job) \/ "card" \notin Faults, NEW n \in 14 .. Len(C) - 1, n < step'
      PROVE  C[n].arg \in onCard
  <2>1. CASE n < step
    BY <1>3, <2>1 DEF CardSoFar
  <2>2. CASE ~(n < step)
    <3>1. step <= n
      BY <2>2
    <3> QED
      BY <1>3, <3>1
  <2> QED
    BY <2>1, <2>2
<1> QED
  BY <1>1, <1>2, <1>3 DEF CardSoFar

\* So does one that fails once stage 2 runs.
LEMMA Stage2Fails ==
  ASSUME AtStage2, AtImages, CardSoFar, step \in 11 .. Len(C), Len(C) \in Nat,
         UNCHANGED boardVars, Fail
  PROVE  Stage2Goes
<1>1. /\ UNCHANGED <<job, step, t, clean, mode, req, mem, flushed, stage2Vars, onCard>>
      /\ result' = "failed"
  BY FailureStays DEF boardVars, memVars
<1>2. C' = C /\ ProgramAt' = ProgramAt /\ Program' = Program
  BY <1>1 DEF C, ProgramAt, Program
<1>3. AtStage2'
  BY <1>1, <1>2 DEF AtStage2, Starting, Idle, Configured, stage2Vars
<1>4. AtImages'
  BY <1>1, <1>2 DEF AtImages, Idle, Configured, Programmed, stage2Vars
<1>5. CardSoFar'
  <2>1. step \in Nat /\ step <= step'
    BY <1>1
  <2>2. \A n \in 14 .. Len(C) - 1 : ~(step <= n /\ n < step')
    BY <1>1
  <2> QED
    BY <1>1, <2>1, <2>2, CardKeeps
<1> QED
  BY <1>1, <1>3, <1>4, <1>5 DEF Stage2Goes

\* What the proofs about the steps of a tool begin with.
InStage2 ==
  /\ Sessions /\ TypeInv /\ job \in Jobs /\ LoadsStage2(job)
  /\ step \in 11 .. Len(C) /\ t \in 1 .. Len(Transfers(cmd.op))
  /\ result \in {"running", "failed"} /\ AtStage2 /\ AtImages /\ CardSoFar

\* A tool ends and nothing on the card changes.
LEMMA ToolEnds ==
  ASSUME InStage2, result = "running", Proceed, LastTransfer, UNCHANGED onCard,
         step < Len(C),
         step \in 14 .. Len(C) - 1 =>
           (Verifies(job) \/ "card" \notin Faults => C[step].arg \in onCard)
  PROVE  /\ step' = step + 1 /\ t' = 1 /\ result' = "running"
         /\ UNCHANGED <<job, clean>> /\ CardSoFar' /\ C' = C
         /\ step' \in 11 .. Len(C)
<1>0. JobsTyped /\ TypeInv /\ step \in Nat /\ Len(C) \in Nat /\ CardSoFar
  BY Stage2Ops DEF InStage2, Sessions
<1>1. step' = step + 1 /\ t' = 1 /\ result' = "running" /\ UNCHANGED <<job, clean>>
  BY <1>0, NextCommand
<1>2. C' = C
  BY <1>1 DEF C
<1>3. step' \in Nat /\ step <= step' /\ step' \in 11 .. Len(C)
  BY <1>0, <1>1 DEF InStage2
<1>4. \A n \in 14 .. Len(C) - 1 : step <= n /\ n < step' => n = step
  BY <1>0, <1>1
<1>5. CardSoFar'
  BY <1>0, <1>1, <1>3, <1>4, CardKeeps
<1> QED
  BY <1>1, <1>2, <1>3, <1>5

\* A transfer that is not the last of its tool.
LEMMA ToolGoesOn ==
  ASSUME InStage2, result = "running", Proceed, ~LastTransfer, UNCHANGED onCard
  PROVE  /\ step' = step /\ t' = t + 1 /\ result' = "running"
         /\ UNCHANGED <<job, clean>> /\ CardSoFar' /\ C' = C
<1>0. JobsTyped /\ TypeInv /\ step \in Nat /\ Len(C) \in Nat /\ CardSoFar
  BY Stage2Ops DEF InStage2, Sessions
<1>1. step' = step /\ t' = t + 1 /\ result' = "running" /\ UNCHANGED <<job, clean>>
  BY <1>0, NextTransfer
<1>2. C' = C
  BY <1>1 DEF C
<1>3. step' \in Nat /\ step <= step'
  BY <1>0, <1>1
<1>4. \A n \in 14 .. Len(C) - 1 : ~(step <= n /\ n < step')
  BY <1>0, <1>1
<1>5. CardSoFar'
  BY <1>0, <1>1, <1>3, <1>4, CardKeeps
<1> QED
  BY <1>1, <1>2, <1>5

\* The second probe after the start of stage 2.
LEMMA ProbeStep ==
  ASSUME InStage2, step = 11, usb_get_ingenic_cpu
  PROVE  Stage2Goes
<1>0. JobsTyped /\ TypeInv /\ Len(C) \in Nat /\ Len(C) >= 14 /\ C[10] # Unset
  BY Stage2Ops DEF InStage2, Sessions
<1>1. /\ result = "running" /\ cmd.op = "probe" /\ t = 1 /\ Proceed /\ req = Unset
      /\ UNCHANGED <<mode, req, stage2Vars, onCard>>
  BY <1>0, DoingFacts DEF usb_get_ingenic_cpu, Answers, boardVars
<1>2. mode = "stage2" /\ Idle /\ hw_reset = Unset
  BY <1>0, <1>1 DEF InStage2, AtStage2, Starting
<1>3. LastTransfer
  BY <1>1 DEF LastTransfer
<1>4. step < Len(C) /\ ~(step \in 14 .. Len(C) - 1)
  BY <1>0
<1>5. /\ step' = step + 1 /\ t' = 1 /\ result' = "running" /\ C' = C
      /\ UNCHANGED <<job, clean>> /\ CardSoFar'
  BY <1>1, <1>3, <1>4, ToolEnds
<1>6. step' = 12 /\ step' \in 11 .. Len(C)
  BY <1>0, <1>5
<1>7. AtStage2'
  BY <1>1, <1>2, <1>5, <1>6 DEF AtStage2, Idle, stage2Vars
<1>8. AtImages'
  BY <1>0, <1>5, <1>6 DEF AtImages
<1> QED
  BY <1>5, <1>6, <1>7, <1>8 DEF Stage2Goes

\* The program is started, and it is stage 2.
LEMMA StartStep ==
  ASSUME Sessions, job \in Jobs, LoadsStage2(job), Starting, Board
  PROVE  /\ UNCHANGED <<hostVars, onCard>>
         /\ mode' = "stage2" /\ Idle' /\ hw_reset' = Unset
<1>1. Len(C) \in Nat /\ Len(C) >= 14 /\ C[8].op = "if" /\ Program.name = "usb_boot"
  BY DEF Sessions, JobsTyped, LoadsStage2, Loading, C, Program
<1>2. Program # Junk
  BY <1>1 DEF Sessions, JobsTyped, C, Program
<1>3. req.op = "start2" /\ req.arg = ProgramAt
  BY DEF Starting, LoadsStage2, Loading, C, ProgramAt, Cmd
<1>4. RomStart2
  BY <1>3, BoardInRom DEF Starting
<1>5. mode' = "stage2"
  BY <1>1, <1>2, <1>3, <1>4 DEF RomStart2, Starting
<1> QED
  BY <1>4, <1>5 DEF RomStart2, Handling, Idle

\* Stage 2 is started and takes no other request before.
LEMMA StartingBoard ==
  ASSUME InStage2, step = 11, Board
  PROVE  Stage2Goes
<1>0. JobsTyped /\ TypeInv /\ Len(C) \in Nat /\ Len(C) >= 14
  BY Stage2Ops DEF InStage2, Sessions
<1>1. Starting
  BY BoardHasRequest DEF InStage2, AtStage2, Idle
<1>2. UNCHANGED <<hostVars, onCard>> /\ mode' = "stage2" /\ Idle' /\ hw_reset' = Unset
  BY <1>1, StartStep DEF InStage2
<1>3. UNCHANGED <<job, clean, step, result, t>> /\ C' = C
  BY <1>2 DEF hostVars, C
<1>4. AtStage2'
  BY <1>2, <1>3 DEF AtStage2
<1>5. AtImages'
  BY <1>0, <1>3 DEF AtImages
<1>6. CardSoFar'
  <2>1. step \in Nat /\ step <= step' /\ step' \in Nat /\ CardSoFar
    BY <1>3 DEF InStage2
  <2>2. \A n \in 14 .. Len(C) - 1 : ~(step <= n /\ n < step')
    BY <1>0, <1>3
  <2> QED
    BY <1>0, <1>2, <1>3, <2>1, <2>2, CardKeeps
<1> QED
  BY <1>0, <1>3, <1>4, <1>5, <1>6 DEF Stage2Goes, InStage2

\* The board is in stage 2 from the second probe on.
LEMMA ModeIs ==
  ASSUME InStage2, step # 11
  PROVE  mode = "stage2"
BY Stage2Ops DEF InStage2, AtStage2, AtImages

\* The file of config or sdif goes to the start of Bulk_out_buf.
LEMMA DataStep ==
  ASSUME InStage2, usb_send_data_to_ingenic
  PROVE  Stage2Goes
<1>0. JobsTyped /\ TypeInv /\ Len(C) \in Nat /\ Len(C) >= 14 /\ cmd = C[step] /\ step \in Nat
  BY Stage2Ops DEF InStage2, Sessions
<1>1. /\ result = "running" /\ cmd.op \in {"config", "sdif", "if"} /\ t = 1 /\ Proceed /\ req = Unset
      /\ UNCHANGED <<mode, req, handshake, Hand, drivers, hw_reset, cardReady, onCard>>
  BY <1>0, DoingFacts DEF usb_send_data_to_ingenic, Answers
<1>2. \/ step = 12 /\ cmd.op = "config"
      \/ step \in 14 .. Len(C) - 1 /\ cmd.op = "sdif"
  BY <1>1, Stage2Ops DEF InStage2
<1>3. mode = "stage2" /\ Idle
  BY <1>0, <1>1, <1>2 DEF InStage2, AtStage2, AtImages
<1>4. bufHead' = cmd.arg
  BY <1>3 DEF usb_send_data_to_ingenic, ReadFile, InStage2, Sessions, RomStores, Stage2Stores,
     WildStores, Idle
<1>5. ~LastTransfer
  BY <1>1, <1>2 DEF LastTransfer
<1>6. /\ step' = step /\ t' = 2 /\ result' = "running" /\ C' = C
      /\ UNCHANGED <<job, clean>> /\ CardSoFar'
  BY <1>1, <1>5, ToolGoesOn
<1>7. AtStage2'
  BY <1>0, <1>1, <1>2, <1>3, <1>4, <1>6 DEF InStage2, AtStage2, Idle
<1>8. AtImages'
  BY <1>0, <1>1, <1>2, <1>3, <1>4, <1>6 DEF InStage2, AtImages, Idle, Configured
<1> QED
  BY <1>6, <1>7, <1>8 DEF Stage2Goes, InStage2

\* A request that stage 2 acknowledges.
LEMMA ControlStep ==
  ASSUME InStage2, usb_control_msg
  PROVE  Stage2Goes
<1>0. JobsTyped /\ TypeInv /\ Len(C) \in Nat /\ Len(C) >= 14 /\ cmd = C[step] /\ step \in Nat
  BY Stage2Ops DEF InStage2, Sessions
<1>1. /\ result = "running" /\ Proceed /\ req = Unset /\ req' = C[step]
      /\ \/ cmd.op \in {"addr", "flush", "start1", "start2", "sdinit", "reboot"} /\ t = 1
         \/ cmd.op \in {"config", "sdif"} /\ t = 2
      /\ UNCHANGED <<mode, stage2Vars, onCard>>
  BY <1>0, DoingFacts DEF usb_control_msg, Answers
<1>2. UNCHANGED <<bufHead, Bulk_out_size, handshake, Hand, drivers, hw_reset, cardReady>>
  BY <1>1 DEF stage2Vars
<1>3. \/ step = 12 /\ cmd.op = "config" /\ t = 2
      \/ step = 13 /\ cmd.op = "sdinit" /\ t = 1
      \/ step \in 14 .. Len(C) - 1 /\ cmd.op = "sdif" /\ t = 2
      \/ step = Len(C) /\ cmd.op = "reboot" /\ t = 1
  BY <1>1, Stage2Ops DEF InStage2
<1>4. mode = "stage2"
  BY <1>0, <1>3, ModeIs
<1>5. CASE step # Len(C)
  <2>1. ~LastTransfer
    BY <1>3, <1>5 DEF LastTransfer
  <2>2. /\ step' = step /\ t' = t + 1 /\ result' = "running" /\ C' = C
        /\ UNCHANGED <<job, clean>> /\ CardSoFar'
    BY <1>1, <2>1, ToolGoesOn
  <2>3. t' = (IF step = 13 THEN 2 ELSE 3)
    BY <1>3, <1>5, <2>2
  <2>4. AtStage2'
    BY <1>0, <1>1, <1>2, <1>3, <1>4, <1>5, <2>2, <2>3 DEF InStage2, AtStage2, Idle, Configured
  <2>5. AtImages'
    BY <1>0, <1>1, <1>2, <1>3, <1>4, <1>5, <2>2, <2>3 DEF InStage2, AtImages, Idle, Configured
  <2> QED
    BY <2>2, <2>4, <2>5 DEF Stage2Goes, InStage2
<1>6. CASE step = Len(C)
  <2>0. step # 12 /\ step # 13 /\ ~(step \in 14 .. Len(C) - 1)
    <3> DEFINE l == Len(C)
    <3>1. l \in Nat /\ l >= 14 /\ step = l
      BY <1>0, <1>6
    <3> HIDE DEF l
    <3>2. step # 12 /\ step # 13 /\ ~(step \in 14 .. l - 1)
      BY <3>1
    <3> QED
      BY <3>2 DEF l
  <2>1. LastTransfer /\ cmd.op = "reboot"
    BY <1>3, <2>0 DEF LastTransfer
  <2>2. /\ step' = step /\ t' = t /\ result' = "done" /\ UNCHANGED <<job, clean>>
    BY <1>0, <1>1, <1>6, <2>1, NextCommand
  <2>3. C' = C
    BY <2>2 DEF C
  <2>4. Configured /\ CardSoFar
    BY <1>0, <1>6 DEF InStage2, AtImages
  <2>5. Configured'
    BY <1>2, <2>2, <2>4 DEF Configured
  <2>6. AfterReboot'
    BY <1>1, <1>4, <1>6, <2>3, <2>5 DEF AfterReboot
  <2>7. CardSoFar'
    <3>1. step' \in Nat /\ step <= step'
      BY <1>0, <2>2
    <3>2. \A n \in 14 .. Len(C) - 1 : ~(step <= n /\ n < step')
      BY <1>0, <2>2
    <3> QED
      BY <1>0, <1>1, <2>2, <2>4, <3>1, <3>2, CardKeeps
  <2> QED
    BY <1>6, <2>2, <2>3, <2>6, <2>7 DEF Stage2Goes
<1> QED
  BY <1>5, <1>6

\* A handshake is read, and the tool that waited for it ends, or compares the image.
LEMMA AckStep ==
  ASSUME InStage2, usb_read_data_from_ingenic
  PROVE  Stage2Goes
<1>0. JobsTyped /\ TypeInv /\ Len(C) \in Nat /\ Len(C) >= 14 /\ cmd = C[step] /\ step \in Nat
  BY Stage2Ops DEF InStage2, Sessions
<1>1. /\ result = "running" /\ Proceed /\ (handshake \/ mode = "wild") /\ ~handshake'
      /\ (cmd.op = "sdinit" /\ t = 2) \/ (cmd.op \in {"config", "sdif"} /\ t = 3)
      /\ UNCHANGED <<mode, req, bufHead, Bulk_out_size, Hand, drivers, hw_reset, cardReady, onCard>>
  BY <1>0, DoingFacts DEF usb_read_data_from_ingenic
<1>3. \/ step = 12 /\ cmd.op = "config" /\ t = 3
      \/ step = 13 /\ cmd.op = "sdinit" /\ t = 2
      \/ step \in 14 .. Len(C) - 1 /\ cmd.op = "sdif" /\ t = 3
  BY <1>1, Stage2Ops DEF InStage2
<1>4. mode = "stage2" /\ handshake
  BY <1>0, <1>1, <1>3, ModeIs
<1>5. /\ req = Unset /\ Bulk_out_size = 0 /\ Configured
      /\ step = 13 => ("card" \notin Faults => cardReady)
      /\ step \in 14 .. Len(C) - 1 => Programmed(step) /\ ("card" \notin Faults => cardReady)
  BY <1>0, <1>3, <1>4 DEF InStage2, AtStage2, AtImages
<1>6. CASE step \in {12, 13}
  <2>1. LastTransfer
    BY <1>3, <1>6 DEF LastTransfer
  <2>2. step < Len(C) /\ ~(step \in 14 .. Len(C) - 1)
    BY <1>0, <1>6
  <2>3. /\ step' = step + 1 /\ t' = 1 /\ result' = "running" /\ C' = C
        /\ UNCHANGED <<job, clean>> /\ CardSoFar' /\ step' \in 11 .. Len(C)
    BY <1>1, <2>1, <2>2, ToolEnds
  <2>4. step' = 13 \/ (step' = 14 /\ step = 13)
    BY <1>6, <2>3
  <2>5. AtStage2'
    BY <1>1, <1>4, <1>5, <2>3, <2>4 DEF AtStage2, Idle, Configured
  <2>6. AtImages'
    BY <1>0, <1>1, <1>4, <1>5, <2>3, <2>4 DEF AtImages, Idle, Configured
  <2> QED
    BY <2>3, <2>5, <2>6 DEF Stage2Goes
<1>7. CASE step \in 14 .. Len(C) - 1
  <2>1. ~LastTransfer
    BY <1>0, <1>3, <1>7 DEF LastTransfer
  <2>2. /\ step' = step /\ t' = t + 1 /\ result' = "running" /\ C' = C
        /\ UNCHANGED <<job, clean>> /\ CardSoFar'
    BY <1>1, <2>1, ToolGoesOn
  <2>3. t' = 4
    BY <1>0, <1>3, <1>7, <2>2
  <2>4. AtStage2'
    BY <1>0, <1>7, <2>2 DEF AtStage2
  <2>5. AtImages'
    BY <1>0, <1>1, <1>4, <1>5, <1>7, <2>2, <2>3 DEF AtImages, Idle, Configured, Programmed
  <2> QED
    BY <2>2, <2>4, <2>5 DEF Stage2Goes, InStage2
<1> QED
  BY <1>3, <1>6, <1>7

\* The comparison with the image read back.
LEMMA CheckStep ==
  ASSUME InStage2, CheckImage, Proceed
  PROVE  Stage2Goes
<1>0. JobsTyped /\ TypeInv /\ Len(C) \in Nat /\ Len(C) >= 14 /\ cmd = C[step] /\ step \in Nat
  BY Stage2Ops DEF InStage2, Sessions
<1>1. /\ result = "running" /\ cmd.op = "sdif" /\ t = 4
      /\ UNCHANGED <<mode, req, stage2Vars, onCard>>
  BY <1>0, DoingFacts DEF CheckImage, boardVars
<1>2. step \in 14 .. Len(C) - 1
  BY <1>1, Stage2Ops DEF InStage2
<1>3. mode = "stage2" /\ Configured /\ Idle /\ Programmed(step) /\ ("card" \notin Faults => cardReady)
  BY <1>0, <1>1, <1>2 DEF InStage2, AtImages
<1>5. LastTransfer
  BY <1>1 DEF LastTransfer
<1>4. Verifies(job) \/ "card" \notin Faults => C[step].arg \in onCard
  <2>1. ~Verifies(job) \/ (ReadsImage /\ ~job.unreadable)
    <3>1. ~Fail
      BY <1>0, <1>1, <1>5, NextCommand DEF Fail
    <3>2. mode # "wild"
      BY <1>3
    <3>3. ~job.check \/ ReadsImage
      BY <3>1, <3>2 DEF CheckImage
    <3> QED
      BY <3>3, Zenon DEF Verifies
  <2> QED
    BY <1>0, <1>3, <2>1 DEF ReadsImage, Programmed
<1>6. step < Len(C)
  BY <1>0, <1>2
<1>7. /\ step' = step + 1 /\ t' = 1 /\ result' = "running" /\ C' = C
      /\ UNCHANGED <<job, clean>> /\ CardSoFar' /\ step' \in 11 .. Len(C)
  BY <1>1, <1>4, <1>5, <1>6, ToolEnds
<1>8. step' > 14 /\ step' \in Nat
  BY <1>0, <1>2, <1>7
<1>9. AtStage2'
  BY <1>8 DEF AtStage2
<1>10. AtImages'
  BY <1>1, <1>3, <1>7, <1>8 DEF AtImages, Idle, Configured, stage2Vars
<1> QED
  BY <1>7, <1>9, <1>10 DEF Stage2Goes

\* The request that stage 2 has is that of the tool under way.
LEMMA PendingIs ==
  ASSUME InStage2, step # 11, Board
  PROVE  /\ mode = "stage2" /\ req = C[step] /\ ~handshake
         /\ \/ /\ step = 12 /\ CONFIGRATION_Handle /\ t = 3 /\ bufHead = C[12].arg
               /\ hw_reset = Unset
            \/ step = 13 /\ CardInit /\ t = 2 /\ Configured
            \/ /\ step \in 14 .. Len(C) - 1 /\ CardProgram /\ t = 3 /\ bufHead = C[step].arg
               /\ Configured /\ ("card" \notin Faults => cardReady)
<1>1. req # Unset /\ mode = "stage2" /\ cmd = C[step] /\ Len(C) >= 14 /\ Len(C) \in Nat
  BY BoardHasRequest, ModeIs, Stage2Ops DEF InStage2
<1>2. \/ step = 12 /\ cmd.op = "config"
      \/ step = 13 /\ cmd.op = "sdinit"
      \/ step \in 14 .. Len(C) - 1 /\ cmd.op = "sdif"
      \/ step = Len(C)
  BY Stage2Ops DEF InStage2
<1>3. step # Len(C)
  BY <1>1 DEF InStage2, AtImages
<1>4. CASE step = 12 /\ cmd.op = "config"
  <2>1. t = 1 \/ t = 2 \/ t = 3
    <3>1. Len(Transfers(cmd.op)) = 3
      BY <1>4, TransfersAre
    <3>2. t \in 1 .. 3
      BY <3>1 DEF InStage2
    <3> QED
      BY <3>2
  <2>2. t = 3 /\ req = C[12] /\ bufHead = C[12].arg /\ ~handshake /\ hw_reset = Unset
    BY <1>1, <1>4, <2>1 DEF InStage2, AtStage2, Idle
  <2> QED
    BY <1>1, <1>4, <2>2, BoardInStage2
<1>5. CASE step = 13 /\ cmd.op = "sdinit"
  <2>1. t = 1 \/ t = 2
    <3>1. Len(Transfers(cmd.op)) = 2
      BY <1>5, TransfersAre
    <3>2. t \in 1 .. 2
      BY <3>1 DEF InStage2
    <3> QED
      BY <3>2
  <2>2. t = 2 /\ req = C[13] /\ ~handshake /\ Configured
    BY <1>1, <1>5, <2>1 DEF InStage2, AtStage2, Idle
  <2> QED
    BY <1>1, <1>5, <2>2, BoardInStage2
<1>6. CASE step \in 14 .. Len(C) - 1 /\ cmd.op = "sdif"
  <2>1. t = 1 \/ t = 2 \/ t = 3 \/ t = 4
    <3>1. Len(Transfers(cmd.op)) = 4
      BY <1>6, TransfersAre
    <3>2. t \in 1 .. 4
      BY <3>1 DEF InStage2
    <3> QED
      BY <3>2
  <2>2. /\ t = 3 /\ req = C[step] /\ bufHead = C[step].arg /\ ~handshake /\ Configured
        /\ "card" \notin Faults => cardReady
    BY <1>1, <1>6, <2>1 DEF InStage2, AtImages, Idle
  <2> QED
    BY <1>1, <1>6, <2>2, BoardInStage2
<1> QED
  BY <1>2, <1>3, <1>4, <1>5, <1>6

\* The card keeps what it has, and nothing moves in the script.
LEMMA BoardKeepsCard ==
  ASSUME InStage2, UNCHANGED <<hostVars, onCard>>
  PROVE  CardSoFar' /\ C' = C /\ UNCHANGED <<job, step, t, result, clean>>
<1>1. UNCHANGED <<job, step, t, result, clean>> /\ C' = C
  BY DEF hostVars, C
<1>2. Len(C) \in Nat /\ step \in Nat /\ CardSoFar
  BY Stage2Ops DEF InStage2
<1>3. step <= step' /\ step' \in Nat /\ \A n \in 14 .. Len(C) - 1 : ~(step <= n /\ n < step')
  BY <1>1, <1>2
<1> QED
  BY <1>1, <1>2, <1>3, CardKeeps

\* config_hand takes over the hand file, and Borad_Init the drivers of its chip.
LEMMA ConfigStep ==
  ASSUME InStage2, step = 12, CONFIGRATION_Handle, mode = "stage2", bufHead = C[12].arg,
         hw_reset = Unset, t = 3
  PROVE  Stage2Goes
<1>1. bufHead = File("hand", job.config) /\ Len(C) \in Nat /\ Len(C) >= 14
      /\ C[12].op = "config"
  BY Stage2Ops DEF InStage2, LoadsStage2, C, Cmd
<1>2. bufHead # Junk /\ bufHead.name = "hand" /\ bufHead.config = job.config
  <2>1. C[12].arg \in Files
    <3>1. job \in Jobs /\ 12 \in 1 .. Len(job.cmds) /\ job.cmds[12].op = "config"
      BY <1>1 DEF InStage2, C
    <3> QED
      BY <3>1 DEF InStage2, Sessions, JobsTyped, C
  <2> QED
    BY <1>1, <2>1 DEF InStage2, Sessions, JobsTyped, File
<1>3. Borad_Init(CpuId[job.config]) /\ CpuId[job.config] \in CpuIds
  BY <1>2 DEF CONFIGRATION_Handle, CpuIdsIn, InStage2, Sessions
<1>4. mode' = "stage2" /\ drivers' = CpuId[job.config]
      /\ hw_reset' = IF CpuId[job.config] = 4740 THEN Unset ELSE CpuId[job.config]
  BY <1>3 DEF Borad_Init
<1>5. UNCHANGED <<hostVars, onCard>> /\ Hand' = bufHead /\ Bulk_out_size' = 0 /\ req' = Unset
  BY DEF CONFIGRATION_Handle, Handling
<1>6. CardSoFar' /\ C' = C /\ UNCHANGED <<job, step, t, result, clean>>
  BY <1>5, BoardKeepsCard
<1>7. Configured'
  BY <1>1, <1>4, <1>5, <1>6 DEF Configured
<1>8. AtStage2'
  BY <1>4, <1>5, <1>6, <1>7 DEF AtStage2
<1>9. AtImages'
  BY <1>1, <1>6 DEF AtImages
<1> QED
  BY <1>6, <1>8, <1>9 DEF Stage2Goes, InStage2

\* The card is initialised.
LEMMA CardInitStep ==
  ASSUME InStage2, step = 13, CardInit, mode = "stage2", Configured, t = 2
  PROVE  Stage2Goes
<1>1. drivers # Unset
  BY DEF InStage2, Sessions, JobsTyped, Configured
<1>2. /\ UNCHANGED <<hostVars, onCard, mode, Hand, drivers, hw_reset>>
      /\ Bulk_out_size' = 0 /\ req' = Unset /\ ("card" \notin Faults => cardReady')
  BY <1>1 DEF CardInit, Handling
<1>3. CardSoFar' /\ C' = C /\ UNCHANGED <<job, step, t, result, clean>>
  BY <1>2, BoardKeepsCard
<1>4. AtStage2'
  BY <1>2, <1>3 DEF AtStage2, Configured
<1>5. AtImages'
  BY <1>3, Stage2Ops DEF AtImages, InStage2
<1> QED
  BY <1>3, <1>4, <1>5 DEF Stage2Goes, InStage2

\* A file is written to the card.
LEMMA CardProgramStep ==
  ASSUME InStage2, step \in 14 .. Len(C) - 1, CardProgram, mode = "stage2", Configured, t = 3,
         bufHead = C[step].arg, "card" \notin Faults => cardReady
  PROVE  Stage2Goes
<1>1. drivers # Unset
  BY DEF InStage2, Sessions, JobsTyped, Configured
<1>2. /\ UNCHANGED <<hostVars, mode, Hand, drivers, hw_reset, cardReady>>
      /\ Bulk_out_size' = 0 /\ req' = Unset
      /\ onCard' = onCard \/ onCard' = onCard \cup {C[step].arg}
      /\ "card" \notin Faults => onCard' = onCard \cup {C[step].arg}
  BY <1>1 DEF CardProgram, Handling
<1>3. C' = C /\ UNCHANGED <<job, step, t, result, clean>>
  BY <1>2 DEF hostVars, C
<1>4. CardSoFar'
  <2>1. onCard \subseteq {C[n].arg : n \in {m \in 14 .. Len(C) - 1 : m <= step}}
    BY DEF InStage2, CardSoFar
  <2>2. C[step].arg \in {C[n].arg : n \in {m \in 14 .. Len(C) - 1 : m <= step}}
    <3>1. step <= step
      BY Stage2Ops DEF InStage2
    <3> QED
      BY <3>1
  <2>3. onCard' \subseteq {C[n].arg : n \in {m \in 14 .. Len(C) - 1 : m <= step}}
    BY <1>2, <2>1, <2>2
  <2>4. onCard \subseteq onCard'
    BY <1>2
  <2> QED
    BY <1>3, <2>3, <2>4 DEF InStage2, CardSoFar
<1>5. AtStage2'
  BY <1>3, Stage2Ops DEF AtStage2, InStage2
<1>6. Programmed(step)'
  BY <1>2, <1>3 DEF Programmed
<1>7. AtImages'
  BY <1>2, <1>3, <1>6, Stage2Ops DEF AtImages, Configured, InStage2, Programmed
<1> QED
  BY <1>3, <1>4, <1>5, <1>7 DEF Stage2Goes, InStage2

\* The board's steps in stage 2.
LEMMA Stage2Board ==
  ASSUME InStage2, Board
  PROVE  Stage2Goes
BY StartingBoard, PendingIs, ConfigStep, CardInitStep, CardProgramStep

\* The host's steps once stage 2 runs.
LEMMA Stage2Host ==
  ASSUME InStage2, Host \/ Kill
  PROVE  Stage2Goes
<1>0. JobsTyped /\ TypeInv /\ Len(C) \in Nat
  BY Stage2Ops DEF InStage2, Sessions
<1>1. CASE Fail /\ UNCHANGED boardVars
  BY <1>0, <1>1, Stage2Fails DEF InStage2
<1>2. CASE PatchFirmware
  <2>1. cmd.op # "patch"
    BY Stage2Ops DEF InStage2
  <2> QED
    BY <1>0, <1>2, <2>1, DoingFacts DEF PatchFirmware
<1>3. CASE usb_get_ingenic_cpu
  <2>1. cmd.op = "probe"
    BY <1>0, <1>3, DoingFacts DEF usb_get_ingenic_cpu
  <2>2. step = 11
    BY <2>1, Stage2Ops DEF InStage2
  <2> QED
    BY <1>3, <2>2, ProbeStep
<1>4. CASE CheckImage
  <2>1. (Proceed \/ Fail) /\ UNCHANGED boardVars
    BY <1>4 DEF CheckImage
  <2> QED
    BY <1>1, <1>4, <2>1, CheckStep
<1>5. CASE Stalled \/ TimedOut \/ Kill
  BY <1>1, <1>5 DEF Stalled, TimedOut, Kill
<1> QED
  BY <1>2, <1>3, <1>4, <1>5, ControlStep, DataStep, AckStep DEF Host

-----------------------------------------------------------------------------
(***************************************************************************)
(* The invariant of a session.                                             *)
(***************************************************************************)

\* A tool that needs stage 2 does nothing to a board in its ROM.
LEMMA RomStep ==
  ASSUME Sessions, TypeInv, job \in Jobs, NeedsStage2(job), AtRom,
         step \in 1 .. Len(C), t \in 1 .. Len(Transfers(cmd.op)),
         result \in {"running", "failed", "done"}, Host \/ Kill \/ Board
  PROVE  UNCHANGED <<job, clean>> /\ result' \in {"running", "failed", "done"} /\ AtRom'
<1>0. JobsTyped /\ Len(C) \in Nat /\ step \in Nat /\ cmd = C[step]
  BY DEF Sessions, JobsTyped, C, cmd
<1>1. ~Board
  BY BoardHasRequest DEF AtRom, InRom
<1>2. result = "running"
  BY <1>1 DEF Host, Kill, PatchFirmware, usb_get_ingenic_cpu, usb_control_msg, Stalled,
     usb_send_data_to_ingenic, usb_read_data_from_ingenic, CheckImage, TimedOut, Doing
<1>3. cmd.op \in {"patch", "probe", "config", "sdinit", "sdif", "reboot"}
  BY <1>0 DEF NeedsStage2, C
<1>4. CASE Fail /\ UNCHANGED boardVars
  <2>1. UNCHANGED <<job, clean, step, t, mode, req, onCard>> /\ result' = "failed"
    BY <1>4, FailureStays DEF boardVars
  <2> QED
    BY <1>2, <2>1 DEF AtRom, InRom, C
<1>5. ASSUME Proceed, UNCHANGED boardVars, cmd.op \in {"patch", "probe"}, t = 1
      PROVE  UNCHANGED <<job, clean>> /\ result' \in {"running", "failed", "done"} /\ AtRom'
  <2>1. /\ UNCHANGED <<job, clean, mode, req, onCard>>
        /\ \/ step < Len(C) /\ step' = step + 1 /\ t' = 1 /\ result' = "running"
           \/ step = Len(C) /\ step' = step /\ t' = t /\ result' = "done"
    BY <1>0, <1>2, <1>5, NextCommand DEF LastTransfer, boardVars
  <2>2. C' = C
    BY <2>1 DEF C
  <2>3. ASSUME NEW n \in 1 .. Len(C), n < step' \/ (n = step' /\ result' = "done")
        PROVE  C[n].op \in {"patch", "probe"}
    <3>1. n < step \/ n = step
      BY <1>0, <2>1, <2>3
    <3> QED
      BY <1>0, <1>2, <1>5, <3>1 DEF AtRom
  <2>4. t' = 1
    BY <1>5, <2>1
  <2>5. InRom' /\ onCard' = {}
    BY <2>1 DEF AtRom, InRom
  <2>7. result' = "done" => step' = Len(C')
    BY <2>1, <2>2
  <2>6. AtRom'
    BY <2>2, <2>3, <2>4, <2>5, <2>7 DEF AtRom
  <2> QED
    BY <2>1, <2>6
<1>6. CASE PatchFirmware
  BY <1>0, <1>4, <1>5, <1>6, DoingFacts DEF PatchFirmware
<1>7. CASE usb_get_ingenic_cpu
  BY <1>0, <1>4, <1>5, <1>7, DoingFacts DEF usb_get_ingenic_cpu
<1>8. CASE usb_control_msg
  BY <1>3, <1>8 DEF usb_control_msg, AtRom, InRom, RomRequests
<1>9. CASE usb_send_data_to_ingenic
  <2>1. /\ cmd.op \in {"config", "sdif"} /\ t = 1 /\ Proceed
        /\ UNCHANGED <<mode, req, onCard>>
    BY <1>0, <1>3, <1>9, DoingFacts DEF usb_send_data_to_ingenic
  <2>2. step' = step /\ t' = t + 1 /\ result' = "running" /\ UNCHANGED <<job, clean>>
    BY <1>0, <1>2, <2>1, NextTransfer DEF LastTransfer
  <2>3. t' = 2 /\ C' = C
    BY <2>1, <2>2 DEF C
  <2>4. AtRom'
    BY <1>0, <1>2, <2>1, <2>2, <2>3 DEF AtRom, InRom
  <2> QED
    BY <2>2, <2>4
<1>10. CASE usb_read_data_from_ingenic \/ CheckImage
  <2>1. \/ cmd.op = "sdinit" /\ t = 2
        \/ cmd.op \in {"config", "sdif"} /\ t \in {3, 4}
    BY <1>0, <1>10, DoingFacts DEF usb_read_data_from_ingenic, CheckImage
  <2> QED
    BY <1>0, <2>1 DEF AtRom
<1>11. CASE Stalled \/ TimedOut \/ Kill
  BY <1>4, <1>11 DEF Stalled, TimedOut, Kill
<1> QED
  BY <1>1, <1>6, <1>7, <1>8, <1>9, <1>10, <1>11 DEF Host

\* Nothing of the host moves when its script is done, and the board has at most
\* the last request.
LEMMA DoneHost ==
  ASSUME result = "done", Host \/ Kill
  PROVE  FALSE
BY DEF Host, Kill, PatchFirmware, usb_get_ingenic_cpu, usb_control_msg, Stalled,
   usb_send_data_to_ingenic, usb_read_data_from_ingenic, CheckImage, TimedOut, Doing

\* What follows when a file was written.
LEMMA AfterProgramStep ==
  ASSUME Sessions, job \in Jobs, LoadsProgram(job), AfterProgram, Board
  PROVE  AfterProgram' /\ UNCHANGED <<hostVars, onCard>>
<1>1. Starting
  BY BoardHasRequest DEF AfterProgram
<1>2. Program # Junk /\ Program.name = "bin"
  <2>1. 8 \in 1 .. Len(job.cmds) /\ job.cmds[8].op = "if" /\ job.cmds[8].arg.name = "bin"
    BY DEF LoadsProgram, Loading
  <2> QED
    BY <2>1 DEF Sessions, JobsTyped, Program, C
<1>3. req.op = "start2" /\ req.arg = ProgramAt
  BY <1>1 DEF Starting, LoadsProgram, Loading, C, ProgramAt, Cmd
<1>4. RomStart2
  BY <1>1, <1>3, BoardInRom DEF Starting
<1>5. mode' = "off"
  BY <1>1, <1>2, <1>3, <1>4 DEF RomStart2, Starting
<1> QED
  BY <1>4, <1>5 DEF RomStart2, Handling, AfterProgram

\* What follows a reboot.
LEMMA AfterRebootStep ==
  ASSUME Sessions, job \in Jobs, LoadsStage2(job), AfterReboot, Board
  PROVE  AfterReboot' /\ UNCHANGED <<hostVars, onCard>>
<1>1. mode = "stage2" /\ req = C[Len(C)] /\ Configured
  BY BoardHasRequest DEF AfterReboot
<1>2. req.op = "reboot"
  BY <1>1 DEF LoadsStage2, C
<1>3. DeviceReset
  BY <1>1, <1>2, BoardInStage2
<1>4. UNCHANGED <<hostVars, onCard, Hand, drivers, hw_reset>> /\ req' = Unset
      /\ mode' = IF hw_reset = Unset THEN "wild" ELSE "off"
  BY <1>3 DEF DeviceReset, Handling, stage2Vars
<1> QED
  BY <1>1, <1>4 DEF AfterReboot, Configured, hostVars

\* The position stays one of the script's.
LEMMA PositionKeeps ==
  ASSUME JobsTyped, TypeInv, job \in Jobs, step \in 1 .. Len(C), t \in 1 .. Len(Transfers(cmd.op)),
         Host \/ Kill \/ Board
  PROVE  step' \in 1 .. Len(C') /\ t' \in 1 .. Len(Transfers(cmd'.op))
<1>1. CASE UNCHANGED <<job, step, t>>
  <2>1. C' = C /\ cmd' = cmd
    BY <1>1 DEF C, cmd
  <2> QED
    BY <1>1, <2>1
<1>2. CASE Board
  BY <1>1, <1>2, BoardHasRequest DEF hostVars
<1>3. CASE Host \/ Kill
  <2>1. result = "running" /\ (Proceed \/ Fail)
    BY <1>3 DEF Host, Kill, PatchFirmware, usb_get_ingenic_cpu, usb_control_msg, Stalled,
       usb_send_data_to_ingenic, usb_read_data_from_ingenic, CheckImage, TimedOut, Doing
  <2>2. CASE Fail
    BY <1>1, <2>2, FailureStays
  <2>3. CASE Proceed /\ LastTransfer
    <3>1. CASE result' = "done"
      BY <1>1, <2>1, <2>3, <3>1, NextCommand
    <3>2. CASE result' = "running"
      BY <2>1, <3>2, HostGoesOn DEF HostOK, C
    <3> QED
      BY <2>1, <2>3, <3>1, <3>2, NextCommand
  <2>4. CASE Proceed /\ ~LastTransfer
    <3>1. result' = "running"
      BY <2>1, <2>4, NextTransfer
    <3> QED
      BY <2>1, <3>1, HostGoesOn DEF HostOK, C
  <2> QED
    BY <2>1, <2>2, <2>3, <2>4
<1> QED
  BY <1>2, <1>3

\* A step of host or board takes the script and the board to the next place.
LEMMA SessionStep ==
  ASSUME Sessions, TypeInv, SessionInv, clean, Host \/ Kill \/ Board
  PROVE  SessionInv'
<1>0. /\ JobsTyped /\ job \in Jobs /\ result \in {"running", "failed", "done"}
      /\ step \in 1 .. Len(C) /\ t \in 1 .. Len(Transfers(cmd.op))
      /\ Len(C) \in Nat /\ step \in Nat
  BY DEF SessionInv, Sessions, JobsTyped, C
<1>1. step' \in 1 .. Len(C') /\ t' \in 1 .. Len(Transfers(cmd'.op))
  BY <1>0, PositionKeeps
<1>2. CASE NeedsStage2(job) /\ AtRom
  <2>1. UNCHANGED <<job, clean>> /\ result' \in {"running", "failed", "done"} /\ AtRom'
    BY <1>0, <1>2, RomStep
  <2> QED
    BY <1>0, <1>1, <1>2, <2>1 DEF SessionInv
<1>3. CASE result = "done" /\ LoadsProgram(job) /\ onCard = {} /\ step = Len(C) /\ AfterProgram
  <2>1. AfterProgram' /\ UNCHANGED <<hostVars, onCard>>
    BY <1>0, <1>3, DoneHost, AfterProgramStep
  <2>2. UNCHANGED <<job, step, t, result, clean>> /\ C' = C
    BY <2>1 DEF hostVars, C
  <2> QED
    BY <1>0, <1>1, <1>3, <2>1, <2>2 DEF SessionInv
<1>4. CASE result = "done" /\ LoadsStage2(job) /\ CardSoFar /\ step = Len(C) /\ AfterReboot
  <2>1. AfterReboot' /\ UNCHANGED <<hostVars, onCard>>
    BY <1>0, <1>4, DoneHost, AfterRebootStep
  <2>2. UNCHANGED <<job, step, t, result, clean>> /\ C' = C
    BY <2>1 DEF hostVars, C
  <2>3. CardSoFar'
    BY <1>4, <2>1, <2>2 DEF CardSoFar
  <2> QED
    BY <1>0, <1>1, <1>4, <2>1, <2>2, <2>3 DEF SessionInv
<1>5. CASE result # "done" /\ LoadsProgram(job) /\ onCard = {} /\ AtLoading
  <2>1. Loading(job) /\ Len(C) = 10 /\ step \in 1 .. 10
    BY <1>0, <1>5 DEF LoadsProgram, C
  <2>2. LoadingGoes
    BY <1>0, <1>5, <2>1, LoadingHost, LoadingBoard
  <2>3. UNCHANGED <<job, clean, onCard>> /\ C' = C
    BY <2>2 DEF LoadingGoes, C
  <2>4. \/ result' \in {"running", "failed"} /\ AtLoading'
        \/ result' = "done" /\ step' = Len(C) /\ Starting'
    BY <2>1, <2>2 DEF LoadingGoes
  <2> QED
    BY <1>0, <1>1, <1>5, <2>3, <2>4 DEF SessionInv, AfterProgram
<1>6. CASE result # "done" /\ LoadsStage2(job) /\ CardSoFar /\ AtLoading /\ AtStage2 /\ AtImages
  <2>0. Loading(job) /\ Len(C) >= 14
    BY <1>6 DEF LoadsStage2, C
  <2>1. CASE step \in 1 .. 10
    <3>1. LoadingGoes
      BY <1>0, <1>6, <2>0, <2>1, LoadingHost, LoadingBoard
    <3>2. UNCHANGED <<job, clean, onCard>> /\ C' = C
      BY <3>1 DEF LoadingGoes, C
    <3>3. /\ result' \in {"running", "failed"} /\ step' \in 1 .. 11
          /\ step' \in 1 .. 10 => AtLoading'
          /\ step' = 11 => Starting'
      BY <2>0, <3>1 DEF LoadingGoes
    <3>4. AtLoading'
      <4>1. CASE step' \in 1 .. 10
        BY <3>3, <4>1
      <4>2. CASE step' = 11
        BY <4>2 DEF AtLoading
      <4> QED
        BY <3>3, <4>1, <4>2
    <3>5. AtStage2'
      BY <3>3 DEF AtStage2
    <3>6. AtImages'
      BY <2>0, <3>2, <3>3 DEF AtImages
    <3>7. CardSoFar'
      <4>1. onCard = {}
        <5>1. {m \in 14 .. Len(C) - 1 : m <= step} = {}
          BY <2>1
        <5> QED
          BY <1>6, <5>1 DEF CardSoFar
      <4>2. \A n \in 14 .. Len(C) - 1 : ~(n < step')
        BY <3>3
      <4> QED
        BY <3>2, <4>1, <4>2 DEF CardSoFar
    <3> QED
      BY <1>0, <1>1, <1>6, <3>2, <3>3, <3>4, <3>5, <3>6, <3>7 DEF SessionInv
  <2>2. CASE ~(step \in 1 .. 10)
    <3>1. InStage2
      <4>1. step \in 11 .. Len(C)
        BY <1>0, <2>2
      <4> QED
        BY <1>0, <1>6, <4>1 DEF InStage2
    <3>2. Stage2Goes
      BY <3>1, Stage2Host, Stage2Board
    <3>3. UNCHANGED <<job, clean>> /\ C' = C /\ CardSoFar'
      BY <3>2 DEF Stage2Goes, C
    <3>4. CASE result' = "done"
      <4>1. step' = Len(C) /\ AfterReboot'
        BY <3>2, <3>4 DEF Stage2Goes
      <4> QED
        BY <1>0, <1>1, <1>6, <3>3, <3>4, <4>1 DEF SessionInv
    <3>5. CASE result' # "done"
      <4>1. step' \in 11 .. Len(C) /\ result' \in {"running", "failed"} /\ AtStage2' /\ AtImages'
        BY <3>2, <3>5 DEF Stage2Goes
      <4>2. AtLoading'
        BY <4>1 DEF AtLoading
      <4> QED
        BY <1>0, <1>1, <1>6, <3>3, <3>5, <4>1, <4>2 DEF SessionInv
    <3> QED
      BY <3>4, <3>5
  <2> QED
    BY <2>1, <2>2
<1> QED
  BY <1>2, <1>3, <1>4, <1>5, <1>6 DEF SessionInv

\* A script that begins with the board quiet in its ROM.
LEMMA SessionBegins ==
  ASSUME Sessions, NEW j \in Jobs, StartScript(j)
  PROVE  SessionInv'
<1> SUFFICES ASSUME clean' PROVE SessionInv'
  BY DEF SessionInv
<1>1. /\ mode' = "rom" /\ req' = Unset /\ onCard' = {}
      /\ job' = j /\ step' = 1 /\ t' = 1 /\ result' = "running"
  BY DEF StartScript
<1>2. Len(j.cmds) \in Nat \ {0} /\ j.cmds[1].op \in Ops
  BY DEF Sessions, JobsTyped
<1>3. C' = j.cmds /\ cmd' = j.cmds[1]
  BY <1>1 DEF C, cmd
<1>4. step' \in 1 .. Len(C') /\ t' \in 1 .. Len(Transfers(cmd'.op))
  <2>1. 1 \in 1 .. Len(j.cmds)
    BY <1>2
  <2> DEFINE L == Len(Transfers(j.cmds[1].op))
  <2>2. L \in 1 .. 4
    BY <1>2, TransferCount
  <2>3. 1 \in 1 .. L
    <3> HIDE DEF L
    <3>1. \A n \in 1 .. 4 : 1 \in 1 .. n
      OBVIOUS
    <3> QED
      BY <2>2, <3>1, Zenon
  <2> QED
    BY <1>1, <1>3, <2>1, <2>3
<1>5. CASE NeedsStage2(j)
  <2>1. \A n \in 1 .. Len(C') : ~(n < step')
    BY <1>1
  <2>2. AtRom'
    BY <1>1, <2>1 DEF AtRom, InRom
  <2> QED
    BY <1>1, <1>4, <1>5, <2>2 DEF SessionInv
<1>6. AtLoading'
  BY <1>1 DEF AtLoading, InRom
<1>7. CASE LoadsProgram(j)
  BY <1>1, <1>4, <1>6, <1>7 DEF SessionInv
<1>8. CASE LoadsStage2(j)
  <2>1. AtStage2'
    BY <1>1 DEF AtStage2
  <2>2. AtImages'
    BY <1>1 DEF AtImages
  <2>3. CardSoFar'
    <3>1. \A n \in 14 .. Len(C') - 1 : ~(n < step')
      BY <1>1
    <3> QED
      BY <1>1, <3>1 DEF CardSoFar
  <2> QED
    BY <1>1, <1>4, <1>6, <1>8, <2>1, <2>2, <2>3 DEF SessionInv
<1> QED
  BY <1>5, <1>7, <1>8 DEF Sessions

\* Every step keeps the invariant of the session.
THEOREM SessionInvNext ==
  ASSUME Sessions, TypeInv, SessionInv, [Next]_vars
  PROVE  SessionInv'
<1>1. ASSUME NEW j \in Jobs, StartScript(j) PROVE SessionInv'
  BY <1>1, SessionBegins
<1>2. CASE PowerCycle
  BY <1>2 DEF PowerCycle, SessionInv
<1>3. CASE Host \/ Kill \/ Board
  <2>1. CASE clean
    BY <1>3, <2>1, SessionStep
  <2>2. CASE ~clean
    <3>1. clean' = clean
      BY <1>3, BoardHasRequest DEF hostVars, Host, Kill, PatchFirmware, usb_get_ingenic_cpu,
         usb_control_msg, Stalled, usb_send_data_to_ingenic, usb_read_data_from_ingenic,
         CheckImage, TimedOut, Proceed, Fail
    <3> QED
      BY <2>2, <3>1 DEF SessionInv
  <2> QED
    BY <2>1, <2>2
<1>4. CASE UNCHANGED vars
  <2>1. /\ UNCHANGED <<job, step, t, result, clean, mode, req, mem, sdram, flushed, start_addr>>
        /\ UNCHANGED <<stage2Vars, onCard>>
    BY <1>4 DEF vars, hostVars, boardVars, memVars
  <2>2. UNCHANGED <<bufHead, Bulk_out_size, handshake, Hand, drivers, hw_reset, cardReady>>
    BY <2>1 DEF stage2Vars
  <2>3. C' = C /\ cmd' = cmd /\ Stage1At' = Stage1At /\ ProgramAt' = ProgramAt /\ Program' = Program
    BY <2>1 DEF C, cmd, Stage1At, ProgramAt, Program
  <2>4. Starting' = Starting /\ Idle' = Idle /\ Configured' = Configured /\ InRom' = InRom
    BY <2>1, <2>2, <2>3 DEF Starting, Idle, Configured, InRom
  <2>5. AtLoading' = AtLoading
    BY <2>1, <2>3, <2>4 DEF AtLoading
  <2>6. AtStage2' = AtStage2
    BY <2>1, <2>2, <2>3, <2>4 DEF AtStage2
  <2>7. AtImages' = AtImages
    BY <2>1, <2>2, <2>3, <2>4 DEF AtImages, Programmed
  <2>8. AtRom' = AtRom /\ CardSoFar' = CardSoFar
    BY <2>1, <2>3, <2>4 DEF AtRom, CardSoFar
  <2>9. AfterProgram' = AfterProgram /\ AfterReboot' = AfterReboot
    BY <2>1, <2>2, <2>3, <2>4 DEF AfterProgram, AfterReboot
  <2> QED
    BY <2>1, <2>3, <2>5, <2>6, <2>7, <2>8, <2>9 DEF SessionInv
<1> QED
  BY <1>1, <1>2, <1>3, <1>4 DEF Next

-----------------------------------------------------------------------------
(***************************************************************************)
(* What the invariant gives.                                               *)
(***************************************************************************)

\* The invariant holds throughout every session.
THEOREM SessionInvHolds ==
  ASSUME Sessions
  PROVE  Spec => [](TypeInv /\ SessionInv)
<1>1. Init => TypeInv /\ SessionInv
  BY TypeInvInit DEF Init, SessionInv
<1>2. TypeInv /\ SessionInv /\ [Next]_vars => (TypeInv /\ SessionInv)'
  BY TypeInvNext, SessionInvNext DEF Sessions
<1> QED
  BY <1>1, <1>2, PTL DEF Spec

\* In a script that found the board quiet in its ROM the board never executes
\* anything but a program that was loaded for this run, on SDRAM that works and after
\* the caches were flushed, and never calls a driver function that is not set: on
\* every chip that has a hw_reset.
THEOREM NeverStraysHolds ==
  ASSUME Sessions, \A j \in Jobs : CpuId[j.config] # 4740
  PROVE  Spec => []NeverStrays
<1>1. TypeInv /\ SessionInv => NeverStrays
  <2> SUFFICES ASSUME SessionInv, clean, TypeInv PROVE mode # "wild"
    BY DEF NeverStrays
  <2>0. /\ job \in Jobs /\ step \in 1 .. Len(C) /\ Len(C) \in Nat
        /\ Len(C) >= 1
    BY DEF SessionInv, Sessions, JobsTyped, C
  <2>1. CASE NeedsStage2(job) /\ AtRom
    BY <2>1 DEF AtRom, InRom
  <2>2. ASSUME AtLoading, step \in 1 .. 10 PROVE mode # "wild"
    <3>1. step \in 1 .. 3 \/ step = 4 \/ step = 5 \/ step = 6 \/ step = 7 \/ step = 8
          \/ step = 9 \/ step = 10
      BY <2>2
    <3> QED
      BY <2>2, <3>1 DEF AtLoading, InRom
  <2>3. CASE LoadsProgram(job) /\ result = "done" /\ AfterProgram
    BY <2>3 DEF AfterProgram, Starting
  <2>4. CASE LoadsProgram(job) /\ result # "done" /\ AtLoading
    BY <2>0, <2>2, <2>4 DEF LoadsProgram, C
  <2>5. CASE LoadsStage2(job) /\ result = "done" /\ AfterReboot
    BY <2>0, <2>5 DEF AfterReboot, Configured, Sessions, JobsTyped
  <2>6. CASE LoadsStage2(job) /\ result # "done" /\ AtLoading /\ AtStage2 /\ AtImages
    <3>1. CASE step \in 1 .. 10
      BY <2>2, <2>6, <3>1
    <3>2. CASE ~(step \in 1 .. 10)
      <4>1. step \in 11 .. Len(C)
        BY <2>0, <3>2
      <4>2. step = 11 \/ step = 12 \/ step = 13 \/ step \in 14 .. Len(C) - 1
            \/ (step = Len(C) /\ step >= 14)
        BY <2>0, <4>1
      <4> QED
        BY <2>6, <4>2 DEF AtStage2, AtImages, Starting
    <3> QED
      BY <3>1, <3>2
  <2> QED
    BY <2>1, <2>3, <2>4, <2>5, <2>6 DEF SessionInv
<1> QED
  BY <1>1, SessionInvHolds, PTL

\* The commands that download images.
LEMMA AskedIs ==
  ASSUME Sessions, job \in Jobs
  PROVE  /\ NeedsStage2(job) /\ (\A n \in 1 .. Len(C) : C[n].op \in {"patch", "probe"})
              => Asked = {}
         /\ LoadsProgram(job) => Asked = {}
         /\ LoadsStage2(job) => Asked = {C[n].arg : n \in 14 .. Len(C) - 1}
<1>0. Len(C) \in Nat /\ Asked = {C[n].arg : n \in {m \in 1 .. Len(C) : C[m].op = "sdif"}}
  BY DEF Sessions, JobsTyped, C, Asked
<1>1. ASSUME \A n \in 1 .. Len(C) : C[n].op \in {"patch", "probe"}
      PROVE  Asked = {}
  BY <1>0, <1>1
<1>2. ASSUME Loading(job), NEW n \in 1 .. 10
      PROVE  C[n].op # "sdif"
  <2>1. n = 1 \/ n = 2 \/ n = 3 \/ n = 4 \/ n = 5 \/ n = 6 \/ n = 7 \/ n = 8 \/ n = 9 \/ n = 10
    OBVIOUS
  <2> QED
    BY <1>2, <2>1 DEF Loading, C, Cmd
<1>3. ASSUME LoadsProgram(job) PROVE Asked = {}
  <2>1. Len(C) = 10 /\ Loading(job)
    BY <1>3 DEF LoadsProgram, C
  <2>2. \A n \in 1 .. Len(C) : C[n].op # "sdif"
    BY <1>2, <2>1
  <2> QED
    BY <1>0, <2>2
<1>4. ASSUME LoadsStage2(job) PROVE Asked = {C[n].arg : n \in 14 .. Len(C) - 1}
  <2>1. Len(C) >= 14 /\ Loading(job)
    BY <1>4 DEF LoadsStage2, C
  <2>2. ASSUME NEW n \in 1 .. Len(C), C[n].op = "sdif" PROVE n \in 14 .. Len(C) - 1
    <3>1. ~(n \in 1 .. 10)
      BY <1>2, <2>1, <2>2
    <3>2. n # 11 /\ n # 12 /\ n # 13 /\ n # Len(C)
      BY <1>4, <2>2 DEF LoadsStage2, C, Cmd
    <3> QED
      BY <1>0, <2>1, <3>1, <3>2
  <2>3. ASSUME NEW n \in 14 .. Len(C) - 1 PROVE n \in 1 .. Len(C) /\ C[n].op = "sdif"
    BY <1>0, <1>4 DEF LoadsStage2, C
  <2>4. {m \in 1 .. Len(C) : C[m].op = "sdif"} = 14 .. Len(C) - 1
    BY <2>2, <2>3
  <2> QED
    BY <1>0, <2>4
<1> QED
  BY <1>1, <1>3, <1>4

\* Such a script only writes its own images to the card, with the drivers of its own
\* configuration.
THEOREM WrittenForThisRunHolds ==
  ASSUME Sessions
  PROVE  Spec => []WrittenForThisRun
<1>1. TypeInv /\ SessionInv => WrittenForThisRun
  <2> SUFFICES ASSUME SessionInv, clean, onCard # {}
               PROVE  /\ onCard \subseteq Asked
                      /\ Hand = File("hand", job.config)
                      /\ drivers = CpuId[job.config]
    BY DEF WrittenForThisRun
  <2>1. /\ job \in Jobs /\ LoadsStage2(job) /\ CardSoFar
        /\ step \in 1 .. Len(C) /\ Len(C) \in Nat /\ Len(C) >= 14
        /\ result = "done" => AfterReboot
        /\ result # "done" => AtImages
    BY DEF SessionInv, AtRom, Sessions, JobsTyped, C, LoadsStage2
  <2>2. onCard \subseteq {C[n].arg : n \in {m \in 14 .. Len(C) - 1 : m <= step}}
    BY <2>1 DEF CardSoFar
  <2>3. onCard \subseteq Asked
    BY <2>1, <2>2, AskedIs
  <2>4. step \in 14 .. Len(C)
    <3>1. PICK n \in 14 .. Len(C) - 1 : n <= step
      BY <2>2
    <3> QED
      BY <2>1, <3>1
  <2>5. Configured
    <3>1. step \in 14 .. Len(C) - 1 \/ (step = Len(C) /\ step >= 14)
      BY <2>1, <2>4
    <3> QED
      BY <2>1, <3>1 DEF AtImages, AfterReboot
  <2> QED
    BY <2>3, <2>5 DEF Configured
<1> QED
  BY <1>1, SessionInvHolds, PTL

\* "Done." means that every image that was asked for is on the card: with --check
\* even if writing to the card fails, as long as reading does not, and without it
\* if writing does not.
THEOREM DoneMeansDownloadedHolds ==
  ASSUME Sessions
  PROVE  Spec => []DoneMeansDownloaded
<1>1. TypeInv /\ SessionInv => DoneMeansDownloaded
  <2> SUFFICES ASSUME SessionInv, clean, result = "done", Verifies(job) \/ "card" \notin Faults
               PROVE  Asked \subseteq onCard
    BY DEF DoneMeansDownloaded
  <2>0. job \in Jobs /\ Len(C) \in Nat /\ step \in 1 .. Len(C)
    BY DEF SessionInv, Sessions, JobsTyped, C
  <2>1. CASE NeedsStage2(job) /\ AtRom
    <3>1. ASSUME NEW n \in 1 .. Len(C) PROVE C[n].op \in {"patch", "probe"}
      <4>1. step = Len(C)
        BY <2>1 DEF AtRom
      <4>2. n < step \/ n = step
        BY <2>0, <4>1
      <4> QED
        BY <2>1, <4>2 DEF AtRom
    <3> QED
      BY <2>0, <2>1, <3>1, AskedIs
  <2>2. CASE LoadsProgram(job)
    BY <2>0, <2>2, AskedIs
  <2>3. CASE LoadsStage2(job) /\ CardSoFar /\ step = Len(C)
    <3>1. \A n \in 14 .. Len(C) - 1 : n < step
      BY <2>0, <2>3
    <3>2. \A n \in 14 .. Len(C) - 1 : C[n].arg \in onCard
      BY <2>3, <3>1 DEF CardSoFar
    <3> QED
      BY <2>0, <2>3, <3>2, AskedIs
  <2> QED
    BY <2>1, <2>2, <2>3 DEF SessionInv
<1> QED
  BY <1>1, SessionInvHolds, PTL

-----------------------------------------------------------------------------
(***************************************************************************)
(* The scripts as they are written are sessions of these forms.            *)
(***************************************************************************)

\* The script that probes the card is one of the sessions meant.
LEMMA ProbeIsSession ==
  ASSUME NEW j, j.cmds = probe_only
  PROVE  NeedsStage2(j)
BY DEF probe_only, NeedsStage2, Cmd

\* So is the one that loads a system into memory.
LEMMA ToRamIsSession ==
  ASSUME NEW j, NEW base, NEW to, j.cmds = down2ram(j.config, base, to, to)
  PROVE  LoadsProgram(j)
BY DEF down2ram, LoadsProgram, Loading, Cmd, File

\* So is the one that writes the boot loaders.
LEMMA BootIsSession ==
  ASSUME NEW j, NEW base, NEW images \in Seq({"mbr", "boot", "system", "data"}),
         j.cmds = ingenic_boot(j.config, base, images)
  PROVE  LoadsStage2(j)
<1> DEFINE c == j.config
           S == [op : Ops, arg : {Unset, base} \cup {File(name, c) : name \in Names}]
           P == << Cmd("patch", Unset) >>
           F == down_fw(c, base)
           G == << Cmd("config", File("hand", c)), Cmd("sdinit", Unset) >>
           K == Len(images)
           I == [n \in 1 .. K |-> Cmd("sdif", File(images[n], c))]
           Z == << Cmd("reboot", Unset) >>
           PF == P \o F
           PFG == PF \o G
           PFGI == PFG \o I
<1>1. j.cmds = PFGI \o Z
  BY DEF ingenic_boot
<1>2. P \in Seq(S) /\ Len(P) = 1 /\ G \in Seq(S) /\ Len(G) = 2 /\ Z \in Seq(S) /\ Len(Z) = 1
  BY DEF Cmd, Ops, Names
<1>3. F \in Seq(S) /\ Len(F) = 10
  BY DEF down_fw, Cmd, Ops, Names
<1>4. I \in Seq(S) /\ Len(I) = K /\ K \in Nat
  <2>1. K \in Nat
    OBVIOUS
  <2>2. ASSUME NEW n \in 1 .. K PROVE I[n] \in S
    BY DEF Cmd, Ops, Names
  <2> QED
    BY <2>1, <2>2
<1>5. /\ F[1] = Cmd("probe", Unset) /\ F[2] = Cmd("addr", base)
      /\ F[3] = Cmd("if", File("fw", c)) /\ F[4] = Cmd("start1", base)
      /\ F[5] = Cmd("probe", Unset) /\ F[6] = Cmd("addr", base)
      /\ F[7] = Cmd("if", File("usb_boot", c)) /\ F[8] = Cmd("flush", Unset)
      /\ F[9] = Cmd("start2", base) /\ F[10] = Cmd("probe", Unset)
  BY DEF down_fw
<1>6. /\ P[1] = Cmd("patch", Unset) /\ Z[1] = Cmd("reboot", Unset)
      /\ G[1] = Cmd("config", File("hand", c)) /\ G[2] = Cmd("sdinit", Unset)
      /\ \A n \in 1 .. K : I[n].op = "sdif"
  BY DEF Cmd
<1> HIDE DEF P, F, G, I, Z, K, S
<1>7. /\ PF \in Seq(S)
      /\ Len(PF) = 1 + 10
      /\ \A n \in 1 .. 1 : PF[n] = P[n]
      /\ \A n \in 1 .. 10 : PF[1 + n] = F[n]
  <2>1. P \in Seq(S) /\ F \in Seq(S)
    BY <1>2, <1>3
  <2>2. PF \in Seq(S)
    BY <2>1 DEF PF
  <2>3. Len(PF) = Len(P) + Len(F)
    BY <2>1 DEF PF
  <2>4. \A n \in 1 .. Len(P) : PF[n] = P[n]
    BY <2>1 DEF PF
  <2>5. \A n \in 1 .. Len(F) : PF[Len(P) + n] = F[n]
    BY <2>1 DEF PF
  <2>6. Len(P) = 1 /\ Len(F) = 10
    BY <1>2, <1>3
  <2> HIDE DEF PF
  <2> QED
    BY <2>2, <2>3, <2>4, <2>5, <2>6
<1> HIDE DEF PF
<1>8. /\ PFG \in Seq(S)
      /\ Len(PFG) = 11 + 2
      /\ \A n \in 1 .. 11 : PFG[n] = PF[n]
      /\ \A n \in 1 .. 2 : PFG[11 + n] = G[n]
  <2>1. PF \in Seq(S) /\ G \in Seq(S)
    BY <1>2, <1>7
  <2>2. PFG \in Seq(S)
    BY <2>1 DEF PFG
  <2>3. Len(PFG) = Len(PF) + Len(G)
    BY <2>1 DEF PFG
  <2>4. \A n \in 1 .. Len(PF) : PFG[n] = PF[n]
    BY <2>1 DEF PFG
  <2>5. \A n \in 1 .. Len(G) : PFG[Len(PF) + n] = G[n]
    BY <2>1 DEF PFG
  <2>6. Len(PF) = 11 /\ Len(G) = 2
    BY <1>2, <1>7
  <2> HIDE DEF PFG
  <2> QED
    BY <2>2, <2>3, <2>4, <2>5, <2>6
<1> HIDE DEF PFG
<1>9. /\ PFGI \in Seq(S)
      /\ Len(PFGI) = 13 + K
      /\ \A n \in 1 .. 13 : PFGI[n] = PFG[n]
      /\ \A n \in 1 .. K : PFGI[13 + n] = I[n]
  <2>1. PFG \in Seq(S) /\ I \in Seq(S)
    BY <1>4, <1>8
  <2>2. PFGI \in Seq(S)
    BY <2>1 DEF PFGI
  <2>3. Len(PFGI) = Len(PFG) + Len(I)
    BY <2>1 DEF PFGI
  <2>4. \A n \in 1 .. Len(PFG) : PFGI[n] = PFG[n]
    BY <2>1 DEF PFGI
  <2>5. \A n \in 1 .. Len(I) : PFGI[Len(PFG) + n] = I[n]
    BY <2>1 DEF PFGI
  <2>6. Len(PFG) = 13 /\ Len(I) = K
    BY <1>4, <1>8
  <2> HIDE DEF PFGI
  <2> QED
    BY <2>2, <2>3, <2>4, <2>5, <2>6
<1> HIDE DEF PFGI
<1> DEFINE R == PFGI \o Z
<1> HIDE DEF R
<1>10. /\ Len(R) = (13 + K) + 1
       /\ \A n \in 1 .. 13 + K : R[n] = PFGI[n]
  <2>1. PFGI \in Seq(S) /\ Z \in Seq(S)
    BY <1>2, <1>9
  <2>2. Len(R) = Len(PFGI) + Len(Z)
    BY <2>1 DEF R
  <2>3. \A n \in 1 .. Len(PFGI) : R[n] = PFGI[n]
    BY <2>1 DEF R
  <2>4. Len(PFGI) = 13 + K /\ Len(Z) = 1
    BY <1>2, <1>9
  <2> QED
    BY <2>2, <2>3, <2>4
<1>11. R[Len(R)] = Z[1]
  <2>1. PFGI \in Seq(S) /\ Z \in Seq(S)
    BY <1>2, <1>9
  <2>2. Len(R) = Len(PFGI) + Len(Z)
    BY <2>1 DEF R
  <2>3. \A n \in 1 .. Len(Z) : R[Len(PFGI) + n] = Z[n]
    BY <2>1 DEF R
  <2>4. Len(Z) = 1 /\ 1 \in 1 .. Len(Z)
    BY <1>2
  <2>5. R[Len(PFGI) + Len(Z)] = Z[1]
    BY <2>3, <2>4
  <2> QED
    BY <2>2, <2>5
<1>0. j.cmds = R
  BY <1>1 DEF R
<1>12. \A n \in 1 .. 13 : R[n] = PFG[n]
  <2>1. ASSUME NEW n \in 1 .. 13 PROVE n \in 1 .. 13 + K
    BY <1>4
  <2> QED
    BY <1>9, <1>10, <2>1
<1>13. \A n \in 14 .. 13 + K : n - 13 \in 1 .. K /\ R[n] = I[n - 13]
  <2>1. ASSUME NEW n \in 14 .. 13 + K PROVE n - 13 \in 1 .. K /\ R[n] = I[n - 13]
    <3>1. n - 13 \in 1 .. K /\ 13 + (n - 13) = n /\ n \in 1 .. 13 + K
      BY <1>4
    <3>2. PFGI[13 + (n - 13)] = I[n - 13]
      BY <1>9, <3>1
    <3> QED
      BY <1>10, <3>1, <3>2
  <2> QED
    BY <2>1
<1>14. /\ PFG[1] = PF[1] /\ PFG[2] = PF[2] /\ PFG[3] = PF[3] /\ PFG[4] = PF[4]
       /\ PFG[5] = PF[5] /\ PFG[6] = PF[6] /\ PFG[7] = PF[7] /\ PFG[8] = PF[8]
       /\ PFG[9] = PF[9] /\ PFG[10] = PF[10] /\ PFG[11] = PF[11]
       /\ PFG[12] = G[1] /\ PFG[13] = G[2]
       /\ PF[1] = P[1] /\ PF[2] = F[1] /\ PF[3] = F[2] /\ PF[4] = F[3] /\ PF[5] = F[4]
       /\ PF[6] = F[5] /\ PF[7] = F[6] /\ PF[8] = F[7] /\ PF[9] = F[8] /\ PF[10] = F[9]
       /\ PF[11] = F[10]
  BY <1>7, <1>8
<1> HIDE DEF R
<1>15. /\ j.cmds[1] = P[1] /\ j.cmds[2] = F[1] /\ j.cmds[3] = F[2] /\ j.cmds[4] = F[3]
       /\ j.cmds[5] = F[4] /\ j.cmds[6] = F[5] /\ j.cmds[7] = F[6] /\ j.cmds[8] = F[7]
       /\ j.cmds[9] = F[8] /\ j.cmds[10] = F[9] /\ j.cmds[11] = F[10]
       /\ j.cmds[12] = G[1] /\ j.cmds[13] = G[2]
  BY <1>0, <1>12, <1>14
<1>16. Loading(j)
  <2>1. Len(j.cmds) >= 10
    BY <1>0, <1>4, <1>10
  <2> QED
    BY <1>5, <1>6, <1>15, <2>1 DEF Loading, Cmd, File
<1>17. /\ j.cmds[8].arg.name = "usb_boot" /\ j.cmds[11].op = "probe"
       /\ j.cmds[12] = Cmd("config", File("hand", j.config)) /\ j.cmds[13].op = "sdinit"
  BY <1>5, <1>6, <1>15 DEF Cmd, File
<1>18. Len(j.cmds) >= 14 /\ Len(j.cmds) - 1 = 13 + K
  BY <1>0, <1>4, <1>10
<1>19. \A n \in 14 .. Len(j.cmds) - 1 : j.cmds[n].op = "sdif"
  BY <1>0, <1>6, <1>13, <1>18
<1>20. j.cmds[Len(j.cmds)].op = "reboot"
  BY <1>0, <1>6, <1>11 DEF Cmd
<1> QED
  BY <1>16, <1>17, <1>18, <1>19, <1>20 DEF LoadsStage2
=============================================================================
