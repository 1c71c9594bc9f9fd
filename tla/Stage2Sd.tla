------------------------------ MODULE Stage2Sd ------------------------------
(***************************************************************************)
(* Downloading images to the SD card: the host's stage2_cmd_tool sdif=...  *)
(* (stage2_main.c, stage2_sd.c over basic_cmd_lib.c) running against the   *)
(* device of module Stage2Device.                                          *)
(*                                                                         *)
(* The tool is run again and again, each time with another job: the device *)
(* keeps its state in between, whatever became of the tool.  Each USB      *)
(* call of the tool blocks; a control message ends when the device takes   *)
(* the SETUP packet, a bulk transfer when its last packet is through.      *)
(***************************************************************************)
EXTENDS Stage2Device, SdChunks

CONSTANTS
  Jobs,      \* the sdif= command lines: records [size, data, addr, check]
  MaxRuns,   \* how often the tool is run (bound)
  Junk       \* the blocks that malloc'ed memory happens to hold

\* A command line is a record: the file's size in bytes and its blocks (the last
\* one padded with zeros), the byte address on the card and the check flag.
ASSUME HostAssumptions ==
  /\ Junk \in Block
  /\ MaxRuns \in Nat
  /\ \A j \in Jobs : /\ j.size \in Nat /\ j.addr \in Nat /\ j.check \in BOOLEAN
                     /\ j.data \in [0 .. BlockNums(j.size) - 1 -> Block]
  /\ SD_MAX_BLOCK_NUM <= BufBlocks

VARIABLES
  hpc,        \* where sd_card_program is: see HostPc
  ctl,        \* a control message is under way
  job,        \* the command line
  i,          \* the download, as in the code
  k,          \* packets of the bulk transfer under way
  origin_data, readback_data,
  runs,       \* how often the tool has been started
  clean       \* history: the device was quiet when this run started

hostVars == <<hpc, ctl, job, i, k, origin_data, readback_data, runs, clean>>
vars == <<deviceVars, hostVars>>

Stopped == {"idle", "success", "failed"}
ControlPc == {"w_addr", "w_len", "w_op", "r_addr", "r_len", "r_op"}
HostPc == Stopped \cup ControlPc \cup {"file", "w_data", "w_hs", "r_data", "cmp"}

nb == BlockNums(job.size)
len == ChunkLen(nb, i)
addr == BlockAddr(job.addr) + ChunkStart(i)
ChunkIndex == 0 .. SD_MAX_BLOCK_NUM - 1

\* Nothing of an earlier run is left in the device or on its way to it.
DeviceQuiet ==
  /\ setup = NoReq /\ pc # "op"
  /\ outFifo = NoPkt /\ Bulk_out_size = 0
  /\ inFifo = NoPkt /\ Bulk_in_finish = Bulk_in_size

HostTypeOK ==
  /\ hpc \in HostPc /\ ctl \in BOOLEAN
  /\ job \in Jobs /\ i \in Nat /\ k \in Nat
  /\ origin_data \in [ChunkIndex -> Block]
  /\ readback_data \in [ChunkIndex -> Block]
  /\ runs \in 0 .. MaxRuns /\ clean \in BOOLEAN

HostInit ==
  /\ hpc = "idle" /\ ctl = FALSE /\ job \in Jobs /\ i = 0 /\ k = 0
  /\ origin_data = [n \in ChunkIndex |-> Junk]
  /\ readback_data = [n \in ChunkIndex |-> Junk]
  /\ runs = 0 /\ clean = TRUE

-----------------------------------------------------------------------------
\* A new run of the tool: open the device, cut the file, allocate the buffers (a
\* failure of stat, open or malloc ends it before the device is touched).
\* After a bus reset the tool finds the device only once the reset is served.
sd_card_program(j) ==
  /\ hpc \in Stopped /\ runs < MaxRuns
  /\ ~intrUsb /\ ~gotUsb
  /\ job' = j /\ i' = 0 /\ k' = 0 /\ ctl' = FALSE
  /\ \/ hpc' = IF DownloadTimes(BlockNums(j.size)) = 0 THEN "success" ELSE "file"
     \/ "io" \in Faults /\ hpc' = "failed"
  /\ origin_data' = [n \in ChunkIndex |-> Junk]
  /\ readback_data' = [n \in ChunkIndex |-> Junk]
  /\ runs' = runs + 1
  /\ clean' = DeviceQuiet
  /\ UNCHANGED deviceVars

\* read() of the next download.  Asking for more than the file has left is the
\* error "can't read file".
ReadFile ==
  /\ hpc = "file"
  /\ IF ReadLen(job.size, i) > BytesLeft(job.size, i)
     THEN hpc' = "failed" /\ UNCHANGED origin_data
     ELSE /\ hpc' = "w_addr"
          /\ origin_data' = [n \in ChunkIndex |->
                 IF n < len THEN job.data[ChunkStart(i) + n] ELSE origin_data[n]]
  /\ UNCHANGED <<deviceVars, ctl, job, i, k, readback_data, runs, clean>>

\* read() returns -1.  The last, shorter download compares it with an unsigned
\* length, which never finds it smaller: origin_data is sent as it is, but for
\* the zeros padded to a last block that is not full.
ReadFileError ==
  /\ "io" \in Faults
  /\ hpc = "file"
  /\ IF ShortLast(nb, i)
     THEN /\ hpc' = "w_addr"
          /\ IF LastBlockLen(job.size) = SD_BLOCK_SIZE THEN UNCHANGED origin_data
             ELSE \E b \in Block : origin_data' = [origin_data EXCEPT ![len - 1] = b]
     ELSE hpc' = "failed" /\ UNCHANGED origin_data
  /\ UNCHANGED <<deviceVars, ctl, job, i, k, readback_data, runs, clean>>

AddrReq == [op |-> "VR_SET_DATA_ADDERSS", arg |-> addr]
LenReq == [op |-> "VR_SET_DATA_LENGTH", arg |-> len]
ProgramReq == [op |-> "CARD_PROGRAM", arg |-> 0]
ReadReq == [op |-> "CARD_READ", arg |-> 0]

\* The control message that each of the six places sends.
ControlRequest ==
  CASE hpc \in {"w_addr", "r_addr"} -> AddrReq
    [] hpc \in {"w_len", "r_len"} -> LenReq
    [] hpc = "w_op" -> ProgramReq
    [] hpc = "r_op" -> ReadReq

\* Mutant: the length is not sent before the data.
AfterControlNoLength ==
  CASE hpc = "w_addr" -> "w_data"
    [] hpc = "w_len" -> "w_data"
    [] hpc = "w_op" -> "w_hs"
    [] hpc = "r_addr" -> "r_len"
    [] hpc = "r_len" -> "r_op"
    [] hpc = "r_op" -> "r_data"

\* What follows each of them.
AfterControl ==
  CASE hpc = "w_addr" -> "w_len"
    [] hpc = "w_len" -> "w_data"
    [] hpc = "w_op" -> "w_hs"
    [] hpc = "r_addr" -> "r_len"
    [] hpc = "r_len" -> "r_op"
    [] hpc = "r_op" -> "r_data"

\* A SETUP packet is always accepted: it replaces one that was not yet taken.
SendControl ==
  /\ hpc \in ControlPc /\ ~ctl
  /\ ctl' = TRUE
  /\ setup' = ControlRequest
  /\ setupend' = (setupend \/ setup # NoReq)
  /\ intrIn' = intrIn \cup {0}
  /\ UNCHANGED <<outFifo, inFifo, intrUsb, intrOut, loopVars, outVars, inVars,
                 opsVars, hpc, job, i, k, origin_data, readback_data, runs, clean>>

ControlDone ==
  /\ ctl /\ setup = NoReq
  /\ ctl' = FALSE
  /\ hpc' = AfterControl
  /\ k' = 0
  /\ UNCHANGED <<deviceVars, job, i, origin_data, readback_data, runs, clean>>

\* usb_send_data_to_ingenic, one packet: accepted when the FIFO is empty.
SendPacket ==
  /\ hpc = "w_data" /\ outFifo = NoPkt
  /\ outFifo' = origin_data[k]
  /\ intrOut' = TRUE
  /\ k' = k + 1
  /\ hpc' = IF k + 1 = len THEN "w_op" ELSE hpc
  /\ UNCHANGED <<setup, setupend, inFifo, intrUsb, intrIn, loopVars, outVars,
                 inVars, opsVars, ctl, job, i, origin_data, readback_data, runs,
                 clean>>

\* The end of the loop body: the next download, or the end of the run.
NextDownload ==
  IF i + 1 = DownloadTimes(nb) THEN hpc' = "success" /\ UNCHANGED i
                               ELSE hpc' = "file" /\ i' = i + 1

TakePacket ==
  /\ inFifo # NoPkt
  /\ inFifo' = NoPkt
  /\ intrIn' = intrIn \cup {1}
  /\ UNCHANGED <<setup, setupend, outFifo, intrUsb, intrOut, loopVars, outVars,
                 inVars, opsVars>>

\* The 8 bytes after CARD_PROGRAM.  What they say is not looked at.
ReadHandshake ==
  /\ hpc = "w_hs"
  /\ inFifo \in {Handshake, Garbled}
  /\ TakePacket
  /\ IF job.check THEN hpc' = "r_addr" /\ UNCHANGED i ELSE NextDownload
  /\ UNCHANGED <<ctl, job, k, origin_data, readback_data, runs, clean>>

\* A packet of more than 8 bytes overflows the transfer, which fails; the
\* packet may be lost or may stay for the next transfer.
HandshakeOverflow ==
  /\ hpc = "w_hs"
  /\ inFifo \notin {NoPkt, Handshake}
  /\ TakePacket \/ UNCHANGED deviceVars
  /\ hpc' = "failed"
  /\ UNCHANGED <<ctl, job, i, k, origin_data, readback_data, runs, clean>>

\* usb_read_data_from_ingenic for the read-back, one packet.
ReadPacket ==
  /\ hpc = "r_data"
  /\ inFifo \in Block
  /\ TakePacket
  /\ readback_data' = [readback_data EXCEPT ![k] = inFifo]
  /\ k' = k + 1
  /\ hpc' = IF k + 1 = len THEN "cmp" ELSE hpc
  /\ UNCHANGED <<ctl, job, i, origin_data, runs, clean>>

\* A short packet ends the transfer with fewer bytes than asked for.
ReadShort ==
  /\ hpc = "r_data"
  /\ inFifo \in {Handshake, Garbled}
  /\ TakePacket
  /\ hpc' = "failed"
  /\ UNCHANGED <<ctl, job, i, k, origin_data, readback_data, runs, clean>>

\* Mutant: the last block is left out.
SameDataButLast == \A n \in 0 .. len - 2 : origin_data[n] = readback_data[n]

\* memcmp of what was sent and what came back.
SameData == \A n \in 0 .. len - 1 : origin_data[n] = readback_data[n]

Compare ==
  /\ hpc = "cmp"
  /\ IF SameData
     THEN NextDownload
     ELSE hpc' = "failed" /\ UNCHANGED i
  /\ UNCHANGED <<deviceVars, ctl, job, k, origin_data, readback_data, runs, clean>>

\* The tool is killed, or gives up a transfer after USB_TIMEOUT; what it left
\* in the device stays there.
Abort ==
  /\ "abort" \in Faults
  /\ hpc \notin Stopped
  /\ hpc' = "failed" /\ ctl' = FALSE
  /\ UNCHANGED <<deviceVars, job, i, k, origin_data, readback_data, runs, clean>>

\* A bus reset empties the endpoints and fails what the tool is doing.
BusReset ==
  /\ "reset" \in Faults
  /\ ~intrUsb
  /\ setup' = NoReq /\ setupend' = FALSE /\ outFifo' = NoPkt /\ inFifo' = NoPkt
  /\ intrUsb' = TRUE /\ intrIn' = {} /\ intrOut' = FALSE
  /\ hpc' = IF hpc \in Stopped THEN hpc ELSE "failed"
  /\ ctl' = FALSE
  /\ UNCHANGED <<loopVars, outVars, inVars, opsVars, job, i, k, origin_data,
                 readback_data, runs, clean>>

HostStep ==
  \/ ReadFile \/ ReadFileError \/ SendControl \/ ControlDone \/ SendPacket
  \/ ReadHandshake \/ HandshakeOverflow \/ ReadPacket \/ ReadShort \/ Compare

DeviceStep == udc4740Proc /\ UNCHANGED hostVars

Init == DeviceInit /\ HostInit

Next ==
  \/ DeviceStep
  \/ HostStep
  \/ \E j \in Jobs : sd_card_program(j)
  \/ Abort
  \/ BusReset

Spec == Init /\ [][Next]_vars

\* The device's loop never waits, and a started tool goes on until it ends;
\* nobody has to start it again, and faults need not happen.
FairSpec == Spec /\ WF_vars(DeviceStep) /\ WF_vars(HostStep)

-----------------------------------------------------------------------------
\* Every variable keeps its type: in particular no buffer is indexed outside its
\* bounds by the handlers that copy blocks.
TypeOK == DeviceTypeOK /\ HostTypeOK

\* The card holds the job's image.
OnCard(j) ==
  \A b \in 0 .. BlockNums(j.size) - 1 :
    /\ BlockAddr(j.addr) + b \in CardIndex
    /\ card[BlockAddr(j.addr) + b] = j.data[b]

\* A run with check=1 that reports success has the file on the card, whatever
\* the card did to the writes and whatever earlier runs left in the device:
\* sd_card_program compares what it read back before it goes on.
CheckedSuccess ==
  hpc = "success" /\ job.check /\ ~overrun => OnCard(job)

\* In a run that found the device quiet, CARD_PROGRAM is handled with the
\* address, the length and exactly the blocks that the tool sent for it:
\* every packet is stored before the request (udc4740Proc reads IntrIn first)
\* and none of another download (Bulk_out_size = 0 in usbHandleVendorReq).
InSync ==
  clean /\ hpc \notin Stopped /\ pc = "op" /\ req.op = "CARD_PROGRAM" =>
    /\ hpc \in {"w_op", "w_hs"}
    /\ start_addr = addr /\ ops_length = len /\ Bulk_out_size = len
    /\ \A n \in 0 .. len - 1 : Bulk_out_buf[n] = origin_data[n]

\* A run that found the device quiet and succeeds leaves it quiet: no unread
\* handshake, no packet and no unsent block for the next run to stumble over.
SuccessLeavesQuiet ==
  clean /\ hpc = "success" => DeviceQuiet

\* No packet is ever stored past the end of Bulk_out_buf.  EPOUT_Handler does not
\* test for the end: it relies on every download being used up by its request.
NoOverrun == ~overrun

\* Until a run fails, in a run that found the device quiet, only the blocks of
\* the download that waits for its handshake change on the card.
OnlyAddressedBlocks ==
  [][clean /\ hpc # "failed" =>
       \A b \in CardIndex : card'[b] # card[b] =>
         /\ hpc \in {"w_op", "w_hs"}
         /\ addr <= b /\ b < addr + len]_vars

\* A run that nothing disturbs comes to an end.
RunEnds == hpc = "file" ~> hpc \in Stopped

-----------------------------------------------------------------------------
(***************************************************************************)
(* Refinement: without faults the tool and the device together are the     *)
(* download of module SdDownload.                                          *)
(***************************************************************************)
AsFile(j) == [blocks |-> j.data, count |-> BlockNums(j.size), at |-> BlockAddr(j.addr)]

\* The device has programmed the current download.
Programmed ==
  \/ hpc \in {"r_addr", "r_len", "r_op", "r_data", "cmp", "success"}
  \/ hpc = "w_hs" /\ pc # "op"
  \/ hpc = "w_op" /\ ctl /\ setup = NoReq /\ pc # "op"

Download == INSTANCE SdDownload WITH
  Files <- {AsFile(j) : j \in Jobs},
  Index <- CardIndex,
  disk <- card,
  file <- AsFile(job),
  written <- IF nb = 0 THEN 0 ELSE ChunkStart(i) + (IF Programmed THEN len ELSE 0),
  state <- IF hpc \in Stopped THEN hpc ELSE "running"

\* Without faults every step of the tool and of the device is a step of the
\* abstract download, or none: card blocks change in file order, and success
\* comes only when the last of them has changed.
ImplementsDownload == Download!DownloadSpec

-----------------------------------------------------------------------------
(***************************************************************************)
(* The inductive invariant behind CheckedSuccess, by parts.  It speaks of  *)
(* a run with check=1 that has not failed; the device may have been left   *)
(* in any state by the runs before it.                                     *)
(***************************************************************************)

\* Sizes stay within the buffers, and the loop counters within their loops.
SizesOK ==
  /\ ops_length <= SD_MAX_BLOCK_NUM
  /\ setup # NoReq /\ setup.op = "VR_SET_DATA_LENGTH" => setup.arg <= SD_MAX_BLOCK_NUM
  /\ pc = "op" => req \in Request
  /\ pc = "op" /\ req.op = "VR_SET_DATA_LENGTH" => req.arg <= SD_MAX_BLOCK_NUM
  /\ Bulk_in_finish <= Bulk_in_size /\ Bulk_in_size <= SD_MAX_BLOCK_NUM
  /\ ctl => hpc \in ControlPc
  /\ hpc \notin Stopped => i < DownloadTimes(nb)
  /\ hpc \in {"w_data", "r_data"} => k < len
  /\ hpc \in {"w_hs", "r_addr", "r_len", "r_op"} => k = 0

Checking == job.check /\ hpc \notin {"idle", "failed"}

\* A running tool's control message is the one in the FIFO until the device takes
\* it, and no bus reset is about to be served.
Undisturbed ==
  /\ ctl /\ setup # NoReq => setup = ControlRequest
  /\ hpc \notin Stopped => ~intrUsb /\ ~gotUsb

\* The control message under way has been taken by the device.
Taken == ctl /\ setup = NoReq

\* A first download whose address the device has not taken: the device may still
\* be busy with what an earlier run left behind.
Stale == i = 0 /\ (hpc = "file" \/ (hpc = "w_addr" /\ ~Taken))

\* The request that the device took last, seen from where the tool is.
LastReq ==
  CASE Taken -> ControlRequest
    [] ~Taken /\ hpc \in {"w_len", "r_len"} -> AddrReq
    [] ~Taken /\ hpc \in {"w_data", "w_op", "r_op"} -> LenReq
    [] ~Taken /\ hpc \in {"w_hs", "r_addr"} -> ProgramReq
    [] ~Taken /\ hpc = "r_data" -> ReadReq
    [] OTHER -> NoReq

\* The device works on the tool's own requests, one after the other.
RequestsInOrder ==
  Checking /\ ~Stale /\ nb # 0 =>
    /\ setup # NoReq => ctl
    /\ pc = "op" => req = LastReq

\* The address and the length are the tool's once their requests are handled.
ParametersSet ==
  Checking /\ hpc # "success" =>
    /\ hpc \notin {"file", "w_addr"} \/ (hpc = "w_addr" /\ Taken) =>
         start_addr = addr \/ (pc = "op" /\ req = AddrReq)
    /\ hpc \notin {"file", "w_addr", "w_len"} \/ (hpc = "w_len" /\ Taken) =>
         ops_length = len \/ (pc = "op" /\ req = LenReq)

\* Between the handshake and the read request no block waits for the host: an
\* old transfer was dropped when the handshake of this download was sent.
InDrained ==
  /\ Checking /\ (hpc = "w_hs" \/ (hpc = "w_op" /\ Taken)) /\ pc # "op" =>
       Bulk_in_finish = Bulk_in_size
  /\ Checking /\ (hpc \in {"r_addr", "r_len"} \/ (hpc = "r_op" /\ ~Taken)) =>
       IF pc = "op" /\ req = ProgramReq THEN inFifo = NoPkt
       ELSE Bulk_in_finish = Bulk_in_size /\ inFifo \notin Block
  /\ Checking /\ ((hpc = "r_op" /\ Taken) \/ hpc = "r_data") /\ pc = "op" =>
       k = 0 /\ inFifo \notin Block

Waiting == IF inFifo = NoPkt THEN 0 ELSE 1

\* The blocks read back arrive in order, or one was lost on the way and the
\* transfer can never get its full length.
ReadInOrder ==
  Checking /\ ((hpc = "r_op" /\ Taken) \/ hpc = "r_data") /\ pc # "op" =>
    /\ Bulk_in_size = len
    /\ \A n \in 0 .. len - 1 : Bulk_in_buf[n] = card[addr + n]
    /\ k + Waiting <= Bulk_in_finish
    /\ k + Waiting = Bulk_in_finish =>
         /\ \A n \in 0 .. k - 1 : readback_data[n] = Bulk_in_buf[n]
         /\ inFifo \in Block => inFifo = Bulk_in_buf[k]

\* What the tool compares is the file's data and the card's contents.
Compared ==
  /\ Checking /\ hpc \notin {"file", "success"} =>
       \A n \in 0 .. len - 1 : origin_data[n] = job.data[ChunkStart(i) + n]
  /\ Checking /\ hpc = "cmp" =>
       \A n \in 0 .. len - 1 : readback_data[n] = card[addr + n]

\* The downloads behind the tool are on the card.
Verified ==
  Checking =>
    \A n \in 0 .. nb - 1 :
      hpc = "success" \/ n < ChunkStart(i) =>
        card[BlockAddr(job.addr) + n] = job.data[n]

\* The parts together: from the first address that the device takes from a run with
\* check=1, the device works on that run's requests only, and what the run has
\* compared stays on the card.
CheckInv ==
  /\ TypeOK /\ SizesOK /\ Undisturbed /\ RequestsInOrder /\ ParametersSet
  /\ InDrained /\ ReadInOrder /\ Compared /\ Verified

\* What the read-back can be trusted under: the card reads without error (a failed
\* read is answered with the old buffer), the file is read without error, and no
\* image reaches past the end of the card.
HonestReads ==
  /\ "read" \notin Faults /\ "io" \notin Faults
  /\ \A j \in Jobs : BlockAddr(j.addr) + BlockNums(j.size) <= CardBlocks
=============================================================================
