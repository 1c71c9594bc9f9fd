---------------------------- MODULE Stage2Device ----------------------------
(***************************************************************************)
(* The stage 2 program on the device: the USB device controller driver     *)
(* (udc.c), the requests of the SD card download (boothandler.c) and the   *)
(* card driver's multi-block transfers (mmc_com.c).                        *)
(*                                                                         *)
(* The program is one endless loop without interrupts: it reads the        *)
(* interrupt registers, serves what they show and starts again.  The host  *)
(* and the controller hardware run meanwhile, so every register read is a  *)
(* step of its own.  The bus is at high speed: a bulk packet is one card   *)
(* block, so buffers, sizes and lengths are counted in blocks.             *)
(*                                                                         *)
(* Model starts after CONFIG and CARD_INIT have been served: the driver's  *)
(* function pointers are set and the card answers.                         *)
(***************************************************************************)
EXTENDS Integers

CONSTANTS
  Block,        \* the possible contents of a card block
  BufBlocks,    \* blocks that Bulk_in_buf and Bulk_out_buf hold (0x84000 / 512)
  CardBlocks,   \* blocks of the card
  Faults,       \* the environment's faults: see FaultKinds
  NoReq,        \* no SETUP packet waiting in the endpoint 0 FIFO
  NoPkt,        \* an empty bulk FIFO
  Handshake,    \* the 8 byte packet handshake_PKT
  Garbled       \* what a FIFO holds after being written while it was full

\* "write", "read": the card fails in mid transfer; "abort": the host tool is
\* killed or times out; "reset": a USB bus reset; "io": the host's read() fails.
FaultKinds == {"write", "read", "abort", "reset", "io"}

ASSUME DeviceAssumptions ==
  /\ BufBlocks \in Nat \ {0}
  /\ CardBlocks \in Nat \ {0}
  /\ Faults \subseteq FaultKinds
  /\ NoPkt \notin Block /\ Handshake \notin Block /\ Garbled \notin Block
  /\ NoPkt # Handshake /\ NoPkt # Garbled /\ Handshake # Garbled

CardOps == {"CARD_PROGRAM", "CARD_READ"}
Request ==
  [op : {"VR_SET_DATA_ADDERSS", "VR_SET_DATA_LENGTH"}, arg : Nat]
    \cup [op : CardOps, arg : {0}]
ASSUME NoReqAssumption == NoReq \notin Request

VARIABLES
  setup,         \* endpoint 0: the SETUP packet received and not yet taken
  setupend,      \* endpoint 0: CSR0.SETUPEND, a SETUP cut an older one short
  outFifo,       \* endpoint 1 OUT: the packet received and not yet taken
  inFifo,        \* endpoint 1 IN: the packet ready for the host
  intrUsb,       \* INTRUSB.RESET
  intrIn,        \* INTRIN: 0 for endpoint 0, 1 for endpoint 1 IN
  intrOut,       \* INTROUT: endpoint 1 OUT
  pc,            \* "serve": between handlers; "intrin", "introut": that register is
                 \* read next; "op": a request is acknowledged, its handler runs
  gotUsb, gotIn, gotOut,   \* the local copies IntrUSB, IntrIn, IntrOut
  req,           \* the request in rx_buf
  Bulk_out_buf, Bulk_out_size,
  Bulk_in_buf, Bulk_in_size, Bulk_in_finish,
  overrun,       \* a packet was stored past the end of Bulk_out_buf
  start_addr, ops_length,
  card           \* what the card holds

usbVars == <<setup, setupend, outFifo, inFifo, intrUsb, intrIn, intrOut>>
loopVars == <<pc, gotUsb, gotIn, gotOut, req>>
outVars == <<Bulk_out_buf, Bulk_out_size, overrun>>
inVars == <<Bulk_in_buf, Bulk_in_size, Bulk_in_finish>>
opsVars == <<start_addr, ops_length, card>>
deviceVars == <<usbVars, loopVars, outVars, inVars, opsVars>>

BufIndex == 0 .. BufBlocks - 1
CardIndex == 0 .. CardBlocks - 1

DeviceTypeOK ==
  /\ setup \in Request \cup {NoReq}
  /\ setupend \in BOOLEAN
  /\ outFifo \in Block \cup {NoPkt}
  /\ inFifo \in Block \cup {NoPkt, Handshake, Garbled}
  /\ intrUsb \in BOOLEAN /\ intrIn \subseteq {0, 1} /\ intrOut \in BOOLEAN
  /\ pc \in {"serve", "intrin", "introut", "op"}
  /\ gotUsb \in BOOLEAN /\ gotIn \subseteq {0, 1} /\ gotOut \in BOOLEAN
  /\ req \in Request \cup {NoReq}
  /\ Bulk_out_buf \in [BufIndex -> Block] /\ Bulk_out_size \in Nat
  /\ Bulk_in_buf \in [BufIndex -> Block]
  /\ Bulk_in_size \in Nat /\ Bulk_in_finish \in Nat
  /\ overrun \in BOOLEAN
  /\ start_addr \in Nat /\ ops_length \in Nat
  /\ card \in [CardIndex -> Block]

\* usb_main before its loop; buffers and card hold whatever they held.
DeviceInit ==
  /\ setup = NoReq /\ setupend = FALSE
  /\ outFifo = NoPkt /\ inFifo = NoPkt
  /\ intrUsb = FALSE /\ intrIn = {} /\ intrOut = FALSE
  /\ pc = "serve" /\ gotUsb = FALSE /\ gotIn = {} /\ gotOut = FALSE
  /\ req = NoReq
  /\ \E b \in Block : /\ Bulk_out_buf = [n \in BufIndex |-> b]
                      /\ Bulk_in_buf = [n \in BufIndex |-> b]
                      /\ card = [n \in CardIndex |-> b]
  /\ Bulk_out_size = 0 /\ Bulk_in_size = 0 /\ Bulk_in_finish = 0
  /\ overrun = FALSE
  /\ start_addr = 0 /\ ops_length = 0

-----------------------------------------------------------------------------
(***************************************************************************)
(* The loop of udc4740Proc.  A register is cleared by reading it.          *)
(* IntrIn is read before IntrOut: the host sends the packets of a download *)
(* before the request that uses them, so a copy of IntrIn that shows the   *)
(* request is followed by a copy of IntrOut that shows the last packet.    *)
(***************************************************************************)
AllServed == gotIn = {} /\ ~gotOut /\ ~gotUsb

ReadIntrUsb ==
  /\ pc = "serve" /\ AllServed
  /\ gotUsb' = intrUsb
  /\ intrUsb' = FALSE
  /\ pc' = "intrin"
  /\ UNCHANGED <<setup, setupend, outFifo, inFifo, intrIn, intrOut, gotIn, gotOut,
                 req, outVars, inVars, opsVars>>

ReadIntrIn ==
  /\ pc = "intrin"
  /\ gotIn' = intrIn
  /\ intrIn' = {}
  /\ pc' = "introut"
  /\ UNCHANGED <<setup, setupend, outFifo, inFifo, intrUsb, intrOut, gotUsb, gotOut,
                 req, outVars, inVars, opsVars>>

ReadIntrOut ==
  /\ pc = "introut"
  /\ gotOut' = intrOut
  /\ intrOut' = FALSE
  /\ pc' = "serve"
  /\ UNCHANGED <<setup, setupend, outFifo, inFifo, intrUsb, intrIn, gotUsb,
                 gotIn, req, outVars, inVars, opsVars>>

\* What the IN FIFO may hold after the driver writes pkt to it and sets
\* INPKTRDY.  The driver never asks whether the host took the last packet;
\* writing over one leaves the old, the new or a mixture (hardware).
FifoAfter(pkt) == IF inFifo = NoPkt THEN {pkt} ELSE {inFifo, pkt, Garbled}

\* Mutant: an off-by-one in the size leaves a block unsent.
SendBulkOneMore(buf, n) ==
  /\ inFifo' \in FifoAfter(buf[0])
  /\ Bulk_in_size' = n + 1
  /\ Bulk_in_finish' = 1

\* HW_SendPKT(1, Bulk_in_buf, n blocks): the first packet goes out at once.
\* (No download has less than a block; for n = 0 the packet would be empty.)
SendBulk(buf, n) ==
  /\ inFifo' \in FifoAfter(buf[0])
  /\ Bulk_in_size' = n
  /\ Bulk_in_finish' = IF n = 0 THEN 0 ELSE 1

\* Mutant: an unfinished transfer of Bulk_in_buf is not forgotten.
SendHandshakeKeepsRest ==
  /\ inFifo' \in FifoAfter(Handshake)
  /\ UNCHANGED <<Bulk_in_size, Bulk_in_finish>>

\* HW_SendPKT(1, handshake_PKT, 8): less than a block, nothing is left over.
SendHandshake ==
  /\ inFifo' \in FifoAfter(Handshake)
  /\ Bulk_in_size' = 0
  /\ Bulk_in_finish' = 0

\* Mutant: the last block is taken for already sent.
EPIN_HandlerStopsEarly ==
  /\ pc = "serve" /\ 1 \in gotIn
  /\ gotIn' = gotIn \ {1}
  /\ IF Bulk_in_finish + 1 >= Bulk_in_size
     THEN UNCHANGED <<inFifo, Bulk_in_finish>>
     ELSE /\ inFifo' \in FifoAfter(Bulk_in_buf[Bulk_in_finish])
          /\ Bulk_in_finish' = Bulk_in_finish + 1
  /\ UNCHANGED <<setup, setupend, outFifo, intrUsb, intrIn, intrOut, pc, gotUsb,
                 gotOut, req, outVars, Bulk_in_buf, Bulk_in_size, opsVars>>

\* The host took a packet: send the next one of Bulk_in_buf, if any is left.
\* With none left Handshake_PKT does nothing, for udc_state is IDLE after
\* every request of the download.
EPIN_Handler ==
  /\ pc = "serve" /\ 1 \in gotIn
  /\ gotIn' = gotIn \ {1}
  /\ IF Bulk_in_finish = Bulk_in_size
     THEN UNCHANGED <<inFifo, Bulk_in_finish>>
     ELSE /\ inFifo' \in FifoAfter(Bulk_in_buf[Bulk_in_finish])
          /\ Bulk_in_finish' = Bulk_in_finish + 1
  /\ UNCHANGED <<setup, setupend, outFifo, intrUsb, intrIn, intrOut, pc, gotUsb,
                 gotOut, req, outVars, Bulk_in_buf, Bulk_in_size, opsVars>>

\* Append the packet at Bulk_out_size, with no test of the buffer's end; after
\* a bus reset the FIFO may be empty (OUTCOUNT is 0).
EPOUT_Handler ==
  /\ pc = "serve" /\ 1 \notin gotIn /\ gotOut
  /\ gotOut' = FALSE
  /\ outFifo' = NoPkt
  /\ IF outFifo = NoPkt THEN UNCHANGED outVars
     ELSE /\ Bulk_out_size' = Bulk_out_size + 1
          /\ IF Bulk_out_size \in BufIndex
             THEN /\ Bulk_out_buf' = [Bulk_out_buf EXCEPT ![Bulk_out_size] = outFifo]
                  /\ UNCHANGED overrun
             ELSE overrun' = TRUE /\ UNCHANGED Bulk_out_buf
  /\ UNCHANGED <<setup, setupend, inFifo, intrUsb, intrIn, intrOut, pc, gotUsb,
                 gotIn, req, inVars, opsVars>>

\* A bus reset: the sizes are cleared and both endpoint 1 FIFOs flushed.
udc_reset ==
  /\ pc = "serve" /\ 1 \notin gotIn /\ ~gotOut /\ gotUsb
  /\ gotUsb' = FALSE
  /\ Bulk_out_size' = 0 /\ Bulk_in_size' = 0 /\ Bulk_in_finish' = 0
  /\ outFifo' = NoPkt /\ inFifo' = NoPkt
  /\ UNCHANGED <<setup, setupend, intrUsb, intrIn, intrOut, pc, gotIn, gotOut,
                 req, Bulk_out_buf, overrun, Bulk_in_buf, opsVars>>

\* Mutant: endpoint 0 is served before the bulk packets.
Endpoint0First ==
  /\ pc = "serve" /\ 0 \in gotIn
  /\ gotIn' = gotIn \ {0}

\* Endpoint 0 is served last.
Endpoint0Turn ==
  /\ pc = "serve" /\ gotIn = {0} /\ ~gotOut /\ ~gotUsb
  /\ gotIn' = {}

\* SETUPEND is acknowledged and the handler returns at once, even when the
\* SETUP packet that caused it is waiting; whether the controller raises the
\* interrupt again for that packet is left open.
EP0_SetupEnd ==
  /\ Endpoint0Turn /\ setupend
  /\ setupend' = FALSE
  /\ intrIn' \in {intrIn, intrIn \cup {0}}
  /\ UNCHANGED <<setup, outFifo, inFifo, intrUsb, intrOut, pc, gotUsb, gotOut,
                 req, outVars, inVars, opsVars>>

\* Take the SETUP packet.  Writing 0x48 to CSR0 ends the control transfer for
\* the host before usbHandleDevReq runs.  Without a packet nothing happens.
EP0_Handler ==
  /\ Endpoint0Turn /\ ~setupend
  /\ setup' = NoReq
  /\ IF setup = NoReq THEN UNCHANGED <<pc, req>>
                      ELSE pc' = "op" /\ req' = setup
  /\ UNCHANGED <<setupend, outFifo, inFifo, intrUsb, intrIn, intrOut, gotUsb,
                 gotOut, outVars, inVars, opsVars>>

-----------------------------------------------------------------------------
(***************************************************************************)
(* The handlers of boothandler.c.                                          *)
(***************************************************************************)
OpReturns(op) ==
  /\ pc = "op" /\ req.op = op
  /\ pc' = "serve" /\ req' = NoReq
  /\ UNCHANGED <<setup, setupend, outFifo, intrUsb, intrIn, intrOut, gotUsb,
                 gotIn, gotOut>>

SET_DATA_ADDERSS_Handle ==
  /\ OpReturns("VR_SET_DATA_ADDERSS")
  /\ start_addr' = req.arg
  /\ UNCHANGED <<inFifo, outVars, inVars, ops_length, card>>

\* Mutant: the length is taken for the number of the last block.
SET_DATA_LENGTH_OneLess ==
  /\ OpReturns("VR_SET_DATA_LENGTH")
  /\ ops_length' = req.arg - 1
  /\ UNCHANGED <<inFifo, outVars, inVars, start_addr, card>>

SET_DATA_LENGTH_Handle ==
  /\ OpReturns("VR_SET_DATA_LENGTH")
  /\ ops_length' = req.arg
  /\ UNCHANGED <<inFifo, outVars, inVars, start_addr, card>>

\* How many of the ops_length blocks a transfer moves before it ends.  It can
\* be cut short by a fault or by the end of the card; the driver then returns
\* -1.  (A CRC error of the very last block of a write is not even looked at.)
Transferred(fault) ==
  {n \in 0 .. ops_length :
     /\ n = 0 \/ start_addr + n <= CardBlocks
     /\ n < ops_length => fault \in Faults \/ start_addr + ops_length > CardBlocks}

\* CARD_PROGRAM: mmc_block_writem from the start of Bulk_out_buf, then the
\* handshake whatever it returned, then Bulk_out_size = 0 (usbHandleVendorReq).
mmc_block_writem ==
  \E n \in Transferred("write") :
    card' = [b \in CardIndex |->
               IF start_addr <= b /\ b < start_addr + n
               THEN Bulk_out_buf[b - start_addr] ELSE card[b]]

\* Mutant: Bulk_out_size is not reset.
CardProgramKeepsSize ==
  /\ OpReturns("CARD_PROGRAM")
  /\ mmc_block_writem
  /\ SendHandshake
  /\ UNCHANGED <<outVars, Bulk_in_buf, start_addr, ops_length>>

CardProgram ==
  /\ OpReturns("CARD_PROGRAM")
  /\ mmc_block_writem
  /\ SendHandshake
  /\ Bulk_out_size' = 0
  /\ UNCHANGED <<Bulk_out_buf, overrun, Bulk_in_buf, start_addr, ops_length>>

\* CARD_READ: mmc_block_readm into Bulk_in_buf, which keeps its old contents
\* where the transfer did not get to; all ops_length blocks are sent anyway.
mmc_block_readm ==
  \E n \in Transferred("read") :
    Bulk_in_buf' = [b \in BufIndex |->
                      IF b < n THEN card[start_addr + b] ELSE Bulk_in_buf[b]]

CardRead ==
  /\ OpReturns("CARD_READ")
  /\ mmc_block_readm
  /\ SendBulk(Bulk_in_buf', ops_length)
  /\ Bulk_out_size' = 0
  /\ UNCHANGED <<Bulk_out_buf, overrun, opsVars>>

udc4740Proc ==
  \/ ReadIntrUsb \/ ReadIntrIn \/ ReadIntrOut
  \/ EPIN_Handler \/ EPOUT_Handler \/ udc_reset \/ EP0_SetupEnd \/ EP0_Handler
  \/ SET_DATA_ADDERSS_Handle \/ SET_DATA_LENGTH_Handle \/ CardProgram \/ CardRead
=============================================================================
