-------------------------- MODULE Stage2CleanProofs --------------------------
(***************************************************************************)
(* A run of sdif= that found the device quiet, packet by packet: where     *)
(* each block and each request is between the tool and the device.         *)
(*                                                                         *)
(* CheckInv (module Stage2CheckProofs) says what a checked run may rely on *)
(* in whatever state it found the device.  The invariant here says more of *)
(* a run that nothing disturbed, checked or not, and nothing of the others *)
(* but what the interrupt registers show.                                  *)
(***************************************************************************)
EXTENDS Stage2CheckProofs

\* The faults that can leave a transfer half done in the device.
CutFaults == {"abort", "reset"}

\* The runs spoken of: the device was quiet at the start, and if the run has failed
\* it was not cut short in the middle of a transfer.
Tracked == clean /\ (hpc = "failed" => Faults \cap CutFaults = {})

\* A waiting packet is shown by an interrupt register or its local copy, and a copy
\* for endpoint 0 that outlived its SETUP packet is followed by a bus reset.
Signals ==
  /\ 0 \in gotIn => setup # NoReq \/ intrUsb
  /\ 0 \in intrIn => setup # NoReq
  /\ 0 \in intrIn /\ 0 \in gotIn => setupend
  /\ setupend => setup # NoReq
  /\ outFifo # NoPkt => intrOut \/ gotOut
  /\ pc \in {"intrin", "introut"} => ~gotOut
  /\ pc = "intrin" => gotIn = {}
  /\ pc = "op" => gotIn = {} /\ ~gotOut

\* Without faults that cut a run short every run finds the device quiet.
Uncut == Faults \cap CutFaults = {} => clean /\ ~overrun

\* The device handles the requests of the run, one after the other; the handshake
\* of CARD_PROGRAM is not sent before its handler is through.
OwnRequests ==
  Tracked =>
    /\ setup # NoReq => ctl
    /\ pc = "op" => req = LastReq /\ (hpc = "r_addr" => Taken)

\* The address and the length are the run's once their requests are handled.
OwnParameters ==
  Tracked /\ hpc \notin Stopped =>
    /\ hpc \notin {"file", "w_addr"} \/ (hpc = "w_addr" /\ Taken) =>
         start_addr = addr \/ (pc = "op" /\ req = AddrReq)
    /\ hpc \notin {"file", "w_addr", "w_len"} \/ (hpc = "w_len" /\ Taken) =>
         ops_length = len \/ (pc = "op" /\ req = LenReq)

\* How many blocks the tool has sent for the download that the card does not have.
Loaded ==
  IF hpc = "w_data" THEN k
  ELSE IF hpc \in {"w_op", "w_hs"} /\ ~Programmed THEN len ELSE 0

OutWaiting == IF outFifo = NoPkt THEN 0 ELSE 1

\* They are in Bulk_out_buf in the order sent, but for one that may be in the FIFO;
\* that one is seen before the request that follows it.
OutInOrder ==
  Tracked =>
    /\ Bulk_out_size + OutWaiting = Loaded
    /\ outFifo # NoPkt => outFifo = origin_data[Bulk_out_size]
    /\ \A n \in 0 .. Bulk_out_size - 1 : Bulk_out_buf[n] = origin_data[n]
    /\ hpc = "w_op" /\ 0 \in gotIn /\ pc = "serve" => outFifo = NoPkt \/ gotOut
    /\ (hpc = "w_op" /\ Taken) \/ hpc = "w_hs" => outFifo = NoPkt

\* The device has handled CARD_READ and sends the blocks.
Reading == ((hpc = "r_op" /\ Taken) \/ hpc = "r_data") /\ pc # "op"

\* The read-back has begun, but no block is sent yet.
ReadAsked ==
  \/ hpc = "r_addr" /\ Taken
  \/ hpc = "r_len"
  \/ hpc \in {"r_op", "r_data"} /\ ~Reading

\* What waits for the host: the handshake, or the next block.  A block is put into
\* the FIFO only for an interrupt that shows it empty.
InInOrder ==
  Tracked =>
    /\ ~Reading =>
         /\ Bulk_in_finish = Bulk_in_size
         /\ inFifo = IF hpc \in {"w_op", "w_hs"} /\ Programmed THEN Handshake ELSE NoPkt
         /\ hpc = "r_data" => k = 0
    /\ Reading =>
         /\ Bulk_in_size = len /\ Bulk_in_finish = k + Waiting
         /\ inFifo \in Block \cup {NoPkt}
         /\ 1 \in gotIn \cup intrIn => inFifo = NoPkt
         /\ ~(1 \in gotIn /\ 1 \in intrIn)
    /\ hpc = "r_addr" /\ 0 \in gotIn => 1 \notin intrIn
    /\ ReadAsked => 1 \notin gotIn \cup intrIn

CleanParts ==
  /\ Signals /\ Uncut /\ Undisturbed /\ OwnRequests /\ OwnParameters
  /\ OutInOrder /\ InInOrder

\* The inductive invariant.
CleanRunInv == TypeInv /\ CleanParts

-----------------------------------------------------------------------------
\* What of the types the steps below need.
LEMMA CleanTypes ==
  ASSUME CleanRunInv
  PROVE  /\ TypeOK /\ TypeInv /\ hpc \in HostPc /\ ctl \in BOOLEAN
         /\ ctl => hpc \in ControlPc
         /\ k \in Nat /\ len \in Nat /\ len >= 1 /\ len <= SD_MAX_BLOCK_NUM
         /\ len <= BufBlocks /\ BufBlocks \in Nat
         /\ Bulk_out_size \in Nat /\ Bulk_in_size \in Nat /\ Bulk_in_finish \in Nat
         /\ outFifo \in Block \cup {NoPkt}
         /\ pc \in {"serve", "intrin", "introut", "op"}
         /\ gotIn \subseteq {0, 1} /\ intrIn \subseteq {0, 1}
         /\ hpc \in {"w_data", "r_data"} => k < len
         /\ hpc \in {"w_hs", "r_addr", "r_len", "r_op"} => k = 0
         /\ pc = "op" => req \in Request /\ req # NoReq
<1>1. TypeOK /\ TypeInv /\ SizesOK /\ HostTypeOK /\ DeviceTypeOK
  BY DEF CleanRunInv, TypeInv, TypeOK
<1>2. len \in 1 .. SD_MAX_BLOCK_NUM /\ SD_MAX_BLOCK_NUM <= BufBlocks
  BY <1>1, JobFacts, HostAssumptions
<1> QED
  BY <1>1, <1>2, NoReqAssumption, SdSizes, DeviceAssumptions DEF SizesOK, HostTypeOK, DeviceTypeOK

\* A request that the device handles in a tracked run: which one it is and where
\* the tool is meanwhile.
LEMMA OwnHandled ==
  ASSUME CleanRunInv, Tracked, pc = "op"
  PROVE  /\ hpc \notin Stopped \cup {"file", "cmp"}
         /\ req.op = "VR_SET_DATA_ADDERSS" =>
              /\ req = AddrReq /\ req # LenReq
              /\ (hpc \in {"w_addr", "r_addr"} /\ Taken) \/ (hpc \in {"w_len", "r_len"} /\ ~Taken)
         /\ req.op = "VR_SET_DATA_LENGTH" =>
              /\ req = LenReq /\ req # AddrReq
              /\ \/ hpc \in {"w_len", "r_len"} /\ Taken
                 \/ hpc \in {"w_data", "w_op", "r_op"} /\ ~Taken
         /\ req.op = "CARD_PROGRAM" =>
              (hpc = "w_op" /\ Taken) \/ hpc = "w_hs"
         /\ req.op = "CARD_READ" =>
              (hpc = "r_op" /\ Taken) \/ hpc = "r_data"
         /\ req.op \in CardOps => start_addr = addr /\ ops_length = len
<1>1. /\ TypeOK /\ hpc \in HostPc /\ req # NoReq /\ req = LastReq
      /\ ctl => hpc \in ControlPc
      /\ hpc = "r_addr" => Taken
  BY CleanTypes DEF CleanRunInv, CleanParts, OwnRequests
<1>2. Taken => ctl
  BY DEF Taken
<1>3. /\ hpc \notin Stopped \cup {"file", "cmp"}
      /\ req.op = "VR_SET_DATA_ADDERSS" =>
           /\ req = AddrReq /\ req # LenReq
           /\ (hpc \in {"w_addr", "r_addr"} /\ Taken) \/ (hpc \in {"w_len", "r_len"} /\ ~Taken)
      /\ req.op = "VR_SET_DATA_LENGTH" =>
           /\ req = LenReq /\ req # AddrReq
           /\ \/ hpc \in {"w_len", "r_len"} /\ Taken
              \/ hpc \in {"w_data", "w_op", "r_op"} /\ ~Taken
      /\ req.op = "CARD_PROGRAM" =>
           (hpc = "w_op" /\ Taken) \/ hpc = "w_hs"
      /\ req.op = "CARD_READ" =>
           (hpc = "r_op" /\ Taken) \/ hpc = "r_data"
  BY <1>1, <1>2, RequestFacts, ControlRequestIs, LastReqIs DEF HostPc, ControlPc, Stopped
<1>4. ASSUME req.op \in CardOps PROVE start_addr = addr /\ ops_length = len
  <2>1. req # AddrReq /\ req # LenReq /\ hpc \in {"w_op", "w_hs", "r_op", "r_data"}
    BY <1>1, <1>3, <1>4, RequestFacts DEF CardOps
  <2> QED
    BY <2>1, <1>3 DEF CleanRunInv, CleanParts, OwnParameters
<1> QED
  BY <1>3, <1>4

\* The abbreviations of a step of the device that takes no SETUP packet and ends no
\* request.
LEMMA PhaseSame ==
  ASSUME UNCHANGED hostVars, setup' = setup, (pc' = "op") <=> (pc = "op")
  PROVE  /\ Tracked' = Tracked /\ Taken' = Taken
         /\ Programmed' = Programmed /\ Loaded' = Loaded
         /\ Reading' = Reading /\ ReadAsked' = ReadAsked
<1>1. /\ hpc' = hpc /\ ctl' = ctl /\ k' = k /\ len' = len /\ clean' = clean
  BY HostSame DEF hostVars
<1>2. Taken' = Taken /\ Tracked' = Tracked
  BY <1>1 DEF Taken, Tracked
<1>3. Programmed' = Programmed
  BY <1>1 DEF Programmed
<1>4. Reading' = Reading
  BY <1>1, <1>2 DEF Reading
<1> QED
  BY <1>1, <1>2, <1>3, <1>4 DEF Loaded, ReadAsked

\* Such a step leaves the requests alone.
LEMMA PhaseStep ==
  ASSUME CleanRunInv, UNCHANGED hostVars, UNCHANGED <<setup, req, opsVars>>,
         (pc' = "op") <=> (pc = "op"), hpc \notin Stopped => ~intrUsb' /\ ~gotUsb'
  PROVE  Undisturbed' /\ OwnRequests' /\ OwnParameters'
<1>1. Undisturbed'
  BY HostSame DEF CleanRunInv, CleanParts, Undisturbed
<1>2. OwnRequests'
  BY HostSame, PhaseSame DEF CleanRunInv, CleanParts, OwnRequests
<1>3. OwnParameters'
  BY HostSame, PhaseSame DEF CleanRunInv, CleanParts, OwnParameters, opsVars
<1> QED
  BY <1>1, <1>2, <1>3

\* A step that leaves the blocks from the tool alone.
LEMMA OutFrame ==
  ASSUME CleanRunInv, UNCHANGED hostVars, UNCHANGED <<setup, outFifo, outVars>>,
         (pc' = "op") <=> (pc = "op"),
         Tracked /\ hpc = "w_op" /\ 0 \in gotIn' /\ pc' = "serve" =>
           outFifo = NoPkt \/ gotOut'
  PROVE  Uncut' /\ OutInOrder'
<1>1. Uncut'
  BY DEF CleanRunInv, CleanParts, Uncut, hostVars, outVars
<1>2. OutInOrder'
  BY HostSame, PhaseSame DEF CleanRunInv, CleanParts, OutInOrder, OutWaiting, outVars
<1> QED
  BY <1>1, <1>2

\* A step that leaves the blocks for the host alone.
LEMMA InFrame ==
  ASSUME CleanRunInv, UNCHANGED hostVars,
         UNCHANGED <<setup, inFifo, Bulk_in_size, Bulk_in_finish>>,
         (pc' = "op") <=> (pc = "op"),
         1 \in gotIn' => 1 \in gotIn \cup intrIn,
         1 \in intrIn' => 1 \in intrIn /\ 1 \notin gotIn' \ gotIn,
         0 \in gotIn' \ gotIn => 1 \notin intrIn'
  PROVE  InInOrder'
<1>1. /\ Tracked' = Tracked /\ Taken' = Taken /\ Programmed' = Programmed
      /\ Reading' = Reading /\ ReadAsked' = ReadAsked /\ Waiting' = Waiting
      /\ hpc' = hpc /\ k' = k /\ len' = len
  BY HostSame, PhaseSame DEF Waiting
<1> QED
  BY <1>1 DEF CleanRunInv, CleanParts, InInOrder

\* Stage 2 reads the register of bus interrupts.
LEMMA ReadIntrUsbStep ==
  ASSUME CleanRunInv, UNCHANGED hostVars, ReadIntrUsb
  PROVE  CleanParts'
<1>1. /\ pc = "serve" /\ gotIn = {} /\ ~gotOut /\ pc' = "intrin" /\ ~intrUsb' /\ gotUsb' = intrUsb
      /\ UNCHANGED <<setup, setupend, outFifo, inFifo, intrIn, intrOut, gotIn, gotOut,
                     req, outVars, inVars, opsVars>>
  BY DEF ReadIntrUsb, AllServed
<1>2. Signals'
  BY <1>1 DEF CleanRunInv, CleanParts, Signals
<1>3. Undisturbed' /\ OwnRequests' /\ OwnParameters'
  BY <1>1, PhaseStep DEF CleanRunInv, CleanParts, Undisturbed
<1>4. Uncut' /\ OutInOrder'
  BY <1>1, OutFrame
<1>5. InInOrder'
  BY <1>1, InFrame DEF inVars
<1> QED
  BY <1>2, <1>3, <1>4, <1>5 DEF CleanParts

\* Stage 2 reads the register of the endpoints' interrupts.
LEMMA ReadIntrInStep ==
  ASSUME CleanRunInv, UNCHANGED hostVars, ReadIntrIn
  PROVE  CleanParts'
<1>1. /\ pc = "intrin" /\ gotIn = {} /\ ~gotOut /\ pc' = "introut" /\ gotIn' = intrIn /\ intrIn' = {}
      /\ UNCHANGED <<setup, setupend, outFifo, inFifo, intrUsb, intrOut, gotUsb, gotOut,
                     req, outVars, inVars, opsVars>>
  BY DEF ReadIntrIn, CleanRunInv, CleanParts, Signals
<1>2. Signals'
  BY <1>1 DEF CleanRunInv, CleanParts, Signals
<1>3. Undisturbed' /\ OwnRequests' /\ OwnParameters'
  BY <1>1, PhaseStep DEF CleanRunInv, CleanParts, Undisturbed
<1>4. Uncut' /\ OutInOrder'
  BY <1>1, OutFrame
<1>5. InInOrder'
  BY <1>1, InFrame DEF inVars
<1> QED
  BY <1>2, <1>3, <1>4, <1>5 DEF CleanParts

\* INTROUT is read after INTRIN: with the copy that shows CARD_PROGRAM, gotOut shows
\* the last packet sent before it.
LEMMA ReadIntrOutStep ==
  ASSUME CleanRunInv, UNCHANGED hostVars, ReadIntrOut
  PROVE  CleanParts'
<1>1. /\ pc = "introut" /\ ~gotOut /\ pc' = "serve" /\ gotOut' = intrOut /\ ~intrOut'
      /\ UNCHANGED <<setup, setupend, outFifo, inFifo, intrUsb, intrIn, gotUsb, gotIn,
                     req, outVars, inVars, opsVars>>
      /\ outFifo # NoPkt => gotOut'
  BY DEF ReadIntrOut, CleanRunInv, CleanParts, Signals
<1>2. Signals'
  BY <1>1 DEF CleanRunInv, CleanParts, Signals
<1>3. Undisturbed' /\ OwnRequests' /\ OwnParameters'
  BY <1>1, PhaseStep DEF CleanRunInv, CleanParts, Undisturbed
<1>4. Uncut' /\ OutInOrder'
  BY <1>1, OutFrame
<1>5. InInOrder'
  BY <1>1, InFrame DEF inVars
<1> QED
  BY <1>2, <1>3, <1>4, <1>5 DEF CleanParts

\* The next block goes out only when the FIFO is empty.
LEMMA EPINStep ==
  ASSUME CleanRunInv, UNCHANGED hostVars, EPIN_Handler
  PROVE  CleanParts'
<1>1. /\ pc = "serve" /\ 1 \in gotIn /\ gotIn' = gotIn \ {1}
      /\ UNCHANGED <<setup, setupend, outFifo, intrUsb, intrIn, intrOut, pc, gotUsb, gotOut,
                     req, outVars, Bulk_in_buf, Bulk_in_size, opsVars>>
  BY DEF EPIN_Handler
<1>2. Signals'
  BY <1>1 DEF CleanRunInv, CleanParts, Signals
<1>3. Undisturbed' /\ OwnRequests' /\ OwnParameters'
  BY <1>1, PhaseStep DEF CleanRunInv, CleanParts, Undisturbed
<1>4. Uncut' /\ OutInOrder'
  BY <1>1, OutFrame DEF CleanRunInv, CleanParts, OutInOrder
<1>5. InInOrder'
  <2>1. CASE Bulk_in_finish = Bulk_in_size
    <3>1. UNCHANGED <<inFifo, Bulk_in_finish>>
      BY <2>1 DEF EPIN_Handler
    <3> QED
      BY <1>1, <3>1, InFrame
  <2>2. CASE Bulk_in_finish # Bulk_in_size
    <3>1. SUFFICES ASSUME Tracked PROVE InInOrder'
      BY <1>1, PhaseSame DEF InInOrder
    <3>2. /\ Reading /\ Bulk_in_size = len /\ Bulk_in_finish = k + Waiting
          /\ inFifo = NoPkt /\ 1 \notin intrIn
      BY <1>1, <2>2, <3>1 DEF CleanRunInv, CleanParts, InInOrder
    <3>3. Bulk_in_finish = k /\ Bulk_in_finish \in BufIndex
      <4>1. Waiting = 0 /\ k \in Nat
        BY <3>2, CleanTypes DEF Waiting
      <4>2. Bulk_in_finish <= Bulk_in_size /\ Bulk_in_size \in Nat
        BY CleanTypes DEF CleanRunInv, TypeInv, SizesOK
      <4> QED
        BY <2>2, <3>2, <4>1, <4>2, CleanTypes DEF BufIndex
    <3>4. inFifo' = Bulk_in_buf[k] /\ Bulk_in_finish' = k + 1
      BY <2>2, <3>2, <3>3 DEF EPIN_Handler, FifoAfter
    <3>5. inFifo' \in Block /\ Waiting' = 1
      <4>1. inFifo' \in Block
        BY <3>3, <3>4, CleanTypes DEF TypeOK, DeviceTypeOK
      <4> QED
        BY <4>1, DeviceAssumptions DEF Waiting
    <3>6. /\ Reading' /\ ~ReadAsked' /\ hpc' # "r_addr" /\ len' = len /\ k' = k
      <4>1. ~ReadAsked /\ hpc # "r_addr"
        BY <3>2 DEF Reading, ReadAsked
      <4> QED
        BY <1>1, <3>2, <4>1, PhaseSame, HostSame
    <3> QED
      BY <1>1, <3>2, <3>4, <3>5, <3>6 DEF InInOrder
  <2> QED
    BY <2>1, <2>2
<1> QED
  BY <1>2, <1>3, <1>4, <1>5 DEF CleanParts

\* What the tool has sent fits the buffer.
LEMMA LoadedBound ==
  ASSUME CleanRunInv
  PROVE  Loaded \in Nat /\ Loaded <= len /\ Loaded <= BufBlocks
BY CleanTypes DEF Loaded

\* The packet from the FIFO is appended behind those stored before it.
LEMMA EPOUTStep ==
  ASSUME CleanRunInv, UNCHANGED hostVars, EPOUT_Handler
  PROVE  CleanParts'
<1>1. /\ pc = "serve" /\ 1 \notin gotIn /\ gotOut /\ ~gotOut' /\ outFifo' = NoPkt
      /\ UNCHANGED <<setup, setupend, inFifo, intrUsb, intrIn, intrOut, pc, gotUsb, gotIn,
                     req, inVars, opsVars>>
  BY DEF EPOUT_Handler
<1>2. Signals'
  BY <1>1 DEF CleanRunInv, CleanParts, Signals
<1>3. Undisturbed' /\ OwnRequests' /\ OwnParameters'
  BY <1>1, PhaseStep DEF CleanRunInv, CleanParts, Undisturbed
<1>4. Uncut' /\ OutInOrder'
  <2>1. CASE outFifo = NoPkt
    BY <1>1, <2>1, OutFrame DEF EPOUT_Handler
  <2>2. CASE outFifo # NoPkt
    <3>1. ASSUME Tracked
          PROVE  /\ Bulk_out_size + 1 = Loaded /\ Bulk_out_size \in BufIndex
                 /\ outFifo = origin_data[Bulk_out_size]
                 /\ \A n \in 0 .. Bulk_out_size - 1 : Bulk_out_buf[n] = origin_data[n]
                 /\ ~((hpc = "w_op" /\ Taken) \/ hpc = "w_hs")
      <4>1. /\ Bulk_out_size + 1 = Loaded /\ outFifo = origin_data[Bulk_out_size]
            /\ \A n \in 0 .. Bulk_out_size - 1 : Bulk_out_buf[n] = origin_data[n]
            /\ ~((hpc = "w_op" /\ Taken) \/ hpc = "w_hs")
        BY <2>2, <3>1 DEF CleanRunInv, CleanParts, OutInOrder, OutWaiting
      <4> QED
        BY <4>1, LoadedBound, CleanTypes DEF BufIndex
    <3>2. ASSUME Tracked
          PROVE  /\ Bulk_out_size' = Bulk_out_size + 1 /\ overrun' = overrun
                 /\ Bulk_out_buf' = [Bulk_out_buf EXCEPT ![Bulk_out_size] = outFifo]
      BY <2>2, <3>1, <3>2 DEF EPOUT_Handler
    <3>3. Uncut'
      <4>1. hpc' = hpc /\ clean' = clean
        BY DEF hostVars
      <4>2. ASSUME Faults \cap CutFaults = {}
            PROVE  clean /\ ~overrun'
        BY <3>2, <4>2 DEF CleanRunInv, CleanParts, Uncut, Tracked
      <4> QED
        BY <4>1, <4>2 DEF Uncut
    <3>4. OutInOrder'
      <4>1. SUFFICES ASSUME Tracked PROVE OutInOrder'
        BY <1>1, PhaseSame DEF OutInOrder
      <4>2. OutWaiting' = 0 /\ Loaded' = Loaded /\ Bulk_out_size' \in Nat
            /\ Bulk_out_size' = Bulk_out_size + 1 /\ Bulk_out_size \in Nat
        BY <1>1, <3>2, <4>1, PhaseSame, CleanTypes DEF OutWaiting
      <4>3. \A n \in 0 .. Bulk_out_size : Bulk_out_buf'[n] = origin_data[n]
        <5>1. Bulk_out_buf \in [BufIndex -> Block] /\ 0 .. Bulk_out_size \subseteq BufIndex
          BY <3>1, <4>1, <4>2, CleanTypes DEF TypeOK, DeviceTypeOK, BufIndex
        <5>2. \A n \in 0 .. Bulk_out_size :
                Bulk_out_buf'[n] = IF n = Bulk_out_size THEN outFifo ELSE Bulk_out_buf[n]
          BY <3>2, <4>1, <5>1
        <5>3. \A n \in 0 .. Bulk_out_size : n = Bulk_out_size \/ n \in 0 .. Bulk_out_size - 1
          BY <4>2
        <5> QED
          BY <3>1, <4>1, <5>2, <5>3
      <4>4. Bulk_out_size' + OutWaiting' = Loaded'
        BY <3>1, <4>1, <4>2, LoadedBound
      <4>5. Bulk_out_size' - 1 = Bulk_out_size
        BY <4>2
      <4>6. origin_data' = origin_data
        BY HostSame
      <4> QED
        BY <1>1, <4>3, <4>4, <4>5, <4>6 DEF OutInOrder
    <3> QED
      BY <3>3, <3>4
  <2> QED
    BY <2>1, <2>2
<1>5. InInOrder'
  BY <1>1, InFrame DEF inVars
<1> QED
  BY <1>2, <1>3, <1>4, <1>5 DEF CleanParts

\* A bus reset is served between runs: it leaves the device quiet.
LEMMA ResetStep ==
  ASSUME CleanRunInv, UNCHANGED hostVars, udc_reset
  PROVE  CleanParts'
<1>1. /\ pc = "serve" /\ pc' = pc /\ outFifo' = NoPkt /\ inFifo' = NoPkt /\ ~gotUsb'
      /\ Bulk_out_size' = 0 /\ Bulk_in_size' = 0 /\ Bulk_in_finish' = 0
      /\ UNCHANGED <<setup, setupend, intrUsb, intrIn, intrOut, gotIn, gotOut, req, overrun, opsVars>>
      /\ hpc \in Stopped
  BY DEF udc_reset, CleanRunInv, CleanParts, Undisturbed
<1>2. Signals'
  BY <1>1 DEF CleanRunInv, CleanParts, Signals
<1>3. Undisturbed' /\ OwnRequests' /\ OwnParameters'
  BY <1>1, PhaseStep
<1>4. Uncut'
  BY <1>1 DEF CleanRunInv, CleanParts, Uncut, hostVars
<1>5. Loaded' = 0 /\ ~Reading' /\ ~ReadAsked' /\ hpc' \in Stopped
  BY <1>1, HostSame DEF Loaded, Reading, ReadAsked, Stopped
<1>6. OutInOrder'
  BY <1>1, <1>5 DEF OutInOrder, OutWaiting, Stopped
<1>7. InInOrder'
  BY <1>1, <1>5 DEF InInOrder, Stopped
<1> QED
  BY <1>2, <1>3, <1>4, <1>6, <1>7 DEF CleanParts

\* A control transfer that ended early.
LEMMA SetupEndStep ==
  ASSUME CleanRunInv, UNCHANGED hostVars, EP0_SetupEnd
  PROVE  CleanParts'
<1>1. /\ pc = "serve" /\ pc' = pc /\ gotIn' = {} /\ setupend /\ ~setupend'
      /\ intrIn' \in {intrIn, intrIn \cup {0}} /\ ~gotOut
      /\ UNCHANGED <<setup, outFifo, inFifo, intrUsb, intrOut, gotUsb, gotOut, req, outVars,
                     inVars, opsVars>>
  BY DEF EP0_SetupEnd, Endpoint0Turn
<1>2. Signals'
  BY <1>1 DEF CleanRunInv, CleanParts, Signals
<1>3. Undisturbed' /\ OwnRequests' /\ OwnParameters'
  BY <1>1, PhaseStep DEF CleanRunInv, CleanParts, Undisturbed
<1>4. Uncut' /\ OutInOrder'
  BY <1>1, OutFrame
<1>5. InInOrder'
  BY <1>1, InFrame DEF inVars
<1> QED
  BY <1>2, <1>3, <1>4, <1>5 DEF CleanParts

\* The device takes the SETUP packet: every packet sent before it is stored.
LEMMA TakeSetupStep ==
  ASSUME CleanRunInv, UNCHANGED hostVars, EP0_Handler
  PROVE  CleanParts'
<1>0. /\ pc = "serve" /\ gotIn = {0} /\ gotIn' = {} /\ ~gotOut /\ ~setupend /\ setup' = NoReq
      /\ UNCHANGED <<setupend, outFifo, inFifo, intrUsb, intrIn, intrOut, gotUsb, gotOut,
                     outVars, inVars, opsVars>>
  BY DEF EP0_Handler, Endpoint0Turn
<1>1. CASE setup = NoReq
  <2>1. pc' = pc /\ req' = req /\ setup' = setup
    BY <1>0, <1>1 DEF EP0_Handler
  <2>2. Signals'
    BY <1>0, <2>1 DEF CleanRunInv, CleanParts, Signals
  <2>3. Undisturbed' /\ OwnRequests' /\ OwnParameters'
    BY <1>0, <2>1, PhaseStep DEF CleanRunInv, CleanParts, Undisturbed
  <2>4. Uncut' /\ OutInOrder' /\ InInOrder'
    BY <1>0, <2>1, OutFrame, InFrame DEF inVars
  <2> QED
    BY <2>2, <2>3, <2>4 DEF CleanParts
<1>2. CASE setup # NoReq
  <2>1. pc' = "op" /\ req' = setup
    BY <1>2 DEF EP0_Handler
  <2>2. Signals'
    BY <1>0, <1>2, <2>1 DEF CleanRunInv, CleanParts, Signals
  <2>3. Undisturbed'
    BY <1>0, HostSame DEF CleanRunInv, CleanParts, Undisturbed
  <2>4. Uncut'
    BY <1>0 DEF CleanRunInv, CleanParts, Uncut, hostVars, outVars
  <2>5. Tracked' = Tracked /\ hpc' = hpc /\ k' = k /\ len' = len /\ origin_data' = origin_data
    BY HostSame DEF Tracked, hostVars
  <2>6. SUFFICES ASSUME Tracked
                 PROVE  OwnRequests' /\ OwnParameters' /\ OutInOrder' /\ InInOrder'
    BY <2>2, <2>3, <2>4, <2>5 DEF CleanParts, OwnRequests, OwnParameters, OutInOrder, InInOrder
  <2>7. /\ ctl /\ hpc \in ControlPc /\ setup = ControlRequest /\ ~Taken /\ Taken'
        /\ ~Reading /\ ~Reading'
    <3>1. ctl /\ hpc \in ControlPc /\ setup = ControlRequest
      BY <1>2, <2>6, CleanTypes DEF CleanRunInv, CleanParts, OwnRequests, Undisturbed
    <3> QED
      BY <1>0, <1>2, <2>1, <3>1, HostSame DEF Taken, Reading, ControlPc
  <2>8. OwnRequests'
    <3>1. LastReq' = ControlRequest'
      BY <2>7 DEF LastReq
    <3> QED
      BY <1>0, <2>1, <2>7, <3>1, HostSame DEF OwnRequests
  <2>9. OwnParameters'
    <3>1. hpc = "w_addr" => req' = AddrReq
      BY <2>1, <2>7, ControlRequestIs
    <3>2. hpc = "w_len" => req' = LenReq
      BY <2>1, <2>7, ControlRequestIs
    <3> QED
      BY <1>0, <2>1, <2>6, <2>7, <3>1, <3>2, HostSame DEF CleanRunInv, CleanParts, OwnParameters, opsVars
  <2>10. Programmed' = Programmed
    BY <1>0, <1>2, <2>1, <2>5, <2>7 DEF Programmed, ControlPc
  <2>11. OutInOrder'
    <3>1. Loaded' = Loaded /\ OutWaiting' = OutWaiting
      BY <1>0, <2>5, <2>10 DEF Loaded, OutWaiting
    <3>2. hpc = "w_op" => outFifo = NoPkt
      BY <1>0, <2>6 DEF CleanRunInv, CleanParts, OutInOrder
    <3>3. hpc # "w_hs"
      BY <2>7 DEF ControlPc
    <3> QED
      BY <1>0, <2>5, <2>6, <3>1, <3>2, <3>3 DEF CleanRunInv, CleanParts, OutInOrder, outVars
  <2>12. InInOrder'
    <3>1. hpc = "r_addr" => 1 \notin intrIn
      BY <1>0, <2>6 DEF CleanRunInv, CleanParts, InInOrder
    <3>2. hpc # "r_addr" /\ ReadAsked' => ReadAsked
      BY <2>5, <2>7 DEF ReadAsked
    <3> QED
      BY <1>0, <2>5, <2>6, <2>7, <2>10, <3>1, <3>2 DEF CleanRunInv, CleanParts, InInOrder, inVars, ReadAsked
  <2> QED
    BY <2>8, <2>9, <2>11, <2>12
<1> QED
  BY <1>1, <1>2

\* What the end of any request leaves alone.
LEMMA ReturnFacts ==
  ASSUME CleanRunInv, UNCHANGED hostVars, NEW op, OpReturns(op)
  PROVE  /\ pc = "op" /\ req.op = op /\ pc' = "serve" /\ gotIn = {} /\ gotIn' = {} /\ ~gotOut
         /\ UNCHANGED <<setup, setupend, outFifo, intrUsb, intrIn, intrOut, gotUsb, gotOut>>
         /\ Signals' /\ Undisturbed' /\ OwnRequests'
         /\ Tracked' = Tracked /\ Taken' = Taken
<1>1. /\ pc = "op" /\ req.op = op /\ pc' = "serve" /\ gotIn = {} /\ gotIn' = {} /\ ~gotOut
      /\ UNCHANGED <<setup, setupend, outFifo, intrUsb, intrIn, intrOut, gotUsb, gotOut>>
  BY DEF OpReturns, CleanRunInv, CleanParts, Signals
<1>2. Signals'
  BY <1>1 DEF CleanRunInv, CleanParts, Signals
<1>3. Undisturbed'
  BY <1>1, HostSame DEF CleanRunInv, CleanParts, Undisturbed
<1>4. Tracked' = Tracked /\ Taken' = Taken
  BY <1>1, HostSame DEF Tracked, Taken, hostVars
<1>5. OwnRequests'
  BY <1>1, <1>4, HostSame DEF CleanRunInv, CleanParts, OwnRequests
<1> QED
  BY <1>1, <1>2, <1>3, <1>4, <1>5

\* The host sets a parameter of the request.
LEMMA SetParameterStep ==
  ASSUME CleanRunInv, UNCHANGED hostVars, SET_DATA_ADDERSS_Handle \/ SET_DATA_LENGTH_Handle
  PROVE  CleanParts'
<1>1. /\ pc = "op" /\ pc' = "serve" /\ gotIn = {} /\ gotIn' = {} /\ ~gotOut
      /\ UNCHANGED <<setup, setupend, outFifo, intrUsb, intrIn, intrOut, gotUsb, gotOut>>
      /\ Signals' /\ Undisturbed' /\ OwnRequests'
      /\ Tracked' = Tracked /\ Taken' = Taken
  BY ReturnFacts DEF SET_DATA_ADDERSS_Handle, SET_DATA_LENGTH_Handle
<1>2. UNCHANGED <<inFifo, outVars, inVars, card>> /\ hpc' = hpc
  BY HostSame DEF SET_DATA_ADDERSS_Handle, SET_DATA_LENGTH_Handle
<1>3. Uncut'
  BY <1>2 DEF CleanRunInv, CleanParts, Uncut, hostVars, outVars
<1>4. SUFFICES ASSUME Tracked
               PROVE  OwnParameters' /\ OutInOrder' /\ InInOrder'
  BY <1>1, <1>3 DEF CleanParts, OwnParameters, OutInOrder, InInOrder
<1>5. req.op \in {"VR_SET_DATA_ADDERSS", "VR_SET_DATA_LENGTH"}
  BY DEF SET_DATA_ADDERSS_Handle, SET_DATA_LENGTH_Handle, OpReturns
<1>6. ~(hpc = "w_op" /\ Taken) /\ hpc # "w_hs" /\ ~(hpc = "r_op" /\ Taken) /\ hpc # "r_data"
  BY <1>1, <1>4, <1>5, OwnHandled
<1>7. OwnParameters'
  <2>1. CASE SET_DATA_ADDERSS_Handle
    <3>1. req = AddrReq /\ start_addr' = addr /\ ops_length' = ops_length /\ req # LenReq
      BY <1>1, <1>4, <2>1, OwnHandled, CleanTypes, RequestFacts DEF SET_DATA_ADDERSS_Handle, OpReturns
    <3> QED
      BY <1>1, <1>4, <3>1, HostSame DEF CleanRunInv, CleanParts, OwnParameters
  <2>2. CASE SET_DATA_LENGTH_Handle
    <3>1. req = LenReq /\ ops_length' = len /\ start_addr' = start_addr /\ req # AddrReq
      BY <1>1, <1>4, <2>2, OwnHandled, CleanTypes, RequestFacts DEF SET_DATA_LENGTH_Handle, OpReturns
    <3> QED
      BY <1>1, <1>4, <3>1, HostSame DEF CleanRunInv, CleanParts, OwnParameters
  <2> QED
    BY <2>1, <2>2
<1>8. Programmed' = Programmed /\ ~Reading /\ ~Reading' /\ ReadAsked' = ReadAsked
  <2>1. Programmed' = Programmed
    BY <1>1, <1>2, <1>6, HostSame DEF Programmed, Taken
  <2>2. ~Reading /\ ~Reading'
    BY <1>1, <1>2, <1>6 DEF Reading
  <2> QED
    BY <1>1, <1>2, <2>1, <2>2 DEF ReadAsked
<1>9. OutInOrder'
  <2>1. Loaded' = Loaded /\ OutWaiting' = OutWaiting
    BY <1>1, <1>2, <1>8, HostSame DEF Loaded, OutWaiting
  <2> QED
    BY <1>1, <1>2, <1>4, <2>1, HostSame DEF CleanRunInv, CleanParts, OutInOrder, outVars
<1>10. InInOrder'
  BY <1>1, <1>2, <1>4, <1>8, HostSame DEF CleanRunInv, CleanParts, InInOrder, inVars
<1> QED
  BY <1>7, <1>9, <1>10

\* CARD_PROGRAM uses up exactly the blocks of its download, and its handshake is the
\* only thing that waits for the host.
LEMMA ProgramStep ==
  ASSUME CleanRunInv, UNCHANGED hostVars, CardProgram
  PROVE  CleanParts'
<1>1. /\ pc = "op" /\ pc' = "serve" /\ req.op = "CARD_PROGRAM" /\ gotIn' = {}
      /\ UNCHANGED <<setup, setupend, outFifo, intrUsb, intrIn, intrOut, gotUsb, gotOut>>
      /\ Signals' /\ Undisturbed' /\ OwnRequests'
      /\ Tracked' = Tracked /\ Taken' = Taken
  BY ReturnFacts DEF CardProgram
<1>2. /\ Bulk_out_size' = 0 /\ Bulk_in_size' = 0 /\ Bulk_in_finish' = 0
      /\ inFifo' \in FifoAfter(Handshake)
      /\ UNCHANGED <<overrun, start_addr, ops_length>> /\ hpc' = hpc
  BY HostSame DEF CardProgram, SendHandshake
<1>3. Uncut'
  BY <1>2 DEF CleanRunInv, CleanParts, Uncut, hostVars
<1>4. SUFFICES ASSUME Tracked
               PROVE  OwnParameters' /\ OutInOrder' /\ InInOrder'
  BY <1>1, <1>3 DEF CleanParts, OwnParameters, OutInOrder, InInOrder
<1>5. (hpc = "w_op" /\ Taken) \/ hpc = "w_hs"
  BY <1>1, <1>4, OwnHandled
<1>6. start_addr = addr /\ ops_length = len
  BY <1>1, <1>4, OwnHandled DEF CardOps
<1>7. OwnParameters'
  BY <1>2, <1>6, HostSame DEF OwnParameters
<1>8. ~Programmed /\ Programmed' /\ ~Reading /\ ~Reading' /\ ~ReadAsked'
  <2>1. ~Programmed /\ Programmed'
    BY <1>1, <1>2, <1>5, HostSame DEF Programmed, Taken
  <2> QED
    BY <1>1, <1>2, <1>5, <2>1 DEF Reading, ReadAsked
<1>9. outFifo = NoPkt
  BY <1>4, <1>5 DEF CleanRunInv, CleanParts, OutInOrder
<1>10. OutInOrder'
  BY <1>1, <1>2, <1>5, <1>8, <1>9 DEF OutInOrder, OutWaiting, Loaded
<1>11. inFifo = NoPkt
  BY <1>4, <1>8 DEF CleanRunInv, CleanParts, InInOrder
<1>12. InInOrder'
  BY <1>1, <1>2, <1>5, <1>8, <1>11 DEF InInOrder, FifoAfter
<1> QED
  BY <1>7, <1>10, <1>12

\* The first block of a read-back finds the FIFO empty.
LEMMA ReadBackStep ==
  ASSUME CleanRunInv, UNCHANGED hostVars, CardRead, TypeOK'
  PROVE  CleanParts'
<1>1. /\ pc = "op" /\ pc' = "serve" /\ req.op = "CARD_READ" /\ gotIn' = {} /\ gotIn = {}
      /\ UNCHANGED <<setup, setupend, outFifo, intrUsb, intrIn, intrOut, gotUsb, gotOut>>
      /\ Signals' /\ Undisturbed' /\ OwnRequests'
      /\ Tracked' = Tracked /\ Taken' = Taken
  BY ReturnFacts DEF CardRead
<1>2. /\ Bulk_out_size' = 0 /\ Bulk_in_size' = ops_length
      /\ Bulk_in_finish' = IF ops_length = 0 THEN 0 ELSE 1
      /\ inFifo' \in FifoAfter(Bulk_in_buf'[0])
      /\ UNCHANGED <<Bulk_out_buf, overrun, opsVars>> /\ hpc' = hpc /\ k' = k /\ len' = len
  BY HostSame DEF CardRead, SendBulk
<1>3. Uncut'
  BY <1>2 DEF CleanRunInv, CleanParts, Uncut, hostVars
<1>4. SUFFICES ASSUME Tracked
               PROVE  OwnParameters' /\ OutInOrder' /\ InInOrder'
  BY <1>1, <1>3 DEF CleanParts, OwnParameters, OutInOrder, InInOrder
<1>5. (hpc = "r_op" /\ Taken) \/ hpc = "r_data"
  BY <1>1, <1>4, OwnHandled
<1>6. start_addr = addr /\ ops_length = len
  BY <1>1, <1>4, OwnHandled DEF CardOps
<1>7. OwnParameters'
  BY <1>2, <1>6, HostSame DEF OwnParameters, opsVars
<1>8. ~Reading /\ Reading' /\ ReadAsked /\ ~ReadAsked'
  <2>1. ~Reading /\ Reading'
    BY <1>1, <1>2, <1>5 DEF Reading
  <2> QED
    BY <1>1, <1>2, <1>5, <2>1 DEF ReadAsked
<1>9. OutInOrder'
  <2>1. Loaded = 0 /\ Loaded' = 0
    BY <1>2, <1>5 DEF Loaded
  <2>2. Bulk_out_size + OutWaiting = 0
    BY <1>4, <2>1 DEF CleanRunInv, CleanParts, OutInOrder
  <2>3. outFifo = NoPkt
    BY <2>2, CleanTypes DEF OutWaiting
  <2> QED
    BY <1>1, <1>2, <1>5, <2>1, <2>3 DEF OutInOrder, OutWaiting
<1>10. /\ inFifo = NoPkt /\ k = 0 /\ 1 \notin intrIn
  BY <1>4, <1>5, <1>8, CleanTypes DEF CleanRunInv, CleanParts, InInOrder
<1>11. inFifo' \in Block
  <2>1. inFifo' = Bulk_in_buf'[0]
    BY <1>2, <1>10 DEF FifoAfter
  <2>2. Bulk_in_buf' \in [BufIndex -> Block] /\ 0 \in BufIndex
    BY DeviceAssumptions DEF TypeOK, DeviceTypeOK, BufIndex
  <2> QED
    BY <2>1, <2>2
<1>12. InInOrder'
  <2>1. Waiting' = 1 /\ Bulk_in_finish' = 1
    BY <1>2, <1>6, <1>11, CleanTypes, DeviceAssumptions DEF Waiting
  <2>2. Bulk_in_finish' = k' + Waiting' /\ Bulk_in_size' = len'
    BY <1>2, <1>6, <1>10, <2>1
  <2> QED
    BY <1>1, <1>2, <1>5, <1>8, <1>10, <1>11, <2>2 DEF InInOrder
<1> QED
  BY <1>7, <1>9, <1>12

-----------------------------------------------------------------------------
\* The interrupt registers do not depend on the tool.
LEMMA SameSignals ==
  ASSUME CleanRunInv, UNCHANGED deviceVars
  PROVE  /\ Signals'
         /\ UNCHANGED <<setup, setupend, outFifo, inFifo, intrUsb, intrIn, intrOut, pc, gotUsb,
                        gotIn, gotOut, req, outVars, inVars, opsVars>>
BY DEF CleanRunInv, CleanParts, Signals, deviceVars, usbVars, loopVars, outVars, inVars, opsVars

\* Between two downloads the device is quiet.
LEMMA AtQuiet ==
  ASSUME CleanRunInv, Tracked, hpc \in Stopped \cup {"file", "cmp"}
  PROVE  DeviceQuiet
<1>1. pc # "op"
  BY OwnHandled
<1>2. ~ctl
  BY CleanTypes DEF ControlPc, Stopped
<1>3. setup = NoReq
  BY <1>2 DEF CleanRunInv, CleanParts, OwnRequests
<1>4. Loaded = 0 /\ ~Reading
  BY DEF Loaded, Reading, Stopped
<1>5. Bulk_out_size + OutWaiting = 0
  BY <1>4 DEF CleanRunInv, CleanParts, OutInOrder
<1>6. outFifo = NoPkt /\ Bulk_out_size = 0
  BY <1>5, CleanTypes DEF OutWaiting
<1>7. inFifo = NoPkt /\ Bulk_in_finish = Bulk_in_size
  BY <1>4 DEF CleanRunInv, CleanParts, InInOrder, Stopped
<1> QED
  BY <1>1, <1>3, <1>6, <1>7 DEF DeviceQuiet

\* A step to between two downloads, or to the first request of one, when the device
\* is quiet then.
LEMMA QuietStep ==
  ASSUME Signals', Uncut', hpc' \notin Stopped => ~intrUsb' /\ ~gotUsb',
         hpc' \in Stopped \cup {"file", "w_addr"}, ctl' = FALSE,
         Tracked' => DeviceQuiet'
  PROVE  CleanParts'
<1>1. Loaded' = 0 /\ ~Reading' /\ ~Taken' /\ ~ReadAsked' /\ hpc' \notin {"r_addr", "w_op", "w_hs", "r_data"}
  BY DEF Loaded, Reading, Taken, ReadAsked, Stopped
<1>2. Undisturbed'
  BY DEF Undisturbed
<1>3. OwnRequests' /\ OwnParameters'
  BY <1>1 DEF OwnRequests, OwnParameters, DeviceQuiet, Stopped
<1>4. OutInOrder'
  BY <1>1 DEF OutInOrder, OutWaiting, DeviceQuiet
<1>5. InInOrder'
  BY <1>1 DEF InInOrder, DeviceQuiet
<1> QED
  BY <1>2, <1>3, <1>4, <1>5 DEF CleanParts

\* The device and how the run began stay, and only the tool's place changes.
LEMMA QuietToQuiet ==
  ASSUME CleanRunInv, UNCHANGED deviceVars, clean' = clean,
         hpc \in {"file", "cmp"},
         hpc' \in {"success", "failed", "file", "w_addr"}, ctl' = FALSE
  PROVE  CleanParts'
<1>1. Tracked' => Tracked
  BY DEF Tracked
<1>2. DeviceQuiet => DeviceQuiet'
  BY SameSignals DEF DeviceQuiet, outVars, inVars
<1>3. hpc' \notin Stopped => ~intrUsb' /\ ~gotUsb'
  BY SameSignals DEF CleanRunInv, CleanParts, Undisturbed, Stopped
<1>4. Uncut'
  BY SameSignals DEF CleanRunInv, CleanParts, Uncut, outVars
<1> QED
  BY <1>1, <1>2, <1>3, <1>4, AtQuiet, QuietStep, SameSignals DEF Stopped

\* The host reads its file.
LEMMA FileStep ==
  ASSUME CleanRunInv, ReadFile \/ ReadFileError
  PROVE  CleanParts'
<1>1. hpc = "file" /\ hpc' \in {"failed", "w_addr"} /\ UNCHANGED deviceVars /\ clean' = clean
  BY DEF ReadFile, ReadFileError
<1>2. ctl' = ctl
  BY DEF ReadFile, ReadFileError
<1> QED
  BY <1>1, <1>2, QuietToQuiet, CleanTypes DEF ControlPc

\* The host compares what it reads back.
LEMMA CompareCleanStep ==
  ASSUME CleanRunInv, Compare
  PROVE  CleanParts'
<1>1. hpc = "cmp" /\ hpc' \in {"failed", "success", "file"} /\ UNCHANGED deviceVars /\ clean' = clean
      /\ ctl' = ctl
  BY DEF Compare, NextDownload
<1> QED
  BY <1>1, QuietToQuiet, CleanTypes DEF ControlPc

\* A new run is tracked when it finds the device quiet, and without faults that cut
\* a run short it always does.
LEMMA StartStep ==
  ASSUME CleanRunInv, NEW j \in Jobs, sd_card_program(j)
  PROVE  CleanParts'
<1>1. /\ hpc \in Stopped /\ hpc' \in {"success", "file", "failed"} /\ ctl' = FALSE
      /\ clean' = DeviceQuiet /\ ~intrUsb /\ ~gotUsb /\ UNCHANGED deviceVars
  BY DEF sd_card_program
<1>2. Tracked' => DeviceQuiet'
  BY <1>1, SameSignals DEF Tracked, DeviceQuiet, outVars, inVars
<1>3. Uncut'
  <2>1. ASSUME Faults \cap CutFaults = {} PROVE DeviceQuiet /\ ~overrun
    BY <1>1, <2>1, AtQuiet DEF CleanRunInv, CleanParts, Uncut, Tracked
  <2> QED
    BY <1>1, <2>1, SameSignals DEF Uncut, outVars
<1>4. Signals' /\ ~intrUsb' /\ ~gotUsb'
  BY <1>1, SameSignals
<1>5. hpc' \in Stopped \cup {"file", "w_addr"}
  BY <1>1 DEF Stopped
<1> QED
  BY <1>1, <1>2, <1>3, <1>4, <1>5, QuietStep

\* The host program is killed.
LEMMA AbortStep ==
  ASSUME CleanRunInv, Abort
  PROVE  CleanParts'
<1>1. UNCHANGED deviceVars /\ hpc' = "failed" /\ ctl' = FALSE /\ Faults \cap CutFaults # {}
  BY DEF Abort, CutFaults
<1> QED
  BY <1>1, SameSignals, QuietStep DEF Tracked, Uncut, Stopped

\* The bus is reset.
LEMMA ResetBusStep ==
  ASSUME CleanRunInv, BusReset
  PROVE  CleanParts'
<1>1. /\ setup' = NoReq /\ ~setupend' /\ outFifo' = NoPkt /\ inFifo' = NoPkt /\ intrUsb'
      /\ intrIn' = {} /\ ~intrOut' /\ ctl' = FALSE /\ clean' = clean
      /\ UNCHANGED <<pc, gotUsb, gotIn, gotOut, req, outVars, inVars, opsVars>>
      /\ Faults \cap CutFaults # {}
      /\ hpc' = IF hpc \in Stopped THEN hpc ELSE "failed"
  BY DEF BusReset, CutFaults, loopVars
<1>2. Signals'
  BY <1>1 DEF CleanRunInv, CleanParts, Signals
<1>3. Tracked' => DeviceQuiet'
  <2>1. ASSUME Tracked' PROVE Tracked /\ hpc \in Stopped
    BY <1>1, <2>1 DEF Tracked
  <2> QED
    BY <1>1, <2>1, AtQuiet DEF DeviceQuiet, outVars, inVars
<1> QED
  BY <1>1, <1>2, <1>3, QuietStep DEF Uncut, Stopped

-----------------------------------------------------------------------------
\* Steps of the tool that touch neither the download nor how the run began.
LEMMA SendControlClean ==
  ASSUME CleanRunInv, SendControl
  PROVE  CleanParts'
<1>1. /\ hpc \in ControlPc /\ ~ctl /\ ctl' /\ setup' = ControlRequest
      /\ setupend' = (setupend \/ setup # NoReq) /\ intrIn' = intrIn \cup {0}
      /\ UNCHANGED <<outFifo, inFifo, intrUsb, intrOut, pc, gotUsb, gotIn, gotOut, req, outVars,
                     inVars, opsVars, hpc, job, i, k, origin_data, clean>>
  BY DEF SendControl, loopVars
<1>2. /\ ControlRequest # NoReq /\ ControlRequest' = ControlRequest
      /\ AddrReq' = AddrReq /\ LenReq' = LenReq /\ len' = len /\ addr' = addr
      /\ ProgramReq' = ProgramReq /\ ReadReq' = ReadReq
  BY <1>1, CleanTypes, ControlRequestType, SameRequests, SameDownload
<1>3. ~intrUsb /\ ~gotUsb
  BY <1>1 DEF CleanRunInv, CleanParts, Undisturbed, ControlPc, Stopped
<1>4. Signals'
  BY <1>1, <1>2, <1>3 DEF CleanRunInv, CleanParts, Signals
<1>5. Undisturbed'
  BY <1>1, <1>2, <1>3 DEF Undisturbed
<1>6. Uncut'
  BY <1>1 DEF CleanRunInv, CleanParts, Uncut, outVars
<1>7. Tracked' = Tracked /\ ~Taken /\ ~Taken' /\ Waiting' = Waiting /\ OutWaiting' = OutWaiting
  BY <1>1, <1>2 DEF Tracked, Taken, Waiting, OutWaiting
<1>8. SUFFICES ASSUME Tracked
               PROVE  OwnRequests' /\ OwnParameters' /\ OutInOrder' /\ InInOrder'
  BY <1>4, <1>5, <1>6, <1>7 DEF CleanParts, OwnRequests, OwnParameters, OutInOrder, InInOrder
<1>9. /\ Programmed' = Programmed /\ Reading' = Reading /\ ReadAsked' = ReadAsked
      /\ Loaded' = Loaded
  <2>1. Programmed' = Programmed
    BY <1>1, <1>2 DEF Programmed
  <2>2. Reading' = Reading
    BY <1>1, <1>7 DEF Reading
  <2> QED
    BY <1>1, <1>2, <1>7, <2>1, <2>2 DEF ReadAsked, Loaded
<1>10. OwnRequests'
  <2>1. LastReq' = LastReq
    BY <1>1, <1>2, <1>7 DEF LastReq
  <2> QED
    BY <1>1, <1>7, <1>8, <2>1 DEF CleanRunInv, CleanParts, OwnRequests
<1>11. OwnParameters'
  BY <1>1, <1>2, <1>7, <1>8 DEF CleanRunInv, CleanParts, OwnParameters, opsVars
<1>12. OutInOrder'
  BY <1>1, <1>7, <1>8, <1>9 DEF CleanRunInv, CleanParts, OutInOrder, outVars
<1>13. InInOrder'
  BY <1>1, <1>2, <1>7, <1>8, <1>9 DEF CleanRunInv, CleanParts, InInOrder, inVars
<1> QED
  BY <1>10, <1>11, <1>12, <1>13

\* A control transfer is done.
LEMMA ControlDoneClean ==
  ASSUME CleanRunInv, ControlDone
  PROVE  CleanParts'
<1>1. /\ hpc \in ControlPc /\ ctl /\ setup = NoReq /\ ctl' = FALSE /\ k' = 0
      /\ hpc' = AfterControl
      /\ UNCHANGED <<deviceVars, job, i, origin_data, clean>>
  BY CleanTypes DEF ControlDone
<1>2. /\ AddrReq' = AddrReq /\ LenReq' = LenReq /\ len' = len /\ addr' = addr
      /\ ProgramReq' = ProgramReq /\ ReadReq' = ReadReq
  BY <1>1, SameRequests, SameDownload
<1>3. /\ hpc = "w_addr" => hpc' = "w_len"
      /\ hpc = "w_len" => hpc' = "w_data"
      /\ hpc = "w_op" => hpc' = "w_hs"
      /\ hpc = "r_addr" => hpc' = "r_len"
      /\ hpc = "r_len" => hpc' = "r_op"
      /\ hpc = "r_op" => hpc' = "r_data"
      /\ hpc' \notin Stopped
  BY <1>1 DEF AfterControl, ControlPc, Stopped
<1>4. Signals' /\ Uncut'
  BY <1>1, SameSignals DEF CleanRunInv, CleanParts, Uncut, outVars
<1>5. Undisturbed'
  BY <1>1, SameSignals DEF CleanRunInv, CleanParts, Undisturbed, ControlPc, Stopped
<1>6. Taken /\ ~Taken' /\ (Tracked' => Tracked) /\ Waiting' = Waiting /\ OutWaiting' = OutWaiting
  BY <1>1, SameSignals DEF Tracked, Taken, Waiting, OutWaiting, ControlPc
<1>7. SUFFICES ASSUME Tracked
               PROVE  OwnRequests' /\ OwnParameters' /\ OutInOrder' /\ InInOrder'
  BY <1>4, <1>5, <1>6 DEF CleanParts, OwnRequests, OwnParameters, OutInOrder, InInOrder
<1>8. /\ Programmed' = Programmed /\ Reading' = Reading
  BY <1>1, <1>3, <1>6, SameSignals DEF Programmed, Reading, ControlPc
<1>9. /\ Loaded' = Loaded /\ (ReadAsked' => ReadAsked)
  BY <1>1, <1>2, <1>3, <1>6, <1>8 DEF ReadAsked, Loaded, ControlPc
<1>10. OwnRequests'
  <2>1. LastReq' = LastReq
    <3>1. LastReq = ControlRequest
      BY <1>6, LastReqIs
    <3>2. LastReq' = CASE hpc' \in {"w_len", "r_len"} -> AddrReq'
                       [] hpc' \in {"w_data", "w_op", "r_op"} -> LenReq'
                       [] hpc' \in {"w_hs", "r_addr"} -> ProgramReq'
                       [] hpc' = "r_data" -> ReadReq'
                       [] OTHER -> NoReq
      BY <1>6 DEF LastReq
    <3> QED
      BY <1>1, <1>2, <1>3, <3>1, <3>2, ControlRequestIs DEF ControlPc
  <2>2. hpc' # "r_addr"
    BY <1>1, <1>3 DEF ControlPc
  <2> QED
    BY <1>1, <1>7, <2>1, <2>2, SameSignals DEF CleanRunInv, CleanParts, OwnRequests
<1>11. OwnParameters'
  BY <1>1, <1>2, <1>3, <1>6, <1>7, SameSignals
     DEF CleanRunInv, CleanParts, OwnParameters, opsVars, ControlPc, Stopped
<1>12. OutInOrder'
  <2>1. hpc' = "w_hs" => outFifo = NoPkt
    BY <1>1, <1>3, <1>6, <1>7 DEF CleanRunInv, CleanParts, OutInOrder, ControlPc
  <2>2. hpc' # "w_op"
    BY <1>1, <1>3 DEF ControlPc
  <2> QED
    BY <1>1, <1>6, <1>7, <1>9, <2>1, <2>2, SameSignals DEF CleanRunInv, CleanParts, OutInOrder, outVars
<1>13. InInOrder'
  <2>1. hpc' # "r_addr" /\ (hpc' \in {"w_op", "w_hs"} <=> hpc \in {"w_op", "w_hs"})
    BY <1>1, <1>3 DEF ControlPc
  <2>2. Reading => k' = k
    BY <1>1, CleanTypes DEF Reading, ControlPc
  <2> QED
    BY <1>1, <1>2, <1>6, <1>7, <1>8, <1>9, <2>1, <2>2, SameSignals
       DEF CleanRunInv, CleanParts, InInOrder, inVars
<1> QED
  BY <1>10, <1>11, <1>12, <1>13

\* The next packet goes into the empty FIFO; no copy of INTRIN shows a request yet.
LEMMA SendPacketClean ==
  ASSUME CleanRunInv, SendPacket
  PROVE  CleanParts'
<1>1. /\ hpc = "w_data" /\ outFifo = NoPkt /\ outFifo' = origin_data[k] /\ intrOut'
      /\ k' = k + 1 /\ hpc' = IF k + 1 = len THEN "w_op" ELSE hpc
      /\ UNCHANGED <<setup, setupend, inFifo, intrUsb, intrIn, pc, gotUsb, gotIn, gotOut, req,
                     outVars, inVars, opsVars, ctl, job, i, origin_data, clean>>
  BY DEF SendPacket, loopVars
<1>2. /\ AddrReq' = AddrReq /\ LenReq' = LenReq /\ len' = len /\ addr' = addr
  BY <1>1, SameRequests, SameDownload
<1>3. ~ctl /\ hpc \notin Stopped /\ hpc' \notin Stopped /\ hpc' \in {"w_data", "w_op"} /\ ~intrUsb
  BY <1>1, CleanTypes DEF ControlPc, Stopped, CleanRunInv, CleanParts, Undisturbed
<1>4. Signals'
  BY <1>1 DEF CleanRunInv, CleanParts, Signals
<1>5. Uncut' /\ Undisturbed'
  BY <1>1, <1>3 DEF CleanRunInv, CleanParts, Uncut, Undisturbed, outVars
<1>6. Tracked' = Tracked /\ ~Taken /\ ~Taken'
  BY <1>1, <1>3 DEF Tracked, Taken, Stopped
<1>7. SUFFICES ASSUME Tracked
               PROVE  OwnRequests' /\ OwnParameters' /\ OutInOrder' /\ InInOrder'
  BY <1>4, <1>5, <1>6 DEF CleanParts, OwnRequests, OwnParameters, OutInOrder, InInOrder
<1>8. OwnRequests'
  <2>1. LastReq = LenReq /\ LastReq' = LenReq'
    BY <1>1, <1>3, <1>6 DEF LastReq
  <2> QED
    BY <1>1, <1>2, <1>3, <1>7, <2>1 DEF CleanRunInv, CleanParts, OwnRequests
<1>9. OwnParameters'
  BY <1>1, <1>2, <1>3, <1>6, <1>7 DEF CleanRunInv, CleanParts, OwnParameters, opsVars, Stopped
<1>10. ~Programmed /\ ~Programmed' /\ ~Reading /\ ~Reading' /\ ~ReadAsked'
  BY <1>1, <1>3, <1>6 DEF Programmed, Reading, ReadAsked
<1>11. OutInOrder'
  <2>1. Loaded = k /\ Loaded' = k + 1
    BY <1>1, <1>2, <1>3, <1>10 DEF Loaded
  <2>2. Bulk_out_size = k
    BY <1>1, <1>7, <2>1, CleanTypes DEF CleanRunInv, CleanParts, OutInOrder, OutWaiting
  <2>3. outFifo' \in Block /\ OutWaiting' = 1
    <3>1. k \in ChunkIndex
      BY <1>1, CleanTypes, SdSizes DEF ChunkIndex
    <3>2. outFifo' \in Block
      BY <1>1, <3>1, CleanTypes DEF TypeOK, HostTypeOK
    <3> QED
      BY <3>2, DeviceAssumptions DEF OutWaiting
  <2>4. 0 \notin gotIn
    BY <1>3, <1>7 DEF CleanRunInv, CleanParts, OwnRequests, Signals
  <2>5. \A n \in 0 .. Bulk_out_size - 1 : Bulk_out_buf[n] = origin_data[n]
    BY <1>7 DEF CleanRunInv, CleanParts, OutInOrder
  <2> QED
    BY <1>1, <1>3, <1>6, <2>1, <2>2, <2>3, <2>4, <2>5 DEF OutInOrder, outVars
<1>12. InInOrder'
  BY <1>1, <1>3, <1>7, <1>10 DEF CleanRunInv, CleanParts, InInOrder, inVars
<1> QED
  BY <1>8, <1>9, <1>11, <1>12

\* What ReadHandshake takes from the FIFO is the handshake of this download, sent
\* after the card was programmed.
LEMMA HandshakeFacts ==
  ASSUME CleanRunInv, Tracked, hpc = "w_hs", inFifo # NoPkt
  PROVE  /\ pc # "op" /\ ~ctl /\ setup = NoReq /\ inFifo = Handshake
         /\ outFifo = NoPkt /\ Bulk_out_size = 0 /\ Bulk_in_finish = Bulk_in_size
         /\ 0 \notin gotIn
<1>1. ~Reading /\ ~ctl
  BY CleanTypes DEF Reading, ControlPc
<1>2. Programmed /\ inFifo = Handshake /\ Bulk_in_finish = Bulk_in_size
  BY <1>1 DEF CleanRunInv, CleanParts, InInOrder
<1>3. pc # "op"
  BY <1>2 DEF Programmed
<1>4. setup = NoReq /\ 0 \notin gotIn
  BY <1>1 DEF CleanRunInv, CleanParts, OwnRequests, Signals, Undisturbed, Stopped
<1>5. outFifo = NoPkt /\ Bulk_out_size + OutWaiting = 0
  BY <1>2 DEF CleanRunInv, CleanParts, OutInOrder, Loaded
<1> QED
  BY <1>1, <1>2, <1>3, <1>4, <1>5, CleanTypes DEF OutWaiting

\* The host reads the answer to its request.
LEMMA ReadHandshakeClean ==
  ASSUME CleanRunInv, ReadHandshake
  PROVE  CleanParts'
<1>1. /\ hpc = "w_hs" /\ inFifo # NoPkt /\ inFifo' = NoPkt /\ intrIn' = intrIn \cup {1}
      /\ UNCHANGED <<setup, setupend, outFifo, intrUsb, intrOut, pc, gotUsb, gotIn, gotOut, req,
                     outVars, inVars, opsVars, ctl, job, k, origin_data, clean>>
      /\ hpc' \in {"r_addr", "file", "success"}
      /\ hpc' = "r_addr" => i' = i
  BY DEF ReadHandshake, TakePacket, loopVars, NextDownload
<1>2. ~ctl /\ hpc \notin Stopped /\ ~intrUsb /\ ~gotUsb
  BY <1>1, CleanTypes DEF ControlPc, Stopped, CleanRunInv, CleanParts, Undisturbed
<1>3. Signals'
  BY <1>1 DEF CleanRunInv, CleanParts, Signals
<1>4. Uncut' /\ Undisturbed'
  BY <1>1, <1>2 DEF CleanRunInv, CleanParts, Uncut, Undisturbed, outVars
<1>5. Tracked' = Tracked /\ ~Taken'
  BY <1>1, <1>2 DEF Tracked, Taken
<1>6. Tracked' => DeviceQuiet'
  BY <1>1, <1>5, HandshakeFacts DEF DeviceQuiet, outVars, inVars
<1>7. CASE hpc' # "r_addr"
  <2>1. hpc' \in Stopped \cup {"file", "w_addr"} /\ ctl' = FALSE /\ ~intrUsb' /\ ~gotUsb'
    BY <1>1, <1>2, <1>7, CleanTypes DEF Stopped
  <2> QED
    BY <1>3, <1>4, <1>6, <2>1, QuietStep
<1>8. CASE hpc' = "r_addr"
  <2>1. SUFFICES ASSUME Tracked
                 PROVE  OwnRequests' /\ OwnParameters' /\ OutInOrder' /\ InInOrder'
    BY <1>3, <1>4, <1>5 DEF CleanParts, OwnRequests, OwnParameters, OutInOrder, InInOrder
  <2>2. /\ AddrReq' = AddrReq /\ LenReq' = LenReq /\ len' = len /\ addr' = addr
    BY <1>1, <1>8, SameRequests, SameDownload
  <2>3. DeviceQuiet' /\ 0 \notin gotIn /\ pc # "op"
    BY <1>1, <1>5, <1>6, <2>1, HandshakeFacts
  <2>4. ~Reading' /\ ~ReadAsked' /\ Loaded' = 0
    BY <1>5, <1>8 DEF Reading, ReadAsked, Loaded
  <2>5. OwnRequests'
    BY <2>3 DEF OwnRequests, DeviceQuiet
  <2>6. OwnParameters'
    BY <1>1, <1>2, <1>8, <2>1, <2>2, <2>3 DEF CleanRunInv, CleanParts, OwnParameters, opsVars
  <2>7. OutInOrder'
    BY <1>8, <2>3, <2>4 DEF OutInOrder, OutWaiting, DeviceQuiet
  <2>8. InInOrder'
    BY <1>1, <1>8, <2>3, <2>4 DEF InInOrder, DeviceQuiet
  <2> QED
    BY <2>5, <2>6, <2>7, <2>8
<1> QED
  BY <1>7, <1>8

\* A tracked run gets neither more than its handshake nor less than its blocks.
LEMMA NoBadPacket ==
  ASSUME CleanRunInv, HandshakeOverflow \/ ReadShort
  PROVE  ~Tracked
<1>1. CASE HandshakeOverflow
  <2>1. hpc = "w_hs" /\ inFifo \notin {NoPkt, Handshake} /\ ~Reading
    BY <1>1 DEF HandshakeOverflow, Reading
  <2> QED
    BY <2>1 DEF CleanRunInv, CleanParts, InInOrder
<1>2. CASE ReadShort
  <2>1. hpc = "r_data" /\ inFifo \in {Handshake, Garbled}
    BY <1>2 DEF ReadShort
  <2>2. inFifo \notin Block \cup {NoPkt}
    BY <2>1, DeviceAssumptions
  <2> QED
    BY <2>1, <2>2 DEF CleanRunInv, CleanParts, InInOrder
<1> QED
  BY <1>1, <1>2

\* The host gets a packet that is too long or too short.
LEMMA BadPacketStep ==
  ASSUME CleanRunInv, HandshakeOverflow \/ ReadShort
  PROVE  CleanParts'
<1>1. /\ hpc \in {"w_hs", "r_data"} /\ hpc' = "failed" /\ UNCHANGED <<ctl, clean, overrun>>
      /\ UNCHANGED deviceVars \/ TakePacket
  BY DEF HandshakeOverflow, ReadShort, TakePacket, deviceVars, outVars
<1>2. ~Tracked /\ ~clean
  BY <1>1, NoBadPacket DEF Tracked
<1>3. ~ctl
  BY <1>1, CleanTypes DEF ControlPc
<1>4. Signals'
  <2>1. CASE UNCHANGED deviceVars
    BY <2>1, SameSignals
  <2>2. CASE TakePacket
    BY <2>2 DEF TakePacket, CleanRunInv, CleanParts, Signals, loopVars
  <2> QED
    BY <1>1, <2>1, <2>2
<1>5. Uncut' /\ ~Tracked'
  BY <1>1, <1>2 DEF CleanRunInv, CleanParts, Uncut, Tracked
<1>6. hpc' \in Stopped /\ ctl' = FALSE
  BY <1>1, <1>3, CleanTypes DEF Stopped
<1> QED
  BY <1>4, <1>5, <1>6, QuietStep

\* The host takes a packet of the data it reads back.
LEMMA ReadPacketClean ==
  ASSUME CleanRunInv, ReadPacket
  PROVE  CleanParts'
<1>1. /\ hpc = "r_data" /\ inFifo \in Block /\ inFifo' = NoPkt /\ intrIn' = intrIn \cup {1}
      /\ k' = k + 1 /\ hpc' = IF k + 1 = len THEN "cmp" ELSE hpc
      /\ UNCHANGED <<setup, setupend, outFifo, intrUsb, intrOut, pc, gotUsb, gotIn, gotOut, req,
                     outVars, inVars, opsVars, ctl, job, i, origin_data, clean>>
  BY DEF ReadPacket, TakePacket, loopVars
<1>2. /\ AddrReq' = AddrReq /\ LenReq' = LenReq /\ len' = len /\ addr' = addr
  BY <1>1, SameRequests, SameDownload
<1>3. ~ctl /\ hpc \notin Stopped /\ hpc' \notin Stopped /\ hpc' \in {"r_data", "cmp"} /\ ~intrUsb /\ ~gotUsb
  BY <1>1, CleanTypes DEF ControlPc, Stopped, CleanRunInv, CleanParts, Undisturbed
<1>4. Signals'
  BY <1>1 DEF CleanRunInv, CleanParts, Signals
<1>5. Uncut' /\ Undisturbed'
  BY <1>1, <1>3 DEF CleanRunInv, CleanParts, Uncut, Undisturbed, outVars
<1>6. Tracked' = Tracked /\ ~Taken /\ ~Taken'
  BY <1>1, <1>3 DEF Tracked, Taken, Stopped
<1>7. SUFFICES ASSUME Tracked
               PROVE  OwnRequests' /\ OwnParameters' /\ OutInOrder' /\ InInOrder'
  BY <1>4, <1>5, <1>6 DEF CleanParts, OwnRequests, OwnParameters, OutInOrder, InInOrder
<1>8. Reading /\ pc # "op" /\ inFifo # NoPkt
  <2>1. inFifo # NoPkt
    BY <1>1, DeviceAssumptions
  <2>2. Reading
    BY <1>1, <1>7, <2>1 DEF CleanRunInv, CleanParts, InInOrder
  <2> QED
    BY <2>1, <2>2 DEF Reading
<1>9. OwnRequests' /\ OwnParameters'
  <2>1. OwnRequests'
    BY <1>1, <1>7, <1>8 DEF CleanRunInv, CleanParts, OwnRequests
  <2>2. start_addr' = start_addr /\ ops_length' = ops_length
    BY <1>1 DEF opsVars
  <2>3. start_addr = addr /\ ops_length = len
    BY <1>1, <1>3, <1>7, <1>8 DEF CleanRunInv, CleanParts, OwnParameters
  <2>4. OwnParameters'
    BY <1>2, <2>2, <2>3 DEF OwnParameters
  <2> QED
    BY <2>1, <2>4
<1>10. OutInOrder'
  <2>1. Loaded = 0 /\ Loaded' = 0 /\ OutWaiting' = OutWaiting
    BY <1>1, <1>3 DEF Loaded, OutWaiting
  <2> QED
    BY <1>1, <1>3, <1>6, <1>7, <2>1 DEF CleanRunInv, CleanParts, OutInOrder, outVars
<1>11. InInOrder'
  <2>1. Waiting = 1 /\ Waiting' = 0
    BY <1>1, <1>8 DEF Waiting
  <2>2. /\ Bulk_in_size = len /\ Bulk_in_finish = k + 1 /\ 1 \notin gotIn
    BY <1>7, <1>8, <2>1 DEF CleanRunInv, CleanParts, InInOrder
  <2>3. Bulk_in_finish' = k' + Waiting' /\ Bulk_in_size' = len' /\ Bulk_in_finish' = k'
    BY <1>1, <1>2, <2>1, <2>2, CleanTypes DEF inVars
  <2>4. CASE hpc' = "cmp"
    <3>1. ~Reading' /\ ~ReadAsked' /\ k' = len
      BY <1>1, <2>4 DEF Reading, ReadAsked
    <3> QED
      BY <1>1, <1>2, <2>3, <2>4, <3>1 DEF InInOrder
  <2>5. CASE hpc' = "r_data"
    <3>1. Reading' /\ ~ReadAsked'
      BY <1>1, <1>8, <2>5 DEF Reading, ReadAsked
    <3> QED
      BY <1>1, <2>2, <2>3, <2>5, <3>1 DEF InInOrder
  <2> QED
    BY <1>3, <2>4, <2>5
<1> QED
  BY <1>9, <1>10, <1>11

-----------------------------------------------------------------------------
\* The invariant at the start.
LEMMA InitClean == Init => CleanRunInv
<1> SUFFICES ASSUME Init PROVE CleanRunInv
  OBVIOUS
<1>1. TypeInv
  BY InitType
<1>2. /\ hpc = "idle" /\ ~ctl /\ clean /\ setup = NoReq /\ ~setupend /\ outFifo = NoPkt
      /\ inFifo = NoPkt /\ intrIn = {} /\ gotIn = {} /\ ~gotOut /\ pc = "serve" /\ ~overrun
      /\ Bulk_out_size = 0 /\ Bulk_in_size = 0 /\ Bulk_in_finish = 0
  BY DEF Init, DeviceInit, HostInit
<1>3. Signals /\ Uncut /\ Undisturbed
  BY <1>2 DEF Signals, Uncut, Undisturbed, Stopped
<1>4. Loaded = 0 /\ ~Reading /\ ~ReadAsked
  BY <1>2 DEF Loaded, Reading, ReadAsked
<1>5. OwnRequests /\ OwnParameters
  BY <1>2 DEF OwnRequests, OwnParameters, Stopped
<1>6. OutInOrder /\ InInOrder
  BY <1>2, <1>4 DEF OutInOrder, InInOrder, OutWaiting
<1> QED
  BY <1>1, <1>3, <1>5, <1>6 DEF CleanRunInv, CleanParts

\* Every step keeps the invariant.
LEMMA NextClean == CleanRunInv /\ [Next]_vars => CleanRunInv'
<1> SUFFICES ASSUME CleanRunInv, [Next]_vars PROVE CleanRunInv'
  OBVIOUS
<1>1. TypeInv' /\ TypeOK'
  BY NextType DEF CleanRunInv, TypeInv
<1>2. SUFFICES CleanParts'
  BY <1>1 DEF CleanRunInv
<1>3. ASSUME DeviceStep PROVE CleanParts'
  <2>0. UNCHANGED hostVars
    BY <1>3 DEF DeviceStep
  <2>1. CASE ReadIntrUsb
    BY <2>0, <2>1, ReadIntrUsbStep
  <2>2. CASE ReadIntrIn
    BY <2>0, <2>2, ReadIntrInStep
  <2>3. CASE ReadIntrOut
    BY <2>0, <2>3, ReadIntrOutStep
  <2>4. CASE EPIN_Handler
    BY <2>0, <2>4, EPINStep
  <2>5. CASE EPOUT_Handler
    BY <2>0, <2>5, EPOUTStep
  <2>6. CASE udc_reset
    BY <2>0, <2>6, ResetStep
  <2>7. CASE EP0_SetupEnd
    BY <2>0, <2>7, SetupEndStep
  <2>8. CASE EP0_Handler
    BY <2>0, <2>8, TakeSetupStep
  <2>9. CASE SET_DATA_ADDERSS_Handle \/ SET_DATA_LENGTH_Handle
    BY <2>0, <2>9, SetParameterStep
  <2>10. CASE CardProgram
    BY <2>0, <2>10, ProgramStep
  <2>11. CASE CardRead
    BY <1>1, <2>0, <2>11, ReadBackStep
  <2> QED
    BY <1>3, <2>1, <2>2, <2>3, <2>4, <2>5, <2>6, <2>7, <2>8, <2>9, <2>10, <2>11
       DEF DeviceStep, udc4740Proc
<1>4. ASSUME HostStep PROVE CleanParts'
  BY <1>4, FileStep, SendControlClean, ControlDoneClean, SendPacketClean, ReadHandshakeClean,
     BadPacketStep, ReadPacketClean, CompareCleanStep DEF HostStep
<1>5. ASSUME NEW j \in Jobs, sd_card_program(j) PROVE CleanParts'
  BY <1>5, StartStep
<1>6. ASSUME Abort \/ BusReset PROVE CleanParts'
  BY <1>6, AbortStep, ResetBusStep
<1>7. ASSUME UNCHANGED vars PROVE CleanParts'
  <2>1. UNCHANGED hostVars /\ UNCHANGED deviceVars
    BY <1>7 DEF vars
  <2>2. UNCHANGED <<setup, setupend, outFifo, inFifo, intrUsb, intrIn, intrOut, pc, gotUsb,
                    gotIn, gotOut, req, outVars, inVars, opsVars>>
    BY <2>1 DEF deviceVars, usbVars, loopVars
  <2>3. Signals'
    BY <2>1, SameSignals
  <2>4. Undisturbed' /\ OwnRequests' /\ OwnParameters'
    BY <2>1, <2>2, PhaseStep DEF CleanRunInv, CleanParts, Undisturbed
  <2>5. Uncut' /\ OutInOrder'
    BY <2>1, <2>2, OutFrame DEF CleanRunInv, CleanParts, OutInOrder
  <2>6. InInOrder'
    BY <2>1, <2>2, InFrame DEF inVars
  <2> QED
    BY <2>3, <2>4, <2>5, <2>6 DEF CleanParts
<1> QED
  BY <1>3, <1>4, <1>5, <1>6, <1>7 DEF Next

\* In every run that found the device quiet, whatever the card does and however tool
\* and device interleave, CARD_PROGRAM is handled with the address, the length and
\* exactly the blocks that the tool sent for it.
THEOREM InSyncHolds == Spec => []InSync
<1>1. CleanRunInv => InSync
  <2>1. SUFFICES ASSUME CleanRunInv, clean, hpc \notin Stopped, pc = "op", req.op = "CARD_PROGRAM"
                 PROVE  /\ hpc \in {"w_op", "w_hs"}
                        /\ start_addr = addr /\ ops_length = len /\ Bulk_out_size = len
                        /\ \A n \in 0 .. len - 1 : Bulk_out_buf[n] = origin_data[n]
    BY DEF InSync
  <2>2. Tracked
    BY <2>1 DEF Tracked, Stopped
  <2>3. /\ (hpc = "w_op" /\ Taken) \/ hpc = "w_hs"
        /\ start_addr = addr /\ ops_length = len
    BY <2>1, <2>2, OwnHandled DEF CardOps
  <2>4. outFifo = NoPkt /\ Loaded = len
    BY <2>1, <2>2, <2>3 DEF CleanRunInv, CleanParts, OutInOrder, Loaded, Programmed, Taken
  <2>5. Bulk_out_size = len
    BY <2>1, <2>2, <2>4, CleanTypes DEF CleanRunInv, CleanParts, OutInOrder, OutWaiting
  <2> QED
    BY <2>1, <2>2, <2>3, <2>5 DEF CleanRunInv, CleanParts, OutInOrder
<1> QED
  BY <1>1, InitClean, NextClean, PTL DEF Spec

\* A run that found the device quiet and succeeds leaves it quiet, with and without
\* check=1: nothing of it is left for the next run.
THEOREM SuccessLeavesQuietHolds == Spec => []SuccessLeavesQuiet
<1>1. CleanRunInv => SuccessLeavesQuiet
  BY AtQuiet DEF SuccessLeavesQuiet, Tracked, Stopped
<1> QED
  BY <1>1, InitClean, NextClean, PTL DEF Spec

\* Without killed runs and bus resets no packet is stored past the end of
\* Bulk_out_buf, although EPOUT_Handler never tests for the end, and although the
\* card and the file may fail: no run leaves anything behind.
THEOREM NoOverrunHolds ==
  ASSUME Faults \cap CutFaults = {}
  PROVE  Spec => []NoOverrun
<1>1. CleanRunInv => NoOverrun
  BY DEF CleanRunInv, CleanParts, Uncut, NoOverrun
<1> QED
  BY <1>1, InitClean, NextClean, PTL DEF Spec

\* Only CardProgram changes the card.
LEMMA CardChange ==
  ASSUME CleanRunInv, [Next]_vars, card' # card
  PROVE  CardProgram /\ UNCHANGED hostVars
<1>1. UNCHANGED opsVars \/ UNCHANGED deviceVars \/ UNCHANGED vars => card' = card
  BY DEF vars, deviceVars, opsVars
<1>2. HostStep => UNCHANGED opsVars \/ UNCHANGED deviceVars
  BY DEF HostStep, ReadFile, ReadFileError, SendControl, ControlDone, SendPacket, ReadHandshake,
     HandshakeOverflow, ReadPacket, ReadShort, Compare, TakePacket
<1>3. ASSUME NEW j \in Jobs, sd_card_program(j) PROVE UNCHANGED deviceVars
  BY <1>3 DEF sd_card_program
<1>4. Abort \/ BusReset => UNCHANGED opsVars \/ UNCHANGED deviceVars
  BY DEF Abort, BusReset
<1>5. udc4740Proc => CardProgram \/ card' = card
  BY DEF udc4740Proc, ReadIntrUsb, ReadIntrIn, ReadIntrOut, EPIN_Handler, EPOUT_Handler, udc_reset,
     EP0_SetupEnd, EP0_Handler, SET_DATA_ADDERSS_Handle, SET_DATA_LENGTH_Handle, CardRead, opsVars
<1> QED
  BY <1>1, <1>2, <1>3, <1>4, <1>5 DEF Next, DeviceStep

\* Until a run that found the device quiet fails, only the blocks of the download
\* that waits for its handshake change on the card.
THEOREM OnlyAddressedBlocksHolds == Spec => OnlyAddressedBlocks
<1>1. CleanRunInv /\ [Next]_vars =>
        [clean /\ hpc # "failed" =>
           \A b \in CardIndex : card'[b] # card[b] =>
             /\ hpc \in {"w_op", "w_hs"}
             /\ addr <= b /\ b < addr + len]_vars
  <2>1. SUFFICES ASSUME CleanRunInv, [Next]_vars, clean, hpc # "failed",
                        NEW b \in CardIndex, card'[b] # card[b]
                 PROVE  hpc \in {"w_op", "w_hs"} /\ addr <= b /\ b < addr + len
    OBVIOUS
  <2>2. CardProgram /\ Tracked
    BY <2>1, CardChange DEF Tracked
  <2>3. /\ (hpc = "w_op" /\ Taken) \/ hpc = "w_hs"
        /\ start_addr = addr /\ ops_length = len
    BY <2>1, <2>2, OwnHandled DEF CardProgram, OpReturns, CardOps
  <2>4. PICK n \in Transferred("write") :
          card' = [c \in CardIndex |->
                     IF start_addr <= c /\ c < start_addr + n
                     THEN Bulk_out_buf[c - start_addr] ELSE card[c]]
    BY <2>2 DEF CardProgram, mmc_block_writem
  <2>5. start_addr <= b /\ b < start_addr + n
    BY <2>1, <2>4
  <2>6. n \in 0 .. len
    BY <2>3, <2>4 DEF Transferred
  <2>7. addr \in Nat /\ b \in Nat
    BY <2>1, CleanTypes, JobFacts DEF CardIndex
  <2>8. addr <= b /\ b < addr + n
    BY <2>3, <2>5
  <2>9. addr + n <= addr + len
    BY <2>1, <2>6, <2>7, CleanTypes
  <2>10. b < addr + len
    BY <2>1, <2>6, <2>7, <2>8, <2>9, CleanTypes
  <2> QED
    BY <2>3, <2>8, <2>10
<1> QED
  BY <1>1, InitClean, NextClean, PTL DEF Spec, OnlyAddressedBlocks

-----------------------------------------------------------------------------
(***************************************************************************)
(* The refinement: without faults tool and device are the download of      *)
(* module SdDownload.                                                      *)
(***************************************************************************)

\* The images fit on the card, and nothing fails.
NothingFails ==
  /\ Faults = {}
  /\ \A j \in Jobs : BlockAddr(j.addr) + BlockNums(j.size) <= CardBlocks

\* The tool sends the file's blocks, and CARD_PROGRAM puts them where they belong.
FaithfulRun ==
  /\ hpc \notin Stopped \cup {"file"} =>
       \A n \in 0 .. len - 1 : origin_data[n] = job.data[ChunkStart(i) + n]
  /\ hpc \notin Stopped /\ Programmed =>
       \A n \in 0 .. len - 1 : card[addr + n] = origin_data[n]
  /\ hpc \in {"r_addr", "r_len", "r_op", "r_data", "cmp"} => job.check

DownloadInv == CheckInv /\ CleanRunInv /\ FaithfulRun

\* Every run is tracked then, and no bad packet reaches the tool.
LEMMA AlwaysTracked ==
  ASSUME NothingFails, DownloadInv
  PROVE  /\ Tracked /\ TypeInv /\ TypeOK
         /\ ~HandshakeOverflow /\ ~ReadShort /\ ~ReadFileError /\ ~Abort /\ ~BusReset
         /\ HonestReads
<1>1. Faults \cap CutFaults = {} /\ "io" \notin Faults /\ "abort" \notin Faults /\ "reset" \notin Faults
      /\ "read" \notin Faults
  BY DEF NothingFails, CutFaults
<1>2. Tracked /\ TypeInv /\ TypeOK
  BY <1>1 DEF DownloadInv, CleanRunInv, CleanParts, Uncut, Tracked, TypeInv
<1>3. ~HandshakeOverflow /\ ~ReadShort
  BY <1>2, NoBadPacket DEF DownloadInv
<1> QED
  BY <1>1, <1>2, <1>3 DEF ReadFileError, Abort, BusReset, HonestReads, NothingFails

\* A device step that does not program the card leaves the download where it is.
LEMMA DeviceKeepsProgrammed ==
  ASSUME CleanRunInv, Tracked, UNCHANGED hostVars, udc4740Proc, ~CardProgram
  PROVE  Programmed' = Programmed /\ card' = card
<1>1. ASSUME NEW S, S \in {"VR_SET_DATA_ADDERSS", "VR_SET_DATA_LENGTH", "CARD_READ"}, OpReturns(S)
      PROVE  Programmed' = Programmed
  <2>1. pc = "op" /\ req.op = S /\ Taken' = Taken /\ pc' = "serve" /\ hpc' = hpc
    BY <1>1, ReturnFacts, HostSame
  <2>2. ~(hpc = "w_op" /\ Taken) /\ hpc # "w_hs"
    BY <1>1, <2>1, OwnHandled
  <2> QED
    BY <2>1, <2>2 DEF Programmed, Taken
<1>2. CASE SET_DATA_ADDERSS_Handle \/ SET_DATA_LENGTH_Handle \/ CardRead
  BY <1>1, <1>2 DEF SET_DATA_ADDERSS_Handle, SET_DATA_LENGTH_Handle, CardRead, opsVars
<1>3. CASE EP0_Handler
  <2>1. CASE setup = NoReq
    BY <1>3, <2>1, PhaseSame DEF EP0_Handler, opsVars
  <2>2. CASE setup # NoReq
    <3>1. hpc \in ControlPc
      BY <2>2, CleanTypes DEF CleanRunInv, CleanParts, OwnRequests
    <3> QED
      BY <1>3, <2>2, <3>1, HostSame DEF EP0_Handler, Endpoint0Turn, Programmed, ControlPc, opsVars
  <2> QED
    BY <2>1, <2>2
<1>4. CASE \/ ReadIntrUsb \/ ReadIntrIn \/ ReadIntrOut \/ EPIN_Handler \/ EPOUT_Handler
           \/ udc_reset \/ EP0_SetupEnd
  <2>1. setup' = setup /\ card' = card /\ ((pc' = "op") <=> (pc = "op"))
    BY <1>4 DEF ReadIntrUsb, ReadIntrIn, ReadIntrOut, EPIN_Handler, EPOUT_Handler, udc_reset,
       EP0_SetupEnd, Endpoint0Turn, opsVars
  <2> QED
    BY <2>1, PhaseSame
<1> QED
  BY <1>2, <1>3, <1>4 DEF udc4740Proc

\* CARD_PROGRAM writes the whole download.
LEMMA ProgramsDownload ==
  ASSUME NothingFails, DownloadInv, UNCHANGED hostVars, CardProgram
  PROVE  /\ hpc \in {"w_op", "w_hs"} /\ ~Programmed /\ Programmed'
         /\ ChunkStart(i) + len <= nb /\ nb # 0
         /\ card' = [b \in CardIndex |->
                       IF addr <= b /\ b < addr + len THEN job.data[b - BlockAddr(job.addr)] ELSE card[b]]
         /\ \A n \in 0 .. len - 1 : card'[addr + n] = origin_data[n]
<1>1. Tracked /\ TypeOK /\ TypeInv /\ pc = "op" /\ pc' = "serve" /\ req.op = "CARD_PROGRAM" /\ CleanRunInv
      /\ setup' = setup
  BY AlwaysTracked DEF CardProgram, OpReturns, DownloadInv
<1>2. /\ (hpc = "w_op" /\ Taken) \/ hpc = "w_hs"
      /\ start_addr = addr /\ ops_length = len
  BY <1>1, OwnHandled DEF CardOps
<1>3. ~Programmed /\ Programmed'
  BY <1>1, <1>2, HostSame DEF Programmed, Taken
<1>4. nb # 0 /\ i < DownloadTimes(nb) /\ ChunkStart(i) + len <= nb
  BY <1>1, <1>2, RunningHasBlocks, DownloadInFile DEF Stopped
<1>5. /\ Bulk_out_size = len
      /\ \A n \in 0 .. len - 1 : Bulk_out_buf[n] = origin_data[n]
  <2>1. outFifo = NoPkt /\ Loaded = len
    BY <1>1, <1>2, <1>3 DEF CleanRunInv, CleanParts, OutInOrder, Loaded
  <2>2. Bulk_out_size = len
    BY <1>1, <2>1, CleanTypes DEF CleanRunInv, CleanParts, OutInOrder, OutWaiting
  <2> QED
    BY <1>1, <2>2 DEF CleanRunInv, CleanParts, OutInOrder
<1>6. /\ addr + len <= CardBlocks /\ addr \in Nat /\ len \in Nat /\ CardBlocks \in Nat
      /\ addr = BlockAddr(job.addr) + ChunkStart(i) /\ ChunkStart(i) \in Nat /\ BlockAddr(job.addr) \in Nat
  <2>1. BlockAddr(job.addr) + nb <= CardBlocks
    BY <1>1 DEF NothingFails, TypeOK, HostTypeOK, nb
  <2>2. /\ addr = BlockAddr(job.addr) + ChunkStart(i) /\ addr \in Nat /\ len \in Nat /\ nb \in Nat
        /\ ChunkStart(i) \in Nat /\ BlockAddr(job.addr) \in Nat
    BY <1>1, JobFacts
  <2> QED
    BY <1>4, <2>1, <2>2, DeviceAssumptions
<1>7. card' = [b \in CardIndex |->
                 IF addr <= b /\ b < addr + len THEN Bulk_out_buf[b - addr] ELSE card[b]]
  <2>1. PICK n \in Transferred("write") :
          card' = [b \in CardIndex |->
                     IF start_addr <= b /\ b < start_addr + n
                     THEN Bulk_out_buf[b - start_addr] ELSE card[b]]
    BY DEF CardProgram, mmc_block_writem
  <2>2. n \in 0 .. len /\ ~(n < len)
    BY <1>2, <1>6, <2>1 DEF Transferred, NothingFails
  <2>3. n = len
    BY <1>6, <2>2
  <2> QED
    BY <1>2, <2>1, <2>3
<1>8. ASSUME NEW b \in CardIndex, addr <= b, b < addr + len
      PROVE  /\ b - addr \in 0 .. len - 1
             /\ Bulk_out_buf[b - addr] = job.data[b - BlockAddr(job.addr)]
  <2>1. b - addr \in 0 .. len - 1 /\ ChunkStart(i) + (b - addr) = b - BlockAddr(job.addr)
    BY <1>6, <1>8 DEF CardIndex
  <2>2. origin_data[b - addr] = job.data[ChunkStart(i) + (b - addr)]
    BY <1>2, <2>1 DEF DownloadInv, FaithfulRun, Stopped
  <2> QED
    BY <1>5, <2>1, <2>2
<1>9. card' = [b \in CardIndex |->
                 IF addr <= b /\ b < addr + len THEN job.data[b - BlockAddr(job.addr)] ELSE card[b]]
  BY <1>7, <1>8
<1>10. ASSUME NEW n \in 0 .. len - 1 PROVE card'[addr + n] = origin_data[n]
  <2>1. addr + n \in CardIndex /\ addr <= addr + n /\ addr + n < addr + len /\ (addr + n) - addr = n
    BY <1>6 DEF CardIndex
  <2> QED
    BY <1>5, <1>7, <2>1
<1> QED
  BY <1>2, <1>3, <1>4, <1>9, <1>10

\* How far the download is, as the refinement maps it.
WrittenBlocks == IF nb = 0 THEN 0 ELSE ChunkStart(i) + (IF Programmed THEN len ELSE 0)

DownloadState == IF hpc \in Stopped THEN hpc ELSE "running"

\* A step that leaves the card, the job, the download and its state alone.
LEMMA DownloadStutters ==
  ASSUME card' = card, job' = job, WrittenBlocks' = WrittenBlocks,
         DownloadState' = DownloadState
  PROVE  UNCHANGED Download!downloadVars
<1>1. AsFile(job)' = AsFile(job)
  BY DEF AsFile
<1> QED
  BY <1>1 DEF Download!downloadVars, WrittenBlocks, DownloadState

\* A step within a download that does not program the card.
LEMMA WithinDownload ==
  ASSUME FaithfulRun, card' = card, job' = job, i' = i, origin_data' = origin_data,
         hpc \notin Stopped, hpc' \notin Stopped \cup {"file"}, hpc # "file",
         Programmed' = Programmed,
         hpc' \in {"r_addr", "r_len", "r_op", "r_data", "cmp"} =>
           hpc \in {"r_addr", "r_len", "r_op", "r_data", "cmp"} \/ job.check
  PROVE  FaithfulRun' /\ UNCHANGED Download!downloadVars
<1>1. len' = len /\ nb' = nb /\ addr' = addr
  BY SameDownload
<1>2. FaithfulRun'
  BY <1>1 DEF FaithfulRun
<1>3. WrittenBlocks' = WrittenBlocks /\ DownloadState' = DownloadState
  BY <1>1 DEF WrittenBlocks, DownloadState
<1> QED
  BY <1>2, <1>3, DownloadStutters

\* The end of a download: the next one begins where it ends, or the file is done.
LEMMA NextDownloadStep ==
  ASSUME TypeInv, hpc \notin Stopped, Programmed, NextDownload, card' = card, job' = job
  PROVE  FaithfulRun' /\ [Download!DownloadNext]_(Download!downloadVars)
<1>1. /\ nb \in Nat /\ nb # 0 /\ nb' = nb /\ i \in Nat /\ i < DownloadTimes(nb) /\ TypeOK
      /\ AsFile(job)' = AsFile(job) /\ AsFile(job).count = nb
  BY RunningHasBlocks, JobFacts DEF TypeInv, TypeOK, HostTypeOK, nb, AsFile
<1>2. WrittenBlocks = ChunkStart(i) + len /\ DownloadState = "running"
  BY <1>1 DEF WrittenBlocks, DownloadState
<1>3. CASE i + 1 = DownloadTimes(nb)
  <2>1. hpc' = "success" /\ i' = i /\ len' = len
    BY <1>3, SameDownload DEF NextDownload
  <2>2. Programmed' /\ WrittenBlocks' = WrittenBlocks /\ DownloadState' = "success"
    BY <1>1, <1>2, <2>1 DEF Programmed, WrittenBlocks, DownloadState, Stopped
  <2>3. WrittenBlocks = nb
    BY <1>1, <1>2, <1>3, LastChunkEnd DEF len
  <2>4. Download!Succeed
    BY <1>1, <1>2, <2>2, <2>3 DEF Download!Succeed, WrittenBlocks, DownloadState
  <2>5. FaithfulRun'
    BY <2>1 DEF FaithfulRun, Stopped
  <2> QED
    BY <2>4, <2>5 DEF Download!DownloadNext
<1>4. CASE i + 1 # DownloadTimes(nb)
  <2>1. hpc' = "file" /\ i' = i + 1
    BY <1>4 DEF NextDownload
  <2>2. ~Programmed' /\ DownloadState' = "running" /\ FaithfulRun'
    BY <2>1 DEF Programmed, DownloadState, FaithfulRun, Stopped
  <2>3. len = SD_MAX_BLOCK_NUM /\ ChunkStart(i + 1) = ChunkStart(i) + SD_MAX_BLOCK_NUM
    BY <1>1, <1>4, ChunkInFile, ChunkStartStep DEF len
  <2>4. WrittenBlocks' = ChunkStart(i') + 0
    BY <1>1, <2>2 DEF WrittenBlocks
  <2>5. ChunkStart(i + 1) \in Nat
    <3>1. i + 1 \in Nat
      BY <1>1
    <3> QED
      BY <1>1, <3>1, ChunkLenBounds
  <2>6. WrittenBlocks' = WrittenBlocks
    BY <1>2, <2>1, <2>3, <2>4, <2>5
  <2> QED
    BY <1>2, <2>2, <2>6, DownloadStutters
<1> QED
  BY <1>3, <1>4

\* Asking for more than the file has left ends the run, before the last block.
LEMMA ReadFileRefines ==
  ASSUME NothingFails, DownloadInv, ReadFile
  PROVE  FaithfulRun' /\ [Download!DownloadNext]_(Download!downloadVars)
<1>1. /\ TypeOK /\ TypeInv /\ hpc = "file" /\ job' = job /\ i' = i /\ card' = card
      /\ hpc' \in {"failed", "w_addr"}
  BY AlwaysTracked DEF ReadFile, deviceVars, opsVars
<1>2. /\ nb \in Nat /\ nb # 0 /\ nb' = nb /\ len' = len /\ len \in Nat /\ len >= 1
      /\ ChunkStart(i) \in Nat /\ ChunkStart(i) + len <= nb
      /\ AsFile(job)' = AsFile(job) /\ AsFile(job).count = nb
  BY <1>1, RunningHasBlocks, JobFacts, DownloadInFile, SameDownload DEF nb, AsFile, Stopped
<1>3. /\ WrittenBlocks = ChunkStart(i) /\ WrittenBlocks' = ChunkStart(i)
      /\ DownloadState = "running"
  BY <1>1, <1>2 DEF WrittenBlocks, DownloadState, Programmed, Stopped
<1>4. CASE hpc' = "failed"
  <2>1. DownloadState' = "failed" /\ FaithfulRun'
    BY <1>4 DEF DownloadState, FaithfulRun, Stopped
  <2>2. WrittenBlocks < nb
    BY <1>2, <1>3
  <2>3. Download!GiveUp
    BY <1>1, <1>2, <1>3, <2>1, <2>2 DEF Download!GiveUp, WrittenBlocks, DownloadState
  <2> QED
    BY <2>1, <2>3 DEF Download!DownloadNext
<1>5. CASE hpc' = "w_addr"
  <2>1. origin_data' = [n \in ChunkIndex |->
          IF n < len THEN job.data[ChunkStart(i) + n] ELSE origin_data[n]]
    BY <1>5 DEF ReadFile
  <2>2. \A n \in 0 .. len - 1 : n \in ChunkIndex /\ n < len
    BY <1>1, <1>2, JobFacts, SdSizes DEF ChunkIndex
  <2>3. ~Programmed'
    BY <1>5 DEF Programmed
  <2>4. FaithfulRun'
    BY <1>1, <1>2, <1>5, <2>1, <2>2, <2>3 DEF FaithfulRun
  <2>5. DownloadState' = DownloadState
    BY <1>1, <1>5 DEF DownloadState, Stopped
  <2> QED
    BY <1>1, <1>3, <2>4, <2>5, DownloadStutters
<1> QED
  BY <1>1, <1>4, <1>5

\* What comes back from the card is what was sent.
LEMMA CompareRefines ==
  ASSUME NothingFails, DownloadInv, Compare
  PROVE  FaithfulRun' /\ [Download!DownloadNext]_(Download!downloadVars)
<1>1. TypeInv /\ hpc = "cmp" /\ job' = job /\ card' = card /\ hpc \notin Stopped /\ Programmed
  BY AlwaysTracked DEF Compare, deviceVars, opsVars, Stopped, Programmed
<1>2. Checking
  BY <1>1 DEF DownloadInv, FaithfulRun, Checking
<1>3. SameData
  BY <1>1, <1>2 DEF DownloadInv, CheckInv, Compared, FaithfulRun, SameData
<1>4. NextDownload
  BY <1>3 DEF Compare
<1> QED
  BY <1>1, <1>4, NextDownloadStep

\* Reading the answer is a step of the download promised, or none.
LEMMA ReadHandshakeRefines ==
  ASSUME NothingFails, DownloadInv, ReadHandshake
  PROVE  FaithfulRun' /\ [Download!DownloadNext]_(Download!downloadVars)
<1>1. /\ TypeInv /\ hpc = "w_hs" /\ job' = job /\ card' = card /\ origin_data' = origin_data
      /\ hpc \notin Stopped /\ hpc # "file" /\ inFifo # NoPkt
  BY AlwaysTracked DEF ReadHandshake, TakePacket, opsVars, Stopped
<1>2. Programmed
  BY <1>1, AlwaysTracked, HandshakeFacts DEF DownloadInv, Programmed
<1>3. CASE job.check
  <2>1. hpc' = "r_addr" /\ i' = i
    BY <1>3 DEF ReadHandshake
  <2>2. Programmed'
    BY <2>1 DEF Programmed
  <2> QED
    BY <1>1, <1>2, <1>3, <2>1, <2>2, WithinDownload DEF DownloadInv, Stopped
<1>4. CASE ~job.check
  BY <1>1, <1>2, <1>4, NextDownloadStep DEF ReadHandshake
<1> QED
  BY <1>3, <1>4

\* The remaining steps of the tool are within a download.
LEMMA HostStepRefines ==
  ASSUME NothingFails, DownloadInv, SendControl \/ ControlDone \/ SendPacket \/ ReadPacket
  PROVE  FaithfulRun' /\ [Download!DownloadNext]_(Download!downloadVars)
<1>0. FaithfulRun /\ CleanRunInv
  BY DEF DownloadInv
<1>1. CASE SendControl
  <2>1. /\ hpc \in ControlPc /\ hpc' = hpc /\ ~ctl /\ setup' # NoReq
        /\ UNCHANGED <<job, i, origin_data, card, pc>>
    BY <1>0, <1>1, CleanTypes, ControlRequestType DEF SendControl, opsVars, loopVars
  <2>2. Programmed' = Programmed
    BY <2>1 DEF Programmed
  <2> QED
    BY <1>0, <2>1, <2>2, WithinDownload DEF ControlPc, Stopped
<1>2. CASE ControlDone
  <2>1. /\ hpc \in ControlPc /\ hpc' = AfterControl /\ ctl /\ setup = NoReq
        /\ UNCHANGED <<job, i, origin_data, card, pc>>
    BY <1>0, <1>2, CleanTypes DEF ControlDone, opsVars, loopVars, deviceVars
  <2>2. /\ Programmed' = Programmed /\ hpc' \notin Stopped \cup {"file"}
        /\ hpc' \in {"r_addr", "r_len", "r_op", "r_data", "cmp"} =>
              hpc \in {"r_addr", "r_len", "r_op", "r_data", "cmp"}
    BY <2>1 DEF Programmed, AfterControl, ControlPc, Stopped
  <2> QED
    BY <1>0, <2>1, <2>2, WithinDownload DEF ControlPc, Stopped
<1>3. CASE SendPacket
  <2>1. /\ hpc = "w_data" /\ hpc' \in {"w_data", "w_op"} /\ ctl' = ctl
        /\ UNCHANGED <<job, i, origin_data, card>>
    BY <1>3 DEF SendPacket, opsVars
  <2>2. Programmed' = Programmed
    BY <1>0, <2>1, CleanTypes DEF Programmed, ControlPc
  <2> QED
    BY <1>0, <2>1, <2>2, WithinDownload DEF Stopped
<1>4. CASE ReadPacket
  <2>1. /\ hpc = "r_data" /\ hpc' \in {"r_data", "cmp"}
        /\ UNCHANGED <<job, i, origin_data, card>>
    BY <1>4 DEF ReadPacket, TakePacket, opsVars
  <2>2. Programmed /\ Programmed'
    BY <2>1 DEF Programmed
  <2> QED
    BY <1>0, <2>1, <2>2, WithinDownload DEF Stopped
<1> QED
  BY <1>1, <1>2, <1>3, <1>4

\* Writing a block to the card is a step of the download promised.
LEMMA ProgramRefines ==
  ASSUME NothingFails, DownloadInv, UNCHANGED hostVars, CardProgram
  PROVE  FaithfulRun' /\ [Download!DownloadNext]_(Download!downloadVars)
<1>1. /\ hpc \in {"w_op", "w_hs"} /\ ~Programmed /\ Programmed'
      /\ ChunkStart(i) + len <= nb /\ nb # 0
      /\ card' = [b \in CardIndex |->
                    IF addr <= b /\ b < addr + len THEN job.data[b - BlockAddr(job.addr)] ELSE card[b]]
      /\ \A n \in 0 .. len - 1 : card'[addr + n] = origin_data[n]
  BY ProgramsDownload
<1>2. /\ TypeOK /\ nb \in Nat /\ len \in 1 .. SD_MAX_BLOCK_NUM /\ len \in Nat /\ len >= 1
      /\ ChunkStart(i) \in Nat /\ addr = BlockAddr(job.addr) + ChunkStart(i)
      /\ BlockAddr(job.addr) \in Nat
  BY AlwaysTracked, JobFacts
<1>3. /\ hpc' = hpc /\ job' = job /\ nb' = nb /\ len' = len /\ addr' = addr /\ i' = i
      /\ origin_data' = origin_data /\ hpc \notin Stopped /\ hpc # "file"
  BY <1>1, HostSame DEF Stopped
<1>4. FaithfulRun'
  BY <1>1, <1>3 DEF DownloadInv, FaithfulRun
<1>5. /\ WrittenBlocks = ChunkStart(i) /\ WrittenBlocks' = WrittenBlocks + len
      /\ DownloadState = "running" /\ DownloadState' = "running"
  BY <1>1, <1>2, <1>3 DEF WrittenBlocks, DownloadState
<1>6. AsFile(job)' = AsFile(job) /\ AsFile(job).count = nb /\ AsFile(job).at = BlockAddr(job.addr)
      /\ AsFile(job).blocks = job.data
  BY <1>3 DEF AsFile, nb
<1>7. card' = [b \in CardIndex |->
                 IF AsFile(job).at + WrittenBlocks <= b /\ b < AsFile(job).at + WrittenBlocks + len
                 THEN AsFile(job).blocks[b - AsFile(job).at] ELSE card[b]]
  <2>1. AsFile(job).at + WrittenBlocks = addr
    BY <1>2, <1>5, <1>6
  <2> QED
    BY <1>1, <1>6, <2>1
<1>8. WrittenBlocks + len <= nb /\ len \in 1 .. nb - WrittenBlocks
  BY <1>1, <1>2, <1>5
<1>9. Download!Write(len)
  <2>1. WrittenBlocks + len <= AsFile(job).count
    BY <1>6, <1>8
  <2> QED
    BY <1>5, <1>6, <1>7, <2>1 DEF Download!Write, WrittenBlocks, DownloadState
<1>10. len \in 1 .. AsFile(job).count - WrittenBlocks
  BY <1>6, <1>8
<1>11. Download!DownloadNext
  BY <1>9, <1>10 DEF Download!DownloadNext, WrittenBlocks
<1> QED
  BY <1>4, <1>11

\* The first request of a run begins the download promised.
LEMMA BeginRefines ==
  ASSUME NothingFails, DownloadInv, NEW j \in Jobs, sd_card_program(j)
  PROVE  FaithfulRun' /\ [Download!DownloadNext]_(Download!downloadVars)
<1>1. /\ hpc \in Stopped /\ job' = j /\ i' = 0 /\ card' = card
      /\ hpc' = IF DownloadTimes(BlockNums(j.size)) = 0 THEN "success" ELSE "file"
  BY DEF sd_card_program, NothingFails, deviceVars, opsVars
<1>2. BlockNums(j.size) \in Nat /\ nb' = BlockNums(j.size) /\ AsFile(job)' = AsFile(j)
      /\ AsFile(j).count = BlockNums(j.size)
  BY <1>1, HostAssumptions, BlockNumsNat DEF nb, AsFile
<1>3. DownloadTimes(BlockNums(j.size)) = 0 <=> BlockNums(j.size) = 0
  BY <1>2, NoDownloads
<1>4. FaithfulRun'
  BY <1>1 DEF FaithfulRun, Stopped, Programmed
<1>5. WrittenBlocks' = 0
  <2>1. nb' # 0 => hpc' = "file"
    BY <1>1, <1>2, <1>3
  <2>2. nb' # 0 => ~Programmed'
    BY <2>1 DEF Programmed
  <2>3. ChunkStart(i') = 0
    BY <1>1, SdSizes DEF ChunkStart
  <2> QED
    BY <2>2, <2>3 DEF WrittenBlocks
<1>6. DownloadState \in {"idle", "success", "failed"}
  BY <1>1 DEF DownloadState, Stopped
<1>7. DownloadState' = IF AsFile(j).count = 0 THEN "success" ELSE "running"
  BY <1>1, <1>2, <1>3 DEF DownloadState, Stopped
<1>8. Download!Begin(AsFile(j))
  BY <1>1, <1>2, <1>5, <1>6, <1>7 DEF Download!Begin, WrittenBlocks, DownloadState
<1>9. Download!DownloadNext
  BY <1>8 DEF Download!DownloadNext
<1> QED
  BY <1>4, <1>9

\* Every step of tool and device is a step of the download, or none.
LEMMA NextRefines ==
  ASSUME NothingFails, DownloadInv, [Next]_vars
  PROVE  FaithfulRun' /\ [Download!DownloadNext]_(Download!downloadVars)
<1>0. Tracked /\ CleanRunInv
  BY AlwaysTracked DEF DownloadInv
<1>1. ASSUME UNCHANGED hostVars, Programmed' = Programmed, card' = card
      PROVE  FaithfulRun' /\ UNCHANGED Download!downloadVars
  <2>1. /\ hpc' = hpc /\ job' = job /\ i' = i /\ origin_data' = origin_data
        /\ len' = len /\ nb' = nb /\ addr' = addr
    BY <1>1, HostSame
  <2>2. FaithfulRun'
    BY <1>1, <2>1 DEF DownloadInv, FaithfulRun
  <2>3. WrittenBlocks' = WrittenBlocks /\ DownloadState' = DownloadState
    BY <1>1, <2>1 DEF WrittenBlocks, DownloadState
  <2> QED
    BY <1>1, <2>1, <2>2, <2>3, DownloadStutters
<1>2. CASE DeviceStep
  <2>1. UNCHANGED hostVars /\ udc4740Proc
    BY <1>2 DEF DeviceStep
  <2>2. CASE CardProgram
    BY <2>1, <2>2, ProgramRefines
  <2>3. CASE ~CardProgram
    BY <1>0, <1>1, <2>1, <2>3, DeviceKeepsProgrammed
  <2> QED
    BY <2>2, <2>3
<1>3. CASE HostStep
  BY <1>3, AlwaysTracked, ReadFileRefines, CompareRefines, ReadHandshakeRefines, HostStepRefines
     DEF HostStep
<1>4. ASSUME NEW j \in Jobs, sd_card_program(j)
      PROVE  FaithfulRun' /\ [Download!DownloadNext]_(Download!downloadVars)
  BY <1>4, BeginRefines
<1>5. CASE UNCHANGED vars
  <2>1. UNCHANGED hostVars /\ setup' = setup /\ pc' = pc /\ card' = card
    BY <1>5 DEF vars, deviceVars, usbVars, loopVars, opsVars
  <2>2. Programmed' = Programmed
    BY <2>1, PhaseSame
  <2> QED
    BY <1>1, <2>1, <2>2
<1> QED
  BY <1>2, <1>3, <1>4, <1>5, AlwaysTracked DEF Next

\* Without faults, and with images that fit the card, the tool and the device are
\* the download of SdDownload: blocks reach the card in file order, nothing else on
\* it changes, and success comes only when the last block has been written.
THEOREM ImplementsDownloadHolds ==
  ASSUME NothingFails
  PROVE  Spec => ImplementsDownload
<1>1. HonestReads
  BY DEF NothingFails, HonestReads
<1>2. Init => DownloadInv
  <2>1. SUFFICES ASSUME Init PROVE DownloadInv
    OBVIOUS
  <2>2. hpc = "idle"
    BY <2>1 DEF Init, HostInit
  <2>3. FaithfulRun
    BY <2>2 DEF FaithfulRun, Stopped
  <2> QED
    BY <2>1, <2>3, InitCheck, InitClean DEF DownloadInv
<1>3. DownloadInv /\ [Next]_vars => DownloadInv'
  BY <1>1, NextCheck, NextClean, NextRefines DEF DownloadInv
<1>4. DownloadInv /\ [Next]_vars => [Download!DownloadNext]_(Download!downloadVars)
  BY NextRefines
<1>5. Init => Download!DownloadInit
  <2>1. SUFFICES ASSUME Init PROVE Download!DownloadInit
    OBVIOUS
  <2>2. hpc = "idle" /\ i = 0 /\ job \in Jobs /\ card \in [CardIndex -> Block]
    BY <2>1, InitType DEF Init, HostInit, TypeInv, TypeOK, DeviceTypeOK
  <2>3. WrittenBlocks = 0
    <3>1. ChunkStart(0) = 0 /\ ~Programmed
      BY <2>2, SdSizes DEF ChunkStart, Programmed
    <3> QED
      BY <2>2, <3>1 DEF WrittenBlocks
  <2>4. DownloadState = "idle"
    BY <2>2 DEF DownloadState, Stopped
  <2> QED
    BY <2>2, <2>3, <2>4 DEF Download!DownloadInit, WrittenBlocks, DownloadState
<1> QED
  BY <1>2, <1>3, <1>4, <1>5, PTL DEF Spec, ImplementsDownload, Download!DownloadSpec
=============================================================================
