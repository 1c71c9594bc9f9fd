------------------------- MODULE Stage2CheckProofs -------------------------
(***************************************************************************)
(* A run of sdif= with check=1 that reports success has its image on the   *)
(* card: the proof that CheckInv of module Stage2Sd is inductive.          *)
(***************************************************************************)
EXTENDS Stage2SdProofs

\* The four requests are told apart by their op.
LEMMA RequestFacts ==
  ASSUME TypeOK
  PROVE  /\ {AddrReq, LenReq, ProgramReq, ReadReq} \subseteq Request
         /\ NoReq \notin {AddrReq, LenReq, ProgramReq, ReadReq}
         /\ AddrReq.op = "VR_SET_DATA_ADDERSS" /\ AddrReq.arg = addr
         /\ LenReq.op = "VR_SET_DATA_LENGTH" /\ LenReq.arg = len
         /\ ProgramReq.op = "CARD_PROGRAM" /\ ReadReq.op = "CARD_READ"
<1>1. len \in Nat /\ addr \in Nat
  BY JobFacts
<1>2. {AddrReq, LenReq, ProgramReq, ReadReq} \subseteq Request
  BY <1>1 DEF AddrReq, LenReq, ProgramReq, ReadReq, Request, CardOps
<1>3. /\ AddrReq.op = "VR_SET_DATA_ADDERSS" /\ AddrReq.arg = addr
      /\ LenReq.op = "VR_SET_DATA_LENGTH" /\ LenReq.arg = len
      /\ ProgramReq.op = "CARD_PROGRAM" /\ ReadReq.op = "CARD_READ"
  BY DEF AddrReq, LenReq, ProgramReq, ReadReq
<1> QED
  BY <1>2, <1>3, NoReqAssumption

\* The control message by the tool's place, without its CASE.
LEMMA ControlRequestIs ==
  /\ hpc \in {"w_addr", "r_addr"} => ControlRequest = AddrReq
  /\ hpc \in {"w_len", "r_len"} => ControlRequest = LenReq
  /\ hpc = "w_op" => ControlRequest = ProgramReq
  /\ hpc = "r_op" => ControlRequest = ReadReq
BY DEF ControlRequest

\* The same for the request taken last.
LEMMA LastReqIs ==
  /\ Taken => LastReq = ControlRequest
  /\ ~Taken /\ hpc \in {"w_len", "r_len"} => LastReq = AddrReq
  /\ ~Taken /\ hpc \in {"w_data", "w_op", "r_op"} => LastReq = LenReq
  /\ ~Taken /\ hpc \in {"w_hs", "r_addr"} => LastReq = ProgramReq
  /\ ~Taken /\ hpc = "r_data" => LastReq = ReadReq
  /\ ~Taken /\ hpc \in {"idle", "failed", "success", "file", "w_addr", "cmp"} => LastReq = NoReq
BY DEF LastReq

\* The requests stay the same as long as the download does.
LEMMA SameRequests ==
  ASSUME job' = job, i' = i
  PROVE  /\ AddrReq' = AddrReq /\ LenReq' = LenReq
         /\ ProgramReq' = ProgramReq /\ ReadReq' = ReadReq
         /\ hpc' = hpc => ControlRequest' = ControlRequest
<1>1. nb' = nb /\ len' = len /\ addr' = addr
  BY SameDownload
<1> QED
  BY <1>1 DEF AddrReq, LenReq, ProgramReq, ReadReq, ControlRequest

\* A run under way downloads something.
LEMMA RunningHasBlocks ==
  ASSUME TypeInv, hpc \notin Stopped
  PROVE  nb # 0 /\ i < DownloadTimes(nb)
<1>1. TypeOK /\ i < DownloadTimes(nb)
  BY DEF TypeInv, SizesOK
<1>2. ChunkStart(i) + len <= nb
  BY <1>1, DownloadInFile
<1> QED
  BY <1>1, <1>2, JobFacts

\* Where the tool is while the device handles a request of its run, and with
\* which address and length.
LEMMA HandledRequest ==
  ASSUME CheckInv, Checking, ~Stale, nb # 0, pc = "op"
  PROVE  /\ setup # NoReq => ~Taken
         /\ req = LastReq /\ req # NoReq
         /\ req.op = "VR_SET_DATA_ADDERSS" => req = AddrReq
         /\ req.op = "VR_SET_DATA_LENGTH" => req = LenReq
         /\ req.op = "CARD_PROGRAM" =>
              /\ req = ProgramReq
              /\ hpc \in {"w_hs", "r_addr"} \/ (hpc = "w_op" /\ Taken)
              /\ hpc = "r_addr" => ~Taken
         /\ req.op = "CARD_READ" =>
              req = ReadReq /\ (hpc = "r_data" \/ (hpc = "r_op" /\ Taken))
         /\ req.op \in CardOps => start_addr = addr /\ ops_length = len
<1>1. TypeOK /\ SizesOK /\ hpc \in HostPc
  BY DEF CheckInv, TypeOK, HostTypeOK
<1>2. req = LastReq /\ req \in Request
  BY <1>1 DEF CheckInv, RequestsInOrder, SizesOK
<1>3. req # NoReq
  BY <1>2, NoReqAssumption
<1>4. ctl => hpc \in ControlPc
  BY <1>1 DEF SizesOK
<1>5. Taken => ctl /\ setup = NoReq
  BY DEF Taken
<1>6. /\ req.op = "VR_SET_DATA_ADDERSS" => req = AddrReq
      /\ req.op = "VR_SET_DATA_LENGTH" => req = LenReq
      /\ req.op = "CARD_PROGRAM" =>
           /\ req = ProgramReq
           /\ hpc \in {"w_hs", "r_addr"} \/ (hpc = "w_op" /\ Taken)
           /\ hpc = "r_addr" => ~Taken
      /\ req.op = "CARD_READ" =>
           req = ReadReq /\ (hpc = "r_data" \/ (hpc = "r_op" /\ Taken))
  BY <1>1, <1>2, <1>3, <1>4, <1>5, RequestFacts, ControlRequestIs, LastReqIs
     DEF HostPc, ControlPc, Stopped
<1>7. req.op \in CardOps => start_addr = addr /\ ops_length = len
  <2>1. SUFFICES ASSUME req.op \in CardOps
                 PROVE  start_addr = addr /\ ops_length = len
    OBVIOUS
  <2>2. req # AddrReq /\ req # LenReq /\ hpc \in {"w_hs", "r_addr", "w_op", "r_data", "r_op"}
    BY <1>1, <1>6, <2>1, RequestFacts DEF CardOps
  <2> QED
    BY <2>2 DEF CheckInv, ParametersSet
<1> QED
  BY <1>2, <1>3, <1>5, <1>6, <1>7

Parts ==
  /\ Undisturbed /\ RequestsInOrder /\ ParametersSet /\ InDrained /\ ReadInOrder
  /\ Compared /\ Verified

\* The abbreviations of CheckInv in a step that leaves the tool alone.
LEMMA HostSame ==
  ASSUME UNCHANGED hostVars
  PROVE  /\ hpc' = hpc /\ ctl' = ctl /\ job' = job /\ i' = i /\ k' = k
         /\ origin_data' = origin_data /\ readback_data' = readback_data
         /\ nb' = nb /\ len' = len /\ addr' = addr
         /\ AddrReq' = AddrReq /\ LenReq' = LenReq
         /\ ProgramReq' = ProgramReq /\ ReadReq' = ReadReq
         /\ ControlRequest' = ControlRequest
         /\ Checking' = Checking
         /\ setup' = setup => /\ Taken' = Taken /\ Stale' = Stale /\ LastReq' = LastReq
<1>1. /\ hpc' = hpc /\ ctl' = ctl /\ job' = job /\ i' = i /\ k' = k
      /\ origin_data' = origin_data /\ readback_data' = readback_data
  BY DEF hostVars
<1>2. /\ nb' = nb /\ len' = len /\ addr' = addr
      /\ AddrReq' = AddrReq /\ LenReq' = LenReq
      /\ ProgramReq' = ProgramReq /\ ReadReq' = ReadReq
      /\ ControlRequest' = ControlRequest
  BY <1>1, SameDownload, SameRequests
<1>3. Checking' = Checking
  BY <1>1 DEF Checking
<1>4. ASSUME setup' = setup
      PROVE  Taken' = Taken /\ Stale' = Stale /\ LastReq' = LastReq
  <2>1. Taken' = Taken
    BY <1>1, <1>4 DEF Taken
  <2>2. Stale' = Stale
    BY <1>1, <2>1 DEF Stale
  <2>3. LastReq' = LastReq
    BY <1>1, <1>2, <2>1 DEF LastReq
  <2> QED
    BY <2>1, <2>2, <2>3
<1> QED
  BY <1>1, <1>2, <1>3, <1>4

\* Reading the interrupt registers, storing a packet and acknowledging SETUPEND
\* touch nothing that the parts speak of.
LEMMA FrameStep ==
  ASSUME CheckInv, UNCHANGED hostVars,
         UNCHANGED <<setup, inFifo, req, inVars, opsVars>>,
         (pc' = "op") <=> (pc = "op"),
         hpc \notin Stopped => ~intrUsb' /\ ~gotUsb'
  PROVE  Parts'
<1>1. Undisturbed'
  BY HostSame DEF CheckInv, Undisturbed
<1>2. RequestsInOrder'
  BY HostSame DEF CheckInv, RequestsInOrder
<1>3. ParametersSet'
  BY HostSame DEF CheckInv, ParametersSet, opsVars
<1>4. InDrained'
  BY HostSame DEF CheckInv, InDrained, inVars
<1>5. ReadInOrder'
  BY HostSame DEF CheckInv, ReadInOrder, Waiting, inVars, opsVars
<1>6. Compared'
  BY HostSame DEF CheckInv, Compared, opsVars
<1>7. Verified'
  BY HostSame DEF CheckInv, Verified, opsVars
<1> QED
  BY <1>1, <1>2, <1>3, <1>4, <1>5, <1>6, <1>7 DEF Parts

\* A run that fails is not spoken of any more.
LEMMA FailStep ==
  ASSUME hpc' = "failed", ctl' = FALSE
  PROVE  Parts'
BY DEF Parts, Undisturbed, RequestsInOrder, ParametersSet, InDrained, ReadInOrder,
   Compared, Verified, Checking, Stopped

\* The device takes a SETUP packet.
LEMMA EP0_HandlerStep ==
  ASSUME CheckInv, UNCHANGED hostVars, EP0_Handler
  PROVE  Parts'
<1>0. /\ TypeOK /\ SizesOK /\ TypeInv /\ hpc \in HostPc /\ ctl \in BOOLEAN
      /\ ctl => hpc \in ControlPc
  BY DEF CheckInv, TypeOK, TypeInv, SizesOK, HostTypeOK
<1>1. CASE setup = NoReq
  <2>1. UNCHANGED <<setup, inFifo, req, inVars, opsVars>> /\ pc' = pc
        /\ UNCHANGED <<intrUsb, gotUsb>>
    BY <1>1 DEF EP0_Handler
  <2> QED
    BY <2>1, FrameStep DEF CheckInv, Undisturbed
<1>2. CASE setup # NoReq
  <2>1. /\ setup' = NoReq /\ req' = setup /\ pc' = "op" /\ pc = "serve"
        /\ UNCHANGED <<inFifo, intrUsb, gotUsb, inVars, opsVars>>
    BY <1>2 DEF EP0_Handler, Endpoint0Turn
  <2>2. ~Taken /\ (Taken' <=> ctl) /\ (ctl => setup = ControlRequest)
    BY <1>2, <2>1, HostSame DEF Taken, CheckInv, Undisturbed
  <2>3. Checking' /\ ~Stale' /\ nb' # 0 => ctl
    BY <1>0, <1>2, <2>1, <2>2, HostSame DEF Stale, CheckInv, RequestsInOrder
  <2>4. ctl => LastReq' = setup
    BY <2>1, <2>2, HostSame, LastReqIs, ControlRequestIs DEF LastReq
  <2>5. Undisturbed'
    BY <2>1, HostSame DEF CheckInv, Undisturbed
  <2>6. RequestsInOrder'
    BY <2>1, <2>3, <2>4 DEF RequestsInOrder
  <2>7. ParametersSet'
    BY <1>0, <2>1, <2>2, HostSame, ControlRequestIs DEF CheckInv, ParametersSet, opsVars
  <2>8. InDrained'
    <3>1. ASSUME Checking, hpc \in {"r_addr", "r_len", "r_op", "w_op", "w_hs", "r_data"}
          PROVE  ctl
      BY <1>0, <2>3, <3>1, HostSame, RunningHasBlocks DEF Stale, Stopped
    <3>2. ASSUME Checking, hpc \in {"r_addr", "r_len", "r_op"}
          PROVE  req' # ProgramReq /\ Bulk_in_finish = Bulk_in_size /\ inFifo \notin Block
      <4>1. req' \in {AddrReq, LenReq, ReadReq}
        BY <2>1, <2>2, <3>1, <3>2, ControlRequestIs
      <4>2. Bulk_in_finish = Bulk_in_size /\ inFifo \notin Block
        BY <2>1, <2>2, <3>2 DEF CheckInv, InDrained
      <4> QED
        BY <1>0, <4>1, <4>2, RequestFacts
    <3>3. ctl => hpc # "r_data"
      BY <1>0 DEF ControlPc
    <3> QED
      BY <1>0, <2>1, <2>2, <3>1, <3>2, <3>3, HostSame DEF InDrained, inVars, SizesOK
  <2>9. ReadInOrder'
    BY <2>1 DEF ReadInOrder
  <2>10. Compared'
    BY <2>1, HostSame DEF CheckInv, Compared, opsVars
  <2>11. Verified'
    BY <2>1, HostSame DEF CheckInv, Verified, opsVars
  <2> QED
    BY <2>5, <2>6, <2>7, <2>8, <2>9, <2>10, <2>11 DEF Parts
<1> QED
  BY <1>1, <1>2

\* Between runs only the card and an unfinished request matter.
LEMMA StoppedStep ==
  ASSUME CheckInv, UNCHANGED hostVars, hpc \in Stopped,
         setup' \in {setup, NoReq}, card' = card,
         pc' = "op" => pc = "op" /\ req' = req
  PROVE  Parts'
<1>0. ctl = FALSE
  BY DEF CheckInv, SizesOK, TypeOK, HostTypeOK, Stopped, ControlPc
<1>1. ~Taken /\ ~Taken' /\ ~Stale /\ ~Stale'
  BY <1>0, HostSame DEF Taken, Stale, Stopped
<1>2. LastReq' = LastReq
  BY <1>1, HostSame DEF LastReq
<1>3. Undisturbed'
  BY <1>0, HostSame DEF Undisturbed
<1>4. RequestsInOrder'
  BY <1>0, <1>1, <1>2, HostSame DEF CheckInv, RequestsInOrder
<1>5. ParametersSet' /\ InDrained' /\ ReadInOrder'
  BY <1>1, HostSame DEF Stopped, Checking, ParametersSet, InDrained, ReadInOrder
<1>6. Compared'
  BY HostSame DEF Stopped, Checking, Compared
<1>7. Verified'
  BY HostSame DEF CheckInv, Verified
<1> QED
  BY <1>3, <1>4, <1>5, <1>6, <1>7 DEF Parts

\* A reset by the host keeps the invariant.
LEMMA udc_resetStep ==
  ASSUME CheckInv, UNCHANGED hostVars, udc_reset
  PROVE  Parts'
<1>1. hpc \in Stopped
  BY DEF CheckInv, Undisturbed, udc_reset
<1> QED
  BY <1>1, StoppedStep DEF udc_reset, opsVars

\* The next block goes to the host.
LEMMA EPIN_HandlerStep ==
  ASSUME CheckInv, UNCHANGED hostVars, EPIN_Handler
  PROVE  Parts'
<1>0. /\ pc = "serve" /\ pc' = pc
      /\ UNCHANGED <<setup, intrUsb, gotUsb, req, Bulk_in_buf, Bulk_in_size, opsVars>>
  BY DEF EPIN_Handler
<1>1. CASE Bulk_in_finish = Bulk_in_size
  BY <1>0, <1>1, FrameStep DEF CheckInv, Undisturbed, EPIN_Handler, inVars
<1>2. CASE Bulk_in_finish # Bulk_in_size
  <2>1. Bulk_in_finish' = Bulk_in_finish + 1 /\ inFifo' \in FifoAfter(Bulk_in_buf[Bulk_in_finish])
    BY <1>2 DEF EPIN_Handler
  <2>2. Undisturbed' /\ RequestsInOrder'
    BY <1>0, HostSame DEF CheckInv, Undisturbed, RequestsInOrder
  <2>3. ParametersSet'
    BY <1>0, HostSame DEF CheckInv, ParametersSet, opsVars
  <2>4. InDrained'
    BY <1>0, <1>2, HostSame DEF CheckInv, InDrained
  <2>5. ReadInOrder'
    <3>1. SUFFICES ASSUME Checking', ((hpc = "r_op" /\ Taken) \/ hpc = "r_data")'
                   PROVE  /\ Bulk_in_size' = len'
                          /\ \A n \in 0 .. len' - 1 : Bulk_in_buf'[n] = card'[addr' + n]
                          /\ k' + Waiting' <= Bulk_in_finish'
                          /\ k' + Waiting' = Bulk_in_finish' =>
                               /\ \A n \in 0 .. k' - 1 : readback_data'[n] = Bulk_in_buf'[n]
                               /\ inFifo' \in Block => inFifo' = Bulk_in_buf'[k']
      BY DEF ReadInOrder
    <3>2. /\ Bulk_in_size = len
          /\ \A n \in 0 .. len - 1 : Bulk_in_buf[n] = card[addr + n]
          /\ k + Waiting <= Bulk_in_finish
          /\ k + Waiting = Bulk_in_finish =>
               /\ \A n \in 0 .. k - 1 : readback_data[n] = Bulk_in_buf[n]
               /\ inFifo \in Block => inFifo = Bulk_in_buf[k]
      BY <1>0, <3>1, HostSame DEF CheckInv, ReadInOrder
    <3>3. k \in Nat /\ Bulk_in_finish \in Nat
      BY DEF CheckInv, TypeOK, HostTypeOK, DeviceTypeOK
    <3>a. /\ Bulk_in_size' = len' /\ k' = k /\ readback_data' = readback_data
          /\ Bulk_in_buf' = Bulk_in_buf
          /\ \A n \in 0 .. len' - 1 : Bulk_in_buf'[n] = card'[addr' + n]
      BY <1>0, <3>2, HostSame DEF opsVars
    <3>4. CASE inFifo = NoPkt
      <4>1. Waiting = 0 /\ Waiting' \in {0, 1} /\ (Waiting' = 0 => inFifo' = NoPkt)
        BY <3>4 DEF Waiting
      <4>2. inFifo' = Bulk_in_buf[Bulk_in_finish]
        BY <2>1, <3>4 DEF FifoAfter
      <4>5. k <= Bulk_in_finish
        BY <3>2, <3>3, <4>1
      <4>3. k + Waiting' = Bulk_in_finish + 1 => k = Bulk_in_finish
        BY <3>3, <4>1, <4>5 DEF Waiting
      <4>4. k + Waiting' <= Bulk_in_finish + 1
        BY <3>3, <4>1, <4>5 DEF Waiting
      <4>6. k = Bulk_in_finish => \A n \in 0 .. k - 1 : readback_data[n] = Bulk_in_buf[n]
        BY <3>2, <3>3, <4>1
      <4> QED
        BY <2>1, <3>a, <4>2, <4>3, <4>4, <4>6
    <3>5. CASE inFifo # NoPkt
      <4>1. Waiting = 1 /\ Waiting' \in {0, 1}
        BY <3>5 DEF Waiting
      <4>5. k + 1 <= Bulk_in_finish
        BY <3>2, <3>3, <4>1
      <4>2. k + Waiting' <= Bulk_in_finish + 1 /\ k + Waiting' # Bulk_in_finish + 1
        BY <3>3, <4>1, <4>5 DEF Waiting
      <4> QED
        BY <2>1, <3>a, <4>2
    <3> QED
      BY <3>4, <3>5
  <2>6. Compared' /\ Verified'
    BY <1>0, HostSame DEF CheckInv, Compared, Verified, opsVars
  <2> QED
    BY <2>2, <2>3, <2>4, <2>5, <2>6 DEF Parts
<1> QED
  BY <1>1, <1>2

\* Handling an address or a length.
LEMMA SetDataStep ==
  ASSUME CheckInv, UNCHANGED hostVars, SET_DATA_ADDERSS_Handle \/ SET_DATA_LENGTH_Handle
  PROVE  Parts'
<1>0. /\ pc = "op" /\ pc' = "serve"
      /\ UNCHANGED <<setup, inFifo, intrUsb, gotUsb, inVars, card>>
  BY DEF SET_DATA_ADDERSS_Handle, SET_DATA_LENGTH_Handle, OpReturns
<1>1. TypeOK /\ TypeInv /\ req.op \notin CardOps
  BY DEF CheckInv, TypeInv, SET_DATA_ADDERSS_Handle, SET_DATA_LENGTH_Handle, OpReturns, CardOps
<1>2. Undisturbed' /\ RequestsInOrder'
  BY <1>0, HostSame DEF CheckInv, Undisturbed, RequestsInOrder
<1>3. ParametersSet'
  <2>1. CASE Checking /\ hpc \notin Stopped /\ ~Stale
    <3>1. CASE SET_DATA_ADDERSS_Handle
      <4>1. req = AddrReq /\ start_addr' = addr /\ ops_length' = ops_length /\ req # LenReq
        BY <1>0, <1>1, <2>1, <3>1, HandledRequest, RunningHasBlocks, RequestFacts
           DEF SET_DATA_ADDERSS_Handle, OpReturns
      <4> QED
        BY <1>0, <4>1, HostSame DEF CheckInv, ParametersSet
    <3>2. CASE SET_DATA_LENGTH_Handle
      <4>1. req = LenReq /\ ops_length' = len /\ start_addr' = start_addr /\ req # AddrReq
        BY <1>0, <1>1, <2>1, <3>2, HandledRequest, RunningHasBlocks, RequestFacts
           DEF SET_DATA_LENGTH_Handle, OpReturns
      <4> QED
        BY <1>0, <4>1, HostSame DEF CheckInv, ParametersSet
    <3> QED
      BY <3>1, <3>2
  <2>2. CASE ~(Checking /\ hpc \notin Stopped /\ ~Stale)
    BY <1>0, <2>2, HostSame DEF ParametersSet, Checking, Stopped, Stale
  <2> QED
    BY <2>1, <2>2
<1>4. InDrained'
  <2>1. Checking /\ hpc \in {"w_hs", "r_addr", "r_len", "r_op", "r_data", "w_op"} => ~Stale /\ nb # 0
    BY <1>1, RunningHasBlocks DEF Stale, Stopped
  <2>2. Checking /\ (hpc = "w_hs" \/ (hpc = "w_op" /\ Taken)) => req = ProgramReq
    BY <1>0, <2>1, HandledRequest, LastReqIs, ControlRequestIs DEF Taken, CheckInv, SizesOK, ControlPc
  <2>3. req # ProgramReq
    BY <1>1, RequestFacts DEF CardOps
  <2> QED
    BY <1>0, <2>2, <2>3, HostSame DEF CheckInv, InDrained, inVars
<1>5. ReadInOrder'
  <2>1. Checking /\ ((hpc = "r_op" /\ Taken) \/ hpc = "r_data") => req = ReadReq
    <3>1. Checking /\ hpc \in {"r_op", "r_data"} => ~Stale /\ nb # 0
      BY <1>1, RunningHasBlocks DEF Stale, Stopped
    <3> QED
      BY <1>0, <3>1, HandledRequest, LastReqIs, ControlRequestIs DEF Taken, CheckInv, SizesOK, ControlPc
  <2>2. req # ReadReq
    BY <1>1, RequestFacts DEF CardOps
  <2> QED
    BY <1>0, <2>1, <2>2, HostSame DEF ReadInOrder
<1>6. Compared' /\ Verified'
  BY <1>0, HostSame DEF CheckInv, Compared, Verified
<1> QED
  BY <1>2, <1>3, <1>4, <1>5, <1>6 DEF Parts

\* While the device may still be busy with an earlier run, or nothing is being
\* checked, a request that ends spoils nothing.
LEMMA UncheckedStep ==
  ASSUME CheckInv, UNCHANGED hostVars, UNCHANGED <<setup, intrUsb, gotUsb>>, pc' # "op",
         ~Checking \/ Stale \/ nb = 0
  PROVE  Parts'
<1>0. TypeOK /\ TypeInv
  BY DEF CheckInv, TypeInv
<1>1. ~Checking \/ Stale \/ (nb = 0 /\ hpc = "success")
  BY <1>0, RunningHasBlocks DEF Stopped, Checking
<1>2. Undisturbed' /\ RequestsInOrder'
  BY HostSame DEF CheckInv, Undisturbed, RequestsInOrder
<1>3. ParametersSet' /\ InDrained' /\ ReadInOrder'
  BY <1>1, HostSame DEF ParametersSet, InDrained, ReadInOrder, Stale
<1>4. Compared'
  BY <1>1, HostSame DEF CheckInv, Compared, Stale
<1>5. Verified'
  <2>1. i = 0 => ChunkStart(i) = 0
    BY SdSizes DEF ChunkStart
  <2>2. Stale => i = 0 /\ hpc # "success"
    BY DEF Stale
  <2>3. ASSUME Checking, NEW n \in 0 .. nb - 1, hpc = "success" \/ n < ChunkStart(i)
        PROVE  FALSE
    <3>1. CASE Stale
      BY <2>1, <2>2, <2>3, <3>1, <1>0, JobFacts
    <3>2. CASE nb = 0
      BY <2>3, <3>2
    <3> QED
      BY <1>1, <2>3, <3>1, <3>2
  <2> QED
    BY <2>3, HostSame DEF Verified
<1> QED
  BY <1>2, <1>3, <1>4, <1>5 DEF Parts

\* CARD_PROGRAM writes only the blocks of the current download, and drops what an
\* earlier read left unsent.
LEMMA CardProgramStep ==
  ASSUME HonestReads, CheckInv, UNCHANGED hostVars, CardProgram
  PROVE  Parts'
<1>0. /\ pc = "op" /\ pc' = "serve" /\ req.op = "CARD_PROGRAM"
      /\ UNCHANGED <<setup, intrUsb, gotUsb, start_addr, ops_length>>
      /\ Bulk_in_finish' = Bulk_in_size' /\ inFifo' \in FifoAfter(Handshake)
  BY DEF CardProgram, OpReturns, SendHandshake
<1>1. TypeOK /\ TypeInv
  BY DEF CheckInv, TypeInv
<1>2. CASE ~Checking \/ Stale \/ nb = 0
  BY <1>0, <1>2, UncheckedStep
<1>3. CASE Checking /\ ~Stale /\ nb # 0
  <2>1. /\ req = ProgramReq /\ start_addr = addr /\ ops_length = len
        /\ hpc \in {"w_hs", "r_addr", "w_op"}
        /\ req # AddrReq /\ req # LenReq
    BY <1>0, <1>1, <1>3, HandledRequest, RequestFacts DEF CardOps
  <2>2. Undisturbed' /\ RequestsInOrder'
    BY <1>0, HostSame DEF CheckInv, Undisturbed, RequestsInOrder
  <2>3. ParametersSet'
    BY <1>0, <2>1, HostSame DEF CheckInv, ParametersSet
  <2>4. InDrained'
    <3>1. hpc = "r_addr" => inFifo' = Handshake
      <4>1. hpc = "r_addr" => inFifo = NoPkt
        BY <1>0, <1>3, <2>1 DEF CheckInv, InDrained
      <4> QED
        BY <1>0, <4>1 DEF FifoAfter
    <3> QED
      BY <1>0, <2>1, <3>1, HostSame, DeviceAssumptions DEF InDrained
  <2>5. ReadInOrder'
    BY <2>1, HostSame DEF ReadInOrder
  <2>6. Compared'
    BY <2>1, HostSame DEF CheckInv, Compared
  <2>7. Verified'
    <3>1. SUFFICES ASSUME NEW n \in 0 .. nb - 1, n < ChunkStart(i)
                   PROVE  card'[BlockAddr(job.addr) + n] = job.data[n]
      BY <2>1, HostSame DEF Verified
    <3>2. card[BlockAddr(job.addr) + n] = job.data[n]
      BY <1>3, <3>1 DEF CheckInv, Verified
    <3>3. BlockAddr(job.addr) + n < start_addr
      BY <1>1, <2>1, <3>1, JobFacts
    <3>4. BlockAddr(job.addr) + nb <= CardBlocks
      BY <1>1 DEF HonestReads, TypeOK, HostTypeOK, nb
    <3>5. BlockAddr(job.addr) + n \in CardIndex
      BY <1>1, <3>4, JobFacts, DeviceAssumptions DEF CardIndex
    <3> QED
      BY <1>1, <2>1, <3>2, <3>3, <3>5, JobFacts DEF CardProgram, mmc_block_writem
  <2> QED
    BY <2>2, <2>3, <2>4, <2>5, <2>6, <2>7 DEF Parts
<1> QED
  BY <1>2, <1>3

\* CARD_READ of an error-free card fills the buffer with the card's blocks.
LEMMA CardReadStep ==
  ASSUME HonestReads, CheckInv, UNCHANGED hostVars, CardRead
  PROVE  Parts'
<1>0. /\ pc = "op" /\ pc' = "serve" /\ req.op = "CARD_READ"
      /\ UNCHANGED <<setup, intrUsb, gotUsb, opsVars>>
      /\ inFifo' \in FifoAfter(Bulk_in_buf'[0]) /\ Bulk_in_size' = ops_length
      /\ Bulk_in_finish' = IF ops_length = 0 THEN 0 ELSE 1
  BY DEF CardRead, OpReturns, SendBulk
<1>1. TypeOK /\ TypeInv /\ len \in 1 .. SD_MAX_BLOCK_NUM /\ len \in Nat /\ addr \in Nat
  BY JobFacts DEF CheckInv, TypeInv
<1>2. CASE ~Checking \/ Stale \/ nb = 0
  BY <1>0, <1>2, UncheckedStep
<1>3. CASE Checking /\ ~Stale /\ nb # 0
  <2>1. /\ req = ReadReq /\ start_addr = addr /\ ops_length = len
        /\ hpc = "r_data" \/ (hpc = "r_op" /\ Taken)
        /\ req # AddrReq /\ req # LenReq
    BY <1>0, <1>1, <1>3, HandledRequest, RequestFacts DEF CardOps
  <2>2. k = 0 /\ inFifo \notin Block
    BY <1>0, <1>3, <2>1 DEF CheckInv, InDrained
  <2>3. Undisturbed' /\ RequestsInOrder'
    BY <1>0, HostSame DEF CheckInv, Undisturbed, RequestsInOrder
  <2>4. ParametersSet'
    BY <1>0, <2>1, HostSame DEF CheckInv, ParametersSet, opsVars
  <2>5. InDrained'
    BY <1>0, <2>1, HostSame DEF InDrained
  <2>6. \A n \in 0 .. len - 1 : Bulk_in_buf'[n] = card[addr + n]
    <3>1. addr + len <= CardBlocks
      <4>1. BlockAddr(job.addr) + nb <= CardBlocks
        BY <1>1 DEF HonestReads, TypeOK, HostTypeOK, nb
      <4>2. ChunkStart(i) + len <= nb
        BY <1>1, <2>1, RunningHasBlocks, DownloadInFile DEF Stopped
      <4> QED
        BY <1>1, <4>1, <4>2, JobFacts, DeviceAssumptions
    <3>2. Transferred("read") \subseteq {len}
      BY <1>1, <2>1, <3>1, DeviceAssumptions DEF Transferred, HonestReads
    <3>3. 0 .. len - 1 \subseteq BufIndex
      BY <1>1, SdSizes, HostAssumptions, DeviceAssumptions DEF BufIndex
    <3> QED
      BY <1>1, <2>1, <3>2, <3>3 DEF CardRead, mmc_block_readm
  <2>7. ReadInOrder'
    <3>1. Bulk_in_size' = len /\ Bulk_in_finish' = 1 /\ k' = 0
      BY <1>0, <1>1, <2>1, <2>2, HostSame
    <3>2. inFifo' \in Block => inFifo' = Bulk_in_buf'[0]
      BY <1>0, <2>2, DeviceAssumptions DEF FifoAfter
    <3>3. k' + Waiting' <= Bulk_in_finish'
      BY <3>1 DEF Waiting
    <3>4. \A n \in 0 .. len - 1 : Bulk_in_buf'[n] = card'[addr + n]
      BY <1>0, <2>6 DEF opsVars
    <3> QED
      BY <3>1, <3>2, <3>3, <3>4, HostSame DEF ReadInOrder
  <2>8. Compared' /\ Verified'
    BY <1>0, <2>1, HostSame DEF CheckInv, Compared, Verified, opsVars
  <2> QED
    BY <2>3, <2>4, <2>5, <2>7, <2>8 DEF Parts
<1> QED
  BY <1>2, <1>3

-----------------------------------------------------------------------------
\* The steps of the tool.  A new run starts with a device in any state.
LEMMA sd_card_programStep ==
  ASSUME CheckInv, NEW j \in Jobs, sd_card_program(j)
  PROVE  Parts'
<1>1. /\ job' = j /\ i' = 0 /\ ctl' = FALSE /\ ~intrUsb' /\ ~gotUsb'
      /\ hpc' = "success" => DownloadTimes(BlockNums(j.size)) = 0
      /\ hpc' \in {"success", "file", "failed"}
  BY DEF sd_card_program, deviceVars, usbVars, loopVars
<1>2. hpc' = "success" => nb' = 0
  <2>1. nb' = BlockNums(j.size) /\ nb' \in Nat
    BY <1>1, HostAssumptions, BlockNumsNat DEF nb
  <2> QED
    BY <1>1, <2>1, NoDownloads
<1>3. hpc' = "file" => Stale'
  BY <1>1 DEF Stale
<1>4. Undisturbed' /\ RequestsInOrder'
  BY <1>1, <1>2, <1>3 DEF Undisturbed, RequestsInOrder, Checking, Stopped
<1>5. ParametersSet' /\ InDrained' /\ ReadInOrder' /\ Compared'
  BY <1>1 DEF ParametersSet, InDrained, ReadInOrder, Compared, Checking
<1>6. Verified'
  <2>1. ChunkStart(i)' = 0
    BY <1>1, SdSizes DEF ChunkStart
  <2>2. hpc' # "success" \/ (0 .. nb - 1)' = {}
    BY <1>2
  <2> QED
    BY <1>1, <2>1, <2>2 DEF Verified
<1> QED
  BY <1>4, <1>5, <1>6 DEF Parts

\* The host reads the next part of its file.
LEMMA ReadFileStep ==
  ASSUME CheckInv, ReadFile
  PROVE  Parts'
<1>0. /\ TypeOK /\ TypeInv /\ hpc = "file" /\ ctl = FALSE
      /\ UNCHANGED <<deviceVars, ctl, job, i, k, readback_data, runs, clean>>
  BY DEF CheckInv, TypeInv, TypeOK, HostTypeOK, SizesOK, ControlPc, ReadFile
<1>1. UNCHANGED <<setup, pc, req, card, intrUsb, gotUsb>>
  BY <1>0 DEF deviceVars, usbVars, loopVars, opsVars
<1>2. CASE hpc' = "failed"
  BY <1>0, <1>2, FailStep
<1>3. CASE hpc' # "failed"
  <2>1. /\ hpc' = "w_addr"
        /\ origin_data' = [n \in ChunkIndex |->
               IF n < len THEN job.data[ChunkStart(i) + n] ELSE origin_data[n]]
    BY <1>3 DEF ReadFile
  <2>2. /\ nb' = nb /\ len' = len /\ addr' = addr /\ job.check' = job.check
        /\ ~Taken /\ ~Taken' /\ (Stale' <=> Stale) /\ LastReq = NoReq /\ LastReq' = NoReq
    BY <1>0, <2>1, SameDownload DEF Taken, Stale, LastReq
  <2>3. Undisturbed' /\ RequestsInOrder'
    BY <1>0, <1>1, <2>1, <2>2 DEF CheckInv, Undisturbed, RequestsInOrder, Checking, Stopped
  <2>4. ParametersSet' /\ InDrained' /\ ReadInOrder'
    BY <2>1, <2>2 DEF ParametersSet, InDrained, ReadInOrder
  <2>5. Compared'
    <3>1. 0 .. len - 1 \subseteq ChunkIndex
      BY <1>0, JobFacts, SdSizes DEF ChunkIndex
    <3>2. \A n \in 0 .. len - 1 : origin_data'[n] = job.data[ChunkStart(i) + n]
      <4>1. SUFFICES ASSUME NEW n \in 0 .. len - 1
                     PROVE  origin_data'[n] = job.data[ChunkStart(i) + n]
        OBVIOUS
      <4>2. n \in ChunkIndex
        BY <3>1
      <4>3. n < len
        BY <1>0, JobFacts
      <4> QED
        BY <2>1, <4>2, <4>3
    <3> QED
      BY <1>0, <2>1, <2>2, <3>2 DEF Compared
  <2>6. Verified'
    BY <1>0, <1>1, <2>1, <2>2 DEF CheckInv, Verified, Checking
  <2> QED
    BY <2>3, <2>4, <2>5, <2>6 DEF Parts
<1> QED
  BY <1>2, <1>3

\* A SETUP packet goes out; the tool sends it only when the device has taken the
\* one before.
LEMMA SendControlStep ==
  ASSUME CheckInv, SendControl
  PROVE  Parts'
<1>0. /\ TypeOK /\ TypeInv /\ hpc \in ControlPc /\ ctl = FALSE /\ ctl' = TRUE
      /\ setup' = ControlRequest
      /\ UNCHANGED <<hpc, job, i, k, origin_data, readback_data>>
      /\ UNCHANGED <<pc, req, intrUsb, gotUsb, inFifo, inVars, opsVars>>
  BY DEF CheckInv, TypeInv, TypeOK, HostTypeOK, SendControl, loopVars
<1>1. setup' # NoReq
  BY <1>0, ControlRequestType
<1>2. /\ nb' = nb /\ len' = len /\ addr' = addr /\ ControlRequest' = ControlRequest
      /\ AddrReq' = AddrReq /\ LenReq' = LenReq /\ ProgramReq' = ProgramReq /\ ReadReq' = ReadReq
  BY <1>0, SameDownload, SameRequests
<1>3. /\ Checking' = Checking /\ ~Taken /\ ~Taken'
      /\ (Stale' <=> Stale) /\ LastReq' = LastReq
  BY <1>0, <1>1, <1>2 DEF Checking, Taken, Stale, LastReq
<1>4. Undisturbed' /\ RequestsInOrder'
  BY <1>0, <1>2, <1>3 DEF CheckInv, Undisturbed, RequestsInOrder
<1>5. ParametersSet'
  BY <1>0, <1>2, <1>3 DEF CheckInv, ParametersSet, opsVars
<1>6. InDrained'
  BY <1>0, <1>2, <1>3 DEF CheckInv, InDrained, inVars
<1>7. ReadInOrder'
  BY <1>0, <1>3 DEF ReadInOrder, ControlPc
<1>8. Compared' /\ Verified'
  BY <1>0, <1>2, <1>3 DEF CheckInv, Compared, Verified, opsVars
<1> QED
  BY <1>4, <1>5, <1>6, <1>7, <1>8 DEF Parts

\* The device has taken it: on to the next place.
LEMMA ControlDoneStep ==
  ASSUME CheckInv, ControlDone
  PROVE  Parts'
<1>0. /\ TypeOK /\ TypeInv /\ hpc \in ControlPc /\ ctl /\ setup = NoReq /\ ctl' = FALSE
      /\ Taken /\ ~Taken' /\ ~Stale
      /\ hpc' = AfterControl /\ k' = 0
      /\ UNCHANGED <<deviceVars, job, i, origin_data, readback_data>>
  BY DEF CheckInv, TypeInv, SizesOK, ControlDone, ControlPc, Taken, Stale
<1>1. UNCHANGED <<setup, pc, req, intrUsb, gotUsb, inFifo, inVars, opsVars>>
  BY <1>0 DEF deviceVars, usbVars, loopVars
<1>2. /\ nb' = nb /\ len' = len /\ addr' = addr
      /\ AddrReq' = AddrReq /\ LenReq' = LenReq /\ ProgramReq' = ProgramReq /\ ReadReq' = ReadReq
  BY <1>0, SameDownload, SameRequests
<1>3. /\ hpc = "w_addr" => hpc' = "w_len"
      /\ hpc = "w_len" => hpc' = "w_data"
      /\ hpc = "w_op" => hpc' = "w_hs"
      /\ hpc = "r_addr" => hpc' = "r_len"
      /\ hpc = "r_len" => hpc' = "r_op"
      /\ hpc = "r_op" => hpc' = "r_data"
  BY <1>0 DEF AfterControl
<1>4. Checking' = Checking /\ ~Stale' /\ hpc \notin Stopped /\ hpc' \notin Stopped
  BY <1>0, <1>3 DEF Checking, Stale, Stopped, ControlPc
<1>5. LastReq' = LastReq
  <2>1. LastReq = ControlRequest
    BY <1>0, LastReqIs
  <2>2. LastReq' = ControlRequest
    BY <1>0, <1>2, <1>3, ControlRequestIs DEF LastReq, ControlPc
  <2> QED
    BY <2>1, <2>2
<1>6. Undisturbed' /\ RequestsInOrder'
  BY <1>0, <1>1, <1>2, <1>4, <1>5 DEF CheckInv, Undisturbed, RequestsInOrder
<1>7. ParametersSet'
  BY <1>0, <1>1, <1>2, <1>3, <1>4 DEF CheckInv, ParametersSet, opsVars, ControlPc
<1>8. InDrained'
  BY <1>0, <1>1, <1>2, <1>3, <1>4 DEF CheckInv, InDrained, inVars, ControlPc
<1>9. ReadInOrder'
  <2>1. hpc = "r_op" => k = 0
    BY <1>0 DEF TypeInv, SizesOK
  <2> QED
    BY <1>0, <1>1, <1>2, <1>3, <1>4, <2>1 DEF CheckInv, ReadInOrder, Waiting, inVars, opsVars, ControlPc
<1>10. Compared' /\ Verified'
  BY <1>0, <1>1, <1>2, <1>3, <1>4 DEF CheckInv, Compared, Verified, opsVars, ControlPc
<1> QED
  BY <1>6, <1>7, <1>8, <1>9, <1>10 DEF Parts

\* A packet goes to the board.
LEMMA SendPacketStep ==
  ASSUME CheckInv, SendPacket
  PROVE  Parts'
<1>0. /\ hpc = "w_data" /\ hpc' \in {"w_data", "w_op"} /\ ctl = FALSE /\ ctl' = FALSE
      /\ UNCHANGED <<job, i, origin_data, readback_data>>
      /\ UNCHANGED <<setup, pc, req, intrUsb, gotUsb, inFifo, inVars, opsVars>>
  BY DEF CheckInv, TypeOK, HostTypeOK, SizesOK, ControlPc, SendPacket, loopVars
<1>1. /\ nb' = nb /\ len' = len /\ addr' = addr
      /\ AddrReq' = AddrReq /\ LenReq' = LenReq
  BY <1>0, SameDownload, SameRequests
<1>2. /\ Checking' = Checking /\ ~Taken /\ ~Taken' /\ ~Stale /\ ~Stale'
      /\ hpc \notin Stopped /\ hpc' \notin Stopped
  BY <1>0 DEF Checking, Taken, Stale, Stopped
<1>3. LastReq' = LastReq
  BY <1>0, <1>1, <1>2 DEF LastReq
<1>4. Undisturbed' /\ RequestsInOrder'
  BY <1>0, <1>1, <1>2, <1>3 DEF CheckInv, Undisturbed, RequestsInOrder
<1>5. ParametersSet'
  BY <1>0, <1>1, <1>2 DEF CheckInv, ParametersSet, opsVars
<1>6. InDrained' /\ ReadInOrder'
  BY <1>0, <1>2 DEF InDrained, ReadInOrder
<1>7. Compared' /\ Verified'
  BY <1>0, <1>1, <1>2 DEF CheckInv, Compared, Verified, opsVars
<1> QED
  BY <1>4, <1>5, <1>6, <1>7 DEF Parts

\* The handshake, or what is taken for it: with check=1 the read-back follows.
LEMMA ReadHandshakeStep ==
  ASSUME CheckInv, ReadHandshake
  PROVE  Parts'
<1>0. /\ TypeOK /\ TypeInv /\ hpc = "w_hs" /\ ctl = FALSE /\ ctl' = FALSE /\ inFifo' = NoPkt
      /\ UNCHANGED <<job, k, origin_data, readback_data>>
      /\ UNCHANGED <<setup, pc, req, intrUsb, gotUsb, inVars, opsVars>>
      /\ hpc' # "idle"
  BY DEF CheckInv, TypeInv, TypeOK, HostTypeOK, SizesOK, ControlPc, ReadHandshake, TakePacket,
     NextDownload, loopVars
<1>1. CASE ~job.check
  BY <1>0, <1>1 DEF Parts, Undisturbed, RequestsInOrder, ParametersSet, InDrained, ReadInOrder,
     Compared, Verified, Checking, CheckInv, Stopped
<1>2. CASE job.check
  <2>0. hpc' = "r_addr" /\ i' = i
    BY <1>2 DEF ReadHandshake
  <2>1. /\ nb' = nb /\ len' = len /\ addr' = addr
        /\ AddrReq' = AddrReq /\ LenReq' = LenReq /\ ProgramReq' = ProgramReq
    BY <1>0, <2>0, SameDownload, SameRequests
  <2>2. /\ Checking /\ Checking' /\ ~Taken /\ ~Taken' /\ ~Stale /\ ~Stale'
        /\ hpc \notin Stopped /\ nb # 0
    BY <1>0, <1>2, <2>0, RunningHasBlocks DEF Checking, Taken, Stale, Stopped
  <2>3. LastReq = ProgramReq /\ LastReq' = ProgramReq
    BY <1>0, <2>0, <2>1, <2>2 DEF LastReq
  <2>4. Undisturbed' /\ RequestsInOrder'
    BY <1>0, <2>1, <2>2, <2>3 DEF CheckInv, Undisturbed, RequestsInOrder
  <2>5. ParametersSet'
    BY <1>0, <2>0, <2>1, <2>2 DEF CheckInv, ParametersSet, opsVars
  <2>6. InDrained'
    <3>1. pc = "op" => req = ProgramReq
      BY <2>2, <2>3 DEF CheckInv, RequestsInOrder
    <3>2. pc # "op" => Bulk_in_finish = Bulk_in_size
      BY <1>0, <2>2 DEF CheckInv, InDrained
    <3> QED
      BY <1>0, <2>0, <2>1, <2>2, <3>1, <3>2, DeviceAssumptions DEF InDrained, inVars
  <2>7. ReadInOrder'
    BY <2>0 DEF ReadInOrder
  <2>8. Compared' /\ Verified'
    BY <1>0, <2>0, <2>1, <2>2 DEF CheckInv, Compared, Verified, opsVars
  <2> QED
    BY <2>4, <2>5, <2>6, <2>7, <2>8 DEF Parts
<1> QED
  BY <1>1, <1>2

\* A block read back is the next one of the buffer, or one was lost before it and
\* the transfer never gets its full length.
LEMMA ReadPacketStep ==
  ASSUME CheckInv, ReadPacket
  PROVE  Parts'
<1>0. /\ TypeOK /\ TypeInv /\ hpc = "r_data" /\ hpc' \in {"r_data", "cmp"}
      /\ ctl = FALSE /\ ctl' = FALSE
      /\ k' = k + 1 /\ k \in Nat /\ k < len /\ len \in Nat
      /\ inFifo \in Block /\ inFifo' = NoPkt
      /\ readback_data' = [readback_data EXCEPT ![k] = inFifo]
      /\ UNCHANGED <<job, i, origin_data>>
      /\ UNCHANGED <<setup, pc, req, intrUsb, gotUsb, inVars, opsVars>>
      /\ hpc' = "cmp" => k + 1 = len
  BY JobFacts DEF CheckInv, TypeInv, TypeOK, HostTypeOK, SizesOK, ControlPc, ReadPacket,
     TakePacket, loopVars
<1>1. nb' = nb /\ len' = len /\ addr' = addr /\ AddrReq' = AddrReq /\ LenReq' = LenReq
  BY <1>0, SameDownload, SameRequests
<1>2. /\ Checking' = Checking /\ ~Taken /\ ~Taken' /\ ~Stale /\ ~Stale'
      /\ hpc \notin Stopped
  BY <1>0 DEF Checking, Taken, Stale, Stopped
<1>3. Checking => pc # "op"
  BY <1>0 DEF CheckInv, InDrained
<1>4. Undisturbed' /\ RequestsInOrder'
  BY <1>0, <1>1, <1>2, <1>3 DEF CheckInv, Undisturbed, RequestsInOrder
<1>5. ParametersSet' /\ InDrained'
  BY <1>0, <1>1, <1>2, <1>3 DEF CheckInv, ParametersSet, InDrained, opsVars
<1>6. ASSUME Checking
      PROVE  /\ Bulk_in_size = len /\ Bulk_in_finish \in Nat /\ Bulk_in_finish <= len
             /\ \A n \in 0 .. len - 1 : Bulk_in_buf[n] = card[addr + n]
             /\ k + 1 <= Bulk_in_finish
             /\ k + 1 = Bulk_in_finish => \A n \in 0 .. k : readback_data'[n] = Bulk_in_buf[n]
  <2>1. Waiting = 1
    BY <1>0, DeviceAssumptions DEF Waiting
  <2>2. /\ Bulk_in_size = len
        /\ \A n \in 0 .. len - 1 : Bulk_in_buf[n] = card[addr + n]
        /\ k + 1 <= Bulk_in_finish
        /\ k + 1 = Bulk_in_finish =>
             /\ \A n \in 0 .. k - 1 : readback_data[n] = Bulk_in_buf[n]
             /\ inFifo = Bulk_in_buf[k]
    BY <1>0, <1>3, <1>6, <2>1 DEF CheckInv, ReadInOrder
  <2>3. Bulk_in_finish \in Nat /\ Bulk_in_finish <= Bulk_in_size /\ readback_data \in [ChunkIndex -> Block]
    BY <1>0 DEF TypeInv, SizesOK, TypeOK, DeviceTypeOK, HostTypeOK
  <2>4. k + 1 = Bulk_in_finish => \A n \in 0 .. k : readback_data'[n] = Bulk_in_buf[n]
    <3>1. 0 .. k \subseteq ChunkIndex
      BY <1>0, JobFacts, SdSizes DEF ChunkIndex
    <3>2. \A n \in 0 .. k : readback_data'[n] = IF n = k THEN inFifo ELSE readback_data[n]
      BY <1>0, <2>3, <3>1
    <3>3. \A n \in 0 .. k : n = k \/ n \in 0 .. k - 1
      BY <1>0
    <3> QED
      BY <2>2, <3>2, <3>3
  <2> QED
    BY <2>2, <2>3, <2>4
<1>7. ReadInOrder'
  <2>1. SUFFICES ASSUME Checking
                 PROVE  /\ Bulk_in_size' = len'
                        /\ \A n \in 0 .. len' - 1 : Bulk_in_buf'[n] = card'[addr' + n]
                        /\ k' + Waiting' <= Bulk_in_finish'
                        /\ k' + Waiting' = Bulk_in_finish' =>
                             /\ \A n \in 0 .. k' - 1 : readback_data'[n] = Bulk_in_buf'[n]
                             /\ inFifo' \in Block => inFifo' = Bulk_in_buf'[k']
    BY <1>2 DEF ReadInOrder
  <2>2. Waiting' = 0 /\ inFifo' \notin Block /\ k' = k + 1 /\ k' - 1 = k
    BY <1>0, DeviceAssumptions DEF Waiting
  <2>3. UNCHANGED <<Bulk_in_size, Bulk_in_finish, Bulk_in_buf, card>>
    BY <1>0 DEF inVars, opsVars
  <2>4. k' + Waiting' = k + 1
    BY <1>0, <2>2 DEF Waiting
  <2> QED
    BY <1>1, <1>6, <2>1, <2>2, <2>3, <2>4
<1>8. Compared'
  <2>1. ASSUME Checking, hpc' = "cmp"
        PROVE  \A n \in 0 .. len - 1 : readback_data'[n] = card[addr + n]
    <3>1. k + 1 = len /\ Bulk_in_finish = k + 1 /\ 0 .. k = 0 .. len - 1
      BY <1>0, <1>6, <2>1
    <3> QED
      BY <1>6, <2>1, <3>1
  <2>2. ASSUME Checking
        PROVE  \A n \in 0 .. len - 1 : origin_data[n] = job.data[ChunkStart(i) + n]
    BY <1>0, <2>2 DEF CheckInv, Compared
  <2>3. UNCHANGED <<card, origin_data, job, i>>
    BY <1>0 DEF opsVars
  <2> QED
    BY <1>1, <1>2, <2>1, <2>2, <2>3 DEF Compared
<1>9. Verified'
  BY <1>0, <1>1, <1>2 DEF CheckInv, Verified, opsVars
<1> QED
  BY <1>4, <1>5, <1>7, <1>8, <1>9 DEF Parts

\* Equal data: the download is on the card, and the next one begins behind it.
LEMMA CompareStep ==
  ASSUME CheckInv, Compare
  PROVE  Parts'
<1>0. /\ TypeOK /\ TypeInv /\ hpc = "cmp" /\ ctl = FALSE /\ ctl' = FALSE /\ i \in Nat
      /\ UNCHANGED <<deviceVars, job, k, origin_data, readback_data>>
  BY DEF CheckInv, TypeInv, TypeOK, HostTypeOK, SizesOK, ControlPc, Compare
<1>1. UNCHANGED <<setup, pc, req, intrUsb, gotUsb, card>>
  BY <1>0 DEF deviceVars, usbVars, loopVars, opsVars
<1>2. CASE hpc' = "failed"
  BY <1>0, <1>2, FailStep
<1>3. CASE hpc' # "failed"
  <2>1. SameData /\ NextDownload /\ hpc' \in {"success", "file"}
    BY <1>3 DEF Compare, NextDownload
  <2>2. /\ nb' = nb /\ nb # 0 /\ i < DownloadTimes(nb) /\ DownloadTimes(nb) \in Nat
        /\ ~Taken /\ ~Taken' /\ ~Stale /\ hpc \notin Stopped
        /\ Checking' = Checking
    BY <1>0, <2>1, RunningHasBlocks, JobFacts DEF nb, Taken, Stale, Stopped, Checking
  <2>3. Checking => setup = NoReq /\ pc # "op"
    <3>1. LastReq = NoReq
      BY <1>0, <2>2, LastReqIs
    <3>2. pc = "op" => req # NoReq
      BY <1>0, NoReqAssumption DEF TypeInv, SizesOK
    <3> QED
      BY <1>0, <2>2, <3>1, <3>2 DEF CheckInv, RequestsInOrder
  <2>4. Undisturbed' /\ RequestsInOrder'
    BY <1>0, <1>1, <2>2, <2>3 DEF CheckInv, Undisturbed, RequestsInOrder
  <2>5. ParametersSet' /\ InDrained' /\ ReadInOrder' /\ Compared'
    BY <2>1, <2>2 DEF ParametersSet, InDrained, ReadInOrder, Compared
  <2>6. ASSUME Checking, NEW n \in 0 .. nb - 1, n < ChunkStart(i) + len
        PROVE  card[BlockAddr(job.addr) + n] = job.data[n]
    <3>1. CASE n < ChunkStart(i)
      BY <2>6, <3>1 DEF CheckInv, Verified
    <3>2. CASE ~(n < ChunkStart(i))
      <4> DEFINE m == n - ChunkStart(i)
      <4>1. m \in 0 .. len - 1 /\ ChunkStart(i) + m = n /\ addr + m = BlockAddr(job.addr) + n
        BY <1>0, <2>6, <3>2, JobFacts
      <4>2. origin_data[m] = job.data[ChunkStart(i) + m] /\ readback_data[m] = card[addr + m]
        BY <1>0, <2>6, <4>1 DEF CheckInv, Compared
      <4>3. origin_data[m] = readback_data[m]
        BY <2>1, <4>1 DEF SameData
      <4> QED
        BY <4>1, <4>2, <4>3
    <3> QED
      BY <3>1, <3>2
  <2>7. Verified'
    <3>1. CASE i + 1 = DownloadTimes(nb)
      <4>1. hpc' = "success" /\ i' = i
        BY <2>1, <3>1 DEF NextDownload
      <4>2. ChunkStart(i) + len = nb
        BY <1>0, <3>1, LastChunkEnd, JobFacts DEF len
      <4>3. \A n \in 0 .. nb - 1 : n < ChunkStart(i) + len
        BY <1>0, <4>2, JobFacts
      <4> QED
        BY <1>0, <1>1, <2>2, <2>6, <4>1, <4>3 DEF Verified
    <3>2. CASE i + 1 # DownloadTimes(nb)
      <4>1. hpc' = "file" /\ i' = i + 1
        BY <2>1, <3>2 DEF NextDownload
      <4>2. ChunkStart(i + 1) = ChunkStart(i) + SD_MAX_BLOCK_NUM
        BY <1>0, ChunkStartStep
      <4>3. len = SD_MAX_BLOCK_NUM
        BY <1>0, <2>2, <3>2, ChunkInFile, JobFacts DEF len
      <4> QED
        BY <1>0, <1>1, <2>2, <2>6, <4>1, <4>2, <4>3 DEF Verified
    <3> QED
      BY <3>1, <3>2
  <2> QED
    BY <2>4, <2>5, <2>7 DEF Parts
<1> QED
  BY <1>2, <1>3

\* A bus reset keeps the invariant.
LEMMA BusResetStep ==
  ASSUME CheckInv, BusReset
  PROVE  Parts'
<1>1. CASE hpc \in Stopped
  <2>1. ctl = FALSE
    BY <1>1 DEF CheckInv, TypeOK, HostTypeOK, SizesOK, Stopped, ControlPc
  <2>2. UNCHANGED hostVars /\ setup' = NoReq /\ UNCHANGED <<card, pc, req>>
    BY <1>1, <2>1 DEF BusReset, hostVars, opsVars, loopVars
  <2> QED
    BY <1>1, <2>2, StoppedStep
<1>2. CASE hpc \notin Stopped
  BY <1>2, FailStep DEF BusReset
<1> QED
  BY <1>1, <1>2

\* The invariant at the start.
LEMMA InitCheck == Init => CheckInv
<1> SUFFICES ASSUME Init PROVE CheckInv
  OBVIOUS
<1>1. TypeOK /\ SizesOK
  BY InitType DEF TypeInv
<1>2. hpc = "idle" /\ ctl = FALSE
  BY DEF Init, HostInit
<1> QED
  BY <1>1, <1>2 DEF CheckInv, Undisturbed, RequestsInOrder, ParametersSet, InDrained, ReadInOrder,
     Compared, Verified, Checking, Stopped

\* Every step keeps the invariant.
LEMMA NextCheck ==
  ASSUME HonestReads
  PROVE  CheckInv /\ [Next]_vars => CheckInv'
<1> SUFFICES ASSUME CheckInv, [Next]_vars PROVE CheckInv'
  OBVIOUS
<1>1. TypeOK' /\ SizesOK'
  BY NextType DEF CheckInv, TypeInv
<1>2. SUFFICES Parts'
  BY <1>1 DEF CheckInv, Parts
<1>3. ASSUME DeviceStep PROVE Parts'
  <2>0. UNCHANGED hostVars
    BY <1>3 DEF DeviceStep
  <2>11. CASE ReadIntrUsb
    BY <2>0, <2>11, FrameStep DEF ReadIntrUsb, CheckInv, Undisturbed
  <2>1. CASE ReadIntrIn
    BY <2>0, <2>1, FrameStep DEF ReadIntrIn, CheckInv, Undisturbed
  <2>2. CASE ReadIntrOut
    BY <2>0, <2>2, FrameStep DEF ReadIntrOut, CheckInv, Undisturbed
  <2>3. CASE EPIN_Handler
    BY <2>0, <2>3, EPIN_HandlerStep
  <2>4. CASE EPOUT_Handler
    BY <2>0, <2>4, FrameStep DEF EPOUT_Handler, CheckInv, Undisturbed
  <2>5. CASE udc_reset
    BY <2>0, <2>5, udc_resetStep
  <2>6. CASE EP0_SetupEnd
    BY <2>0, <2>6, FrameStep DEF EP0_SetupEnd, CheckInv, Undisturbed
  <2>7. CASE EP0_Handler
    BY <2>0, <2>7, EP0_HandlerStep
  <2>8. CASE SET_DATA_ADDERSS_Handle \/ SET_DATA_LENGTH_Handle
    BY <2>0, <2>8, SetDataStep
  <2>9. CASE CardProgram
    BY <2>0, <2>9, CardProgramStep
  <2>10. CASE CardRead
    BY <2>0, <2>10, CardReadStep
  <2> QED
    BY <1>3, <2>1, <2>2, <2>3, <2>4, <2>5, <2>6, <2>7, <2>8, <2>9, <2>10, <2>11
       DEF DeviceStep, udc4740Proc
<1>4. ASSUME HostStep PROVE Parts'
  <2>0. hpc \notin ControlPc => ctl = FALSE
    BY DEF CheckInv, TypeOK, HostTypeOK, SizesOK
  <2>1. CASE ReadFileError
    BY <2>1 DEF ReadFileError, HonestReads
  <2>2. CASE HandshakeOverflow \/ ReadShort
    BY <2>0, <2>2, FailStep DEF HandshakeOverflow, ReadShort, ControlPc
  <2> QED
    BY <1>4, <2>1, <2>2, ReadFileStep, SendControlStep, ControlDoneStep, SendPacketStep,
       ReadHandshakeStep, ReadPacketStep, CompareStep DEF HostStep
<1>5. ASSUME NEW j \in Jobs, sd_card_program(j) PROVE Parts'
  BY <1>5, sd_card_programStep
<1>6. ASSUME Abort PROVE Parts'
  BY <1>6, FailStep DEF Abort
<1>7. ASSUME BusReset PROVE Parts'
  BY <1>7, BusResetStep
<1>8. ASSUME UNCHANGED vars PROVE Parts'
  <2>1. UNCHANGED hostVars /\ UNCHANGED <<setup, inFifo, req, pc, intrUsb, gotUsb, inVars, opsVars>>
    BY <1>8 DEF vars, deviceVars, usbVars, loopVars
  <2> QED
    BY <2>1, FrameStep DEF CheckInv, Undisturbed
<1> QED
  BY <1>3, <1>4, <1>5, <1>6, <1>7, <1>8 DEF Next

\* The invariant itself, for all sizes, jobs and numbers of runs: from the first
\* address that the device takes from a run with check=1, it works on that run's
\* requests only, and what the run has compared stays on the card.
THEOREM CheckInvHolds ==
  ASSUME HonestReads
  PROVE  Spec => []CheckInv
<1>1. CheckInv /\ [Next]_vars => CheckInv'
  BY NextCheck
<1> QED
  BY <1>1, InitCheck, PTL DEF Spec

\* For all sizes, jobs and numbers of runs: with reads that do not fail silently, a
\* run of sd_card_program with check=1 that reports success has the file on the
\* card, whatever the card did to writes, wherever earlier runs were killed or the
\* bus was reset, and however the steps of tool and device interleave.
THEOREM CheckedSuccessHolds ==
  ASSUME HonestReads
  PROVE  Spec => []CheckedSuccess
<1>1. CheckInv => CheckedSuccess
  <2>1. SUFFICES ASSUME CheckInv, hpc = "success", job.check,
                        NEW n \in 0 .. BlockNums(job.size) - 1
                 PROVE  /\ BlockAddr(job.addr) + n \in CardIndex
                        /\ card[BlockAddr(job.addr) + n] = job.data[n]
    BY DEF CheckedSuccess, OnCard
  <2>2. card[BlockAddr(job.addr) + n] = job.data[n]
    BY <2>1 DEF CheckInv, Verified, Checking, nb
  <2>3. TypeOK /\ BlockAddr(job.addr) + nb <= CardBlocks
    BY <2>1 DEF HonestReads, CheckInv, TypeOK, HostTypeOK, nb
  <2>4. n \in 0 .. nb - 1
    BY <2>1 DEF nb
  <2>5. BlockAddr(job.addr) + n \in CardIndex
    BY <2>3, <2>4, JobFacts, DeviceAssumptions DEF CardIndex
  <2> QED
    BY <2>2, <2>5
<1>2. CheckInv /\ [Next]_vars => CheckInv'
  BY NextCheck
<1> QED
  BY <1>1, <1>2, InitCheck, PTL DEF Spec
=============================================================================
