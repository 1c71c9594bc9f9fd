--------------------------- MODULE Stage2SdProofs ---------------------------
(***************************************************************************)
(* Proofs about the SD card download of module Stage2Sd, for every card,   *)
(* buffer and download size, every set of jobs and every number of runs.   *)
(***************************************************************************)
EXTENDS Stage2Sd, TLAPS

-----------------------------------------------------------------------------
(***************************************************************************)
(* The cut of a file into downloads, for every file size and every block   *)
(* and download size.                                                      *)
(***************************************************************************)

\* Quotient and remainder, as / and % give them for unsigned operands.
LEMMA DivMod ==
  ASSUME NEW x \in Nat, NEW d \in Nat \ {0}
  PROVE  /\ x \div d \in Nat /\ x % d \in 0 .. d - 1
         /\ x = d * (x \div d) + (x % d)
OBVIOUS

\* A file has a whole number of blocks and an address a block number.
LEMMA BlockNumsNat ==
  ASSUME NEW size \in Nat
  PROVE  BlockNums(size) \in Nat /\ BlockAddr(size) \in Nat
BY DivMod, SdSizes DEF BlockNums, BlockAddr

\* The number of downloads is a natural number, and none is too long.
LEMMA ChunkLenBounds ==
  ASSUME NEW num \in Nat, NEW dl \in Nat
  PROVE  /\ DownloadTimes(num) \in Nat
         /\ ChunkLen(num, dl) \in 1 .. SD_MAX_BLOCK_NUM
         /\ ChunkStart(dl) \in Nat
<1>1. num % SD_MAX_BLOCK_NUM \in 0 .. SD_MAX_BLOCK_NUM - 1 /\ num \div SD_MAX_BLOCK_NUM \in Nat
  BY DivMod, SdSizes
<1>2. SD_MAX_BLOCK_NUM * dl \in Nat
  BY SdSizes
<1> QED
  BY <1>1, <1>2, SdSizes DEF DownloadTimes, ChunkLen, LastDownloadBlockNum, ChunkStart

\* The last download ends with the file.
LEMMA LastChunkEnd ==
  ASSUME NEW num \in Nat, NEW dl \in Nat, dl + 1 = DownloadTimes(num)
  PROVE  ChunkStart(dl) + ChunkLen(num, dl) = num
<1> DEFINE M == SD_MAX_BLOCK_NUM
           q == num \div M
           r == num % M
<1>1. q \in Nat /\ r \in 0 .. M - 1 /\ num = M * q + r /\ M \in Nat \ {0}
  BY DivMod, SdSizes
<1>2. CASE r # 0
  <2>1. dl = q
    BY <1>1, <1>2 DEF DownloadTimes
  <2> QED
    BY <1>1, <1>2, <2>1 DEF ChunkStart, ChunkLen, LastDownloadBlockNum
<1>3. CASE r = 0
  <2>1. q = dl + 1
    BY <1>1, <1>3 DEF DownloadTimes
  <2>2. M * q = M * dl + M
    BY <1>1, <2>1
  <2> QED
    BY <1>1, <1>3, <2>2 DEF ChunkStart, ChunkLen, LastDownloadBlockNum
<1> QED
  BY <1>1, <1>2, <1>3

\* Downloads follow one another: a later one starts where the earlier ends.
LEMMA ChunkStartStep ==
  ASSUME NEW dl \in Nat, NEW j \in Nat
  PROVE  /\ ChunkStart(dl + 1) = ChunkStart(dl) + SD_MAX_BLOCK_NUM
         /\ dl < j => ChunkStart(dl) + SD_MAX_BLOCK_NUM <= ChunkStart(j)
<1>1. SD_MAX_BLOCK_NUM * (dl + 1) = SD_MAX_BLOCK_NUM * dl + SD_MAX_BLOCK_NUM
  BY SdSizes
<1>2. ASSUME dl < j PROVE SD_MAX_BLOCK_NUM * dl + SD_MAX_BLOCK_NUM <= SD_MAX_BLOCK_NUM * j
  <2>1. PICK e \in Nat : j = dl + 1 + e
    BY <1>2, j = dl + 1 + (j - dl - 1)
  <2>2. SD_MAX_BLOCK_NUM * j = SD_MAX_BLOCK_NUM * dl + SD_MAX_BLOCK_NUM + SD_MAX_BLOCK_NUM * e
    BY <2>1, SdSizes
  <2>3. SD_MAX_BLOCK_NUM * e >= 0
    BY SdSizes
  <2> QED
    BY <2>2, <2>3, SdSizes
<1> QED
  BY <1>1, <1>2 DEF ChunkStart

\* A download before the last one is full, and every download is in the file.
LEMMA ChunkInFile ==
  ASSUME NEW num \in Nat, NEW dl \in Nat, dl < DownloadTimes(num)
  PROVE  /\ ChunkStart(dl) + ChunkLen(num, dl) <= num
         /\ dl + 1 # DownloadTimes(num) => ChunkLen(num, dl) = SD_MAX_BLOCK_NUM
<1>1. DownloadTimes(num) \in Nat
  BY ChunkLenBounds
<1>2. CASE dl + 1 = DownloadTimes(num)
  BY <1>2, <1>1, LastChunkEnd, ChunkLenBounds
<1>3. CASE dl + 1 # DownloadTimes(num)
  <2> DEFINE l == DownloadTimes(num) - 1
  <2>1. l \in Nat /\ dl < l /\ l + 1 = DownloadTimes(num)
    BY <1>1, <1>3
  <2>2. ChunkStart(l) + ChunkLen(num, l) = num /\ ChunkLen(num, l) >= 1
    BY <2>1, LastChunkEnd, ChunkLenBounds
  <2>3. ChunkStart(dl) + SD_MAX_BLOCK_NUM <= ChunkStart(l)
    BY <2>1, ChunkStartStep
  <2>4. ChunkLen(num, dl) = SD_MAX_BLOCK_NUM
    BY <1>3 DEF ChunkLen
  <2>5. ChunkStart(dl) \in Nat /\ ChunkStart(l) \in Nat /\ ChunkLen(num, l) \in Nat
    BY <2>1, ChunkLenBounds
  <2> QED
    BY <2>2, <2>3, <2>4, <2>5, SdSizes
<1> QED
  BY <1>2, <1>3

\* An empty file, and no other, has no downloads.
LEMMA NoDownloads ==
  ASSUME NEW num \in Nat
  PROVE  DownloadTimes(num) = 0 <=> num = 0
<1>1. DownloadTimes(num) \in Nat
  BY ChunkLenBounds
<1>2. CASE DownloadTimes(num) # 0
  <2>1. 0 < DownloadTimes(num) /\ 0 \in Nat
    BY <1>1, <1>2
  <2>2. ChunkStart(0) + ChunkLen(num, 0) <= num /\ ChunkLen(num, 0) >= 1 /\ ChunkStart(0) \in Nat
        /\ ChunkLen(num, 0) \in Nat
    BY <2>1, ChunkInFile, ChunkLenBounds
  <2> QED
    BY <1>2, <2>2
<1>3. CASE DownloadTimes(num) = 0
  <2> DEFINE q == num \div SD_MAX_BLOCK_NUM
             r == num % SD_MAX_BLOCK_NUM
  <2>1. q \in Nat /\ r \in 0 .. SD_MAX_BLOCK_NUM - 1 /\ num = SD_MAX_BLOCK_NUM * q + r
    BY DivMod, SdSizes
  <2>2. q = 0 /\ r = 0
    BY <1>3, <2>1 DEF DownloadTimes
  <2>3. SD_MAX_BLOCK_NUM * q = 0
    BY <2>2, SdSizes
  <2> QED
    BY <1>3, <2>1, <2>2, <2>3
<1> QED
  BY <1>2, <1>3

\* The downloads of sd_card_program tile the file: each block is in exactly one
\* of them, none is empty, none exceeds SD_MAX_BLOCK_NUM or the file's end.
THEOREM DownloadsTile == \A num \in Nat : Tiles(num)
<1> SUFFICES ASSUME NEW num \in Nat PROVE Tiles(num)
  OBVIOUS
<1> DEFINE M == SD_MAX_BLOCK_NUM
           t == DownloadTimes(num)
           q == num \div M
<1>1. M \in Nat \ {0} /\ t \in Nat
  BY SdSizes, ChunkLenBounds
<1>2. ASSUME NEW dl \in 0 .. t - 1
      PROVE  /\ ChunkLen(num, dl) \in 1 .. M
             /\ ChunkStart(dl) \in Nat
             /\ ChunkStart(dl) + ChunkLen(num, dl) <= num
             /\ dl + 1 # t => ChunkLen(num, dl) = M
  <2>1. dl \in Nat /\ dl < t
    BY <1>1
  <2>2. ChunkLen(num, dl) \in 1 .. M /\ ChunkStart(dl) \in Nat
    BY <2>1, ChunkLenBounds
  <2>3. ChunkStart(dl) + ChunkLen(num, dl) <= num /\ (dl + 1 # t => ChunkLen(num, dl) = M)
    BY <2>1, ChunkInFile
  <2> QED
    BY <2>2, <2>3
<1>3. ASSUME NEW n \in 0 .. num - 1
      PROVE  \E dl \in 0 .. t - 1 :
               /\ ChunkStart(dl) <= n /\ n < ChunkStart(dl) + ChunkLen(num, dl)
               /\ \A j \in 0 .. t - 1 :
                    ChunkStart(j) <= n /\ n < ChunkStart(j) + ChunkLen(num, j) => j = dl
  <2> DEFINE dl == n \div M
  <2>1. dl \in Nat /\ ChunkStart(dl) <= n /\ n < ChunkStart(dl) + M
    <3>1. n \in Nat
      OBVIOUS
    <3>2. dl \in Nat /\ n % M \in 0 .. M - 1 /\ n = M * dl + (n % M)
      BY <3>1, <1>1, DivMod
    <3>3. M * dl \in Nat
      BY <3>2, <1>1
    <3> DEFINE x == M * dl
               y == n % M
    <3>4. ChunkStart(dl) = x /\ x \in Nat /\ y \in 0 .. M - 1 /\ n = x + y /\ M \in Nat
      BY <3>2, <3>3, <1>1 DEF ChunkStart
    <3> HIDE DEF x, y, dl
    <3>5. x <= n /\ n < x + M
      BY <3>4
    <3> QED
      BY <3>2, <3>4, <3>5
  <2> HIDE DEF dl
  <2>2. dl < t
    <3> SUFFICES ASSUME t <= dl PROVE FALSE
      BY <1>1, <2>1
    <3>1. CASE t = 0
      <4>1. num = M * q + (num % M) /\ num % M \in 0 .. M - 1 /\ q \in Nat
        BY <1>1, DivMod
      <4>2. q = 0 /\ num % M = 0
        BY <3>1, <4>1 DEF DownloadTimes
      <4>3. M * q = 0
        BY <4>2, <1>1
      <4> QED
        BY <4>1, <4>2, <4>3
    <3>2. CASE t # 0
      <4> DEFINE l == t - 1
      <4>1. l \in 0 .. t - 1 /\ l \in Nat /\ l + 1 = t /\ l < dl
        BY <1>1, <2>1, <3>2
      <4>2. ChunkStart(l) + ChunkLen(num, l) = num
        BY <4>1, LastChunkEnd
      <4>3. ChunkStart(l) + M <= ChunkStart(dl)
        BY <4>1, <2>1, ChunkStartStep
      <4>4. ChunkLen(num, l) <= M /\ ChunkLen(num, l) \in Nat /\ ChunkStart(l) \in Nat
        BY <4>1, <1>2, <1>1
      <4>5. ChunkStart(dl) \in Nat
        BY <2>1, ChunkLenBounds
      <4> QED
        BY <1>1, <2>1, <4>2, <4>3, <4>4, <4>5
    <3> QED
      BY <3>1, <3>2
  <2>3. n < ChunkStart(dl) + ChunkLen(num, dl)
    <3>1. dl \in 0 .. t - 1 /\ ChunkStart(dl) \in Nat
      BY <1>1, <2>1, <2>2, ChunkLenBounds
    <3>2. CASE dl + 1 = t
      BY <3>1, <3>2, <2>1, LastChunkEnd
    <3>3. CASE dl + 1 # t
      BY <3>1, <3>3, <1>2, <2>1
    <3> QED
      BY <3>2, <3>3
  <2>4. ASSUME NEW j \in 0 .. t - 1, ChunkStart(j) <= n, n < ChunkStart(j) + ChunkLen(num, j)
        PROVE  j = dl
    <3>1. j \in Nat /\ ChunkStart(j) \in Nat /\ ChunkLen(num, j) \in 1 .. M
      BY <1>1, <1>2
    <3> ChunkStart(dl) \in Nat
      BY <2>1, ChunkLenBounds
    <3>2. ~(j < dl)
      BY <3>1, <2>1, <2>4, <1>1, ChunkStartStep
    <3>3. ~(dl < j)
      BY <3>1, <2>1, <2>4, <1>1, ChunkStartStep
    <3> QED
      BY <3>1, <3>2, <3>3, <2>1
  <2> QED
    BY <2>1, <2>2, <2>3, <2>4, <1>1
<1> QED
  BY <1>2, <1>3 DEF Tiles

-----------------------------------------------------------------------------
(***************************************************************************)
(* Types.                                                                  *)
(***************************************************************************)

TypeInv == TypeOK /\ SizesOK

\* What the types give about the job and the download under way.
LEMMA JobFacts ==
  ASSUME TypeOK
  PROVE  /\ job.size \in Nat /\ job.check \in BOOLEAN
         /\ nb \in Nat /\ DownloadTimes(nb) \in Nat
         /\ job.data \in [0 .. nb - 1 -> Block]
         /\ len \in 1 .. SD_MAX_BLOCK_NUM /\ len \in Nat
         /\ ChunkStart(i) \in Nat /\ BlockAddr(job.addr) \in Nat
         /\ addr \in Nat /\ addr = BlockAddr(job.addr) + ChunkStart(i)
<1>1. /\ job.size \in Nat /\ job.addr \in Nat /\ job.check \in BOOLEAN /\ i \in Nat
      /\ job.data \in [0 .. BlockNums(job.size) - 1 -> Block]
  BY HostAssumptions DEF TypeOK, HostTypeOK
<1>2. nb \in Nat /\ BlockAddr(job.addr) \in Nat
  BY <1>1, BlockNumsNat DEF nb
<1>3. DownloadTimes(nb) \in Nat /\ len \in 1 .. SD_MAX_BLOCK_NUM /\ ChunkStart(i) \in Nat
  BY <1>1, <1>2, ChunkLenBounds DEF len
<1> QED
  BY <1>1, <1>2, <1>3, SdSizes DEF nb, addr

\* The control messages are well-formed requests.
LEMMA ControlRequestType ==
  ASSUME TypeOK, hpc \in ControlPc
  PROVE  /\ ControlRequest \in Request
         /\ ControlRequest # NoReq
         /\ ControlRequest.op = "VR_SET_DATA_LENGTH" =>
              ControlRequest.arg <= SD_MAX_BLOCK_NUM
<1>1. len \in 1 .. SD_MAX_BLOCK_NUM /\ addr \in Nat
  BY JobFacts
<1>2. ControlRequest \in Request
  BY <1>1, SdSizes DEF ControlRequest, ControlPc, Request, CardOps, AddrReq, LenReq,
     ProgramReq, ReadReq
<1>3. ControlRequest.op = "VR_SET_DATA_LENGTH" => ControlRequest.arg = len
  BY <1>1 DEF ControlRequest, ControlPc, AddrReq, LenReq, ProgramReq, ReadReq
<1> QED
  BY <1>1, <1>2, <1>3, NoReqAssumption, SdSizes

\* The download under way only depends on the job and on i.
LEMMA SameDownload ==
  ASSUME job' = job, i' = i
  PROVE  nb' = nb /\ len' = len /\ addr' = addr
BY DEF nb, len, addr

\* The blocks of the download under way are blocks of the file.
LEMMA DownloadInFile ==
  ASSUME TypeOK, i < DownloadTimes(nb)
  PROVE  /\ ChunkStart(i) + len <= nb
         /\ \A n \in 0 .. len - 1 : ChunkStart(i) + n \in 0 .. nb - 1
<1>1. i \in Nat /\ nb \in Nat /\ ChunkStart(i) \in Nat /\ len \in Nat
  BY JobFacts DEF TypeOK, HostTypeOK
<1>2. ChunkStart(i) + len <= nb
  BY <1>1, ChunkInFile DEF len
<1> QED
  BY <1>1, <1>2

\* The types at the start.
LEMMA InitType == Init => TypeInv
<1> SUFFICES ASSUME Init PROVE TypeInv
  OBVIOUS
<1> USE DEF Init, DeviceInit, HostInit
<1>1. DeviceTypeOK
  BY DeviceAssumptions DEF DeviceTypeOK
<1>2. HostTypeOK
  <2>1. Junk \in Block /\ MaxRuns \in Nat
    BY HostAssumptions
  <2>2. hpc \in HostPc
    BY DEF HostPc, Stopped
  <2>3. origin_data \in [ChunkIndex -> Block] /\ readback_data \in [ChunkIndex -> Block]
    BY <2>1
  <2>4. runs \in 0 .. MaxRuns
    BY <2>1
  <2>5. ctl \in BOOLEAN /\ clean \in BOOLEAN /\ job \in Jobs /\ i \in Nat /\ k \in Nat
    OBVIOUS
  <2> QED
    BY <2>2, <2>3, <2>4, <2>5 DEF HostTypeOK
<1>3. SizesOK
  BY SdSizes DEF SizesOK, Stopped, ControlPc
<1> QED
  BY <1>1, <1>2, <1>3 DEF TypeInv, TypeOK

\* Every step keeps the types.
LEMMA NextType == TypeInv /\ [Next]_vars => TypeInv'
<1> SUFFICES ASSUME TypeInv, [Next]_vars PROVE TypeInv'
  OBVIOUS
<1> USE DEF TypeInv
<1>0. TypeOK /\ DeviceTypeOK /\ HostTypeOK /\ SizesOK
  BY DEF TypeOK
<1>f. /\ nb \in Nat /\ DownloadTimes(nb) \in Nat /\ len \in 1 .. SD_MAX_BLOCK_NUM
      /\ SD_MAX_BLOCK_NUM \in Nat /\ BufBlocks \in Nat /\ SD_MAX_BLOCK_NUM <= BufBlocks
      /\ CardBlocks \in Nat
  BY <1>0, JobFacts, SdSizes, DeviceAssumptions, HostAssumptions
<1>s. job' = job /\ i' = i => nb' = nb /\ len' = len
  BY SameDownload
<1>d. ASSUME UNCHANGED hostVars, DeviceTypeOK',
             ops_length' <= SD_MAX_BLOCK_NUM,
             setup' \in {setup, NoReq},
             pc' = "op" => \/ pc = "op" /\ req' = req
                           \/ setup # NoReq /\ req' = setup,
             Bulk_in_finish' <= Bulk_in_size', Bulk_in_size' <= SD_MAX_BLOCK_NUM
      PROVE  TypeInv'
  <2>1. HostTypeOK' /\ nb' = nb /\ len' = len
    BY <1>0, <1>d, <1>s DEF HostTypeOK, hostVars
  <2>2. SizesOK'
    BY <1>0, <1>d, <2>1, NoReqAssumption DEF SizesOK, hostVars, DeviceTypeOK
  <2> QED
    BY <1>d, <2>1, <2>2 DEF TypeOK
<1>1. ASSUME ReadIntrIn, UNCHANGED hostVars PROVE TypeInv'
  <2>1. DeviceTypeOK'
    BY <1>0, <1>1 DEF ReadIntrIn, DeviceTypeOK, SizesOK, outVars, inVars, opsVars
  <2> QED
    BY <1>0, <1>1, <1>d, <2>1 DEF ReadIntrIn, DeviceTypeOK, SizesOK, inVars, opsVars
<1>26. ASSUME ReadIntrUsb, UNCHANGED hostVars PROVE TypeInv'
  <2>1. DeviceTypeOK'
    BY <1>0, <1>26 DEF ReadIntrUsb, DeviceTypeOK, SizesOK, outVars, inVars, opsVars
  <2> QED
    BY <1>0, <1>26, <1>d, <2>1 DEF ReadIntrUsb, DeviceTypeOK, SizesOK, inVars, opsVars
<1>2. ASSUME ReadIntrOut, UNCHANGED hostVars PROVE TypeInv'
  <2>1. DeviceTypeOK'
    BY <1>0, <1>2 DEF ReadIntrOut, DeviceTypeOK, SizesOK, outVars, inVars, opsVars
  <2> QED
    BY <1>0, <1>2, <1>d, <2>1 DEF ReadIntrOut, DeviceTypeOK, SizesOK, inVars, opsVars
<1>3. ASSUME EPIN_Handler, UNCHANGED hostVars PROVE TypeInv'
  <2>1. DeviceTypeOK'
    BY <1>0, <1>3, <1>f DEF EPIN_Handler, FifoAfter, BufIndex, DeviceTypeOK, SizesOK, outVars, inVars, opsVars
  <2> QED
    BY <1>0, <1>3, <1>d, <2>1 DEF EPIN_Handler, FifoAfter, BufIndex, DeviceTypeOK, SizesOK, inVars, opsVars
<1>4. ASSUME EPOUT_Handler, UNCHANGED hostVars PROVE TypeInv'
  <2>0. Bulk_out_buf' \in [BufIndex -> Block] /\ Bulk_out_size' \in Nat /\ overrun' \in BOOLEAN
    <3>1. CASE outFifo = NoPkt
      BY <1>0, <1>4, <3>1 DEF EPOUT_Handler, DeviceTypeOK, outVars
    <3>2. CASE outFifo # NoPkt /\ Bulk_out_size \in BufIndex
      BY <1>0, <1>4, <3>2 DEF EPOUT_Handler, DeviceTypeOK
    <3>3. CASE outFifo # NoPkt /\ Bulk_out_size \notin BufIndex
      BY <1>0, <1>4, <3>3 DEF EPOUT_Handler, DeviceTypeOK
    <3> QED
      BY <3>1, <3>2, <3>3
  <2>1. DeviceTypeOK'
    BY <1>0, <1>4, <2>0 DEF EPOUT_Handler, DeviceTypeOK, inVars, opsVars
  <2> QED
    BY <1>0, <1>4, <1>d, <2>1 DEF EPOUT_Handler, DeviceTypeOK, SizesOK, inVars, opsVars
<1>5. ASSUME udc_reset, UNCHANGED hostVars PROVE TypeInv'
  <2>1. DeviceTypeOK'
    BY <1>0, <1>5 DEF udc_reset, DeviceTypeOK, SizesOK, outVars, inVars, opsVars
  <2> QED
    BY <1>0, <1>5, <1>d, <1>f, <2>1 DEF udc_reset, DeviceTypeOK, SizesOK, inVars, opsVars
<1>6. ASSUME EP0_SetupEnd, UNCHANGED hostVars PROVE TypeInv'
  <2>1. DeviceTypeOK'
    BY <1>0, <1>6 DEF EP0_SetupEnd, Endpoint0Turn, DeviceTypeOK, SizesOK, outVars, inVars, opsVars
  <2> QED
    BY <1>0, <1>6, <1>d, <2>1 DEF EP0_SetupEnd, Endpoint0Turn, DeviceTypeOK, SizesOK, inVars, opsVars
<1>7. ASSUME EP0_Handler, UNCHANGED hostVars PROVE TypeInv'
  <2>1. DeviceTypeOK'
    BY <1>0, <1>7 DEF EP0_Handler, Endpoint0Turn, DeviceTypeOK, SizesOK, outVars, inVars, opsVars
  <2> QED
    BY <1>0, <1>7, <1>d, <2>1 DEF EP0_Handler, Endpoint0Turn, DeviceTypeOK, SizesOK, inVars, opsVars
<1>8. ASSUME SET_DATA_ADDERSS_Handle, UNCHANGED hostVars PROVE TypeInv'
  <2>0. req.arg \in Nat
    BY <1>0, <1>8 DEF SET_DATA_ADDERSS_Handle, OpReturns, SizesOK, Request, CardOps
  <2>1. DeviceTypeOK'
    BY <1>0, <1>8, <2>0 DEF SET_DATA_ADDERSS_Handle, OpReturns, DeviceTypeOK, SizesOK, outVars, inVars, opsVars
  <2> QED
    BY <1>0, <1>8, <1>d, <2>1 DEF SET_DATA_ADDERSS_Handle, OpReturns, DeviceTypeOK, SizesOK, inVars, opsVars
<1>9. ASSUME SET_DATA_LENGTH_Handle, UNCHANGED hostVars PROVE TypeInv'
  <2>0. req.arg \in Nat
    BY <1>0, <1>9 DEF SET_DATA_LENGTH_Handle, OpReturns, SizesOK, Request, CardOps
  <2>1. DeviceTypeOK'
    BY <1>0, <1>9, <2>0 DEF SET_DATA_LENGTH_Handle, OpReturns, DeviceTypeOK, SizesOK, outVars, inVars, opsVars
  <2> QED
    BY <1>0, <1>9, <1>d, <2>1 DEF SET_DATA_LENGTH_Handle, OpReturns, DeviceTypeOK, SizesOK, inVars, opsVars
<1>10. ASSUME CardProgram, UNCHANGED hostVars PROVE TypeInv'
  <2>1. card' \in [CardIndex -> Block]
    BY <1>0, <1>10, <1>f DEF CardProgram, mmc_block_writem, Transferred, DeviceTypeOK,
       SizesOK, CardIndex, BufIndex
  <2>2. DeviceTypeOK'
    BY <1>0, <1>10, <2>1 DEF CardProgram, OpReturns, SendHandshake, FifoAfter, DeviceTypeOK, SizesOK, outVars, inVars, opsVars
  <2> QED
    BY <1>0, <1>10, <1>d, <1>f, <2>2 DEF CardProgram, OpReturns, SendHandshake, FifoAfter, DeviceTypeOK, SizesOK, inVars, opsVars
<1>11. ASSUME CardRead, UNCHANGED hostVars PROVE TypeInv'
  <2>1. Bulk_in_buf' \in [BufIndex -> Block] /\ 0 \in BufIndex
    BY <1>0, <1>11, <1>f, DeviceAssumptions DEF CardRead, mmc_block_readm, Transferred,
       DeviceTypeOK, SizesOK, CardIndex, BufIndex
  <2>2. DeviceTypeOK'
    BY <1>0, <1>11, <2>1 DEF CardRead, OpReturns, SendBulk, FifoAfter, DeviceTypeOK, SizesOK, outVars, inVars, opsVars
  <2> QED
    BY <1>0, <1>11, <1>d, <1>f, <2>2 DEF CardRead, OpReturns, SendBulk, FifoAfter, DeviceTypeOK, SizesOK, inVars, opsVars
<1>12. ASSUME NEW j \in Jobs, sd_card_program(j) PROVE TypeInv'
  <2>1. UNCHANGED deviceVars /\ job' = j /\ i' = 0 /\ k' = 0 /\ ctl' = FALSE
    BY <1>12 DEF sd_card_program
  <2>2. DeviceTypeOK'
    BY <1>0, <2>1 DEF DeviceTypeOK, deviceVars, usbVars, loopVars, outVars, inVars, opsVars
  <2>3. hpc' \in {"success", "file", "failed"} /\ HostTypeOK'
    <3>1. hpc' \in {"success", "file", "failed"}
      BY <1>12 DEF sd_card_program
    <3>2. origin_data' \in [ChunkIndex -> Block] /\ readback_data' \in [ChunkIndex -> Block]
      BY <1>12, HostAssumptions DEF sd_card_program
    <3>3. runs' \in 0 .. MaxRuns /\ clean' \in BOOLEAN
      BY <1>0, <1>12, HostAssumptions DEF sd_card_program, HostTypeOK, DeviceQuiet
    <3> QED
      BY <2>1, <3>1, <3>2, <3>3 DEF HostTypeOK, HostPc, Stopped
  <2>4. hpc' = "file" => 0 < DownloadTimes(nb')
    <3>1. nb' = BlockNums(j.size) /\ nb' \in Nat
      BY <2>1, HostAssumptions, BlockNumsNat DEF nb
    <3>2. DownloadTimes(nb') \in Nat
      BY <3>1, ChunkLenBounds
    <3> QED
      BY <1>12, <3>1, <3>2 DEF sd_card_program
  <2>5. SizesOK'
    BY <1>0, <2>1, <2>3, <2>4 DEF SizesOK, Stopped, ControlPc, deviceVars, usbVars, loopVars,
       outVars, inVars, opsVars
  <2> QED
    BY <2>2, <2>3, <2>5 DEF TypeOK
<1>h. ASSUME DeviceTypeOK', UNCHANGED <<setup, pc, req, ops_length, Bulk_in_finish, Bulk_in_size>>,
             HostTypeOK', job' = job, ctl' = FALSE,
             hpc' \notin Stopped => i' < DownloadTimes(nb),
             hpc' \in {"w_data", "r_data"} => k' < len',
             hpc' \in {"w_hs", "r_addr", "r_len", "r_op"} => k' = 0
      PROVE  TypeInv'
  <2>2. nb' = nb
    BY <1>h DEF nb
  <2>3. SizesOK'
    BY <1>0, <1>h, <2>2 DEF SizesOK
  <2> QED
    BY <1>h, <2>3 DEF TypeOK
<1>u. ASSUME UNCHANGED deviceVars
      PROVE  DeviceTypeOK' /\ UNCHANGED <<setup, pc, req, ops_length, Bulk_in_finish, Bulk_in_size>>
  BY <1>0, <1>u DEF DeviceTypeOK, deviceVars, usbVars, loopVars, outVars, inVars, opsVars
<1>t. ASSUME TakePacket
      PROVE  DeviceTypeOK' /\ UNCHANGED <<setup, pc, req, ops_length, Bulk_in_finish, Bulk_in_size>>
  BY <1>0, <1>t DEF TakePacket, DeviceTypeOK, loopVars, outVars, inVars, opsVars
\* Outside a control message none is under way.
<1>c. hpc \notin ControlPc => ctl = FALSE
  BY <1>0 DEF SizesOK, HostTypeOK
<1>13. ASSUME ReadFile PROVE TypeInv'
  <2>1. hpc = "file" /\ ctl' = FALSE /\ UNCHANGED <<job, i, k, readback_data, runs, clean>>
    BY <1>13, <1>c DEF ReadFile, ControlPc
  <2>2. i < DownloadTimes(nb)
    BY <1>0, <2>1 DEF SizesOK, Stopped
  <2>3. origin_data' \in [ChunkIndex -> Block] /\ hpc' \in {"failed", "w_addr"}
    <3>1. ASSUME NEW n \in ChunkIndex, n < len
          PROVE  job.data[ChunkStart(i) + n] \in Block
      <4>1. ChunkStart(i) + n \in 0 .. nb - 1
        BY <1>0, <1>f, <2>2, <3>1, DownloadInFile DEF ChunkIndex
      <4> QED
        BY <1>0, <4>1, JobFacts
    <3> QED
      BY <1>0, <1>13, <3>1 DEF ReadFile, HostTypeOK
  <2>4. HostTypeOK'
    BY <1>0, <2>1, <2>3 DEF HostTypeOK, HostPc, Stopped, ControlPc
  <2> QED
    BY <1>13, <1>h, <1>u, <2>1, <2>2, <2>3, <2>4 DEF ReadFile
<1>14. ASSUME ReadFileError PROVE TypeInv'
  <2>1. hpc = "file" /\ ctl' = FALSE /\ UNCHANGED <<job, i, k, readback_data, runs, clean>>
    BY <1>14, <1>c DEF ReadFileError, ControlPc
  <2>2. i < DownloadTimes(nb)
    BY <1>0, <2>1 DEF SizesOK, Stopped
  <2>3. origin_data' \in [ChunkIndex -> Block] /\ hpc' \in {"failed", "w_addr"}
    BY <1>0, <1>14 DEF ReadFileError, HostTypeOK
  <2>4. HostTypeOK'
    BY <1>0, <2>1, <2>3 DEF HostTypeOK, HostPc, Stopped, ControlPc
  <2> QED
    BY <1>14, <1>h, <1>u, <2>1, <2>2, <2>3, <2>4 DEF ReadFileError
<1>15. ASSUME SendControl PROVE TypeInv'
  <2>1. /\ hpc \in ControlPc /\ setup' = ControlRequest /\ ControlRequest \in Request
        /\ ControlRequest.op = "VR_SET_DATA_LENGTH" => ControlRequest.arg <= SD_MAX_BLOCK_NUM
    BY <1>0, <1>15, ControlRequestType DEF SendControl
  <2>2. DeviceTypeOK'
    BY <1>0, <1>15, <2>1 DEF SendControl, DeviceTypeOK, loopVars, outVars, inVars, opsVars
  <2>3. HostTypeOK' /\ nb' = nb /\ len' = len
    BY <1>0, <1>15, <1>s DEF SendControl, HostTypeOK
  <2>4. SizesOK'
    BY <1>0, <1>15, <2>1, <2>3 DEF SendControl, SizesOK, loopVars, inVars, opsVars
  <2> QED
    BY <2>2, <2>3, <2>4 DEF TypeOK
<1>16. ASSUME ControlDone PROVE TypeInv'
  <2>1. /\ hpc \in ControlPc /\ hpc' = AfterControl /\ k' = 0 /\ ctl' = FALSE
        /\ UNCHANGED <<deviceVars, job, i, origin_data, readback_data, runs, clean>>
    BY <1>0, <1>16 DEF ControlDone, SizesOK
  <2>2. hpc' \in HostPc \ Stopped
    BY <2>1 DEF AfterControl, HostPc, ControlPc, Stopped
  <2>3. i < DownloadTimes(nb)
    BY <1>0, <2>1 DEF SizesOK, Stopped, ControlPc
  <2>4. HostTypeOK'
    BY <1>0, <2>1, <2>2 DEF HostTypeOK
  <2>5. k' < len'
    BY <1>f, <1>s, <2>1
  <2> QED
    BY <1>h, <1>u, <2>1, <2>3, <2>4, <2>5
<1>17. ASSUME SendPacket PROVE TypeInv'
  <2>1. /\ hpc = "w_data" /\ ctl' = FALSE /\ k' = k + 1
        /\ UNCHANGED <<job, i, origin_data, readback_data, runs, clean>>
        /\ hpc' = IF k + 1 = len THEN "w_op" ELSE hpc
    BY <1>17, <1>c DEF SendPacket, ControlPc
  <2>2. k < len /\ i < DownloadTimes(nb) /\ k \in Nat
    BY <1>0, <2>1 DEF SizesOK, Stopped, HostTypeOK
  <2>3. HostTypeOK'
    <3>1. hpc' \in HostPc /\ k' \in Nat
      BY <2>1, <2>2 DEF HostPc, ControlPc
    <3> QED
      BY <1>0, <2>1, <3>1 DEF HostTypeOK
  <2>4. origin_data[k] \in Block
    BY <1>0, <1>f, <2>2 DEF HostTypeOK, ChunkIndex
  <2>5. DeviceTypeOK'
    BY <1>0, <1>17, <2>4 DEF SendPacket, DeviceTypeOK, loopVars, outVars, inVars, opsVars
  <2>6. hpc' = "w_data" => k' < len'
    BY <1>f, <1>s, <2>1, <2>2
  <2>7. UNCHANGED <<setup, pc, req, ops_length, Bulk_in_finish, Bulk_in_size>>
    BY <1>17 DEF SendPacket, loopVars, inVars, opsVars
  <2>8. hpc' \in {"w_data", "w_op"}
    BY <2>1
  <2> QED
    BY <1>h, <2>1, <2>2, <2>3, <2>5, <2>6, <2>7, <2>8
<1>n. ASSUME NextDownload, i < DownloadTimes(nb)
      PROVE  /\ hpc' \in {"success", "file"} /\ i' \in Nat
             /\ hpc' = "file" => i' < DownloadTimes(nb)
  BY <1>0, <1>f, <1>n DEF NextDownload, HostTypeOK
<1>18. ASSUME ReadHandshake PROVE TypeInv'
  <2>1. /\ hpc = "w_hs" /\ ctl' = FALSE /\ TakePacket
        /\ UNCHANGED <<job, k, origin_data, readback_data, runs, clean>>
    BY <1>18, <1>c DEF ReadHandshake, ControlPc
  <2>2. i < DownloadTimes(nb) /\ k = 0
    BY <1>0, <2>1 DEF SizesOK, Stopped
  <2>3. /\ hpc' \in {"success", "file", "r_addr"} /\ i' \in Nat
        /\ hpc' \in {"file", "r_addr"} => i' < DownloadTimes(nb)
    BY <1>0, <1>18, <1>n, <2>2 DEF ReadHandshake, HostTypeOK
  <2>4. HostTypeOK'
    BY <1>0, <2>1, <2>3 DEF HostTypeOK, HostPc, Stopped, ControlPc
  <2> QED
    BY <1>h, <1>t, <2>1, <2>2, <2>3, <2>4 DEF Stopped
<1>19. ASSUME HandshakeOverflow PROVE TypeInv'
  <2>1. /\ hpc' = "failed" /\ ctl' = FALSE
        /\ UNCHANGED <<job, i, k, origin_data, readback_data, runs, clean>>
    BY <1>19, <1>c DEF HandshakeOverflow, ControlPc
  <2>2. HostTypeOK'
    BY <1>0, <2>1 DEF HostTypeOK, HostPc, Stopped
  <2> QED
    BY <1>19, <1>h, <1>t, <1>u, <2>1, <2>2 DEF HandshakeOverflow, Stopped
<1>20. ASSUME ReadPacket PROVE TypeInv'
  <2>1. /\ hpc = "r_data" /\ ctl' = FALSE /\ k' = k + 1 /\ TakePacket /\ inFifo \in Block
        /\ readback_data' = [readback_data EXCEPT ![k] = inFifo]
        /\ UNCHANGED <<job, i, origin_data, runs, clean>>
        /\ hpc' = IF k + 1 = len THEN "cmp" ELSE hpc
    BY <1>20, <1>c DEF ReadPacket, ControlPc
  <2>2. k < len /\ i < DownloadTimes(nb) /\ k \in Nat
    BY <1>0, <2>1 DEF SizesOK, Stopped, HostTypeOK
  <2>3. readback_data' \in [ChunkIndex -> Block]
    BY <1>0, <2>1 DEF HostTypeOK
  <2>4. HostTypeOK'
    <3>1. hpc' \in HostPc /\ k' \in Nat
      BY <2>1, <2>2 DEF HostPc
    <3> QED
      BY <1>0, <2>1, <2>3, <3>1 DEF HostTypeOK
  <2>5. hpc' \in {"r_data", "cmp"} /\ (hpc' = "r_data" => k' < len')
    BY <1>f, <1>s, <2>1, <2>2
  <2> QED
    BY <1>h, <1>t, <2>1, <2>2, <2>4, <2>5
<1>21. ASSUME ReadShort PROVE TypeInv'
  <2>1. /\ hpc' = "failed" /\ ctl' = FALSE /\ TakePacket
        /\ UNCHANGED <<job, i, k, origin_data, readback_data, runs, clean>>
    BY <1>21, <1>c DEF ReadShort, ControlPc
  <2>2. HostTypeOK'
    BY <1>0, <2>1 DEF HostTypeOK, HostPc, Stopped
  <2> QED
    BY <1>h, <1>t, <2>1, <2>2 DEF Stopped
<1>22. ASSUME Compare PROVE TypeInv'
  <2>1. /\ hpc = "cmp" /\ ctl' = FALSE
        /\ UNCHANGED <<deviceVars, job, k, origin_data, readback_data, runs, clean>>
    BY <1>22, <1>c DEF Compare, ControlPc
  <2>2. i < DownloadTimes(nb)
    BY <1>0, <2>1 DEF SizesOK, Stopped
  <2>3. /\ hpc' \in {"success", "file", "failed"} /\ i' \in Nat
        /\ hpc' = "file" => i' < DownloadTimes(nb)
    BY <1>0, <1>22, <1>n, <2>2 DEF Compare, HostTypeOK
  <2>4. HostTypeOK'
    BY <1>0, <2>1, <2>3 DEF HostTypeOK, HostPc, Stopped
  <2> QED
    BY <1>h, <1>u, <2>1, <2>3, <2>4 DEF Stopped
<1>23. ASSUME Abort PROVE TypeInv'
  <2>1. /\ hpc' = "failed" /\ ctl' = FALSE
        /\ UNCHANGED <<deviceVars, job, i, k, origin_data, readback_data, runs, clean>>
    BY <1>23 DEF Abort
  <2>2. HostTypeOK'
    BY <1>0, <2>1 DEF HostTypeOK, HostPc, Stopped
  <2> QED
    BY <1>h, <1>u, <2>1, <2>2 DEF Stopped
<1>24. ASSUME BusReset PROVE TypeInv'
  <2>1. DeviceTypeOK' /\ setup' = NoReq
    BY <1>0, <1>24 DEF BusReset, DeviceTypeOK, loopVars, outVars, inVars, opsVars
  <2>2. hpc' \in Stopped /\ HostTypeOK' /\ ctl' = FALSE
    BY <1>0, <1>24 DEF BusReset, HostTypeOK, HostPc, Stopped
  <2>3. SizesOK'
    BY <1>0, <1>24, <2>1, <2>2 DEF BusReset, SizesOK, Stopped, ControlPc, loopVars, inVars, opsVars
  <2> QED
    BY <2>1, <2>2, <2>3 DEF TypeOK
<1>25. ASSUME UNCHANGED vars PROVE TypeInv'
  <2>1. UNCHANGED hostVars /\ DeviceTypeOK'
        /\ UNCHANGED <<setup, pc, req, ops_length, Bulk_in_finish, Bulk_in_size>>
    BY <1>25, <1>u DEF vars
  <2> QED
    BY <1>0, <1>d, <2>1 DEF SizesOK
<1> QED
  BY <1>1, <1>2, <1>3, <1>4, <1>5, <1>6, <1>7, <1>8, <1>9, <1>10, <1>11, <1>12, <1>13, <1>14,
     <1>15, <1>16, <1>17, <1>18, <1>19, <1>20, <1>21, <1>22, <1>23, <1>24, <1>25, <1>26
     DEF Next, HostStep, DeviceStep, udc4740Proc

\* Every variable keeps its type and every index its bound, for all sizes: the
\* handlers that copy blocks never read past a buffer, and no write leaves the
\* card (a packet stored past Bulk_out_buf is recorded by overrun instead).
THEOREM TypeCorrect == Spec => []TypeOK
<1>1. Spec => []TypeInv
  BY InitType, NextType, PTL DEF Spec
<1>2. TypeInv => TypeOK
  BY DEF TypeInv
<1> QED
  BY <1>1, <1>2, PTL
=============================================================================
