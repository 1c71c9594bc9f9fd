CONSTANTS
  a = a
  b = b
  Block <- MCBlock
  Junk = a
  NoReq = NoReq
  NoPkt = NoPkt
  Handshake = Handshake
  Garbled = Garbled
  SD_BLOCK_SIZE = 2
  SD_MAX_BLOCK_NUM = 2
  BufBlocks = 3
  CardBlocks = 4
  MaxRuns = 2
  Faults = {}
  Jobs <- PlainJobs
SPECIFICATION Spec
PROPERTY ImplementsDownload
