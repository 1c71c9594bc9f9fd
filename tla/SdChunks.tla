------------------------------ MODULE SdChunks ------------------------------
(***************************************************************************)
(* The arithmetic by which sd_card_program (stage2_sd.c) cuts a file into  *)
(* blocks of SD_BLOCK_SIZE bytes and the blocks into downloads of at most  *)
(* SD_MAX_BLOCK_NUM blocks, and what each read() of the file asks for.     *)
(* Sizes are far below 2^32 (the card address itself is an unsigned int),  *)
(* so the unsigned arithmetic of the C code does not wrap here.            *)
(***************************************************************************)
EXTENDS Integers

CONSTANTS
  SD_BLOCK_SIZE,     \* bytes of a card block: 512 in the code
  SD_MAX_BLOCK_NUM   \* most blocks of one download: 1024 in the code

ASSUME SdSizes ==
  /\ SD_BLOCK_SIZE \in Nat \ {0}
  /\ SD_MAX_BLOCK_NUM \in Nat \ {0}

\* addr / SD_BLOCK_SIZE: an address inside a block is rounded down silently.
BlockAddr(addr) == addr \div SD_BLOCK_SIZE

LastBlockLen(size) ==
  IF size % SD_BLOCK_SIZE # 0 THEN size % SD_BLOCK_SIZE ELSE SD_BLOCK_SIZE

BlockNums(size) ==
  IF size % SD_BLOCK_SIZE # 0 THEN size \div SD_BLOCK_SIZE + 1
                              ELSE size \div SD_BLOCK_SIZE

LastDownloadBlockNum(nb) ==
  IF nb % SD_MAX_BLOCK_NUM # 0 THEN nb % SD_MAX_BLOCK_NUM ELSE SD_MAX_BLOCK_NUM

DownloadTimes(nb) ==
  IF nb % SD_MAX_BLOCK_NUM # 0 THEN nb \div SD_MAX_BLOCK_NUM + 1
                               ELSE nb \div SD_MAX_BLOCK_NUM

\* The block offset and the number of blocks of download i.
ChunkStart(i) == SD_MAX_BLOCK_NUM * i

ChunkLen(nb, i) ==
  IF i + 1 = DownloadTimes(nb) THEN LastDownloadBlockNum(nb) ELSE SD_MAX_BLOCK_NUM

\* The last download, when it is not a full one: the only one whose read()
\* allows for a short last block.
ShortLast(nb, i) ==
  i + 1 = DownloadTimes(nb) /\ LastDownloadBlockNum(nb) # SD_MAX_BLOCK_NUM

\* The bytes that the read() of download i asks for; fewer is an error.
ReadLen(size, i) ==
  LET nb == BlockNums(size)
  IN  IF ShortLast(nb, i)
      THEN (LastDownloadBlockNum(nb) - 1) * SD_BLOCK_SIZE + LastBlockLen(size)
      ELSE SD_MAX_BLOCK_NUM * SD_BLOCK_SIZE

\* The bytes of the file still unread when download i begins.
BytesLeft(size, i) == size - ChunkStart(i) * SD_BLOCK_SIZE

-----------------------------------------------------------------------------
(***************************************************************************)
(* What the cut has to be for the download to be right.                    *)
(***************************************************************************)

\* Every block of the file is in exactly one download, no download reaches
\* past the file, and none is empty or larger than the transfer buffer.
Tiles(nb) ==
  /\ \A i \in 0 .. DownloadTimes(nb) - 1 :
       /\ ChunkLen(nb, i) \in 1 .. SD_MAX_BLOCK_NUM
       /\ ChunkStart(i) + ChunkLen(nb, i) <= nb
  /\ \A b \in 0 .. nb - 1 :
       \E i \in 0 .. DownloadTimes(nb) - 1 :
         /\ ChunkStart(i) <= b /\ b < ChunkStart(i) + ChunkLen(nb, i)
         /\ \A j \in 0 .. DownloadTimes(nb) - 1 :
              ChunkStart(j) <= b /\ b < ChunkStart(j) + ChunkLen(nb, j) => j = i
=============================================================================
