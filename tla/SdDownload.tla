----------------------------- MODULE SdDownload -----------------------------
(***************************************************************************)
(* What stage2_cmd_tool sdif=... promises when nothing fails: the blocks   *)
(* of the file go to the card in order, some at a time; nothing else on    *)
(* the card changes; success comes only after the last block.              *)
(* Module Stage2Sd implements it: see the refinement there.                *)
(***************************************************************************)
EXTENDS Integers

CONSTANTS Files,   \* records: blocks, the file's data by block number; count,
                   \* how many they are; at, the card block where they go
          Index,   \* the card's block numbers
          Block    \* the possible contents of a block

VARIABLES disk, file, written, state

downloadVars == <<disk, file, written, state>>

DownloadInit ==
  /\ disk \in [Index -> Block]
  /\ file \in Files
  /\ written = 0
  /\ state = "idle"

Begin(f) ==
  /\ state \in {"idle", "success", "failed"}
  /\ file' = f /\ written' = 0
  /\ state' = IF f.count = 0 THEN "success" ELSE "running"
  /\ UNCHANGED disk

\* The next n blocks of the file reach the card at once.
Write(n) ==
  /\ state = "running"
  /\ written + n <= file.count
  /\ written' = written + n
  /\ disk' = [b \in Index |->
                IF file.at + written <= b /\ b < file.at + written + n
                THEN file.blocks[b - file.at] ELSE disk[b]]
  /\ UNCHANGED <<file, state>>

Succeed ==
  /\ state = "running" /\ written = file.count
  /\ state' = "success"
  /\ UNCHANGED <<disk, file, written>>

\* The tool may give up before the end, never after the last block.
GiveUp ==
  /\ state = "running" /\ written < file.count
  /\ state' = "failed"
  /\ UNCHANGED <<disk, file, written>>

DownloadNext ==
  \/ \E f \in Files : Begin(f)
  \/ \E n \in 1 .. file.count - written : Write(n)
  \/ Succeed
  \/ GiveUp

DownloadSpec == DownloadInit /\ [][DownloadNext]_downloadVars
=============================================================================
