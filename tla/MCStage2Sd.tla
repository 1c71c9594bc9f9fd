----------------------------- MODULE MCStage2Sd -----------------------------
(***************************************************************************)
(* Small instances of Stage2Sd: blocks of 2 bytes, downloads of 2 blocks,  *)
(* a card of 4 blocks and buffers with room for 3 blocks (the code has     *)
(* 512, 1024 and 1056).                                                    *)
(***************************************************************************)
EXTENDS Stage2Sd

CONSTANTS a, b   \* two block contents

MCBlock == {a, b}

JobsOf(sizes, addrs, checks) ==
  UNION {[size : {s}, data : [0 .. BlockNums(s) - 1 -> MCBlock],
          addr : addrs, check : checks] : s \in sizes}

\* A file of two and a half blocks (two downloads) and files of one block.
AbortJobs == JobsOf({5}, {0}, {TRUE}) \cup JobsOf({2}, {2}, BOOLEAN)

\* Empty, one block, a full download, one that ends inside a full download (the
\* tool refuses it), two downloads with a partial last block, two full ones.
PlainJobs == JobsOf({0, 1, 3, 5, 8}, {0}, BOOLEAN) \cup JobsOf({4}, {5}, {FALSE})

LiveJobs == JobsOf({3, 4, 5}, {0}, {TRUE}) \cup JobsOf({6}, {2}, {FALSE})
=============================================================================
