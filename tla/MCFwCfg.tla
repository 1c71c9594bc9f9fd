------------------------------ MODULE MCFwCfg ------------------------------
(***************************************************************************)
(* Configuration files for FwCfg: around every bound the tool tests, the   *)
(* defaults (0) of options that are left out, values that do not fit in a  *)
(* byte, and the board files of the repository.                            *)
(***************************************************************************)
EXTENDS FwCfg, FwBoards

\* The clock options around their bounds.
ClockConfigs ==
  ConfigsOf({0, 11, 12, 19, 27, 28, 268}, {0, 240, 250, 255, 496}, {3}, {"ddr2"},
            {32}, {4}, {13}, {10}, {NoNand})
    \cup ConfigsOf({12}, {240}, {0, 32, 33}, {"ddr1"}, {32}, {4}, {13}, {10}, {NoNand})

\* The memory options around theirs.
MemoryConfigs ==
  ConfigsOf({12}, {240}, {3}, {"mddr"}, {16, 32}, {2, 4, 8}, {11, 14}, {8, 12}, {NoNand})
    \cup ConfigsOf({12}, {240}, {3}, {"ddr2"}, {32}, {4}, {0, 18, 269}, {0, 12}, {NoNand})
    \cup ConfigsOf({12}, {240}, {3}, {"ddr2"}, {32}, {4}, {13}, {10},
            {Nand(512, 16, 32), Nand(512, 64, 32), Nand(1024, 16, 64),
             Nand(2048, 16, 64), Nand(2048, 64, 32), Nand(2048, 64, 64)})

MCConfigs == Boards \cup ClockConfigs \cup MemoryConfigs
=============================================================================
