------------------------------ MODULE FwBoards ------------------------------
(***************************************************************************)
(* The board files of the repository (fw/X.cfg) as configuration records.  *)
(***************************************************************************)

Nand(ps, os, ppb) == [ps |-> ps, os |-> os, ppb |-> ppb]

ConfigsOf(ext, speed, phm, ram, width, banks, row, col, nand) ==
  {[EXTCLK |-> e, CPUSPEED |-> s, PHMDIV |-> d, RAMTYPE |-> t,
    BUSWIDTH |-> w, BANKS |-> k, ROWADDR |-> r, COLADDR |-> l,
    NAND_PAGESIZE |-> n.ps, NAND_OOBSIZE |-> n.os, NAND_PAGEPERBLOCK |-> n.ppb] :
     e \in ext, s \in speed, d \in phm, t \in ram, w \in width, k \in banks,
     r \in row, l \in col, n \in nand}

NoNand == Nand(0, 0, 0)

\* gcw0_v11_ddr2_256mb, _512mb, gcw0_v20_mddr_512mb and jz4770_default.
Boards ==
  ConfigsOf({12}, {240}, {3}, {"ddr2"}, {32}, {4}, {13, 14}, {10}, {NoNand})
    \cup ConfigsOf({12}, {240}, {3}, {"mddr"}, {32}, {4}, {14}, {11}, {NoNand})
    \cup ConfigsOf({12}, {240}, {3}, {"ddr2"}, {32}, {4}, {12}, {9}, {Nand(4096, 128, 128)})
=============================================================================
