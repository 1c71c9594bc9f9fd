--------------------------- MODULE MCBootSession ---------------------------
(***************************************************************************)
(* Small instances of BootSession: two boards with different chips, the    *)
(* scripts with and without images, and the tools called by hand.          *)
(***************************************************************************)
EXTENDS BootSession

CONSTANTS
  a, b,      \* configurations
  Base, At   \* 0x80002000 and another address

MCConfigs == {a, b}
MCAddrs == {Base, At}
MCCpuId == [c \in MCConfigs |-> IF c = a THEN 4770 ELSE 4750]
OldCpuId == [c \in MCConfigs |-> IF c = a THEN 4740 ELSE 4750]

Job(c, check, unreadable, cmds) ==
  [config |-> c, check |-> check, unreadable |-> unreadable, cmds |-> cmds]

\* The scripts: with a comparison that finds out, with one that may not, without.
Scripts ==
  { Job(a, TRUE,  FALSE, ingenic_boot(a, Base, <<"boot", "system">>)),
    Job(a, TRUE,  TRUE,  ingenic_boot(a, Base, <<"boot">>)),
    Job(b, FALSE, FALSE, ingenic_boot(b, Base, <<"data">>)),
    Job(a, FALSE, FALSE, down2ram(a, Base, At, At)),
    Job(a, FALSE, FALSE, probe_only) }

\* stage2_cmd_tool called by hand.
ByHand ==
  { Job(b, FALSE, FALSE, <<Cmd("config", File("hand", b))>>),
    Job(a, TRUE,  FALSE, <<Cmd("sdif", File("mbr", a))>>) }

MCJobs == Scripts \cup ByHand
OldJobs == { Job(a, FALSE, FALSE, ingenic_boot(a, Base, <<"boot">>)) }
=============================================================================
