--------------------------- MODULE MCNandSession ---------------------------
(***************************************************************************)
(* NandSession on small flashes.                                           *)
(***************************************************************************)
EXTENDS NandSession

Job(start, nblk, image, option) ==
  [start |-> start, nblk |-> nblk, image |-> image, option |-> option]

Board(c, page, pos, planes, pin, bad, faults, jobs) ==
  [chip |-> c, bbpage |-> page, eccpos |-> pos, plane |-> planes, wp |-> pin,
   force |-> FALSE, full |-> jobs[1].option = "NO_OOB", layout |-> TRUE,
   bad |-> bad, faults |-> faults, jobs |-> jobs]

\* A file system after the boot loader, with a page of 0xff, with and without
\* spare bytes; a boot loader and what follows it.
System == <<Job(2, 3, <<"a", "b", "c", Ff, "a", "b", "c">>, "OOB")>>
Binary == <<Job(2, 3, <<"a", "b", "c", "a", "b", "c">>, "NO_OOB")>>
Loader == <<Job(0, 4, <<"a", "b", "c", "a", "b", "c", "a", "b">>, "NO_OOB")>>
Both   == <<Job(0, 2, <<"a", "b">>, "NO_OOB"), Job(2, 2, <<"c", "b">>, "OOB")>>

\* A boot loader with spare bytes; one with a refused image before the next.
Spare  == <<Job(0, 3, <<"a", "b", "c">>, "OOB")>>
Thrice == <<Job(0, 2, <<"a", "b">>, "NO_OOB"), Job(2, 1, <<"c">>, "OOB"),
            Job(4, 1, <<"b">>, "OOB")>>

\* A board with each page number of the bad block byte, with each place for a bad
\* block and with each group of faults.
Plain ==
  {Board(c, page, 24, 1, pin, bad, faults, jobs) :
     c \in Chips, page \in {1, 2}, pin \in BOOLEAN, bad \in {{}, {2}, {3}, {3, 4}},
     faults \in {{"first", "erase"}, {"first", "clean"}, {"later", "many"},
                 {"few", "many"}, {"usb"}},
     jobs \in {System, Binary}}

Special ==
  {Board(c, page, 24, 1, FALSE, bad, faults, jobs) :
     c \in Chips, page \in {0, Ppb}, bad \in {{}, {0}, {3}},
     faults \in {{"spl", "erase"}, {"first", "few"}},
     jobs \in {Loader, Both}}
  \cup {Board(c, 1, pos, planes, TRUE, {3}, {"erase"}, Binary) :
          c \in Chips, pos \in {0, 24}, planes \in {0, 2}}
  \cup {[b EXCEPT !.force = TRUE] :
          b \in {Board(c, 1, 24, 1, FALSE, {2}, {"erase"}, Binary) : c \in Chips}}
  \cup {[Board(4770, 1, 24, 1, FALSE, {}, {}, Loader) EXCEPT !.layout = FALSE]}
  \cup {[Board(c, 0, 24, 1, FALSE, {0}, {"erase"}, Loader) EXCEPT !.full = FALSE] : c \in Chips}
  \cup {Board(c, 1, 24, 1, FALSE, {4}, {"erase"}, System) : c \in Chips}
  \cup {Board(c, 1, 24, 1, FALSE, {}, {fault}, jobs) :
          c \in Chips, fault \in {"first", "usb"}, jobs \in {Spare, Thrice}}

AllBoards == Plain \cup Special

\* Boards with a write-protect pin.
ProtectedBoards ==
  {Board(c, 1, 24, 1, TRUE, bad, {"first"}, Binary) : c \in {4750, 4770}, bad \in {{}, {3}}}
=============================================================================
