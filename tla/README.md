# A verification development for ingenic-boot

ingenic-boot boots a board with an Ingenic XBurst CPU over USB and writes images
to its SD card.  This directory holds TLA+ models of the program, TLC
configurations that check them on small instances, and proofs that TLAPS checks
for every size.

## 1. The system

| part | source | state | operations |
|---|---|---|---|
| top script | `ingenic-boot`, `tool/patch_fw.sh`, `tool/down_fw.sh`, `tool/down2ram.sh` | files under `fw/` | patch the firmware, download stage 1 and 2, `config=`, `sdinit`, up to four `sdif=`, `reboot`; each step ends the script when it fails |
| firmware configuration tool | `source/fw_cfg_tool` | the `hand` structure | parse a board's `.cfg`, check it, write the patch files |
| basic command tool | `source/basic_cmd_tool`, `source/basic_cmd_lib` | USB handle, cpu id | probe, set address/length, bulk transfers, start stage 1/2 |
| stage 2 command tool | `source/stage2_cmd_tool` | two 512 KB buffers, loop counter | `config=`, `sdinit`, `sdif=file@addr#check`, `reboot` |
| stage 1 programs | `source/fw_src/stage1` | PLL and SDRAM registers | set clocks, compute the memory's timings, find the delays it works with, test the memory |
| stage 2: USB driver | `usb_boot/udc.c` | interrupt copies, `Bulk_out_buf/size`, `Bulk_in_buf/size/finish`, `ep0state` | endpoint 0, endpoint 1 IN and OUT, bus reset, one polling loop |
| stage 2: request handlers | `usb_boot/boothandler.c` | `start_addr`, `ops_length`, `handshake_PKT`, driver pointers | one handler per vendor request |
| stage 2: card driver | `sdcard/mmc_com.c`, `sdcard/47x0mmc.c`, `sdcard/open_card.c` | `rca`, `highcap`, `sk_hw_style`, `mmc_power_pin`, the card | identify, read and write blocks, open a blank Skymedi card |
| stage 2: NAND drivers | `nandflash/nandflash_47x0.c` | geometry, `eccpos`, the write-protect pin, the flash and its bad block marks | erase, program, read, mark bad |

The host tools talk to the device by USB control messages (requests without data:
address, length, operation) and bulk transfers on endpoint 1 (data to the device,
data and 8-byte handshakes back).  The device is a single polling loop.  The tool
is a new process for every image, while the device keeps its buffers, sizes and
FIFOs from one process to the next.

What is hard in it:

* two parties run at once: the control message of a request ends for the host when
  the device *takes* it, before the handler has run (`udc.c:482`);
* the data of a download precedes the request that uses it, on another endpoint, so
  the order in which the loop reads and serves interrupts matters (`udc.c:569-597`);
* nothing resynchronises the two: after a killed or timed-out tool the device may
  hold half a download, an unread handshake or half a read-back;
* the device reports errors of the card in a handshake the tool does not look at
  and, for reads, not at all;
* FIFOs and buffers are written without asking whether there is room;
* the NAND drivers erase, program and mark with different ideas of what a bad block
  costs, and repair a failed page with an erase that may fail itself;
* opening a card takes dozens of steps, of which some have an answer nobody looks at;
* what stage 1 leaves in the memory controller is computed from two searches with other settings, and its
  times and waits from clocks that three places in the code have different ideas of.

What makes each part correct: the cut of a file covers it exactly; a download is
programmed with its own address, length and data; a checked success means the
image is on the card; a run ends; the buffer is not overrun; firmware that was patched
successfully is that of the present board file, and what the file says survives its
encoding in bytes; stage 1 programs timings that suffice at the clock the board has and a setting the
memory works with; a session only runs
programs that were loaded and only uses functions that were set up, and "Done." means
that the images are on the card; a NAND image survives bad blocks and marks survive
every request; a card reported as opened is complete.

## 2. Modules

| module | models | role |
|---|---|---|
| `SdChunks` | arithmetic of `sd_card_program` | blocks, downloads, what each `read()` asks for |
| `Stage2Device` | `udc.c`, the SD requests of `boothandler.c`, block transfers of `mmc_com.c` | the device, one action per register read and handler |
| `Stage2Sd` | `stage2_sd.c`, `basic_cmd_lib.c`, `sdif=` of `stage2_main.c` | the tool, composed with the device; the properties |
| `SdDownload` | (abstract) | what a download promises when nothing fails |
| `FwHand` | `parse_configure`, `check_dump_cfg` of `fw_cfg_tool.c` | what the tool computes from an option file |
| `FwCfg` | `patch_fw.sh`, `main` of `fw_cfg_tool.c` | the files in `fw/` over several runs |
| `FwBoards` | `fw/*.cfg` | the board files as records |
| `Stage1Boot` | `load_args`, `pll_calc_m_n_od` of `stage1/jz4770` | how stage 1 reads the patch, and sets the PLL without it |
| `DdrTiming` | first half of `sdram_init_4770`, the parts' headers | timing fields and refresh count from the clock |
| `DdrTune` | second half of `sdram_init_4770` (DDR2, mobile DDR, DDR1) | the search for the delays, one test of the memory a step |
| `Stage1Main` | `c_main` of `stage1/jz4770`, the waits of `ddr_mem_init` | the three above, one after the other |
| `MemoryTest` | `stage1/JZ4725_50_55/memory.c`; the memory is external | ten tests of a memory that may have a defect |
| `Stage1Sdr` | `c_main`, `load_args`, `jz4755_pll_init`, `jz4755_sdram_init` of `stage1/JZ4725_50_55` | clocks and times of plain SDRAM, then the test |
| `BootSession` | the scripts, `basic_cmd_tool`, `basic_cmd_lib`, the commands of `stage2_main.c`, start-up, `CONFIGRATION`, `CARD_INIT` and reset of stage 2 | a session with a board, tool by tool |
| `NandFlash` | the chip (external) | pages, their code and their bad block byte |
| `NandDriver` | `nandflash_4740.c`, `_4750.c`, `_4760.c`, `_4770.c` | the drivers, one turn of a loop a step |
| `NandSession` | `NAND_ERASE`, `NAND_PROGRAM`, `NAND_READ` of `boothandler.c` | requests, and a host (external) that sends them |
| `CardSetup` | `open_card.c`, `mmc_init` and the wait after a write of `mmc_com.c` | requests that set cards up, over two cards |
| `MCStage2Sd`, `MCFwCfg`, `MCStage1Boot`, `MCBootSession`, `MCNandSession`, `MCCardSetup` | - | small instances for TLC |
| `Stage2SdProofs`, `Stage2CheckProofs`, `Stage2CleanProofs`, `FwCfgProofs`, `DdrProofs`, `SessionProofs`, `NandProofs`, `CardProofs` | - | theorems |

### The device
The variables are the driver's own (`Bulk_out_size`, `start_addr`, ...) plus the
controller's registers and FIFOs: `setup` (endpoint 0), `outFifo` and `inFifo`
(endpoint 1), `intrUsb/intrIn/intrOut`.  `gotUsb/gotIn/gotOut` are the local copies of
`udc4740Proc`; `pc` is the place in the loop.  Each read of an interrupt register is a
step, each handler is a step; `EP0_Handler` ends where the control transfer is
acknowledged, and the request's handler is a step of its own, because the host goes on
in between.  At high speed a bulk packet is one 512-byte block, so contents and sizes are
counted in blocks.  Conservative choices about the hardware: a FIFO written while
full holds the old packet, the new one or a mixture (`FifoAfter`); after SETUPEND the
interrupt of the waiting SETUP packet may or may not come again.
A card transfer moves any prefix of its blocks when it fails (`Transferred`).

### The tool
`hpc` is the place in `sd_card_program` with `sd_card_write` and `sd_card_read`
inlined; `i`, `origin_data`, `readback_data` are the code's; `k` counts packets of the
bulk transfer under way.  `sd_card_program(j)` starts a run for job `j` on a device
in whatever state it is, up to `MaxRuns` times.  The faults the environment may
bring are the constant `Faults`: `"write"`, `"read"` (card), `"io"` (the host's `read()`,
`stat`, `open`, `malloc`), `"abort"` (tool killed, or any transfer given up after
`USB_TIMEOUT`), `"reset"` (bus reset).  `clean` is a history variable: the device
was quiet when the run began.  `overrun` records a packet stored past the end of
`Bulk_out_buf`; in the program that destroys other data, so properties about what is on
the card are stated for behaviours without it.

### The firmware's configuration
`FwArgs` and `Hand` are the structures the tool fills, with the `unsigned char` width of their
fields (`Byte`); `parse_configure(c)` is "ok", "refused" or "crashed" (a division by zero).
Options that are only copied (UART, baud rate, most NAND options) are left out.  `FwCfg` has
one step per file that `fw_cfg_tool` and `patch_fw.sh` write; its faults are `"file"` (no or
unparsable `X.cfg`), `"open"` (an output file cannot be opened; the tool ends and the
script with it) and `"write"` (a short write, which nothing notices).  A program file is the
pair of the image copied and the arguments patched into it, so a patch in an old copy is
told from one in a new copy.

### Stage 1 of the JZ4770
Two things have the name `CFG_CPU_SPEED`, and two `CFG_EXTAL`: the variables that `load_args` fills
from the patch, and macros of `board_4770.h`, which `board_4770.c` and `jz4770_ddr1.c` include and `main.c`,
`jz_ddr2_init.c` and `jz_mddr_init.c` do not.  In the model the macros are `BOARD_CPU_SPEED` (288 MHz) and `BOARD_EXTAL` (12 MHz).
`pll_calc_m_n_od` is the set of settings that the code can return for its arguments: every failed test ends in an
endless loop, and above the maximum output `PLL_OD` is never assigned.  For the macros it is one setting
(`M` 47, `OD` 1: an oscillator of 576 MHz with a 12 MHz crystal, of which a quarter of the output, 72 MHz, is the memory's clock),
so that the loop is never reached.  `cpu_clk`, from which `ddr_mem_init` counts its waits, is the variable for DDR2 and mobile DDR and
the macro for DDR1.  `PASS_CYCLES` is the one number that is not in the source: a pass of `while (tmp_cnt--)` on a
volatile counter takes at least four cycles.  `DdrTiming` computes as the code does,
from the period in whole picoseconds (nanoseconds for DDR1), rounded, limited and packed;
what the controller makes of a field (`FieldCycles`) is taken from the comments at the
register definitions, for `tRC` and `tRFC` by analogy with `tRAS`.  In `DdrTune` a step is one turn of a loop:
a setting is programmed and `ddr_dma_test` tried.  Which settings work is the operator
`Works` on the memory on the board: the memory is deterministic, and otherwise anything.
`search = "windows"` is DDR2 and mobile DDR, `"first"` is DDR1, and the loop of the three
DDR programs of the JZ4760.

### Stage 1 of the JZ4725B, JZ4750 and JZ4755
The three differ in pins and UARTs only.  `Stage1Sdr` has an action for `load_args`, one for
`jz4755_pll_init` and one for `jz4755_sdram_init`; a division by a clock below 1 MHz is the state
`"trap"`.  Then the memory is tested, one of the ten tests a step (`NextTest`).  A memory has at most one
defect: a data line stuck, open or short to another, an address line stuck or short, a bit
that does not change; it may also have fewer address lines than are configured.  A load
from an open line gives what was last driven on it, so that it matters in which order the tests store and
load.  `pmem` is not `volatile`: `build` is what the compiler made of a value stored and loaded again at
once, the load (`"reload"`) or the value it knows (`"forward"`).

### The session
A script is a sequence of tool commands (`ingenic_boot`, `down2ram`, `probe_only`), a command
a sequence of transfers (`Transfers`); `step` and `t` are the place in them.  A control
message leaves `req` with the board and the host goes on; every other transfer waits until
the board has handled it.  `mode` is what the board runs: the boot ROM (external, modelled
from the requests that the tools send it), stage 2, `"hung"` in stage 1, `"off"` (rebooted, or
running a program of the user's), or `"wild"` after a jump to something that was never loaded
or set.  A wild board may answer anything, so that nothing rests on it staying silent.
`drivers` and `hw_reset` stand for the function pointers of `boothandler.c`, `bufHead` for what
`config_hand` and `CARD_PROGRAM` find at the start of `Bulk_out_buf`.  `sdif=` is one download here,
and its read-back one step: what comes back is what is on the card (which is taken not to hold the image before the script
has written it) or, for a job with `unreadable`, anything, as the device answers a failed
`mmc_block_readm` with what an earlier one left in `Bulk_in_buf`.  `Stage2Sd` has the packets and the buffer.
Faults: `"kill"` (script stopped, or a transfer given up), `"power"` (board switched off and on during
a script; between scripts it always may be), `"card"`, `"stage1"` (stage 1 hangs), `"read"` (a
short `read()` in `if=` or `config=`).

### The NAND flash
A page is its data, where its error correcting code lies (`Code(pos, per)`) and whether its
bad block byte is other than 0xff; `Over` is the rule that programming only clears bits.  The
records `e`, `p` and `r` are the locals of `nand_erase`, `nand_program` and `nand_read`; `op`
is the loop that runs, `"clean"` the forced erase inside `nand_program` after a page failure.
`err` is `handshake_PKT[3]`, `writable` the write-protect pin, which `nand_mark_bad` lowers on its way
out.  The four drivers are near copies of each other; an action they share asks `chip` where
they differ: the 4740 does not count a bad block as a turn of the erase loop, the 4770 marks after
the loop, the 4760 gives a failed program up, the code of boot loader pages lies elsewhere on
the 4740 and 4750, the 4760 and 4770 have a layout of their own for the boot loader in block 0.
A board (`BoardType`) is a chip, the options of `Hand` the drivers read, blocks marked at the factory,
the faults that may happen, each once, and the jobs.  No host tool of the repository sends the NAND
requests; the host erases, programs and reads back, job after job.

### Setting cards up
A request is the sequence of its steps (`card_query_flash_id`, `skymedi_open_card`), `todo` what
is left of it; `GoOn` and `Return` are the two ends of a step.  A card keeps what it was told and
given: its address, the vendor function selected, the loader that runs, the formats done and
their status, two copies of the firmware data, the CID.  What the card does with
its vendor commands follows the way the code uses them.  `style` (`sk_hw_style`), `rca`,
`card_type` and `pin` (`mmc_power_pin`) stay from one request and one card to the next, which is what the
sessions with two cards are about.  Each fault happens at most once.

## 3. Runs

| run | faults | checks | result |
|---|---|---|---|
| `sd_abort` | write, abort, reset | `CheckInv`, `CheckedSuccess`, `InSync`, `SuccessLeavesQuiet`, `OnlyAddressedBlocks` | hold |
| `sd_plain` | none | `ImplementsDownload` | hold |
| `sd_live` | write, read, io | `NoOverrun`, `RunEnds` (fair) | hold |
| `sd_stale_readback` | write, read | `CheckedSuccess` | violated |
| `fw_cfg` | file, open | `TypeOK`, `PatchedForThisBoard`, `SpeedKept`, `SizeIsExact` | hold |
| `stage1` | - | `MainTypeOK`, `TimingCovers`, `RefreshInTime`, `WaitsSuffice`, `FinalWorks`, `RefusesOnlyHopeless`, `Balanced`, `RightVerdict`, `SdrSetUp` | hold |
| `s1_cpuspeed` | - | `SpeedAsConfigured` | violated |
| `boot` | kill, power, card, stage1 | `TypeOK`, `NeverStrays`, `WrittenForThisRun`, `DoneMeansDownloaded`, `ScriptEnds` (fair) | hold |
| `boot_4740` | none | `NeverStrays` | violated |
| `nand` | those of each board | `TypeOK`, `EraseCounts`, `ErasedOrMarked`, `Stored`, `CodeAsConfigured`, `ReadBack`, `NoFalseAlarm`, `MarksKept`, `SessionEnds` (fair) | hold |
| `nand_write_fail` | first | `SkipsWriteFailBlock` | violated |
| `card` | those of each session | `OpenComplete`, `OwnLoaders`, `InitMeansReady`, `RequestsAnswered` (fair) | hold |

### The download
Bounds of the `sd_*` runs: blocks of 2 bytes, 2 blocks per download, buffers of 3 blocks, 2 block contents, a
card of 4 blocks.  They are enough for: one and two downloads, partial and full last
blocks and downloads (the four branches of the cut), one packet more than a download
fits in the buffer and two do not, blocks of the card outside the download.  Two runs:
whatever the first leaves behind is met by the second; three runs were also
checked for `sd_abort` and show nothing new.  `MaxRuns`, sizes and jobs are the only bounds.

* `CheckedSuccess`: a run with check=1 that succeeds has the file on the card.
* `InSync`: in a run that found the device quiet, `CARD_PROGRAM` is handled with exactly
  the tool's address, length and blocks.  It fails if endpoint 0 is served before
  endpoint 1.
* `SuccessLeavesQuiet`: such a run leaves the device quiet, so by induction a session of
  successful runs is a session of clean runs.
* `OnlyAddressedBlocks`: no other block of the card ever changes in such a run.
* `ImplementsDownload`: refinement.  The abstract variable `written` jumps when the
  device has programmed the download (`Programmed`), not when the host learns of it.
* `NoOverrun`: `EPOUT_Handler` does not test for the end of the buffer; it stays within it
  as long as no run is cut short.  (Two runs cut short after their data do overrun
  it, which is why "abort" is not among the faults of this run.)
* `RunEnds`: under weak fairness of the device's loop and of the tool.  The loop never
  blocks and a started process goes on; starting another run and all faults are
  left unfair.  The waits inside the card driver are in `CardSetup`.

### The firmware's configuration
* `PatchedForThisBoard`: when the script succeeds, the hand file and both programs are made
  from the present `X.cfg`.  Two runs, over configurations on both sides of every limit the
  tool tests (and of the byte), each ending wherever it may.
* `SpeedKept`: the multiplier in the firmware stands for `CPUSPEED` rounded down to a step
  of the crystal, and is a multiple of 12 MHz.
* `SizeIsExact`: the memory size printed is that of the chips described, for the values
  the sample file allows.

### Stage 1
`stage1` has every pair of crystal and multiplier that `fw_cfg_tool` accepts, each with one memory of each type; and
one pair with some 3,000 memories, all combinations of six sets of working delays at the four tsels
(none, inside, up to the last delay, with holes, ...), five sets of working adjustments and three
lengths of the delay line.  The constants 4, 16 and 31 are the code's.

* `TimingCovers`: at the clock the board really has, every field stands for at least the
  part's time, although periods are rounded, fields limited and pairs of cycles halved.
  It is stated for crystals up to 13 MHz: PLL setting and timings are made for 12 MHz
  (`board_4770.h:20`, `jz4770.h:4730`), so with a larger one the memory runs faster than the timings allow for.
* `RefreshInTime`: with a larger crystal the refresh comes only sooner; with 12 MHz the rounded count is enough.
* `WaitsSuffice`: the waits behind the commands to the memory are as long as its longest time, although
  for DDR2 and mobile DDR they are counted for a CPU of some 20 "MHz" (the patched multiplier of the crystal) and spent on one of 288.
  They are by a factor of more than 2 with the board files; below a `CPUSPEED` of 192, or above 16 MHz, they may not be.
* `FinalWorks`: the memory works at the combination of tsel, delay and adjustment that is left in the
  controller, which is put together from the results of two searches.
* `RefusesOnlyHopeless`: "can't find a suitable mask delay" is only said when no tsel has a
  window that ends before the last delay.  (A window up to the last delay is never recorded,
  `jz4770_ddr2.c:483`.)
* `Balanced`: delay and adjustment have the same margin on both sides.

`soc` says which of the two kinds of stage 1 runs.  For the JZ4755 and its relatives the run has every crystal (12 to 27
MHz), multiplier and divisor that `fw_cfg_tool` accepts, with two banks, where nothing is tested; and one
configuration with some 400 memories.  There the memory has 2^6 words, of which 2^5 are tested: the
fewest in which every bit of a word is alone in one of them (`memory_post_test2`).  The bus has 32 bits.

* `RightVerdict`: the test passes exactly the memories whose tested words all work, in both builds.  The data line
  test finds nothing in the `"forward"` build, and what it would have found is found by the tests
  that fill the memory.
* `SdrSetUp`: PLL, USB clock and memory clock are those configured, for the divisors that exist; at whole MHz the
  times suffice, and from 46 MHz on the memory is refreshed in time.  `tRAS` is not among them: it is rounded down.

### The session
`boot`: three scripts or tool calls in a row, of two boards with different chips, with
none, one and two images, and `stage2_cmd_tool` called by hand.  Two are enough for one to
meet what another left; three let a board be configured by hand between two scripts.

* `DoneMeansDownloaded`: "Done." means that the images are on the card: with `--check` when writing to it fails, as long as
  reading does not (one of the scripts has a card where both may, see finding 1), and without when neither fails.
* `NeverStrays`, `WrittenForThisRun`, `DoneMeansDownloaded` are about scripts that begin with the
  board quiet in its ROM (`clean`), whatever is in its memory.  They do not hold otherwise: the
  scripts do not distinguish a board in stage 2, where START2 re-enters stage 2 itself.
* `ScriptEnds`: weak fairness of the host (a started process goes on, a transfer that
  cannot complete is given up after `USB_TIMEOUT`) and of the board.

### The NAND flash
Blocks of 5 pages, 8 blocks, images of up to 8 pages (so up to two blocks, with bad ones before, between and
after), a boot loader of 2 pages, one to three jobs.  Boards: each chip, the bad block byte in the first,
second or third page or out of the block, code at 0 and elsewhere, 0 to 2 planes, with and without a
write-protect pin, forced erase, up to two bad blocks at different places, and the faults in pairs, so that
one can strike while another is repaired.  A block of 5 pages has one that `nand_mark_bad` leaves
alone when it marks four.  An image of two blocks meets a bad block behind its first and
a failing page in its second; three jobs let what one leaves in `eccpos` pass a refused one.

* `EraseCounts`: the loop of `nand_erase` moves its own bound; when it ends it has erased
  the blocks asked for and `nand_plane` (less one but on the 4740) more for each lost one.
* `ErasedOrMarked`: up to where it stopped each block is blank or marked bad.
* `Stored`: after `nand_program` the good blocks hold the image in order, through bad blocks
  and a page failure in the image's first block; data damaged on the cable was not written.
  A failure in a later block makes the driver start again one block after the image's *first*
  page, over what is already written (`nandflash_4750.c:952`), so that it is excepted.
* `CodeAsConfigured`: the codes lie where the boot ROM and later readers look for them.  Excepted are a
  4740 after a failure in the boot loader's block, and on a 4750, of an image with spare bytes, a failure in
  the boot loader's place or a boot loader read before (see the findings).
* `ReadBack`: a page read back wrong is reported; unless a correctable page after it clears the error, or, on the
  4750 and 4760, the look at the mark of a block whose spare bytes are found correctable.
* `NoFalseAlarm`: a good image is not reported as damaged, but in the cases its comment lists: blank pages on the
  4770, the boot loader on the 4740, and on the 4750 and 4760, where the look at a block's mark can set the error
  count, a damaged block that any of the three requests has looked at, as the count lasts until the read.
* `MarksKept`: no request changes a page of a block marked bad, but for three cases: a forced erase, the
  erase after a page failure, which is forced and goes on into the next block when it
  fails, and the boot loader of the 4760 and 4770, which is written without a look at the marks.
* `SessionEnds`: the host comes to the end of its jobs, under weak fairness of the
  next-state relation: the loops run without interruption.  With fewer good blocks than are asked
  for the erase loop does not end at all, so the instances have enough.

The conditions in these properties (`MarksMeanBad`, `StaysWritable`, `Repairable`, ...) name the boards
for which the drivers do not keep the promise; each was found by TLC and is a line of the next section.

### Setting cards up
Sessions of up to four requests (query, open, init, program, a change of card) on one or two cards of all the kinds
the code tells apart, with each fault alone and with pairs, the power pin right or wrong.

* `OpenComplete`: when `CARD_OPEN_CARD` answers 0 all formats are done, both copies of the
  firmware data are right and the CID is written; except after the steps nobody looks at.
* `OwnLoaders`: a card whose version is known gets its own controller's loaders only.
* `InitMeansReady`: a card that `CARD_INIT` found is in the transfer state and answers at `rca`.
* `RequestsAnswered`: requests end, but for the waits without a limit named in it.  The device
  may wait for ever there, which is why this run does not check deadlock.

### Findings
The violations are findings:

1. `boothandler.c:447-456`: a failed card read is answered with the old buffer.
2. `stage1/jz4770/board_4770.h:26`: the board files name a PLL output frequency (240 MHz), `fw_cfg_tool` and `load_args`
   carry it to `CFG_CPU_SPEED`, and the PLL is set from a macro of this name, always for 288 MHz.
3. `boothandler.c:533`: `Borad_Init` sets no `hw_reset` for the JZ4740, and `reboot` calls it.
4. `nandflash_4770.c:1351`: the erase after a page failure lowers the write-protect pin, and the
   restart does not raise it: the rest of the image goes to a protected chip, and success is reported.

Seen while modelling, without a run of their own:

* Tools: `read()` = -1 is compared as unsigned and goes unnoticed (`stage2_sd.c:169,186`); a file of a multiple
  of 1024 blocks with a partial last block is refused (`stage2_sd.c:195-204`); `if=` and `config=` go
  on after a short `read()`; any `CPU_ID` is accepted, and one that `Borad_Init` does not know makes it call an
  unset `nand_enable`.
* Configuration: the size formula in `fw/jz4770_default.cfg:62` gives twice what the code computes; `CPUSPEED` is
  tested only after truncation and rounding (`fw_cfg_tool.c:270`), so values the comment forbids are accepted;
  the tests of `ROWADDR` and `COLADDR` (`fw_cfg_tool.c:117,121`) can never fail; `EXTCLK = 0` and
  `PHMDIV = 0` end in a division by zero (`fw_cfg_tool.c:270,154`; the test at line 99 looks at
  the wrong variable); a `RAMTYPE` without a program and a short write go unnoticed.
* Stage 1: DDR1 goes on after "can't find a suitable mask delay" (`jz4770_ddr1.c:610`); its `tWTR` of 2
  cycles is computed as 2 ns; the wait "200 tCK" (`jz_ddr2_init.c:111`) counts 40 passes with the board files, which is
  far less than the 800 CPU cycles of 200 memory clocks; `pll_calc_m_n_od` calls `serail_puts`, which does not
  exist, where the speed is out of bounds, so that a speed that is would not link; a multiplier of 0 (`CPUSPEED` below `EXTCLK`), which `fw_cfg_tool` accepts, traps
  in the stage 1 of the JZ4755; its memory test should in its slow mode cover "the whole RAM"
  (`memory.c:147`), but tests half of it with four banks and none with two (`memory.c:517`), and a memory
  one address line smaller than configured passes; `tRAS` is rounded down (40 ns instead of 45 at 100 MHz);
  a `PHMDIV` that does not exist divides by 1; the refresh count is computed and replaced by 11;
  the JZ4760 programs call `load_args` with constants, so nothing of what
  was patched arrives.
* Cards: "LLF STATUS ERROR" is printed and 0 returned (`open_card.c:1032,1062`); the second write of the format parameters and
  the erase are not looked at (`open_card.c:1053`); an unknown hardware version leaves the style of the card
  before it (`open_card.c:924`); a card that gets ready on its last try is refused (`open_card.c:202,227`);
  `mmc_init` returns what is on the stack when CMD41 is not answered (`mmc_com.c:384`); `rca` outlives the card, and an MMC
  after an SD card is waited for at the wrong address for ever (`mmc_com.c:270`); `CARD_OPEN_CARD` before
  `CARD_QUERY_HW` drives pin 0.
* NAND: `nand_init_4770` takes the page layout from uninitialized locals (`nandflash_4770.c:263`); a page number
  `BADBLOCKPAGE` past the block loses the marks on the 4760 (`jz4770_default.cfg:56` gives the range); an
  `ECCPOS` of 0 (`jz4770_default.cfg:54`) puts code over the mark on the 4740 and 4750; `PLANENUM` 0 makes the erase stop short on
  all but the 4740; a length of 0 wraps in `NAND_PROGRAM` (`boothandler.c:401`); `par_size == 78` in
  `nandflash_4760.c` never holds, so that 24-bit correction has no parity size; `program_nand_spl_page` writes the boot
  loader over blocks marked bad; `nand_read_4750` leaves the global `eccpos` at 3 when the boot loader's
  pages were the last it read, and `nand_program_4750` counts the spare bytes of a code from what it finds there
  (`nandflash_4750.c:812`), in the next job, in the one after a refused request, and in a restart; on the 4750 and
  4760 a bad block behind the image, which only the erase looks at, can make the read of a good image end with an error.

Every property of a passing run has a mutant of the code (an operator beside the
definition it replaces, commented "Mutant") that TLC finds to violate it.

## 4. Proofs

Every theorem is for all values of the constants and any number of steps; where it needs a hypothesis the
hypothesis has a name and is given here.

### The download
* `Stage2SdProofs!DownloadsTile`: for every number of blocks and every
  `SD_MAX_BLOCK_NUM`, each block is in exactly one download and none is empty, too
  long or past the end.  From Euclidean division, in linear steps.
* `Stage2SdProofs!TypeCorrect`: `Spec => []TypeOK`.  `TypeOK` alone is not inductive: that
  a handler's index is in range depends on the lengths in flight, so the invariant adds
  `SizesOK` (lengths in `setup`, `req` and `ops_length` are at most `SD_MAX_BLOCK_NUM`,
  `Bulk_in_finish <= Bulk_in_size`, the tool's counters are within their loops).
* `Stage2CheckProofs!CheckInvHolds` and `CheckedSuccessHolds`: `HonestReads` implies `Spec => []CheckedSuccess`.
  `HonestReads` names what is needed: no card read error, no file read error,
  and images that fit the card.  Write errors, killed runs, timeouts and bus resets may
  happen at any step, any number of times.  The inductive invariant is `CheckInv`
  (also checked by TLC in `sd_abort`).  The argument:
  - until the device takes the first address of a run (`Stale`) it may be busy with an earlier
    run's request, and nothing has been verified yet;
  - from then on the device handles exactly the tool's requests, in order
    (`RequestsInOrder`, `Undisturbed`), so address and length are right (`ParametersSet`)
    and `CARD_PROGRAM` only writes blocks of the current download: what was compared stays (`Verified`);
  - the handshake drops an unfinished older transfer, so no old block is
    waiting when the read-back starts (`InDrained`);
  - the blocks read back arrive in order, or one was lost in the FIFO and then the
    transfer cannot complete: `k + Waiting <= Bulk_in_finish`, and equality means
    "in order" (`ReadInOrder`).  A full read-back is therefore the card's contents (`Compared`).
* `Stage2CleanProofs`: `InSync`, `SuccessLeavesQuiet` and `OnlyAddressedBlocks` without a hypothesis, `NoOverrun`
  without the faults `"abort"` and `"reset"`.  They are about runs that found the device quiet, checked or
  not, so that `CheckInv`, which is about runs with a check on any device, does not give them.  `CleanRunInv` says of
  such a run, packet by packet, where everything is: the request under way is the tool's own
  (`OwnRequests`) and has its parameters (`OwnParameters`); the blocks sent are in
  `Bulk_out_buf`, the FIFO and the tool, in this order (`OutInOrder`); so are the blocks and handshakes that come back (`InInOrder`).
  It also needs what the interrupt registers show in *every* run (`Signals`), because a copy of one taken in
  the run before may still be acted on in this one.  If no run is ever cut short
  (`Uncut`), each finds the device quiet.
* `ImplementsDownloadHolds`: from `NothingFails` (no faults, images that fit the card), each step of tool and device is
  a step of `SdDownload` or a stutter.  Only `CARD_PROGRAM` and the tool's last step are not
  stutters: by `InSync` the request programs the download that the tool has sent, so that the card
  changes by exactly the blocks by which `Programmed` grows; the rest is that `Programmed` does not move elsewhere.

### The firmware's configuration
* `FwCfgProofs!TypeOKHolds`: what the tool writes fits its bytes, if the options are naturals (`NumericOptions`).
* `PatchedFromConfig`: `NoticedFaults` implies `Spec => []PatchedForThisBoard`, for
  every set of configurations and any number of runs.  `NoticedFaults` (every `RAMTYPE` names a
  program, writes do not fall short) is what the script relies on and does not check.  The
  invariant `PatchInv` says, for each place in the script, which files have already been made
  from the present configuration; in the idle state it says so only after a success.
* `SpeedKeptHolds`: `SpeedKept` from the same invariant and the lemma
  `AcceptedSpeed` about `parse_configure`, for all clock options (`ClockOptions`: naturals).
* `SizeIsExactHolds`: the width of the shift is one of 30 numbers, and in each of these cases the powers of two are
  numbers, so that the 12-bit product loses nothing for the values that the board files allow.
* `SdrSetUpHolds` joins the tool and the stage 1 of the JZ4755: from `ArgsAccepted` (what is patched into the program
  comes from a configuration that `parse_configure` accepts) and `ClockOptions`.  `SetUpInv` says what each step of
  stage 1 has left in place.  The tool's test makes the speed one of 21 multiples of 12 MHz, at which the PLL and USB
  dividers are exact; a time that is rounded up to cycles covers the time it was made from, when the clock is
  a whole number of MHz.

### Stage 1
* `DdrProofs!FinalWorksHolds` and `RefusesOnlyHopelessHolds`: for every memory, that is for every predicate
  `Works`, and all numbers of tsels, delays and adjustments.  The invariant says
  what is known of the memory from the tests so far: the delays before `j` all failed
  (`NoneAt`), or those from `first` on worked (`RunAt`); of the tsels before `i` what the search has recorded
  (`Scanned`, `FoundInv`: every window recorded consists of working delays); of the
  adjustments the same (`AdjustInv`).  A middle of a run of working settings is in the run; that the adjustment
  the delays were searched with lies in the range of adjustments tried is what joins the two searches.
* `BalancedHolds`: `MarginInv` adds that each run is the whole run (its neighbours do not work, `Alone`), so that a middle of it has the
  same margin on both sides; the first of the adjustments that fail bounds the second search in the same way.
* `MainTypeOKHolds`: the PLL setting, the times and the refresh count fit the fields of their registers, at most one
  window is recorded per tsel, so `mdelay_pass_array` is long enough, and what is programmed fits its fields.
* `TimingCoversHolds`, `RefreshInTimeHolds` and `WaitsSufficeHolds`: for every patch of `Stage1Assumptions` and each of the three
  memory parts.  The setting of the PLL is computed once (`OnlySetting`), and from it the clock read back and the real one
  (`Clocks`), the fields for each part (`FieldsAre`) and the refresh count (`RefConIs`); `TimingInv` says that this is what the registers hold
  once each step is done.  What is left is linear in the crystal and in the multiplier.
### The session
* `SessionProofs!TypeOKHolds` from `JobsTyped`, `NeverStraysHolds`, `WrittenForThisRunHolds` and
  `DoneMeansDownloadedHolds` from `Sessions`: every job is one of the scripts, with any images and any card, or a command for
  stage 2 by hand; chips are those `Borad_Init` knows; `if=` and `config=` do not read short.  `NeverStrays` also needs that no board is
  a JZ4740, which has no `hw_reset` (finding 3).  Scripts are stopped and boards switched off at any step.
  `SessionInv` says what a clean session has done by each place in its script: what is in memory at the two
  addresses (`AtLoading`), which drivers are set and what the buffer holds (`AtStage2`), which images are on the
  card (`CardSoFar`, `AtImages`); the script is followed command by command, because an answer in flight belongs to the last.

### The NAND flash
* `NandProofs!EraseCountsHolds`: for every flash, set of bad blocks, board and list of jobs.  The
  invariant `EraseInv` relates the loop's counters (`EraseLoop`: the bound is what was
  asked for plus `nand_plane` for each block lost; block and turn are sums of what was erased and lost) and
  says that only the request that started an operation is being served (`Serving`), so that
  the counters stay until the next erase.  The product `plane * lost` is handled by one lemma.
* `TypeOKHolds`, `MarksKeptHolds` and `ErasedOrMarkedHolds`.  `TypeInv` has the records whole.  `MarkParts`: whatever
  is marked anywhere in a block is marked where the driver looks (`Visible`), which programming, erasing and
  marking all keep; for pages of one block this is arithmetic of offsets (`OffsetsMeet`).  `ErasedParts`: the blocks behind the
  erase loop are blank or marked.
* `StoredHolds`.  `Held(f, c)` are the pages of good blocks from the start of the image up to page `c`.  While
  `nand_program` is at page `c` with `i` pages done, `Stores(f, c, i)`: there are `i` of them, and they hold the
  image in order; and the pages above `c` are blank as far as the host erased (`BlankAbove`).  The forced erase
  after a page failure and the restart have to keep this: all blocks before the one that failed were bad, so nothing is stored yet.
  Two pages less than a chip apart are different (`ApartPages`): that is why the image may not go once round the chip.
* `ReadBackHolds`: what is in the buffer are the pages of `Held(flash, r.cur)`, in order (`BufMatches`), or `"many"` has
  happened and `err` is 1, and stays 1 unless `"few"` has happened too or a block was checked since whose spare bytes look damaged
  (`Reported`, `CheckedSpoilt`).
* `CodeAsConfiguredHolds`: `EccParts` says where the global `eccpos` is in every state (never moved on
  the 4760 and 4770, put back at the end of `nand_program` but not of `nand_read` on the 4750, lost by a restart
  on the 4740), and `CodedParts` that the pages of `Held` have their code accordingly.

* `NoFalseAlarmHolds`: the error count is one variable for erase, program and read, so that the invariant is about reasons:
  `AlarmParts` says that `err` is 0 or there is a reason which the erase (`MetErase`), the program (`MetProgram`) or the read
  (`MetRead`) has met, and that this reason can still be seen when the image has been read: a block that looks damaged
  goes on looking so, because programming over it only spoils it, and nothing erases it after it was met but the erase after
  a page failure, which is excepted.  That the read meets nothing else needs that every page
  between the image's start and the chip's end has a code that the read understands (`PagesFit`), from `CodedParts`.

Several conditions of these properties were found by a proof that did not go through, where the instances of that
time had no counterexample: marks out of sight of the 4760 (`MarksMeanBad`); the boot loader written over marks;
images that go round the chip, and an erase after a failure that comes round to the image (`RoomForImage`);
the spare bytes counted from a moved `eccpos`; a bad block that only the erase meets, behind an image that is
read without an error and then reported as damaged (`LooksDamaged` looks as far as the erase came).  The instances were
enlarged until TLC found each of them.  Only for `OnceRound` (no image is longer than the good blocks of the chip) there is
no instance: the proof needs it, because a page stored in a second turn may have another place for its code on the 4750.

### Setting cards up
* `CardProofs!CardTypeCorrect` and `OwnLoadersHolds`: for all cards, sessions and faults.  `sk_hw_style` outlives the
  card it was read from, so that `OwnLoaders` rests on the order of the steps in a request: `InTurn`
  says of what is left of the running request that it has no loader in it, or the style is that of
  the card in the slot (`Fits`), or it still has to ask for the version, by then with `card_type` set by this
  card's own identification.  That no loader is in a rest is shown part by part (`OpenRestSteps`).
* `InitMeansReadyHolds`: `CARD_INIT` is one step, and its answer is that of the card in the slot (`InitAnswered`).
* `OpenCompleteHolds`: every rest of `skymedi_open_card` has a name (`First1` to `First9`, `Second1` to `Second8`, `Fdm1` to
  `Fdm6`, `Cid1` to `Cid8`), and `OpenInv` says by name what the card has got by then; a retry goes back to an earlier
  name, and one that gives up ends the request.  A 6811 has no second format, so that "complete" means less
  for it: `NoSecond` says it is never given the loader of that format.

### Assumptions, and what is only model-checked
Assumptions on the constants: `SdSizes`, `DeviceAssumptions`, `NoReqAssumption`,
`HostAssumptions`, `FwCfgAssumptions`, `Stage1Assumptions`, `SessionAssumptions` (positive sizes, distinct packets, a download fits in the buffers:
1024 <= 1056 blocks in the code), `FlashAssumptions` and `DriverAssumptions` (types of boards and jobs, a block has two pages or
more, the boot loader, with its codes, fits a block and comes whole; only a 4770 may have its layout wrong), `CardAssumptions` (types of
sessions), `SdrAssumptions` and `MemoryAssumptions` (types of what is patched and of memories), `PartAssumption` (a memory has the
times of one of the three parts in the code: DDR2, mobile DDR, DDR1), `DdrAssumptions` (at
least two tsels and one delay, the DQS field holds the adjustment of the search).  Every one is evaluated by a TLC run.

Only model-checked:

* `RightVerdict`: each test is a fold over the words of the memory, and what a fold leaves for every length is an
  induction over data, out of the prover's reach.
* `RunEnds`, `ScriptEnds`, `SessionEnds`, `RequestsAnswered`: liveness, which is out of the prover's reach.

## 5. Abstractions

Blocks are model values; addresses are block numbers, the conversion from bytes
(`BlockAddr`, rounding down) is modelled.  Integers do not wrap in this part: a card
address is an `unsigned int` of bytes, so block numbers stay below 2^23.  A control
message is one step for the SETUP packet and one for its end.  Messages printed
and `handshake_PKT`'s contents (not looked at by the tool) are left out, but for the error count of the NAND drivers.

Stage 1: a pass of a wait takes at least four CPU cycles (`PASS_CYCLES`).  Session: the contents of `Bulk_in_buf` are not followed, a
failed read brings anything; the card does not hold an image before it is written.

NAND: data is a name, 0xff or spoilt; a spoilt page is always found to be uncorrectable; a protected chip
does nothing and reports success; page addresses wrap at the end of the chip.  Cards: one step is a command or
transfer with the retries inside it.  Memory: a test has the same result whenever it is made.

## 6. Not modelled

* Device: full speed (64-byte packets), descriptors and standard requests of endpoint 0, `SDRAM_LOAD`,
  `LOAD_RTC` and the like that no host tool sends.
* Tools: command-line parsing, `of=`, several boards on the bus.
* Card: command framing and register polling, bus width, CMD35/32, high-capacity addressing.
* NAND: option `OOB_ECC`, pages of 4096 bytes and several chips on the 4740, `nand_mark_erase`, `nand_query`, the
  requests `READ_RAW`, `READ_OOB`, `MARK_BAD` and `READ_TO_RAM`, the rule for 512-byte pages of the 4750, a start in
  the middle of a block, the codes themselves.
* Stage 1: the programs of the JZ4760 (they search as DDR1 does), `tWTR`, `tMINSR`, `tXP`
  and `tMRD`, a bus of 16 bits, the register sequences, UART and GPIO setup.
* Serial output, cache maintenance, start-up code.

`PROJECT.json` lists every part with its status.  Of the 62,000 lines of the repository some 43,000 are
register headers: names and addresses, several copies of each, with nothing in them to model but
the few macros the clock is read back with.  Of the 18,700 lines of C, assembler and scripts the modules
stand for about a third; the larger part of the rest are near copies (three DDR programs and an
SDRAM program per chip) and register setup.

## 7. Plan

1. (done) `SdChunks`, `Stage2Device`, `Stage2Sd`, `SdDownload`: the download to the card.
2. (done) `BootSession`: the scripts over a board that goes from ROM to stage 2 and back.
3. (done) `FwHand`, `FwCfg`, `Stage1Boot`: the configuration tool on 8- and 32-bit integers
   and how stage 1 of the JZ4770 reads the values.
4. (done) `NandFlash`, `NandDriver`, `NandSession`: erase, program and read with bad blocks and failures.
5. (done) `CardSetup`: card identification and opening.
6. (done) `DdrTiming`, `DdrTune`, `Stage1Main`: timings and delays.
7. (done) `MemoryTest`, `Stage1Sdr`: plain SDRAM of the JZ4725B, JZ4750 and JZ4755 and its memory test.
8. Full speed: packets of 64 bytes and the second read of INTRIN (`udc.c:599`).
9. (done) Proofs of the safety properties of the download, the configuration tool, stage 1 of the JZ4770, the
   session, the NAND requests and the card requests.
10. (done) Proofs of `NoFalseAlarm`, of the timings and of `SdrSetUp`.  Of the safety properties `RightVerdict` is left.
