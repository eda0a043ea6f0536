# A verification of the SPI-NAND programmer

The program reads, writes, erases and scans SPI NAND chips through a USB or
serial programmer. These modules model what it does to a chip and to the files
it reads and writes, TLC checks them on small instances, and TLAPS proves the
central properties for every size of chip. References like `flashops.c:268` are
to files under `src/` (`core.c` is `src/spi-nand/core.c`, `serprog.c` is
`src/spi-mem/spi-mem-serprog.c`, `fx2qspi.c` is
`src/spi-mem/spi-mem-fx2qspi.c`).

## 1. The system

One process, one thread, one chip. Four layers call one another downwards and
nothing calls back; the concurrency is between the process, the chip, which
works on its own while the program polls it, and the device at the far end of a
serial line or of two USB pipes. What survives the process is the flash, the
chip's registers (until the next RESET), what that device was in the middle of,
and answers nobody took.

| component | state | operations | calls |
|---|---|---|---|
| `main.c` | options, `fp` | read, write, erase, scan | adapter choice, `spinand_probe`, `flashops.c` |
| `flashops.c` | position, `cur_offs`, `eb_rd_offs`, `actual_read_len`, buffers; the file; the flash | `snand_read`, `snand_write`, `snand_scan_bbm`, `snand_isbad`, `snand_markbad`, `snand_erase_remark` | `nand.h`, the page operations |
| `include/nand.h` | none (memory organisation is read only) | offsets to positions and back, next page, next eraseblock | |
| `core.c`, page operations | `cur_target`, `cfg_cache`, `databuf`/`oobbuf` | `spinand_read_page`, `spinand_write_page`, `spinand_erase` | vendor `select_target` and ECC decoders, `spi-mem.c` |
| `core.c`, initialisation | the same and `op_templates`, identification | `spinand_init` | vendor tables and init functions, `spi-mem.c` |
| `spi-nand/*.c` | constant tables | rows, `select_target`, `get_status`, vendor init | `core.c` |
| `spi-mem.c` | none | operation checks, `exec_op`, reads and writes without direct mapping | adapter |
| `spi-mem-serprog.c` | the line | probe, `exec_op`, `adjust_op_size` | tty |
| `ch347/` | USB handle, the bridge's chip select, `tmpbuf` | opening, settings, `exec_op` in two forms, `adjust_op_size` | libusb |
| `spi-mem-fx2qspi.c` | USB handle, `fx2_op_buffer`, the firmware's phase | opening, reset, `exec_op`, `adjust_op_size` | libusb |
| `spi-mem-drvs.c` | none | `spi_mem_probe`, `spi_mem_remove` by name | the three adapters |

What is hard here, and what makes each component correct:

* **Write** (`flashops.c:161`). Three cursors (the position, `cur_offs`, the
  file) move by pages, by eraseblocks and backwards, and every call may fail.
  Correct: the pieces of the file lie on the flash in order, whole and once;
  only erased pages are programmed, in ascending order; bad blocks are skipped,
  marked and never touched otherwise; nothing before the offset changes.
* **Dump and scan.** A failed read must not shift or duplicate what follows.
* **Page operations.** The driver works from what it believes of the chip
  (selected die, configuration register of each die) and keeps that belief
  across errors; a busy die ignores commands; a failed program or erase is
  told by a status bit; the page cache of the chip holds old data. Correct: a
  call that returns success has had its effect once, on its own page and in its
  own ECC mode, and a read returns what the page holds.
* **Initialisation.** Three ways to read an ID, 51 rows, adapters of different
  widths and sizes, several dies, and registers an earlier run may have left in
  any state. Correct: the row is the chip's, and the beliefs handed to the page
  operations are true.
* **ECC decoders.** Eight ways to turn one or two registers into a number of
  corrected flips. Correct: on every chip of the tables never fewer than there
  were, never more than it corrects, and lost data is always called lost.
* **Adapters.** An operation of several transfers each way, a device that may
  refuse, one an earlier run left in mid operation, and a transfer that fails.
  Correct: the two ends agree on where they are, what counts as moved has been
  moved, a call comes back, and what was opened is closed.

PROJECT.json lists each hazard at its line with the properties that cover it.

## 2. Modules

| module | models | state and actions |
|---|---|---|
| `NandGeometry` | `nand.h:90-506` | operators only: `OffsToPos`, `PosToOffs`, `NextPage`, `NextEraseblock`, with the carries into LUN and target |
| `FlashWrite` | `snand_write` and what it calls | variables are the C locals, the file position and the flash; one action per way a turn of the loop can end: `SkipBlock`, `EraseBlock`, `WritePage`, `WriteFails`, `VerifyPage`, `VerifyFails`, `BadBlock`, `EraseRest`, `Break`, `LoopEnds`; `ProcessEnds` is main returning, a kill or a power failure |
| `ImageStore` | what a write promises | `Begin`, `Store` a piece, `LoseBlock`, `End`: abstract specification of `FlashWrite` |
| `FlashRead` | `snand_read`, `snand_scan_bbm` | `DumpPage`, `ScanBlock` and the ends |
| `SpiNandChip` | the chip (external) | registers, a page cache per plane and the array of every die; the commands as operators, `CompleteLoad/Program/Erase` for the chip's own steps |
| `SpiNandCore` | the three page operations | composes the chip with the driver; one action per command sent: `SelectDie`, `EccChange`, `WriteEnableOp`, `WriteToCache`, `StartArrayOp`, `WaitReady`, `ReadFromCache`, ... |
| `PageDevice` | what `core.c` promises `flashops.c` | `Invoke`, `TakeEffect`, `Succeed`, `Fail`: abstract specification of `SpiNandCore` |
| `VendorTables` | the tables of `spi-nand/*.c` | all 51 rows with what initialisation and reading look at, and the operation variants |
| `SpiMem` | `spi-mem.c` checks, the adapters' `adjust_op_size` | operators only |
| `SpiNandInit` | `spinand_init` to the unlock | one action per command: `Reset`, `ReadId`, `CacheRead`, `QuadEnable`, `OtpDisable`, `MicronInit`, `WinbondBufRead`, `Unlock`, ... |
| `SpiNandEcc` | the decoders, `spinand_check_ecc_status` | extends `SpiNandInit` with one `ReadPage` once it is ready; the registers a page leaves are the chip's, the decoder is the one the driver chose |
| `AdapterCalls` | what the adapters share: opening and closing, the fallback of `spi-mem.c`, the page loops of `core.c` | `Open`, `OpenFails`, `Unwind`, `RemoveAdapter`, `Call`, `Part`, `PartsEnd`; the line each way and the chip |
| `Serprog` | `serprog.c` | one action per `write` or `read` on the line; `Programmer` (external) takes one item |
| `Ch347` | `ch347/ch347.c`, `ch347/spi-mem.c` | one action per packet out or in: `Setting`, `Select`, `ExchangeOut/In`, `HeadOut`, `BodyOut`, `BodyIn`, `Deselect`; `Bridge` (external) takes one packet |
| `Fx2Qspi` | `fx2qspi.c` | one action per transfer: `ResetOut`, `ResetIn`, `Phases`, `PacketsOut`, `PacketsIn`, `End`; `Firmware` (external) takes one item |
| `SpiMemDrvs` | `spi-mem-drvs.c` | composes the three with `AdapterCalls`, and states what is asked of every adapter |

`MC*` modules only give values to constants; `*_proofs` hold the theorems.

How they fit together. `FlashWrite` and `FlashRead` are written against a page
interface that answers each call with success or an error. `PageDevice` is that
interface, and `SpiNandCore` implements it. `SpiNandCore` starts from the state
`SpiNandInit` is shown to leave (`ReadyForCalls`). Both take for granted that a
command is delivered or reported as failed; `SpiMemDrvs` shows when that is so
on each adapter, and where it is not (`serprog_errno`, `fx2_length`).
`SpiNandEcc` goes on where `SpiNandInit` ends, because what a decoder is worth
depends on the row that was found; `SpiNandCore` keeps the three kinds of outcome
a decoder can have.

Abstractions. The content of a page is the piece of the file it was programmed
with (`FlashWrite`), its own place (`FlashRead`), one of a few values per part
main/OOB (`SpiNandCore`), the flips of its worst sector (`SpiNandEcc`) or bytes
named by page and column (the adapters).
`Garbage` is any content that is none of these, so a page programmed twice or
interrupted is recognised. Printed text and `-ENOMEM` are left out.

Histories. `layout` and `skipped` (`FlashWrite`), `effect` and `answer`
(`SpiNandCore`), `hurt` (`SpiNandInit`), `got` (`SpiNandEcc`), `refused` and
`glitch` (`AdapterCalls`) are not in the code. Properties speak through them; no
action reads one in a guard except `glitch`, which bounds the failing transfers
to one, and `got`, which bounds the reads to one (a read leaves nothing behind
that another one looks at).

## 3. Runs

Every run below is exhaustive within its constants.

**write_faults** (`FlashWriteFaults.cfg`). Two targets with two eraseblocks of
two pages each, two planes; a verified write, a raw write with OOB on the second
target, a write from a pipe that erases the rest, an erase and a misaligned
offset; files of 3 and 8 bytes (a short last page; exactly four pages); every
call may fail, a program may store something else and say nothing; any marks at
the start; kills and reruns. Shows that the cursors stay together
(`OffsetTracksPosition`), the pieces lie in order, with gaps only at skipped
blocks (`ImageLaidOut`, `LayoutContiguous`), no piece is lost but those of a
block given up after the last, short read (`OnlyTailLost`: what `write_tail_lost`
finds is the only way), only blank pages are programmed (`BlankAhead`), erase and
`--erase-rest` reach every block (`EraseRestCovers`), marks survive
(`MarkedLeftAlone`), nothing before the offset changes (`FrontUntouched`), only
blocks given up are marked (`MarksWhatItSkips`), `FlashWrite` implements
`ImageStore` (`StoresImage`; what is stored is read from the flash through
`layout`; runs that promise nothing, from a pipe or over silent errors nobody
reads back, store nothing there), and a run that is not killed ends
(`Terminates`). Two pages per block give a failure at the first page and at a
later one; two targets give every carry that one LUN can produce.

**write_tail_lost** (violation). `ImageComplete`, the same without the exception,
with one failing program: see section 5.

**read_dump**. Two targets of two LUNs of two eraseblocks of two pages: every
carry of the position. Whole, raw, partial, past the end, from beyond the end
and misaligned dumps, with one page in trouble anywhere and any set of marked
blocks. A page of the dump is the flash's page or zeros (`DumpPlaced`), no page
that could be read is missing (`DumpKeepsReadable`), the dump has the length
asked for (`DumpLength`), the scan names all marked or unreadable blocks and no
others (`ScanComplete`), both end (`Terminates`). One page in trouble is enough
because a failing read changes no state but the buffer; `SizeMod` is the wrap of
`size_t`.

**core_all**. Two dies, two eraseblocks on two planes, one page each; on one page a
write of the main area with ECC, a write of the OOB without, a read of both and an
erase; on the other die and plane a read without ECC; a read past the last die.
Commands rejected, programs and erases failing, pages beyond correction.
Shows that the driver's beliefs are true (`CacheCoherent`), that a die only
works on what the current call asked for (`JobMatchesCall`), that a program
finds the requested bytes and 0xff elsewhere in the chip's cache
(`CacheFilled`), and `ImplementsPageDevice`.

**core_ends**. With a chip that may stay busy for longer than the timeout and
commands that are delivered but reported as failed: every call returns
(`CallReturns`), and `BitsKept`, which core_all checks with rejected commands. The
driver's copy of the bits other than ECC never changes; a register's do only on a
die selected by a command that was delivered but reported as failed, and then it
gets the copy kept for the die it is taken for, nothing else. The dies start with
any bits set, so a copy that went to the wrong die shows. Two calls, a write that
needs ECC on one die and an erase on the other, take every command but those of a
read, which waits in the same place; a copy goes to the wrong die when the erase's
selection is the one reported as failed. More calls multiply the contents of the
array, on which no register depends.

**core_stale_cfg** (violation). `CfgCacheHolds` where a status read may fail:
see section 5.

**init_all**. Every one of the 51 rows as the chip on the bus and one chip that
is in no table, on the three adapters with their real size limits; any bits of
the configuration register set at the start; any command may fail. No chip is
taken for another (`RightModel`), and at the end the beliefs are true
(`ReadyForCalls`), every die is unlocked (`AllUnlocked`), the quad bit says
whether the chosen operations need four wires (`QuadAsChosen`), Winbond chips
are in buffer read mode (`BufferRead`). Then one page is read with every number
of flips the chip corrects and one beyond, the bits of the registers that say
nothing about ECC low and high, second registers that lie where the code expects
it, and a command that fails: the result is right for the chip on the bus
(`FlipsReported`). A chip that has two codes for the same number of flips may send
either; `FlipsReported` names the one code whose decoder does not know it, and the
error it gets, as its exception (section 5). A run makes one read, and every row
is tried.

**init_continuous** (violation). `ContinuousReadOff`: see section 5.

**adapters_all** (`AdaptersAll.cfg`). Each adapter in turn; a page of 8 bytes and
limits of 10 on serprog and the CH347, so that a page takes two operations either
way (a read has three bytes of address and dummy, a program load two) and the
second of a page on the CH347 fits its small buffer (`OpBuf = 6` stands for 16);
on the FX2 three packets of which the last is short (`BufSize = 3`); three calls,
the first without data; an earlier run killed in mid operation; an opening that
fails at every step; a programmer that refuses; one transfer that fails or is
short, having moved nothing, part or all. Until a transfer fails the ends agree
between calls (`InSync`) and only refused operations fail (`OnlyRefusalsFail`). A
success means the page was moved whole, also in the very call a transfer failed
in (`PageWhole`; nothing is claimed of the calls after it, where an answer that
comes late may be taken for the next one's); everything opened is closed, but by
`ch347_probe` when the settings are not taken (`Released`); every call comes back
(`CallsEnd`: on USB always, on serprog until the line fails). One start is left
out of `InSync`, `PageWhole` and `OnlyRefusalsFail`: an FX2 run killed while it was
reading, whose packets are still on the pipe. `FxInit` has it, with `glitch = "left"`
instead of `"none"`, and the claims would be false there (section 5). No transfer is
made to fail on top of it. `MapLen = 2` stands
for the 32 bytes of the command map. One failing transfer is enough because
nothing is claimed of what follows it but that calls end.

**serprog_errno** (violation). `AmountRead` with a failing `write` or `read`.
**fx2_length** (violation). `PageWhole` where a length has as many bits as the
page needs less one. **fx2_reset** (violation). `KilledRunFreed` where the reset
writes less than a page. See section 5.

Deadlock is checked in the `write_*`, `read_*` and `core_*` runs, where a new
process or call can always follow. Initialisation ends, the program closes its
adapter, and the serial line may be left waiting for a programmer that was cut
off or for an answer a failed call has lost, so the other cfgs say
`CHECK_DEADLOCK FALSE`.

### Fairness

The program is one thread: `FairSpec` is weak fairness of the program's own step
and nothing more in `FlashWrite`, `FlashRead` and `SpiNandCore`, where each
action is a call that returns because of the layer below. The chip promises
nothing: `CallReturns` holds with a chip that never becomes ready, for
`spinand_wait` has a timeout (`core.c:336`). In `SpiMemDrvs` the device is weakly
fair too (it takes what is sent to it), and the program's fairness is of the
steps in which no transfer fails, or one whose failure the caller sees: a
failure may happen but need not. On USB a transfer nobody answers times out,
which is a step of the program; on the serial line nothing does.

## 4. Proofs

All proofs are for arbitrary constants under the `ASSUME`s of the modules: the
memory organisation is one of positive numbers (`MemorgAssumption`), the command
lines, calls, tables and faults are any sets of the right kind, `size_t` wraps at
a multiple of a page (`FlashReadAssumption`), and of the 51 rows only what the
code relies on is used: that no two rows answer to the same ID
(`IdAssumption`), that every variant of an operation has the shape its name says
(`VariantAssumption`), and that the strength a row claims is that of the decoder
it names (`EccAssumption`). TLC evaluates all three on the real tables.

* `NandGeometry_proofs`: `OffsToPosInverse`, `NextEraseblockAdvances`,
  `NextPageAdvances`. Position arithmetic by division and remainder, carry by
  carry.
* `FlashWrite_proofs`: `TypeCorrect`, `OffsetTracks`, `ProgramsBlankPages`,
  `RewindsToBlockStart`, `NullFileSafe`, `ImageInOrder`. None of these is
  inductive alone. `IInv` adds what the loop relies on without saying so:
  `Account` (bytes of the file accounted for at each label; that
  `eb_rd_offs = page * fread_len` inside a block), `BlankLeft` (which pages of
  the block are still erased), `Behind` (the pages counted as written lie behind
  the position, so programming the next one cannot disturb them) and `NoFile`.
  `ImageInOrder` is for a file that can be rewound: every page counted as written
  holds its own piece, or, where it is not read back and the flash fails
  silently, no piece at all. `RewindsToBlockStart` (eb_rd_offs is the distance to
  the block's first piece when `BAD_BLOCK` is reached) and `NullFileSafe` (no
  file, no `fread` or `fseek`) are stated of properties no run lists: they are
  steps of the argument, and what they are for is checked as `ImageLaidOut` and
  `EraseRestCovers`.
* The same module: `Contiguous`, `RestErased`, `LosesOnlyTail`, and the
  action properties `MarksKept`, `FrontKept`, `MarksOnlySkipped`. `LInv` adds to
  `IInv` that the position never falls behind the offset (`Beyond`); that as long
  as the file may go on, the pages written are those of whole eraseblocks and
  then those of the one under work, with nothing but eraseblocks given up between
  (`Joined`), which is what lets `BAD_BLOCK` take back one eraseblock's pages, no
  more and no less; what `--erase-rest` has covered (`Covered`); and what the end
  of the file leaves (`TailKept`). Without `Joined` a taken-back page could belong
  to an earlier block, and contiguity is not inductive.
* And `StoresAnImage`, that `FlashWrite` implements `ImageStore`. A page counted is a `Store`, `BAD_BLOCK` a `LoseBlock`, everything
  else a stutter; `ImageLaidOut` before and after a step says what the layout
  holds. The attempt to prove it found the mapping wrong: a refused request was
  mapped to a store of its file that never begins, which none of the run's
  requests brought out. `Promised` now leaves refused and idle states out.
* `FlashRead_proofs`: `TypeCorrect`, `DumpIsAnImage`, `KeepsReadable`,
  `LengthAsAsked`, `ScanNamesAll`. `IInv` ties the position to the number of
  pages in the dump. The length needs `Progress`: bytes read count pages until
  the wrap of `size_t`, and the dump is never a page longer than asked; it
  holds for a `size_t` that wraps at a multiple of the page, as powers of two do.
  The scan needs the eraseblocks behind the position to be the ones reported on.
* `SpiNandCore_proofs`: `TypeCorrect` and `QuadKept` (`BitsKept`) for any
  combination of faults. `QuadKept` is about all bits but ECC: without the fault
  "lost" no register's ever change; with it a register's may become the copy kept
  for the die the driver takes the selected one for, and the copies never change.
  Then `DriverKnowsChip`, `JobsMatchCalls`, `ProgramsAsAsked` and
  `ImplementsDevice` for `Reliable` faults (a command reported as failed was not
  delivered, status reads do not fail, three seconds are enough; without these
  assumptions the claims are false, see `core_stale_cfg`). `IInv` adds that the
  selected die is the call's (`OnTarget`), that ECC is as asked from the moment
  it was set (`EccAsAsked`), and how far the chip's cache is filled (`Filling`).
  The refinement of `PageDevice` needs `RInv` besides: what the history says the
  call has done is what the die's status bits say (`EffectKnown`), a program is
  under way with exactly what was written (`Programming`), and what was fetched
  so far is the page's (`Reading`).
* `SpiNandInit_proofs`: `CacheHandedOver`, `EveryDieUnlocked`, for any number of
  dies; `IInv` says how far each of the three loops over the dies has come. Then
  `TypeCorrect`, `TakenForItself`, `QuadFollowsAdapter`, `BufferReadEverywhere`
  from `RInv`: the row found is the chip's (`Identified`, from `IdAssumption`),
  no operation with four wires was chosen for an adapter without them (`Wired`),
  and how far the loops have set the bits (`QuadSet`, `BufSet`). And
  `ReportsFlips`, decoder by decoder: for every row, number of flips, bits of the
  registers that mean nothing, place of the second register and code the chip may
  choose, the result is between the flips there were and the strength, and lost
  data is lost; the code that `gd5fxgq5xexxg_ecc_get_status` refuses is excepted.
* `SpiMemDrvs_proofs`: `Closes` and `TypeCorrect`, for every size of page, buffer
  and length field. What is held is what the steps of opening up to this one
  have taken (`Owned`). The type invariant needs that an operation under way is
  the part of the page `adjust_op_size` made of what is left (`OpShape`), so that
  no part reaches beyond the page, and what crosses the line each way
  (`LineTyped`). `PartIs` is the fact behind it: what `adjust_op_size` returns
  fits the length fields and is refused by no test on the way down. Preparing the
  proof with other constants than the run's corrected two things: the chip was
  asked for columns beyond its page, and `PageWhole` claimed too much of late
  answers (section 5).

* `SpiMemLine_proofs` (serprog) and `UsbLine_proofs` (ch347, fx2qspi, and the
  theorems): `LineInSync`, `PageMovedWhole`, `FailsOnlyRefused`, for the three
  adapters, every page, buffer, limit and command map, every split of an answer
  and what a run that was killed may have left, but for packets on the pipe of the
  FX2 (`glitch = "left"`: the reset does not clear it, section 5). They have one condition,
  `Fits`: on the FX2 the page, or what `adjust_op_size` leaves of it, is shorter
  than the 12 bits of a phase can say; the run `fx2_length` shows that without it
  `PageWhole` is false. The inductive invariants `SerInv`, `ChInv` and `FxInv` say
  for each label of an `exec_op` what is still on the way to the device, what the device and the chip have made of the rest, and what is on its
  way back. On serprog that is one request, cut into the writes of which the
  programmer has taken so many (`UpTo`), or what is left of its answer. On the
  CH347 nothing answers the chip select, so two operations' packets can be
  on the line at once: what the chip holds is what it will hold when the
  operation before is deselected (`Held`), a reply may come in two
  (`Coming`), and an answer left by an earlier run makes the first settings fail
  and never meets an operation (`Behind`). The FX2 answers nothing but reads, so
  any number of operations can be on the line. What its firmware will make
  of them is one relation, `Leads`: from here, this queue of items brings it to
  that state and the chip to that content. `LeadsOn` composes two queues,
  `LeadsFirst` takes one item off the front, and so the program's writes and the
  firmware's steps each keep it; an operation leads from an idle firmware to one
  that has its data before it (`StreamLeads`, `DataLeads`) and back (`ZeroLeads`).
  A read waits for the packets of what is left (`Fetching`, `PacketsAre`), and
  the reset's zeros end whatever a killed run was promised, or the probe fails
  (`Zeroing`). That a call which failed is over
  (`Noted`) is why nothing has to be known once a transfer has failed.

Only model-checked: liveness (`Terminates`, `CallReturns`, `CallsEnd`) and
everything that needs ENABLED. The proofs
use no induction scheme; that the first of several exists (`First`: the first row
that matches, the first variant the adapter carries) and that the loop which
moves a page in parts is defined for every length are taken from the well-foundedness of the naturals (`WFMin` of the library).

## 5. Where the code departs from what it says

Each of the six is a run that TLC finds violated.

* `write_tail_lost` (`flashops.c:268`). A page failure at the last, short read
  of the file: `BAD_BLOCK` rewinds the file but leaves `actual_read_len`, so the
  loop takes the file for exhausted. The failed block's pieces are not written,
  and the run prints "done".
* `core_stale_cfg` (`core.c:75`). After a status read that failed or timed out
  the chip may still be busy. It ignores the next call's SET FEATURE, whose
  transfer succeeds, and `cfg_cache` records a value the register never got.
* `init_continuous` (`micron.c:189`). `micron_spinand_init` switches continuous
  read off on the die selected last; the two-die chips with the flag keep it on
  die 0.
* `serprog_errno` (`serprog.c:234`). A failed `write` or `read` returns the
  positive `errno`, which `spi_mem_no_dirmap_read` hands up as an amount read.
* `fx2_length` (`fx2qspi.c:46`). The length shares a byte with the flags; a page
  of 4096 bytes with its OOB overflows into the flag that says read, although
  `adjust_op_size` is there to split such an operation.
* `fx2_reset` (`fx2qspi.c:136`). The comment says 4096 bytes of zeros, the loop
  writes 2048: less than a page with OOB the firmware may be waiting for.

Departures met while reading for which there is no run:

* With `--with-oob` nothing is read back although ECC is on (`flashops.c:237`);
  README.md:13 and 39 make an exception for `--no-ecc` only.
* An offset beyond the end wraps in `flash_size - offs` (`flashops.c:26`).
  `FlashRead` computes the wrap and `read_dump` tries it; a real `size_t` makes
  the dump endless in practice. No document says what it should be.
* A select-die command that takes effect but is reported as failed leaves
  `cur_target` on the wrong die (`core.c:129`): fault "lost" of `SpiNandCore`,
  outside `Reliable`. `BitsKept` bounds what it does to the registers; the page
  operations that follow work on the wrong die.
* An eraseblock whose marker cannot be read counts as bad (`flashops.c:95`) and is
  then marked for good; one whose mark fails to program (`:157`) stays without.
  `FlashWrite` takes both paths, and its properties accept them.
* A short read of serprog's command map returns a positive count that its caller
  takes for success (`Serprog.After`); `read` returning 0 makes the read loops
  spin (`serprog.c:287`); a programmer that was killed in mid request and was
  promised more than the sync leaves both ends waiting.
* `ch347_set_cs` fails and nobody looks (`ch347/spi-mem.c:39`): the operation runs
  without a chip and reports success. A transmit that fails returns with the chip
  selected (`:59`). `ch347_probe` leaves everything open when the settings are not
  taken (`:91`). The run takes these paths; its properties except them.
* An answer that comes after its transfer timed out is still on the pipe, and the
  CH347 compares a reply with its command and a greatest length only
  (`ch347.c:60`): a later register read takes it, and so may a later page. With
  the constants of `adapters_all` alone a page seemed safe from it (replies to
  two commands alternate, and three calls are few); larger pages, smaller buffers
  and more calls showed that it is not, and the property no longer says so.
* `fx2qspi_reset` asks for garbage and reads one packet (`fx2qspi.c:150`). A run
  killed while it read a page may have left packets on the pipe; then the one read
  is the oldest of those, and what was asked for is still to come when the first
  operation looks for its answer, so that the calls read what is not theirs. `FxInit`
  has such a start (`glitch = "left"`) and the run makes the calls; `InSync`
  without the exception fails on it.
* `gigadevice.c:15` names a status code for four flips, 3 << 4, that
  `gd5fxgq5xexxg_ecc_get_status` (138-164) has no case for: a page with four flips
  that the chip corrected is answered with `-EINVAL` and cannot be read, where
  `spinand.h:272` asks for the number of corrected flips. `CodesOf` has the code;
  `FlipsReported` without its exception fails on it.
* A second ECC register that fails with serprog's positive `errno` is counted as
  flips (`gigadevice.c:105`). `main` returns 0 whatever the operation returned
  (`main.c:106`).
* On chips with two LUNs per target the line the scan prints names two blocks.
* A device ID of one byte matches every chip of that maker whose second byte is
  the same, whatever follows.

## 6. Not modelled

* **`main.c`** beyond the requests it makes of `flashops.c` and the adapter it
  opens and removes: option parsing (`char opt` compared with a negative number),
  opening the file, the exit status, which does not depend on the operation.
* **Row addresses** (`nanddev_pos_to_row`: shifts by powers of two, where the
  models pass the position itself), and the bad block and ECC bookkeeping of
  `nand.h`, which this program does not call.
* What the settings of the CH347 and the terminal are; allocation; direct mapping
  descriptors (no adapter has direct mapping, so one is its template); the
  compatibility headers.

Assumed of the chips (the map marks these definitions external): RESET selects
die 0; a busy die ignores everything but status reads and die selection;
programming only clears bits; a failed program or erase leaves the old content,
the new, or something else, on its own page or block only. The codes a page with
flips leaves in the registers are the ones the constants and comments of the
vendor files name, all of them (`CodesOf`): where two cover a number of flips the
chip sends either.

Assumed of the devices behind the adapters, which are not in `src/`: each takes
what is sent in order and answers in order. The serprog programmer counts the
bytes it was promised and eats whatever comes. The CH347 bridge moves the chip
select when told to, or after one exchange when told so. The FX2 firmware is a
machine of phases: two bytes of flags and length, then so many bytes, and a zero
byte where a phase is expected deselects the chip; asked for garbage it answers
with one packet of any length, and packets nobody took stay on the pipe when the
program dies. A device that gets something
it has no use for (a packet cut short, bytes beyond a promise) is lost and may do
nothing more.

## 7. Plan

Done, in this order: geometry; write, its abstract store and proofs; dump and
scan; chip and page operations, page device and proofs; tables and
initialisation; the serial adapter; the three adapters behind one interface; the
ECC decoders.

Next, to extend the model: `FlashWrite` over `PageDevice` instead of its own
flash, so that the two refinements compose.

Every safety property the runs check is stated by a theorem. Next, to prove:
what stays true after a transfer that failed, where the code resynchronises at all.
