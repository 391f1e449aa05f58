# Verification of sksoc

sksoc is a system on a chip written in Verilog. It boots from an SD card and runs
NuttX on one or two Hazard3 RISC-V cores ("harts") behind an AHB-Lite bus, a
write-through cache and a DRAM in another clock domain, with an SD block device,
an Ethernet device, a UART and a timer behind an APB bridge. On NuttX run an SMP
test, a file system test and a benchmark. This directory holds
TLA+ modules translated from that source, TLC runs on small instances of them, and
theorems about them for every value of their constants, checked by TLAPS.

All paths below are relative to `src/h3/example_soc/libfpga/` unless they begin with
`src/`.

## 1. The system

    hart 0 ──┐                        ┌── AHB port + monitor ── cache ── DRAM bridge ══ DRAM
             ├── crossbar (splitters, │   ahb_laur_mem.v        cache_   memory.v,
    hart 1 ──┘   arbiters)            │                         laurwt.v af.v (2 clocks)
                                      └── APB bridge ── splitter ── timer | UART | SD | Ethernet

| Component | State it keeps | Operations | Meets the others through |
|---|---|---|---|
| Crossbar (`busfabric/ahbl_crossbar.v`, `ahbl_splitter.v`, `ahbl_arbiter.v`, `common/onehot_priority.v`) | per master the slave of its data phase; per slave the granted master, a buffered address phase per master, the last grant | take an address phase, grant, buffer a loser, swap priorities, answer an address of no slave | hready/hresp to each master and slave, all in one cycle |
| AHB memory port (`mem/ahb_laur_mem.v`) | the phase of a store, address, lanes and word of it, a reservation per hart | read, store, exclusive read and store, refusal | asks the cache in the cycle it takes an address phase; its ready is the cache's busy |
| Write-through cache (`mem/cache_laurwt.v`) | controller state, the request to the DRAM, the lines | hit, miss and fill, whole and partial write | request levels and the busy line of the DRAM bridge |
| DRAM bridge (`mem/ddr3/memory.v`, `cdc/af.v`) | two state machines in two clocks, two fifos with synchronised pointers | carry a read or a write across and its word back | fifos one way and the other, and two flags that cross bare |
| APB bridge (`busfabric/ahbl_to_apb.v`) | one state machine | strobe a device, await its ready | AHB slave on one side, psel/penable/pready on the other |
| SD device (`sd/sd.v`) | a machine for the bus, one for the card, the memory of a block | status, bytes of the block, read and write a block | each machine reads the other's state; a byte handshake with `sd_controller` |
| SD controller (`sd/sd_spi.vhd`, third-party) | its state, the byte latches, error flags | single-block read and write | `sd_busy`, `dout_avail/taken`, `din_valid/taken` |
| SD driver (`src/nuttx-eth-patch-12.11.patch`) | the call under a lock | `mmcsd_read`, `mmcsd_write` | polls the status, then loads or stores bytes |
| Boot (`mem/maintn.v`, `sd/sdspi_reader.v`, `sd/sdspi_file_reader.v`) | six machines: clearing, copying, reading back, the sectors' reader, the walk of the file system, the sender of words | clear the DRAM, find the file, copy it, read it back, hand over | owns DRAM and card until `w_init_done`; the harts' first fetch is already waiting |
| Ethernet (`ethernet/ethernet.v`, the host's `ethdpi.c`, the driver in `src/nuttx-eth-patch-12.11.patch`) | the frame received last and two counters, the transmitter, enables; the driver's handlers and NuttX's worker | receive or drop a frame, read, acknowledge; fill, send, acknowledge the interrupt | registers on the APB, two interrupts to hart 0 |
| SMP test (`src/smp_main-12.c`) | main, its threads, a barrier, the semaphore of the prints | create, meet, print, join, destroy | POSIX threads on two harts |
| File system test (`src/mount_main.c`) | a count of errors; the card | mount, some sixty operations with the result each should have, report | NuttX's FAT, the SD driver |
| Dhrystone (`src/smp_main-dhrystone.c`) | the benchmark's variables | measure, repeat with more runs, report | `mcycle` |
| Timer, UART | registers | software interrupts, compare, send a byte | APB |
| Core (`src/h3/hdl/`) | the pipeline | fetch, load, store, AMO as an exclusive pair | one AHB master per hart (`hazard3_cpu_1port.v`) |

### What is hard here

- Two clocks with no fixed phase: pointers and flags that cross may be seen before
  or after their change, and a state register that crosses bit by bit may be seen in
  a state it never had.
- Handshakes by level: a client raises a request, must see busy, must drop the
  request, must see free. One level missed is a hang; one request held too long is
  performed twice.
- A pipelined bus: the address phase of one transfer overlaps the data phase of the
  other, and a master that loses arbitration is told its address phase ended.
- Exclusive accesses of two harts, built from separate bus transfers.
- A cached word that changes in two places at different times.
- An SD device of two machines that share one memory port and test each other's
  state, polled by a program.
- Liveness under arbitration that swaps priorities.
- A driver whose every register access may be interrupted, or overtaken by the other
  hart or by the network, and an interrupt that is enabled and disabled by several hands.
- A boot of six machines in lock-step, three of them behind handshakes of different
  kinds, over any layout of the file on the card.
- Programs that are run again: memory and card keep what earlier runs, failed calls and
  power cuts left.

`PROJECT.json` lists each hazard at its line with the properties that would catch it.

## 2. What makes each component correct

- DRAM bridge: a memory with one port. Every request is performed once, a read
  returns the last word written, no fifo overflows or underflows, and every request
  is answered at the board's clock ratio.
- Cache: what it answers is the last word written, whatever lies in the lines; it
  never changes memory on its own.
- AHB port: stores change their own bytes, reads see all stores before them, a
  granted exclusive pair is one atomic step, a refused store changes nothing.
- Crossbar: a master gets the answer to its own transfer; no transfer is lost,
  repeated or performed for nobody; no hart starves at the memory.
- SD device with its driver: a store of whole blocks. No command is lost, the block's
  memory is never used by both sides, and every call returns (finding 2 is about the
  exception).

- Boot: when the harts are given the DRAM it holds the file's image, every word once and
  in order; the boot ends on every card that holds the whole file.
- Ethernet: a frame is delivered whole and not written over while it waits, what is sent
  is the packet whole, and somebody is always going to look after a frame that waits.
- SMP test: prints do not mix, nobody leaves the barrier early, nothing is destroyed
  that is still in use, and the test ends; with the failing calls after which the code
  cannot keep these promises named in each.
- File system test: an error it reports is one, and 0 errors mean that the run did all it
  should, as far as the program can learn what the card did. Dhrystone: its results and its
  rate are right.

## 3. Modules

| Module | Models | Extends / instantiates |
|---|---|---|
| `WordMemory` | what a memory behind a busy handshake promises (abstract) | |
| `DramBridge` | `memory.v`, `af.v`, and the DRAM behind them | `WordMemory` as its refinement |
| `DramBridgeClocks` | the same under clocks of given periods | `DramBridge` |
| `DramBridgeProofs` | theorems | `DramBridgeClocks` |
| `CacheWT` | `cache_laurwt.v` on the memory that `DramBridge` implements | `WordMemory` |
| `CacheWTProofs` | theorems | `CacheWT` |
| `SharedMemory` | what the memory port promises the harts (abstract) | `WordMemory` |
| `AhbMem` | `ahb_laur_mem.v`, on the cache and the memory | `CacheWT`; `SharedMemory` as its refinement |
| `AhbMemProofs` | theorems | `AhbMem`, `CacheWTProofs` |
| `Crossbar` | splitters, arbiters, `onehot_priority` | |
| `CrossbarProofs` | theorems | `Crossbar` |
| `ApbBridge` | `ahbl_to_apb.v` | |
| `BlockStore` | what the SD device promises its user (abstract) | |
| `SdBlock` | `sd.v`, the card's controller, the driver | `ApbBridge`; `BlockStore` as its refinement |
| `SdBlockProofs` | theorems | `SdBlock` |
| `FileReader` | the walk of `sdspi_file_reader.v` over a card's sectors | |
| `Boot` | `maintn.v`, `sdspi_reader.v`, the words of `sdspi_file_reader.v` | `FileReader` |
| `BootProofs` | theorems | `Boot` |
| `Ethernet` | `ethernet.v`, `ethdpi.c`, `sksoc_openeth.c` of the patch | |
| `EthernetProofs` | theorems | `Ethernet` |
| `SmpBarrier` | `smp_main-12.c` | |
| `MountTest` | `mount_main.c`, on a FAT file system | |
| `Dhrystone` | `smp_main-dhrystone.c` | |
| `Programs` | the program a build starts, run again and again, and power cuts | the three above |
| `ProgramsProofs` | theorems | `Programs` |
| `MC*` | the constants of the TLC instances | the module each is named after |

The composition is by layers. `DramBridge` is shown to implement `WordMemory`;
`CacheWT` and `AhbMem` run on `WordMemory` itself, so that the state space of the
port does not multiply with that of the two clocks; `Boot` has the bridge as that memory
too. `AhbMem` lets the bus present any
transfer of any hart whenever the port is ready, which covers every choice the
crossbar makes; `Crossbar` lets a slave answer after any number of cycles, which covers
the port.

### How state and actions correspond to the code

Names are the source's wherever TLA+ allows. A step is a clock edge: every register is
primed from its `always` block, and wires are operators over the registers.
Definitions called "Slip" are mutations of the definition that follows them: a
plausible mistake in that code, used only to show that a property would notice.

**`DramBridge`.** `ProcStep` is the processor machine of `DRAM_conRV` (`state`),
`RamStep` the controller machine (`ramstate`); `ProcFifos` and `DdrFifos` are each
side's ends of the two `AFIFO`s, with both synchroniser stages. The client is the
cache's use of the bridge: raise, await busy, drop, await free. `Next` is an edge of one
clock, of the other, or of both; in `RacingEdges` each flag or Gray pointer that crosses
may be caught before or after its change, and `ramstate`, whose bits settle one by one,
may be caught as idle between 1 and 10 or 1 and 20. The DRAM takes any time
(`DramWait`).

**`CacheWT`.** `CheckNewReq` is states 0 and 1 of `cache_ctrl` on a hit, the others are
an action a state; `CacheArray` is `m_dram_cache`, whose block RAM writes before it
reads. An address stands for its tag, since with the index they are the same thing.
The client may ask for anything at every edge; what it asks for while the cache is busy
is not looked at.

**`AhbMem`.** `NewReq` is the task of that name, a disjunct for each kind of transfer;
`TakeData`, `WriteStarts`, `WriteWaits` and `Refuse` are states 22, 20, 21 and 30.
`w_addr` and `w_cache_mask` are the muxes between wires and registers. The variables
`dph`, `hwdata`, `result` and `mw_result` are the bus and what harts remember of it;
they feed nothing back. A hart pipelines any access after another except its own
exclusive write after its own exclusive read, which the core keeps apart.

**`Crossbar`.** `hready`, `hresp` are the splitter's muxes, `mast_req_a`, `mast_gnt_a`,
`dst_hready`, `buf_wen`, `canchange` the arbiter's wires, `Edge` every register of the
bus at once. Masters hold an address phase until it ends or an error lets them withdraw
it (`hazard3_cpu_1port.v`). `near` stands for the comparison of the address with the
program counter, which the bus cannot predict. `served` and `dph` say, on the slave's side
and the master's, which transfer is in its data phase: the properties compare them.

**`ApbBridge`, `SdBlock`.** `StateStep` is the bridge's machine whole, error states
included. `CtlStep` is the machine of `sd.v` the bus drives (an action for each
`ctrlstate` and kind of access), `SpiStep` the one of the card (`state`), `MemoryStep`
the one-port memory. Bytes are a value, the block has `BlockSize` of them. Of
`sd_spi.vhd` the model keeps the handshake signals, cycle by cycle (`CardSignals`),
and the states in which they mean different things; its time with the card is
nondeterministic, and so are refusals (before the first byte or after the last) and bytes
garbled on the wire, which the CRC catches at the end. The driver's accesses are those of `mmcsd_read` and `mmcsd_write`,
single and multiple blocks; `sdspi_status` is the part of the status word that
`wait_not_busy` masks.

**`FileReader`, `Boot`.** A step of `FileReader` is the answer of a sector: the branch of
the state machine on `read_done`, with what was captured while the sector's bytes passed.
A sector is what the reader makes of its bytes (a table of partitions, a boot sector, a
directory, a piece of the table of clusters, data). A card is its sectors with the file they
hold, its bytes and its clusters; `CardOK` says how these hang together where the reader
can read the boot sector (section 6), and nothing of a card it cannot. In `Boot` a step is an edge, and every
machine takes its own at each (`Clock`): `ZeroFill`, `SdCopy` and `ReadBack` are the
`always` blocks of `maintn.v`, `SdReader` the machine of `sdspi_reader.v`, `CollectBytes` and
`SendWord` the two of `sdspi_file_reader.v` that gather bytes and hand words over. The DRAM
takes a request and serves it when it will (`go`), never sooner than the bridge's states
allow (`MinBusy`); so does the card (`ready`). Power comes with a write of the
clearing perhaps already raised, since the clearing has no reset.

**`Ethernet`.** A step is one access of a register by the driver, with what the device does
about it before the next access can reach it, or one poll of the host, in which a frame
passes whole because it does in the code (one task call per octet, within one edge).
`Isr` is `riscv_dispatch_irq` with the two handlers, `Worker` NuttX's network worker, which
is external, with the driver's `receive`, `transmit`, `ifup` and `ifdown`, an
action for each register access. With one hart (`harts = 1`) the worker's access waits
while a handler runs; with two they interleave. `Frame` is what the network may send and the
host cuts at the MTU, `Packet` what NuttX may give the driver to send, at most as long; of those that wait the
model keeps the number, and chooses the packet when transmit takes it. A word stands for four octets. `stored`,
`mute` and `lost` are history: the frame as the network gave it, why nobody
listens, and whether a send was ignored.

**`SmpBarrier`, `MountTest`, `Dhrystone`, `Programs`.** In `SmpBarrier`
`barrier_thread` is a thread's list of steps, `MainPrint` and `MainCheck` the labels
of main that only print or look, every other label an action; each call whose result main or
a thread tests may fail. An error of the wait at the barrier sends its thread on and takes it
out of those that wait (`ThreadErrs`), and a barrier that main destroyed stops nobody
(`BarrierDestroy`, `ThreadLeaves`). In `MountTest` `main_calls` is main's list of calls and a helper is the
operation with the comparison of its result; the file system is external and modelled as a
tree of names. In any call the card may fail (`Faulty`): the operation is done or not, and
the program counts an error or learns nothing (`unseen`), since it looks neither at readdir,
closedir nor close and the driver beneath returns no error of the card. In `Dhrystone` the
procedures are functions on the record of variables and `Run` is the body of main's loop.
`Programs` starts the one its build was made for again and again; the power may go between
any two steps.

## 4. Runs

| Run | Shows | Bounds |
|---|---|---|
| `bridge` | `TypeOK`, `FifosRespected`, `NoBridgeError`, `ImplementsWordMemory` under every order of edges and every race | 2 addresses, 2 lanes, 2 values, fifos of 1 entry |
| `bridge_clocks` | `RequestAnswered` at the board's clocks, races or not; `WriteInDram` where the crossing paths are timed | periods 5 and 2, every phase; 1 address, 2 values |
| `ahb` | `ReadsLatest` of the cache, `ImplementsSharedMemory`, `AtomicReadModifyWrite` with two harts and exclusives | 2 words that share a line, 2 values, whole words |
| `ahb_lanes` | `Coherent` of the cache, `ImplementsSharedMemory` for bytes and words; `TransfersEnd` | 1 word of 2 lanes, 1 hart |
| `ahb_bytes` | violation of `AtomicReadModifyWrite`: finding 1 | 1 word of 2 lanes, 2 harts |
| `crossbar` | `AnswersOwn`, `EndsAwaited`, `OneAtATime` | 2 harts, 2 slaves, wait states, errors, an address of no slave |
| `crossbar_fair` | `Served` | 2 harts at the memory |
| `sd` | `ImplementsBlockStore`, `CommandsHeard`, `BufferApart`, `CallsReturn` | 2 sectors of 2 bytes, 2 values; refusals and garbled bytes |
| `sd_refused` | violation of `BusyEnds`: finding 2 | as `sd` |
| `boot` | `ImageInOrder`, `ImageCopied`, `Cleared`, `BootEnds` | images of 3 words, sectors of 8 bytes, 51 cards: FAT16 and FAT32, with and without a table of partitions, clusters of 1 and 2 sectors, in order and not, files of 8 to 18 bytes, no file, no file system |
| `ethernet` | `DeliveredWhole`, `NotForgotten`, `SendsKept`, `SentWhole`, `Attended` | 1 and 2 harts, an MTU of 2 words, frames of 1 and 3 words, packets `<<1>>`, `<<1, 2>>` and `<<2, 1>>`, 2 waiting; counters modulo 3 |
| `programs` | `PrintsExclusive`, `NoneLeavesEarly`, `QuietWhenDestroyed`, `SmpEnds`; `ReportRight`; `ResultsRight` | 2 threads (the configuration's number); 2 faults of the card since power-up, 2 errors counted; integers up to 127, 4 measurements, 8 lengths of them from 3 starts |

Type invariants are checked where their modules first are; that of the SMP test is a
theorem. Only `MCEthernet.cfg` turns the deadlock check off: with the interface down and
nothing to send, hart 0 idle and a frame waiting, nothing needs to happen.

Why these bounds:

- *Two addresses* are needed for one to evict, alias or outdate the other, and a third
  does nothing a second cannot, because the hardware holds one request at a time. Two
  *lanes* give an empty, a partial and a whole write; two *values* tell the old word from
  the new one. Addresses, lanes and values are only compared for equality in the bridge
  and the cache, hence the symmetry; runs with liveness use none.
- *Fifos of one entry* have pointers of two bits' worth of values (0 and 1 of
  `2 * Depth`), so they wrap at every token, and a second token would overflow at once. That
  the fifo never holds more than one token is what `FifosRespected` says; the theorem
  covers every depth.
- *Two harts* are what the SoC has at most, *two slaves* what its crossbar has. The bus
  theorems hold for any number of both.
- *Two bytes* a block give a first byte, a last, and the step between; off-by-ones at
  either end show (the mutants of `SdTypeOK` and `ImplementsBlockStore` are such). *Two
  sectors* let a wrong one be read or written, and a call of several blocks go on to the
  next.
- The clock periods are the board's own: 1200/30 MHz and 1200/12 MHz, whose edges lie
  on a grid of 1200/6 MHz, so periods 5 and 2.
- *A boot of three words and sectors of two* make a file end within, at the end of and
  after a sector, a cluster and the image; a chain of two clusters that lie in either
  order shows a wrong next one. The address space of a card only has to hold these.
- *MTU of two words*: a frame shorter and one longer, which the host cuts to the length of the
  MTU. Three *packets*: the shorter one after a longer shows what the longer left in the
  transmitter's memory, and two that differ in both words show a word of one in the other.
  Counters modulo 3 wrap within a run and still tell a difference of 1 from one of -1, as
  16 bits do.
- *Programs*: two threads as configured (the theorems hold for any number); a second fault
  of the card lets one fall on a run that an earlier one spoilt, one of the two counted and
  the other not; lengths of a measurement
  below, at and above `INT_MAX` and above all of the range, and four measurements, after
  which the number of runs has wrapped.

The model's own bounds: `MaxTx` (packets waiting), `MaxFaults` (faults of the
card since power-up) and `MaxErrors` (errors counted), `MaxTrials`, `StartCycles` and `TrialCycles` (of a
measurement). Every other counter is one of the code's, or wraps.

### Fairness

- `bridge_clocks`: `WF(ClockedNext)`, the clocks run; `SF` on changes of `w_busy`, a
  DRAM controller that is given a command answers it. It is strong because the DRAM's step
  is possible only at edges of its own clock.
- `ahb_lanes`: `WF(AhbNext)`, the clock runs; `SF` on steps of the memory's phase,
  which `bridge_clocks` justifies (every request of the bridge is answered).
- `crossbar_fair`: the clock runs; each slave is ready again and again; and the master
  being served *yields* again and again, which means that its transfer ends and it either
  wants nothing more there or fetches, with the others behind it. A hart does not run
  loads for ever without a fetch, but this is an assumption about programs: see the
  observation on starvation below.
- `boot`: the clock runs, and the DRAM and the card each answer in the end
  (`WF` of an edge at which they do).
- `ethernet`: `WF(Isr)`, `WF(Worker)`, hart 0 and the worker go on; `SF(openeth_receive)`,
  the pool has a buffer again and again. Nobody need switch the interface or send.
- `programs`: `WF` of main's steps while its calls succeed and of each thread's but for an
  error of the wait, which need not come, the scheduler's round-robin; `SF` of each process's wait on `nsem`, whose waiters are queued.
- `sd`: the card's controller moves and the program makes its next access in the end.

## 5. Findings

1. **A byte store does not break a reservation** (`ahb_bytes`; code bug).
   `mem/ahb_laur_mem.v:175` clears a reservation when the store's address equals it to the
   byte. A store by another hart to byte 1, 2 or 3, or the upper halfword, of a reserved
   word leaves the reservation standing, and the exclusive store that follows overwrites
   the byte. AMOs are built from such pairs. With word accesses only (`ahb`) the same
   property holds.
2. **A refused card command leaves the device busy for ever** (`sd_refused`; code bug).
   `sd/sd.v:256` waits for a byte that never comes, with the test of `sdserror` commented
   out, while the controller waits for `sd_rd` or `sd_wr` to be dropped. Every later poll
   of the driver, under its lock, then goes on for ever. `CallsReturn` (run `sd`) shows
   that this is the only way in which a call fails to return: a refusal after the last byte
   does no such harm.

### Observations that are no findings

Of the hardware:

- *Starvation by timing.* The choice is swapped only in the cycle in which the slave is
  ready. A hart whose fetch arrives in that very cycle can be put ahead of a hart that has
  been waiting in a buffer; repeated for ever, that starves it. `Yields` excludes exactly
  this. At the APB bridge there is no swap, and the hart ahead stays ahead while it asks.
- *Clock ratios.* After a write the bridge must see the fifo non-empty while it is.
  Changing `ClkPeriod` and `CtrlPeriod` in `MCDramBridgeClocks.cfg` shows which ratios
  allow that: 5:2 (the board) and 1:1 do; 5:1 does not, and 2:1 does only when the paths
  are timed. A board with other clocks needs this check again.
- *Early release.* With racing flags the stall of a write may end before the DRAM has the
  word (1 is caught as 0 on its way to 20), which is why `WriteInDram` asks for timed
  paths. It does no harm: the next request cannot enter before the controller is idle,
  and `ImplementsWordMemory` holds with the races.
- *Bus errors of devices.* The splitter's four slaves cover every address, so `pslverr` is
  always 0 in this SoC and the error states of the bridge are never entered.

- *Priorities.* The header of the arbiter says "Lower port numbers are higher priority."
  (`busfabric/ahbl_arbiter.v:23`); `common/onehot_priority.v:43` swaps the order while the
  granted hart fetches. The swap is deliberate, and `crossbar_fair` shows what it is for.
- *The first fetch.* The harts are not in reset during the boot. Their first fetch is
  taken by the port and answered, whatever its address, with the last word that was read
  back (`ImageCopied`); that this does no harm depends on that word.
- *Busy for two edges.* The clearing counts a word when busy rises and may raise one more
  write at the end; only because the bridge is busy for several edges does it not reach
  the DRAM (`MinBusy`).
- *A second reset.* A reset after power-up restarts the reader of the file but not the
  copier's address and flags: the rest of the file would go to the wrong place, and both
  sums would agree on it. The model boots from power-up only.
- *Cards.* A first cluster of 65536 or above is cut to 16 bits; of FAT32's end marks only
  two are known (`EndOfChain`); one sector past FAT16's root directory is read. A file
  shorter than the image, or none, stops the boot for ever (`BootEnds`). A boot sector that
  is not there is asked for again for ever.

Of the drivers and programs:

- *Reception stops* in three ways (`mute`): no buffer was free while the interrupt was
  disabled; the 16-bit counters wrapped, whose difference the handler takes in 32 bits; on
  two harts, the handler came after the worker had read the frame. A later receive, for
  a packet sent, starts it again.
- *Stale and unread frames.* `openeth_receive` does not ask whether a frame waits: it
  delivers the last one again until no buffer is free. A frame that comes between its
  acknowledgement and its look at the counters is acknowledged unread; `DeliveredWhole` is
  about receives that begin with a frame waiting.
- *Lost sends.* On two harts a send may find the transmitter not acknowledged: it is
  answered and not performed. `SendsKept` is about one hart.
- *SMP test.* When one thread cannot be created the others wait at the barrier for ever and
  main joins them, after "Test aborted with waiting threads" (`SomeMissing`). So they do when
  the wait was an error for one of them, and main returns success when it was one for all:
  a thread only prints it. After a join that failed the semaphore is destroyed under threads
  that may print (`DestroyedEarly`), and the barrier under threads that may come to it, which
  then stops nobody (`BarrierGone`). Main prints once more after it destroyed the semaphore.
- *File system test.* It leaves two directories and a file, so a second run on the card
  reports errors; `g_nerrors` is not reset between runs, so that of the runs since power-up
  none after a first on a card that works prints 0; a failed mount counts
  and reports nothing; what is read is not compared, and short writes are not noticed.
  Errors of readdir, closedir and close are not looked at, and the SD driver returns every
  transfer as done: the test may print 0 although a write was lost, and `ReportRight` promises
  nothing of the tree after a fault that was not counted.
- *Dhrystone.* "should be Number_Of_Runs + 10" is wrong after a repeated measurement; from
  5000 runs on `HZ * Number_Of_Runs` does not fit, so the rate of a repeated measurement is
  wrong, and a measurement repeated often enough has less than no runs. `ResultsRight` says
  what is right: the variables always, the rate while the product fits and the time is below
  half of the counter's range.

## 6. Proofs

Theorems hold for every value of the constants under the named assumptions, all of which TLC
evaluates on the instances:

- `BridgeAssumption`: addresses and values exist, a fifo has an entry; `ClocksAssumption`:
  periods are not 0;
- `CacheAssumption`: each address has a line; `AhbAssumption`: there are harts and kinds of
  access, and no address is the marker of "no word";
- `CrossbarAssumption`: at least one master; slaves are not named like the splitter's markers;
- `SdAssumption`: a block has a byte, there is a sector, 0 is a byte;
- `BootAssumption`: an image of at least one word, a DRAM that is busy for two edges;
- `CardsAssumption`: what a card is whose boot sector can be read. The directory entry of the
  name gives the file's size and first cluster, which is below 65536 (the reader keeps 16
  bits of it, an observation of section 5); the table chains each cluster of the file to the
  next; byte *n* of the file is where its cluster, sector and byte put it; the clusters are
  enough for the bytes. What ends the chain, what the rest of the card holds, and where
  tables and data lie is free, and so are cards that cannot be read;
- `EthAssumption`: frames and packets are not empty, no packet is longer than the MTU, the counters have more than one value;
- `SmpAssumption`: at least one thread; `MountAssumption`: the bounds of the faults of the
  card and of the count, which is not 0; `DhryAssumption`: `INT_MAX` is not below 0, the number of runs is from 1 to it, `HZ` is not 0
  and the least time is 1.

**`DramBridgeProofs`**: `BridgeTypeCorrect`, `FifosAreRespected`, `NoBridgeErrors`,
`BridgeIsAMemory`. None of the properties is inductive: that a fifo is written only when
empty depends on where the other machine is, which depends on what it has read. `IInv`
says that the whole bridge carries one *token*:

- `ChainsOK`: a fifo's write pointer is at most one ahead of its read pointer, and the
  synchroniser stages hold one of the two;
- `ClientOK`: which states of the bridge go with which of its client;
- `ProcOK`, `RamOK`: in which fifo, or machine, the token can be in each pair of
  states;
- `RequestOK`: the token carries the registered request; `AnswerOK`: coming back, it
  carries `mem[r_addr]`; `WrittenOK`: once it is spent, the word is in the DRAM.

Each side of an edge is treated in lemmas of its own, with what it samples as parameters
constrained only by "before or after the change". One argument therefore covers single,
coincident and racing edges. `BridgeIsAMemory` maps every edge to a step of `WordMemory`
or to a stutter. `BridgeWritesInDram` is about `DramBridgeClocks` where the tools time the
crossing paths: `TimedInv` adds that the stall of a write ends only in an edge that saw, in
one sample, the controller idle and the fifo empty, which with exact samples means that the
word is in the DRAM. The periods do not matter for it.

**`CacheWTProofs`**: `CacheTypeCorrect`, `CacheIsCoherent`, `CacheReadsLatest`,
`CacheOnlyWritesChange`. `Coherent` allows the line being rewritten to be wrong, so it
needs to know that it *will* be rewritten rightly: `HandshakeOK` ties the controller's
state to the memory's phase, `FetchedOK` says what a word in flight equals, `PlacedOK`
that a line is at its own index and that the entry looked up is the line as it is now.

**`AhbMemProofs`**: `AhbTypeCorrect`, `AhbUsesCache`, `AhbAtomic`, `AhbIsSharedMemory`. The
first step is that the port is a client of the cache (`PortIsClient`): every edge of the
port is one of the cache's, so that `CInv` of `CacheWTProofs` holds here as well and is not
proved again. `AInv` adds where the port is with the transfer in its data phase (`PortOK`),
what the cache is doing for it (`ServedOK`), and that a reservation stands for the word as
it was read (`ReservedOK`). The last two theorems assume `OneOffset`: all accesses begin at
the same byte of their words, or none is exclusive. Without it they are false, as
`ahb_bytes` shows (finding 1); the instances `ahb` and `ahb_lanes` satisfy it, one each way.
`AhbIsSharedMemory` maps an edge of the port to a step of `SharedMemory` or a stutter; the
memory of the map is the DRAM with the store that the port has been given and the DRAM
does not have yet.

**`CrossbarProofs`**: `CrossbarTypeCorrect`, `MastersGetTheirAnswers`,
`SlavesEndAwaitedTransfers`, `SlavesServeOneAtATime`. The invariant says where an address
phase is after it has ended for its master. For each slave: it serves the granted
master (`Serving`), which is in the data phase of that very transfer (`Granted`); a
buffered phase is its master's current one, and someone else is granted (`Buffered`); and
every master whose splitter has chosen this slave is one or the other (`Chosen`). Which
master wins does not matter, only that it is exactly one of those that ask: `GrantsOne`
proves it of `Lowest` and `Highest` over any number of masters, by well-foundedness of
`<`.

**`SdBlockProofs`**: `SdTypeCorrect`, `SdCommandsHeard`, `SdBufferApart`, `SdIsBlockStore`,
for blocks of any size, any sectors and bytes, and whatever the card does, refusals and
garbled bytes among it. Driver, bridge, the device's two machines and its memory, and the
card's controller step at every edge, so the invariant says what each pair agrees on:
`BridgeOK` (the bridge's state and the transfer on the bus), `CtlOK` (the device serves that
transfer and no other), `DriverOK` (which access the driver makes next, and what it has
found), `BytesOK` (the bytes it has moved so far are those of the block's memory), `FreeOK`
(nothing moves while no command runs), and `CommandOK`, which follows the command that runs
through its two handshakes, byte by byte: `ReadRun` from the controller's latch through the
device's machine to the block's memory, `WriteRun` the other way. `SdIsBlockStore` then maps
the last edge of a call to the one step of `BlockStore` that performs it.

**`EthernetProofs`**: `EthTypeCorrect`, `EthDeliveredWhole`, `EthNotForgotten`,
`EthSendsKept`, `EthSentWhole`. `EthInv` has a part for each concern: `RxInv`, while a
receive that began with a frame waiting copies, the frame still waits and the words copied
are its first; `TxInv`, the same of a packet on its way out; `IrqInv`, the transmitter's
state follows the handler's place; `MuteInv`, who would look after a frame, which is what
makes `NotForgotten` inductive.

**`ProgramsProofs`**: `SmpTypeCorrect`, `SmpPrintsExclusive`, `SmpNoneLeavesEarly`,
`SmpQuietWhenDestroyed`, `MountReportRight`, `DhryResultsRight`, of `Programs`: every program
run again and again, with the power going between any two steps. `Steps` says that a step of
`Programs` is one of each program, its restart, or none; each invariant is then the program's
own.

- *SMP test.* The invariant is built in layers: where main is against what it has created and
  destroyed (`MainInv`), the threads joined so far (`JoinInv`), the barrier (`BarrierInv`:
  while it was not destroyed early it stands for all the threads, and whoever is past it
  either had an error of the wait, and is no longer counted, or was there when all had come,
  which needs `Cardinality(waiting) = N` to mean everyone), and the semaphore (`SemInv`).
- *File system test.* `Tree(n)` is what a run on a clean card has made before its call `n`.
  `MountInv` follows the two halves of `ReportRight`. On a card that has worked since power-up
  errors are counted only once a run has found a directory, and from then on there always is
  one, because the first that a run makes for good is never removed (`FirstStays`): so a run
  that finds none has counted none. While nothing is counted and nothing went unseen, a run
  that began on a clean card holds `Tree(call)`, and for any other there is a directory that
  one of its later calls will find (`Later`). A call is looked at in two steps:
  what a helper does, whatever the call (`HelperDoes`: the card fails, and something is counted
  or went unseen, or the call ends as the file system says and exactly the results not
  expected are counted), and what each of main's calls is (`Calls`,
  from which `TreeFinds` and `TreeLeft`: it finds what it expects in `Tree(n)` and leaves
  `Tree(n + 1)`). That no step makes a tree no FAT can hold (`TreeOK`: nothing but
  directories has anything below it) is needed for both.
- *Dhrystone.* `Ready` is what main sets before the first run and no run changes but for the
  count in `Arr_2_Glob`; `RunGives` says that a run makes `Ran` of it, from any values of the
  other variables, so the procedures are computed once, on records and arrays whose other
  elements are unknown. `DhryInv` has `Ready` from the start of main and `Ran` from its first
  run, with 10 and the runs in all measurements as the count. Of the time, `TimeRight` says that
  the signed difference of two readings is the time between them when that is at most `INT_MAX`,
  wrapped or not.

**`BootProofs`**: `BootCleared`, `BootTypeCorrect`, `BootImageInOrder`, `BootImageCopied`. While the
DRAM is cleared every other machine is paused (`Paused`), so the busy line the clearing counts
words by answers nobody else. From then on `BootInv` follows a byte from the card to the
DRAM and back:

- `OrderOK`, `ZeroOK`, `DramOK`, `ClearInv`: which machine is at work, and who the DRAM is busy for;
- `WalkOK`: the walk has the geometry of the card's boot sector, and the file found is the
  card's; `FileOK`: the sector being read is a given sector of a given cluster of the file,
  hence (`Stored`, `Place`) which bytes of the file it holds; after a cluster the item of the
  table that is captured is the next one (`Chained`);
- `ReaderOK`: where the reader of a sector is in it; `BytesOK`: the bytes gathered are the last
  ones of the file before it; `SendOK`, `CopyOK`: which word is between the gatherer and the
  copier, and in the DRAM before it is counted; `ImageSoFar`: the words before it are the file's,
  those after it 0;
- `CopySumOK`, `BackOK`, `BackSumOK`: the sums so far, and that the word read back is the DRAM's.

`Summed` is a recursive function, so that it equals its defining equation is a fact about
every number of words; it is proved from the well-foundedness of `<`, by a least
counterexample, as `GrantsOne` is. TLC checked `BootInv` as an invariant of the run's instance,
with images of 1 and 3 words and a DRAM busy for 2 and for 3 edges, before it was proved.

### Only model-checked

Liveness (`RequestAnswered`, `TransfersEnd`, `Served`, `Attended`, `CallsReturn`, `SmpEnds`,
`BootEnds`)
is out of the prover's reach: it needs fairness and `ENABLED`. Every safety property that a
passing run checks is a theorem.

## 7. Not modelled

- **`SIM_MODE`.** The simulation's shortcuts (a card in a file, another busy bit in the
  status) differ from the board's build, which the models follow.
- **SD**: other devices' transfers between those of the driver (the lock keeps other
  calls of the driver out, and the devices share nothing but the bridge); the SPI bits,
  the card's initialisation, commands for several blocks. A read that ended in a CRC
  error or a write the card rejected is reported as done by the driver, which never looks
  at the error bits: in the model such a call returns like any other, and `BlockStore`
  promises agreement of memory and sector only for calls the card did not refuse.
- **The debug module** as a bus master: its `hmaster` is never that of a hart, so it
  makes no exclusive access, and the simulated SoC ties it off.
- **Hazard3's pipeline, the debug module, the DDR3 controller**: upstream or vendored.
- **SDRAM bridges and controllers, older SD loaders, the loader without a file system, the
  write-back cache**: alternatives the default build does not include.
- **Timer and UART.** The timer answers at once and is upstream; the UART is a shift register
  and a handshake of one byte.
- **Ethernet**: the variant that reads octet by octet (`rxrealread`), several words of a
  write in flight (the bus is slower than the device), contents of packets.
- **Boot**: the parse of a directory's bytes (names, long names) is an entry that is the
  file or is not; states for images that the build sets to no bytes.
- **Programs**: wording, times, processors' numbers; the contents of files, and of the file
  system what lies below its operations (a rename half done, sectors kept in memory, a
  directory that reads as another one); of Dhrystone
  `testsd`, which nothing calls, `Microseconds` and CoreMark, which is an archive.
- Wiring, the host's simulation loop and image generator, video and arithmetic cells: see `PROJECT.json`.

## 8. Plan

Done, in this order, the most important behaviour first: `WordMemory`, `DramBridge`
and its proofs; `CacheWT` and its proofs; `SharedMemory`, `AhbMem`; `Crossbar` and its
proofs; `ApbBridge`, `BlockStore`, `SdBlock`; `SmpBarrier` and its proofs, `MountTest`,
`Dhrystone`, `Programs`; `Ethernet` and its proofs; `FileReader`, `Boot`; then the proofs of
`AhbMem`, `SdBlock`, `DramBridgeClocks`, `Boot`, `MountTest` and `Dhrystone`, so that every
safety property that a run checks is a theorem too.

To extend the model:

1. `CpuPort`: `hazard3_cpu_1port.v`, the arbitration of fetches and loads, as an
   implementation of the master that `Crossbar` assumes.
2. `CacheWB`: the write-back cache against the same client, a dirty line replaced by a
   partial write in particular.
3. A second reset in `Boot`, with the registers it leaves alone.

To prove, with them: that the port satisfies the master of `Crossbar`, and coherence of the
write-back cache.
