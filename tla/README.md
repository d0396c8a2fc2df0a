# A TLA+ model of openrisc_tools

The repository holds three programs that work together:

* **or1ksim** (`src/or1ksim`), the OpenRISC 1000 architectural simulator: a CPU
  with its interrupt controller, tick timer, MMUs and caches, a set of
  peripherals, a debug interface, and a command line.  It runs in **one
  thread**; everything that happens "in parallel" to the simulated CPU is a job
  of a scheduler that is run between two instructions.
* **OPENRISC_API** (`src/OPENRISC_API`), a TCP server that compiles C programs
  and runs them on the simulator or on an FPGA board.
* **OPENRISC_GUI** (`src/OPENRISC_GUI`), the user's window: it talks to the
  server on port 8888 and, during a run, listens on port 7777 for the
  characters that the simulated UART sends.

This project models the simulator (its scheduler, processor, memory path,
peripherals, debug interfaces and configuration) and the conversations of the
three programs, checks them with TLC on small instances, and proves the most
important properties with TLAPS for every value of the parameters.

## 1. Inventory

| Component | State | Operations | Talks to |
|---|---|---|---|
| Scheduler (`support/sched.c`) | linked list of jobs with relative times, free list | `sched_add`, `sched_find_remove`, `sched_next_insn`, `sched_reset`, `do_scheduler` | called by every device and by the main loop; calls the jobs back |
| Main loop (`cpu/or32/execute.c`, `libtoplevel.c`) | cycle counter, stall flags | one round: instruction, VAPI, debug stall, external interrupts, elapsed cycles, `do_scheduler` | everything |
| Exceptions (`cpu/or1k/except.c`) | SR, ESR, EPCR, pc | `except_handle`, `l.rfe`, `l.sys` | PIC and timer jobs, instructions, debug unit |
| PIC (`pic/pic.c`) | PICMR, PICSR | `report_interrupt`, `clear_interrupt`, `pic_ints_en`, job `pic_rep_int` | devices, scheduler, exceptions, PMR |
| Tick timer (`tick/tick.c`) | TTMR, TTCR, `tick_counting` | writes to TTMR/TTCR, jobs `tick_raise_except`, `tick_restart`, `tick_one_shot` | scheduler, exceptions |
| Program counters (`execute.c`, `insnset.c`) | pc, pcnext, pc_delay, delay_insn | branches, `update_pc`, exceptions in and out of delay slots | exceptions |
| UART (`peripheral/16450.c`) | registers, FIFOs, pending interrupts, VAPI command buffer | register accesses, ten kinds of jobs, VAPI commands | scheduler, PIC, VAPI, channels, the GUI's socket |
| Instructions (`insnset.c`, `or32.c`, `softfloat/`) | registers, SR, MAC, FPCSR, automaton | decode, read and write operands, compute | memory path, store buffer |
| Memory path (`abstract.c`, `cache/`, `mmu/`) | list of areas, cached area, tags, lines, TLBs | access, refill, invalidate, translate | CPU, DMA, debuggers |
| Store buffer, branch prediction, performance counters | ring of pending stores, tables, counts | on each store, load, branch, event | main loop |
| DMA, Ethernet, ATA, PS/2, GPIO, VGA, frame buffer, memory controller, generic | registers, buffers, jobs, interrupt line | register accesses, clocks, reset | scheduler, PIC, memory, files, VAPI |
| Debug unit, GDB server, JTAG (`debug/`) | stall state, matchpoints, counters, packets, JTAG registers | stop, step, continue, breakpoints, block transfers | main loop, exceptions, memory |
| Configuration (`sim-config.c` and the sections of all parts) | every part's parameters | read a file, command line, `set` | registers that describe the machine (UPR, *CFGR) |
| VAPI server, channels | descriptors, handlers | connect, request, send, open, close, reset | devices, tests, files, sockets |
| API server, board, GUI | sockets, files, threads | GAC, GHF, run, UART characters | each other, or1ksim |

What is hard to get right, and what a test hardly reaches:

* **Interleaving of jobs and instructions.**  A device's job may run between
  any two instructions, two jobs may be due in the same call of
  `do_scheduler`, and an instruction of several cycles makes jobs late.
* **State prepared earlier for a later job.**  The timer's match, the UART's
  character timeout and the delivery of an interrupt are queued when something
  is written; every later write has to remove or move them.
* **Encodings that must be repaired.**  The scheduler stores differences of
  times; pc, pcnext and delay_insn encode a branch that is half done.
* **Things that must eventually happen.**  A tick is retried until software
  acknowledges it; `do_scheduler` has to come to an end although jobs add
  themselves again.
* **Two programs that wait for each other** (GUI, server, simulator; GDB and
  its server; a test and the VAPI server).
* **State cached from an earlier step**: the area of the last access, cache
  lines, descriptor numbers that the kernel gives out again, completions of
  commands that were abandoned.
* **Edges of numbers**: carries, rounding, sign extension, what C leaves
  undefined.

`PROJECT.json` lists each hazard at its line with the properties that catch it.

## 2. Modules

| Module | Models | Extends / uses |
|---|---|---|
| `Agenda` | what the scheduler's queue means: jobs with absolute due times | |
| `AbsSched` | the scheduler's promise, as a specification | `Agenda` |
| `Sched` | `support/sched.c`: relative times, free list, the search loop step by step | implements `AbsSched` |
| `SchedNextInsn` | `AbsSched` with a history of the jobs queued by `sched_next_insn` | `AbsSched` |
| `CpuState`, `Pic`, `Tick` | `except_handle`; `pic.c`; `tick.c` with the SPR writes | `Agenda` |
| `Cpu` | the main loop, which composes them | `Pic`, `Tick` |
| `SequentialIsa` | a program as the programmer sees it, without exceptions | |
| `Pipeline` | the program counters with delay slots and exceptions | implements `SequentialIsa` |
| `SerialTx` | the UART transmitter's promise | |
| `Uart` | `peripheral/16450.c` | implements `SerialTx` |
| `Session` | GUI, API server and the simulators it starts, over their sockets | |
| `Device` | the variable the following components share, one component per behaviour | |
| `Dma`, `Ps2Kbd`, `Gpio`, `Mc`, `Generic`, `Display`, `Eth`, `Ata` | the files of the same names in `peripheral/` (`Display`: `fb.c`, `vga.c`; `Ata`: `atahost.c`, `atadevice.c`, `atadevice-cmdi.c`) | `Device` |
| `Alu`, `Float` | `insnset.c`; the routines of `softfloat/` that it calls | `Device` |
| `Decode` | `or32.c` and the operands of `execute.c` | `Device` |
| `Timing` | the store buffer of `execute.c`, `branch-predict.c`, `pcu.c` | `Device` |
| `Areas` | the list of memory areas of `abstract.c` | `Device` |
| `MemPath` | `cache/`, `mmu/`; the functions of `abstract.c` that compose them | `Device` |
| `DebugUnit`, `Rsp`, `Jtag` | the files of `debug/` | `Device`; `Jtag` uses `DebugUnit` |
| `SimConfig` | every section of a configuration file; its reader, the command line and `set` | `Areas` |
| `Vapi`, `Channels` | `vapi/vapi.c`; `peripheral/channels/` | `Device` |
| `SchedProofs`, `CpuProofs`, `UartProofs`, `SessionProofs` | proofs about the module of that name | `DataLemmas`, TLAPS |
| `PipelineProofs` | proofs about the processor in front of memory: `Pipeline`, `MemPath`, `Timing` | `DataLemmas`, TLAPS |
| `DeviceProofs` | proofs about the components of `MCDevices` | `DataLemmas`, TLAPS |
| `HostProofs` | proofs about `Rsp`, `Areas`, `Channels`, `DebugUnit`, `Jtag`, `Vapi` | `DataLemmas`, TLAPS |
| `DataLemmas` | what those proofs share about sequences, remainders and induction | TLAPS |
| `MC*` | instances for TLC | |

### Sched

`job_queue` is the list of `struct sched_entry` (function and parameter are one
value; the time is a difference to the entry before), `free` the length of the
free list.  `due` is a history variable with the absolute time of each entry.
`sched_add` is not atomic in the model: entering it (`EnterAdd`), each step of
its search (`AddLoop`) and the link (`AddLink`) are steps, so that the
refinement to `AbsSched` says something about the loop.  A call from inside a
job and a call from an instruction differ only in where they return to.
`crash` is the state in which the code would dereference an empty free list.

### Cpu, Pic, Tick, CpuState

One instruction, the rest of the round (`EndInsn`) and one job are each one
step.  PICMR, PICSR and PMR are sets, SR and TTMR records of the fields that
matter; the program counter is abstracted to the code it is in (a program or a
vector), enough to say which exception was taken and where it returns.  A
peripheral is an interrupt line and a job of the same name.  `ttcr` is the
value `spr_read_ttcr` returns.

Software may write any value to PICSR.  With edge triggering the code keeps it
(`sprs.c:145-150`) and does not call `pic_ints_en`, so that a bit which software
sets itself waits until something else lets interrupts through; `soft` records
these lines, and `PreciseDelivery` is about all others.  Software may also
write TTMR in restart mode with TP = 0: `tick_restart` then adds itself with 0
cycles for ever (`tick.c:95`), and `SchedulerReturns` names that loop
(`RestartsAtOnce`) as the only way in which `do_scheduler` does not return.

### Pipeline

Programs are functions from addresses to instructions; TLC tries every program
of six instructions, TLAPS every length.  The handler is a single `l.rfe`.
`Fault` is any exception raised inside an instruction, `Interrupt` one raised
by the scheduler.  The first interrupt of a call of `do_scheduler` comes only
while SR[IEE] is set, since that is when it was queued, but `pic_rep_int` does
not look at SR (`pic.c:77`): a second one in the same call (`delivered`)
overwrites EPCR and ESR with the vector and disabled interrupts, and `l.rfe`
then leads to the vector for ever.  `nested` records it.  `ExceptionsInvisible`
says that every step is one of the sequential program until that has happened,
and that afterwards the program is never executed again: the same fact as
finding 2 below, seen from the program.

### Uart

`u` is `struct dev_16450` with the jobs of this UART and its interrupt line.
The C functions are operators from state to state, so a handler is the
composition of the calls it makes.  Jobs added with 0 cycles are a sequence
(`ready`, last in first out as in `sched_add`), all others a bag (`timed`): the
baud rate is abstract, any timed job may be next.  `uart_vapi_cmd` runs one
command per step with an explicit stack of its activations, since
`uart_recv_break_start` calls it back.

`SerialTx` is a line that sends in order.  `Misplace`, which is not one of its
steps, is what a write to a full FIFO does (`16450.c:817`): the character goes
to the head, which is then also the tail, so that it replaces the oldest one
and leaves before the others.  `TxInOrder` allows it in exactly those states.

### Session

A handler of the GUI that has not returned is an entry of `stack`: the tab and
where it stands.  Only the last one runs, and while it is in `delay()`, or in
the `processEvents()` of `setData` (`uartdialog.cpp:63`) between two pieces of
output, any button may be clicked.  A piece of output is shown only if the UART
window is visible (`newtab.cpp:214`, `:421`), which is the user's choice at each
piece.  A board's line is collected in a buffer of `BUF` bytes that nothing
guards (`main.cpp:221`).  A connection is a sequence of segments in each
direction; `recv` returns one or more of them joined (segments this short are
not split on the loopback interface).  Each accepted connection has a thread
with the local variables of `connection_handler`, and each thread a simulator.
The characters of a program are numbered, so that `shown` tells whether one was
lost, repeated or reordered.

The code relies on several things that it does not ensure.  When one of them
fails the action records it in `accidents`, and the properties say what holds
otherwise, so that together they show the list to be complete.  They do not
show the code to be safe from an accident: where it has no defence, the hazards
in `PROJECT.json` say so and name no property.

| Accident | What happens |
|---|---|
| `slow` | a `delay(3)` ends before the server has read what was sent before it |
| `reentered` | a tab is clicked while one of its own conversations is in `delay()` or `setData()` |
| `stolen` | a second connection is accepted before the first thread has read `client_sock` |
| `refused` | the simulator connects before the GUI listens on port 7777 |
| `second_run` | the GUI binds port 7777 again and exits |
| `device` | the device was changed between compile and run, or was never set |
| `nul` | the program prints a NUL character: the GUI takes it for the end of the output or of the line |
| `hidden` | a piece of output arrives while the UART window is closed; it is acknowledged and not shown |
| `overflow` | a board prints a line that is longer than the server's buffer |

After `slow`, `reentered`, `stolen` or `overflow`, GUI and server disagree about
what the segments mean, or memory behind a buffer is gone; no property claims
anything then, and the run does not explore further (`CONSTRAINT OnTrack`).
After the others `FieldsIntact` still holds.  The session ends when the GUI
exits.

### Device and the components on it

The peripherals of or1ksim, and the parts between the simulator and its host,
share nothing with one another but the scheduler and the interrupt controller,
whose promises are the subject of `Sched` and `Cpu`.  In the remaining modules
they appear as what a component sees of them: its own interrupt line (`irq`),
and the number of its jobs in the queue, any of which may be the next to run.
Each component keeps its state in a record, the variable `dev` of `Device`, and
`dev.kind` names the component.  A behaviour is one of a single component, so
that one run checks many of them side by side without multiplying their states.
The functions of a C file are operators from one state to the next, and an
action is the whole handler of a register access, job, callback or command.
Fields called history in a module's head (what software has read so far, what a
peer was sent, the exact sum of products) exist for the properties only.

* **Dma, Eth, Ata, Gpio, Ps2Kbd, Mc, Generic, Display**: any software writes
  any of a small set of values to any register at any time, the jobs run in any
  order, and the outside world (hand-shake, packets, key strokes, VAPI,
  failing files) acts in between; the simulator may be reset at any time.
  TX_BD_NUM of `Eth` takes any value of its 8 bits while the transmitter runs
  (`eth.c:1546`), so that the code can walk behind its array: `bd` has a cell
  for every value, and `EthBehind` is what the cells behind the array hold.
  `Ata` keeps the address registers, with the shift of `cylinder_high`
  (`atadevice-cmdi.c:105`) and what READ NATIVE MAX writes (`:987`).
* **Alu, Float, Decode**: each instruction on every pair of operands in a
  narrow machine word (`ALU_W` bits; `FEXP` and `FFRAC` for floating point),
  against definitions in terms of integers and exact fractions.  Where C leaves
  a result open, the model takes every outcome a build may have.  `Decode`
  builds the automaton from each of a set of opcode tables.
* **Areas, MemPath**: an access of the processor composed of the
  alignment test, translation, cache and area, with the accesses of the
  debugger and the cache commands of `mtspr` between them.  Addresses are taken
  modulo `AreaTop` (2^32), as in the test for overlaps (`abstract.c:110`); an
  area may be switched off while it is the cached one (`kept`).
* **Timing**: the store buffer against the times at which the stores end; the
  branch target cache and prediction buffer against the latest two targets
  and the latest outcome.
* **DebugUnit, Rsp, Jtag**: the debugger at the other end is an actor: GDB
  repeats and refuses packets, interrupts, detaches and loses the connection;
  sends packets too long for the server's buffer (`"long"`, dropped without an
  answer, `rsp-server.c:862`); and what `put_packet` reads in place of an
  acknowledgement is read character by character, each of them resending the
  reply, a `+` among them ending it (`fooled`).  A JTAG master sends right and
  wrong CRCs, GO_COMMANDs that are some bits or bytes too short or too long, and
  stops in the middle of a block; the answer is ORed into the bits it shifted in.
* **SimConfig**: a configuration file is a sequence of words and line
  ends.  The sections and their parameters are a table; the effect of each
  setter, the defaults, the command line and `set` are operators on it.  The
  file may be missing; the size of `--memory` has its suffix, its limit and the
  number of digits that its buffer holds.
* **Vapi, Channels**: descriptors are numbers that the kernel gives out lowest
  first, which is what makes a stale number dangerous.  A VAPI handler serves a
  range of ids, and a device whose first id lies in the range of an earlier one
  takes its handler over (`vapi.c:654`).  The peer of a channel may close, after
  which a write is answered with a reset.

## 3. Runs

| Run | Checks | Instance and why it is enough |
|---|---|---|
| `sched` | `DeltaEncoding`, `EntriesConserved`, `QueueNeverEmpties`, `DeadlinesKept`, `ImplementsAbs` | two jobs and the two internal ones, heap of 4: queues of every length up to exhaustion, ties, late jobs, removal at every position |
| `sched_next_insn` | `RunsAfterNextInsn` (violated) | two jobs, instructions of one and two cycles |
| `cpu_library` | `PreciseDelivery` | edge and level triggering, one line non-maskable, delays of 1 and 2, every set of external interrupts set and cleared, every value written to PICSR, two-cycle instructions, PMR writes |
| `cpu_tick` | `TypeOK`, `TickScheduled` (`TickJobsMatch`: the jobs are those of the current mode; `TickOnTime`: queued for the right cycle), `TickTaken`, `SchedulerReturns` | TP field of 2 bits in a register of 3: both wraps happen; all modes, with and without the interrupt, TP = 0 in restart mode included, with fairness |
| `cpu_nested` | `IntOnlyWhenEnabled` (violated) | two edge-triggered lines, delays of 1 and 2: two lines may be due together or apart; instructions of two cycles |
| `pipeline` | `TypeOK`, `ExceptionsInvisible` | all programs of 6 instructions: branches forwards, backwards, to themselves and into other delay slots; interrupts, nested ones too, and faults at every instruction |
| `pipeline_sys` | `SysReturnsToNext` (violated) | the same with `l.sys` in delay slots |
| `uart` | `QueuesSound` (`FifosSound`: FIFOs and LSR agree; `TransmitterRuns`: it neither stalls nor sends twice), `InterruptReported`, `RxNotForgotten`, `TxInOrder` | three uses, each a set of initial states: a sender with two characters, breaks, FIFO resets and divisors zero and non-zero; a receiver with every interrupt, two trigger levels and loopback; VAPI commands nested up to a buffer of 3 |
| `uart_priority` | `HighestPriority` (violated) | the receiver |
| `session` | `ConversationSound` (`FieldsIntact`: fields arrive in their places; `Synchronised`: a conversation is over when its handler returns), `OutputShown`, `HandlersReturn` | a tab of the project and one added later, a simulator and a board, two nested clicks, up to two characters per run, a buffer of two bytes, so that a line of one character and its NUL just fits |
| `devices` | one invariant per peripheral, below | every peripheral of `peripheral/` but the UART |
| `host` | one invariant per component, below | decoding, instructions, memory path, debug interfaces, configuration, VAPI, channels |

An invariant of `devices` and `host` is a conjunction of named parts, each with its
own comment in the module:

| Invariant | Parts | Instance |
|---|---|---|
| `DmaSound` | `DmaOneJob`: a channel that works has one job, one that does not, or that was auto-restarted, has none; `DmaIrqHasSource`: the line is high exactly while INT_SRC names a channel, unless software has written to it | two channels, one with a list of two descriptors in hardware handshake, one programmed directly |
| `KbdSound` | `KeysReleased`: every key that was pressed is released unless a code was dropped; `ResetAnswers`: both answers to a reset arrive in order; `KbdIrqReal`: no interrupt without data | a ring of three codes, so that it wraps and overflows |
| `GpioSound` | `GpioReported`: no input event is forgotten; `GpioOutputSeen`: VAPI was told the current output | one pin, three sets of registers in use |
| `DisplaySound` | `PictureComplete`: a dump has the bytes its header announces; `PixelsInBlock`: every pixel is read once, from the frame's block | a picture of 4 by 3 with a camera of 2 by 1, frames that wrap |
| `EthSound` | `EthOneClock`, `EthLineHasSource`: one clock per direction, a line with a source; `EthIndices`: the transmitter stays below the largest TX_BD_NUM since it was enabled, so that it leaves the array only for a TX_BD_NUM of 0 or one too large; the receiver is at or behind TX_BD_NUM, and at most one behind the array unless TX_BD_NUM itself is | two descriptors and two cells behind them, with and without WRAP; TX_BD_NUM 0 and 3; file and TAP |
| `AtaSound` | `AtaBusyEnds`: a busy disk has a completion on its way; `AtaBufferInBounds`; `AtaAddressing`: a sector number survives the address registers, except that behind the first 256 cylinders of the CHS form the disk goes exactly 65280 cylinders too far for each 256 | three cables of disks, packet devices and nothing; two completions pending; sectors on both sides of cylinders 256 and 65536 |
| `McDecoderFollows` | the decoder of an area that a controller has taken is what its registers say, unless a reset has mixed up two lists (`mixed`) or does not end (`hung`) | five layouts of up to four memories on one or two controllers; both accidents happen in them |
| `GenericOneMemory` | accesses of all widths see one memory | eight bytes |
| `AluRight` | `AluArithmetic`, `AluBitsRight`, `MacExact` | words of 4 bits, two accumulations |
| `FloatRight` | `FloatAsIEEE`: the nearest number in each rounding mode, with its flags; `FloatFlagsOwn` | 3 exponent and 2 fraction bits, 3 guard bits: subnormals, infinities, NaNs, sticky bits |
| `DecodeSound` | `DecodeRight`, `OperandRight` | tables over words of 4 bits, also ambiguous ones; formats with split, signed and displacement fields |
| `AreasSound` | `AreasDisjoint`: no address has two areas, unless one of them ends at 2^32; `AreaRight`: an access finds a valid area with its address, or the area that was switched off while cached and nothing accessed since, or rightly none | up to three areas, some overlapping, two of them ending where addresses wrap |
| `PathSound` | `DcCoherent`, `IcFresh`: cached words are those of memory; `PathPrecise`: an access that takes an exception of the MMU or for its alignment changes nothing; `PeekAgrees`: the simulator's own translation is the processor's | one set of two ways, two pages mapped to each other, six words of memory |
| `TimingRight` | `SbufExact`: a store or load waits exactly as long as the stores before it take; `BticKeepsRecent`; `BpbRepeats` | a buffer of two stores; two ways, which is what the code has (of three it would find the wrong one) |
| `RspSound` | `RspBreakpoints`: memory holds the traps GDB asked for and the instructions it will restore, except where GDB itself wrote over a breakpoint (`over`); `RspNobodyForgotten`: GDB waits only while an answer is on its way, unless the server ignores the request, has no room for it or was `fooled` by a `+` inside a repeated packet | two addresses, one of which GDB writes to (`RspWritten`); two bytes on their way in each direction (`RspQueue`) |
| `DuSound` | `DuStallAgrees`, `DuChainMeaning` | three matchpoints, four set-ups |
| `JtagSound` | `JtagWire`, `JtagData`: each bit of an answer and of the data of READ_COMMAND is where the debugger looks for it, over the ones it shifted in itself; `JtagOneBlock`: since a WRITE_COMMAND everything below the address was transferred, and nothing beyond what the next GO_COMMAND transfers, failed transfers included | eight addresses, one of which no area serves, so that transfers fail half-way; blocks of 1 and 4; lengths off by bits and by bytes |
| `ConfigSound` | `ConfigAsWritten`: the parameters are those the file gives, section by section; up to the first section that the reader misreads (see below), and it ends all right if there is none; `SprsAgree`: UPR and the CFGRs describe them, also after a misread file, but for the debug unit after `--srv` and `--nosrv`, which leave UPR_DUP as it is (`sim-config.c:1107`) | files of one and two sections with unknown names, values out of range, `=` and comments, sections that are misread, a missing file; memory sizes with suffixes |
| `VapiSound` | `VapiOwnConnection`: a handler's descriptor is the open connection of a test that named it; `VapiNoLeak`: every open socket has a handler; `VapiHeard`: a packet reaches the device that has its id, if the ranges are `Apart` | four devices with one and two ids, the last with an id of the third, which it takes over; three tests, four descriptors |
| `ChannelsSound` | `ChannelDescriptors`: what is open for a channel is what it holds, and one descriptor more for each terminal window (`xterm_close` leaves the master side open); `TcpContinuous`: no gap in either direction of a TCP channel, up to the peer's close | each kind of channel, five descriptors, three characters |

**Bounds.**  Parameters of the code itself, made small: `HEAP_SIZE` (scheduler
entries), `Delays` and `Cycles` (times), `TPMOD` and `REGMOD` (widths of the
timer's fields), `LAST` (program length), `FIFO`, `VAPI_BUF`, `KBD_MAX_BUF`,
`N_CE`, `ETH_BDS`, `BUF`, `AreaTop`, `AtaWrap`, the sizes of caches, TLBs and pictures, `MAX_MATCHPOINTS`,
`DuBits`, `ALU_W`, `FEXP`, `FFRAC`, `FGUARD`, `SBUF_LEN`, `MAX_SBUF_LEN`,
`DecodeBits`, `MAX_LEN`, `MAX_SPRS`.  Bounds of the exploration: `MAX_RECV` (VAPI
commands that wait for the receiver), `MAX_OUT` and `DEPTH` (output of a
program, nested clicks), `GPIO_MAX_INT`, `MAX_PICS`, `AtaPending` (jobs,
pictures, completions that pile up), `RspQueue` (bytes on their way),
`VAPI_MAX_FD`, `CHANNEL_MAX_FD`, `CHANNEL_MAX_CHARS`, `ALU_MACS`, `SBUF_IDLE`,
`SBUF_MAX`, `PREDICT_MAX`, `AreaMax`; in `session` the action constraint
`NoNewClicks`: once output was hidden or a NUL printed, no further click is
made.  Each lets the case it bounds happen at
least twice, which is what its property needs to go wrong: a second job, a
second completion, a descriptor that is given out again.

**Deadlock** is not checked where the system really may stop: `sched` (an
exhausted free list crashes the program), `uart` (a full command buffer calls
`exit`), `session` (after an accident everyone may wait for ever;
`HandlersReturn` says that they do not otherwise), `devices` and `host` (a
component ends at a bound above, when a file cannot be opened, or when its
input, such as a configuration file, has been read).

**Fairness.**  `FairSpec` of `Cpu` is weak fairness of the whole next-state
relation: the simulator has one thread, which goes on as long as the process
runs.  Nothing is assumed about software: it need not acknowledge an interrupt
or enable one.  `FairSpec` of `Session` has weak fairness of the accept loop, of
each thread and of each simulator, which are scheduled by the operating system,
and strong fairness of the GUI's handlers at each depth of nesting: a `delay()`
under which other clicks are handled looks at the clock after each round of
events, so that it ends however much the user clicks.  Programs end after
`MAX_OUT` characters at the latest; the user need not do anything.

### Disagreements found

The four violation runs each contradict a sentence of the sources;
`PROJECT.json` quotes them under `findings`.

1. `sched_next_insn` can run its job one or more instructions late.
2. Two interrupts due in one call of `do_scheduler` nest: the second overwrites
   EPCR and ESR of the first, and the program is lost (`ExceptionsInvisible` of
   `pipeline` holds up to that point only).
3. `l.sys` in a delay slot returns to itself.
4. The UART's IIR keeps reporting an interrupt that has been cleared while
   another one is pending.  (`InterruptReported` still holds: the line stays
   asserted, no interrupt is lost.)

The models also contain behaviour that contradicts an intention, but that no
run singles out.  It is translated as it is, and the properties are stated so
that they hold with it:

* *Processor.*  Doze and sleep never stop the CPU (`execute.c:1013`).  A bit of
  PICSR that software sets is not delivered (`sprs.c:145`).  TP = 0 in
  restart mode hangs the simulator (`tick.c:95`).  The
  overflow tests of `l.add`, `l.addc` and `l.sub` need signed sums to wrap;
  built with `-O2` they may be dropped, although the comment at
  `insnset.c:39` says the flag is set.  The smallest number divided by -1,
  shifts by 32 and more and `l.ror` by 0 are undefined in C.  The comment at
  `insnset.c:863` (flags of the multiplication are ignored) is wrong:
  softfloat's flags are sticky.  `MAX_AUTOMATA_SIZE` is tested after the
  automaton has been written.  The victim of a write miss in the data cache is
  not the least recently used line, as its comment says.
* *UART.*  A VAPI command that ends a break can be left in the buffer.  A
  character written to a full FIFO overtakes those that wait.
* *Devices.*  An auto-restarted DMA channel is never clocked again.  Completions
  of ATA commands survive a reset; only the first sector of a transfer is
  compared with the size of the disk; the interrupt of the unselected disk is
  dropped; `cylinder_high` is shifted by 16 instead of 8.  The Ethernet
  controller follows TX_BD_NUM out of its array.  The Ethernet model never discards TAP packets while its receiver is
  off, as the comment at `eth.c:829` says.  `mc_reset` does not "grab control
  over all the devices" (`mc.c:240`): it unlinks an area through
  `prev`, which it has already moved to the controller's own list.  With three
  memories on one controller one of them is on no list after the first reset,
  and the second reset of the simulator does not end (`hung`); with four on two
  controllers an area of one is on the list of the other (`mixed`).  No access
  time is ever adjusted (`x && 0x07 == TYPE`).  The keyboard's echo command is
  answered as a reset.
* *Memory.*  An area that ends at 2^32 is never found to overlap another; an
  area that is switched off goes on answering while it is the cached one.
* *Debugging.*  A stop is lost when an exception that was not asked for clears
  the stall before GDB is answered.  A packet that overruns the buffer is
  dropped with neither `+` nor `-`, and a `+` inside a repeated packet passes for
  the acknowledgement of a reply that GDB then never gets: in both cases GDB
  waits for its own timeout.  Ones that a JTAG master shifts in under the first
  byte of an answer come back as ones.
* *Configuration.*  After an unknown, empty section the word `section` of the
  next is swallowed; a last line without newline is skipped for ever; `""` ends
  the file; `/*x*/` without spaces opens a comment that does not end;
  `enddevice` is registered with an argument (`atahost.c:729`) and takes the
  word `end` behind it, so that the file of `sim.cfg:455` is misread;
  `profile`, `mprofile` and `strict_npc` in a file are overwritten by the
  absence of their command-line options; `set ic nsets` leaves derived masks
  as they were.
* *Hosts.*  `vapi_init` runs after the devices have installed their handlers and
  forgets them; a failed `vapi_send` leaves the number of a closed descriptor; a
  device whose first id another one's range has takes that handler, and its
  packets, away.  A TCP channel loses output before its peer connects, and each
  terminal window that is opened costs a descriptor for good.

## 4. Proofs

TLC checks the instances above; the theorems hold for every value of the
constants.  Each proof has the same shape: an inductive invariant that implies
the property (the property alone is seldom inductive), a lemma for each
function of the code that says what it changes and what it leaves alone, and one
step per action.  The invariants were checked with TLC on the instance of the
run before they were proved.

| Module | Theorems | For | Invariant, and what it adds to the property |
|---|---|---|---|
| `SchedProofs` | `TypeCorrect`, `DeltaEncodingHolds`, `EntriesConservedHolds`, `QueueNeverEmptiesHolds`, `DeadlinesKeptHolds`, `SchedImplementsAgenda` | any jobs, heap size, times | `IInv`: where the search of `sched_add` stands (all jobs in front of it are due earlier, `alltime` is the due time of the job it looks at), that the loop of `sched_next_insn` runs at most once, that the due times are sorted, and that `check_int` and the guard are queued except while they run |
| `CpuProofs` | `TypesCorrect`, `InterruptsPrecise`, `TickAlwaysScheduled` | any lines, delays, instruction lengths, widths of TP and TTCR, any value written to PICSR and TTMR | `IInv`: nothing is due when an instruction starts; a pending enabled interrupt that software has not set itself has `pic_rep_int` queued and due in every mode; the timer has exactly the jobs of its mode, the tick in front of the restart, and the tick is queued for the cycle in which TTCR, modulo the width of TP, matches |
| `PipelineProofs` | `PipelineInvariance`, `PipelineTypeCorrect`, `ExceptionsInvisibleHolds` | programs of every length without `l.sys` in delay slots | `PInv`: in a delay slot pc is behind a branch and pcnext is its target; outside, pcnext is pc + 1; in a handler EPCR is an address from which the program can go on and ESR has interrupts enabled, or, once an interrupt has nested, they are the vector and disabled for ever |
| `PipelineProofs` | `PathAlwaysSound`, `TimingAlwaysRight` | caches and TLBs of any geometry, any translation; buffers of any length, any store times | `PathInv`; `SbufInv` and `PredictInv`, below |
| `UartProofs` | `InterruptsReported`, `QueuesAlwaysSound`, `NeverForgotten`, `UartSendsInOrder` | any FIFO length, configuration and use | `IInv`: IIR names an interrupt exactly while the line is raised and whenever an enabled one is pending; the transmitter has exactly the job its state calls for, once; characters wait only with their timeout scheduled or reported |
| `SessionProofs` | `SessionAlwaysGood`, `ConversationAlwaysSound`, `OutputAlwaysShown` | any finite number of tabs, nesting of clicks and length of output | `SessionInv`, below |
| `DeviceProofs` | `GpioAlwaysSound`, `DmaAlwaysSound`, `KbdAlwaysSound`, `EthAlwaysSound`, `AtaAlwaysSound`, `DisplayAlwaysSound`, `GenericAlwaysOneMemory`, `McAlwaysFollows` | any registers, descriptors, sizes, memories and controllers | one per device: the type of its record; for the keyboard that a break code for each held key is somewhere in the ring, for the disks that every busy disk has a completion queued; for the memory controller `McInv`, below |
| `HostProofs` | `RspAlwaysSound`, `AreasAlwaysSound`, `ChannelsAlwaysSound`, `DuAlwaysSound`, `JtagAlwaysSound`, `VapiAlwaysSound` | any addresses, areas, descriptors, blocks, matchpoints, devices and tests | for GDB: a request that is not answered is on the wire or the server has an answer for it, and which acknowledgements may stand between; for areas: the cached index, that of the switched-off area and the memory controller's are in the list; for channels: which open descriptor is held by which field, and that what is open beyond them is one per terminal window; the others below |

**Session.**  `SessionInv` says that a session on track is `SessionGood`, whose
core is a table (`Talk`): for each place where the handler of a tab may stand
(or `"free"`, when it has none) it lists what the server's thread, the segments
in both directions, the simulator and its output may be.  `ConversationSound` is
true of each row, and no smaller set of rows is closed under the steps: that the
server has the right name when it starts a program rests on what was under way
three delays earlier.  The rows are stated about the `View` of a single tab, so
that each step is a lemma about one row (`RowGac`, `RowShow`, ...) and one
argument (`OneTab`, `HandlerStep`, `ServerStep`) that the other tabs do not
notice.  What tabs do share is the stack of handlers, port 7777 and the accept
queue: `StackGood` (a tab has one handler, and all but the last are in
`delay()`), `ListenGood` and `PeerGood` (the simulator that is connected is that
of the handler that waits) and `ServerGood` (a thread serves its own connection,
unless `stolen` happened).  `OutputGood` says that what was shown, followed by
what is in the line or on its way, is everything printed so far.  An accident is
never forgotten, so that `OnTrack` need only be assumed after a step.  Rows that
only an accident such as `device`, `nul` or `second_run` leads to, in which GUI
and server wait for each other, are in the table as well.  Only the accidents
that `OnTrack` names (`slow`, `reentered`, `stolen`, `overflow`) end what is
claimed.

**Caches and MMUs.**  `PathInv` has the shapes of the caches and of the TLB, and
`DcGood` and `IcGood`, which are `DcCoherent` and `IcFresh` for every block, not
only those of the instance: in a set that has been invalidated since the start
a block is in at most one way (`Once`), and its copy is what memory holds
(`Right`) unless memory was written behind the cache; an instruction
block that was invalidated after the last write to it likewise.  A lemma for
each function of `cache/` and `mmu/` says which words it may change; that an
access which takes an exception of the MMU or for its alignment changes none is
read off them.  `PeekAgrees`
compares the code's two lookups in the TLB, with and without counting the use.

**Store buffer.**  The code keeps durations and subtracts what has passed since
`prev`, the history keeps the absolute times at which the stores end.  `Queue`
relates them: entry `i` of the ring is the difference of the ends of stores `i`
and `i - 1`, the ends are sorted, and the ring has as many entries as there are
ends.  That the loops of the code, which take entries off one by one, arrive
where the subtraction of times does is an induction over the entries.
`PredictInv` says that the way used last is the one with the greatest count, so
that the other of two holds the target before it.

**Memory controller.**  `McInv` says that, unless the lists are mixed or a loop
does not end, every controller's list ends and has areas of that controller only
(`ListsGood`), from which follows that no area is set by two chip selects.  The
loop of `mc_reset` rearranges links on lists it does not own, which makes this
hard to keep: `GrabStepKeeps` shows that it never writes the link of an area of
another controller whose successors are also that controller's
(`GrabOthers`), since it writes the link of `prev` only when it takes the area
behind it, and behind such an area there is no area to take.  A controller whose list was good before another's
reset thus has the same list after it.  That a list is mixed after a
controller's own reset cannot be excluded (see above), so that the history field
is a hypothesis of the property.

**Debug unit.**  `DuInv` is about stalling; what chained watchpoints mean does not
depend on the state at all: `ChainAnd` and `ChainOr` follow the chain from its
first matchpoint by induction.

**JTAG.**  `BlockRight` adds to `JtagOneBlock` that the base is not above the
current address.  `moved` records every byte that an access reaches, those
before the one it fails at too, so that one block is a matter of the address
that a failing GO_COMMAND leaves.  `JtagWire` and `JtagData` are about the
position of every bit: the six exchanges of `reverse_bits` are shown to take bit
`b` to `63 - b`, and the bytes of `construct_response` and of the data before it
to hold that bit, the ones shifted in that the code does not clear, and nothing
else.

**VAPI.**  `VapiInv` says which number a handler may hold: each open socket is
held by a handler, and (unless SIGPIPE is ignored) each number held is open and
belongs to a test that named the handler; a test that waits to be accepted has
no socket yet and has sent its packets in order (`Waiting`).  It also says what a
handler is: it has the ids of some device and serves a device whose first id is
among them.  From this `ApartShareNone` gets that the handler of a device that
is apart from all others serves that device, whatever the others take over.  The
list of handlers only ever grows, and a reset finds the handlers that are there
(`Extends`, by induction over the devices).

**Induction.**  The provers cannot use the library's induction theorems, whose
parameter is an operator.  `LeastNat` gives a counterexample's least number
instead, and from it follow `UpTo` (a set that has 0 and with `i` also `i + 1`
has every number up to `n`) and `Iterates` (a function applied `n` times in turn
has its intermediate values).  With them a recursive function over a counter can
be reasoned about; recursion over other data remains out of reach.

**Refinements.**  `SchedImplementsAgenda` shows every step of the linked list
with relative times, of the loops of `sched_add` and of `sched_next_insn` too,
to be a step of the agenda with absolute times or a stutter.
`UartSendsInOrder` does it for the transmitter and the serial line of `SerialTx`,
with writes to a full FIFO as the one exception, and `ExceptionsInvisibleHolds`
for the pipeline and the sequential machine until interrupts nest.

**Assumptions** about the constants are stated in the module that declares them
and evaluated by TLC in every run: sizes are positive, register values are those
the code can be given (any bits of PICSR, any TTMR but for its IP bit,
which a write cannot set; TX_BD_NUM up to 0xFF, twice the number of descriptors
less one, `EthAssumption`), sets of lines and of tabs are finite
(`CpuAssumption`, `SessionAssumption`), the width of TTCR is a multiple of that
of TP (`TickAssumption`), the generic peripheral's size and base address are
multiples of 4 (`GenericAssumption`), heads and sectors fit their fields and the
sectors compared have a cylinder of 16 bits (`AtaAssumption`), a frame fits its block
(`DisplayAssumption`), caches and TLBs have a set and a way at least and what is
in the TLB at the start are entries (`PathAssumption`), the ring of the store
buffer is longer than the buffer (`SbufAssumption`), the tables of branches have
a way and counters with at least two values (`PredictAssumption`), no two memory controllers have the same index, which `mc_sec_end` leaves unchecked
(`McAssumption`), matchpoints
and descriptors are numbered and a VAPI device has at least one id
(`DuAssumption`, `VapiAssumption`), and memory areas have sizes up to 2^30, beyond which
`bit_mask` of 32 bits has no mask (`AreaAssumption`).

**Only model-checked**, and why:

* `TickTaken`, `SchedulerReturns` and `HandlersReturn`: liveness is beyond the
  prover.
* `AluRight` and `FloatRight`: identities between bits and integers of any
  width, whose proofs would be inductions over the bits with products and
  quotients of powers of two, which the provers' arithmetic does not do.
* `DecodeSound`: the automaton is built with a recursive operator.
  `ConfigSound`: setters take bits apart with `Bitwise`.  In a module that uses
  either, tlapm has no arithmetic.

## 5. Not modelled, and the plan

Left out:

* the words exchanged with the FPGA board (`Baton_API.cpp`, the vendor's
  library), of which the repository shows only the calls; what the server does
  with the answers is in `Session`;
* the prompt, start-up, loaders, labels, statistics, the table of opcodes and the
  text of the disassembly: parsing, tables and printing;
* the custom unit compiler and the profilers: separate batch programs;
* argtable2, and the formats of SoftFloat wider than single precision, its
  square root and remainder: vendored code, of which the first is only a parser
  and the others are not called or too wide to enumerate;
* in modelled components: MII management, VAPI reads and the status print-out of
  Ethernet; the words of IDENTIFY and ATA timing; the VAPI log and the final
  wait for tests; privilege tests of SPR accesses and the codes of `l.nop`;
  query packets of GDB, which are one kind of packet.

What the properties do not catch, although the model has it:

* a second `check_int` after a reset at the prompt (`toplevel-support.c:175`):
  `TickScheduled` is about the timer's jobs, and a duplicate of this one only
  makes the prompt be looked at more often;
* VAPI commands left behind, or a character received twice, when
  `uart_recv_break_start` calls `uart_vapi_cmd` back: `RxNotForgotten` and
  `QueuesSound` are about the receiver's state;
* the accidents of a session for which the code has no defence (`slow`, `stolen`,
  `overflow`): they are recorded, and nothing is claimed behind them;
* the decoder of a memory controller whose lists are mixed or whose reset hangs,
  which `McDecoderFollows` leaves out;
* a stop that is lost when an exception nobody asked for clears the stall
  (`DuSound` relates RISCOP to the stall state and does not ask for a stop to be
  kept), and the program counter that GDB is told after it detached between a
  stop and its report (`rsp-server.c:238`);
* what a bus error leaves behind (`dcache-model.c:230-303`): a refill that fails
  has thrown a line away, and a store whose refill fails has written memory;
  `PathPrecise` is about the exceptions for alignment and of the MMU.

Left for the next steps, in this order:

1. The composition of `DebugUnit` with `Cpu`: an exception that the debugger has
   asked for, intercepted while another is on its way.
