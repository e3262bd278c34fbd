# QpixLAR carrier firmware: a TLA+ verification project

This directory models the QpixLAR carrier (a Zynq 7020: FPGA logic under
`src/hdl/`, bare-metal C under `src/vitis_workspace/qpix_carrier_ctrl/src/`, the
processor's start-up code under `src/vitis_workspace/qpixlar_carrier/hw/sdt/`) in
TLA+, checks the models with TLC and proves part of what they show with TLAPS.
Every definition that models code is translated from the source; `PROJECT.json`
("map") names the lines.

## 1. Inventory

Sixteen comparator inputs of two QPIX chips are time-stamped, buffered, sent as
an AXI stream through a DMA engine into memory and from there as UDP datagrams
to a host. The host controls the carrier with commands over TCP, which become
register accesses, SPI transfers to two threshold DACs and I2C transfers to two
more. The wiring is that of the block design
(`src/vivado/qpixlar_carrier/.../qpixlar_bd.bd`, `design_1.tcl`).

```
 Q[16] -> data_ctrl --(200 MHz | 50 MHz)--> FIFO -> fifo_ctrl -> stream FIFO -> DMA -> ISR -> UDP
                ^ sample_valid, mask                  ^ PacketLength
           qpix_reg_rtl <- reg_0..reg_a -- TransactRegiMap <- AxiLiteSlaveSimple <- CPU <- TCP
                                                |-> spi_interface_ctrl -> spi_interface -> DACs
```

| component | state | operations | talks to | what is hard | what makes it correct |
|---|---|---|---|---|---|
| hit capture `qpix_carrier_data_ctrl.vhd`, `EdgeDetector.vhd`, `qpix_reg_rtl.v` (`sample_valid`) | timestamp counter, edge registers, output word, synchronizers | count, detect an edge, record a hit | comparators; mask, window and force from the 50 MHz side; FIFO | asynchronous pads and settings, two clocks, a FIFO whose `full` is not connected | every enabled edge recorded once with its own time, whole in the stream |
| stream controller `qpix_carrier_fifo_ctrl.vhd` | FSM, part counter, packet counter, registered `ren`/`tvalid`/`tlast` | read a word, send its three beats, close a packet | FIFO generator, stream FIFO, packet length register | a registered read strobe against stalls and arrivals | each hit once, whole, in order, framed |
| register path `AxiLiteSlaveSimple.vhd`, `TransactRegiMap.vhd` | two FSMs, request line, registers and their ports | read, write, load strobe | CPU, all logic | two machines on one request line and one acknowledge | behaves as a register file |
| DAC path `spi_interface_ctrl.v`, `spi_interface.v` | request buffer, selection flag, one FSM per DAC | request, select, shift, load | register map, DAC chips | requests of two DACs on shared lines, requests during a transfer | each DAC ends with the word written last |
| pulse sequencers `qpix_reg_rtl.v` 704-843 | six counters, reset/trigger/calibration/window lines | start, switch a line at a count, stop | control registers, QPIX chips, hit capture | settings and bits changed while a sequence runs | order and length of the pulses |
| serial load and readout `qpix_reg_rtl.v` 510-698, `oneshot.vhd`, `piso.v`, `clock_div.v` | divided clocks, one-shots, shift registers | load, transmit, read back | control registers, QPIX chips | one-shots across divided clocks that rise together; no load of the readout register | exactly one word's clocks per command |
| DMA handler and UDP sender `dmaControl.c`, `udp_server.c` | counters, DMA registers, pcb | take an interrupt, copy, send with retries, arm | DMA engine, lwIP, main loop | engine, interrupt and main loop interleave on one buffer and one pcb | packets whole, once, in order; no interrupt lost |
| command server `ethControl.c`, `helper.c` | receive buffer, lwIP's window and send buffer | accept, receive, decode, act, answer | lwIP, register path, I2C | segment boundaries, chains, short send buffer, failed transfers | one command, one effect, one answer |
| I2C wrapper `iic_ctrl.c` | completion flags, error count | send, event handler | I2C controller, command server | spins on flags set by an interrupt | ends with its own transfer |
| main loop and timers `main.c`, `platform*.c` | two timer flags | tick, poll | lwIP | flag cleared after the work; a command that spins | no tick is lost for ever |
| start-up `ps7_init.c`, `ps7_init.h` | registers, locks, PLLs, DDR, timer | run the tables of a silicon version: write, poll with a limit, delay | PLLs, DCI, DDR controller, pins | four tables that lean on each other, hardware that never answers, calls repeated | everything is up after success; every call returns |

Legacy logic (`axis_fifo*.v`, `QpixProtoRegMap.vhd`, `top_rtl.v`,
`demux1to32.v`) is not instantiated; block-design output, board files and
simulations are generated or are inputs to tools. They are listed in
`PROJECT.json` and not modelled.

## 2. Plan

Done, in this order: the stream controller with its abstract promise; the
register path with the register file it implements; the DAC path; the pulse
sequencers; the DMA readout; hit capture and its composition with the stream
controller; the command server with the I2C wrapper and the main loop; the
serial load and readout; the start-up of the processing system; proofs of every
safety property the runs check and of the safety part of both refinements.

Left: a composition of CommandServer with DmaReadout, where the handler's UDP calls come
while lwIP is in a TCP callback.

## 3. The modules

Hardware modules follow one scheme: `Tick` (or `Clock`, `FastTick`, `SlowEdge`) is one rising edge of
a clock; every registered signal is a variable whose primed value is
what the process assigns, read from values before the edge; combinational
signals are operators; other clock domains and software are actions of their
own that come between any two edges. The `rst` inputs of the stream controller, the DAC
path and the capture logic are tied to 0 in the block design (`design_1.tcl:946`), so
their reset branches are left out.

### HitCapture, Readout (`qpix_carrier_data_ctrl.vhd`, `EdgeDetector.vhd`)
`q` and `edge` are the edge detectors' stages, for all ports at once: sets of
ports stand for the vectors. `FastTick` is a 200 MHz edge. Pads, mask, force, selection, window and the
chips' deltaT pads change between any two edges, the mask bit by bit, because a
crossing without synchronizer may catch it half way. `samples` and `gated` are
histories: what the pads were at the last edges and what was enabled at the
last one. Readout composes HitCapture with QpixFifoCtrl: four fast edges to a
slow one, and between them the FIFO generator, external: a word written
becomes visible after a bounded number of slow edges, a word that finds it full is gone.

### QpixFifoCtrl, HitDelivery (`qpix_carrier_fifo_ctrl.vhd`)
`state`, `phase`, `newWord`, `nPackets` are `s_state_r`, `v_word_phase`,
`newWord`, `nPackets`; `StartRead`/`StayIdle`, `Stall`/`SendPart`/`SendLastPart`
and `Finish` are the three branches of the process. The FIFO generator is external:
first-word-fall-through, dropping its word at an edge with `ren`. A word is
its ordinal, a beat its word and which third it is. `HitArrives` is the
other side of the FIFO, `SetPacketLength` software. The consumer's TREADY is any sequence of
values in `Ready`. History variables: words read (`popped`), third
beats offered (`records`), the beats (`stream`), and whether the consumer has
ever stalled (`steady`). HitDelivery is the promise: a queue out of which whole
hits go, once each, in packets of a fixed number; `Safety` is what may happen, `Spec` adds
that delivery goes on. The refinement mapping stands at the end of
QpixFifoCtrl: three beats offered are a record delivered, the hits behind them wait.

### AxiLiteSlave, TransactRegMap, AxiRegs, RegisterFile
AxiLiteSlave has one action per state of each machine; TransactRegMap is the
clocked process with its sixteen address cases as sets of registers that are
read and written alike (one keeps a single bit, `force_valid`), and the one exception (`ReadSource`). AxiRegs
instantiates both on one clock with an AXI master: valid until ready, at most
one read and one write outstanding, both at once only on the addresses in `Overlap`. A word is a pair
of half-words, because registers are 16 or 32 bits wide. RegisterFile is what
software relies on, and what is left of it when a read and a write overlap: the
read may return anything, the write may be lost, nothing else is touched. The
refinement mapping stands at the end of AxiRegs, where the proofs use it.

### SpiDac (`spi_interface_ctrl.v`, `spi_interface.v`)
`bufReg` and `dacStat` are `buf_reg` and `dac_stat`; each `spi_interface` is its
`state`, `curCnt`, `curBit`. The chips are external: they shift on a rising
clock while selected, keep a word of exactly the right length when deselected,
show it while the load line is low. The register map's two-cycle strobe with the
word on the port from the second cycle is what AxiRegs' LoadCarriesWord shows of
it. `paced` records whether every write so far waited until its DAC and all
higher-numbered ones had loaded.

### QpixPulses (`qpix_reg_rtl.v` 704-843)
One counter per sequence, one equation per line, in the code's priority: the
later non-blocking assignment wins. `Settings`, `SetBit`, `ClearBit` are software's
register writes. Histories: cycles the window was open in this hold (`opened`), cycles a
reset pulse has been up (`high`), the bits at the last edge (`seen`), settings rewritten
while running (`retuned`), a bit cleared before its pulse was over (`cut`).

### Serial (`qpix_reg_rtl.v` 510-698, `oneshot.vhd`, `piso.v`)
`SlowEdge` is an edge of clk20k, with those edges of the divided clocks that rise with it;
`IntRstEdge` one of the faster clock of two one-shots. Where two clocks
rise together the value sampled is a choice: fixed per behaviour for the shift
registers (`late`: routing does not change), free at every edge for the
one-shots, whose trigger is asynchronous to them. `gen` and `readGen` are the two
`piso` instances. The chip is external: it shifts on its clock, and takes an
undefined bit if the data changes with the clock. One chip is modelled; the other has the
same logic on its own register.

### DmaReadout (`dmaControl.c`, `udp_server.c`, `ethControl.c` accept)
The interrupt handler is cut where the DMA engine could act: status and
acknowledge; length; copy; each try of sending; arming; counting. It excludes the main
loop (one processor), whose callback `udp_echo_recv` is cut after the echo and between its two
stores, where the handler may come. The engine fills the buffer in two steps, so
a copy of a buffer being filled would show. Sending and allocation fail at will. Errors
raise no interrupt (`dmaControl.c:16` enables the completion interrupt only), so
an overlong packet leaves the engine halted for good.

### CommandServer (`ethControl.c`, `helper.c`, `iic_ctrl.c`, `main.c`, `platform.c`)
`pc` is where the main loop is: the two flag tests, the two calls with their
flags still set, the poll of the network, the spin of `IicSend`. The stream is a
sequence of bytes, each the command it belongs to and its place there, and TCP may cut it after
any of them: `Receive(k, j)` hands over the first k bytes, j of them in the first pbuf of a
chain, and is the whole of `recv_callback` with `HandleCmdRequest`: window, room in the send
buffer, a size rounded up to whole quadlets, copy into `rx`, size and selector checks, effect,
answer. A quadlet of `rx` is a word of a command; what stood there before, if the segment does
not reach it; `Torn`, if its bytes are clients' but not one word's; or `Junk`, if some of them lie past the
first pbuf. Junk may look like anything, a packet code included (`Luck`); a Torn word or a word
of data is assumed not to look like a packet code, which are four letters (`helper.h:15-22`). Only
an I2C command is cut, at the loop that waits for the interrupt. `tcp_write` may refuse an answer that has no room,
or any (memory, queue). The client acknowledges answers whole. `TimerCallback` and `Handler`
are the two interrupts. Histories: `effects`, `answers`, `refused` (why answers were
refused), `inStep` (the client waited for each answer, and each segment was one command),
`chained`, `tiny` (a segment shorter than a quadlet was received).

### Ps7Ops, Ps7Init30, Ps7Init20, Ps7Init10, Ps7Boot (`ps7_init.c`)
The three table modules are the tables of the three silicon versions, one
operator per group of registers, in the table's order; Ps7Boot is the interpreter
`ps7_config`, the three entry points and the hardware they wait for. The tables
are written by the Vivado tool from the board's settings, so most of their lines are data:
a write whose value no property tells apart is "set", and what is kept is the
order, the units' clocks, the pins' functions, resets, locks, polls and delays. They are
modelled because that order is the start-up's control, spread over 12,000
lines nobody tests: what a poll that gives up leaves behind, or a second
call, is read nowhere in the generated code.

## 4. The runs

| run | question | result |
|---|---|---|
| FifoStall | is any hit read twice, skipped or out of order, any packet mis-framed or overlong, whatever the consumer and the length register do? is every hit read? | holds |
| FifoSparse | with hits spaced wider than a record, does the controller implement HitDelivery? | holds, with liveness |
| FifoTorn | are a record's beats parts of one word under a backlog? | violated: the FIFO moves on after the first beat |
| Readout | is every enabled edge recorded once, with its time? are hits 20 fast edges apart whole in the stream, across the clocks? | holds |
| Regs | does software see a register file, with accesses alone or overlapping? does a load strobe go with its word? is everything answered, nothing unasked? | holds |
| SpiLoads | whole words, no spurious start; with paced writes one chip at a time, and every word loaded and shown? | holds |
| PulsesAll | order of the pulses under any bits and settings; their exact length while settings are left alone; is a reset pulse ever shorter than its width, when its bit is cleared or the width rewritten? | holds |
| SerialLoads | does a loaded word arrive whole, in exactly its clocks? what does a reset allow to be read? | holds |
| DmaReadout | one packet per datagram, once, in order, to the last host; no interrupt lost | holds |
| Commands | the stream cut at any even byte: only commanded effects, right answers in order to a client in step, room for what is answered, no wait ended by another transfer's flag? is a client in step answered in the end, and every tick reached? | holds |
| WindowLeak | is the receive window open again when all is received? | violated by a chain: its first pbuf alone is credited |
| Boot | what do success and failure leave behind, on every silicon version? does every call return? | holds |

**Bounds.** FIFO: depth 2 and 3 or 4 hits reach every FSM branch, a full FIFO, back-to-back
records, and lengths 0, 1 and 2 cross the open packet's count both
ways. Readout: two ports, two pulses and one change of settings, so that an edge meets a change at
every stage of the pipeline; a FIFO of one word, so that it is full whenever a word waits; the timestamp wraps at 4; `Spacing` 20 is the least for which the property
holds, found by trying. Registers: one 32-bit register,
one with a port, a DAC register and the constant (`Used`), one half-word to write, its lowest
bit set (`Odd`), full and partial strobes; a read
and a write overlap on the first and the third. DACs: two slaves as wired, 2-bit words, divider 2
(the least value for which NoSpuriousStart holds; the source uses 16), three
writes so that one comes in every state of a transfer of either DAC. Pulses: settings are 0 or
a little more, counters run to MaxHold, longer than any programmed sum, and
wrap at 2^4 only beyond it; two sequences at once, since each has its own counter and
lines. Serial: two-bit words, eight register writes (a load takes two, a transmission
two, so there are two of each, or other uses around one); three sets of control bits that interact. DMA: three
packets, sizes below the u16 wrap, between it and the DMA's limit, and above; two tries; two hosts.
Commands: two commands out of seven kinds (good, refused, too short for a selector, unknown and
of a broken size), a send buffer of two answers and a window of two commands, so both run short;
two segments, so that a command is cut, joined to the next one, or both are whole. A segment ends after
any even number of bytes up to 12 (`Cuts`): a quadlet with one byte missing, or three, is treated like one
with two, the rounded size and the words that lie past the segment being the same, and two
bytes stand for the lengths below a quadlet. Longer segments, commands cut in three and odd lengths are the
theorems' part. Every interrupt sets both ticks. Boot: versions 0 to 3 (3 is the default branch), a poll of
two reads, a delay of two ticks, two calls; it may stop, since nobody calls it for ever (CHECK_DEADLOCK FALSE).

**Fairness.** The clock runs (WF of Tick, SlowEdge). Beyond that: the stream's
consumer is ready again and again (the stream FIFO drains into a DMA that is
armed by every handled interrupt); the AXI master raises both channels of a write
and takes answers, as the protocol obliges it to; the DMA engine fills what it is armed for, and a
pending interrupt is taken and its handler goes on; the main loop runs, the I2C controller
ends a transfer with an event, and TCP delivers what a connected client sent (SF: the
poll has to find the main loop there); the start-up's processor runs and its timer counts. No fairness is assumed of
arrivals, software, connections, hosts, PLLs or DDR.

**Premises.** Where a property needs something of its environment, the premise is in
the property as a history variable (`steady`, `paced`, `retuned`, `cut`, `spaced`, `inStep`,
`chained`, `tiny`, `refused`, `expected`, `readCalm`) and the run explores behaviours with and
without it. What the premises exclude is told in section 6; WindowLeak shows it for `chained`.
One premise is on the constants: no control bit is held until its counter wraps (NoWrap).

## 5. The proofs

TLAPS proves, for every value of the constants that the named assumptions allow
(TLC evaluates these in every run of the module):

**QpixFifoCtrlProofs**, for every FIFO depth, number of hits, set of packet
lengths and consumer.
- *TypeCorrect*, from the types of the FIFO's port and
  of what an edge does to the FIFO and the bus (lemmas DoutIsHit, EdgeTypes).
- *ReadsMatch*: not inductive as it stands, whether a
  read happened is only known through the strobe. `ReadInv` adds that
  the strobe is up exactly while the FSM is sending with no word in hand, and that the
  second and third parts always find their word in hand.
- *FramingHolds*, through `FrameInv`, which ties the part
  counter to the number of beats offered and to the beat on the bus.
- *HitOrderHolds*: `FifoInv` says which words the FIFO holds, so its output never goes back;
  `OrderInv` keeps the last beat, the one on the bus and the output in that order.
- *LowWordsHold*: `CountInv` counts the beats by the records sent, and `LowInv` says that up to the
  first stall a record's first part leaves at the edge that drops its word.
- *PacketBoundHolds*: `PacketInv` names the beat where the open packet begins and
  ties the packet counter to the beats behind it; the bound is on the counter.
- *DeliversWholeHits*: with hits spaced wider than a record (Sparse) and one packet length
  (OneLength), as in FifoSparse, every step is a step of HitDelivery or none. `SparseInv`: a word in
  hand has left the FIFO empty, so its output shows that word for all three beats.
  `BeatInv`: every beat carries its record's hit, and TLAST is on every third beat that
  closes a packet. `CycleInv`: the packet counter is the number of records since the last
  multiple of the length, so the code's `>=` closes where the promise does. The mapping is
  defined by how many beats are out; a step that offers a third beat delivers,
  all others but an arrival stutter.

**SpiDacProofs**, for every number of DACs, word length, divider and pattern of writes.
- *TypeCorrect* and *WholeWordsHolds*: inductive together with the types of the controller
  (CtrlTypeOK), whose only hard part is that the indexer names a slave: the
  least element of a set of requests, from the library's well-foundedness of `<`.
- *NoSpuriousStartHolds*, for a divider of 2 or more:
  the selection flag lags the request by an edge, so the claim needs `RequestInv`:
  in S_DONE with the counter past 0 the request is gone, and a flag of
  a slave in S_IDLE stands for a request still there. With divider 1, S_DONE
  lasts one cycle, the flag outlives the request, and a transfer would start again.
- *OneSelectedHolds*, for such a divider: while writes are paced a new request is never
  below an older one, so the slave at work is the one the indexer names (`PacedInv`).
- *PacedWordLoadedHolds*, the same: `LoadInv` says the chip at work has seen the word's bits up
  to the slave's counter, and that every chip at rest shows its word.

**AxiRegsProofs**, for every set of addresses, overlaps, strobes and half-words.
- *NoStrayAnswerHolds*: `ReadInv` and `WriteInv` relate each machine's state to the master's
  channels, whatever the other does with the acknowledge they share.
- *TypeCorrect*, and *LoadCarriesWordHolds*: through `CarryInv`, the request line holds the
  write's address and word while its strobe is up.
- *ActsAsRegisterFileHolds*: every step of the register path is a step of RegisterFile or
  stutters, through `AnswerInv` (an answer is what the register held). Its assumption
  `ReadBack`, that register 2 is not used, is the exception `ReadSource` makes: register 2 reads
  back register 1. Promise!Spec has no fairness, so the whole refinement is proved.

**DmaReadoutProofs**, for every set of packet sizes and hosts, number of packets, wrap, limit and
number of tries.
- *TypeCorrect*: above all, the tries never go below zero.
- *DatagramPerPacketHolds*: through `TurnInv` (engine and handler take turns
  on the buffer, and what the handler has read is of the packet in it) and `SentInv`
  (what was sent is older than what is at work).
- *GoesToLastHostHolds*: `RemoteInv`, the pcb between the two stores.

**ReadoutProofs**, for every set of ports, counter period, starting settings and
sequence of pulses and changes.
- *TypeCorrect*, and *FallStampedHolds*: the pipeline is the last samples, each
  stage one edge older. *FallStampedInPath* takes it to the composition with the FIFO and the
  stream: every step of the hit path is a step of the capture or leaves it alone.
- *SpacedHitsWholeHolds*, for a consumer that is always ready, every FIFO depth and delay, and
  every spacing of at least 4 * (MaxDelay + 4) fast edges (16 for a FIFO without delay): an
  argument about time. `Left` counts the slow edges the last word still needs, from the
  FIFO's delay to its third beat; `OnTime` weighs them, four fast edges each, against
  the edges since it was written and the phase of the two clocks, so that the next word
  finds everything at rest. `OneAtATime` and `BeatsInPlace` are what one word
  at a time means for FIFO, state machine and stream. The run's 20 is this bound at its MaxDelay of 1.

**QpixRegProofs**, the two independent parts of `qpix_reg_rtl` in one module.

Serial load and readout (Serial), for every word length, every word, all control bits and any number of
writes, and for either outcome of each race between two clocks. Both claims are about tens
of edges, so the invariants read a transfer's progress off one state.
- *OneReadPerResetHolds*: `ReadInv` says that the readout's shift register counts the
  edges of its one-shot's train and that no train is cut short, so its counter is at the start,
  in step with a train, or at the end; a lifted reset leaves it at the start with no train on
  its way.
- *WordArrivesHolds*: `LoadInv` follows a load from the register write
  through the synchronizers to the shift register; `SendInv` says of a transmission
  under way that what the register has left, the bit on the line and what the chip has
  add up to the word (`OnItsWay`). `Sampled` supplies what both need of
  the synchronizers: what has been stable since the last edge has been seen by it.

Pulse sequencers (QpixPulses), for every counter width, settings and number of sequences
at once, as long as no bit is held until its counter wraps (NoWrap, a premise of all but the first).
- *PulseTypeCorrect*, and *RisesAtTransitionHolds* (a bit seen at an edge has its counter under way).
- *PulseOrderHolds*: not inductive, since a trigger line left up with its
  counter at 0 would let the reset start under it; `OrderInv` excludes that.
- *ProgrammedLengthsHolds*: `LengthInv` reads off the counter how much of the
  window is over and how old the reset pulse is, so the lengths are exact: no shorter either
  once the bit has been held that long.
- *NoShortPulseHolds* needs no premise on software: while the line is up its counter is never
  ahead of the pulse's length (`CountInPulse`), so when the comparison ends the pulse it was long enough.

**CommandServerProofs**, for every stream of commands and every way it is cut, at any byte, into
segments and first pbufs of any length, and for every content of the memory past them.
- *TypeOKHolds*: every byte in the stream and every word in the buffer belongs to a command that was
  sent (`StreamInv`: the stream is whole commands behind one another, but for
  the one it starts in), and the send buffer lacks exactly the answers
  not yet acknowledged (`FreeInv`). The sums of sizes are functions given by their steps;
  where induction would be used, a least counterexample is.
- *EffectsAreCommandedHolds*: `CommandedInv`. A segment that starts with a command's first byte
  goes on with that command's bytes (CommandBytes, again by a least byte that does not), so the words
  copied are the command's, up to where it or the segment ends (ReceivedCommand); the
  word cut by a segment's end is the exception that the property states.
- *AnswerHasRoomHolds*: room is asked for the segment but used for the answer, which
  may be longer by up to three bytes, or eight bytes for a quadlet. `RoomInv`: the free space is a
  whole number of quadlets, since every answer written is (BuffersAssumption: so is lwIP's
  TCP_SND_BUF, outside this repository; 8192 unless the build sets another), so more than a
  segment of four bytes or more is room for its answer.
- *AnswersPairHolds*: `StepInv` says where a client that waits for its
  answers stands: at most its last command is unanswered, and that one is the
  whole stream or the transfer under way.
- *SpinEndsWithTransferHolds*: the wait of IicSend ends with its own transfer, since
  the flag it watches is cleared before the transfer starts and set only at its end (`SpinInv`).

**Ps7BootProofs**, for every set of silicon versions, poll limit, delay and number of calls, for
either state the boot ROM may leave PLLs and SLCR in, and whether the hardware answers or not.
The tables are data, so the proof has two parts. The first turns each table into a shape: which
operation is at which position, or what every operation between two positions is like (`MioShape`
to `DebugShape`; `Joined` says what is at a position of two tables run one after the other,
SameTables which tables the silicon versions share). What a state has to know of a table is read
off its shape (`Facts`, lemma TableFacts). The second part follows the interpreter, with one
invariant, `BootInv`, whose parts need one another:
- `TypeInv` (*TypeCorrect*): a call always has an operation to run, since the only exit of a table
  is its last operation.
- `LockInv` (*SlcrClosed*): in a table that uses the SLCR they are open from the first operation
  to the one that locks them. The property is about returned calls only; the
  invariant has to say it of every operation, because the only polls before the locking
  operation are the PLLs'.
- `KeptInv`: what a table has written is still in the register, unless the same table wrote it
  again. It rests on LockInv: a write to locked registers is lost.
- `PllInv` (*PllsLocked*): not inductive as it stands. When the bypass is taken away the PLL must
  be locked, which the poll before it saw; when a reset unlocks the PLL it must be bypassed,
  which KeptInv knows from the operation before.
- `DdrInv` and `StageInv` (*DdrReleasedWhenReady*, *SuccessIsReady*): the registers set since the
  controller was held, the pads calibrated, the DDR up; and what holds once a table
  is over: no later table undoes it (`PastBefore`, `Lasting`).
- `UsbInv`: while the delay runs the PHY has been in reset for as long as the timer counts,
  since the timer is set back when the delay starts.

That every call returns (CallReturns) is liveness, and stays with TLC.

Only model-checked: liveness (EveryHitRead, PacedWordShown, CommandAnswered, CallReturns and the like), with it
the fairness of HitDelivery's `Spec` (DeliversHits adds it to what DeliversWholeHits proves):
liveness under fairness and ENABLED are beyond the prover.

## 6. What the checks show about the code

Found by a run that expects the violation:
- A record sent while another hit waits mixes two hits (FifoTorn). No hit is
  skipped or duplicated by reads, and low words are complete while the consumer
  is ready. Hits 20 fast edges (100 ns) apart are not mixed (SpacedHitsWhole).
- A chain of pbufs is credited to the receive window by its first pbuf only
  (WindowLeak, `ethControl.c:131`); what lies beyond that pbuf is also read past its end.

Bounds of what holds, each met while the property was stated; the premise or
the property's wording says so:
- A beat offered as the consumer stalls is withdrawn untaken, and DONE_S takes the next ready
  for its handshake (`qpix_carrier_fifo_ctrl.vhd:112,152,185`): the beat is lost. The records after it keep
  their framing (Framing), and no read is lost with it (ReadsMatchRecords).
- A lower-numbered DAC written during a higher one's transfer takes its lines over
  (`spi_interface_ctrl.v:91`), and a request that arrives in the clock_div cycles of S_DONE is cleared
  with the one just served, so the DAC keeps the old word (`spi_interface_ctrl.v:67`). While software paces its writes
  neither happens (OneSelected, PacedWordLoaded, PacedWordShown).
- A reset bit cleared early leaves the reset line up until it is set again
  (`qpix_reg_rtl.v:818`); the pulse is longer than programmed, never shorter (NoShortPulse). A bit held
  for 2^32 cycles (85.9 s) starts its sequence again (`qpix_reg_rtl.v:727`).
- Between the two stores of the UDP callback a datagram can go to a new host's address with the old
  host's port (`udp_server.c:45`). The mixed address is bounded to the two stores (GoesToLastHost).
- A packet of 64 KiB or more is sent with the lower 16 bits of its length (`dmaControl.c:146`), and one longer than
  0xFFFFF bytes halts the engine for good: its error interrupt is not enabled (`dmaControl.c:16`).
- A register command cut after 9 to 11 bytes is taken for whole, and the register written with a
  word completed from past the segment (`ethControl.c:143`). An I2C command cut after 5 to 7
  bytes is the same. EffectsAreCommanded lets only such a last word differ.
- Register 2 reads back register 1 (`ReadSource`). A read and a write overlapping
  on the shared request line can acknowledge the write without storing it; the
  processor's strongly ordered device accesses do not overlap.
- A DAC written again during its own transfer is sent once, with the later word if it came
  before the bits were shifted, mixed with the earlier if it came between.
- The readout's shift register has no load, so its counter ends the trains for good: one
  train of clocks per reset, however often a read is asked for (OneReadPerReset).
- A load held through or past a running transmission leaves the clock's level up, and the next transmission is
  misclocked; a load dropped and a transmission asked for within one slow edge may lose a
  clock. One reset bit serves the load and the readout.
- The interrupt handler's order (acknowledge, copy, send, arm) is right: packets go out once and in
  order, and no completion is lost.
- A segment is taken for one command, wherever TCP has cut the stream. Selector and data
  still come from one command (EffectsAreCommanded), but for the word a cut inside a quadlet
  leaves to chance, and for the SPI command, whose size is
  not checked: its first quadlet alone loads what an earlier command left in the buffer.
  A command of another kind that is too short takes in the words of the next one in its
  segment, its selector among them.
- A segment of one to three bytes is rounded up to a quadlet, and what completes it may make it an
  SPI command: it is acted on with what the buffer still holds. With four free bytes in the send
  buffer it passes the test for room, and its answer of eight is refused (`tiny` in AnswerHasRoom).
- `tcp_write`'s error is not looked at (`ethControl.c:148`): a command can be acted on and its
  answer lost (`refused` in AnswersPair, CommandAnswered).
- A failed I2C transfer is answered GOOD (`helper.c:80`); it is answered.
- A timer tick between the call of tcp_fasttmr and the clearing of its flag is taken with that
  call (`main.c:44-46`); the timers do not stop (TickServed).
- A PLL that does not lock leaves the SLCR unlocked (SlcrLeftOpen). The poll's
  mask for the DDR mode accepts any operating mode. A failed call only ever
  returns PS7_INIT_TIMEOUT, and `getPS7MessageInfo`, which nothing calls, names two of its codes the
  other way round than `ps7_init.h:59-60`.

## 7. Not modelled

- lwIP's own re-entrance when the interrupt handler calls it while the main loop is inside it: an
  external library whose locking is configured outside this repository.
- Failures at start-up of the application (`udp_server.c:69`: a failed bind; driver set-up of DMA,
  I2C, GPIO): each model's initial state is the application up and running.
- `IicRecv` and the DMA transmit handler (never called), `transfer_data` (empty), cache maintenance around the DMA
  buffer (the model's memory is coherent), link detection, lwIP's timers behind the two tick calls,
  `platform_zynq.c` (the build with the system device tree uses `platform.c`'s path).
- The second chip's serial path, which is the first's on another register.
- Metastability: a register that samples a changing signal gets the old value or the new one.
- `getPS7MessageInfo` and the `mask_` helpers of `ps7_init.c` (nothing calls them) and
  `ps7_init_gpl.c`, the same tables under another licence.
- Legacy, generated and vendor files.
