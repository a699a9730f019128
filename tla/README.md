# A TLA+ model of the SpaceWire core, its loopback engine and its tools

This directory models three parts of this repository in TLA+: the synthesizable
SpaceWire core (`src/rtl/verilog`), the loopback engine of the two board examples with
the host programs and benches that drive it, and the scripts that build and compare the
core. TLC checks the models on small instances; TLAPS proves the most important facts
for every value of the constants. `PROJECT.json` holds, in a form that tools can read, the
components, the runs, the source lines behind every definition, the hazards and the theorems.

- [The system](#the-system)
- [The modules](#the-modules)
- [What the runs check](#what-the-runs-check)
- [Bounds](#bounds)
- [Fairness](#fairness)
- [What is proved](#what-is-proved)
- [Where code and documentation disagree](#where-code-and-documentation-disagree)
- [What is not modelled](#what-is-not-modelled)
- [What is left](#what-is-left)

## The system

The core is one synchronous design. In every clock each component looks at its
registers and at the combinational outputs of its neighbours, and all registers
change at the clock edge. So **one step of a hardware module is one clock edge**. The
interleavings that are hard here are not those of threads: they are the *orders in
which events fall into clocks* (two events in one clock, an event one clock before
or after the register that permits it), two independent state machines at the ends of a
cable, two clocks without any relation, and a host that looks at the engine whenever it likes.

| component | state it keeps | operations | talks to |
|---|---|---|---|
| link controller `spwlink.v` | link state, both credit counters, credit error, handshake timer, FCT request | one transition per link state, `rst` | enables transmitter and receiver; asks the transmitter for FCTs; reads the registered room of the receive FIFO |
| stream core `spwstream.v` | pointers and flags of two FIFOs, `rxpacket`, `rxeep`, `txpacket`, `txdiscard`, `last_time` | store, read, write, send, discard, insert EEP, `rst` | composes everything; user side is FIFO-style |
| FIFO memory `spwram.v` | the memory and its registered output | read before write, synchronous | `spwstream.v` |
| transmitter `spwxmit.v` | divider, shift register, parity, pending Time-Code, permissions | one bit per enabled clock, choice of the next token, orderly stop | link controller, transmit FIFO, the Data and Strobe lines |
| receiver `spwrecv.v` | bit window, token position, parity, escape, disconnect counter | one bit of a chunk at a time, disable | front end, link controller |
| front end `spwrecvfront_generic.v` | sampling flops | sample, recover a bit | lines, receiver |
| front end `spwrecvfront_fast.v` | two samples a clock, groups of bits, eight slots and two pointers in two clocks, activity counter | sample, group, hand over, tell activity | lines, receiver |
| fast transmitter `spwxmit_fast.v` | two token slots with flags in two clocks, stages B to F, divider of the transmit clock | fill, take, encode, divide | as the transmitter |
| AXI4-Lite registers `spw_axi_lite_regs.v` | held address and data of a write, responses, control bits, Time-Code latches, sticky errors | write, read, latch, clear, `rst` | bus master, core |
| AXI-Stream bridges `spw_axis_rx.v`, `spw_axis_tx.v` | receive: one beat; transmit: nothing | load, hand over, `rst` | FIFOs, stream consumer and producer |
| loopback engine `spw_loopback_axi.v` | AXI-Lite master (bring-up, polling, Time-Codes), self-check with PRBS, host data mover, capture FIFO, register file | one access after the other; flush, send, check; push, pop | the core's registers and streams; the host |
| host programs and benches | a script and what it has seen | write, read, poll, assert | the register file of the engine, one access at a time |
| `build.py` of the examples | files of earlier builds, environment of the shell | remove, launch the tool, judge, print, program | Vivado, Quartus, the board |
| waveform and synthesis comparison | the dumps, or the statistics, read so far | read line by line, compare, add up | simulators, Yosys |
| RTEMS driver `sw/rtems_driver` | descriptor rings, interrupt masks, semaphores | open, read, write, interrupt handler | the AMBA variant of the core, which is not in this repository |

What makes each of them correct, and what is hard about it:

* **Link controller.** Credit never exceeds seven FCTs and the six-bit counters never
  wrap without a credit error; a connection starts from clean counters although
  characters of every state are counted; the silence between two connections is long
  enough for the other side to notice; every handshake ends.
* **A pair of links.** Between correct sides there are no credit errors whatever
  resets, errors and disabled links interrupt them; no credit is lost or made; undisturbed
  sides connect again and stay connected.
* **Receive side.** Every character that credit was granted for has a place, although
  the room register is one clock old and the FCT request another one; a packet cut by
  a link error ends with an EEP before anything of the next connection, also when the FIFO
  was full.
* **Transmit side.** After a failure in mid-packet the rest of that packet is discarded,
  to its terminator and no further.
* **Transmitter to receiver.** Tokens arrive as they were accepted, soon, and with no
  false alarm, at two rates and across the change between them; what is acknowledged is what is
  sent; the lines come to rest one after the other; silence is noticed; a wrong bit is
  reported.
* **Two clocks.** Nothing is lost, doubled, torn or late on the way from one clock to the
  other, wherever the edges fall and whatever a flop catches of a changing signal, when the
  link comes and goes as well.
* **Registers.** A write whose address and data come in any order and distance is
  performed once; an event in the clock of its own clearing is not lost; a Time-Code request is
  one pulse.
* **Receive bridge.** No character is lost, repeated or reordered across pauses and
  soft resets.
* **Loopback engine.** Bring-up ends and mirrors what it says; a run counts its own characters only, whatever an
  earlier run left in the FIFOs and on the line; a beat that is offered stays; the benches' assertions hold
  at any pause of host and link.
* **Tools.** A build that says it succeeded left, printed and programmed its own results; a comparison
  that says PASS compared, and compared the values of the same instant; totals count every instance.

## The modules

Each module says at its head what it models; `map` in `PROJECT.json` gives the lines.

| module | models |
|---|---|
| `SpwLink` | `spwlink.v`: one action per link state (`ErrorReset` .. `Run`), `CountCredit` for what every state but ErrorReset does to the counters, `LinkReset` for `rst` |
| `SpwStream` | extends `SpwLink` by the FIFOs and the packet bookkeeping of `spwstream.v` |
| `RxPackets` | abstract: the packet stream that the receive side promises its user |
| `SpwPair` | two instances of `SpwLink` connected through pipes |
| `SpwXmit`, `SpwRecv`, `SpwLine` | `spwxmit.v`; `spwrecv.v`; the two with the lines and `spwrecvfront_generic.v` between them |
| `FlagFifo` | abstract: a queue with the registered flags of the code |
| `StreamFifo` | the ring of memory words, pointers and `spwram.v` |
| `AxisRx` | extends `StreamFifo` by the bridge `spw_axis_rx.v` and the two resets of the AXI top |
| `TwoClocks` | the edges of two clocks, and the synchroniser `syncdff.v` |
| `FastXmit`, `TxDivider` | `spwxmit_fast.v`: tokens from their acceptance to the code that is loaded; the division of the transmit clock |
| `FastFront`, `FrontActivity` | `spwrecvfront_fast.v`: bits from the samples to the receiver; the activity counter |
| `AxiLiteRegs` | `spw_axi_lite_regs.v` |
| `BringUp` | extends `AxiLiteRegs` by the AXI-Lite master of `spw_loopback_axi.v`, clock by clock |
| `EngineMaster` | abstract: the same master, one step per transaction |
| `LoopEngine` | extends `EngineMaster` by self-check, data mover, capture FIFO and registers of the engine, and a core looped back to itself |
| `LoopHost` | extends `LoopEngine` by the programs: every cocotb bench of the two examples and the accesses of the capture demo |
| `BuildFlow` | the `build.py` of the examples and the two commands of the repository's `build.py` that call them, several builds in one tree |
| `WaveCompare`, `SynthTotals` | `scripts/compare_vhdl_verilog_waveforms.py`; the totals of `scripts/synth_resource_compare.py` |
| `*Proofs` | theorems and proofs |
| `MC*` | history variables, scoreboards and values for model checking; `MCParts` and `MCTwoClocks` run several small parts, one per behaviour |

How state and actions correspond to the code: a Verilog `v_x` that is worked out in the
combinational block is an operator, or the primed variable; the registers are the VARIABLES.
A FIFO of `SpwStream` is a sequence; that the ring of `StreamFifo` is one is what
`ImplementsQueue` shows. In `SpwXmit` the shift register and its bit
counter are the sequence of bits still to be sent; in `SpwRecv` a chunk of bits is a fold of
the function of one bit. Numbers of the code are constants: 8, 48, 56 and
2^6 are `FctChars`, `CreditLimit`, `MaxCredit` and `CreditMod`, so that a small `FctChars`
keeps every relation between them; the two timer periods derive from `ResetTime`.
In the modules of the scripts a step is a line of a dump, an output of a tool, or a statement block
between two of them.

**Assume and guarantee.** The link controller is checked alone, against an environment
as free as possible. What it assumes is in two places. `Possible` says what a transmitter can
acknowledge. `LinkInput` says that nothing is decoded before the first NULL and that at most one character
is decoded in a clock; the first holds because the receiver counts bits from the first NULL on (`Sync`), the second for
the generic front end, whose chunk is one bit. `SpwPair` replaces transmitter, lines
and receiver by a pipe that delivers tokens in order; this is what `SpwLine` shows them to be.
Conversely, `SpwLine` lets the two links change their states whenever their timers allow,
which appears as guards (`Starts`, `Goes`, `EnableStep`). `BringUp` is shown to implement `EngineMaster`
(`ImplementsMaster`), and `LoopEngine` builds on that; its core is two queues, the bridge's beat and a link, which is what
`SpwStream` and `AxisRx` show the core to be.

**Two clocks.** A step of `MCTwoClocks` is an edge of the system clock, of the other
clock, or of both at once. The other clock is at least as fast, as the fast front ends demand
(`InPace`); nothing else relates them. When both have an edge, a flop of a synchroniser takes its changing input
as it was or as it becomes (`Synchronised`), a word of several bits may be caught as any mixture of the two (`Mixtures`), and a slot or
register that is read while it is written as the old or the new one. The reset is asynchronous and ends after an edge.

* In `FastXmit` a bit is due in every transmit clock (`BitDue`); the division is `TxDivider`. A slot that was taken, or filled for an earlier
  connection, holds nothing: were it read, a code that is none would be sent, and `SentAsAccepted` would fail.
  The enable signal crosses when the divider is latched next. A connection that has ended stays so for `Rest` system clocks.
* In `FastFront` a bit is known by its place in the stream, modulo what the buffer holds; stage A only
  delays samples and is left out; no more than `RXCHUNK` bits come between two edges of the system clock,
  which is the condition on the rate that the front end states. Its input `rxen` is free in every clock.
* In `FrontActivity` only the counter is looked at, and how bits are found is left out.

Operators marked as *faults* in the modules are mistakes of the kind one makes in this code. No
specification uses them; each property is known to fail when one of them takes the place of the
definition that follows it (`mutants` in `PROJECT.json`).

## What the runs check

Every passing run covers the complete state space of its instance.

| run | module, cfg | bounds | states | checks |
|---|---|---|---|---|
| `link` | `MCSpwLink` | FctChars 2, ResetTime 1, room 0 or 15 | 1,961 | `CreditWithinLimit`, `FreshConnection`, `ExchangeOfSilence`, `HandshakeEnds` |
| `pair` | `MCSpwPair` | FctChars 1, ResetTime 4, Delay 2, RxSize 3, A sends | 53,239 | `NoCreditError`, `CreditConserved`, `Reconnects` |
| `stream_rx` | `MCStream`, `MCStreamRx` | FctChars 2, RxSize 6 | 17,031 | `RoomReserved`, `EntitledCharFits`, `EepBeforeReconnect`, `ImplementsPackets`, `EepDelivered` |
| `stream_tx` | `MCStream`, `MCStreamTx` | TxSize 4 | 13,450 | `PacketsAligned`, `DiscardOnlyRest` |
| `line` | `MCSpwLine` | words of 2 bits, start-up at half the running rate, disconnect after 2 silent clocks, one wrong bit per connection | 371,269 | `ReceivedAsSent`, `ReceivedSoon`, `NoFalseAlarm`, `OneLineChanges`, `SilenceNoticed` |
| `two_clocks` | `MCTwoClocks` | one N-Char, two Time-Codes, long codes of 5 bits, Rest 3; dividers 0, 1, 2, 5, 18, 66; RXCHUNK 1 and 2; Lag 6 | 1,548,743 | `SentAsAccepted`, `RateAsSet`, `BitsAsSampled`, `ActivityShown` |
| `parts` | `MCParts` | ring of 4 words, 2 characters, room cut at 2; 2 builds; 2 signals, 3 times, 4 changes; 3 modules of up to 2 cells | 167,389 | `ImplementsQueue`, `StreamInOrder`, `BeatStays`, `SuccessIsFresh`, `CompareExact`, `TotalsExact` |
| `regs` | `MCAxiLiteRegs` | a bit of a word in each of 2 byte lanes, 5 registers written; any master, or the engine's | 12,412 | `WritesAsJoined`, `EventsOutliveClears`, `OnePulsePerRequest`, `BroughtUp`, `BringUpEnds`, `TimecodesSent`, `ImplementsMaster` |
| `loopback` | `LoopHost` | packets of 2 characters, runs of 2 packets, FIFOs of 4, 3 and 3; 14 programs | 272,365 | `BenchesPass`, `NoFalseErrors`, `BeatHeld`, `ScriptsEnd` |
| `linkdis_pulse`, `overrun_eop`, `bringup_soft_reset` | | | | the three disagreements below |

What each one shows:

* **`link`.** Whatever the receiver decodes, the transmitter acknowledges and
  the FIFO reports, and with a remote that breaks every rule, the counters keep within seven FCTs until a
  credit error is seen. A connection starts with the credit of the one FCT just received, and with what was granted in this
  handshake and not before it (`given` counts those FCTs).
  A link that stopped sending stays silent for three timer periods (6.4 us + 12.8 us), measured by a
  counter beside the model. A handshake ends in Run or ErrorReset.
* **`pair`.** The hazards of two state machines: A in Run while B has
  already forgotten the connection, resets in the middle of the handshake, tokens on the line when
  a side stops, a noise error anywhere, `linkdis` at any clock. *No credit error* means that no FCT or character of one
  connection is counted in the next one. *Reconnects* says that when the
  disturbances end, from whatever state, half-open links included, both sides reach Run and stay there.
* **`stream_rx`, `stream_tx`.** The core with its FIFOs and any user. `ImplementsPackets` is a
  refinement of `RxPackets`: the user's stream is the contents of the FIFO followed by the EEP that is owed.
  For the transmit side, history variables follow the packets on the user's
  side and on the link: they are at the same place in a packet whenever a connection runs and nothing is being discarded.
* **`line`.** From the acceptance of a token to its delivery, bit by bit, while both links
  start and stop as they like. `flight`, the tokens accepted and not yet delivered, never holds more than
  three. With a wrong bit in the connection nothing wrong is delivered before the error is
  reported, a flip in a control flag or in the parity bit included. `SilenceNoticed` bounds the time until a stopped
  transmitter is noticed; one clock less than stated is violated.
* **`two_clocks`.** `SentAsAccepted`: every code that is loaded into the shift register has its reason, an FCT or N-Char that
  was acknowledged and not yet sent, in order, a Time-Code that was asked for, or half of a NULL; and little ever waits. Time-Codes are asked for in any clock: both slots
  may hold one while a third waits, and one that waits for a slot is replaced by the next, as the code does, and never sent.
  `RateAsSet`: the two parts of the divider belong together whenever they are used, and while the divider stays the same bits come
  every `divcnt` + 1 transmit clocks, although every carry and the end of the count are found a clock late. `BitsAsSampled`: the
  bits handed over are those sampled, and no group is written over one that waits, which the code has no flag
  for. `ActivityShown`: activity is shown within six clocks of a bit and no longer than six clocks after the last one.
* **`parts`.** The ring, its prefetching read port and the bridge. Builds in any sequence, of the same and of
  other options, directly or through the repository's `build.py`, with what the shell's environment holds, and tools that fail, are killed or claim success between two outputs.
  Dumps whose units of time, codes, order of lines and ways to write a value differ. Hierarchies in which a module is instantiated
  several times, with names that either file escapes.
* **`regs`.** Any bus master, seen by a scoreboard that knows only handshakes (it also says when the core must be asked for a Time-Code, and for which: `OnePulsePerRequest`); and the engine's
  master with soft resets and Time-Code requests at any time (but see `SoftWhen` below). Mirrors hold what their names say although a soft reset
  leaves answers of reads behind; a requested Time-Code goes out, also one that is requested while an earlier one is taken up or sent (`TimecodesSent`), and each
  clock of the master serves the requests made in it and no others (`ImplementsMaster`).
* **`loopback`.** Each program of the benches with its assertions, and a host of any three writes of CTRL, at
  every pause of host and link. `NoFalseErrors` speaks of characters of an earlier run, which can wait in the transmit
  FIFO, on the line, in the receive FIFO and in the bridge when the next run begins.

## Bounds

The counters have no constants but multiples of
`FctChars`, so 2 keeps every comparison with room between them (and the theorems
cover the value 8). The timer only matters through "one period" and "two periods". In `SpwPair` the handshake timeout must be longer than
the round trip, as 12.8 us is in practice: with `ResetTime` 3 and `Delay` 2 the sides never connect; 4 is the
least that works, and the tightest race. A receive FIFO with `RxSize` 6 has five places, so that two FCTs can be outstanding while a character waits; and `RoomReserved` is proved for
every size, sizes beyond the six-bit room port included. A token in `SpwLine` spans at most nine bits; two-bit words keep every
control code and the ESC prefix, and the alignment pattern of the first NULL at its full nine bits.
A FIFO of 4 words wraps, fills and empties; the room cap of 2 is reached. The one write in progress and the one before it
are all that `AxiLiteRegs` can hold.

`Rest` 3 is the least for which `SentAsAccepted` holds (with 0, 1 and 2 it is violated, the flags of an old connection are still crossing; hence `RestAssumption`);
a link rests for 19.2 us at least, hundreds of clocks. `LongBits` 4 instead of 9 keeps a long code longer than the four bits at which the next code is
prepared. Of the inputs of the fast transmitter (`Heard`) only an FCT or an N-Char that is not acknowledged is left out: it changes nothing and stays offered. The instance has one N-Char and two Time-Codes,
which are interchangeable (`TimesAlike`): two values are what it takes to see an order, and the order of N-Chars, the long and the short ones, is the theorem's (`TokensAreSent`). The dividers are those where the digits of the counter borrow from each other (5, 18, 66) and the short cuts (0, 1, 2); an instance with 3, 16 and 255 as well passed too (654,000 states
of `TxDivider`). `FastFront` also passed with RXCHUNK 3 and 4 (632,000 and 800,000 states). The buffer is at its full size of eight slots; up to seven are occupied.
`ActivityShown` is checked for RXCHUNK 1, and passed for 2; `Lag` 5 is violated. With RXCHUNK 3 and 4 it would not hold: the
counter is not in Gray code and moves up to two steps in a system clock, so that a reader that catches a mixture at every clock without exception sees it stand still. That needs
the two clocks to coincide at every edge, and the disconnect counter of the receiver outlasts anything shorter.

In `LoopEngine` the master makes one transaction per clock (`BringUp` shows that it makes the same ones); the core stops taking characters of a run after `MaxTx`, which a
consumer that pauses for ever could cause as well and which bounds the counters; `FlushIdle` is longer than the
longest silence of a link with characters (`Gap` + 2), as 1023 clocks are against 14 bit times. A link starts only after the master has polled it down, and not
before the host's first write: both are far shorter than the 19.2 us of a link's start. Benches that assert at the next poll what passes quickly
poll promptly (`prompt`). `NoteCounts` saturates counts that one run cannot reach again.

`BuildFlow` is bounded by two builds in a tree (`MaxRuns`), enough for one to meet what the other left; the theorem covers any number. `WaveCompare` has three changes in one dump and one in the other; an
instance with three changes in each (9.1 million states) passed too.

## Fairness

For the hardware only that the clock does not stop (WF of the next-state relation) and, for
`EepDelivered` and `Reconnects`, that the users keep reading and disturbances end. Neither says anything of what the inputs are.
`BringUpEnds` and `TimecodesSent` need the clock only. `ScriptsEnd` needs more, and each of it separately as weak fairness: a host that can go on goes on
(it is a program, its pauses end), a link that can start starts and one that is disturbed
stops (`HandshakeEnds`, `Reconnects`), Time-Codes arrive on a link that runs. Deadlock is checked in every run but `parts`, where programs
come to their end.

## What is proved

TLAPS proves the following for every value of the constants (`FctChars` > 0, `ResetTime` > 0,
any set of rooms; for the pair any delay up to half a timer period; for the stream core `FctChars` > 1 and a receive FIFO larger than one FCT, which the
code's parameter check demands too; for the line words of 2 to 8 bits, any set of words, any two dividers and any disconnect time; for the ring any even size; for the fast transmitter any codes, any long codes of four bits or more, any division of its clock and any `Rest` from 3; for the engine any sizes with `FlushIdle` > `Gap` + 2).

| module | theorem | says |
|---|---|---|
| `SpwLinkProofs` | `LinkTypeCorrect` | the registers keep their types, the six-bit counters their range |
| | `CreditStaysWithinLimit` | no credit above seven FCTs, and no FCT request that would exceed them, until a credit error |
| | `NothingIsLeftOver`, `ConnectionIsFresh` | nothing survives into the next handshake; a connection starts with the credit of one FCT to send and exactly the credit granted in its own handshake |
| | `SilenceIsExchanged` | whichever error or reset stopped the transmitter, it stays off for three timer periods before it sends again |
| `SpwPairProofs` | `NoCreditErrors` | two controllers never see a credit error, whatever resets, errors and disabled links interrupt them |
| | `CreditIsConserved` | what one side granted is what the other may still send plus what is on its way |
| `SpwStreamProofs` | `StreamTypeCorrect` | the FIFOs never exceed their memories |
| | `FlagsAreConservative` | the registered flags err on the safe side |
| | `RoomIsReserved` | credit granted and requested is covered by free places |
| | `EntitledCharsFit` | a character that credit was granted for never meets a full FIFO |
| | `EepComesFirst` | the link does not start while an EEP waits |
| | `AlignedPackets`, `DiscardEndsWithPacket` | sender and link are at the same place in a packet; only the rest of a cut packet is discarded |
| | `PacketsImplemented` | the receive side implements `RxPackets` |
| `SpwLineProofs` | `LineInvariant`, `TokensAsSent` | the receiver is in step with the transmitter; tokens are delivered in order and as they were sent, wherever the transmitter stops and the receiver joins, and with a wrong bit |
| | `TokensSoon` | a token is delivered before the third one after it is accepted |
| | `NoAlarms` | no error is reported on an undisturbed line, at any two rates at which a bit takes no longer than the disconnect time |
| | `StopsAreNoticed` | a stop is noticed within the disconnect time, two bit times and four clocks |
| | `LinesOneByOne` | Data and Strobe never change in the same clock |
| `PartsProofs` | `RingImplementsQueue` | the ring implements `FlagFifo` |
| | `OrderKept`, `ShownBeatStays` | the bridge hands over everything once and in order; a shown beat stays |
| `RegsProofs` | `WritesJoined`, `PulsesOnce`, `EventsSurvive` | writes are joined in order, performed and answered once; a pulse of one clock, with its word, exactly for each write that asks for one; events outlive clears |
| | `MasterImplemented` | the clock-by-clock master implements `EngineMaster` and serves exactly the requests made of it; soft resets come in any clock in which it does not write, or in any clock once the bring-up is done (`SoftWhen`) |
| | `MirrorsAreTrue` | mirrors hold what their register said, and what is brought up is out of its soft reset, under the same soft resets |
| `LoopProofs` | `BeatStaysHeld` | a beat offered to the core is neither withdrawn nor changed |
| | `OwnCharactersOnly`, `SelfCheckCountsNoFalseErrors` | what is on its way in an undisturbed run of the self-check is that run, in order, each character once; so it counts no false error |
| `PartsProofs` | `SuccessFresh` | a build that reports success is fresh, for every set of options and any number of builds |
| `FastXmitProofs` | `TokensAreSent` | every code the fast transmitter sends is half of a NULL or was accepted in this connection and is sent once and in order (Time-Codes: of the requests that got a slot), whenever Time-Codes are asked for and however the edges of the two clocks fall |
| `PartsProofs` | `RateIsAsSet` | the bit clock of the fast transmitter: for every divider bits are due every divcnt + 1 clocks |

*The link.* `LinkInv` is the conjunction of the type invariant, the credit limit and
`NothingLeftOver`; it is inductive, because the limit needs the types (wrap-around) and
`NothingLeftOver` needs that ErrorReset, the only way back, clears everything. `LinkClockInv` proves the
step once for any input and any room, so that the core reuses it unchanged. For `ConnectionIsFresh`, `HandshakeInv` follows the
credit granted through the handshake: none in Started, and `given` in Connecting, where a character that would use it ends the handshake.

*The silence.* `SilenceKept` ties the clocks of silence to the state, the timer and its `timerdone`: at least `ResetTime` less the timer's
rest in ErrorReset, one or two periods more in ErrorWait by `timerdone`, all three from Ready on.

*The pair.* Neither property of the pair is inductive: what one side may receive depends on what is in the pipe, and what is
in the pipe on how long the other side has been silent. `PairInv` has three parts. `NodeInv` is about one side: its counters, and what its
receiver may have heard. `Direction` is about what one side sends: an unbroken stretch that begins with NULLs (`Stretch`, `NullFirst`), preceded
by a silence that is counted in clocks (`Quiet`) and reaches the other side `Delay` clocks later (`Heard`, `Flushed`). `Granted` is the balance of credit:
an equation while nothing went wrong, an inequality after an error, since a token that is cut off or spoiled is counted by its sender only.
`NothingStale` is the heart of it: when the second of the two sides leaves ErrorReset, nothing of the old connection is on its way. The two sides
are symmetric, and the sides are values (`ValueA`, `ValueB`), so that each lemma is proved once; `NodeStep` sums up what a clock does to one.
The proof needs that the way there and back takes no longer than one period of the timer
(`RoundTripAssumption`), and so does the property: with `ResetTime` 5 and `Delay` 3 TLC finds a credit error, a
character of the connection that one side has left being taken for one of the next. The 6.4 us of the code leave room for about
64 bits at the 10 Mbit/s of a link's start, and the way of a token is at most 14 of them, the registers it passes and the cable.

*The core.* `RoomReserved` is not inductive: the request for an FCT was computed from a
room register that is a clock old. `StreamInv` adds what ties the stale values to the FIFO:
`RoomIsThere` (the registered room is never larger than the real one), `RoomKept` (credit granted plus an FCT requested is covered by the
registered room), `FullIsRecent` (when full is up, the registered room
is zero), `CutIsNoticed` (a cut packet is turned into a waiting EEP in the first clock of
ErrorReset) and `EepWaits` (while an EEP waits the link neither starts nor asks for an FCT).
Lemmas about one operation (`RxFilledOK`, `RxFlagsOK`, `AtMostOK`, `RxFifoOK`, `TxFifoOK`, ...) are cited by the
steps for `StreamClock` and `StreamReset`.

*The line.* A receiver and a transmitter are some bits apart, the bits in the flops and in the stages of the front end, and what a receiver knows
cannot be compared with what the transmitter has sent until they have arrived. So the proof takes the receiver together with what is on its way to it, the tokens
of `flight` and the five stages (`Pipe`), and lets a copy of it take those bits at once (`Pass`, `At1` .. `At5`). At the end of the pipe the
copy is *in step* (`InStep`): at the parity bit between two tokens, in an ESC, behind it or in the contents of the very token the
transmitter is sending, or in the stream of NULLs before its first one is recognised. A bit sent keeps it in step
(`SendShift`, `SendBegin`), and the steps of the line move bits along the pipe without changing where its end is (`AlongShifts`).
`Carried` has one part for each situation. `SendsInv`: the transmitter sends (`Follows`). `EndsInv`: it has stopped, and the one or two changes with which
the lines come to rest complete at most a token that was on its way (`Harmless`). `HeardInv`: during the first NULLs a receiver may be switched on in any clock, and hears the rest of the pipe (`Deaf`),
since the pattern of the first NULL is at one place of the stream only (`OnlyFirst`). `WrongInv`: after a wrong bit the receiver is the `Twin` of one that got it right, equal to it but for the parity, and the parity bit of this
token reports the error before anything is delivered. `ReceivedSoon` follows by counting the tokens that fit in the pipe (`Room`).
The alarms are a matter of time: the stages are numbered by the clocks until their bit arrives, which makes the next bit to be sent one more place (`NextSent`);
`GapsInv` keeps each two of them within the disconnect time and `DueInv` keeps one within what the receiver still counts. It needs that a bit takes no longer than the disconnect time (`RatesSuffice`):
`TXDIVCNT` lets a user choose a slower rate, and then the other side does see a disconnection after every bit. `WithinInv` is the same in the other direction: in the
clocks that are left of `LongestSilence` everything still on its way has arrived and the disconnect time has passed.

*Packets.* `TxInv` relates the flags of the core to the packet on the user's and on the link's side: an open packet is sent, discarded, or was kept by
`linkdis`, and only one of these. `RxInv` adds to `StreamInv` that in Run the credit is within the registered room
(`RunRoom`, under `CreditHonest`: the other side respects its credit) and that an EEP waits only when no packet is open; with it
every step of the core is a step of `RxPackets` or leaves it unchanged.

*The ring.* `FifoInv`: what is announced is in the memory's output register and the ring is full when its flag says so. The lemmas count around
the ring (`Modulo`, `ContentsOK`, `MemoryOK`). `AxisInv` adds `DueOK`: what is due to the consumer is the beat that is shown, then the contents of the ring.

*The registers.* `RegsInv` says that what is held is what was accepted and not joined (`HeldAsJoined`), that one response is owed exactly while it is
offered, and that a pulse comes with the response of its write and is what the scoreboard asks for. It is proved for any bus input that is well formed; the engine's is.

*The engine.* `EngineInv`: an access and how far it is fit together (`AccessOK`), which makes each clock a stutter or the end of
a transaction. `MirrorInv` follows both channels clock by clock. A soft reset can leave a question standing (`Standing`): it is asked and answered over and over while
the bring-up writes, an answer in every other clock, and none is left when `CORE_ID` is asked only because the ten clocks until then are an even number (`OddClock`). Or it leaves one answer (`Late`), or
finds the master writing (`Astray`), after which the bring-up waits for ever but mirrors nothing wrong. `BeatInv`: between runs nothing is offered, and a data beat is the one the PRBS stands at (`OfferOK`).

*The self-check.* `NoFalseErrors` is about a counter at the end of a long way, and `LoopInv` follows that way. `RunOK` is its heart: in a run that nothing disturbed, the FIFOs, the line and
the bridge (`pipe`) hold a `Chain` of characters that leads from the place of the checker to the place of the sender, `txCount` less `rxCount` of them. A clock takes one off its beginning,
adds one at its end, or moves it along (`ChainTail`, `ChainAppend`, `PipeStep`). A run begins when a flush has seen nothing for `FlushIdle` clocks, and the chain begins empty because of `FlushOK`: while
anything is left, the clocks of silence are no more than the link has been pausing (`gap`), and one or two more when the receive FIFO has it; a link that is down is seen down by the next `STATUS` but one (`MasterOK`), which ends the flush. This is where
`FlushIdle` > `Gap` + 2 is needed. Injected errors cut packets, and the transmitter drops the rest: `DiscardOK` says that it does so only in the run that was disturbed or until the core is reset, `CleanOK` that
where a program injects an error either a run is on or nothing is on its way. Both rest on what the 14 programs write where (`HostOK`, `Careful`, `Harmless`), which is checked operation by operation (`ScriptFacts`).
TLC checked all of `LoopInv` on the instance of `loopback`, the chain as a computed walk, before it was proved.

*The bit clock.* `Unsafe` follows the flag `txdivsafe` through its synchroniser: both flops see it down before the register is loaded again, so that the
transmit clock copies a divider with its own half (`Halves`). `Left` is what the counter stands for when a carry that is still to be taken counts
against it: it falls by one in every clock (`CountsDown`) and its end is found when two are left (`EndsAtTwo`), a clock before the bit is due. `InStep` states the count for dividers from 2 (`Counted`)
and the alternation of `txclkpre` for 1 and 0; one or two bits that were under way when the divider changed are not yet in step.

*The fast transmitter.* `SentAsAccepted` looks at both ends of the way of a token: what was acknowledged, and the code that is loaded at last. `FastInv` follows what lies between
them. What is due is in stage B, in the two slots in the order in which they are taken, or waits for a slot (`DueOK`); every step sends at most the head of this
queue and adds at most one code at its end, also when the two clocks have their edges at once and one fills a slot while the other empties the other one (`QueueMoves`). Whose turn it is with a slot is told by two flags, and neither side
sees them directly: `FlagsOK` says that what the flops show of the other side's flag may be old, but then errs on the safe side, and that a flag is not flipped again before the other
side has seen the flip. So a slot is filled only when both flops know it empty (`FillFacts`) and taken only when both know it filled (`TakeFacts`). `PipeOK` keeps stages B to E in step:
`c_busy` and whether stage C has been passed on say which of the two codes of a NULL, of a Time-Code or of an FCT with an N-Char comes next (`half`), and each of the six cases is one that the property allows (`SendKinds`). `FctFirst`:
wherever an N-Char is, an FCT was sent or is ahead of it. A reset of either kind clears the system clock's side at once and the transmit clock's side later, through flops that show the flags being flipped back.
Hence the four parts `Working`, `Resting`, `Resetting` and `Starting`: while the transmitter rests the flops fall one after the other (`Falling`), and when it starts again all are down and the
transmit side is clear, or will be with its first edge (`TxClear`), before the enable signal has crossed. This takes three system clocks (`RestAssumption`); `SilenceIsExchanged` gives twice as many at least.

*The builds.* `SuccessIsFresh` speaks of finished builds. `BuildInv` follows the one that runs: what was removed before the tool started
is absent or of this build (`ToolInv`), because a name tells all options apart.

*Only model-checked:* liveness (the prover has no rule for fairness or ENABLED here; `Reconnects` is one), `BitsAsSampled` and `ActivityShown`, `BenchesPass`, `CompareExact` and `TotalsExact`. What a fold computes for every
length would need induction with an operator as a parameter, which the installed provers cannot instantiate. No module declares a RECURSIVE operator.

## Where code and documentation disagree

Three runs check what a comment, the manual or the README says and find it violated (`findings`).

1. **`linkdis_pulse`** (`spwstream.v:495-500`). The comment in `spwstream.vhd:487` and the manual say that nothing is discarded
   when the link is shut down through `linkdis`. `linkdis` clears `txdiscard` while it is high, but the link leaves Run
   one clock later and then sets the flag again; after a pulse of one clock it stays set.
2. **`overrun_eop`** (`spwstream.v:448-460`). When a credit-violating remote has filled the receive FIFO and the
   character that does not fit is a terminator, `rxpacket` is cleared although the terminator is lost. No EEP
   is inserted, and the packet runs into the next connection's first one.
3. **`bringup_soft_reset`** (`spw_loopback_axi.v:444-449`). A soft reset overrides the state of the AXI-Lite master only. In a clock in which
   the master writes, the response of that write stays untaken, and the bring-up waits for ever. The passing run
   `regs` therefore lets soft resets come while the master does not write (`SoftWhen` = "reading"), which is where it spends nearly all its time.

Read in the code and without a run of their own:

* `README.md:103` says that the soft reset reaches the AXI-Stream bridges; the receive bridge is reset by the bus reset only,
  on purpose (comment at `spw_axi_top.v:199-201`; `BeatStays` depends on it).
* The capture FIFO drops a beat that comes while it is full (`spw_loopback_axi.v:692`): `rready` is registered, so one
  beat can be taken after the last place is gone. The comments at `:199` and `:670` say that it back-pressures.
* A host beat written while the one before it is being accepted is lost (`:665-668`, the pending flag is cleared over the push).
* Clearing LOOP while the last packet of a run goes out lets the run go on past its end (equality tests at `:590`, `:624`).
* `compare_vhdl_verilog_waveforms.py`: a signal that differs before the window opens and never changes later is not compared; an empty window is a PASS; "b0x" and "bx" are
  the same value; of two wanted signals with one code the first is lost; an unknown unit of time ends in a NameError (`:101`) and not in the
  message meant. `CompareExact` states what the comparison does. `compare_vhdl_verilog_traces.py` finds two empty traces equal.

Noticed, and not counted as disagreements: with `linkdis` held in Started or Connecting the link still
enters Run for a clock before it resets; the credit-error output is not gated by the Run state; a wrong bit just
as the transmitter stops can be masked by the lines' return to zero (`ReceivedAsSent` leaves this case out);
the flag of the token after the first NULL is not covered by a parity check; a mirrored Time-Code may be one that an earlier run sent
(the bench says so, `spw_loopback_cocotb.py:434-436`); the first pair of samples after the fast front end is enabled has
no predecessor and may be found to hold a bit too many or too few, which the alignment to the first NULL absorbs.

## What is not modelled

* In `spwxmit_fast.v` the shift register with its parity and the Data/Strobe output: they are those of `spwxmit.v`, behind the point that `SentAsAccepted` looks at.
* `last_time` and the strict Time-Code filter (off by default); how Time-Codes are paired with `ctrl` bits.
* `spw_axis_tx.v` has no state. In `spw_axi_top.v` only the two resets are modelled, the rest is wiring.
* The status levels that the registers pass through, `CORE_ID`, `VERSION`, and the interrupt output, an OR of them.
* Different clock frequencies of two cores: both nodes of `SpwPair` share a clock, and the lines of `SpwLine` are sampled by
  the transmitter's clock. Metastability beyond the choice of the old or the new value.
* `streamtest.v`, a stimulus for tests; the self-check of the loopback engine does the same job and is modelled.
* Of the examples: the VHDL engine, clocking, pins and vendor bridges of the boards, the JTAG transports, the evaluation of captured samples in
  `ela_capture_demo.py`, SCRATCH and the identification registers, checks that are timed in nanoseconds.
* Of the builds: the lint and test commands of `build.py`, the log directory, and a vendor tool that outlives a killed script and writes into the next build.
* `lint_hdl.py`, `compare_vhdl_verilog_traces.py`, `check_spwlink_parity_manifest.py`, `timing_diagram.py`, the constraints: straight-line scripts and
  data, without state between steps.
* The RTEMS driver: its hardware, the AMBA variant of the core, is not in the repository, so the order of its accesses to the descriptor rings cannot be taken from code.
* The VHDL twins, which the repository compares with the Verilog; the benches of the core.

## What is left

A proof that the occupancy of the eight slots of the fast front end stays below eight (`BitsAsSampled`; its constants have four values, which the runs
cover). An abstract token stream that both `SpwXmit` and `FastXmit`
implement. The composition of `FastXmit`, `FastFront` and `SpwRecv` on one line, for which three independent clocks are
beyond what the present instances leave room for. A proof of `BenchesPass`, program by program, from `LoopInv`.
