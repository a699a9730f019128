---------------------------- MODULE AxiLiteRegs ----------------------------
(***************************************************************************)
(* The AXI4-Lite registers (spw_axi_lite_regs): the write and the read     *)
(* channel, the control bits, the Time-Code latches and the sticky errors. *)
(*                                                                         *)
(* One step is one clock edge.  Of a 32-bit word only what the registers   *)
(* tell apart is kept: the bits of Low, in the lowest byte lane, and bit   *)
(* 31, in the highest.  The FIFO and link levels that STATUS, IRQ_STATUS   *)
(* and irq pass through are left out (STATUS shows nothing else in Low).   *)
(*                                                                         *)
(* An offer on a channel, and what is held of it, is a sequence of at most *)
(* one element: empty when the channel's VALID is low.                     *)
(***************************************************************************)
EXTENDS Naturals, Sequences

CONSTANTS
  Low,       \* bits of the lowest byte lane
  Written,   \* the registers that the bus master writes
  Read,      \* and reads
  Errors,    \* the errors that the core reports, as bit numbers
  Times      \* the Time-Codes that it receives

Register == {"CONTROL", "STATUS", "TXDIVCNT", "TIMECODE_TX", "TIMECODE_RX", "ERROR",
             "IRQ_ENABLE", "IRQ_STATUS", "CORE_ID", "unmapped"}

ASSUME LowAssumption == Low \subseteq 0..3
ASSUME BusAssumption  == Written \subseteq Register /\ Read \subseteq Register
ASSUME CoreAssumption == Errors \subseteq Low /\ Times \subseteq SUBSET Low

Word == [low : SUBSET Low, top : BOOLEAN]
Strb == [low : BOOLEAN, top : BOOLEAN]      \* WSTRB[0] and WSTRB[3]
Zero == [low |-> {}, top |-> FALSE]

Offers(S) == {<<>>} \cup {<<x>> : x \in S}

VARIABLES
  awHeld,     \* address of a write whose data has not come
  wHeld,      \* data of a write whose address has not come
  bvalid,     \* a write response is offered
  rvalid,     \* read data is offered
  rdata,
  control,    \* CONTROL
  txdivcnt,   \* TXDIVCNT
  irqEnable,  \* IRQ_ENABLE
  tickPulse,  \* tick_in of the core, and the Time-Code it sends
  tickWord,
  rxTick,     \* a received Time-Code is latched, and which
  rxWord,
  error,      \* the sticky errors, as bit numbers
  errors,     \* inputs of this clock period: the errors that the core reports,
  tick        \* the Time-Code that it receives, if any

regVars  == <<control, txdivcnt, irqEnable, tickPulse, tickWord, rxTick, rxWord, error>>
regsVars == <<awHeld, wHeld, bvalid, rvalid, rdata, regVars, errors, tick>>

awready == awHeld = <<>> /\ ~bvalid
wready  == wHeld = <<>> /\ ~bvalid
arready == ~rvalid

(***************************************************************************)
(* What the bus master drives in one clock period: it may keep an offer up *)
(* that is not taken, or make the next one before the last is answered.    *)
(* A ready with nothing to take changes nothing and is left out, and a     *)
(* byte lane that is not strobed carries zeros.                            *)
(***************************************************************************)
WriteData ==
  {w \in [data : Word, strb : Strb] : /\ w.data.low # {} => w.strb.low
                                      /\ w.data.top => w.strb.top}

BusInput ==
  [aw : Offers(Written), w : Offers(WriteData), ar : Offers(Read),
   bready : IF bvalid THEN BOOLEAN ELSE {FALSE},
   rready : IF rvalid THEN BOOLEAN ELSE {FALSE}]

(* Address and data of the write at hand: held, or offered just now. *)
awNow(in) == IF awready THEN in.aw ELSE awHeld

(* Fault: data that is on the bus goes before data that is held. *)
LiveData(in) == IF in.w # <<>> THEN in.w ELSE wHeld

wNow(in) == IF wready THEN in.w ELSE wHeld

write_fire(in) == ~bvalid /\ awNow(in) # <<>> /\ wNow(in) # <<>>

WriteChannel(in) ==
  /\ awHeld' = IF write_fire(in) THEN <<>> ELSE awNow(in)
  /\ wHeld' = IF write_fire(in) THEN <<>> ELSE wNow(in)
  /\ bvalid' = (write_fire(in) \/ (bvalid /\ ~in.bready))

(***************************************************************************)
(* The registers.  writes(in, reg) says that reg is written in this clock, *)
(* with which data and strobes.                                            *)
(***************************************************************************)
writes(in, reg) == write_fire(in) /\ awNow(in)[1] = reg
data(in) == wNow(in)[1].data
strb(in) == wNow(in)[1].strb

low(in, reg) == writes(in, reg) /\ strb(in).low
top(in, reg) == writes(in, reg) /\ strb(in).top

apply_wstrb(in, old) ==
  [low |-> IF strb(in).low THEN data(in).low ELSE old.low,
   top |-> IF strb(in).top THEN data(in).top ELSE old.top]

Divider(in) == txdivcnt' = IF low(in, "TXDIVCNT") THEN data(in).low ELSE txdivcnt

Plain(in) ==
  /\ control' = IF writes(in, "CONTROL") THEN apply_wstrb(in, control) ELSE control
  /\ Divider(in)
  /\ irqEnable' = IF writes(in, "IRQ_ENABLE") THEN apply_wstrb(in, irqEnable) ELSE irqEnable

(* Fault: the pulse lasts until the master takes the response. *)
PulseUntilAnswered(in) ==
  /\ tickPulse' = ((top(in, "TIMECODE_TX") /\ data(in).top) \/ (tickPulse /\ ~in.bready))
  /\ tickWord' = IF low(in, "TIMECODE_TX") THEN data(in).low ELSE tickWord

(* A request to send a Time-Code is a pulse of one clock. *)
SendTick(in) ==
  /\ tickPulse' = (top(in, "TIMECODE_TX") /\ data(in).top)
  /\ tickWord' = IF low(in, "TIMECODE_TX") THEN data(in).low ELSE tickWord

clearsTick(in) ==
  \/ top(in, "TIMECODE_RX") /\ data(in).top
  \/ low(in, "IRQ_STATUS") /\ 1 \in data(in).low

(* Fault: the clear wins over a Time-Code that arrives with it. *)
ClearWins(in) ==
  /\ rxTick' = (~clearsTick(in) /\ (rxTick \/ tick # <<>>))
  /\ rxWord' = IF tick # <<>> THEN tick[1] ELSE rxWord

LatchTick(in) ==
  /\ rxTick' = (tick # <<>> \/ (rxTick /\ ~clearsTick(in)))
  /\ rxWord' = IF tick # <<>> THEN tick[1] ELSE rxWord

cleared(in) ==
  (IF low(in, "ERROR") THEN data(in).low ELSE {})
    \cup (IF low(in, "IRQ_STATUS") /\ 0 \in data(in).low THEN Low ELSE {})

LatchErrors(in) == error' = (error \ cleared(in)) \cup errors

(***************************************************************************)
(* The read channel.                                                       *)
(***************************************************************************)
value(reg) ==
  CASE reg = "CONTROL"     -> control
    [] reg = "TXDIVCNT"    -> [low |-> txdivcnt, top |-> FALSE]
    [] reg = "TIMECODE_RX" -> [low |-> rxWord, top |-> rxTick]
    [] reg = "ERROR"       -> [low |-> error, top |-> FALSE]
    [] reg = "IRQ_ENABLE"  -> irqEnable
    [] reg = "IRQ_STATUS"  ->
         [low |-> {b \in Low : (b = 0 /\ error # {}) \/ (b = 1 /\ rxTick)}, top |-> FALSE]
    [] OTHER               -> Zero

ReadChannel(in) ==
  /\ rvalid' = ((arready /\ in.ar # <<>>) \/ (rvalid /\ ~in.rready))
  /\ rdata' = IF arready /\ in.ar # <<>> THEN value(in.ar[1]) ELSE rdata

RegsClock(in) ==
  /\ WriteChannel(in)
  /\ Plain(in)
  /\ SendTick(in)
  /\ LatchTick(in)
  /\ LatchErrors(in)
  /\ ReadChannel(in)

RegsReset ==
  /\ awHeld' = <<>> /\ wHeld' = <<>> /\ bvalid' = FALSE
  /\ rvalid' = FALSE /\ rdata' = Zero
  /\ control' = Zero /\ txdivcnt' = {} /\ irqEnable' = Zero
  /\ tickPulse' = FALSE /\ tickWord' = {}
  /\ rxTick' = FALSE /\ rxWord' = {} /\ error' = {}

CoreInput == errors' \in SUBSET Errors /\ tick' \in Offers(Times)

RegsInit ==
  /\ awHeld = <<>> /\ wHeld = <<>> /\ bvalid = FALSE
  /\ rvalid = FALSE /\ rdata = Zero
  /\ control = Zero /\ txdivcnt = {} /\ irqEnable = Zero
  /\ tickPulse = FALSE /\ tickWord = {}
  /\ rxTick = FALSE /\ rxWord = {} /\ error = {}
  /\ errors = {} /\ tick = <<>>

RegsNext ==
  /\ CoreInput
  /\ RegsReset \/ \E in \in BusInput : RegsClock(in)

RegsSpec == RegsInit /\ [][RegsNext]_regsVars

(***************************************************************************)
(* An event that comes in the very clock in which software clears its kind *)
(* stays latched, and nothing but a completed write or a reset takes back  *)
(* what is latched (README, ERROR and TIMECODE_RX).                        *)
(***************************************************************************)
EventsOutliveClears ==
  [][\/ RegsReset
     \/ /\ errors \subseteq error'
        /\ tick # <<>> => rxTick' /\ rxWord' = tick[1]
        /\ ~(error \subseteq error') \/ (rxTick /\ ~rxTick') => ~bvalid /\ bvalid']_regsVars
=============================================================================
