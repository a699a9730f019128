----------------------------- MODULE LoopEngine -----------------------------
(***************************************************************************)
(* The loopback engine (spw_loopback_axi) with the SpaceWire core looped   *)
(* back to itself: the self-check and the host data mover, the capture     *)
(* FIFO, and the master of EngineMaster, one transaction to a clock.       *)
(*                                                                         *)
(* One step is one clock edge.  A character is a number: the self-check    *)
(* sends 0 .. Period-1 over and over (its PRBS), Eop and Eep end packets.  *)
(* The core is its two FIFOs, the beat that its receive bridge shows, and  *)
(* a link that moves a character at least every Gap clocks while it runs.  *)
(***************************************************************************)
EXTENDS EngineMaster, Integers, Sequences

CONSTANTS
  LEN,        \* characters of a packet (SELFTEST_LEN)
  PKTS,       \* packets of a run (SELFTEST_PKTS)
  Period,     \* of the PRBS
  FlushIdle,  \* clocks of silence that end a flush (FLUSH_IDLE)
  Gap,        \* clocks between two characters on the link, at most
  TxCap, RxCap, CaptureCap,   \* the FIFOs
  MaxTx       \* bound: the core takes no more characters of one run

ASSUME EngineAssumption ==
  /\ LEN \in Nat \ {0} /\ PKTS \in Nat \ {0} /\ Period \in Nat \ {0}
  /\ Gap \in Nat /\ FlushIdle \in Nat /\ FlushIdle > Gap + 2
  /\ TxCap \in Nat \ {0} /\ RxCap \in Nat /\ RxCap > 1 /\ CaptureCap \in Nat \ {0}
  /\ MaxTx \in Nat

Eop == -1
Eep == -2
Ends(c) == c \in {Eop, Eep}

VARIABLES
  regs,      \* what the host has written: CTRL, ERRINJ, TXDATA, TIMECODE and their pulses
  st,        \* registers of the self-check and of the data mover
  capture,   \* the capture FIFO
  pop,       \* it is popped in this clock (rxfifo_pop)
  tcMirror,  \* TIMECODE_RX as the master read it last (spw_tc_rx_r)
  pollErr,   \* the error bits of the mirrored STATUS
  coreRst,   \* CONTROL[0] of the core
  linkUp,    \* the link runs
  sticky,    \* an error of the link is latched in the core
  txq, rxq,  \* the FIFOs of the core
  shown,     \* the beat that the receive bridge shows, if any
  gap,       \* clocks since the last character moved
  open,      \* the last character that moved was inside a packet
  discard,   \* the transmitter discards the rest of a cut packet
  tcAir,     \* a Time-Code is on its way
  tcLatch,   \* the last one received, until it is cleared
  faulted    \* history: the link was disturbed since the run began

engineVars == <<masterVars, regs, st, capture, pop, tcMirror, pollErr>>
coreVars   == <<coreRst, linkUp, sticky, txq, rxq, shown, gap, open, discard, tcAir, tcLatch>>
loopVars   == <<engineVars, coreVars, faulted>>

tready == ~coreRst /\ Len(txq) < TxCap /\ ~(st.tstate \in {"DATA", "EOP"} /\ st.txCount >= MaxTx)

takeTx == st.tvalid /\ tready
takeRx == shown # <<>> /\ st.rready
up     == bringup /\ run

next(prbs) == (prbs + 1) % Period

(***************************************************************************)
(* The self-check.  Each operator takes the registers as they are to be    *)
(* and gives them with what its part of the block assigns; all of them     *)
(* read the registers as they are (st).                                    *)
(***************************************************************************)
Started(s) ==
  [s EXCEPT !.tstate = "FLUSH", !.txIdx = 0, !.expIdx = 0, !.txPkt = 0, !.rxPkt = 0,
            !.txPrbs = 0, !.rxPrbs = 0, !.errCount = 0, !.txCount = 0, !.rxCount = 0,
            !.busy = TRUE, !.done = FALSE, !.pass = FALSE, !.checking = FALSE, !.flush = 0]

(* Fault: the beat of an aborted run is withdrawn. *)
WithdrawBeat(s) ==
  LET quiet == [s EXCEPT !.tvalid = FALSE]
  IN IF up /\ (regs.start \/ ~st.done) THEN Started(quiet) ELSE quiet

InIdle(s) ==
  IF st.tvalid /\ ~tready THEN s
  ELSE LET quiet == [s EXCEPT !.tvalid = FALSE]
       IN IF up /\ (regs.start \/ ~st.done) THEN Started(quiet) ELSE quiet

(* Fault: a character that comes in does not start the wait over. *)
FlushByTime(s) ==
  IF ~up THEN [s EXCEPT !.tvalid = FALSE, !.tstate = "IDLE"]
  ELSE IF st.flush = FlushIdle - 1
       THEN [s EXCEPT !.tvalid = FALSE, !.checking = TRUE, !.tstate = "DATA"]
       ELSE [s EXCEPT !.tvalid = FALSE, !.flush = @ + 1]

InFlush(s) ==
  IF ~up THEN [s EXCEPT !.tvalid = FALSE, !.tstate = "IDLE"]
  ELSE IF shown # <<>> THEN [s EXCEPT !.tvalid = FALSE, !.flush = 0]
  ELSE IF st.flush = FlushIdle - 1
       THEN [s EXCEPT !.tvalid = FALSE, !.checking = TRUE, !.tstate = "DATA"]
       ELSE [s EXCEPT !.tvalid = FALSE, !.flush = @ + 1]

InData(s) ==
  LET shows == [s EXCEPT !.tvalid = TRUE, !.tbeat = st.txPrbs]
      sent  == [shows EXCEPT !.txCount = @ + 1, !.txPrbs = next(@)]
  IN IF ~takeTx THEN shows
     ELSE IF st.txIdx = LEN - 1 THEN [sent EXCEPT !.tbeat = Eop, !.tstate = "EOP"]
                                ELSE [sent EXCEPT !.tbeat = next(st.txPrbs), !.txIdx = @ + 1]

InEop(s) ==
  LET sent == [s EXCEPT !.txCount = @ + 1]
  IN IF ~takeTx THEN s
     ELSE IF ~regs.loop /\ st.txPkt = PKTS - 1
          THEN [sent EXCEPT !.tvalid = FALSE, !.tstate = "DONE"]
          ELSE [sent EXCEPT !.txPkt = @ + 1, !.txIdx = 0, !.tbeat = st.txPrbs, !.tstate = "DATA"]

Transmitted(s) ==
  CASE st.tstate = "IDLE"  -> InIdle(s)
    [] st.tstate = "FLUSH" -> InFlush(s)
    [] st.tstate = "DATA"  -> InData(s)
    [] st.tstate = "EOP"   -> InEop(s)
    [] st.tstate = "DONE"  -> [s EXCEPT !.tvalid = FALSE]

wellEnded(c) == c = Eop /\ st.expIdx = LEN

CheckedEnd(s, c) ==
  LET good == wellEnded(c)
      counted == [s EXCEPT !.errCount = IF good THEN @ ELSE st.errCount + 1,
                           !.expIdx = 0, !.rxPkt = st.rxPkt + 1]
  IN IF ~regs.loop /\ st.rxPkt = PKTS - 1
     THEN [counted EXCEPT !.checking = FALSE, !.busy = FALSE, !.done = TRUE,
                          !.pass = (st.errCount = 0 /\ good)]
     ELSE counted

CheckedData(s, c) ==
  [s EXCEPT !.errCount = IF c = st.rxPrbs THEN @ ELSE st.errCount + 1,
            !.rxPrbs = next(st.rxPrbs), !.expIdx = st.expIdx + 1]

Checked(s) ==
  IF ~st.checking \/ ~takeRx THEN s
  ELSE LET c == shown[1]
           got == [s EXCEPT !.rxCount = st.rxCount + 1]
       IN IF Ends(c) THEN CheckedEnd(got, c) ELSE CheckedData(got, c)

(* Fault: a start leaves the result of the run before it. *)
StartKeepsResult(s) ==
  IF regs.start \/ regs.soft THEN [s EXCEPT !.tstate = "IDLE", !.checking = FALSE] ELSE s

(* START and soft reset abort the run; START also forgets the last result. *)
Aborted(s) ==
  IF ~(regs.start \/ regs.soft) THEN s
  ELSE [s EXCEPT !.tstate = "IDLE", !.checking = FALSE, !.done = IF regs.start THEN FALSE ELSE @]

SelfCheck == Aborted(Checked(Transmitted([st EXCEPT !.rxPush = FALSE, !.dmPending = FALSE,
                                                    !.rready = TRUE])))

(***************************************************************************)
(* The host data mover.                                                    *)
(***************************************************************************)
Presented(s) ==
  IF st.dmPending /\ ~st.tvalid THEN [s EXCEPT !.tbeat = regs.dmBeat, !.tvalid = TRUE]
  ELSE IF takeTx THEN [s EXCEPT !.tvalid = FALSE, !.txCount = @ + 1, !.dmPending = FALSE]
  ELSE s

Captured(s) ==
  IF takeRx THEN [s EXCEPT !.rxPush = TRUE, !.rxWord = shown[1], !.rxCount = @ + 1] ELSE s

Pushed(s) == IF regs.dmPush THEN [s EXCEPT !.dmPending = TRUE] ELSE s

DataMover ==
  Pushed(Captured(Presented([st EXCEPT !.rxPush = FALSE, !.busy = FALSE, !.tstate = "IDLE",
                                       !.checking = FALSE,
                                       !.rready = Len(capture) < CaptureCap])))

CaptureClock ==
  LET popped == IF pop /\ capture # <<>> THEN Tail(capture) ELSE capture
  IN capture' = IF st.rxPush /\ Len(capture) < CaptureCap THEN Append(popped, st.rxWord) ELSE popped

(***************************************************************************)
(* The core and its link.                                                  *)
(***************************************************************************)
reading == rxq # <<>> /\ (shown = <<>> \/ takeRx)

unread == IF reading THEN Tail(rxq) ELSE rxq

offered == IF takeTx THEN Append(txq, st.tbeat) ELSE txq

Bridge == shown' = IF reading THEN <<Head(rxq)>> ELSE IF takeRx THEN <<>> ELSE shown

(* The core in its soft reset: the bridge alone keeps its beat. *)
CoreReset ==
  /\ coreRst
  /\ txq' = <<>> /\ rxq' = <<>>
  /\ linkUp' = FALSE /\ open' = FALSE /\ discard' = FALSE /\ gap' = 0 /\ tcAir' = <<>>

(* A character crosses the link. *)
Move ==
  /\ linkUp /\ ~discard /\ txq # <<>> /\ Len(unread) < RxCap
  /\ txq' = Tail(offered) /\ rxq' = Append(unread, Head(txq))
  /\ open' = ~Ends(Head(txq)) /\ gap' = 0
  /\ UNCHANGED <<linkUp, discard>>

(* The transmitter drops the rest of a packet that was cut. *)
Drop ==
  /\ discard /\ txq # <<>>
  /\ txq' = Tail(offered) /\ discard' = ~Ends(Head(txq))
  /\ rxq' = unread /\ gap' = 0
  /\ UNCHANGED <<linkUp, open>>

(* Nothing crosses: there is nothing, no room, no link, or not yet. *)
Wait ==
  /\ txq = <<>> \/ (~discard /\ (~linkUp \/ Len(unread) >= RxCap \/ gap < Gap))
  /\ txq' = offered /\ rxq' = unread
  /\ gap' = IF linkUp /\ txq # <<>> /\ Len(unread) < RxCap THEN gap + 1 ELSE 0
  /\ UNCHANGED <<open, discard>>

(***************************************************************************)
(* A link takes far longer to start than the master to poll STATUS, so     *)
(* that the master has seen it down.                                       *)
(***************************************************************************)
Connect ==
  /\ ~linkUp /\ ~regs.inj /\ bringup /\ ~run
  /\ linkUp' = TRUE
  /\ Wait

(* The injected error ends the link: the packet on the line is cut. *)
Cut ==
  /\ linkUp /\ regs.inj
  /\ linkUp' = FALSE
  /\ txq' = offered /\ rxq' = IF open THEN Append(unread, Eep) ELSE unread
  /\ discard' = open /\ open' = FALSE /\ gap' = 0

Idle == Wait /\ UNCHANGED linkUp

TimecodeArrives == linkUp /\ ~coreRst /\ tcAir # <<>>

cut == linkUp /\ ~linkUp' /\ regs.inj

(* The registers of the core: what the transaction at hand does to them. *)
CoreRegisters(arrives) ==
  /\ coreRst' = (phase = "CRST" \/ (coreRst /\ phase # "CTRL"))
  /\ sticky' = (cut \/ (sticky /\ phase # "CLR"))
  /\ tcLatch' = IF arrives THEN tcAir ELSE IF phase = "TC_CLR" THEN <<>> ELSE tcLatch
  /\ faulted' = (cut \/ (faulted /\ ~(st.tstate = "IDLE" /\ st'.tstate = "FLUSH")))

Timecodes(arrives) ==
  /\ arrives => TimecodeArrives
  /\ ~coreRst => tcAir' = IF phase = "TC_TX" /\ linkUp THEN <<regs.tc>>
                          ELSE IF arrives \/ ~linkUp THEN <<>> ELSE tcAir

CoreClock ==
  /\ CoreReset \/ (~coreRst /\ (Move \/ Drop \/ Idle \/ Connect \/ Cut))
  /\ \E arrives \in BOOLEAN : Timecodes(arrives) /\ CoreRegisters(arrives)
  /\ Bridge

(***************************************************************************)
(* One clock of the engine and of the core.                                *)
(***************************************************************************)
EngineClock ==
  /\ MasterClock(TRUE, linkUp, regs.tcPush, regs.soft)
  /\ pollErr' = IF phase = "STAT" THEN sticky ELSE pollErr
  /\ tcMirror' = IF phase = "TCRX" THEN tcLatch ELSE tcMirror
  /\ st' = IF regs.en THEN SelfCheck ELSE DataMover
  /\ CaptureClock

Quiet(r) == [r EXCEPT !.start = FALSE, !.soft = FALSE, !.dmPush = FALSE, !.tcPush = FALSE]

NoTimecode == [val |-> 0, n |-> 0]

RegsAtReset ==
  [en |-> TRUE, loop |-> FALSE, start |-> FALSE, soft |-> FALSE, inj |-> FALSE,
   dmBeat |-> 0, dmPush |-> FALSE, tc |-> NoTimecode, tcPush |-> FALSE]

StAtReset ==
  [tstate |-> "IDLE", txIdx |-> 0, expIdx |-> 0, checking |-> FALSE, txPrbs |-> 0,
   rxPrbs |-> 0, txPkt |-> 0, rxPkt |-> 0, flush |-> 0, busy |-> FALSE, done |-> FALSE,
   pass |-> FALSE, txCount |-> 0, rxCount |-> 0, errCount |-> 0, tvalid |-> FALSE,
   tbeat |-> 0, rready |-> FALSE, rxPush |-> FALSE, rxWord |-> 0, dmPending |-> FALSE]

LoopInit ==
  /\ MasterInit
  /\ regs = RegsAtReset /\ st = StAtReset
  /\ capture = <<>> /\ pop = FALSE /\ tcMirror = <<>> /\ pollErr = FALSE
  /\ coreRst = FALSE /\ linkUp = FALSE /\ sticky = FALSE
  /\ txq = <<>> /\ rxq = <<>> /\ shown = <<>> /\ gap = 0
  /\ open = FALSE /\ discard = FALSE /\ tcAir = <<>> /\ tcLatch = <<>>
  /\ faulted = FALSE

LoopReset ==
  /\ MasterReset
  /\ regs' = RegsAtReset /\ st' = StAtReset
  /\ capture' = <<>> /\ pop' = FALSE /\ tcMirror' = <<>> /\ pollErr' = FALSE
  /\ coreRst' = FALSE /\ linkUp' = FALSE /\ sticky' = FALSE
  /\ txq' = <<>> /\ rxq' = <<>> /\ shown' = <<>> /\ gap' = 0
  /\ open' = FALSE /\ discard' = FALSE /\ tcAir' = <<>> /\ tcLatch' = <<>>
  /\ faulted' = FALSE
=============================================================================
