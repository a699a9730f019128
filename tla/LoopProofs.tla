----------------------------- MODULE LoopProofs -----------------------------
(***************************************************************************)
(* The loopback engine, for every size of the self-check, of the FIFOs and *)
(* of the link's pauses, whatever the host does: a beat that it offers     *)
(* to the core stays until it is taken, and its self-check counts no error *)
(* of its own making.                                                      *)
(***************************************************************************)
EXTENDS LoopHost, SequenceTheorems, TLAPS

States == {"IDLE", "FLUSH", "DATA", "EOP", "DONE"}

(* The registers that the transmitter works with. *)
Shape(s) == {"tstate", "tvalid", "tbeat", "txPrbs"} \subseteq DOMAIN s

Same(s, t) ==
  /\ DOMAIN t = DOMAIN s
  /\ t.tstate = s.tstate /\ t.tvalid = s.tvalid /\ t.tbeat = s.tbeat /\ t.txPrbs = s.txPrbs

(* Between runs and at their end nothing is offered; a data beat is the PRBS's. *)
OfferOK(s) ==
  /\ Shape(s)
  /\ s.tstate \in States
  /\ s.tvalid \in BOOLEAN
  /\ s.tstate \in {"FLUSH", "DONE"} => s.tvalid = FALSE
  /\ s.tstate = "DATA" /\ s.tvalid = TRUE => s.tbeat = s.txPrbs

BeatInv == OfferOK(st)

(* The offer of this clock, when it is not taken. *)
Held(s) == st.tvalid = TRUE /\ ~takeTx => s.tvalid = TRUE /\ s.tbeat = st.tbeat

LEMMA SameOffer ==
  ASSUME NEW s, NEW t, Same(s, t)
  PROVE  /\ Shape(s) => Shape(t)
         /\ OfferOK(s) => OfferOK(t)
         /\ Held(s) => Held(t)
BY DEF Same, Shape, OfferOK, Held

(***************************************************************************)
(* The checker of what comes back does not touch the transmitter.          *)
(***************************************************************************)
LEMMA CheckedSame ==
  ASSUME NEW s
  PROVE  Same(s, Checked(s))
<1>1. CASE ~st.checking \/ ~takeRx
  BY <1>1 DEF Checked, Same
<1>2. CASE ~(~st.checking \/ ~takeRx)
  <2> DEFINE c == shown[1]
             g == [s EXCEPT !.rxCount = st.rxCount + 1]
  <2>1. Checked(s) = IF Ends(c) THEN CheckedEnd(g, c) ELSE CheckedData(g, c)
    BY <1>2 DEF Checked
  <2>2. Same(s, g)
    BY DEF Same
  <2> HIDE DEF g
  <2>3. Same(g, CheckedData(g, c))
    BY DEF CheckedData, Same
  <2>4. Same(g, CheckedEnd(g, c))
    <3> DEFINE n == [g EXCEPT !.errCount = IF wellEnded(c) THEN @ ELSE st.errCount + 1,
                              !.expIdx = 0, !.rxPkt = st.rxPkt + 1]
    <3>1. Same(g, n)
      BY DEF Same
    <3>2. CheckedEnd(g, c) = IF ~regs.loop /\ st.rxPkt = PKTS - 1
                             THEN [n EXCEPT !.checking = FALSE, !.busy = FALSE, !.done = TRUE,
                                            !.pass = (st.errCount = 0 /\ wellEnded(c))]
                             ELSE n
      BY DEF CheckedEnd
    <3> HIDE DEF n
    <3>3. \A p : Same(n, [n EXCEPT !.checking = FALSE, !.busy = FALSE, !.done = TRUE, !.pass = p])
      BY DEF Same
    <3> QED BY <3>1, <3>2, <3>3 DEF Same
  <2> QED BY <2>1, <2>2, <2>3, <2>4 DEF Same
<1> QED BY <1>1, <1>2

(***************************************************************************)
(* One clock of the transmitter, state by state.                           *)
(***************************************************************************)
LEMMA StartedOK ==
  ASSUME NEW s, Shape(s), s.tvalid = FALSE
  PROVE  OfferOK(Started(s)) /\ Started(s).tvalid = FALSE
BY DEF Started, Shape, OfferOK, States

LEMMA TransmittedOK ==
  ASSUME BeatInv, NEW s, Same(st, s)
  PROVE  OfferOK(Transmitted(s)) /\ Held(Transmitted(s))
<1> USE DEF BeatInv
<1>1. OfferOK(s) /\ Held(s)
  BY SameOffer DEF Held
<1>2. CASE st.tstate = "IDLE"
  <2>1. Transmitted(s) = InIdle(s)
    BY <1>2 DEF Transmitted
  <2>2. CASE st.tvalid /\ ~tready
    BY <1>1, <2>1, <2>2 DEF InIdle
  <2>3. CASE ~(st.tvalid /\ ~tready)
    <3> DEFINE q == [s EXCEPT !.tvalid = FALSE]
    <3>1. Shape(q) /\ q.tvalid = FALSE /\ q.tstate = "IDLE"
      BY <1>1, <1>2 DEF OfferOK, Shape, Same
    <3>2. OfferOK(q)
      BY <3>1 DEF OfferOK, States
    <3>3. InIdle(s) = q \/ InIdle(s) = Started(q)
      BY <2>3 DEF InIdle
    <3> HIDE DEF q
    <3>4. OfferOK(InIdle(s))
      BY <3>1, <3>2, <3>3, StartedOK
    <3>5. Held(InIdle(s))
      BY <2>3 DEF Held, takeTx, OfferOK
    <3> QED BY <2>1, <3>4, <3>5
  <2> QED BY <2>2, <2>3
<1>3. CASE st.tstate = "FLUSH"
  <2>1. Transmitted(s) = InFlush(s)
    BY <1>3 DEF Transmitted
  <2>2. OfferOK(InFlush(s))
    BY <1>1, <1>3 DEF InFlush, OfferOK, Shape, Same, States
  <2>3. Held(InFlush(s))
    BY <1>3 DEF Held, OfferOK
  <2> QED BY <2>1, <2>2, <2>3
<1>4. CASE st.tstate = "DATA"
  <2>1. Transmitted(s) = InData(s)
    BY <1>4 DEF Transmitted
  <2> DEFINE v == [s EXCEPT !.tvalid = TRUE, !.tbeat = st.txPrbs]
             w == [v EXCEPT !.txCount = @ + 1, !.txPrbs = next(@)]
  <2>2. Shape(v) /\ v.tvalid = TRUE /\ v.tbeat = st.txPrbs /\ v.txPrbs = st.txPrbs /\ v.tstate = "DATA"
    BY <1>1, <1>4 DEF OfferOK, Shape, Same
  <2>3. Shape(w) /\ w.tvalid = TRUE /\ w.txPrbs = next(st.txPrbs) /\ w.tstate = "DATA"
    BY <2>2 DEF Shape
  <2>4. InData(s) = IF ~takeTx THEN v
                    ELSE IF st.txIdx = LEN - 1 THEN [w EXCEPT !.tbeat = Eop, !.tstate = "EOP"]
                    ELSE [w EXCEPT !.tbeat = next(st.txPrbs), !.txIdx = @ + 1]
    BY DEF InData
  <2> HIDE DEF v, w
  <2>5. CASE ~takeTx
    BY <1>4, <2>1, <2>2, <2>4, <2>5 DEF OfferOK, States, Held
  <2>6. CASE takeTx /\ st.txIdx = LEN - 1
    BY <2>1, <2>3, <2>4, <2>6 DEF OfferOK, States, Held, Shape
  <2>7. CASE takeTx /\ st.txIdx # LEN - 1
    BY <2>1, <2>3, <2>4, <2>7 DEF OfferOK, States, Held, Shape
  <2> QED BY <2>5, <2>6, <2>7
<1>5. CASE st.tstate = "EOP"
  <2>1. Transmitted(s) = InEop(s)
    BY <1>5 DEF Transmitted
  <2> DEFINE w == [s EXCEPT !.txCount = @ + 1]
  <2>2. Shape(w) /\ w.tvalid = st.tvalid /\ w.txPrbs = st.txPrbs
    BY <1>1 DEF OfferOK, Shape, Same
  <2>3. InEop(s) = IF ~takeTx THEN s
                   ELSE IF ~regs.loop /\ st.txPkt = PKTS - 1
                        THEN [w EXCEPT !.tvalid = FALSE, !.tstate = "DONE"]
                   ELSE [w EXCEPT !.txPkt = @ + 1, !.txIdx = 0, !.tbeat = st.txPrbs,
                                  !.tstate = "DATA"]
    BY DEF InEop
  <2> HIDE DEF w
  <2>4. CASE ~takeTx
    BY <1>1, <2>1, <2>3, <2>4
  <2>5. CASE takeTx /\ ~regs.loop /\ st.txPkt = PKTS - 1
    BY <2>1, <2>2, <2>3, <2>5 DEF OfferOK, States, Held, Shape
  <2>6. CASE takeTx /\ ~(~regs.loop /\ st.txPkt = PKTS - 1)
    BY <2>1, <2>2, <2>3, <2>6 DEF OfferOK, States, Held, Shape
  <2> QED BY <2>4, <2>5, <2>6
<1>6. CASE st.tstate = "DONE"
  <2>1. Transmitted(s) = [s EXCEPT !.tvalid = FALSE]
    BY <1>6 DEF Transmitted
  <2> QED BY <1>1, <1>6, <2>1 DEF OfferOK, Shape, Same, Held
<1> QED BY <1>2, <1>3, <1>4, <1>5, <1>6 DEF OfferOK, States

LEMMA SelfCheckOK ==
  ASSUME BeatInv
  PROVE  OfferOK(SelfCheck) /\ Held(SelfCheck)
<1> DEFINE s == [st EXCEPT !.rxPush = FALSE, !.dmPending = FALSE, !.rready = TRUE]
           t == Checked(Transmitted(s))
<1>1. Same(st, s)
  BY DEF Same
<1>2. OfferOK(t) /\ Held(t)
  BY <1>1, TransmittedOK, CheckedSame, SameOffer
<1>3. SelfCheck = Aborted(t)
  BY DEF SelfCheck
<1> HIDE DEF t
<1>4. CASE ~(regs.start \/ regs.soft)
  BY <1>2, <1>3, <1>4 DEF Aborted
<1>5. CASE regs.start \/ regs.soft
  <2>1. SelfCheck = [t EXCEPT !.tstate = "IDLE", !.checking = FALSE,
                              !.done = IF regs.start THEN FALSE ELSE @]
    BY <1>3, <1>5 DEF Aborted
  <2> QED BY <1>2, <2>1 DEF OfferOK, Shape, States, Held
<1> QED BY <1>4, <1>5

LEMMA DataMoverOK ==
  ASSUME BeatInv
  PROVE  OfferOK(DataMover) /\ Held(DataMover)
<1> DEFINE s == [st EXCEPT !.rxPush = FALSE, !.busy = FALSE, !.tstate = "IDLE",
                           !.checking = FALSE, !.rready = Len(capture) < CaptureCap]
           p == Presented(s)
           c == Captured(p)
<1>1. Shape(s) /\ s.tstate = "IDLE" /\ s.tvalid = st.tvalid /\ s.tbeat = st.tbeat
  BY DEF BeatInv, OfferOK, Shape
<1> HIDE DEF s
<1>2. OfferOK(p) /\ Held(p)
  <2>1. CASE st.dmPending /\ ~st.tvalid
    <3>1. p = [s EXCEPT !.tbeat = regs.dmBeat, !.tvalid = TRUE]
      BY <2>1 DEF Presented
    <3> QED BY <1>1, <2>1, <3>1 DEF OfferOK, Shape, States, Held
  <2>2. CASE ~(st.dmPending /\ ~st.tvalid) /\ takeTx
    <3>1. p = [s EXCEPT !.tvalid = FALSE, !.txCount = @ + 1, !.dmPending = FALSE]
      BY <2>2 DEF Presented
    <3> QED BY <1>1, <2>2, <3>1 DEF OfferOK, Shape, States, Held
  <2>3. CASE ~(st.dmPending /\ ~st.tvalid) /\ ~takeTx
    BY <1>1, <2>3 DEF Presented, BeatInv, OfferOK, States, Held
  <2> QED BY <2>1, <2>2, <2>3
<1> HIDE DEF p
<1>3. Same(p, c)
  BY DEF Captured, Same
<1> HIDE DEF c
<1>4. Same(c, Pushed(c))
  BY DEF Pushed, Same
<1>5. DataMover = Pushed(c)
  BY DEF DataMover, c, p, s
<1> QED BY <1>2, <1>3, <1>4, <1>5, SameOffer

LEMMA BeatInvInit == Init => BeatInv
BY DEF Init, LoopInit, StAtReset, BeatInv, OfferOK, Shape, States

LEMMA ClockOK ==
  ASSUME BeatInv, Clock
  PROVE  BeatInv' /\ Held(st')
<1>1. st' = SelfCheck \/ st' = DataMover
  BY DEF Clock, EngineClock
<1>2. OfferOK(st') /\ Held(st')
  BY <1>1, SelfCheckOK, DataMoverOK
<1> QED BY <1>2 DEF BeatInv, OfferOK, Shape

LEMMA BeatInvStep ==
  ASSUME BeatInv, [Next]_vars
  PROVE  BeatInv'
<1>1. CASE Clock
  BY <1>1, ClockOK
<1>2. CASE HostResets
  BY <1>2 DEF HostResets, LoopReset, StAtReset, BeatInv, OfferOK, Shape, States
<1>3. CASE UNCHANGED vars
  BY <1>3 DEF vars, loopVars, engineVars, BeatInv, OfferOK, Shape
<1> QED BY <1>1, <1>2, <1>3 DEF Next

(***************************************************************************)
(* A beat that the core has not taken is neither withdrawn nor changed but *)
(* by a bus reset (spw_loopback_axi.v, the transmitter of the self-check   *)
(* and of the host, and every write of the host in between).               *)
(***************************************************************************)
THEOREM BeatStaysHeld == Spec => BeatHeld
<1>1. Init => BeatInv
  BY BeatInvInit
<1>2. BeatInv /\ [Next]_vars => BeatInv'
  BY BeatInvStep
<1>3. BeatInv /\ [Next]_vars =>
        [HostResets \/ (st.tvalid /\ ~tready => st'.tvalid /\ st'.tbeat = st.tbeat)]_vars
  <2>1. ASSUME BeatInv, Clock, st.tvalid, ~tready
        PROVE  st'.tvalid /\ st'.tbeat = st.tbeat
    <3>1. st.tvalid = TRUE /\ ~takeTx
      BY <2>1 DEF BeatInv, OfferOK, takeTx
    <3> QED BY <2>1, <3>1, ClockOK DEF Held
  <2> QED BY <2>1 DEF Next
<1> QED BY <1>1, <1>2, <1>3, PTL DEF Spec, BeatHeld

(***************************************************************************)
(* No false errors: the registers of the self-check and their types.       *)
(***************************************************************************)
Sending == {"DATA", "EOP", "DONE"}

Fields == {"tstate", "tvalid", "tbeat", "txIdx", "txPrbs", "txCount", "flush",
           "checking", "rready", "expIdx", "rxPrbs", "rxCount", "errCount"}

Flags(s) ==
  /\ Fields \subseteq DOMAIN s
  /\ s.tstate \in States /\ s.tvalid \in BOOLEAN /\ s.checking \in BOOLEAN /\ s.rready \in BOOLEAN

Counters(s) ==
  /\ s.tbeat \in Int /\ s.flush \in Nat
  /\ s.txIdx \in Nat /\ s.txPrbs \in 0 .. Period - 1 /\ s.txCount \in Nat
  /\ s.expIdx \in Nat /\ s.rxPrbs \in 0 .. Period - 1 /\ s.rxCount \in Nat /\ s.errCount \in Nat

(* Where the transmitter is in its packet: LEN is its end. *)
At(s) == IF s.tstate = "DATA" THEN s.txIdx ELSE IF s.tstate = "EOP" THEN LEN ELSE 0

(* A character x at place i of a packet, with the PRBS at p, leads to q and j. *)
Place(p, i, x, q, j) ==
  IF i = LEN THEN x = Eop /\ q = p /\ j = 0 ELSE x = p /\ q = next(p) /\ j = i + 1

(* What the transmitter offers, and where. *)
TxOK(s) ==
  /\ s.tstate = "DATA" => s.txIdx < LEN
  /\ s.tstate = "EOP" => s.tbeat = Eop

(* A run is checked only while it sends; a flush begins from nothing. *)
ModeOK(s) ==
  /\ s.tstate \in {"IDLE", "FLUSH"} => s.checking = FALSE
  /\ s.tstate = "FLUSH" =>
       /\ s.rready = TRUE
       /\ s.txIdx = 0 /\ s.txPrbs = 0 /\ s.txCount = 0
       /\ s.expIdx = 0 /\ s.rxPrbs = 0 /\ s.rxCount = 0 /\ s.errCount = 0

RxSame(s, t) ==
  /\ t.expIdx = s.expIdx /\ t.rxPrbs = s.rxPrbs /\ t.rxCount = s.rxCount
  /\ t.errCount = s.errCount

TxSame(s, t) ==
  /\ t.tstate = s.tstate /\ t.tvalid = s.tvalid /\ t.tbeat = s.tbeat
  /\ t.txIdx = s.txIdx /\ t.txPrbs = s.txPrbs /\ t.txCount = s.txCount /\ t.flush = s.flush
  /\ t.rready = s.rready

(***************************************************************************)
(* The clocks of the transmitter: it waits, a run begins, a flush goes on, *)
(* gives up or ends, the run sends.                                        *)
(***************************************************************************)
Waits(t) ==
  /\ st.tstate = "IDLE" /\ t.tstate = "IDLE"
  /\ st.tvalid = FALSE => t.tvalid = FALSE
  /\ t.checking = st.checking /\ RxSame(st, t)

Begins(t) ==
  /\ st.tstate = "IDLE" /\ up
  /\ t.tstate = "FLUSH" /\ t.tvalid = FALSE /\ t.flush = 0 /\ t.checking = FALSE
  /\ t.txIdx = 0 /\ t.txPrbs = 0 /\ t.txCount = 0
  /\ t.expIdx = 0 /\ t.rxPrbs = 0 /\ t.rxCount = 0 /\ t.errCount = 0

GivesUp(t) ==
  /\ st.tstate = "FLUSH" /\ ~up
  /\ t.tstate = "IDLE" /\ t.tvalid = FALSE /\ t.checking = st.checking /\ RxSame(st, t)

Flushes(t) ==
  /\ st.tstate = "FLUSH" /\ up
  /\ t.tstate = "FLUSH" /\ t.tvalid = FALSE /\ t.checking = st.checking /\ RxSame(st, t)
  /\ t.flush = IF shown # <<>> THEN 0 ELSE st.flush + 1
  /\ t.txIdx = st.txIdx /\ t.txPrbs = st.txPrbs /\ t.txCount = st.txCount

Opens(t) ==
  /\ st.tstate = "FLUSH" /\ up /\ shown = <<>> /\ st.flush = FlushIdle - 1
  /\ t.tstate = "DATA" /\ t.tvalid = FALSE /\ t.checking = TRUE /\ RxSame(st, t)
  /\ t.txIdx = st.txIdx /\ t.txPrbs = st.txPrbs /\ t.txCount = st.txCount

Moves(t) ==
  /\ st.tstate \in Sending /\ t.tstate \in Sending
  /\ IF takeTx
     THEN t.txCount = st.txCount + 1 /\ Place(st.txPrbs, At(st), st.tbeat, t.txPrbs, At(t))
     ELSE t.txCount = st.txCount /\ t.txPrbs = st.txPrbs /\ At(t) = At(st)

Sends(t) == Moves(t) /\ t.checking = st.checking /\ RxSame(st, t)

TxStep(t) == Waits(t) \/ Begins(t) \/ GivesUp(t) \/ Flushes(t) \/ Opens(t) \/ Sends(t)

EngineOK(s) == Flags(s) /\ Counters(s) /\ TxOK(s) /\ ModeOK(s)

(***************************************************************************)
(* The clocks of the checker: what it expects, and what it makes of it.    *)
(***************************************************************************)
Expected == IF st.expIdx = LEN THEN Eop ELSE st.rxPrbs

checks == st.checking = TRUE /\ takeRx

Receives(t) ==
  /\ t.checking = TRUE => st.checking = TRUE
  /\ ~checks => RxSame(st, t)
  /\ checks => /\ t.rxCount = st.rxCount + 1
               /\ shown[1] = Expected =>
                    /\ t.errCount = st.errCount
                    /\ Place(st.rxPrbs, st.expIdx, shown[1], t.rxPrbs, t.expIdx)

(* A clock of the self-check, when nothing aborts it. *)
RunStep(t) ==
  Waits(t) \/ Begins(t) \/ GivesUp(t) \/ Flushes(t) \/ Opens(t) \/ (Moves(t) /\ Receives(t))

(* No error is counted but for a character that is not the expected one. *)
ErrKept(t) == (checks => shown[1] = Expected) => t.errCount = 0 \/ t.errCount = st.errCount

(***************************************************************************)
(* What is on the way through the core, oldest first, and the characters   *)
(* of a run from one place of it to another.                               *)
(***************************************************************************)
pipe == shown \o (rxq \o txq)

Chain(c, p, i, q, j) ==
  \E f, g \in [Int -> Int] :
    /\ f[1] = p /\ g[1] = i /\ f[Len(c) + 1] = q /\ g[Len(c) + 1] = j
    /\ \A k \in 1 .. Len(c) : Place(f[k], g[k], c[k], f[k + 1], g[k + 1])

Queues ==
  /\ txq \in Seq(Int) /\ rxq \in Seq(Int) /\ shown \in Seq(Int) /\ Len(shown) <= 1
  /\ gap \in 0 .. Gap

(***************************************************************************)
(* The programs.  Two of them disturb the link: from the write that        *)
(* injects errors to the one that ends them (Disturbed, Released), and     *)
(* after the soft reset (SoftAt) until the run goes on (Restarting).       *)
(***************************************************************************)
Disturbers == {"injection", "fault_loaded"}

Disturbed(s, k)  == \/ s = "injection" /\ k \in (4 .. 7) \cup (13 .. 16)
                    \/ s = "fault_loaded" /\ k \in 5 .. 8
Released(s, k)   == (s = "injection" /\ k \in {7, 16}) \/ (s = "fault_loaded" /\ k = 8)
SoftAt(s, k)     == (s = "injection" /\ k \in {8, 17}) \/ (s = "fault_loaded" /\ k = 9)
Restarting(s, k) == \/ s = "injection" /\ k \in (9 .. 11) \cup (18 .. 20)
                    \/ s = "fault_loaded" /\ k \in 10 .. 12

(* An operation that leaves the link alone, and sends numbers. *)
Harmless(o) == o.kind # "inject" /\ (o.kind = "tx" => o.value \in Int)

AllHarmless(s) == Len(s) \in Nat /\ \A k \in 1 .. Len(s) : Harmless(s[k])

(* A write of CTRL that keeps the self-check, and starts it by a reset only. *)
KeepsChecking(s, k, bits) ==
  "EN" \in bits /\ ("START" \in bits => "SOFT" \in bits) /\ ("SOFT" \in bits => SoftAt(s, k))

(* What operation o of a program that disturbs the link does at its place k. *)
Careful(s, k, o) ==
  /\ o.kind # "tx"
  /\ o.kind = "inject" => o.value \in BOOLEAN
  /\ o.kind = "inject" /\ o.value = TRUE => Disturbed(s, k) /\ ~Released(s, k)
  /\ Released(s, k) => o.kind = "inject" /\ o.value = FALSE
  /\ o.kind = "ctrl" => \A bits \in o.value : KeepsChecking(s, k, bits)
  /\ Restarting(s, k) /\ ~Restarting(s, k + 1) => o.kind = "note"

AllCareful(s, c) == Len(c) \in Nat /\ \A k \in 1 .. Len(c) : Careful(s, k, c[k])

(***************************************************************************)
(* The inductive invariant, part by part.                                  *)
(***************************************************************************)
Early == {"RST", "CRST", "CTRL", "DIV", "ID"}

(* No run before the bring-up is over, nor while the core is in its reset. *)
MasterOK ==
  /\ phase \in Phase /\ bringup \in BOOLEAN /\ run \in BOOLEAN /\ coreRst \in BOOLEAN
  /\ phase \in Early => bringup = FALSE
  /\ phase \in Phase \ (Early \cup {"STAT"}) => bringup = TRUE
  /\ coreRst = TRUE => phase \in {"RST", "CRST", "CTRL"}
  /\ st.tstate # "IDLE" => bringup = TRUE

LinkOK == linkUp \in BOOLEAN /\ open \in BOOLEAN /\ discard \in BOOLEAN /\ faulted \in BOOLEAN

RegTyped(r) ==
  /\ {"en", "loop", "start", "soft", "inj", "dmBeat", "dmPush", "tc", "tcPush"} \subseteq DOMAIN r
  /\ r.en \in BOOLEAN /\ r.start \in BOOLEAN /\ r.soft \in BOOLEAN /\ r.inj \in BOOLEAN
  /\ r.dmBeat \in Int

RegsOK == RegTyped(regs)

(* The pulses of CTRL last one clock, and errors are injected where a program says so. *)
HostOK ==
  /\ script \in DOMAIN Script /\ pc \in Nat \ {0} /\ RegsOK
  /\ regs.start = TRUE \/ regs.soft = TRUE => bus = "resp"
  /\ regs.inj = TRUE => Disturbed(script, pc) /\ ~(Released(script, pc) /\ bus = "resp")
  /\ script \in Disturbers => /\ regs.en = TRUE
                              /\ regs.start = TRUE => regs.soft = TRUE
                              /\ regs.soft = TRUE => SoftAt(script, pc)
  /\ bus \in {"data", "resp"} => ~over /\ op.kind \in {"ctrl", "inject", "tx", "send"}

(* The host aborts the run in this clock. *)
aborts == regs.start = TRUE \/ regs.soft = TRUE

(***************************************************************************)
(* A clock of the host: it reads, writes, waits for an answer, or pauses.  *)
(***************************************************************************)
Reads ==
  /\ bus = "free" /\ bus' = "read" /\ regs' = Quiet(regs) /\ ~over
  /\ op.kind \notin {"ctrl", "inject", "tx", "send"}
  /\ pc' = pc \/ (pc' = pc + 1 /\ (op.kind = "note" => running))

Addresses ==
  /\ bus = "free" /\ bus' = "data" /\ regs' = Quiet(regs) /\ pc' = pc /\ ~over
  /\ op.kind \in {"ctrl", "inject", "tx", "send"}

Writes == bus = "data" /\ bus' = "resp" /\ regs' \in Written /\ pc' = pc

Responds == bus = "resp" /\ bus' = "free" /\ regs' = Quiet(regs) /\ pc' = pc + 1

Rests == bus \in {"free", "read"} /\ bus' = "free" /\ regs' = Quiet(regs) /\ pc' = pc

HostMoves == Reads \/ Addresses \/ Writes \/ Responds \/ Rests

(* A flush waits longer than anything stays on its way. *)
FlushOK ==
  st.tstate = "FLUSH" /\ faulted = FALSE =>
    /\ linkUp = TRUE /\ shown = <<>> =>
         /\ rxq # <<>> => st.flush <= Gap + 1
         /\ rxq = <<>> /\ txq # <<>> => st.flush <= gap
    /\ linkUp = FALSE /\ run = TRUE => \/ st.flush = 0 /\ phase \in {"STAT", "TC_TX"}
                                       \/ st.flush = 1 /\ phase = "STAT"

ErrOK == faulted = FALSE => st.errCount = 0

(* What is on its way is the run from where the checker is to where the sender is. *)
RunOK ==
  faulted = FALSE /\ st.checking = TRUE =>
    /\ st.txCount = st.rxCount + Len(pipe)
    /\ Chain(pipe, st.rxPrbs, st.expIdx, st.txPrbs, At(st))

(* A cut packet is discarded while its run lasts or the core is reset, and not in the next. *)
DiscardOK ==
  /\ discard = TRUE => /\ script \in Disturbers
                       /\ st.tstate \in Sending \/ phase \in {"RST", "CRST"} \/ coreRst = TRUE
  /\ discard = TRUE /\ faulted = FALSE => st.tstate = "IDLE"

(* Between runs nothing is on its way, but after a soft reset. *)
Clean == st.tvalid = FALSE /\ txq = <<>> /\ rxq = <<>> /\ shown = <<>> /\ open = FALSE

CleanOK ==
  script \in Disturbers => st.tstate \in Sending \/ Clean \/ Restarting(script, pc)

LoopInv ==
  /\ BeatInv /\ EngineOK(st) /\ Queues /\ MasterOK /\ LinkOK /\ HostOK
  /\ FlushOK /\ ErrOK /\ RunOK /\ DiscardOK /\ CleanOK

(***************************************************************************)
(* The self-check: a clock of the transmitter, of the checker, of both.    *)
(***************************************************************************)
(* The PRBS stays in its period. *)
LEMMA NextInRange ==
  ASSUME NEW p \in 0 .. Period - 1
  PROVE  next(p) \in 0 .. Period - 1
BY EngineAssumption DEF next

(* A start begins a flush with everything cleared. *)
LEMMA StartedBegins ==
  ASSUME NEW s, Flags(s), Counters(s), s.tvalid = FALSE, s.rready = TRUE
  PROVE  LET t == Started(s)
         IN /\ EngineOK(t)
            /\ t.rready = TRUE
            /\ st.tstate = "IDLE" /\ up => Begins(t)
<1> DEFINE t == Started(s)
<1>1. /\ DOMAIN t = DOMAIN s /\ t.tvalid = FALSE /\ t.rready = TRUE /\ t.tbeat = s.tbeat
      /\ t.tstate = "FLUSH" /\ t.flush = 0 /\ t.checking = FALSE
      /\ t.txIdx = 0 /\ t.txPrbs = 0 /\ t.txCount = 0
      /\ t.expIdx = 0 /\ t.rxPrbs = 0 /\ t.rxCount = 0 /\ t.errCount = 0
  BY DEF Started, Flags, Fields
<1> HIDE DEF t
<1>2. EngineOK(t)
  <2>1. Flags(t)
    BY <1>1, EngineAssumption DEF EngineOK, Flags, States
  <2>2. Counters(t)
    BY <1>1, EngineAssumption DEF EngineOK, Counters, RxSame, Eop
  <2>3. TxOK(t) /\ ModeOK(t)
    BY <1>1, EngineAssumption DEF EngineOK, TxOK, ModeOK, RxSame
  <2> QED BY <2>1, <2>2, <2>3 DEF EngineOK
<1> QED BY <1>1, <1>2 DEF Begins, t

(* A clock of the transmitter is one of its six. *)
LEMMA TransmittedStep ==
  ASSUME BeatInv, EngineOK(st), NEW s, DOMAIN s = DOMAIN st, s.rready = TRUE,
         s.checking = st.checking, RxSame(st, s),
         s.tstate = st.tstate, s.tvalid = st.tvalid, s.tbeat = st.tbeat,
         s.txIdx = st.txIdx, s.txPrbs = st.txPrbs, s.txCount = st.txCount, s.flush = st.flush
  PROVE  LET t == Transmitted(s) IN EngineOK(t) /\ t.rready = TRUE /\ TxStep(t)
<1> DEFINE t == Transmitted(s)
<1>0. /\ EngineOK(s)
      /\ Fields \subseteq DOMAIN s
      /\ st.tstate \in States
  BY DEF EngineOK, Flags, Counters, TxOK, ModeOK, RxSame
<1>1. CASE st.tstate = "IDLE"
  <2>1. t = InIdle(s)
    BY <1>1 DEF Transmitted
  <2> DEFINE q == [s EXCEPT !.tvalid = FALSE]
  <2>2. InIdle(s) = IF st.tvalid /\ ~tready THEN s
                    ELSE IF up /\ (regs.start \/ ~st.done) THEN Started(q) ELSE q
    BY DEF InIdle
  <2>3. /\ DOMAIN q = DOMAIN s /\ q.tvalid = FALSE /\ q.rready = TRUE /\ q.checking = st.checking
        /\ RxSame(st, q) /\ q.tstate = "IDLE" /\ q.tbeat = s.tbeat
        /\ q.txIdx = s.txIdx /\ q.txPrbs = s.txPrbs /\ q.txCount = s.txCount /\ q.flush = s.flush
    BY <1>0, <1>1 DEF Fields, RxSame
  <2> HIDE DEF q, t
  <2>4. EngineOK(q)
    <3>1. Flags(q)
      BY <1>0, <2>3 DEF EngineOK, Flags, States
    <3>2. Counters(q)
      BY <1>0, <2>3 DEF EngineOK, Counters, RxSame, Eop
    <3>3. TxOK(q) /\ ModeOK(q)
      BY <1>0, <1>1, <2>3 DEF EngineOK, TxOK, ModeOK, RxSame
    <3> QED BY <3>1, <3>2, <3>3 DEF EngineOK
  <2>5. Waits(q) /\ Waits(s)
    BY <1>1, <2>3 DEF Waits
  <2>6. CASE t = s
    BY <1>0, <2>5, <2>6 DEF TxStep, t
  <2>7. CASE t = q
    BY <2>3, <2>4, <2>5, <2>7 DEF TxStep, t
  <2>8. CASE up /\ t = Started(q)
    <3>1. Flags(q) /\ Counters(q)
      BY <2>4 DEF EngineOK
    <3>2. EngineOK(Started(q)) /\ Started(q).rready = TRUE /\ Begins(Started(q))
      BY <1>1, <2>3, <2>8, <3>1, StartedBegins
    <3> QED BY <2>8, <3>2 DEF TxStep, t
  <2> QED BY <2>1, <2>2, <2>6, <2>7, <2>8
<1>2. CASE st.tstate = "FLUSH"
  <2>1. t = InFlush(s)
    BY <1>2 DEF Transmitted
  <2> DEFINE q == [s EXCEPT !.tvalid = FALSE, !.tstate = "IDLE"]
             z == [s EXCEPT !.tvalid = FALSE, !.flush = 0]
             o == [s EXCEPT !.tvalid = FALSE, !.checking = TRUE, !.tstate = "DATA"]
             f == [s EXCEPT !.tvalid = FALSE, !.flush = @ + 1]
  <2>2. InFlush(s) = IF ~up THEN q ELSE IF shown # <<>> THEN z
                     ELSE IF st.flush = FlushIdle - 1 THEN o ELSE f
    BY DEF InFlush
  <2>3. /\ DOMAIN q = DOMAIN s /\ q.tvalid = FALSE /\ q.rready = TRUE /\ q.checking = st.checking
        /\ RxSame(st, q) /\ q.tstate = "IDLE" /\ q.tbeat = s.tbeat
        /\ q.txIdx = s.txIdx /\ q.txPrbs = s.txPrbs /\ q.txCount = s.txCount /\ q.flush = s.flush
    BY <1>0, <1>2 DEF Fields, RxSame
  <2>4. /\ DOMAIN z = DOMAIN s /\ z.tvalid = FALSE /\ z.rready = TRUE /\ z.checking = st.checking
        /\ RxSame(st, z) /\ z.tstate = "FLUSH" /\ z.tbeat = s.tbeat
        /\ z.txIdx = s.txIdx /\ z.txPrbs = s.txPrbs /\ z.txCount = s.txCount /\ z.flush = 0
    BY <1>0, <1>2 DEF Fields, RxSame
  <2>5. /\ DOMAIN o = DOMAIN s /\ o.tvalid = FALSE /\ o.rready = TRUE /\ o.checking = TRUE
        /\ RxSame(st, o) /\ o.tstate = "DATA" /\ o.tbeat = s.tbeat
        /\ o.txIdx = s.txIdx /\ o.txPrbs = s.txPrbs /\ o.txCount = s.txCount /\ o.flush = s.flush
    BY <1>0, <1>2 DEF Fields, RxSame
  <2>6. /\ DOMAIN f = DOMAIN s /\ f.tvalid = FALSE /\ f.rready = TRUE /\ f.checking = st.checking
        /\ RxSame(st, f) /\ f.tstate = "FLUSH" /\ f.tbeat = s.tbeat
        /\ f.txIdx = s.txIdx /\ f.txPrbs = s.txPrbs /\ f.txCount = s.txCount
        /\ f.flush = st.flush + 1
    BY <1>0, <1>2 DEF Fields, RxSame
  <2> HIDE DEF q, z, o, f, t
  <2>7. CASE ~up
    <3>1. EngineOK(q)
      <4>1. Flags(q)
        BY <1>0, <2>3 DEF EngineOK, Flags, States
      <4>2. Counters(q)
        BY <1>0, <2>3 DEF EngineOK, Counters, RxSame, Eop
      <4>3. TxOK(q) /\ ModeOK(q)
        BY <1>0, <1>2, <2>3 DEF EngineOK, TxOK, ModeOK, RxSame
      <4> QED BY <4>1, <4>2, <4>3 DEF EngineOK
    <3>2. GivesUp(q)
      BY <1>2, <2>3, <2>7 DEF GivesUp
    <3> QED BY <2>1, <2>2, <2>3, <2>7, <3>1, <3>2 DEF TxStep, t
  <2>8. CASE up /\ shown # <<>>
    <3>1. EngineOK(z)
      <4>1. Flags(z)
        BY <1>0, <2>4 DEF EngineOK, Flags, States
      <4>2. Counters(z)
        BY <1>0, <2>4 DEF EngineOK, Counters, RxSame, Eop
      <4>3. TxOK(z) /\ ModeOK(z)
        BY <1>0, <1>2, <2>4 DEF EngineOK, TxOK, ModeOK, RxSame
      <4> QED BY <4>1, <4>2, <4>3 DEF EngineOK
    <3>2. Flushes(z)
      BY <1>2, <2>4, <2>8 DEF Flushes
    <3> QED BY <2>1, <2>2, <2>4, <2>8, <3>1, <3>2 DEF TxStep, t
  <2>9. CASE up /\ shown = <<>> /\ st.flush = FlushIdle - 1
    <3>1. EngineOK(o)
      <4>1. Flags(o)
        BY <1>0, <2>5, <2>9 DEF EngineOK, Flags, States
      <4>2. Counters(o)
        BY <1>0, <2>5, <2>9 DEF EngineOK, Counters, RxSame, Eop
      <4>3. TxOK(o) /\ ModeOK(o)
        BY <1>0, <1>2, EngineAssumption, <2>5, <2>9 DEF EngineOK, TxOK, ModeOK, RxSame
      <4> QED BY <4>1, <4>2, <4>3 DEF EngineOK
    <3>2. Opens(o)
      BY <1>2, <2>5, <2>9 DEF Opens
    <3> QED BY <2>1, <2>2, <2>5, <2>9, <3>1, <3>2 DEF TxStep, t
  <2>10. CASE up /\ shown = <<>> /\ st.flush # FlushIdle - 1
    <3>1. EngineOK(f)
      <4>1. Flags(f)
        BY <1>0, <2>6 DEF EngineOK, Flags, States
      <4>2. Counters(f)
        BY <1>0, <2>6 DEF EngineOK, Counters, RxSame, Eop
      <4>3. TxOK(f) /\ ModeOK(f)
        BY <1>0, <1>2, <2>6 DEF EngineOK, TxOK, ModeOK, RxSame
      <4> QED BY <4>1, <4>2, <4>3 DEF EngineOK
    <3>2. Flushes(f)
      BY <1>2, <2>6, <2>10 DEF Flushes
    <3> QED BY <2>1, <2>2, <2>6, <2>10, <3>1, <3>2 DEF TxStep, t
  <2> QED BY <2>7, <2>8, <2>9, <2>10
<1>3. CASE st.tstate = "DATA"
  <2>1. t = InData(s)
    BY <1>3 DEF Transmitted
  <2> DEFINE v == [s EXCEPT !.tvalid = TRUE, !.tbeat = st.txPrbs]
             w == [v EXCEPT !.txCount = @ + 1, !.txPrbs = next(@)]
             e == [w EXCEPT !.tbeat = Eop, !.tstate = "EOP"]
             d == [w EXCEPT !.tbeat = next(st.txPrbs), !.txIdx = @ + 1]
  <2>2. InData(s) = IF ~takeTx THEN v ELSE IF st.txIdx = LEN - 1 THEN e ELSE d
    BY DEF InData
  <2>3. /\ DOMAIN v = DOMAIN s /\ v.tvalid = TRUE /\ v.rready = TRUE /\ v.checking = st.checking
        /\ RxSame(st, v) /\ v.tstate = "DATA" /\ v.tbeat = st.txPrbs
        /\ v.txIdx = s.txIdx /\ v.txPrbs = s.txPrbs /\ v.txCount = s.txCount /\ v.flush = s.flush
    BY <1>0, <1>3 DEF Fields, RxSame
  <2> HIDE DEF v
  <2>4. /\ DOMAIN w = DOMAIN s /\ w.tvalid = TRUE /\ w.rready = TRUE /\ w.checking = st.checking
        /\ RxSame(st, w) /\ w.tstate = "DATA"
        /\ w.txIdx = s.txIdx /\ w.txPrbs = next(st.txPrbs) /\ w.txCount = st.txCount + 1
        /\ w.flush = s.flush
    BY <1>0, <2>3 DEF Fields, RxSame
  <2> HIDE DEF w
  <2>5. /\ DOMAIN e = DOMAIN s /\ e.tvalid = TRUE /\ e.rready = TRUE /\ e.checking = st.checking
        /\ RxSame(st, e) /\ e.tstate = "EOP" /\ e.tbeat = Eop
        /\ e.txIdx = s.txIdx /\ e.txPrbs = next(st.txPrbs) /\ e.txCount = st.txCount + 1
        /\ e.flush = s.flush
    BY <1>0, <2>4 DEF Fields, RxSame
  <2>6. /\ DOMAIN d = DOMAIN s /\ d.tvalid = TRUE /\ d.rready = TRUE /\ d.checking = st.checking
        /\ RxSame(st, d) /\ d.tstate = "DATA" /\ d.tbeat = next(st.txPrbs)
        /\ d.txIdx = st.txIdx + 1 /\ d.txPrbs = next(st.txPrbs) /\ d.txCount = st.txCount + 1
        /\ d.flush = s.flush
    BY <1>0, <2>4 DEF Fields, RxSame
  <2> HIDE DEF e, d, t
  <2>7. /\ st.txPrbs \in 0 .. Period - 1 /\ next(st.txPrbs) \in 0 .. Period - 1
        /\ next(st.txPrbs) \in Int /\ st.txPrbs \in Int
        /\ st.txIdx \in Nat /\ st.txIdx < LEN /\ LEN \in Nat /\ st.txCount \in Nat
    BY <1>3, NextInRange, EngineAssumption DEF EngineOK, Flags, Counters, TxOK
  <2>8. takeTx => st.tbeat = st.txPrbs
    BY <1>3 DEF takeTx, BeatInv, OfferOK
  <2>9. CASE ~takeTx
    <3>1. EngineOK(v)
      <4>1. Flags(v)
        BY <1>0, <2>3, <2>7 DEF EngineOK, Flags, States
      <4>2. Counters(v)
        BY <1>0, <2>3, <2>7 DEF EngineOK, Counters, RxSame, Eop
      <4>3. TxOK(v) /\ ModeOK(v)
        BY <1>0, <2>3, <2>7 DEF EngineOK, TxOK, ModeOK, RxSame
      <4> QED BY <4>1, <4>2, <4>3 DEF EngineOK
    <3>2. Sends(v)
      BY <1>3, <2>3, <2>9 DEF Sends, Moves, At, Sending
    <3> QED BY <2>1, <2>2, <2>3, <2>9, <3>1, <3>2 DEF TxStep, t
  <2>10. CASE takeTx /\ st.txIdx = LEN - 1
    <3>1. EngineOK(e)
      <4>1. Flags(e)
        BY <1>0, <2>5, <2>7 DEF EngineOK, Flags, States
      <4>2. Counters(e)
        BY <1>0, <2>5, <2>7 DEF EngineOK, Counters, RxSame, Eop
      <4>3. TxOK(e) /\ ModeOK(e)
        BY <1>0, <2>5, <2>7 DEF EngineOK, TxOK, ModeOK, RxSame
      <4> QED BY <4>1, <4>2, <4>3 DEF EngineOK
    <3>2. At(e) = st.txIdx + 1 /\ At(st) = st.txIdx
      BY <1>3, <2>5, <2>7, <2>10 DEF At
    <3>3. Sends(e)
      BY <1>3, <2>5, <2>7, <2>8, <2>10, <3>2 DEF Sends, Moves, Place, Sending
    <3> QED BY <2>1, <2>2, <2>5, <2>10, <3>1, <3>3 DEF TxStep, t
  <2>11. CASE takeTx /\ st.txIdx # LEN - 1
    <3>1. EngineOK(d)
      <4>1. Flags(d)
        BY <1>0, <2>6, <2>7, <2>11 DEF EngineOK, Flags, States
      <4>2. Counters(d)
        BY <1>0, <2>6, <2>7, <2>11 DEF EngineOK, Counters, RxSame, Eop
      <4>3. TxOK(d) /\ ModeOK(d)
        BY <1>0, <2>6, <2>7, <2>11 DEF EngineOK, TxOK, ModeOK, RxSame
      <4> QED BY <4>1, <4>2, <4>3 DEF EngineOK
    <3>2. At(d) = st.txIdx + 1 /\ At(st) = st.txIdx
      BY <1>3, <2>6 DEF At
    <3>3. Sends(d)
      BY <1>3, <2>6, <2>7, <2>8, <2>11, <3>2 DEF Sends, Moves, Place, Sending
    <3> QED BY <2>1, <2>2, <2>6, <2>11, <3>1, <3>3 DEF TxStep, t
  <2> QED BY <2>9, <2>10, <2>11
<1>4. CASE st.tstate = "EOP"
  <2>1. t = InEop(s)
    BY <1>4 DEF Transmitted
  <2> DEFINE w == [s EXCEPT !.txCount = @ + 1]
             e == [w EXCEPT !.tvalid = FALSE, !.tstate = "DONE"]
             d == [w EXCEPT !.txPkt = @ + 1, !.txIdx = 0, !.tbeat = st.txPrbs, !.tstate = "DATA"]
  <2>2. InEop(s) = IF ~takeTx THEN s ELSE IF ~regs.loop /\ st.txPkt = PKTS - 1 THEN e ELSE d
    BY DEF InEop
  <2>3. /\ DOMAIN w = DOMAIN s /\ w.tvalid = s.tvalid /\ w.rready = TRUE /\ w.checking = st.checking
        /\ RxSame(st, w) /\ w.tbeat = s.tbeat
        /\ w.txIdx = s.txIdx /\ w.txPrbs = st.txPrbs /\ w.txCount = st.txCount + 1
        /\ w.flush = s.flush
    BY <1>0 DEF Fields, RxSame
  <2> HIDE DEF w
  <2>4. /\ DOMAIN e = DOMAIN s /\ e.tvalid = FALSE /\ e.rready = TRUE /\ e.checking = st.checking
        /\ RxSame(st, e) /\ e.tstate = "DONE" /\ e.tbeat = s.tbeat
        /\ e.txIdx = s.txIdx /\ e.txPrbs = st.txPrbs /\ e.txCount = st.txCount + 1
        /\ e.flush = s.flush
    BY <1>0, <2>3 DEF Fields, RxSame
  <2>5. /\ DOMAIN d = DOMAIN s /\ d.tvalid = s.tvalid /\ d.rready = TRUE /\ d.checking = st.checking
        /\ RxSame(st, d) /\ d.tstate = "DATA" /\ d.tbeat = st.txPrbs
        /\ d.txIdx = 0 /\ d.txPrbs = st.txPrbs /\ d.txCount = st.txCount + 1
        /\ d.flush = s.flush
    BY <1>0, <2>3 DEF Fields, RxSame
  <2> HIDE DEF e, d, t
  <2>6. /\ st.txPrbs \in 0 .. Period - 1 /\ st.txPrbs \in Int /\ 0 < LEN /\ LEN \in Nat
        /\ st.txCount \in Nat /\ st.tbeat = Eop
    BY <1>4, EngineAssumption DEF EngineOK, Flags, Counters, TxOK
  <2>7. At(st) = LEN /\ At(s) = LEN /\ At(d) = 0 /\ At(e) = 0
    BY <1>4, <2>4, <2>5 DEF At
  <2>8. CASE ~takeTx
    <3>1. Sends(s)
      BY <1>4, <2>7, <2>8 DEF Sends, Moves, Sending
    <3> QED BY <1>0, <2>1, <2>2, <2>8, <3>1 DEF TxStep, t
  <2>9. CASE takeTx /\ ~regs.loop /\ st.txPkt = PKTS - 1
    <3>1. EngineOK(e)
      <4>1. Flags(e)
        BY <1>0, <2>4, <2>6 DEF EngineOK, Flags, States
      <4>2. Counters(e)
        BY <1>0, <2>4, <2>6 DEF EngineOK, Counters, RxSame, Eop
      <4>3. TxOK(e) /\ ModeOK(e)
        BY <1>0, <2>4, <2>6 DEF EngineOK, TxOK, ModeOK, RxSame
      <4> QED BY <4>1, <4>2, <4>3 DEF EngineOK
    <3>2. Sends(e)
      BY <1>4, <2>4, <2>6, <2>7, <2>9 DEF Sends, Moves, Place, Sending
    <3> QED BY <2>1, <2>2, <2>4, <2>9, <3>1, <3>2 DEF TxStep, t
  <2>10. CASE takeTx /\ ~(~regs.loop /\ st.txPkt = PKTS - 1)
    <3>1. EngineOK(d)
      <4>1. Flags(d)
        BY <1>0, <2>5, <2>6 DEF EngineOK, Flags, States
      <4>2. Counters(d)
        BY <1>0, <2>5, <2>6 DEF EngineOK, Counters, RxSame, Eop
      <4>3. TxOK(d) /\ ModeOK(d)
        BY <1>0, <2>5, <2>6 DEF EngineOK, TxOK, ModeOK, RxSame
      <4> QED BY <4>1, <4>2, <4>3 DEF EngineOK
    <3>2. Sends(d)
      BY <1>4, <2>5, <2>6, <2>7, <2>10 DEF Sends, Moves, Place, Sending
    <3> QED BY <2>1, <2>2, <2>5, <2>10, <3>1, <3>2 DEF TxStep, t
  <2> QED BY <2>8, <2>9, <2>10
<1>5. CASE st.tstate = "DONE"
  <2>1. t = [s EXCEPT !.tvalid = FALSE]
    BY <1>5 DEF Transmitted
  <2>2. /\ DOMAIN t = DOMAIN s /\ t.tvalid = FALSE /\ t.rready = TRUE /\ t.checking = st.checking
        /\ RxSame(st, t) /\ t.tstate = "DONE" /\ t.tbeat = s.tbeat
        /\ t.txIdx = s.txIdx /\ t.txPrbs = s.txPrbs /\ t.txCount = s.txCount /\ t.flush = s.flush
    BY <1>0, <1>5, <2>1 DEF Fields, RxSame
  <2> HIDE DEF t
  <2>3. EngineOK(t)
    <3>1. Flags(t)
      BY <1>0, <2>2 DEF EngineOK, Flags, States
    <3>2. Counters(t)
      BY <1>0, <2>2 DEF EngineOK, Counters, RxSame, Eop
    <3>3. TxOK(t) /\ ModeOK(t)
      BY <1>0, <2>2 DEF EngineOK, TxOK, ModeOK, RxSame
    <3> QED BY <3>1, <3>2, <3>3 DEF EngineOK
  <2>4. ~takeTx
    BY <1>5 DEF takeTx, BeatInv, OfferOK
  <2>5. Sends(t)
    BY <1>5, <2>2, <2>4 DEF Sends, Moves, At, Sending
  <2> QED BY <2>2, <2>3, <2>5 DEF TxStep, t
<1> QED BY <1>0, <1>1, <1>2, <1>3, <1>4, <1>5 DEF States

(* A clock of the checker, which leaves the transmitter alone. *)
LEMMA CheckedStep ==
  ASSUME EngineOK(st), NEW s, EngineOK(s), RxSame(st, s), s.checking = st.checking,
         st.checking = TRUE => s.tstate \in Sending,
         shown \in Seq(Int)
  PROVE  LET t == Checked(s) IN EngineOK(t) /\ TxSame(s, t) /\ Receives(t) /\ ErrKept(t)
<1> DEFINE t == Checked(s)
<1>1. CASE ~checks
  <2>1. t = s
    BY <1>1 DEF Checked, checks, EngineOK, Flags
  <2> QED BY <1>1, <2>1 DEF TxSame, Receives, ErrKept, RxSame
<1>2. CASE checks
  <2> DEFINE c == shown[1]
             g == [s EXCEPT !.rxCount = st.rxCount + 1]
             d == CheckedData(g, c)
             e == CheckedEnd(g, c)
             n == [g EXCEPT !.errCount = IF wellEnded(c) THEN @ ELSE st.errCount + 1,
                            !.expIdx = 0, !.rxPkt = st.rxPkt + 1]
             p == [n EXCEPT !.checking = FALSE, !.busy = FALSE, !.done = TRUE,
                            !.pass = (st.errCount = 0 /\ wellEnded(c))]
  <2>1. t = IF Ends(c) THEN e ELSE d
    BY <1>2 DEF Checked, checks, EngineOK, Flags
  <2>2. e = IF ~regs.loop /\ st.rxPkt = PKTS - 1 THEN p ELSE n
    BY DEF CheckedEnd
  <2>21. /\ st.rxPrbs \in 0 .. Period - 1 /\ next(st.rxPrbs) \in 0 .. Period - 1 /\ st.rxPrbs \in Int
        /\ st.expIdx \in Nat /\ st.rxCount \in Nat /\ st.errCount \in Nat
    <3>1. /\ st.rxPrbs \in 0 .. Period - 1
          /\ st.expIdx \in Nat /\ st.rxCount \in Nat /\ st.errCount \in Nat
      BY DEF EngineOK, Counters
    <3>2. next(st.rxPrbs) \in 0 .. Period - 1
      BY <3>1, NextInRange
    <3>3. Period \in Int
      BY EngineAssumption
    <3>4. st.rxPrbs \in Int
      BY <3>1, <3>3
    <3> QED BY <3>1, <3>2, <3>4
  <2>3. c \in Int
    <3>1. Len(shown) \in Nat \ {0}
      BY <1>2, EmptySeq DEF checks, takeRx
    <3> QED BY <3>1, ElementOfSeq
  <2>4. /\ DOMAIN g = DOMAIN s /\ TxSame(s, g) /\ g.checking = s.checking
        /\ g.rxCount = st.rxCount + 1
        /\ g.expIdx = st.expIdx /\ g.rxPrbs = st.rxPrbs /\ g.errCount = st.errCount
    BY DEF EngineOK, Flags, Fields, TxSame, RxSame
  <2>5. Fields \subseteq DOMAIN s
    BY DEF EngineOK, Flags
  <2>22. d = [g EXCEPT !.errCount = IF c = st.rxPrbs THEN @ ELSE st.errCount + 1,
                      !.rxPrbs = next(st.rxPrbs), !.expIdx = st.expIdx + 1]
    BY DEF CheckedData
  <2> HIDE DEF g, e
  <2>6. /\ DOMAIN d = DOMAIN s /\ TxSame(s, d) /\ d.checking = s.checking
        /\ d.rxCount = st.rxCount + 1
        /\ d.expIdx = st.expIdx + 1 /\ d.rxPrbs = next(st.rxPrbs)
        /\ d.errCount = IF c = st.rxPrbs THEN st.errCount ELSE st.errCount + 1
    BY <2>4, <2>5, <2>22 DEF Fields, TxSame
  <2>7. /\ DOMAIN n = DOMAIN s /\ TxSame(s, n) /\ n.checking = s.checking
        /\ n.rxCount = st.rxCount + 1
        /\ n.expIdx = 0 /\ n.rxPrbs = st.rxPrbs
        /\ n.errCount = IF wellEnded(c) THEN st.errCount ELSE st.errCount + 1
    BY <2>4, <2>5 DEF Fields, TxSame
  <2> HIDE DEF n, d
  <2>8. /\ DOMAIN p = DOMAIN s /\ TxSame(s, p) /\ p.checking = FALSE
        /\ p.rxCount = st.rxCount + 1
        /\ p.expIdx = 0 /\ p.rxPrbs = st.rxPrbs
        /\ p.errCount = IF wellEnded(c) THEN st.errCount ELSE st.errCount + 1
    BY <2>5, <2>7 DEF Fields, TxSame
  <2> HIDE DEF p, c, t
  <2>9. Ends(c) /\ c = Expected => wellEnded(c) /\ st.expIdx = LEN /\ c = Eop
    BY <2>21, <2>3 DEF Ends, Expected, wellEnded, Eop, Eep
  <2>10. ~Ends(c) /\ c = Expected => c = st.rxPrbs /\ st.expIdx # LEN
    BY DEF Ends, Expected
  <2>11. CASE t = d /\ ~Ends(c)
    <3>1. Flags(t)
      BY <2>6, <2>11 DEF EngineOK, Flags, TxSame
    <3>2. Counters(t)
      <4>1. t.tbeat = s.tbeat /\ t.flush = s.flush /\ t.txIdx = s.txIdx /\ t.txPrbs = s.txPrbs /\ t.txCount = s.txCount
        BY <2>6, <2>11 DEF TxSame
      <4>2. t.expIdx \in Nat /\ t.rxPrbs \in 0 .. Period - 1 /\ t.rxCount \in Nat
        BY <2>21, <2>6, <2>11
      <4>3. t.errCount \in Nat
        BY <2>21, <2>6, <2>11
      <4> QED BY <4>1, <4>2, <4>3 DEF EngineOK, Counters
    <3>3. TxOK(t) /\ ModeOK(t)
      BY <1>2, <2>6, <2>11 DEF EngineOK, TxOK, ModeOK, TxSame, checks, Sending
    <3>4. Receives(t)
      BY <1>2, <2>6, <2>10, <2>11 DEF Receives, Place, c
    <3>5. ErrKept(t)
      BY <1>2, <2>6, <2>10, <2>11 DEF ErrKept, c
    <3> QED BY <2>6, <2>11, <3>1, <3>2, <3>3, <3>4, <3>5 DEF EngineOK, t
  <2>12. CASE t = n /\ Ends(c)
    <3>1. Flags(t)
      BY <2>7, <2>12 DEF EngineOK, Flags, TxSame
    <3>2. Counters(t)
      <4>1. t.tbeat = s.tbeat /\ t.flush = s.flush /\ t.txIdx = s.txIdx /\ t.txPrbs = s.txPrbs /\ t.txCount = s.txCount
        BY <2>7, <2>12 DEF TxSame
      <4>2. t.expIdx \in Nat /\ t.rxPrbs \in 0 .. Period - 1 /\ t.rxCount \in Nat
        BY <2>21, <2>7, <2>12
      <4>3. t.errCount \in Nat
        BY <2>21, <2>7, <2>12
      <4> QED BY <4>1, <4>2, <4>3 DEF EngineOK, Counters
    <3>3. TxOK(t) /\ ModeOK(t)
      BY <1>2, <2>7, <2>12 DEF EngineOK, TxOK, ModeOK, TxSame, checks, Sending
    <3>4. Receives(t)
      BY <1>2, <2>7, <2>9, <2>12 DEF Receives, Place, c
    <3>5. ErrKept(t)
      BY <1>2, <2>7, <2>9, <2>12 DEF ErrKept, c
    <3> QED BY <2>7, <2>12, <3>1, <3>2, <3>3, <3>4, <3>5 DEF EngineOK, t
  <2>13. CASE t = p /\ Ends(c)
    <3>1. Flags(t)
      BY <2>8, <2>13 DEF EngineOK, Flags, TxSame
    <3>2. Counters(t)
      <4>1. t.tbeat = s.tbeat /\ t.flush = s.flush /\ t.txIdx = s.txIdx /\ t.txPrbs = s.txPrbs /\ t.txCount = s.txCount
        BY <2>8, <2>13 DEF TxSame
      <4>2. t.expIdx \in Nat /\ t.rxPrbs \in 0 .. Period - 1 /\ t.rxCount \in Nat
        BY <2>21, <2>8, <2>13
      <4>3. t.errCount \in Nat
        BY <2>21, <2>8, <2>13
      <4> QED BY <4>1, <4>2, <4>3 DEF EngineOK, Counters
    <3>3. TxOK(t) /\ ModeOK(t)
      BY <1>2, <2>8, <2>13 DEF EngineOK, TxOK, ModeOK, TxSame, checks, Sending
    <3>4. Receives(t)
      BY <1>2, <2>8, <2>9, <2>13 DEF Receives, Place, c
    <3>5. ErrKept(t)
      BY <1>2, <2>8, <2>9, <2>13 DEF ErrKept, c
    <3> QED BY <2>8, <2>13, <3>1, <3>2, <3>3, <3>4, <3>5 DEF EngineOK, t
  <2> QED BY <2>1, <2>2, <2>11, <2>12, <2>13
<1> QED BY <1>1, <1>2

(* A clock of the whole self-check: an abort overrides all the rest. *)
LEMMA SelfCheckStep ==
  ASSUME BeatInv, EngineOK(st), shown \in Seq(Int)
  PROVE  LET n == SelfCheck
         IN /\ EngineOK(n) /\ n.rready = TRUE /\ ErrKept(n)
            /\ regs.start \/ regs.soft => n.tstate = "IDLE"
            /\ ~(regs.start \/ regs.soft) => RunStep(n)
<1> DEFINE s == [st EXCEPT !.rxPush = FALSE, !.dmPending = FALSE, !.rready = TRUE]
           t == Transmitted(s)
           c == Checked(t)
           n == SelfCheck
<1>1. /\ DOMAIN s = DOMAIN st /\ s.rready = TRUE
      /\ s.checking = st.checking /\ RxSame(st, s)
      /\ s.tstate = st.tstate /\ s.tvalid = st.tvalid /\ s.tbeat = st.tbeat
      /\ s.txIdx = st.txIdx /\ s.txPrbs = st.txPrbs /\ s.txCount = st.txCount /\ s.flush = st.flush
  BY DEF EngineOK, Flags, Fields, RxSame
<1>2. n = Aborted(c)
  BY DEF SelfCheck
<1> HIDE DEF s
<1>3. EngineOK(t) /\ t.rready = TRUE /\ TxStep(t)
  BY <1>1, TransmittedStep
<1> HIDE DEF n, t
<1>4. /\ Fields \subseteq DOMAIN c
      /\ EngineOK(c) /\ c.rready = TRUE /\ ErrKept(c)
      /\ RunStep(c)
  <2>1. CASE Sends(t)
    <3>1. RxSame(st, t) /\ t.checking = st.checking /\ t.tstate \in Sending
      BY <2>1 DEF Sends, Moves
    <3>2. EngineOK(c) /\ TxSame(t, c) /\ Receives(c) /\ ErrKept(c)
      BY <1>3, <3>1, CheckedStep
    <3>3. Moves(c)
      BY <2>1, <3>2 DEF Sends, Moves, TxSame, At
    <3> QED BY <1>3, <3>2, <3>3 DEF RunStep, TxSame, EngineOK, Flags
  <2>2. CASE Waits(t) \/ Begins(t) \/ GivesUp(t) \/ Flushes(t) \/ Opens(t)
    <3>1. st.checking = FALSE
      BY <2>2 DEF Waits, Begins, GivesUp, Flushes, Opens, EngineOK, ModeOK
    <3>2. c = t
      BY <3>1 DEF Checked
    <3>3. t.errCount = 0 \/ t.errCount = st.errCount
      BY <2>2 DEF Waits, Begins, GivesUp, Flushes, Opens, RxSame
    <3> QED BY <1>3, <2>2, <3>2, <3>3 DEF RunStep, ErrKept, EngineOK, Flags
  <2> QED BY <1>3, <2>1, <2>2 DEF TxStep
<1> HIDE DEF c
<1>5. CASE ~(regs.start \/ regs.soft)
  BY <1>2, <1>4, <1>5 DEF Aborted, n
<1>6. CASE regs.start \/ regs.soft
  <2>1. n = [c EXCEPT !.tstate = "IDLE", !.checking = FALSE, !.done = IF regs.start THEN FALSE ELSE @]
    BY <1>2, <1>6 DEF Aborted
  <2>2. /\ DOMAIN n = DOMAIN c /\ n.tstate = "IDLE" /\ n.checking = FALSE
        /\ n.tvalid = c.tvalid /\ n.tbeat = c.tbeat
        /\ n.txIdx = c.txIdx /\ n.txPrbs = c.txPrbs /\ n.txCount = c.txCount /\ n.flush = c.flush
        /\ n.rready = TRUE /\ RxSame(c, n)
    BY <1>4, <2>1 DEF Fields, RxSame
  <2>3. Flags(n)
    BY <1>4, <2>2 DEF EngineOK, Flags, States
  <2>4. Counters(n)
    BY <1>4, <2>2 DEF EngineOK, Counters, RxSame
  <2>5. TxOK(n) /\ ModeOK(n)
    BY <2>2 DEF TxOK, ModeOK
  <2>6. ErrKept(n)
    BY <1>4, <2>2 DEF ErrKept, RxSame
  <2> QED BY <1>6, <2>2, <2>3, <2>4, <2>5, <2>6 DEF EngineOK, n
<1> QED BY <1>5, <1>6

(* The host data mover rests the self-check and counts no errors. *)
LEMMA DataMoverStep ==
  ASSUME EngineOK(st), regs.dmBeat \in Int
  PROVE  LET n == DataMover
         IN EngineOK(n) /\ n.tstate = "IDLE" /\ n.errCount = st.errCount
<1> DEFINE s == [st EXCEPT !.rxPush = FALSE, !.busy = FALSE, !.tstate = "IDLE",
                           !.checking = FALSE, !.rready = Len(capture) < CaptureCap]
           p == Presented(s)
           c == Captured(p)
           n == DataMover
           Mover(x) == EngineOK(x) /\ x.tstate = "IDLE" /\ x.errCount = st.errCount
<1>1. /\ DOMAIN s = DOMAIN st /\ s.tstate = "IDLE" /\ s.checking = FALSE /\ s.rready \in BOOLEAN
      /\ s.tvalid = st.tvalid /\ s.tbeat = st.tbeat
      /\ s.txIdx = st.txIdx /\ s.txPrbs = st.txPrbs /\ s.txCount = st.txCount /\ s.flush = st.flush
      /\ RxSame(st, s)
  BY DEF EngineOK, Flags, Fields, RxSame
<1>2. n = Pushed(c)
  BY DEF DataMover
<1> HIDE DEF s, n
<1>3. Mover(s)
  <2>1. Flags(s)
    BY <1>1 DEF EngineOK, Flags, States
  <2>2. Counters(s)
    BY <1>1 DEF EngineOK, Counters, RxSame
  <2>3. TxOK(s) /\ ModeOK(s)
    BY <1>1 DEF TxOK, ModeOK
  <2> QED BY <1>1, <2>1, <2>2, <2>3 DEF EngineOK, RxSame
<1>4. Mover(p)
  <2>1. CASE st.dmPending /\ ~st.tvalid
    <3>1. p = [s EXCEPT !.tbeat = regs.dmBeat, !.tvalid = TRUE]
      BY <2>1 DEF Presented
    <3>2. /\ DOMAIN p = DOMAIN s /\ p.tstate = "IDLE" /\ p.checking = FALSE /\ p.rready = s.rready
          /\ p.tvalid = TRUE /\ p.tbeat = regs.dmBeat
          /\ p.txIdx = s.txIdx /\ p.txPrbs = s.txPrbs /\ p.txCount = s.txCount /\ p.flush = s.flush
          /\ RxSame(s, p)
      BY <1>1, <3>1 DEF EngineOK, Flags, Fields, RxSame
    <3> HIDE DEF p
    <3>3. Flags(p)
      BY <1>3, <3>2 DEF EngineOK, Flags, States
    <3>4. Counters(p)
      BY <1>3, <3>2 DEF EngineOK, Counters, RxSame
    <3>5. TxOK(p) /\ ModeOK(p)
      BY <3>2 DEF TxOK, ModeOK
    <3> QED BY <1>3, <3>2, <3>3, <3>4, <3>5 DEF EngineOK, RxSame
  <2>2. CASE ~(st.dmPending /\ ~st.tvalid) /\ takeTx
    <3>1. p = [s EXCEPT !.tvalid = FALSE, !.txCount = @ + 1, !.dmPending = FALSE]
      BY <2>2 DEF Presented
    <3>2. /\ DOMAIN p = DOMAIN s /\ p.tstate = "IDLE" /\ p.checking = FALSE /\ p.rready = s.rready
          /\ p.tvalid = FALSE /\ p.tbeat = s.tbeat
          /\ p.txIdx = s.txIdx /\ p.txPrbs = s.txPrbs /\ p.txCount = s.txCount + 1
          /\ p.flush = s.flush /\ RxSame(s, p)
      BY <1>1, <3>1 DEF EngineOK, Flags, Fields, RxSame
    <3> HIDE DEF p
    <3>3. Flags(p)
      BY <1>3, <3>2 DEF EngineOK, Flags, States
    <3>4. Counters(p)
      BY <1>3, <3>2 DEF EngineOK, Counters, RxSame
    <3>5. TxOK(p) /\ ModeOK(p)
      BY <3>2 DEF TxOK, ModeOK
    <3> QED BY <1>3, <3>2, <3>3, <3>4, <3>5 DEF EngineOK, RxSame
  <2>3. CASE ~(st.dmPending /\ ~st.tvalid) /\ ~takeTx
    BY <1>3, <2>3 DEF Presented
  <2> QED BY <2>1, <2>2, <2>3
<1> HIDE DEF p
<1>5. Mover(c)
  <2>1. CASE takeRx
    <3>1. c = [p EXCEPT !.rxPush = TRUE, !.rxWord = shown[1], !.rxCount = @ + 1]
      BY <2>1 DEF Captured
    <3>2. /\ DOMAIN c = DOMAIN p /\ c.tstate = "IDLE" /\ c.checking = FALSE /\ c.rready = p.rready
          /\ c.tvalid = p.tvalid /\ c.tbeat = p.tbeat
          /\ c.txIdx = p.txIdx /\ c.txPrbs = p.txPrbs /\ c.txCount = p.txCount /\ c.flush = p.flush
          /\ c.expIdx = p.expIdx /\ c.rxPrbs = p.rxPrbs /\ c.rxCount = p.rxCount + 1
          /\ c.errCount = p.errCount
      BY <1>4, <3>1 DEF EngineOK, Flags, Fields, ModeOK
    <3> HIDE DEF c
    <3>3. Flags(c)
      BY <1>4, <3>2 DEF EngineOK, Flags, States
    <3>4. Counters(c)
      BY <1>4, <3>2 DEF EngineOK, Counters
    <3>5. TxOK(c) /\ ModeOK(c)
      BY <3>2 DEF TxOK, ModeOK
    <3> QED BY <1>4, <3>2, <3>3, <3>4, <3>5 DEF EngineOK
  <2>2. CASE ~takeRx
    BY <1>4, <2>2 DEF Captured
  <2> QED BY <2>1, <2>2
<1> HIDE DEF c
<1>6. CASE regs.dmPush
  <2>1. n = [c EXCEPT !.dmPending = TRUE]
    BY <1>2, <1>6 DEF Pushed
  <2>2. /\ DOMAIN n = DOMAIN c /\ n.tstate = "IDLE" /\ n.checking = FALSE /\ n.rready = c.rready
        /\ n.tvalid = c.tvalid /\ n.tbeat = c.tbeat
        /\ n.txIdx = c.txIdx /\ n.txPrbs = c.txPrbs /\ n.txCount = c.txCount /\ n.flush = c.flush
        /\ RxSame(c, n)
    BY <1>5, <2>1 DEF EngineOK, Flags, Fields, ModeOK, RxSame
  <2>3. Flags(n)
    BY <1>5, <2>2 DEF EngineOK, Flags, States
  <2>4. Counters(n)
    BY <1>5, <2>2 DEF EngineOK, Counters, RxSame
  <2>5. TxOK(n) /\ ModeOK(n)
    BY <2>2 DEF TxOK, ModeOK
  <2> QED BY <1>5, <2>2, <2>3, <2>4, <2>5 DEF EngineOK, RxSame, n
<1>7. CASE ~regs.dmPush
  BY <1>2, <1>5, <1>7 DEF Pushed, n
<1> QED BY <1>6, <1>7

(* A function with one value changed, and one moved by a place. *)
LEMMA Extended ==
  ASSUME NEW f \in [Int -> Int], NEW m \in Int, NEW r \in Int
  PROVE  LET F == [f EXCEPT ![m] = r]
         IN F \in [Int -> Int] /\ F[m] = r /\ \A n \in Int : n # m => F[n] = f[n]
OBVIOUS

LEMMA Shifted ==
  ASSUME NEW f \in [Int -> Int]
  PROVE  LET F == [n \in Int |-> f[n + 1]]
         IN F \in [Int -> Int] /\ f[2] \in Int /\ \A n \in Int : F[n] = f[n + 1]
OBVIOUS

(* No character leads from a place to itself. *)
LEMMA ChainEmpty ==
  ASSUME NEW p \in Int, NEW i \in Int
  PROVE  Chain(<<>>, p, i, p, i)
<1> DEFINE f == [k \in Int |-> p]
           g == [k \in Int |-> i]
<1>1. f \in [Int -> Int] /\ g \in [Int -> Int]
  OBVIOUS
<1>2. f[1] = p /\ g[1] = i /\ f[Len(<<>>) + 1] = p /\ g[Len(<<>>) + 1] = i
  OBVIOUS
<1>3. \A k \in 1 .. Len(<<>>) : Place(f[k], g[k], <<>>[k], f[k + 1], g[k + 1])
  OBVIOUS
<1> HIDE DEF f, g
<1> QED BY <1>1, <1>2, <1>3 DEF Chain

(* A character that is sent makes the chain one longer at its end. *)
LEMMA ChainAppend ==
  ASSUME NEW c \in Seq(Int), NEW p, NEW i, NEW q, NEW j, Chain(c, p, i, q, j),
         NEW x \in Int, NEW r \in Int, NEW k \in Int, Place(q, j, x, r, k)
  PROVE  Chain(Append(c, x), p, i, r, k)
<1>1. PICK f, g :
        /\ f \in [Int -> Int] /\ g \in [Int -> Int]
        /\ f[1] = p /\ g[1] = i /\ f[Len(c) + 1] = q /\ g[Len(c) + 1] = j
        /\ \A n \in 1 .. Len(c) : Place(f[n], g[n], c[n], f[n + 1], g[n + 1])
  BY DEF Chain
<1> DEFINE d == Append(c, x)
           F == [f EXCEPT ![Len(c) + 2] = r]
           G == [g EXCEPT ![Len(c) + 2] = k]
<1>2. /\ Len(c) \in Nat /\ Len(d) = Len(c) + 1
      /\ \A n \in 1 .. Len(c) : d[n] = c[n]
      /\ d[Len(c) + 1] = x
  BY AppendProperties, LenProperties
<1>21. f \in [Int -> Int] /\ g \in [Int -> Int]
  BY <1>1
<1>22. /\ f[1] = p /\ g[1] = i /\ f[Len(c) + 1] = q /\ g[Len(c) + 1] = j
      /\ \A n \in 1 .. Len(c) : Place(f[n], g[n], c[n], f[n + 1], g[n + 1])
  BY <1>1
<1>23. F \in [Int -> Int] /\ G \in [Int -> Int]
  BY <1>21
<1>3. /\ F[Len(c) + 2] = r /\ G[Len(c) + 2] = k
      /\ \A n \in Int : n # Len(c) + 2 => F[n] = f[n] /\ G[n] = g[n]
  <2> DEFINE m == Len(c) + 2
  <2>1. m \in Int
    BY <1>2
  <2> HIDE DEF m
  <2>2. LET H == [f EXCEPT ![m] = r]
        IN H \in [Int -> Int] /\ H[m] = r /\ \A n \in Int : n # m => H[n] = f[n]
    BY <1>21, <2>1, Extended
  <2>3. LET H == [g EXCEPT ![m] = k]
        IN H \in [Int -> Int] /\ H[m] = k /\ \A n \in Int : n # m => H[n] = g[n]
    BY <1>21, <2>1, Extended
  <2> QED BY <2>2, <2>3 DEF m
<1> HIDE DEF d, F, G
<1>4. F[1] = p /\ G[1] = i /\ F[Len(d) + 1] = r /\ G[Len(d) + 1] = k
  <2>1. 1 \in Int /\ 1 # Len(c) + 2 /\ Len(d) + 1 = Len(c) + 2
    BY <1>2
  <2> QED BY <1>22, <1>3, <2>1
<1>5. ASSUME NEW n \in 1 .. Len(d)
      PROVE  Place(F[n], G[n], d[n], F[n + 1], G[n + 1])
  <2>1. CASE n \in 1 .. Len(c)
    <3>1. n # Len(c) + 2 /\ n + 1 # Len(c) + 2 /\ n \in Int /\ n + 1 \in Int
      BY <1>2, <2>1
    <3>2. F[n] = f[n] /\ G[n] = g[n] /\ F[n + 1] = f[n + 1] /\ G[n + 1] = g[n + 1] /\ d[n] = c[n]
      BY <1>2, <1>3, <2>1, <3>1
    <3> QED BY <1>22, <2>1, <3>2
  <2>2. CASE n = Len(c) + 1
    <3>1. F[n] = q /\ G[n] = j /\ F[n + 1] = r /\ G[n + 1] = k /\ d[n] = x
      <4>1. n \in Int /\ n # Len(c) + 2 /\ n + 1 = Len(c) + 2
        BY <1>2, <2>2
      <4> QED BY <1>22, <1>2, <1>3, <2>2, <4>1
    <3> QED BY <3>1
  <2> QED BY <1>2, <2>1, <2>2
<1> QED BY <1>23, <1>4, <1>5 DEF Chain, d

(* The one that is checked comes off at its beginning. *)
LEMMA ChainTail ==
  ASSUME NEW c \in Seq(Int), c # <<>>, NEW p, NEW i, NEW q, NEW j, Chain(c, p, i, q, j)
  PROVE  \E r, k \in Int : Place(p, i, c[1], r, k) /\ Chain(Tail(c), r, k, q, j)
<1>1. PICK f, g :
        /\ f \in [Int -> Int] /\ g \in [Int -> Int]
        /\ f[1] = p /\ g[1] = i /\ f[Len(c) + 1] = q /\ g[Len(c) + 1] = j
        /\ \A n \in 1 .. Len(c) : Place(f[n], g[n], c[n], f[n + 1], g[n + 1])
  BY DEF Chain
<1> DEFINE d == Tail(c)
           F == [n \in Int |-> f[n + 1]]
           G == [n \in Int |-> g[n + 1]]
<1>2. /\ Len(c) \in Nat \ {0} /\ Len(d) = Len(c) - 1
      /\ \A n \in 1 .. Len(d) : d[n] = c[n + 1]
  BY HeadTailProperties, EmptySeq
<1>3. /\ F \in [Int -> Int] /\ G \in [Int -> Int] /\ f[2] \in Int /\ g[2] \in Int
      /\ \A n \in Int : F[n] = f[n + 1] /\ G[n] = g[n + 1]
  BY <1>1, Shifted
<1> HIDE DEF d, F, G
<1>4. /\ f[2] \in Int /\ g[2] \in Int
      /\ F[1] = f[2] /\ G[1] = g[2] /\ F[Len(d) + 1] = q /\ G[Len(d) + 1] = j
  BY <1>1, <1>2, <1>3
<1>5. Place(p, i, c[1], f[2], g[2])
  BY <1>1, <1>2
<1>6. ASSUME NEW n \in 1 .. Len(d)
      PROVE  Place(F[n], G[n], d[n], F[n + 1], G[n + 1])
  <2>1. n + 1 \in 1 .. Len(c) /\ n \in Int /\ n + 1 \in Int
    BY <1>2
  <2>2. F[n] = f[n + 1] /\ G[n] = g[n + 1] /\ d[n] = c[n + 1]
    BY <1>2, <1>3, <2>1
  <2>3. F[n + 1] = f[(n + 1) + 1] /\ G[n + 1] = g[(n + 1) + 1]
    BY <1>3, <2>1
  <2> QED BY <1>1, <2>1, <2>2, <2>3
<1>7. Chain(d, f[2], g[2], q, j)
  BY <1>3, <1>4, <1>6 DEF Chain
<1> QED BY <1>4, <1>5, <1>7 DEF d

(***************************************************************************)
(* One clock of the core: the queues lose at the head what the engine      *)
(* takes and gain at the end what it offers.                               *)
(***************************************************************************)
LEMMA HeadAndTail ==
  ASSUME NEW s \in Seq(Int), s # <<>>
  PROVE  /\ Head(s) \in Int /\ Tail(s) \in Seq(Int) /\ <<Head(s)>> \in Seq(Int)
         /\ s = <<Head(s)>> \o Tail(s)
         /\ Head(s) = s[1]
<1>1. Head(s) \in Int /\ Tail(s) \in Seq(Int) /\ <<Head(s)>> \in Seq(Int) /\ Head(s) = s[1]
  BY HeadTailProperties
<1>2. s = <<Head(s)>> \o Tail(s)
  <2> DEFINE h == <<Head(s)>>
             t == Tail(s)
             u == h \o t
  <2>1. h \in Seq(Int) /\ Len(h) = 1 /\ h[1] = s[1]
    BY <1>1
  <2>2. /\ t \in Seq(Int) /\ Len(t) = Len(s) - 1 /\ Len(s) \in Nat
        /\ \A i \in 1 .. Len(t) : t[i] = s[i + 1]
    BY HeadTailProperties, LenProperties
  <2> HIDE DEF h, t
  <2>0. h \in Seq(Int) /\ t \in Seq(Int)
    BY <2>1, <2>2
  <2>3. /\ u \in Seq(Int) /\ Len(u) = Len(h) + Len(t)
        /\ \A i \in 1 .. Len(h) + Len(t) : u[i] = IF i <= Len(h) THEN h[i] ELSE t[i - Len(h)]
    BY <2>0, ConcatProperties
  <2> HIDE DEF u
  <2>4. Len(s) = Len(u)
    BY <2>1, <2>2, <2>3
  <2>5. \A i \in 1 .. Len(s) : s[i] = u[i]
    <3> TAKE i \in 1 .. Len(s)
    <3>1. CASE i = 1
      BY <2>1, <2>2, <2>3, <3>1
    <3>2. CASE i # 1
      <4>1. i - 1 \in 1 .. Len(t) /\ i \in 1 .. Len(h) + Len(t) /\ ~(i <= Len(h)) /\ i - Len(h) = i - 1
        BY <2>1, <2>2, <3>2
      <4>2. u[i] = t[i - 1]
        BY <2>3, <4>1
      <4>3. t[i - 1] = s[(i - 1) + 1]
        BY <2>2, <4>1
      <4> QED BY <4>2, <4>3
    <3> QED BY <3>1, <3>2
  <2>6. s = u
    BY <2>3, <2>4, <2>5, SeqEqual
  <2> QED BY <2>6 DEF u, h, t
<1> QED BY <1>1, <1>2

(* Sequences taken apart and put together again. *)
LEMMA Regrouped ==
  ASSUME NEW a \in Seq(Int), NEW b \in Seq(Int), NEW c \in Seq(Int)
  PROVE  (a \o b) \o c = a \o (b \o c)
BY ConcatAssociative

LEMMA TailConcat ==
  ASSUME NEW a \in Seq(Int), NEW b \in Seq(Int), a # <<>>
  PROVE  /\ a \o b \in Seq(Int) /\ a \o b # <<>> /\ (a \o b)[1] = a[1]
         /\ Tail(a \o b) = Tail(a) \o b
<1> DEFINE h == <<Head(a)>>
           t == Tail(a)
<1>1. h \in Seq(Int) /\ t \in Seq(Int) /\ a = h \o t /\ Head(a) = a[1] /\ Head(a) \in Int
  BY HeadAndTail
<1>2. t \o b \in Seq(Int)
  BY <1>1, ConcatProperties
<1>3. a \o b = h \o (t \o b)
  <2>1. h \in Seq(Int) /\ t \in Seq(Int) /\ a = h \o t
    BY <1>1
  <2> HIDE DEF h, t
  <2>2. h \in Seq(Int) /\ t \in Seq(Int)
    BY <2>1
  <2>3. (h \o t) \o b = h \o (t \o b)
    BY <2>2, Regrouped
  <2> QED BY <2>1, <2>3
<1> DEFINE r == t \o b
           u == h \o r
<1>4. Len(h) = 1 /\ h[1] = a[1]
  BY <1>1
<1> HIDE DEF h, t, r
<1>5. /\ u \in Seq(Int) /\ Len(u) = Len(h) + Len(r) /\ Len(r) \in Nat
      /\ \A i \in 1 .. Len(h) + Len(r) : u[i] = IF i <= Len(h) THEN h[i] ELSE r[i - Len(h)]
  BY <1>1, <1>2, ConcatProperties, LenProperties DEF r
<1> HIDE DEF u
<1>6. u # <<>> /\ u[1] = a[1]
  BY <1>4, <1>5, EmptySeq
<1>7. Tail(u) = r
  <2> DEFINE v == Tail(u)
  <2>1. /\ v \in Seq(Int) /\ Len(v) = Len(u) - 1
        /\ \A i \in 1 .. Len(v) : v[i] = u[i + 1]
    BY <1>5, <1>6, HeadTailProperties
  <2> HIDE DEF v
  <2>2. r \in Seq(Int) /\ Len(v) = Len(r)
    BY <1>2, <1>4, <1>5, <2>1 DEF r
  <2>3. \A i \in 1 .. Len(v) : v[i] = r[i]
    <3> TAKE i \in 1 .. Len(v)
    <3>1. i + 1 \in 1 .. Len(h) + Len(r) /\ ~(i + 1 <= Len(h)) /\ (i + 1) - Len(h) = i
      BY <1>4, <1>5, <2>2
    <3>2. u[i + 1] = r[i]
      BY <1>5, <3>1
    <3> QED BY <2>1, <3>2
  <2>4. v = r
    BY <2>1, <2>2, <2>3, SeqEqual
  <2> QED BY <2>4 DEF v
<1>8. a \o b = u
  BY <1>3 DEF u, r
<1> QED BY <1>5, <1>6, <1>7, <1>8 DEF r, t

LEMMA AppendConcat ==
  ASSUME NEW a \in Seq(Int), NEW b \in Seq(Int), NEW x \in Int
  PROVE  a \o Append(b, x) = Append(a \o b, x)
<1> DEFINE e == <<x>>
<1>1. e \in Seq(Int) /\ a \o b \in Seq(Int)
  BY ConcatProperties
<1>2. Append(b, x) = b \o e /\ Append(a \o b, x) = (a \o b) \o e
  BY <1>1, AppendIsConcat
<1> HIDE DEF e
<1>3. (a \o b) \o e = a \o (b \o e)
  BY <1>1, Regrouped
<1> QED BY <1>2, <1>3

LEMMA MoveConcat ==
  ASSUME NEW a \in Seq(Int), NEW b \in Seq(Int), b # <<>>
  PROVE  Append(a, Head(b)) \o Tail(b) = a \o b
<1> DEFINE e == <<Head(b)>>
           t == Tail(b)
<1>1. e \in Seq(Int) /\ t \in Seq(Int) /\ b = e \o t /\ Head(b) \in Int
  BY HeadAndTail
<1>2. Append(a, Head(b)) = a \o e
  BY <1>1, AppendIsConcat
<1> HIDE DEF e, t
<1>4. e \in Seq(Int) /\ t \in Seq(Int)
  BY <1>1
<1>3. (a \o e) \o t = a \o (e \o t)
  BY <1>4, Regrouped
<1> QED BY <1>1, <1>2, <1>3 DEF t

LEMMA HeadKept ==
  ASSUME NEW b \in Seq(Int), b # <<>>, NEW x \in Int
  PROVE  Append(b, x) \in Seq(Int) /\ Append(b, x) # <<>> /\ Head(Append(b, x)) = Head(b)
BY AppendProperties, HeadTailAppend

(* What the bridge leaves in the receive FIFO, and what the engine offers. *)
LEMMA Typed ==
  ASSUME Queues, st.tbeat \in Int
  PROVE  unread \in Seq(Int) /\ offered \in Seq(Int)
<1>1. unread \in Seq(Int)
  BY HeadTailProperties DEF Queues, unread, reading
<1>2. offered \in Seq(Int)
  BY AppendProperties DEF Queues, offered
<1> QED BY <1>1, <1>2

LEMMA ShownOne ==
  ASSUME NEW s \in Seq(Int), s # <<>>, Len(s) <= 1
  PROVE  Len(s) = 1
<1>1. Len(s) \in Nat \ {0}
  BY EmptySeq
<1>2. \A n \in Nat \ {0} : n <= 1 => n = 1
  OBVIOUS
<1> QED BY <1>1, <1>2

(* The bridge shows the oldest character, and no other. *)
LEMMA BridgeStep ==
  ASSUME Queues, Bridge, st.tbeat \in Int
  PROVE  /\ shown' \in Seq(Int) /\ Len(shown') <= 1 /\ Len(shown') \in Nat
         /\ takeRx => shown \o rxq # <<>> /\ (shown \o rxq)[1] = shown[1]
         /\ shown' \o unread = IF takeRx THEN Tail(shown \o rxq) ELSE shown \o rxq
         /\ rxq # <<>> /\ shown = <<>> => shown' # <<>>
         /\ shown # <<>> /\ rxq # <<>> => shown' # <<>>
         /\ shown = <<>> /\ rxq = <<>> => shown' = <<>>
<1>0. rxq \in Seq(Int) /\ shown \in Seq(Int) /\ Len(shown) <= 1 /\ <<>> \in Seq(Int)
  BY DEF Queues
<1>1. CASE reading
  <2>1. rxq # <<>> /\ shown' = <<Head(rxq)>> /\ unread = Tail(rxq)
    BY <1>1 DEF reading, Bridge, unread
  <2>2. rxq = <<Head(rxq)>> \o Tail(rxq) /\ <<Head(rxq)>> \in Seq(Int)
    BY <1>0, <2>1, HeadAndTail
  <2>3. shown' \o unread = rxq
    BY <2>1, <2>2
  <2>4. shown' \in Seq(Int) /\ Len(shown') = 1 /\ shown' # <<>>
    BY <2>1, <2>2
  <2>5. CASE takeRx
    <3>1. shown # <<>>
      BY <2>5 DEF takeRx
    <3>2. Tail(shown) = <<>>
      <4>1. Len(shown) = 1
        BY <1>0, <3>1, ShownOne
      <4>2. Tail(shown) \in Seq(Int) /\ Len(Tail(shown)) = 0
        BY <1>0, <3>1, <4>1, HeadTailProperties
      <4> QED BY <4>2, EmptySeq
    <3>3. /\ shown \o rxq # <<>> /\ (shown \o rxq)[1] = shown[1]
          /\ Tail(shown \o rxq) = Tail(shown) \o rxq
      BY <1>0, <3>1, TailConcat
    <3>4. <<>> \o rxq = rxq
      BY <1>0, ConcatEmptySeq
    <3>5. shown' \o unread = Tail(shown \o rxq)
      BY <2>3, <3>2, <3>3, <3>4
    <3>6. Len(shown') <= 1 /\ Len(shown') \in Nat
      BY <2>4
    <3>7. shown' \o unread = IF takeRx THEN Tail(shown \o rxq) ELSE shown \o rxq
      BY <2>5, <3>5
    <3> QED BY <2>1, <2>4, <3>1, <3>3, <3>6, <3>7
  <2>6. CASE ~takeRx
    <3>1. shown = <<>>
      BY <1>1, <2>6 DEF reading
    <3>2. <<>> \o rxq = rxq
      BY <1>0, ConcatEmptySeq
    <3> QED BY <2>1, <2>3, <2>4, <2>6, <3>1, <3>2
  <2> QED BY <2>5, <2>6
<1>2. CASE ~reading /\ takeRx
  <2>1. shown # <<>> /\ rxq = <<>> /\ shown' = <<>> /\ unread = <<>>
    BY <1>2 DEF reading, takeRx, Bridge, unread
  <2>2. Tail(shown) = <<>>
    <3>1. Len(shown) = 1
      BY <1>0, <2>1, ShownOne
    <3>2. Tail(shown) \in Seq(Int) /\ Len(Tail(shown)) = 0
      BY <1>0, <2>1, <3>1, HeadTailProperties
    <3> QED BY <3>2, EmptySeq
  <2>3. /\ shown \o rxq # <<>> /\ (shown \o rxq)[1] = shown[1]
        /\ Tail(shown \o rxq) = Tail(shown) \o rxq
    BY <1>0, <2>1, TailConcat
  <2>4. <<>> \o <<>> = <<>>
    BY <1>0, ConcatEmptySeq
  <2>5. shown' \in Seq(Int) /\ Len(shown') = 0
    BY <1>0, <2>1
  <2> QED BY <1>2, <2>1, <2>2, <2>3, <2>4, <2>5
<1>3. CASE ~reading /\ ~takeRx
  <2>1. shown' = shown /\ unread = rxq
    BY <1>3 DEF Bridge, unread
  <2>2. rxq = <<>> \/ shown # <<>>
    BY <1>3 DEF reading
  <2>3. Len(shown) \in Nat
    BY <1>0, LenProperties
  <2> QED BY <1>0, <1>3, <2>1, <2>2, <2>3
<1> QED BY <1>1, <1>2, <1>3

(* Nothing is lost and nothing changes its place, while the link is whole. *)
LEMMA PipeStep ==
  ASSUME Queues, Bridge, st.tbeat \in Int, Move \/ Wait
  PROVE  LET rest == IF takeRx THEN Tail(pipe) ELSE pipe
         IN /\ pipe \in Seq(Int)
            /\ takeRx => pipe # <<>> /\ pipe[1] = shown[1]
            /\ pipe' = IF takeTx THEN Append(rest, st.tbeat) ELSE rest
<1> DEFINE front == shown \o rxq
           left  == IF takeRx THEN Tail(front) ELSE front
           rest  == IF takeRx THEN Tail(pipe) ELSE pipe
<1>1. /\ shown \in Seq(Int) /\ rxq \in Seq(Int) /\ txq \in Seq(Int) /\ st.tbeat \in Int
      /\ unread \in Seq(Int) /\ offered \in Seq(Int)
  BY Typed DEF Queues
<1>2. front \in Seq(Int)
  BY <1>1, ConcatProperties
<1>3. pipe = front \o txq /\ pipe \in Seq(Int)
  <2>0. shown \in Seq(Int) /\ rxq \in Seq(Int) /\ txq \in Seq(Int)
    BY <1>1
  <2>1. (shown \o rxq) \o txq = shown \o (rxq \o txq)
    BY <2>0, Regrouped
  <2> QED BY <1>1, <1>2, <2>1, ConcatProperties DEF pipe
<1>4. /\ shown' \in Seq(Int)
      /\ takeRx => front # <<>> /\ front[1] = shown[1]
      /\ shown' \o unread = left
  BY BridgeStep
<1> HIDE DEF front
<1>5. takeRx => pipe # <<>> /\ pipe[1] = shown[1] /\ Tail(pipe) = Tail(front) \o txq
  BY <1>1, <1>2, <1>3, <1>4, TailConcat
<1>6. left \in Seq(Int) /\ rest = left \o txq
  BY <1>2, <1>3, <1>4, <1>5, HeadTailProperties
<1>7. rxq' \o txq' = unread \o offered
  <2>1. CASE Move
    <3>1. txq # <<>> /\ txq' = Tail(offered) /\ rxq' = Append(unread, Head(txq))
      BY <2>1 DEF Move
    <3>2. offered # <<>> /\ Head(offered) = Head(txq)
      BY <1>1, <3>1, HeadKept DEF offered
    <3>3. Append(unread, Head(offered)) \o Tail(offered) = unread \o offered
      BY <1>1, <3>2, MoveConcat
    <3> QED BY <3>1, <3>2, <3>3
  <2>2. CASE Wait
    BY <2>2 DEF Wait
  <2> QED BY <2>1, <2>2
<1>8. pipe' = shown' \o (rxq' \o txq')
  BY DEF pipe
<1>9. (shown' \o unread) \o offered = shown' \o (unread \o offered)
  <2>1. shown' \in Seq(Int) /\ unread \in Seq(Int) /\ offered \in Seq(Int)
    BY <1>1, <1>4
  <2> QED BY <2>1, Regrouped
<1> HIDE DEF left
<1>10. pipe' = left \o offered
  BY <1>4, <1>7, <1>8, <1>9
<1>11. CASE takeTx
  <2>1. offered = Append(txq, st.tbeat)
    BY <1>11 DEF offered
  <2>2. left \o Append(txq, st.tbeat) = Append(left \o txq, st.tbeat)
    BY <1>1, <1>6, AppendConcat
  <2> QED BY <1>3, <1>5, <1>6, <1>10, <1>11, <2>1, <2>2
<1>12. CASE ~takeTx
  BY <1>3, <1>5, <1>6, <1>10, <1>12 DEF offered
<1> QED BY <1>11, <1>12

(* The queues keep their types, whatever the link does. *)
LEMMA QueuesStep ==
  ASSUME Queues, CoreClock, st.tbeat \in Int
  PROVE  Queues'
<1>1. /\ unread \in Seq(Int) /\ offered \in Seq(Int)
      /\ txq \in Seq(Int) /\ gap \in 0 .. Gap /\ <<>> \in Seq(Int) /\ Gap \in Nat
  BY Typed, EngineAssumption DEF Queues
<1>2. shown' \in Seq(Int) /\ Len(shown') <= 1
  BY BridgeStep DEF CoreClock
<1>3. txq # <<>> => Head(txq) \in Int /\ offered # <<>>
  <2>1. SUFFICES ASSUME txq # <<>> PROVE Head(txq) \in Int /\ offered # <<>>
    OBVIOUS
  <2>2. Head(txq) \in Int
    BY <1>1, <2>1, HeadTailProperties
  <2>3. Append(txq, st.tbeat) # <<>>
    BY <1>1, <2>1, HeadKept
  <2> QED BY <2>1, <2>2, <2>3 DEF offered
<1>4. Append(unread, Eep) \in Seq(Int)
  BY <1>1, AppendProperties DEF Eep
<1>5. txq' \in Seq(Int) /\ rxq' \in Seq(Int) /\ gap' \in 0 .. Gap
  <2>1. CASE CoreReset
    BY <1>1, <2>1 DEF CoreReset
  <2>2. CASE Move
    BY <1>1, <1>3, <2>2, HeadTailProperties, AppendProperties DEF Move
  <2>3. CASE Drop
    BY <1>1, <1>3, <2>3, HeadTailProperties DEF Drop
  <2>4. CASE Wait
    <3>1. txq' \in Seq(Int) /\ rxq' \in Seq(Int)
      BY <1>1, <2>4 DEF Wait
    <3>2. gap' = 0 \/ (gap' = gap + 1 /\ gap < Gap)
      <4>1. /\ txq = <<>> \/ ~linkUp \/ Len(unread) >= RxCap \/ gap < Gap
            /\ gap' = IF linkUp /\ txq # <<>> /\ Len(unread) < RxCap THEN gap + 1 ELSE 0
        BY <2>4 DEF Wait
      <4>2. Len(unread) \in Nat /\ RxCap \in Nat
        BY <1>1, LenProperties, EngineAssumption
      <4>3. ~(Len(unread) >= RxCap /\ Len(unread) < RxCap)
        BY <4>2
      <4> QED BY <4>1, <4>3
    <3>3. gap' \in 0 .. Gap
      BY <1>1, <3>2
    <3> QED BY <3>1, <3>3
  <2>5. CASE Cut
    BY <1>1, <1>4, <2>5 DEF Cut
  <2> QED BY <2>1, <2>2, <2>3, <2>4, <2>5 DEF CoreClock, Idle, Connect
<1> QED BY <1>2, <1>5 DEF Queues

(***************************************************************************)
(* The programs, operation by operation.                                   *)
(***************************************************************************)
(* Twelve of the programs leave the link alone. *)
LEMMA HarmlessConcat ==
  ASSUME NEW S, NEW s \in Seq(S), NEW t \in Seq(S), AllHarmless(s), AllHarmless(t)
  PROVE  AllHarmless(s \o t)
<1> DEFINE u == s \o t
<1>1. /\ Len(s) \in Nat /\ Len(t) \in Nat /\ Len(u) = Len(s) + Len(t)
      /\ \A k \in 1 .. Len(s) + Len(t) : u[k] = IF k <= Len(s) THEN s[k] ELSE t[k - Len(s)]
  BY ConcatProperties, LenProperties
<1> HIDE DEF u
<1>2. ASSUME NEW k \in 1 .. Len(u)
      PROVE  Harmless(u[k])
  <2>1. CASE k <= Len(s)
    <3>1. k \in 1 .. Len(s) /\ u[k] = s[k]
      BY <1>1, <2>1
    <3> QED BY <3>1 DEF AllHarmless
  <2>2. CASE ~(k <= Len(s))
    <3>1. k - Len(s) \in 1 .. Len(t) /\ u[k] = t[k - Len(s)]
      BY <1>1, <2>2
    <3> QED BY <3>1 DEF AllHarmless
  <2> QED BY <2>1, <2>2
<1> QED BY <1>1, <1>2 DEF AllHarmless, u

LEMMA HarmlessOps ==
  /\ \A v : /\ Harmless(Ctrl(v)) /\ Harmless(Until(v)) /\ Harmless(Assert(v)) /\ Harmless(Rx(v))
            /\ Harmless(Send(v)) /\ Harmless(PollTc(v))
  /\ Harmless(AnyCtrl) /\ Harmless(LoopRun) /\ Harmless(Fewer) /\ Harmless(Reset)
  /\ \A x \in Int : Harmless(Tx(x))
BY DEF Harmless, Op, Ctrl, Until, Assert, Rx, Send, PollTc, AnyCtrl, LoopRun, Fewer, Reset, Tx

LEMMA HarmlessTuples ==
  ASSUME NEW a, NEW b, NEW c, Harmless(a), Harmless(b), Harmless(c)
  PROVE  /\ AllHarmless(<<a, b, c>>)
         /\ \A d, e, f : Harmless(d) /\ Harmless(e) /\ Harmless(f) =>
              AllHarmless(<<a, b, c, d, e, f>>)
BY DEF AllHarmless

LEMMA Short ==
  /\ AllHarmless(test_loopback_selftest) /\ AllHarmless(test_host_data_mover)
  /\ AllHarmless(test_continuous_loop) /\ AllHarmless(test_timecode)
  /\ AllHarmless(test_eep_roundtrip) /\ AllHarmless(test_selftest_lights_all_leds)
  /\ AllHarmless(test_key0_resets_and_recovers) /\ AllHarmless(ela_capture_demo)
  /\ AllHarmless(anybody) /\ AllHarmless(started)
<1>1. AllHarmless(test_loopback_selftest)
  BY HarmlessOps DEF test_loopback_selftest, AllHarmless
<1>2. AllHarmless(test_host_data_mover)
  BY HarmlessOps DEF test_host_data_mover, AllHarmless, Host1, Host2, Eop
<1>3. AllHarmless(test_continuous_loop)
  BY HarmlessOps, HarmlessTuples DEF test_continuous_loop
<1>4. AllHarmless(test_timecode)
  BY HarmlessOps DEF test_timecode, AllHarmless
<1>5. AllHarmless(test_eep_roundtrip)
  BY HarmlessOps DEF test_eep_roundtrip, AllHarmless, Host1, Eop, Eep
<1>6. AllHarmless(test_selftest_lights_all_leds)
  BY HarmlessOps, HarmlessTuples DEF test_selftest_lights_all_leds
<1>7. AllHarmless(test_key0_resets_and_recovers)
  BY HarmlessOps, HarmlessTuples DEF test_key0_resets_and_recovers
<1>8. AllHarmless(ela_capture_demo)
  BY HarmlessOps DEF ela_capture_demo, AllHarmless
<1>9. AllHarmless(anybody)
  BY HarmlessOps DEF anybody, AllHarmless
<1>10. AllHarmless(started)
  BY HarmlessOps DEF started, AllHarmless
<1> QED BY <1>1, <1>2, <1>3, <1>4, <1>5, <1>6, <1>7, <1>8, <1>9, <1>10

LEMMA Long ==
  /\ AllHarmless(test_loop_stop_restart) /\ AllHarmless(test_start_while_running)
  /\ AllHarmless(test_soft_reset_mid_run)
<1> DEFINE stop == Ctrl({})
           go == Ctrl(Loop)
           again == Ctrl(Loop \cup {"START"})
           soft == Ctrl(Loop \cup {"SOFT"})
           S == {stop, go, again, soft, LoopRun, Until("RUN"), Until("DONE"), Fewer}
<1>0. started \in Seq(S) /\ AllHarmless(started)
  BY Short DEF started
<1>1. AllHarmless(test_loop_stop_restart)
  <2> DEFINE t == <<stop, again, LoopRun, stop, go, LoopRun, stop>>
  <2>1. t \in Seq(S)
    OBVIOUS
  <2>2. AllHarmless(t)
    BY HarmlessOps DEF AllHarmless
  <2>3. test_loop_stop_restart = started \o t
    BY DEF test_loop_stop_restart
  <2> HIDE DEF S, t
  <2> QED BY <1>0, <2>1, <2>2, <2>3, HarmlessConcat
<1>2. AllHarmless(test_start_while_running)
  <2> DEFINE t == <<again, LoopRun, again, LoopRun, stop>>
  <2>1. t \in Seq(S)
    OBVIOUS
  <2>2. AllHarmless(t)
    BY HarmlessOps DEF AllHarmless
  <2>3. test_start_while_running = started \o t
    BY DEF test_start_while_running
  <2> HIDE DEF S, t
  <2> QED BY <1>0, <2>1, <2>2, <2>3, HarmlessConcat
<1>3. AllHarmless(test_soft_reset_mid_run)
  <2> DEFINE t == <<soft, Until("RUN"), Fewer, LoopRun, stop>>
  <2>1. t \in Seq(S)
    OBVIOUS
  <2>2. AllHarmless(t)
    BY HarmlessOps DEF AllHarmless
  <2>3. test_soft_reset_mid_run = started \o t
    BY DEF test_soft_reset_mid_run
  <2> HIDE DEF S, t
  <2> QED BY <1>0, <2>1, <2>2, <2>3, HarmlessConcat
<1> QED BY <1>1, <1>2, <1>3

(* What a part of a program does at the places from n + 1 on. *)
LEMMA CarefulConcat ==
  ASSUME NEW S, NEW s, NEW c \in Seq(S), NEW d \in Seq(S), AllCareful(s, c),
         \A k \in 1 .. Len(d) : Careful(s, Len(c) + k, d[k])
  PROVE  /\ c \o d \in Seq(S) /\ Len(c \o d) = Len(c) + Len(d)
         /\ AllCareful(s, c \o d)
<1> DEFINE u == c \o d
<1>1. /\ Len(c) \in Nat /\ Len(d) \in Nat /\ u \in Seq(S) /\ Len(u) = Len(c) + Len(d)
      /\ \A k \in 1 .. Len(c) + Len(d) : u[k] = IF k <= Len(c) THEN c[k] ELSE d[k - Len(c)]
  BY ConcatProperties, LenProperties
<1> HIDE DEF u
<1>2. ASSUME NEW k \in 1 .. Len(u)
      PROVE  Careful(s, k, u[k])
  <2>1. CASE k <= Len(c)
    <3>1. k \in 1 .. Len(c) /\ u[k] = c[k]
      BY <1>1, <2>1
    <3> QED BY <3>1 DEF AllCareful
  <2>2. CASE ~(k <= Len(c))
    <3>1. k - Len(c) \in 1 .. Len(d) /\ u[k] = d[k - Len(c)] /\ Len(c) + (k - Len(c)) = k
      BY <1>1, <2>2
    <3>2. Careful(s, Len(c) + (k - Len(c)), d[k - Len(c)])
      BY <3>1
    <3> QED BY <3>1, <3>2
  <2> QED BY <2>1, <2>2
<1> QED BY <1>1, <1>2 DEF AllCareful, u

(* The two programs that inject errors do so from one place to another. *)
LEMMA CarefulInjection == AllCareful("injection", test_error_injection)
<1> DEFINE s == "injection"
           go == Ctrl(Loop)
           soft == Ctrl(Loop \cup {"SOFT"})
           S == {go, soft, Until("RUN"), Assert("no ERR"), Inject(TRUE), Inject(FALSE),
                 Until("ERR"), Until("no RUN"), Until("no ERR"), Note, More}
           a == <<go, Until("RUN"), Assert("no ERR")>>
           b == injected
           c == recover
           u1 == a \o b
           u2 == u1 \o c
           u3 == u2 \o b
           u4 == u3 \o c
<1> USE DEF Careful, Op, Disturbed, Released, SoftAt, Restarting, KeepsChecking
<1>1. a \in Seq(S) /\ Len(a) = 3
  OBVIOUS
<1>2. AllCareful(s, a)
  <2>1. a[1] = go /\ a[2] = Until("RUN") /\ a[3] = Assert("no ERR")
    OBVIOUS
  <2>2. Careful(s, 1, go) /\ Careful(s, 2, Until("RUN")) /\ Careful(s, 3, Assert("no ERR"))
    BY DEF Ctrl, Until, Assert, Loop
  <2> HIDE DEF a, Careful
  <2>3. \A k \in 1 .. 3 : k = 1 \/ k = 2 \/ k = 3
    OBVIOUS
  <2>4. Len(a) \in Nat
    <3> HIDE DEF S
    <3> QED BY <1>1, LenProperties
  <2>5. \A k \in 1 .. Len(a) : Careful(s, k, a[k])
    BY <1>1, <2>1, <2>2, <2>3
  <2> QED BY <2>4, <2>5 DEF AllCareful
<1>3. b \in Seq(S) /\ Len(b) = 3
  BY DEF injected
<1>4. c \in Seq(S) /\ Len(c) = 6
  BY DEF recover
<1>5. \A k \in 1 .. 3 : Careful(s, 3 + k, b[k]) /\ Careful(s, 12 + k, b[k])
  <2>1. b[1] = Inject(TRUE) /\ b[2] = Until("ERR") /\ b[3] = Until("no RUN")
    BY DEF injected
  <2>2. Careful(s, 4, Inject(TRUE)) /\ Careful(s, 5, Until("ERR")) /\ Careful(s, 6, Until("no RUN"))
    BY DEF Inject, Until
  <2>3. /\ Careful(s, 13, Inject(TRUE)) /\ Careful(s, 14, Until("ERR"))
        /\ Careful(s, 15, Until("no RUN"))
    BY DEF Inject, Until
  <2> HIDE DEF b, Careful
  <2>4. \A k \in 1 .. 3 :
          \/ (k = 1 /\ 3 + k = 4 /\ 12 + k = 13)
          \/ (k = 2 /\ 3 + k = 5 /\ 12 + k = 14)
          \/ (k = 3 /\ 3 + k = 6 /\ 12 + k = 15)
    OBVIOUS
  <2> QED BY <2>1, <2>2, <2>3, <2>4
<1>6. \A k \in 1 .. 6 : Careful(s, 6 + k, c[k]) /\ Careful(s, 15 + k, c[k])
  <2>1. /\ c[1] = Inject(FALSE) /\ c[2] = soft /\ c[3] = Until("RUN")
        /\ c[4] = Until("no ERR") /\ c[5] = Note /\ c[6] = More
    BY DEF recover
  <2>2. Careful(s, 7, Inject(FALSE)) /\ Careful(s, 16, Inject(FALSE))
    BY DEF Inject
  <2>3. Careful(s, 8, soft) /\ Careful(s, 17, soft)
    <3>1. soft.kind = "ctrl" /\ soft.value = {Loop \cup {"SOFT"}}
      BY DEF Ctrl
    <3>2. KeepsChecking(s, 8, Loop \cup {"SOFT"}) /\ KeepsChecking(s, 17, Loop \cup {"SOFT"})
      <4>1. "EN" \in Loop \cup {"SOFT"} /\ "START" \notin Loop \cup {"SOFT"}
        BY DEF Loop
      <4>2. SoftAt(s, 8) /\ SoftAt(s, 17)
        OBVIOUS
      <4> HIDE DEF SoftAt
      <4> QED BY <4>1, <4>2
    <3> HIDE DEF soft, KeepsChecking
    <3> QED BY <3>1, <3>2
  <2>4. /\ Careful(s, 9, Until("RUN")) /\ Careful(s, 18, Until("RUN"))
        /\ Careful(s, 10, Until("no ERR")) /\ Careful(s, 19, Until("no ERR"))
    BY DEF Until
  <2>5. Careful(s, 11, Note) /\ Careful(s, 20, Note) /\ Careful(s, 12, More) /\ Careful(s, 21, More)
    BY DEF Note, More
  <2> HIDE DEF c, Careful
  <2>6. \A k \in 1 .. 6 :
          \/ (k = 1 /\ 6 + k = 7 /\ 15 + k = 16)
          \/ (k = 2 /\ 6 + k = 8 /\ 15 + k = 17)
          \/ (k = 3 /\ 6 + k = 9 /\ 15 + k = 18)
          \/ (k = 4 /\ 6 + k = 10 /\ 15 + k = 19)
          \/ (k = 5 /\ 6 + k = 11 /\ 15 + k = 20)
          \/ (k = 6 /\ 6 + k = 12 /\ 15 + k = 21)
    OBVIOUS
  <2> QED BY <2>1, <2>2, <2>3, <2>4, <2>5, <2>6
<1> HIDE DEF a, b, c, S, s, Careful
<1>7. u1 \in Seq(S) /\ Len(u1) = 6 /\ AllCareful(s, u1)
  <2>1. \A k \in 1 .. Len(b) : Careful(s, Len(a) + k, b[k])
    BY <1>1, <1>3, <1>5
  <2>2. a \o b \in Seq(S) /\ Len(a \o b) = Len(a) + Len(b) /\ AllCareful(s, a \o b)
    BY <1>1, <1>2, <1>3, <2>1, CarefulConcat
  <2> HIDE DEF u1
  <2>3. u1 = a \o b
    BY DEF u1
  <2> QED BY <1>1, <1>3, <2>2, <2>3
<1> HIDE DEF u1
<1>8. u2 \in Seq(S) /\ Len(u2) = 12 /\ AllCareful(s, u2)
  <2>1. \A k \in 1 .. Len(c) : Careful(s, Len(u1) + k, c[k])
    BY <1>4, <1>6, <1>7
  <2>2. u1 \o c \in Seq(S) /\ Len(u1 \o c) = Len(u1) + Len(c) /\ AllCareful(s, u1 \o c)
    BY <1>4, <1>7, <2>1, CarefulConcat
  <2> HIDE DEF u2
  <2>3. u2 = u1 \o c
    BY DEF u2
  <2> QED BY <1>4, <1>7, <2>2, <2>3
<1> HIDE DEF u2
<1>9. u3 \in Seq(S) /\ Len(u3) = 15 /\ AllCareful(s, u3)
  <2>1. \A k \in 1 .. Len(b) : Careful(s, Len(u2) + k, b[k])
    BY <1>3, <1>5, <1>8
  <2>2. u2 \o b \in Seq(S) /\ Len(u2 \o b) = Len(u2) + Len(b) /\ AllCareful(s, u2 \o b)
    BY <1>3, <1>8, <2>1, CarefulConcat
  <2> HIDE DEF u3
  <2>3. u3 = u2 \o b
    BY DEF u3
  <2> QED BY <1>3, <1>8, <2>2, <2>3
<1> HIDE DEF u3
<1>10. AllCareful(s, u4)
  <2>1. \A k \in 1 .. Len(c) : Careful(s, Len(u3) + k, c[k])
    BY <1>4, <1>6, <1>9
  <2> QED BY <1>4, <1>9, <2>1, CarefulConcat
<1>11. test_error_injection = u4
  BY DEF test_error_injection, u1, u2, u3, a, b, c
<1> QED BY <1>10, <1>11 DEF s

LEMMA CarefulUnderLoad == AllCareful("fault_loaded", test_fault_under_load)
<1> DEFINE s == "fault_loaded"
           go == Ctrl(Loop)
           soft == Ctrl(Loop \cup {"START", "SOFT"})
           S == {go, soft, Until("RUN"), Inject(TRUE), Inject(FALSE),
                 Until("ERR"), Until("no RUN"), Until("no ERR"), Note, More}
           a == <<go, Until("RUN"), Note, More>>
           b == injected
           c == <<Inject(FALSE), soft, Until("RUN"), Until("no ERR"), Note, More>>
           u1 == a \o b
           u2 == u1 \o c
<1> USE DEF Careful, Op, Disturbed, Released, SoftAt, Restarting, KeepsChecking
<1>1. a \in Seq(S) /\ Len(a) = 4
  OBVIOUS
<1>2. AllCareful(s, a)
  <2>1. a[1] = go /\ a[2] = Until("RUN") /\ a[3] = Note /\ a[4] = More
    OBVIOUS
  <2>2. Careful(s, 1, go) /\ Careful(s, 2, Until("RUN")) /\ Careful(s, 3, Note) /\ Careful(s, 4, More)
    BY DEF Ctrl, Until, Note, More, Loop
  <2> HIDE DEF a, Careful
  <2>3. \A k \in 1 .. 4 : k = 1 \/ k = 2 \/ k = 3 \/ k = 4
    OBVIOUS
  <2>4. Len(a) \in Nat
    <3> HIDE DEF S
    <3> QED BY <1>1, LenProperties
  <2>5. \A k \in 1 .. Len(a) : Careful(s, k, a[k])
    BY <1>1, <2>1, <2>2, <2>3
  <2> QED BY <2>4, <2>5 DEF AllCareful
<1>3. b \in Seq(S) /\ Len(b) = 3
  BY DEF injected
<1>4. c \in Seq(S) /\ Len(c) = 6
  OBVIOUS
<1>5. \A k \in 1 .. 3 : Careful(s, 4 + k, b[k])
  <2>1. b[1] = Inject(TRUE) /\ b[2] = Until("ERR") /\ b[3] = Until("no RUN")
    BY DEF injected
  <2>2. Careful(s, 5, Inject(TRUE)) /\ Careful(s, 6, Until("ERR")) /\ Careful(s, 7, Until("no RUN"))
    BY DEF Inject, Until
  <2> HIDE DEF b, Careful
  <2>3. \A k \in 1 .. 3 :
          \/ (k = 1 /\ 4 + k = 5)
          \/ (k = 2 /\ 4 + k = 6)
          \/ (k = 3 /\ 4 + k = 7)
    OBVIOUS
  <2> QED BY <2>1, <2>2, <2>3
<1>6. \A k \in 1 .. 6 : Careful(s, 7 + k, c[k])
  <2>1. /\ c[1] = Inject(FALSE) /\ c[2] = soft /\ c[3] = Until("RUN")
        /\ c[4] = Until("no ERR") /\ c[5] = Note /\ c[6] = More
    OBVIOUS
  <2>2. Careful(s, 8, Inject(FALSE)) /\ Careful(s, 9, soft)
    BY DEF Inject, Ctrl, Loop
  <2>3. Careful(s, 10, Until("RUN")) /\ Careful(s, 11, Until("no ERR"))
    BY DEF Until
  <2>4. Careful(s, 12, Note) /\ Careful(s, 13, More)
    BY DEF Note, More
  <2> HIDE DEF c, Careful
  <2>5. \A k \in 1 .. 6 :
          \/ (k = 1 /\ 7 + k = 8)
          \/ (k = 2 /\ 7 + k = 9)
          \/ (k = 3 /\ 7 + k = 10)
          \/ (k = 4 /\ 7 + k = 11)
          \/ (k = 5 /\ 7 + k = 12)
          \/ (k = 6 /\ 7 + k = 13)
    OBVIOUS
  <2> QED BY <2>1, <2>2, <2>3, <2>4, <2>5
<1> HIDE DEF a, b, c, S, s, Careful
<1>7. u1 \in Seq(S) /\ Len(u1) = 7 /\ AllCareful(s, u1)
  <2>1. \A k \in 1 .. Len(b) : Careful(s, Len(a) + k, b[k])
    BY <1>1, <1>3, <1>5
  <2>2. a \o b \in Seq(S) /\ Len(a \o b) = Len(a) + Len(b) /\ AllCareful(s, a \o b)
    BY <1>1, <1>2, <1>3, <2>1, CarefulConcat
  <2> HIDE DEF u1
  <2>3. u1 = a \o b
    BY DEF u1
  <2> QED BY <1>1, <1>3, <2>2, <2>3
<1> HIDE DEF u1
<1>8. AllCareful(s, u2)
  <2>1. \A k \in 1 .. Len(c) : Careful(s, Len(u1) + k, c[k])
    BY <1>4, <1>6, <1>7
  <2> QED BY <1>4, <1>7, <2>1, CarefulConcat
<1>9. test_fault_under_load = u2
  BY DEF test_fault_under_load, u1, a, b, c
<1> QED BY <1>8, <1>9 DEF s

(* Every program is of one kind or of the other. *)
LEMMA ScriptFacts ==
  ASSUME script \in DOMAIN Script
  PROVE  /\ script \notin Disturbers => AllHarmless(ops)
         /\ script \in Disturbers => AllCareful(script, ops)
<1>1. script \in {"selftest", "data_mover", "continuous", "stop_restart", "start_running",
                  "soft_reset", "injection", "timecode", "eep", "fault_loaded", "leds", "key0",
                  "capture_demo", "anybody"}
  BY DEF Script
<1>2. script = "injection" => ops = test_error_injection
  BY DEF ops, Script
<1>3. script = "fault_loaded" => ops = test_fault_under_load
  BY DEF ops, Script
<1>4. script \notin Disturbers =>
        ops \in {test_loopback_selftest, test_host_data_mover, test_continuous_loop,
                 test_loop_stop_restart, test_start_while_running, test_soft_reset_mid_run,
                 test_timecode, test_eep_roundtrip, test_selftest_lights_all_leds,
                 test_key0_resets_and_recovers, ela_capture_demo, anybody}
  BY <1>1 DEF ops, Script, Disturbers
<1> QED BY <1>2, <1>3, <1>4, CarefulInjection, CarefulUnderLoad, Short, Long DEF Disturbers

(***************************************************************************)
(* The host: what its accesses leave in the registers.                     *)
(***************************************************************************)
(* So is the operation at hand. *)
LEMMA PlaceFacts ==
  ASSUME script \in DOMAIN Script, pc \in Nat \ {0}, ~over
  PROVE  /\ script \notin Disturbers => Harmless(op)
         /\ script \in Disturbers => Careful(script, pc, op)
<1>1. Len(ops) \in Nat
  BY ScriptFacts DEF AllHarmless, AllCareful
<1>2. pc \in 1 .. Len(ops)
  BY <1>1 DEF over
<1> QED BY <1>2, ScriptFacts DEF AllHarmless, AllCareful, op

(* Every operation of a program is one of the five moves on the bus. *)
LEMMA HostMove ==
  ASSUME HostActs \/ HostPauses
  PROVE  HostMoves
<1>1. CASE HostPauses
  BY <1>1 DEF HostPauses, Pause, HostMoves, Rests
<1>2. CASE HostActs /\ axi_read
  <2>1. ~over
    BY <1>2 DEF HostActs
  <2>2. CASE poll_until
    BY <2>1, <2>2 DEF poll_until, Poll, Reading, HostMoves, Reads
  <2>3. CASE poll_timecode
    BY <2>1, <2>3 DEF poll_timecode, Poll, Reading, HostMoves, Reads
  <2>4. CASE loop_until_packets
    BY <2>1, <2>4 DEF loop_until_packets, Poll, Reading, HostMoves, Reads
  <2>5. CASE NoteCounts
    BY <2>1, <2>5 DEF NoteCounts, Advance, Reading, HostMoves, Reads
  <2>6. CASE CountsGrow
    BY <2>1, <2>6 DEF CountsGrow, Poll, Reading, HostMoves, Reads
  <2>7. CASE RunRestarted
    BY <2>1, <2>7 DEF RunRestarted, Poll, Reading, HostMoves, Reads
  <2>8. CASE pop_beats
    BY <2>1, <2>8 DEF pop_beats, Poll, Reading, HostMoves, Reads
  <2>9. CASE Check
    BY <2>1, <2>9 DEF Check, Advance, Reading, HostMoves, Reads
  <2> QED BY <1>2, <2>2, <2>3, <2>4, <2>5, <2>6, <2>7, <2>8, <2>9 DEF axi_read
<1>3. CASE HostActs /\ axi_write
  BY <1>3 DEF HostActs, axi_write, Advance, HostMoves, Addresses, Writes, Responds
<1>4. CASE HostActs /\ readDone
  BY <1>4 DEF readDone, HostMoves, Rests
<1> QED BY <1>1, <1>2, <1>3, <1>4 DEF HostActs

(* The pulses of a write end, the rest of it stays. *)
LEMMA QuietRegs ==
  ASSUME RegsOK
  PROVE  LET r == Quiet(regs)
         IN /\ RegTyped(r) /\ DOMAIN r = DOMAIN regs
            /\ r.start = FALSE /\ r.soft = FALSE /\ r.en = regs.en /\ r.inj = regs.inj
BY DEF RegsOK, RegTyped, Quiet

(* What a write leaves in the registers of the engine. *)
LEMMA WrittenRegs ==
  ASSUME HostOK, bus = "data", NEW r \in Written
  PROVE  /\ RegTyped(r)
         /\ r.inj = TRUE => Disturbed(script, pc) /\ ~Released(script, pc)
         /\ script \in Disturbers => /\ r.en = TRUE
                                     /\ r.start = TRUE => r.soft = TRUE
                                     /\ r.soft = TRUE => SoftAt(script, pc)
<1> DEFINE q == Quiet(regs)
<1>1. /\ script \in DOMAIN Script /\ pc \in Nat \ {0} /\ ~over
      /\ op.kind \in {"ctrl", "inject", "tx", "send"}
      /\ regs.inj = TRUE => Disturbed(script, pc)
      /\ script \in Disturbers => regs.en = TRUE
      /\ RegsOK
  BY DEF HostOK
<1>2. /\ script \notin Disturbers => Harmless(op)
      /\ script \in Disturbers => Careful(script, pc, op)
  BY <1>1, PlaceFacts
<1>3. /\ RegTyped(q) /\ q.start = FALSE /\ q.soft = FALSE /\ q.en = regs.en /\ q.inj = regs.inj
  BY <1>1, QuietRegs
<1>4. Disturbed(script, pc) => script \in Disturbers
  BY DEF Disturbed, Disturbers
<1>5. Released(script, pc) => script \in Disturbers
  BY DEF Released, Disturbers
<1> HIDE DEF q
<1>6. CASE op.kind = "ctrl"
  <2>1. PICK bits \in op.value : r = Control(bits)
    BY <1>6 DEF Written
  <2>2. Control(bits) = [q EXCEPT !.en = "EN" \in bits, !.loop = "LOOP" \in bits,
                                  !.start = "START" \in bits, !.soft = "SOFT" \in bits]
    BY DEF Control, q
  <2>3. /\ DOMAIN r = DOMAIN q /\ r.inj = q.inj /\ r.dmBeat = q.dmBeat
        /\ r.en = ("EN" \in bits) /\ r.start = ("START" \in bits) /\ r.soft = ("SOFT" \in bits)
    BY <1>3, <2>1, <2>2 DEF RegTyped
  <2>4. RegTyped(r)
    BY <1>3, <2>3 DEF RegTyped
  <2>5. r.inj = TRUE => Disturbed(script, pc) /\ ~Released(script, pc)
    BY <1>1, <1>2, <1>3, <1>5, <1>6, <2>3 DEF Careful
  <2>6. script \in Disturbers => KeepsChecking(script, pc, bits)
    BY <1>2, <1>6, <2>1 DEF Careful
  <2> QED BY <2>3, <2>4, <2>5, <2>6 DEF KeepsChecking
<1>7. CASE op.kind = "inject"
  <2>1. r = [q EXCEPT !.inj = op.value]
    BY <1>7 DEF Written, q
  <2>2. script \in Disturbers /\ op.value \in BOOLEAN
    BY <1>2, <1>7 DEF Harmless, Careful
  <2>3. /\ DOMAIN r = DOMAIN q /\ r.inj = op.value /\ r.dmBeat = q.dmBeat
        /\ r.en = q.en /\ r.start = q.start /\ r.soft = q.soft
    BY <1>3, <2>1 DEF RegTyped
  <2>4. RegTyped(r)
    BY <1>3, <2>2, <2>3 DEF RegTyped
  <2>5. r.inj = TRUE => Disturbed(script, pc) /\ ~Released(script, pc)
    BY <1>2, <1>7, <2>2, <2>3 DEF Careful
  <2> QED BY <1>1, <1>3, <2>3, <2>4, <2>5
<1>8. CASE op.kind = "tx"
  <2>1. r = [q EXCEPT !.dmBeat = op.value, !.dmPush = TRUE]
    BY <1>8 DEF Written, q
  <2>2. script \notin Disturbers /\ op.value \in Int
    BY <1>2, <1>8 DEF Harmless, Careful
  <2>3. /\ DOMAIN r = DOMAIN q /\ r.inj = q.inj /\ r.dmBeat = op.value
        /\ r.en = q.en /\ r.start = q.start /\ r.soft = q.soft
    BY <1>3, <2>1 DEF RegTyped
  <2>4. RegTyped(r)
    BY <1>3, <2>2, <2>3 DEF RegTyped
  <2> QED BY <1>1, <1>3, <1>4, <2>2, <2>3, <2>4
<1>9. CASE op.kind = "send"
  <2>1. r = [q EXCEPT !.tc = [val |-> op.value, n |-> pc], !.tcPush = TRUE]
    BY <1>9 DEF Written, q
  <2>3. /\ DOMAIN r = DOMAIN q /\ r.inj = q.inj /\ r.dmBeat = q.dmBeat
        /\ r.en = q.en /\ r.start = q.start /\ r.soft = q.soft
    BY <1>3, <2>1 DEF RegTyped
  <2>4. RegTyped(r)
    BY <1>3, <2>3 DEF RegTyped
  <2>5. r.inj = TRUE => Disturbed(script, pc) /\ ~Released(script, pc)
    BY <1>1, <1>2, <1>3, <1>5, <1>9, <2>3 DEF Careful
  <2> QED BY <1>1, <1>3, <2>3, <2>4, <2>5
<1> QED BY <1>1, <1>6, <1>7, <1>8, <1>9

(* The places follow one another. *)
LEMMA Places ==
  ASSUME NEW s, NEW k \in Nat
  PROVE  /\ Disturbed(s, k) /\ ~Released(s, k) => Disturbed(s, k + 1)
         /\ SoftAt(s, k) => Restarting(s, k + 1)
         /\ Disturbed(s, k) => s \in Disturbers /\ ~Restarting(s, k)
<1>1. Disturbed(s, k) /\ ~Released(s, k) => Disturbed(s, k + 1)
  BY DEF Disturbed, Released
<1>2. SoftAt(s, k) => Restarting(s, k + 1)
  BY DEF SoftAt, Restarting
<1>3. Disturbed(s, k) => s \in Disturbers /\ ~Restarting(s, k)
  BY DEF Disturbed, Disturbers, Restarting
<1> QED BY <1>1, <1>2, <1>3

(* The host keeps to what its program says. *)
LEMMA HostStep ==
  ASSUME HostOK, HostMoves, UNCHANGED script
  PROVE  HostOK'
<1>1. /\ script \in DOMAIN Script /\ pc \in Nat \ {0} /\ pc \in Nat
      /\ regs.start = TRUE \/ regs.soft = TRUE => bus = "resp"
      /\ regs.inj = TRUE => Disturbed(script, pc) /\ ~(Released(script, pc) /\ bus = "resp")
      /\ script \in Disturbers => regs.en = TRUE
      /\ bus \in {"data", "resp"} => ~over /\ op.kind \in {"ctrl", "inject", "tx", "send"}
      /\ RegsOK
  BY DEF HostOK
<1>2. script' = script /\ ops' = ops
  BY DEF ops
<1>3. pc' = pc => over' = over /\ op' = op
  BY <1>2 DEF over, op
<1>4. script' \in DOMAIN Script /\ pc' \in Nat \ {0}
  BY <1>1, <1>2 DEF HostMoves, Reads, Addresses, Writes, Responds, Rests
<1>5. CASE Writes
  <2>1. /\ RegTyped(regs')
        /\ regs'.inj = TRUE => Disturbed(script, pc) /\ ~Released(script, pc)
        /\ script \in Disturbers => /\ regs'.en = TRUE
                                    /\ regs'.start = TRUE => regs'.soft = TRUE
                                    /\ regs'.soft = TRUE => SoftAt(script, pc)
    BY <1>5, WrittenRegs DEF Writes
  <2>2. bus = "data" /\ bus' = "resp" /\ pc' = pc
    BY <1>5 DEF Writes
  <2> QED BY <1>1, <1>2, <1>3, <1>4, <2>1, <2>2
          DEF HostOK, RegsOK, RegTyped, Disturbed, Released, SoftAt
<1>6. CASE regs' = Quiet(regs)
  <2>1. /\ RegTyped(regs') /\ regs'.start = FALSE /\ regs'.soft = FALSE
        /\ regs'.en = regs.en /\ regs'.inj = regs.inj
    BY <1>1, <1>6, QuietRegs
  <2>2. regs'.inj = TRUE => Disturbed(script, pc') /\ ~(Released(script, pc') /\ bus' = "resp")
    <3>1. SUFFICES ASSUME regs.inj = TRUE
                   PROVE  Disturbed(script, pc') /\ ~(Released(script, pc') /\ bus' = "resp")
      BY <2>1
    <3>2. Disturbed(script, pc) /\ ~(Released(script, pc) /\ bus = "resp") /\ script \in Disturbers
      BY <1>1, <3>1, Places
    <3>3. CASE Reads
      <4>1. Careful(script, pc, op)
        BY <1>1, <3>2, <3>3, PlaceFacts DEF Reads
      <4>2. ~Released(script, pc)
        BY <3>3, <4>1 DEF Reads, Careful
      <4>3. Disturbed(script, pc + 1)
        BY <1>1, <3>2, <4>2, Places
      <4> QED BY <3>2, <3>3, <4>3 DEF Reads
    <3>4. CASE Responds
      <4>1. bus = "resp" /\ bus' = "free" /\ pc' = pc + 1
        BY <3>4 DEF Responds
      <4>2. Disturbed(script, pc + 1)
        BY <1>1, <3>2, <4>1, Places
      <4> QED BY <4>1, <4>2
    <3>5. CASE Addresses \/ Rests
      BY <3>2, <3>5 DEF Addresses, Rests
    <3>6. CASE Writes
      <4>1. bus = "data" /\ regs' \in Written /\ pc' = pc
        BY <3>6 DEF Writes
      <4>2. regs'.inj = TRUE => Disturbed(script, pc) /\ ~Released(script, pc)
        BY <4>1, WrittenRegs
      <4>3. regs'.inj = TRUE
        BY <2>1, <3>1
      <4> QED BY <4>1, <4>2, <4>3
    <3> QED BY <3>3, <3>4, <3>5, <3>6 DEF HostMoves
  <2>3. bus' \in {"data", "resp"} => ~over' /\ op'.kind \in {"ctrl", "inject", "tx", "send"}
    BY <1>1, <1>3 DEF HostMoves, Reads, Addresses, Writes, Responds, Rests
  <2> QED BY <1>1, <1>2, <1>4, <2>1, <2>2, <2>3
          DEF HostOK, RegsOK, RegTyped, Disturbed, Released, SoftAt
<1> QED BY <1>5, <1>6 DEF HostMoves, Reads, Addresses, Writes, Responds, Rests

(***************************************************************************)
(* One clock: the engine, the master, the flags of the core.               *)
(***************************************************************************)
(* A clock of the engine, with the self-check or with the data mover. *)
LEMMA EngineStep ==
  ASSUME BeatInv, EngineOK(st), RegsOK, shown \in Seq(Int), EngineClock
  PROVE  /\ EngineOK(st') /\ ErrKept(st')
         /\ aborts \/ regs.en = FALSE => st'.tstate = "IDLE"
         /\ ~aborts /\ regs.en = TRUE => RunStep(st')
<1>1. st' = IF regs.en THEN SelfCheck ELSE DataMover
  BY DEF EngineClock
<1>2. CASE regs.en = TRUE
  <2>1. st' = SelfCheck
    BY <1>1, <1>2
  <2>2. /\ EngineOK(SelfCheck) /\ ErrKept(SelfCheck)
        /\ regs.start \/ regs.soft => SelfCheck.tstate = "IDLE"
        /\ ~(regs.start \/ regs.soft) => RunStep(SelfCheck)
    BY SelfCheckStep
  <2> QED BY <1>2, <2>1, <2>2 DEF aborts, RegsOK, RegTyped
<1>3. CASE regs.en = FALSE
  <2>1. st' = DataMover
    BY <1>1, <1>3
  <2>2. EngineOK(DataMover) /\ DataMover.tstate = "IDLE" /\ DataMover.errCount = st.errCount
    BY DataMoverStep DEF RegsOK, RegTyped
  <2> QED BY <1>3, <2>1, <2>2 DEF ErrKept
<1> QED BY <1>2, <1>3 DEF RegsOK, RegTyped

(* The order of the transactions of the master. *)
LEMMA PhaseStep ==
  ASSUME MasterOK, RegsOK, EngineClock
  PROVE  /\ regs.soft = TRUE => phase' = "RST"
         /\ regs.soft = FALSE =>
              /\ phase = "RST" => phase' = "CRST"
              /\ phase = "CRST" => phase' = "CTRL"
              /\ phase = "CTRL" => phase' = "DIV"
              /\ phase = "DIV" => phase' = "ID"
              /\ phase = "TC_CLR" => phase' = "TC_TX"
              /\ phase \in {"ID", "CLR", "TC_TX", "TCRX"} => phase' = "STAT"
              /\ phase = "STAT" => phase' \in {"CLR", "TC_CLR", "TCRX"}
         /\ bringup' = (regs.soft = FALSE /\ (bringup = TRUE \/ phase = "STAT"))
         /\ run' = IF phase = "STAT" THEN linkUp ELSE run
<1>1. MasterClock(TRUE, linkUp, regs.tcPush, regs.soft)
  BY DEF EngineClock
<1>2. regs.soft \in BOOLEAN /\ bringup \in BOOLEAN /\ phase \in Phase
  BY DEF RegsOK, RegTyped, MasterOK
<1>3. /\ follows["RST"] = "CRST" /\ follows["CRST"] = "CTRL" /\ follows["CTRL"] = "DIV"
      /\ follows["DIV"] = "ID" /\ follows["TC_CLR"] = "TC_TX" /\ follows["ID"] = "STAT"
      /\ follows["CLR"] = "STAT" /\ follows["TC_TX"] = "STAT" /\ follows["TCRX"] = "STAT"
  BY DEF follows, Phase
<1>4. phase' = IF regs.soft THEN "RST"
               ELSE IF phase = "STAT" THEN afterStatus(linkUp) ELSE follows[phase]
  BY <1>1 DEF MasterClock
<1>5. bringup' = (~regs.soft /\ (bringup \/ (TRUE /\ phase = "STAT")))
  BY <1>1 DEF MasterClock
<1>6. run' = IF TRUE /\ phase = "STAT" THEN linkUp ELSE run
  BY <1>1 DEF MasterClock
<1>7. afterStatus(linkUp) \in {"CLR", "TC_CLR", "TCRX"}
  BY DEF afterStatus
<1>8. bringup' = (regs.soft = FALSE /\ (bringup = TRUE \/ phase = "STAT"))
  BY <1>2, <1>5
<1> QED BY <1>2, <1>3, <1>4, <1>6, <1>7, <1>8

(* A run begins, and goes on, only after the bring-up and without an abort. *)
LEMMA MasterStep ==
  ASSUME BeatInv, EngineOK(st), MasterOK, RegsOK, LinkOK, shown \in Seq(Int),
         EngineClock, CoreClock
  PROVE  MasterOK'
<1>1. coreRst' = (phase = "CRST" \/ (coreRst /\ phase # "CTRL"))
  BY DEF CoreClock, CoreRegisters
<1>2. /\ phase \in Phase /\ bringup \in BOOLEAN /\ run \in BOOLEAN /\ coreRst \in BOOLEAN
      /\ phase \in Early => bringup = FALSE
      /\ phase \in Phase \ (Early \cup {"STAT"}) => bringup = TRUE
      /\ coreRst = TRUE => phase \in {"RST", "CRST", "CTRL"}
      /\ st.tstate # "IDLE" => bringup = TRUE
      /\ regs.soft \in BOOLEAN /\ linkUp \in BOOLEAN
  BY DEF MasterOK, RegsOK, RegTyped, LinkOK
<1>3. phase' \in Phase /\ bringup' \in BOOLEAN /\ run' \in BOOLEAN /\ coreRst' \in BOOLEAN
  BY <1>1, <1>2, PhaseStep DEF Phase
<1>4. phase' \in Early => bringup' = FALSE
  BY <1>2, PhaseStep DEF Phase, Early
<1>5. phase' \in Phase \ (Early \cup {"STAT"}) => bringup' = TRUE
  BY <1>2, PhaseStep DEF Phase, Early
<1>6. coreRst' = TRUE => phase' \in {"RST", "CRST", "CTRL"}
  BY <1>1, <1>2, PhaseStep DEF Phase
<1>7. st'.tstate # "IDLE" => bringup' = TRUE
  <2>1. SUFFICES ASSUME st'.tstate # "IDLE" PROVE bringup' = TRUE
    OBVIOUS
  <2>2. regs.soft = FALSE /\ RunStep(st')
    BY <1>2, <2>1, EngineStep DEF aborts, RegsOK, RegTyped
  <2>3. bringup = TRUE
    BY <1>2, <2>1, <2>2 DEF RunStep, Waits, Begins, GivesUp, Flushes, Opens, Moves, up, Sending
  <2> QED BY <2>2, <2>3, PhaseStep
<1> QED BY <1>3, <1>4, <1>5, <1>6, <1>7 DEF MasterOK, Early, Phase

(* A run counts as disturbed until the next one begins. *)
LEMMA FaultStep ==
  ASSUME CoreClock
  PROVE  /\ faulted' = (cut \/ (faulted /\ ~(st.tstate = "IDLE" /\ st'.tstate = "FLUSH")))
         /\ coreRst' = (phase = "CRST" \/ (coreRst /\ phase # "CTRL"))
BY DEF CoreClock, CoreRegisters

(* The flags of the core are flags. *)
LEMMA LinkStep ==
  ASSUME LinkOK, RegsOK, CoreClock
  PROVE  LinkOK'
<1>1. linkUp' \in BOOLEAN /\ open' \in BOOLEAN /\ discard' \in BOOLEAN
  BY DEF LinkOK, CoreClock, CoreReset, Move, Drop, Idle, Connect, Cut, Wait, Ends
<1>2. faulted' \in BOOLEAN
  BY FaultStep DEF LinkOK
<1> QED BY <1>1, <1>2 DEF LinkOK

(***************************************************************************)
(* Each part of the invariant in one clock.                                *)
(***************************************************************************)
(* What the bridge shows is the oldest character on its way. *)
LEMMA PipeHead ==
  ASSUME Queues, takeRx
  PROVE  pipe \in Seq(Int) /\ pipe # <<>> /\ pipe[1] = shown[1]
<1>1. shown \in Seq(Int) /\ rxq \in Seq(Int) /\ txq \in Seq(Int) /\ shown # <<>>
  BY DEF Queues, takeRx
<1>2. rxq \o txq \in Seq(Int)
  BY <1>1, ConcatProperties
<1> DEFINE r == rxq \o txq
<1> HIDE DEF r
<1>3. r \in Seq(Int) /\ pipe = shown \o r
  BY <1>2 DEF r, pipe
<1> QED BY <1>1, <1>3, TailConcat

(* In a run that was not disturbed the next character is the expected one. *)
LEMMA HeadExpected ==
  ASSUME Queues, EngineOK(st), RunOK, faulted = FALSE, checks
  PROVE  shown[1] = Expected
<1>1. pipe \in Seq(Int) /\ pipe # <<>> /\ pipe[1] = shown[1]
  BY PipeHead DEF checks
<1>2. Chain(pipe, st.rxPrbs, st.expIdx, st.txPrbs, At(st))
  BY DEF RunOK, checks
<1>3. PICK r \in Int, k \in Int : Place(st.rxPrbs, st.expIdx, pipe[1], r, k)
  BY <1>1, <1>2, ChainTail
<1> QED BY <1>1, <1>3 DEF Place, Expected

(* No error in a run that was not disturbed. *)
LEMMA ErrStep ==
  ASSUME BeatInv, EngineOK(st), RegsOK, Queues, LinkOK, RunOK, ErrOK, EngineClock, CoreClock
  PROVE  ErrOK'
<1>1. SUFFICES ASSUME faulted' = FALSE PROVE st'.errCount = 0
  BY DEF ErrOK
<1>2. EngineOK(st') /\ ErrKept(st')
  BY EngineStep DEF Queues
<1>3. CASE faulted = FALSE
  <2>1. checks => shown[1] = Expected
    BY <1>3, HeadExpected
  <2> QED BY <1>2, <1>3, <2>1 DEF ErrKept, ErrOK
<1>4. CASE faulted = TRUE
  <2>1. st'.tstate = "FLUSH"
    BY <1>1, <1>4, FaultStep
  <2> QED BY <1>2, <2>1 DEF EngineOK, ModeOK
<1> QED BY <1>3, <1>4 DEF LinkOK

(* While a run lasts the core keeps everything, unless the link is disturbed. *)
LEMMA Kept ==
  ASSUME MasterOK, LinkOK, RegsOK, DiscardOK, CoreClock, faulted' = FALSE,
         st.tstate # "IDLE"
  PROVE  /\ faulted = FALSE
         /\ Move \/ Wait
         /\ linkUp = TRUE => linkUp' = TRUE
         /\ run = TRUE => linkUp' = linkUp
         /\ Bridge
<1>1. faulted = FALSE /\ ~cut
  BY FaultStep DEF LinkOK
<1>2. coreRst = FALSE
  BY DEF MasterOK, Early
<1>3. discard = FALSE
  BY <1>1 DEF DiscardOK, LinkOK
<1>4. ~CoreReset /\ ~Drop
  BY <1>2, <1>3 DEF CoreReset, Drop
<1>5. ~Cut
  BY <1>1 DEF Cut, cut
<1>6. Move \/ Idle \/ Connect
  BY <1>4, <1>5 DEF CoreClock
<1>7. linkUp' = linkUp \/ (linkUp = FALSE /\ linkUp' = TRUE /\ run # TRUE)
  BY <1>6 DEF Move, Idle, Connect, LinkOK
<1> QED BY <1>1, <1>6, <1>7 DEF Idle, Connect, CoreClock

(* When a flush is over nothing is on its way. *)
LEMMA Flushed ==
  ASSUME EngineOK(st), Queues, LinkOK, FlushOK, faulted = FALSE, st.tstate = "FLUSH",
         up, shown = <<>>, st.flush = FlushIdle - 1, run \in BOOLEAN
  PROVE  pipe = <<>>
<1>1. /\ Gap \in Nat /\ FlushIdle \in Nat /\ FlushIdle > Gap + 2 /\ gap \in 0 .. Gap
      /\ st.flush \in Nat
  BY EngineAssumption DEF Queues, EngineOK, Counters
<1>2. run = TRUE
  BY DEF up
<1>3. ~(st.flush <= Gap + 1) /\ ~(st.flush <= gap) /\ st.flush # 0 /\ st.flush # 1
  BY <1>1
<1>4. linkUp = TRUE
  BY <1>2, <1>3 DEF FlushOK, LinkOK
<1>5. rxq = <<>> /\ txq = <<>>
  BY <1>3, <1>4 DEF FlushOK
<1>6. <<>> \o (<<>> \o <<>>) = <<>>
  <2>1. <<>> \in Seq(Int)
    OBVIOUS
  <2>2. <<>> \o <<>> = <<>>
    BY <2>1, ConcatEmptySeq
  <2> QED BY <2>2
<1> QED BY <1>5, <1>6 DEF pipe

(* Sender and checker stay as far apart as what is on its way. *)
LEMMA RunStepOK ==
  ASSUME BeatInv, EngineOK(st), RegsOK, Queues, MasterOK, LinkOK, FlushOK, DiscardOK, RunOK,
         EngineClock, CoreClock
  PROVE  RunOK'
<1> DEFINE n == st'
           rest == IF takeRx THEN Tail(pipe) ELSE pipe
<1>1. SUFFICES ASSUME faulted' = FALSE, n.checking = TRUE
               PROVE  /\ n.txCount = n.rxCount + Len(pipe')
                      /\ Chain(pipe', n.rxPrbs, n.expIdx, n.txPrbs, At(n))
  BY DEF RunOK, Chain, Place, At, next
<1>2. EngineOK(n)
  BY EngineStep DEF Queues
<1>3. n.tstate \notin {"IDLE", "FLUSH"}
  BY <1>1, <1>2 DEF EngineOK, ModeOK
<1>4. RunStep(n)
  BY <1>3, EngineStep DEF Queues, RegsOK, RegTyped
<1>5. st.tstate # "IDLE"
  BY <1>3, <1>4 DEF RunStep, Waits, Begins, GivesUp, Flushes, Opens, Moves, Sending
<1>6. faulted = FALSE /\ (Move \/ Wait) /\ Bridge
  BY <1>1, <1>5, Kept
<1>7. st.tbeat \in Int /\ st.txPrbs \in Int /\ st.rxPrbs \in Int /\ st.expIdx \in Int
  BY DEF EngineOK, Counters
<1>8. /\ pipe \in Seq(Int)
      /\ takeRx => pipe # <<>> /\ pipe[1] = shown[1]
      /\ pipe' = IF takeTx THEN Append(rest, st.tbeat) ELSE rest
  BY <1>6, <1>7, PipeStep
<1> HIDE DEF n
<1>9. CASE Opens(n)
  <2>1. st.tstate = "FLUSH" /\ up /\ shown = <<>> /\ st.flush = FlushIdle - 1
    BY <1>9 DEF Opens
  <2>2. pipe = <<>>
    BY <1>6, <2>1, Flushed DEF MasterOK
  <2>3. ~takeTx /\ ~takeRx
    BY <2>1 DEF takeTx, takeRx, BeatInv, OfferOK
  <2>4. pipe' = <<>>
    BY <1>8, <2>2, <2>3
  <2>5. /\ st.txIdx = 0 /\ st.txPrbs = 0 /\ st.txCount = 0
        /\ st.expIdx = 0 /\ st.rxPrbs = 0 /\ st.rxCount = 0
    BY <2>1 DEF EngineOK, ModeOK
  <2>6. /\ n.txPrbs = 0 /\ n.txCount = 0 /\ At(n) = 0
        /\ n.expIdx = 0 /\ n.rxPrbs = 0 /\ n.rxCount = 0
    BY <1>9, <2>5 DEF Opens, RxSame, At
  <2>7. Chain(<<>>, 0, 0, 0, 0)
    BY ChainEmpty
  <2> QED BY <2>4, <2>6, <2>7
<1>10. CASE Moves(n) /\ Receives(n)
  <2>1. st.checking = TRUE
    BY <1>1, <1>10 DEF Receives
  <2>2. /\ st.txCount = st.rxCount + Len(pipe)
        /\ Chain(pipe, st.rxPrbs, st.expIdx, st.txPrbs, At(st))
    BY <1>6, <2>1 DEF RunOK
  <2>3. /\ st.txCount \in Nat /\ st.rxCount \in Nat /\ n.rxCount \in Nat
        /\ n.txPrbs \in Int /\ n.rxPrbs \in Int /\ n.expIdx \in Int /\ n.txIdx \in Int /\ LEN \in Int
    BY <1>2, EngineAssumption DEF EngineOK, Counters
  <2>4. /\ rest \in Seq(Int)
        /\ st.txCount = n.rxCount + Len(rest)
        /\ Chain(rest, n.rxPrbs, n.expIdx, st.txPrbs, At(st))
    <3>1. CASE takeRx
      <4>1. checks
        BY <2>1, <3>1 DEF checks
      <4>2. shown[1] = Expected
        BY <1>6, <4>1, HeadExpected
      <4>3. n.rxCount = st.rxCount + 1 /\ Place(st.rxPrbs, st.expIdx, shown[1], n.rxPrbs, n.expIdx)
        BY <1>10, <4>1, <4>2 DEF Receives
      <4>4. PICK r \in Int, k \in Int :
              /\ Place(st.rxPrbs, st.expIdx, pipe[1], r, k)
              /\ Chain(Tail(pipe), r, k, st.txPrbs, At(st))
        BY <1>8, <2>2, <3>1, ChainTail
      <4>5. r = n.rxPrbs /\ k = n.expIdx
        BY <1>8, <3>1, <4>3, <4>4 DEF Place
      <4>6. Tail(pipe) \in Seq(Int) /\ Len(Tail(pipe)) = Len(pipe) - 1 /\ Len(pipe) \in Nat
        BY <1>8, <3>1, HeadTailProperties, LenProperties
      <4>7. st.txCount = n.rxCount + Len(Tail(pipe))
        BY <2>2, <2>3, <4>3, <4>6
      <4> QED BY <3>1, <4>4, <4>5, <4>6, <4>7
    <3>2. CASE ~takeRx
      <4>1. RxSame(st, n)
        BY <1>10, <3>2 DEF Receives, checks
      <4> QED BY <1>8, <2>2, <3>2, <4>1 DEF RxSame
    <3> QED BY <3>1, <3>2
  <2> HIDE DEF rest
  <2>5. CASE takeTx
    <3>1. /\ n.txCount = st.txCount + 1
          /\ Place(st.txPrbs, At(st), st.tbeat, n.txPrbs, At(n))
      BY <1>10, <2>5 DEF Moves
    <3>2. At(n) \in Int
      BY <2>3 DEF At
    <3>3. pipe' = Append(rest, st.tbeat) /\ Len(pipe') = Len(rest) + 1 /\ Len(rest) \in Nat
      BY <1>7, <1>8, <2>4, <2>5, AppendProperties, LenProperties
    <3>4. Chain(Append(rest, st.tbeat), n.rxPrbs, n.expIdx, n.txPrbs, At(n))
      BY <1>7, <2>3, <2>4, <3>1, <3>2, ChainAppend
    <3>5. n.txCount = n.rxCount + Len(pipe')
      <4>1. st.txCount = n.rxCount + Len(rest) /\ n.rxCount \in Nat
        BY <2>3, <2>4
      <4> QED BY <3>1, <3>3, <4>1
    <3> QED BY <3>3, <3>4, <3>5
  <2>6. CASE ~takeTx
    <3>1. n.txCount = st.txCount /\ n.txPrbs = st.txPrbs /\ At(n) = At(st)
      BY <1>10, <2>6 DEF Moves
    <3> QED BY <1>8, <2>4, <2>6, <3>1
  <2> QED BY <2>5, <2>6
<1> QED BY <1>3, <1>4, <1>9, <1>10 DEF RunStep, Waits, Begins, GivesUp, Flushes

(* What is still on its way when a flush begins moves on, and each clock of *)
(* silence brings it nearer: through the link in Gap clocks, and out.       *)
LEMMA FlushStep ==
  ASSUME BeatInv, EngineOK(st), RegsOK, Queues, MasterOK, LinkOK, FlushOK, DiscardOK,
         EngineClock, CoreClock
  PROVE  FlushOK'
<1> DEFINE n == st'
<1>1. SUFFICES ASSUME n.tstate = "FLUSH", faulted' = FALSE
      PROVE  /\ linkUp' = TRUE /\ shown' = <<>> =>
                  /\ rxq' # <<>> => n.flush <= Gap + 1
                  /\ rxq' = <<>> /\ txq' # <<>> => n.flush <= gap'
             /\ linkUp' = FALSE /\ run' = TRUE => \/ n.flush = 0 /\ phase' \in {"STAT", "TC_TX"}
                                                  \/ n.flush = 1 /\ phase' = "STAT"
  BY DEF FlushOK
<1>2. regs.soft = FALSE /\ RunStep(n)
  BY <1>1, EngineStep DEF aborts, Queues, RegsOK, RegTyped
<1>3. Begins(n) \/ Flushes(n)
  BY <1>1, <1>2 DEF RunStep, Waits, GivesUp, Opens, Moves, Sending
<1>4. st.tbeat \in Int /\ st.flush \in Nat /\ Gap \in Nat /\ gap \in 0 .. Gap /\ RxCap \in Nat /\ RxCap > 1
  BY EngineAssumption DEF EngineOK, Counters, Queues
<1>5. gap' \in 0 .. Gap
  BY <1>4, QueuesStep DEF Queues
<1>6. /\ phase \in Phase
      /\ run' = IF phase = "STAT" THEN linkUp ELSE run
      /\ up => bringup = TRUE /\ run = TRUE
      /\ phase \in Early => bringup = FALSE
      /\ coreRst = TRUE => phase \in Early
      /\ linkUp \in BOOLEAN /\ coreRst \in BOOLEAN
  BY PhaseStep DEF MasterOK, up, Early, LinkOK
<1> HIDE DEF n
<1>7. CASE Begins(n)
  <2>1. n.flush = 0 /\ up
    BY <1>7 DEF Begins
  <2>2. n.flush <= Gap + 1 /\ n.flush <= gap'
    BY <1>4, <1>5, <2>1
  <2>3. linkUp' = FALSE /\ run' = TRUE => phase' \in {"STAT", "TC_TX"}
    <3>1. SUFFICES ASSUME linkUp' = FALSE, run' = TRUE PROVE phase' \in {"STAT", "TC_TX"}
      OBVIOUS
    <3>2. phase \notin Early /\ ~CoreReset
      BY <1>6, <2>1 DEF CoreReset
    <3>3. ~cut
      BY <1>1, FaultStep
    <3>4. linkUp = FALSE
      BY <1>6, <3>1, <3>2, <3>3 DEF CoreClock, Move, Drop, Idle, Connect, Cut, cut
    <3>5. phase # "STAT"
      BY <1>6, <3>1, <3>4
    <3> QED BY <1>2, <1>6, <3>2, <3>5, PhaseStep DEF Phase, Early
  <2> QED BY <2>1, <2>2, <2>3
<1>8. CASE Flushes(n)
  <2>1. st.tstate = "FLUSH" /\ up /\ n.flush = IF shown # <<>> THEN 0 ELSE st.flush + 1
    BY <1>8 DEF Flushes
  <2>2. faulted = FALSE /\ (Move \/ Wait) /\ linkUp' = linkUp /\ Bridge
    BY <1>1, <1>6, <2>1, Kept
  <2>3. ~takeTx
    BY <2>1 DEF takeTx, BeatInv, OfferOK
  <2>4. /\ linkUp = TRUE /\ shown = <<>> =>
             /\ rxq # <<>> => st.flush <= Gap + 1
             /\ rxq = <<>> /\ txq # <<>> => st.flush <= gap
        /\ linkUp = FALSE /\ run = TRUE => \/ st.flush = 0 /\ phase \in {"STAT", "TC_TX"}
                                           \/ st.flush = 1 /\ phase = "STAT"
    BY <2>1, <2>2 DEF FlushOK
  <2>5. ASSUME linkUp' = TRUE, shown' = <<>>
        PROVE  /\ rxq' # <<>> => n.flush <= Gap + 1
               /\ rxq' = <<>> /\ txq' # <<>> => n.flush <= gap'
    <3>1. CASE shown # <<>>
      BY <1>4, <1>5, <2>1, <3>1
    <3>2. CASE shown = <<>>
      <4>1. rxq = <<>>
        BY <1>4, <2>2, <2>5, <3>2, BridgeStep
      <4>2. unread = <<>> /\ offered = txq
        BY <2>3, <4>1 DEF unread, reading, offered
      <4>3. n.flush = st.flush + 1 /\ (txq # <<>> => st.flush <= gap)
        BY <2>1, <2>2, <2>4, <2>5, <3>2, <4>1
      <4>4. CASE Move
        <5>1. txq # <<>> /\ rxq' = Append(<<>>, Head(txq))
          BY <4>2, <4>4 DEF Move
        <5>2. rxq' # <<>>
          <6>1. Head(txq) \in Int /\ <<>> \in Seq(Int)
            BY <5>1, HeadTailProperties DEF Queues
          <6> QED BY <5>1, <6>1, AppendProperties
        <5> QED BY <1>4, <4>3, <5>1, <5>2
      <4>5. CASE Wait
        <5>1. Len(<<>>) < RxCap
          BY <1>4
        <5>2. rxq' = <<>> /\ txq' = txq /\ gap' = IF linkUp /\ txq # <<>> THEN gap + 1 ELSE 0
          BY <4>2, <4>5, <5>1 DEF Wait
        <5>3. txq # <<>> => gap' = gap + 1
          BY <2>2, <2>5, <5>2
        <5> QED BY <1>4, <4>3, <5>2, <5>3
      <4> QED BY <2>2, <4>4, <4>5
    <3> QED BY <3>1, <3>2
  <2>6. ASSUME linkUp' = FALSE, run' = TRUE
        PROVE  n.flush \in {0, 1} /\ phase' = "STAT"
    <3>1. linkUp = FALSE /\ phase # "STAT" /\ run = TRUE
      BY <1>6, <2>1, <2>2, <2>6
    <3>2. st.flush = 0 /\ phase = "TC_TX"
      BY <2>4, <3>1
    <3>3. n.flush \in {0, 1}
      BY <2>1, <3>2
    <3> QED BY <1>2, <3>2, <3>3, PhaseStep
  <2> QED BY <2>5, <2>6
<1> QED BY <1>3, <1>7, <1>8

(* The rest of a cut packet is dropped until the core is reset, and no run *)
(* begins before that.                                                     *)
LEMMA DiscardStep ==
  ASSUME BeatInv, EngineOK(st), RegsOK, Queues, MasterOK, LinkOK, HostOK, DiscardOK, CleanOK,
         EngineClock, CoreClock, UNCHANGED script
  PROVE  DiscardOK'
<1> DEFINE n == st'
<1>1. SUFFICES ASSUME discard' = TRUE
      PROVE  /\ script \in Disturbers
             /\ n.tstate \in Sending \/ phase' \in {"RST", "CRST"} \/ coreRst' = TRUE
             /\ faulted' = FALSE => n.tstate = "IDLE"
  BY DEF DiscardOK, Disturbers, Sending
<1>2. ~CoreReset
  BY <1>1 DEF CoreReset
<1>3. coreRst = FALSE
  BY <1>2 DEF CoreClock, MasterOK
<1>4. discard = TRUE \/ (Cut /\ open = TRUE)
  BY <1>1, <1>2 DEF CoreClock, Move, Drop, Idle, Connect, Wait, Cut, LinkOK
<1>5. script \in Disturbers /\ (st.tstate \in Sending \/ phase \in {"RST", "CRST"})
  <2>1. CASE discard = TRUE
    BY <1>3, <2>1 DEF DiscardOK
  <2>2. CASE Cut /\ open = TRUE
    <3>1. regs.inj = TRUE /\ pc \in Nat
      BY <2>2 DEF Cut, RegsOK, RegTyped, HostOK
    <3>2. Disturbed(script, pc)
      BY <3>1 DEF HostOK
    <3>3. script \in Disturbers /\ ~Restarting(script, pc)
      BY <3>1, <3>2, Places
    <3>4. st.tstate \in Sending
      BY <2>2, <3>3 DEF CleanOK, Clean
    <3> QED BY <3>3, <3>4
  <2> QED BY <1>4, <2>1, <2>2
<1>6. regs.en = TRUE /\ (regs.start = TRUE => regs.soft = TRUE) /\ regs.soft \in BOOLEAN
  BY <1>5 DEF HostOK, RegsOK, RegTyped
<1>7. n.tstate \in Sending \/ phase' \in {"RST", "CRST"} \/ coreRst' = TRUE
  <2>1. CASE regs.soft = TRUE
    BY <2>1, PhaseStep
  <2>2. CASE regs.soft = FALSE /\ phase \in {"RST", "CRST"}
    BY <2>2, PhaseStep, FaultStep
  <2>3. CASE regs.soft = FALSE /\ st.tstate \in Sending
    <3>1. RunStep(n)
      BY <1>6, <2>3, EngineStep DEF aborts, Queues
    <3> QED BY <2>3, <3>1 DEF RunStep, Waits, Begins, GivesUp, Flushes, Opens, Moves, Sending
  <2> QED BY <1>5, <1>6, <2>1, <2>2, <2>3
<1>8. ASSUME faulted' = FALSE, n.tstate # "IDLE" PROVE FALSE
  <2>1. discard = TRUE
    BY <1>4, <1>8, FaultStep DEF Cut, cut
  <2>2. RunStep(n)
    BY <1>6, <1>8, EngineStep DEF aborts, Queues
  <2>3. CASE st.tstate = "IDLE"
    <3>1. Begins(n) /\ bringup = TRUE
      BY <1>8, <2>2, <2>3
      DEF RunStep, Waits, Begins, GivesUp, Flushes, Opens, Moves, Sending, up, MasterOK
    <3>2. phase \in {"RST", "CRST"}
      BY <1>5, <2>3 DEF Sending
    <3> QED BY <3>1, <3>2 DEF MasterOK, Early
  <2>4. CASE st.tstate # "IDLE"
    <3>1. faulted = FALSE
      BY <1>8, <2>4, FaultStep DEF LinkOK
    <3> QED BY <2>1, <2>4, <3>1 DEF DiscardOK
  <2> QED BY <2>3, <2>4
<1> QED BY <1>5, <1>7, <1>8

(* Where a program disturbs the link a run is on, or nothing is on its way. *)
LEMMA CleanStep ==
  ASSUME BeatInv, EngineOK(st), RegsOK, Queues, MasterOK, LinkOK, HostOK, DiscardOK, CleanOK,
         EngineClock, CoreClock, HostMoves, UNCHANGED script
  PROVE  CleanOK'
<1> DEFINE n == st'
<1>1. SUFFICES ASSUME script \in Disturbers, ~Restarting(script, pc'), n.tstate \notin Sending
      PROVE  Clean'
  BY DEF CleanOK, Disturbers, Restarting, Sending
<1>2. /\ regs.en = TRUE /\ (regs.start = TRUE => regs.soft = TRUE)
      /\ regs.soft = TRUE => SoftAt(script, pc) /\ bus = "resp"
      /\ script \in DOMAIN Script /\ pc \in Nat \ {0} /\ pc \in Nat
      /\ bus \in {"data", "resp"} => op.kind \in {"ctrl", "inject", "tx", "send"}
      /\ regs.soft \in BOOLEAN
  BY <1>1 DEF HostOK, RegsOK, RegTyped
<1>3. regs.soft = FALSE
  <2>1. SUFFICES ASSUME regs.soft = TRUE PROVE FALSE
    BY <1>2
  <2>2. SoftAt(script, pc) /\ pc' = pc + 1
    BY <1>2, <2>1 DEF HostMoves, Reads, Addresses, Writes, Responds, Rests
  <2>3. Restarting(script, pc + 1)
    BY <1>2, <2>2, Places
  <2> QED BY <1>1, <2>2, <2>3
<1>4. RunStep(n)
  BY <1>2, <1>3, EngineStep DEF aborts, Queues
<1>5. st.tstate \notin Sending
  BY <1>1, <1>4 DEF RunStep, Waits, Begins, GivesUp, Flushes, Opens, Moves, Sending
<1>6. ~Restarting(script, pc)
  <2>1. SUFFICES ASSUME Restarting(script, pc) PROVE FALSE
    OBVIOUS
  <2>2. pc' = pc + 1 /\ (Reads \/ Responds)
    BY <1>1, <2>1 DEF HostMoves, Reads, Addresses, Writes, Responds, Rests
  <2>3. ~over
    BY <2>2 DEF Reads, Responds, HostOK
  <2>4. op.kind = "note"
    BY <1>1, <1>2, <2>1, <2>2, <2>3, PlaceFacts DEF Careful
  <2>5. running
    BY <1>2, <2>2, <2>4 DEF Reads, Responds
  <2> QED BY <1>5, <2>5 DEF running, Sending
<1>7. Clean
  BY <1>1, <1>5, <1>6 DEF CleanOK
<1>8. n.tvalid = FALSE
  BY <1>1, <1>4, <1>7 DEF RunStep, Waits, Begins, GivesUp, Flushes, Opens, Moves, Clean
<1>9. ~takeTx /\ ~takeRx /\ unread = <<>> /\ offered = <<>> /\ shown' = <<>>
  BY <1>7 DEF Clean, takeTx, takeRx, unread, offered, reading, CoreClock, Bridge
<1>10. txq' = <<>> /\ rxq' = <<>> /\ open' = FALSE
  BY <1>7, <1>9 DEF Clean, CoreClock, CoreReset, Move, Drop, Idle, Connect, Wait, Cut
<1> QED BY <1>8, <1>9, <1>10 DEF Clean

(* The invariant holds at the start. *)
LEMMA LoopInvInit == Init => LoopInv
<1> SUFFICES ASSUME Init PROVE LoopInv
  OBVIOUS
<1>1. /\ st = StAtReset /\ regs = RegsAtReset /\ MasterInit
      /\ txq = <<>> /\ rxq = <<>> /\ shown = <<>> /\ gap = 0
      /\ coreRst = FALSE /\ linkUp = FALSE /\ open = FALSE /\ discard = FALSE /\ faulted = FALSE
      /\ script \in Running /\ pc = 1 /\ bus = "free"
  BY DEF Init, LoopInit
<1>2. Period \in Nat \ {0} /\ Gap \in Nat
  BY EngineAssumption
<1>3. EngineOK(st)
  BY <1>1, <1>2 DEF StAtReset, EngineOK, Flags, Fields, Counters, TxOK, ModeOK, States
<1>4. Queues
  BY <1>1, <1>2 DEF Queues
<1>5. MasterOK
  BY <1>1 DEF MasterInit, MasterOK, Phase, Early, StAtReset
<1>6. LinkOK
  BY <1>1 DEF LinkOK
<1>7. HostOK
  BY <1>1, RunningAssumption DEF HostOK, RegsOK, RegTyped, RegsAtReset
<1>8. FlushOK /\ ErrOK /\ RunOK
  BY <1>1 DEF FlushOK, ErrOK, RunOK, StAtReset
<1>9. DiscardOK /\ CleanOK
  BY <1>1 DEF DiscardOK, CleanOK, Clean, StAtReset
<1> QED BY <1>3, <1>4, <1>5, <1>6, <1>7, <1>8, <1>9, BeatInvInit DEF LoopInv

(* A reset of the bench restores it, a clock preserves it. *)
LEMMA ResetOK ==
  ASSUME LoopInv, HostResets
  PROVE  LoopInv'
<1>1. /\ st' = StAtReset /\ regs' = RegsAtReset /\ MasterReset
      /\ txq' = <<>> /\ rxq' = <<>> /\ shown' = <<>> /\ gap' = 0
      /\ coreRst' = FALSE /\ linkUp' = FALSE /\ open' = FALSE /\ discard' = FALSE
      /\ faulted' = FALSE
      /\ script' = script /\ pc' = pc + 1 /\ bus' = "free"
  BY DEF HostResets, LoopReset, Advance
<1>2. Period \in Nat \ {0} /\ Gap \in Nat
  BY EngineAssumption
<1>3. EngineOK(st)'
  BY <1>1, <1>2 DEF StAtReset, EngineOK, Flags, Fields, Counters, TxOK, ModeOK, States
<1>4. Queues'
  BY <1>1, <1>2 DEF Queues
<1>5. MasterOK'
  BY <1>1 DEF MasterReset, MasterOK, Phase, Early, StAtReset
<1>6. LinkOK'
  BY <1>1 DEF LinkOK
<1>7. HostOK'
  <2>1. script' \in DOMAIN Script /\ pc' \in Nat \ {0}
    BY <1>1 DEF LoopInv, HostOK
  <2>2. RegsOK'
    BY <1>1 DEF RegsOK, RegTyped, RegsAtReset
  <2> QED BY <1>1, <2>1, <2>2 DEF HostOK, RegsAtReset
<1>8. FlushOK' /\ ErrOK' /\ RunOK'
  BY <1>1 DEF FlushOK, ErrOK, RunOK, StAtReset
<1>9. DiscardOK' /\ CleanOK'
  BY <1>1 DEF DiscardOK, CleanOK, Clean, StAtReset
<1>10. BeatInv'
  BY BeatInvStep DEF LoopInv, Next
<1> QED BY <1>3, <1>4, <1>5, <1>6, <1>7, <1>8, <1>9, <1>10 DEF LoopInv

LEMMA TickOK ==
  ASSUME LoopInv, Clock, HostActs \/ HostPauses
  PROVE  LoopInv'
<1>1. /\ BeatInv /\ EngineOK(st) /\ Queues /\ MasterOK /\ LinkOK /\ HostOK /\ RegsOK
      /\ FlushOK /\ ErrOK /\ RunOK /\ DiscardOK /\ CleanOK
  BY DEF LoopInv, HostOK
<1>2. EngineClock /\ CoreClock /\ UNCHANGED script /\ HostMoves
  BY HostMove DEF Clock
<1>3. shown \in Seq(Int) /\ st.tbeat \in Int
  BY <1>1 DEF Queues, EngineOK, Counters
<1>4. BeatInv'
  BY <1>1, ClockOK
<1>5. EngineOK(st)'
  <2>1. EngineOK(st')
    BY <1>1, <1>2, <1>3, EngineStep
  <2> QED BY <2>1 DEF EngineOK, Flags, Fields, Counters, TxOK, ModeOK, States
<1>6. Queues'
  BY <1>1, <1>2, <1>3, QueuesStep
<1>7. MasterOK' /\ LinkOK' /\ HostOK'
  BY <1>1, <1>2, <1>3, MasterStep, LinkStep, HostStep
<1>8. FlushOK' /\ ErrOK' /\ RunOK'
  BY <1>1, <1>2, FlushStep, ErrStep, RunStepOK
<1>9. DiscardOK' /\ CleanOK'
  BY <1>1, <1>2, DiscardStep, CleanStep
<1> QED BY <1>4, <1>5, <1>6, <1>7, <1>8, <1>9 DEF LoopInv

(* The invariant is inductive. *)
LEMMA LoopInvStep ==
  ASSUME LoopInv, [Next]_vars
  PROVE  LoopInv'
<1>1. CASE Clock /\ (HostActs \/ HostPauses)
  BY <1>1, TickOK
<1>2. CASE HostResets
  BY <1>2, ResetOK
<1>3. CASE UNCHANGED vars
  <2>1. /\ UNCHANGED <<phase, bringup, run, regs, st, coreRst, linkUp, txq, rxq, shown>>
        /\ UNCHANGED <<gap, open, discard, faulted, script, pc, bus>>
    BY <1>3 DEF vars, loopVars, hostVars, engineVars, coreVars, masterVars
  <2>2. BeatInv' /\ EngineOK(st)'
    BY <2>1 DEF LoopInv, BeatInv, OfferOK, Shape, EngineOK, Flags, Counters, TxOK, ModeOK
  <2>3. Queues' /\ MasterOK' /\ LinkOK'
    BY <2>1 DEF LoopInv, Queues, MasterOK, LinkOK
  <2>4. HostOK'
    BY <2>1 DEF LoopInv, HostOK, RegsOK, RegTyped, over, op, ops, Disturbed, Released, SoftAt
  <2>5. FlushOK' /\ ErrOK'
    BY <2>1 DEF LoopInv, FlushOK, ErrOK
  <2>6. pipe' = pipe
    BY <2>1 DEF pipe
  <2>7. RunOK'
    <3>1. SUFFICES ASSUME faulted' = FALSE, st'.checking = TRUE
          PROVE  /\ st'.txCount = st'.rxCount + Len(pipe')
                 /\ Chain(pipe', st'.rxPrbs, st'.expIdx, st'.txPrbs, At(st'))
      BY DEF RunOK, Chain, Place, At, next
    <3>2. st' = st /\ faulted = FALSE /\ st.checking = TRUE
      BY <2>1, <3>1
    <3> QED BY <2>6, <3>2 DEF LoopInv, RunOK
  <2>8. DiscardOK' /\ CleanOK'
    BY <2>1 DEF LoopInv, DiscardOK, CleanOK, Clean, Restarting
  <2> QED BY <2>2, <2>3, <2>4, <2>5, <2>7, <2>8 DEF LoopInv
<1> QED BY <1>1, <1>2, <1>3 DEF Next

(* The invariant of the engine, its core and its host (LoopHost). *)
THEOREM LoopInvariant == Spec => []LoopInv
BY LoopInvInit, LoopInvStep, PTL DEF Spec

(***************************************************************************)
(* In a run of the self-check that no injected error disturbed, what is on *)
(* its way through the FIFOs, the link and the bridge is that run: from    *)
(* the character that the checker expects (rx_prbs, exp_idx) to the last   *)
(* one sent, each once, in order, and nothing else.  So the flush before a *)
(* run leaves nothing of the run before it (spw_loopback_axi.v, T_FLUSH).  *)
(***************************************************************************)
THEOREM OwnCharactersOnly == Spec => []RunOK
BY LoopInvariant, PTL DEF LoopInv

(***************************************************************************)
(* The self-check of spw_loopback_axi.v counts no error of its own making: *)
(* whatever programs stop, start and reset it, and however long the host   *)
(* and the link pause, a run that no injected error disturbed finds every  *)
(* character right and no more of them than it sent (Bugs 32 to 34 of the  *)
(* benches), for every FLUSH_IDLE longer than a character stays away.      *)
(***************************************************************************)
THEOREM SelfCheckCountsNoFalseErrors == Spec => []NoFalseErrors
<1>1. LoopInv => NoFalseErrors
  <2>1. SUFFICES ASSUME LoopInv, faulted = FALSE
                 PROVE  st.errCount = 0 /\ (st.checking = TRUE => st.rxCount <= st.txCount)
    BY DEF NoFalseErrors, LoopInv, LinkOK, EngineOK, Flags
  <2>2. st.errCount = 0
    BY <2>1 DEF LoopInv, ErrOK
  <2>3. ASSUME st.checking = TRUE PROVE st.rxCount <= st.txCount
    <3>1. st.txCount = st.rxCount + Len(pipe)
      BY <2>1, <2>3 DEF LoopInv, RunOK
    <3>2. Len(pipe) \in Nat
      <4>1. shown \in Seq(Int) /\ rxq \in Seq(Int) /\ txq \in Seq(Int)
        BY <2>1 DEF LoopInv, Queues
      <4>2. rxq \o txq \in Seq(Int)
        BY <4>1, ConcatProperties
      <4> QED BY <4>1, <4>2, ConcatProperties, LenProperties DEF pipe
    <3>3. st.rxCount \in Nat
      BY <2>1 DEF LoopInv, EngineOK, Counters
    <3> QED BY <3>1, <3>2, <3>3
  <2> QED BY <2>2, <2>3
<1> QED BY <1>1, LoopInvariant, PTL
=============================================================================
