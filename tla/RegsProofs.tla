---------------------------- MODULE RegsProofs ----------------------------
(***************************************************************************)
(* Proofs about the AXI4-Lite registers, for any bus master and for the    *)
(* master of the loopback engine: for every set of bits, of errors, of     *)
(* Time-Codes and of registers that are accessed.                          *)
(***************************************************************************)
EXTENDS MCAxiLiteRegs, TLAPS

(***************************************************************************)
(* A step of the registers.                                                *)
(***************************************************************************)
WellFormed(in) == /\ in.aw = <<>> \/ \E a : in.aw = <<a>>
                  /\ in.w = <<>> \/ \E w : in.w = <<w>>

LEMMA DrivesWellFormed == WellFormed(Drives)
<1>1. CASE writing = <<>>
  BY <1>1 DEF WellFormed, Drives
<1>2. CASE writing # <<>>
  <2>1. Drives.aw = <<target[writing[1]]>>
    BY <1>2 DEF Drives
  <2>2. Drives.w = <<[data |-> word(writing[1]), strb |-> Both]>>
    BY <1>2 DEF Drives
  <2> QED BY <2>1, <2>2 DEF WellFormed
<1> QED BY <1>1, <1>2

LEMMA BusWellFormed ==
  ASSUME NEW in \in BusInput
  PROVE  WellFormed(in)
<1>1. in.aw \in Offers(Written) /\ in.w \in Offers(WriteData)
  BY DEF BusInput
<1> QED BY <1>1 DEF Offers, WellFormed

LEMMA RegsStep ==
  ASSUME MCNext
  PROVE  \/ RegsReset /\ ScoreReset
         \/ \E in : WellFormed(in) /\ RegsClock(in) /\ Score(in)
<1>1. CASE AnyMaster
  BY <1>1, BusWellFormed DEF AnyMaster
<1>2. CASE EngineMasters
  BY <1>2, DrivesWellFormed DEF EngineMasters, MasterStep, MasterReset, EngineStep
<1> QED BY <1>1, <1>2 DEF MCNext

(***************************************************************************)
(* The scoreboard holds what the registers hold; a response is awaited     *)
(* with nothing held, and a pulse is sent beside a response only, for a    *)
(* write that asks for it.                                                 *)
(***************************************************************************)
HeldAsJoined ==
  /\ aws = awHeld /\ ws = wHeld
  /\ awHeld = <<>> \/ wHeld = <<>>
  /\ bvalid => awHeld = <<>> /\ wHeld = <<>>
  /\ awHeld = <<>> \/ \E a : awHeld = <<a>>
  /\ wHeld = <<>> \/ \E w : wHeld = <<w>>

ControlWord == control = [low |-> control.low, top |-> control.top]

RegsInv ==
  /\ bvalid \in BOOLEAN
  /\ HeldAsJoined
  /\ ControlWord
  /\ control = expected
  /\ owed = IF bvalid THEN 1 ELSE 0
  /\ tickPulse => bvalid
  /\ tickPulse = asked /\ tickWord = timecode

(* Held or offered, address and data are at most one each. *)
LEMMA AtHand ==
  ASSUME RegsInv, NEW in, WellFormed(in)
  PROVE  /\ Accepted(aws, awready, in.aw) = awNow(in)
         /\ Accepted(ws, wready, in.w) = wNow(in)
         /\ awNow(in) = <<>> \/ \E a : awNow(in) = <<a>>
         /\ wNow(in) = <<>> \/ \E w : wNow(in) = <<w>>
         /\ write_fire(in) <=> Joined(awNow(in), wNow(in))
<1>1. /\ awNow(in) = <<>> \/ \E a : awNow(in) = <<a>>
      /\ wNow(in) = <<>> \/ \E w : wNow(in) = <<w>>
  BY DEF RegsInv, HeldAsJoined, WellFormed, awNow, wNow
<1>2. Accepted(aws, awready, in.aw) = awNow(in)
  <2>1. CASE awready
    <3>1. aws = <<>>
      BY <2>1 DEF RegsInv, HeldAsJoined, awready
    <3>2. <<>> \o in.aw = in.aw
      BY DEF WellFormed
    <3> QED BY <2>1, <3>1, <3>2 DEF Accepted, awNow
  <2>2. CASE ~awready
    BY <2>2 DEF Accepted, awNow, RegsInv, HeldAsJoined
  <2> QED BY <2>1, <2>2
<1>3. Accepted(ws, wready, in.w) = wNow(in)
  <2>1. CASE wready
    <3>1. ws = <<>>
      BY <2>1 DEF RegsInv, HeldAsJoined, wready
    <3>2. <<>> \o in.w = in.w
      BY DEF WellFormed
    <3> QED BY <2>1, <3>1, <3>2 DEF Accepted, wNow
  <2>2. CASE ~wready
    BY <2>2 DEF Accepted, wNow, RegsInv, HeldAsJoined
  <2> QED BY <2>1, <2>2
<1>4. bvalid => awNow(in) = <<>>
  BY DEF RegsInv, HeldAsJoined, awNow, awready
<1>5. write_fire(in) <=> Joined(awNow(in), wNow(in))
  BY <1>4 DEF write_fire, Joined
<1> QED BY <1>1, <1>2, <1>3, <1>5

LEMMA RegsInvInit == MCInit => RegsInv
BY DEF MCInit, RegsInit, RegsInv, HeldAsJoined, ControlWord, Zero

LEMMA RegsInvClock ==
  ASSUME RegsInv, NEW in, WellFormed(in), RegsClock(in), Score(in)
  PROVE  RegsInv'
<1> DEFINE a == awNow(in)
           w == wNow(in)
           fire == write_fire(in)
<1>1. fire \in BOOLEAN /\ (fire <=> Joined(a, w)) /\ (fire => ~bvalid)
  BY AtHand DEF write_fire
<1>2. /\ awHeld' = (IF fire THEN <<>> ELSE a) /\ wHeld' = (IF fire THEN <<>> ELSE w)
      /\ bvalid' = (fire \/ (bvalid /\ ~in.bready))
  BY DEF RegsClock, WriteChannel
<1>3. bvalid' \in BOOLEAN
  BY <1>2
<1>4. aws' = awHeld' /\ ws' = wHeld'
  <2>1. CASE fire
    <3>1. aws' = Tail(a) /\ ws' = Tail(w)
      BY <1>1, <2>1, AtHand DEF Score
    <3>2. PICK x, y : a = <<x>> /\ w = <<y>>
      BY <1>1, <2>1, AtHand DEF Joined
    <3> HIDE DEF a, w
    <3>3. Tail(<<x>>) = <<>> /\ Tail(<<y>>) = <<>>
      OBVIOUS
    <3> QED BY <1>2, <2>1, <3>1, <3>2, <3>3
  <2>2. CASE ~fire
    BY <1>1, <1>2, <2>2, AtHand DEF Score
  <2> QED BY <2>1, <2>2
<1>5. HeldAsJoined'
  <2>1. awHeld' = <<>> \/ wHeld' = <<>>
    BY <1>1, <1>2 DEF Joined
  <2>2. bvalid' => awHeld' = <<>> /\ wHeld' = <<>>
    <3>1. bvalid => a = <<>> /\ w = <<>>
      BY DEF RegsInv, HeldAsJoined, awNow, wNow, awready, wready
    <3> QED BY <1>2, <3>1
  <2>3. awHeld' = <<>> \/ \E x : awHeld' = <<x>>
    BY <1>2, AtHand
  <2>4. wHeld' = <<>> \/ \E x : wHeld' = <<x>>
    BY <1>2, AtHand
  <2> QED BY <1>4, <2>1, <2>2, <2>3, <2>4 DEF HeldAsJoined
<1>6. ControlWord' /\ control' = expected'
  <2>1. CASE fire /\ a[1] = "CONTROL"
    <3>1. control' = apply_wstrb(in, control)
      BY <2>1 DEF RegsClock, Plain, writes
    <3>2. expected' = Merged(expected, w[1])
      BY <1>1, <2>1, AtHand DEF Score
    <3>3. control = [low |-> control.low, top |-> control.top] /\ control = expected
      BY DEF RegsInv, ControlWord
    <3>4. Merged(control, w[1]) = apply_wstrb(in, control)
      BY DEF Merged, apply_wstrb, strb, data
    <3>5. ControlWord'
      BY <3>1 DEF apply_wstrb, ControlWord
    <3> QED BY <3>1, <3>2, <3>3, <3>4, <3>5
  <2>2. CASE ~(fire /\ a[1] = "CONTROL")
    <3>1. control' = control
      BY <2>2 DEF RegsClock, Plain, writes
    <3>2. expected' = expected
      BY <1>1, <2>2, AtHand DEF Score
    <3> QED BY <3>1, <3>2 DEF RegsInv, ControlWord
  <2> QED BY <2>1, <2>2
<1>7. owed' = IF bvalid' THEN 1 ELSE 0
  <2>1. owed' = owed + (IF fire THEN 1 ELSE 0) - (IF bvalid /\ in.bready THEN 1 ELSE 0)
    BY <1>1, AtHand DEF Score, RegsInv
  <2> QED BY <1>1, <1>2, <2>1 DEF RegsInv
<1>8. tickPulse' => bvalid'
  <2>1. tickPulse' => fire
    BY DEF RegsClock, SendTick, top, writes
  <2> QED BY <1>2, <2>1
<1>9. tickPulse' = asked' /\ tickWord' = timecode'
  <2>1. CASE fire
    <3>1. /\ asked' = (a[1] = "TIMECODE_TX" /\ w[1].strb.top /\ w[1].data.top)
          /\ timecode' = IF a[1] = "TIMECODE_TX" /\ w[1].strb.low
                         THEN w[1].data.low ELSE timecode
      BY <1>1, <2>1, AtHand DEF Score
    <3>2. /\ tickPulse' = (a[1] = "TIMECODE_TX" /\ w[1].strb.top /\ w[1].data.top)
          /\ tickWord' = IF a[1] = "TIMECODE_TX" /\ w[1].strb.low
                         THEN w[1].data.low ELSE tickWord
      BY <2>1 DEF RegsClock, SendTick, top, low, writes, strb, data
    <3> QED BY <3>1, <3>2 DEF RegsInv
  <2>2. CASE ~fire
    <3>1. asked' = FALSE /\ timecode' = timecode
      BY <1>1, <2>2, AtHand DEF Score
    <3>2. tickPulse' = FALSE /\ tickWord' = tickWord
      BY <2>2 DEF RegsClock, SendTick, top, low, writes
    <3> QED BY <3>1, <3>2 DEF RegsInv
  <2> QED BY <2>1, <2>2
<1> QED BY <1>3, <1>5, <1>6, <1>7, <1>8, <1>9 DEF RegsInv

LEMMA RegsInvStep ==
  ASSUME RegsInv, [MCNext]_mcVars
  PROVE  RegsInv'
<1>1. CASE RegsReset /\ ScoreReset
  BY <1>1 DEF RegsReset, ScoreReset, RegsInv, HeldAsJoined, ControlWord, Zero
<1>2. CASE \E in : WellFormed(in) /\ RegsClock(in) /\ Score(in)
  BY <1>2, RegsInvClock
<1>3. CASE UNCHANGED mcVars
  BY <1>3 DEF mcVars, scoreVars, bringUpVars, regsVars, regVars, RegsInv, HeldAsJoined, ControlWord
<1> QED BY <1>1, <1>2, <1>3, RegsStep

LEMMA RegsInvariant == MCSpec => []RegsInv
<1>1. MCInit => RegsInv
  BY RegsInvInit
<1>2. RegsInv /\ [MCNext]_mcVars => RegsInv'
  BY RegsInvStep
<1> QED BY <1>1, <1>2, PTL DEF MCSpec

(***************************************************************************)
(* Addresses and data of writes are joined in order, each write is         *)
(* performed once with its own strobes and answered once, whatever the     *)
(* master (spw_axi_lite_regs.v, write channel).                            *)
(***************************************************************************)
THEOREM WritesJoined == MCSpec => []WritesAsJoined
<1>1. RegsInv => WritesAsJoined
  <2> SUFFICES ASSUME RegsInv
               PROVE  Len(aws) + Len(ws) <= 1
    BY DEF RegsInv, WritesAsJoined
  <2>1. \A x : Len(<<x>>) = 1
    OBVIOUS
  <2>2. Len(<<>>) = 0
    OBVIOUS
  <2>3. /\ aws = <<>> \/ ws = <<>>
        /\ aws = <<>> \/ \E a : aws = <<a>>
        /\ ws = <<>> \/ \E w : ws = <<w>>
    BY DEF RegsInv, HeldAsJoined
  <2>4. Len(aws) \in {0, 1} /\ Len(ws) \in {0, 1} /\ (Len(aws) = 0 \/ Len(ws) = 0)
    BY <2>1, <2>2, <2>3
  <2>5. \A m, n \in {0, 1} : m = 0 \/ n = 0 => m + n <= 1
    OBVIOUS
  <2> QED BY <2>4, <2>5
<1> QED BY <1>1, RegsInvariant, PTL

(***************************************************************************)
(* A pulse of one clock exactly for each write of TIMECODE_TX that asks    *)
(* for it, with the Time-Code last written (spw_axi_lite_regs.v,           *)
(* tick_in_pulse).                                                         *)
(***************************************************************************)
THEOREM PulsesOnce == MCSpec => OnePulsePerRequest
<1>1. RegsInv /\ RegsInv' /\ [MCNext]_mcVars =>
        [/\ tickPulse' = asked' /\ tickWord' = timecode'
         /\ tickPulse' => ~tickPulse]_mcVars
  <2> SUFFICES ASSUME RegsInv, RegsInv', MCNext, tickPulse'
               PROVE  ~tickPulse
    BY DEF RegsInv
  <2>1. CASE RegsReset
    BY <2>1 DEF RegsReset
  <2>2. ASSUME NEW in, RegsClock(in)
        PROVE  ~tickPulse
    BY <2>2 DEF RegsClock, SendTick, top, writes, write_fire, RegsInv
  <2> QED BY <2>1, <2>2, RegsStep
<1> QED BY <1>1, RegsInvariant, PTL DEF MCSpec, OnePulsePerRequest

(***************************************************************************)
(* Errors and Time-Codes survive a clear that comes with them, and only a  *)
(* completed write clears (spw_axi_lite_regs.v, sticky bits).              *)
(***************************************************************************)
THEOREM EventsSurvive == MCSpec => EventsOutliveClears
<1> DEFINE Kept == \/ RegsReset
                   \/ /\ errors \subseteq error'
                      /\ tick # <<>> => rxTick' /\ rxWord' = tick[1]
                      /\ ~(error \subseteq error') \/ (rxTick /\ ~rxTick') => ~bvalid /\ bvalid'
<1>1. [MCNext]_mcVars => [Kept]_regsVars
  <2> SUFFICES ASSUME [MCNext]_mcVars
               PROVE  Kept \/ UNCHANGED regsVars
    OBVIOUS
  <2>1. ASSUME NEW in, RegsClock(in)
        PROVE  Kept
    <3>1. errors \subseteq error' /\ (tick # <<>> => rxTick' /\ rxWord' = tick[1])
      BY <2>1 DEF RegsClock, LatchErrors, LatchTick
    <3>2. write_fire(in) => ~bvalid /\ bvalid'
      BY <2>1 DEF RegsClock, WriteChannel, write_fire
    <3>3. rxTick /\ ~rxTick' => write_fire(in)
      BY <2>1 DEF RegsClock, LatchTick, clearsTick, top, low, writes
    <3>4. ~(error \subseteq error') => write_fire(in)
      <4>1. ~write_fire(in) => cleared(in) = {}
        BY DEF cleared, low, writes
      <4> QED BY <2>1, <4>1 DEF RegsClock, LatchErrors
    <3> QED BY <3>1, <3>2, <3>3, <3>4
  <2>2. CASE UNCHANGED mcVars
    BY <2>2 DEF mcVars, scoreVars, bringUpVars
  <2> QED BY <2>1, <2>2, RegsStep
<1> QED BY <1>1, PTL DEF MCSpec, EventsOutliveClears

-----------------------------------------------------------------------------
(***************************************************************************)
(* The master of the loopback engine implements EngineMaster, one step per *)
(* bus transaction, whatever the register block answers and whenever; and  *)
(* it never takes the answer to one question for the answer to another's.  *)
(***************************************************************************)
WriteOps == {"CRST", "CTRL", "DIV", "CLR", "TC_CLR", "TC_TX"}

(* An access and how far it is fit together. *)
AccessOK ==
  \/ op = "RST" /\ half = "RST"
  \/ op \in WriteOps /\ half \in {"AW", "B"}
  \/ op \in {"ID", "STAT"} /\ half = "AR"
  \/ op \in {"ID", "STAT", "TCRX"} /\ half = "R"

FlagsOK ==
  /\ bringup \in BOOLEAN /\ run \in BOOLEAN /\ errClr \in BOOLEAN /\ tcPending \in BOOLEAN
  /\ fromRun \in BOOLEAN /\ soft \in BOOLEAN /\ push \in BOOLEAN /\ link \in BOOLEAN

EngineInv == AccessOK /\ FlagsOK

(* The transaction at hand ends in this clock. *)
Done == \/ half = "RST"
        \/ half = "B" /\ bvalid
        \/ half = "R" /\ rvalid

following == IF op = "STAT" THEN Master!afterStatus(fromRun) ELSE Master!follows[op]

LEMMA Follows ==
  /\ Master!follows["RST"] = "CRST" /\ Master!follows["CRST"] = "CTRL"
  /\ Master!follows["CTRL"] = "DIV" /\ Master!follows["DIV"] = "ID"
  /\ Master!follows["TC_CLR"] = "TC_TX"
  /\ \A p \in {"ID", "CLR", "TC_TX", "TCRX"} : Master!follows[p] = "STAT"
BY DEF Master!follows, Master!Phase

(* A state of the master goes to the next access, or stays with its own. *)
LEMMA AccessStep ==
  ASSUME EngineInv, EngineClock
  PROVE  /\ op' = IF soft THEN "RST" ELSE IF Done THEN following ELSE op
         /\ AccessOK'
<1> USE DEF EngineInv, Done
<1>1. CASE Restart
  <2>1. op = "RST"
    BY <1>1 DEF Restart, AccessOK, WriteOps
  <2> QED BY <1>1, <2>1, Follows DEF Restart, Offer, Goes, AccessOK, WriteOps, following
<1>2. CASE OfferTaken
  <2>1. op \in WriteOps
    BY <1>2 DEF OfferTaken, AccessOK
  <2> QED BY <1>2, <2>1 DEF OfferTaken, Goes, AccessOK
<1>3. CASE Answered
  <2>1. half = "B" /\ op \in WriteOps
    BY <1>3 DEF Answered, AccessOK
  <2>2. CASE ~bvalid
    BY <1>3, <2>1, <2>2 DEF Answered, Goes, AccessOK
  <2>3. CASE bvalid /\ op \in DOMAIN afterWrite
    <3>1. op \in {"CRST", "CTRL", "TC_CLR"} /\ Offer(afterWrite[op])
      BY <1>3, <2>3 DEF Answered, afterWrite
    <3>2. following = afterWrite[op] /\ afterWrite[op] \in WriteOps
      BY <3>1, Follows DEF following, afterWrite, WriteOps
    <3> QED BY <2>1, <2>3, <3>1, <3>2 DEF Offer, Goes, AccessOK
  <2>4. CASE bvalid /\ op \notin DOMAIN afterWrite
    <3>1. \/ op = "DIV" /\ Ask("CORE_ID", "ID", "AR")
          \/ op \in {"CLR", "TC_TX"} /\ Goes("STAT", "AR")
      BY <1>3, <2>4 DEF Answered
    <3> QED BY <2>1, <2>4, <3>1, Follows DEF Ask, Goes, AccessOK, following
  <2> QED BY <2>2, <2>3, <2>4
<1>4. CASE AskId \/ AskStatus
  BY <1>4 DEF AskId, AskStatus, Ask, Goes, AccessOK
<1>5. CASE AwaitRead
  <2>1. op \in {"ID", "STAT", "TCRX"}
    BY <1>5 DEF AwaitRead, AccessOK
  <2> QED BY <1>5, <2>1 DEF AwaitRead, Goes, AccessOK
<1>6. CASE Mirror
  BY <1>6, Follows DEF Mirror, Goes, AccessOK, following
<1>7. CASE Poll
  <2>1. half = "R" /\ rvalid /\ op = "STAT"
    BY <1>7 DEF Poll, Polled
  <2>2. following = IF clears THEN "CLR" ELSE IF sends THEN "TC_CLR" ELSE "TCRX"
    BY <2>1 DEF following, Master!afterStatus, clears, sends
  <2>3. CASE clears \/ sends
    BY <1>7, <2>1, <2>2, <2>3 DEF Poll, Offer, Goes, AccessOK, WriteOps
  <2>4. CASE ~(clears \/ sends)
    BY <1>7, <2>1, <2>2, <2>4 DEF Poll, Ask, Goes, AccessOK
  <2> QED BY <2>3, <2>4
<1> QED BY <1>1, <1>2, <1>3, <1>4, <1>5, <1>6, <1>7 DEF EngineClock

(* One clock of the engine is one clock of the abstract master. *)
LEMMA ClockImplements ==
  ASSUME EngineInv, EngineClock
  PROVE  Master!MasterClock(Done, fromRun, push, soft)
<1>1. Polled <=> Done /\ op = "STAT"
  BY DEF EngineInv, AccessOK, WriteOps, Polled, Done
<1>2. (following = "CLR" /\ op = "STAT") <=> (clears /\ op = "STAT")
  BY DEF following, Master!afterStatus, clears
<1>3. (following = "TC_CLR" /\ op = "STAT") <=> (sends /\ op = "STAT")
  BY DEF following, Master!afterStatus, clears, sends
<1>4. op' = IF soft THEN "RST" ELSE IF Done THEN following ELSE op
  BY AccessStep
<1>5. bringup' = (~soft /\ (bringup \/ (Done /\ op = "STAT")))
  BY <1>1 DEF EngineClock
<1>6. run' = IF Done /\ op = "STAT" THEN fromRun ELSE run
  BY <1>1 DEF EngineClock
<1>7. errClr' = IF Done /\ op = "RST" THEN TRUE
                ELSE errClr /\ ~((Done /\ op = "STAT") /\ following = "CLR")
  <2>1. half = "RST" <=> Done /\ op = "RST"
    BY DEF EngineInv, AccessOK, WriteOps, Done
  <2>2. errClr' = (half = "RST" \/ (errClr /\ ~(Polled /\ clears)))
    BY DEF EngineClock
  <2> QED BY <1>1, <1>2, <2>1, <2>2 DEF EngineInv, FlagsOK
<1>8. tcPending' = (push \/ (tcPending /\ ~((Done /\ op = "STAT") /\ following = "TC_CLR")))
  BY <1>1, <1>3 DEF EngineClock, Requests
<1> QED BY <1>4, <1>5, <1>6, <1>7, <1>8 DEF Master!MasterClock, following

LEMMA EngineInvInit == EngineInit => EngineInv
BY DEF EngineInit, EngineInv, AccessOK, FlagsOK

LEMMA EngineInvStep ==
  ASSUME EngineInv, [MCNext]_mcVars
  PROVE  EngineInv'
<1>1. CASE MasterStep
  <2>1. AccessOK'
    BY <1>1, AccessStep DEF MasterStep, EngineStep
  <2>2. bringup' \in BOOLEAN /\ errClr' \in BOOLEAN /\ tcPending' \in BOOLEAN
    BY <1>1 DEF MasterStep, EngineStep, EngineClock, Requests
  <2>3. run' \in BOOLEAN
    BY <1>1 DEF MasterStep, EngineStep, EngineClock, EngineInv, FlagsOK
  <2>4. fromRun' \in BOOLEAN
    BY <1>1 DEF MasterStep, EngineStep, Source, EngineInv, FlagsOK
  <2>5. soft' \in BOOLEAN /\ push' \in BOOLEAN /\ link' \in BOOLEAN
    BY <1>1 DEF MasterStep, EngineInput
  <2> QED BY <2>1, <2>2, <2>3, <2>4, <2>5 DEF EngineInv, FlagsOK
<1>2. CASE MasterReset
  BY <1>2 DEF MasterReset, EngineReset, EngineInput, EngineInv, AccessOK, FlagsOK
<1>3. CASE UNCHANGED engineVars
  BY <1>3 DEF engineVars, EngineInv, AccessOK, FlagsOK
<1> QED BY <1>1, <1>2, <1>3 DEF MCNext, AnyMaster, EngineMasters, mcVars, scoreVars, bringUpVars

LEMMA StepImplements ==
  ASSUME EngineInv, [MCNext]_mcVars
  PROVE  [Master!Serves(push, soft)]_engineVars
<1>1. CASE MasterStep
  <2>1. Master!MasterClock(Done, fromRun, push, soft)
    BY <1>1, ClockImplements DEF MasterStep, EngineStep
  <2>2. Done \in BOOLEAN /\ fromRun \in BOOLEAN
    BY DEF EngineInv, FlagsOK, Done
  <2> QED BY <2>1, <2>2 DEF Master!Serves
<1>2. CASE MasterReset
  BY <1>2 DEF MasterReset, EngineReset, Master!Serves, Master!MasterReset
<1> QED BY <1>1, <1>2 DEF MCNext, AnyMaster, EngineMasters, mcVars, bringUpVars

(***************************************************************************)
(* The handshakes of the master add nothing to its sequence of accesses,   *)
(* every clock serves the requests made in it and no others, and a soft    *)
(* reset starts the sequence again (spw_loopback_axi.v, the AXI4-Lite      *)
(* master).                                                                *)
(***************************************************************************)
THEOREM MasterImplemented == MCSpec => ImplementsMaster
<1>1. MCInit => EngineInv /\ Master!MasterInit
  BY EngineInvInit DEF MCInit, EngineInit, Master!MasterInit
<1>2. EngineInv /\ [MCNext]_mcVars => EngineInv'
  BY EngineInvStep
<1>3. EngineInv /\ [MCNext]_mcVars => [Master!Serves(push, soft)]_engineVars
  BY StepImplements
<1> QED BY <1>1, <1>2, <1>3, PTL DEF MCSpec, ImplementsMaster

-----------------------------------------------------------------------------
(***************************************************************************)
(* The buses of the master, clock by clock.  A write takes three clocks:   *)
(* it is offered and taken, its offer is down, its response is taken.      *)
(***************************************************************************)
Offered  == half = "AW" /\ writing = <<op>> /\ ~bvalid /\ ~bready
Taken    == half = "AW" /\ writing = <<>> /\ bvalid /\ ~bready
Response == half = "B" /\ writing = <<>> /\ bvalid /\ bready
NoWrite  == half \in {"RST", "AR", "R"} /\ writing = <<>> /\ ~bvalid /\ ~bready

(***************************************************************************)
(* A soft reset that finds the master writing leaves the response or the   *)
(* next offer behind; the first write of the bring-up is then never taken, *)
(* or its response is missed, and the master waits.                        *)
(***************************************************************************)
Astray ==
  /\ op \in {"RST", "CRST"}
  /\ \/ half = "RST" /\ writing = <<>> /\ bvalid
     \/ half = "RST" /\ writing \in {<<"CLR">>, <<"TC_CLR">>, <<"TC_TX">>} /\ ~bvalid /\ ~bready
     \/ half = "AW" /\ writing = <<op>> /\ (bvalid <=> ~bready)
     \/ half = "AW" /\ writing = <<>> /\ bvalid /\ bready
     \/ half = "B" /\ writing = <<>> /\ ~bvalid

WriteOK ==
  /\ awHeld = <<>> /\ wHeld = <<>>
  /\ Offered \/ Taken \/ Response \/ NoWrite \/ Astray

(***************************************************************************)
(* A soft reset may leave a question standing.  It is then asked and       *)
(* answered over and over while the bring-up writes, an answer in every    *)
(* other clock; after the ten clocks from the restart to the first read    *)
(* none is left.  Or it leaves an answer, which is taken at once.          *)
(***************************************************************************)
asks   == [ID |-> "CORE_ID", STAT |-> "STATUS", TCRX |-> "TIMECODE_RX"]
Before == {"RST", "CRST", "CTRL", "DIV"}   \* the accesses before the first read

OddClock == \/ op \in {"CRST", "DIV"} /\ (Offered \/ Response)
            \/ op = "CTRL" /\ Taken

NoRead   == /\ half \in {"RST", "AW", "B"} \/ (half = "AR" /\ op = "STAT")
            /\ ~arvalid /\ ~rready /\ ~rvalid
Standing == op \in Before /\ arvalid /\ rready /\ (rvalid <=> OddClock)
Late     == op = "RST" /\ ~arvalid /\ rready /\ rvalid
Drained  == op \in Before /\ op # "RST" /\ ~arvalid /\ rready /\ ~rvalid
Asking   == /\ half = (IF op = "ID" THEN "AR" ELSE "R") /\ op \in {"ID", "STAT", "TCRX"}
            /\ arvalid /\ rready /\ ~rvalid /\ araddr = asks[op]
Answer   == /\ half = "R" /\ op \in {"ID", "STAT", "TCRX"}
            /\ ~arvalid /\ rready /\ rvalid /\ from = asks[op]
ReadOK   == /\ NoRead \/ Standing \/ Late \/ Drained \/ Asking \/ Answer
            /\ Astray => NoRead


(* What the accesses before the one at hand have achieved. *)
Achieved ==
  /\ op \notin Before \/ op = "DIV" \/ (op = "CTRL" /\ ~Offered) => control = Zero
  /\ op \notin Before \cup {"ID"} => coreid = "CORE_ID"
  /\ bringup => op \notin Before \cup {"ID"} /\ status = "STATUS"

(* The handshakes are Booleans; a master that never drives has mirrored nothing. *)
BusType == /\ bvalid \in BOOLEAN /\ bready \in BOOLEAN
           /\ arvalid \in BOOLEAN /\ rready \in BOOLEAN /\ rvalid \in BOOLEAN

AtRest == bringup = FALSE /\ coreid = "none" /\ status = "none" /\ tcrx = "none"

(* The engine and its bus; soft resets come while it reads, or once all is up. *)
EngineOK == BusType /\ WriteOK /\ ReadOK /\ Achieved /\ BroughtUp
SoftOK   == soft => ~Writing \/ bringup

MirrorInv ==
  /\ master \in {"any", "engine"}
  /\ master = "any" => AtRest
  /\ master = "engine" => EngineOK /\ SoftOK

AtClock == EngineInv /\ EngineOK /\ SoftOK

(* What a clock does to the write channel and to CONTROL. *)
LEMMA WriteClock ==
  ASSUME EngineInv, BusType, WriteOK, RegsClock(Drives)
  PROVE  /\ awHeld' = <<>> /\ wHeld' = <<>>
         /\ bvalid' \in BOOLEAN
         /\ bvalid' <=> IF bvalid THEN ~bready ELSE writing # <<>>
         /\ control' = IF ~bvalid /\ writing # <<>> /\ writing[1] \in {"CRST", "CTRL"}
                       THEN word(writing[1]) ELSE control
<1>1. /\ awNow(Drives) = Drives.aw \/ bvalid
      /\ wNow(Drives) = Drives.w \/ bvalid
      /\ bvalid => awNow(Drives) = <<>> /\ wNow(Drives) = <<>>
  BY DEF WriteOK, awNow, wNow, awready, wready
<1>2. CASE ~bvalid /\ writing # <<>>
  <2> DEFINE w == writing[1]
  <2>1. w \in WriteOps
    <3>1. Offered => w \in WriteOps
      BY DEF Offered, EngineInv, AccessOK
    <3>2. Astray => w \in WriteOps
      <4>1. Astray => w \in {"CLR", "TC_CLR", "TC_TX"} \/ (half = "AW" /\ w = op)
        BY <1>2 DEF Astray
      <4> QED BY <4>1 DEF EngineInv, AccessOK, WriteOps
    <3> QED BY <1>2, <3>1, <3>2 DEF WriteOK, Taken, Response, NoWrite
  <2>3. Drives.aw = <<target[w]>> /\ Drives.w = <<[data |-> word(w), strb |-> Both]>>
    BY <1>2 DEF Drives
  <2> HIDE DEF w
  <2>4. awNow(Drives) = <<target[w]>> /\ wNow(Drives) = <<[data |-> word(w), strb |-> Both]>>
    BY <1>1, <1>2, <2>3
  <2>5. write_fire(Drives)
    BY <1>2, <2>4 DEF write_fire
  <2>6. awHeld' = <<>> /\ wHeld' = <<>> /\ bvalid' = TRUE
    BY <2>5 DEF RegsClock, WriteChannel
  <2>7. target[w] = "CONTROL" <=> w \in {"CRST", "CTRL"}
    BY <2>1 DEF target, WriteOps
  <2>8. apply_wstrb(Drives, control) = word(w)
    <3>1. wNow(Drives)[1] = [data |-> word(w), strb |-> Both]
      BY <2>4
    <3>2. data(Drives) = word(w) /\ strb(Drives) = Both
      BY <3>1 DEF data, strb
    <3> QED BY <3>2 DEF apply_wstrb, Both, word
  <2>9. awNow(Drives)[1] = target[w]
    BY <2>4
  <2>10. control' = IF w \in {"CRST", "CTRL"} THEN word(w) ELSE control
    BY <2>5, <2>7, <2>8, <2>9 DEF RegsClock, Plain, writes
  <2> QED BY <1>2, <2>6, <2>10 DEF w
<1>3. CASE bvalid \/ writing = <<>>
  <2>1. awNow(Drives) = <<>> /\ wNow(Drives) = <<>>
    BY <1>1, <1>3 DEF Drives
  <2>2. ~write_fire(Drives)
    BY <2>1 DEF write_fire
  <2>3. Drives.bready = bready
    BY DEF Drives
  <2>4. awHeld' = <<>> /\ wHeld' = <<>> /\ bvalid' = (bvalid /\ ~bready)
    BY <2>1, <2>2, <2>3 DEF RegsClock, WriteChannel, BusType
  <2>5. control' = control
    BY <2>2 DEF RegsClock, Plain, writes
  <2> QED BY <1>3, <2>4, <2>5 DEF BusType
<1> QED BY <1>2, <1>3 DEF BusType

(* What a clock does to the read channel. *)
LEMMA ReadClock ==
  ASSUME BusType, RegsClock(Drives), Source
  PROVE  /\ rvalid' \in BOOLEAN
         /\ rvalid' <=> IF rvalid THEN ~rready ELSE arvalid
         /\ ~rvalid /\ arvalid => from' = araddr
<1>1. Drives.ar = (IF arvalid THEN <<araddr>> ELSE <<>>) /\ Drives.rready = rready
  BY DEF Drives
<1>2. Drives.ar # <<>> <=> arvalid
  BY <1>1 DEF BusType
<1>3. rvalid' = ((arready /\ Drives.ar # <<>>) \/ (rvalid /\ ~rready))
  BY <1>1 DEF RegsClock, ReadChannel
<1> QED BY <1>2, <1>3 DEF arready, Source, BusType

(* The write goes on by a clock, or a soft reset leads it astray. *)
LEMMA WriteStep ==
  ASSUME AtClock, EngineStep
  PROVE  WriteOK' /\ bready' \in BOOLEAN
<1>1. /\ awHeld' = <<>> /\ wHeld' = <<>> /\ bvalid' \in BOOLEAN
      /\ bvalid' <=> IF bvalid THEN ~bready ELSE writing # <<>>
  BY WriteClock DEF EngineStep, AtClock, EngineOK
<1> SUFFICES (Offered' \/ Taken' \/ Response' \/ NoWrite' \/ Astray') /\ bready' \in BOOLEAN
  BY <1>1 DEF WriteOK
<1>2. /\ Offered \/ Taken \/ Response \/ NoWrite \/ Astray
      /\ awready <=> ~bvalid
      /\ wready <=> ~bvalid
      /\ bvalid \in BOOLEAN /\ bready \in BOOLEAN
      /\ soft /\ Writing => op \notin {"RST", "CRST", "CTRL", "DIV", "ID"}
  BY DEF AtClock, EngineOK, SoftOK, WriteOK, BusType, awready, wready, Achieved, Before
<1>3. AccessOK /\ <<op>> # <<>>
  BY DEF AtClock, EngineInv
<1>4. CASE Restart
  <2>1. op = "RST" /\ half = "RST" /\ ~soft
    BY <1>2, <1>3, <1>4 DEF Restart, Writing, AccessOK, WriteOps
  <2>2. op' = "CRST" /\ half' = "AW" /\ writing' = <<"CRST">> /\ bready' = bready
    BY <1>4, <2>1 DEF Restart, Offer, Goes
  <2>3. NoWrite \/ Astray
    BY <1>2, <2>1 DEF Offered, Taken, Response
  <2>4. CASE NoWrite
    BY <1>1, <1>2, <2>2, <2>4 DEF NoWrite, Offered
  <2>5. CASE Astray
    BY <1>1, <1>2, <2>1, <2>2, <2>5 DEF Astray
  <2> QED BY <1>2, <2>2, <2>3, <2>4, <2>5
<1>5. CASE OfferTaken
  <2>1. half = "AW" /\ op \in WriteOps
    BY <1>3, <1>5 DEF OfferTaken, AccessOK
  <2>2. Offered \/ Taken \/ Astray
    BY <1>2, <2>1 DEF Response, NoWrite
  <2>3. CASE soft
    <3>1. op \notin {"RST", "CRST"} /\ op' = "RST" /\ half' = "RST"
      BY <1>2, <1>5, <2>1, <2>3 DEF OfferTaken, Goes, Writing
    <3>2. writing' = <<>> /\ bvalid' /\ bready' \in BOOLEAN
      BY <1>1, <1>2, <1>3, <1>5, <2>2, <3>1 DEF OfferTaken, Offered, Taken, Astray
    <3> QED BY <3>1, <3>2 DEF Astray
  <2>4. CASE ~soft
    <3>1. op' = op /\ half' = IF writing = <<>> THEN "B" ELSE "AW"
      BY <1>5, <2>4 DEF OfferTaken, Goes
    <3>2. /\ writing' = IF bvalid THEN writing ELSE <<>>
          /\ bready' = IF writing = <<>> THEN TRUE ELSE bready
      BY <1>2, <1>5 DEF OfferTaken
    <3>3. CASE Offered
      <4>1. writing # <<>> /\ ~bvalid /\ ~bready /\ half = "AW"
        BY <1>3, <3>3 DEF Offered
      <4>2. writing' = <<>> /\ bready' = bready /\ half' = "AW" /\ bvalid'
        BY <1>1, <3>1, <3>2, <4>1
      <4> QED BY <1>2, <4>1, <4>2 DEF Taken
    <3>4. CASE Taken
      BY <1>1, <3>1, <3>2, <3>4 DEF Taken, Response
    <3>5. CASE Astray
      <4>1. op' = "CRST"
        BY <2>1, <3>1, <3>5 DEF Astray, WriteOps
      <4>2. CASE writing = <<>>
        <5>1. bvalid /\ bready
          BY <1>3, <2>1, <3>5, <4>2 DEF Astray
        <5>2. half' = "B" /\ writing' = <<>> /\ ~bvalid' /\ bready' = TRUE
          BY <1>1, <3>1, <3>2, <4>2, <5>1
        <5> QED BY <4>1, <5>2 DEF Astray
      <4>3. CASE writing # <<>>
        <5>1. writing = <<op>> /\ (bvalid <=> ~bready)
          BY <2>1, <3>5, <4>3 DEF Astray
        <5>2. half' = "AW" /\ bready' = bready
          BY <3>1, <3>2, <4>3
        <5>3. CASE bvalid
          <6>1. bvalid' /\ ~bready
            BY <1>1, <5>1, <5>3
          <6>2. writing' = <<op'>>
            BY <3>1, <3>2, <5>1, <5>3
          <6> QED BY <1>2, <4>1, <5>2, <6>1, <6>2 DEF Astray
        <5>4. CASE ~bvalid
          <6>1. writing' = <<>> /\ bvalid' /\ bready
            BY <1>1, <3>2, <4>3, <5>1, <5>4
          <6> QED BY <1>2, <4>1, <5>2, <6>1 DEF Astray
        <5> QED BY <5>3, <5>4
      <4> QED BY <4>2, <4>3
    <3> QED BY <1>2, <2>2, <3>2, <3>3, <3>4, <3>5
  <2> QED BY <2>3, <2>4
<1>6. CASE Answered
  <2>1. half = "B" /\ op \in WriteOps
    BY <1>3, <1>6 DEF Answered, AccessOK
  <2>2. Response \/ Astray
    BY <1>2, <2>1 DEF Offered, Taken, NoWrite
  <2>3. CASE Astray
    <3>1. ~soft /\ ~bvalid /\ writing = <<>> /\ op = "CRST"
      BY <1>2, <2>1, <2>3 DEF Astray, Writing, WriteOps
    <3>2. op' = op /\ half' = "B" /\ writing' = writing /\ bready' = bready
      BY <1>6, <3>1 DEF Answered, Goes
    <3> QED BY <1>1, <1>2, <3>1, <3>2 DEF Astray
  <2>4. CASE Response
    <3>1. ~bvalid' /\ bready' = FALSE /\ writing = <<>> /\ bvalid
      BY <1>1, <1>6, <2>4 DEF Answered, Response
    <3>2. CASE op \in DOMAIN afterWrite
      <4>1. op \in {"CRST", "CTRL", "TC_CLR"} /\ Offer(afterWrite[op])
        BY <1>6, <3>1, <3>2 DEF Answered, afterWrite
      <4>2. writing' = <<afterWrite[op]>> /\ (op = "TC_CLR" => afterWrite[op] = "TC_TX")
        BY <4>1 DEF Offer, afterWrite
      <4>3. CASE soft
        <5>1. op = "TC_CLR" /\ op' = "RST" /\ half' = "RST"
          BY <1>2, <2>1, <4>1, <4>3 DEF Writing, Offer, Goes
        <5> QED BY <3>1, <4>2, <5>1 DEF Astray
      <4>4. CASE ~soft
        BY <3>1, <4>1, <4>2, <4>4 DEF Offer, Goes, Offered
      <4> QED BY <4>3, <4>4
    <3>3. CASE op \notin DOMAIN afterWrite
      <4>1. writing' = writing /\ half' \in {"AR", "RST"}
        BY <1>6, <3>1, <3>3 DEF Answered, Ask, Goes
      <4> QED BY <3>1, <4>1 DEF NoWrite
    <3> QED BY <3>2, <3>3
  <2> QED BY <2>2, <2>3, <2>4
<1>7. half \in {"AR", "R"} => NoWrite /\ ~bvalid'
  BY <1>1, <1>2 DEF Offered, Taken, Response, NoWrite, Astray
<1>8. CASE AskId \/ AskStatus \/ AwaitRead \/ Mirror
  <2>1. half \in {"AR", "R"} /\ half' \in {"AR", "R", "RST"} /\ writing' = writing /\ bready' = bready
    BY <1>8 DEF AskId, AskStatus, AwaitRead, Mirror, Ask, Goes
  <2> QED BY <1>2, <1>7, <2>1 DEF NoWrite
<1>9. CASE Poll
  <2>1. half = "R" /\ bready' = bready
    BY <1>9 DEF Poll, Polled
  <2>2. CASE clears \/ sends
    <3> DEFINE w == IF clears THEN "CLR" ELSE "TC_CLR"
    <3>1. Offer(w)
      BY <1>9, <2>2 DEF Poll
    <3>2. w \in {"CLR", "TC_CLR"}
      OBVIOUS
    <3> HIDE DEF w
    <3>3. writing' = <<w>> /\ ~bvalid' /\ ~bready'
      BY <1>7, <2>1, <3>1 DEF Offer, NoWrite
    <3>4. CASE soft
      BY <2>1, <3>1, <3>2, <3>3, <3>4, <1>2 DEF Offer, Goes, Astray
    <3>5. CASE ~soft
      BY <2>1, <3>1, <3>3, <3>5, <1>2 DEF Offer, Goes, Offered
    <3> QED BY <3>4, <3>5
  <2>3. CASE ~(clears \/ sends)
    <3>1. half' \in {"R", "RST"} /\ writing' = writing
      BY <1>9, <2>3 DEF Poll, Ask, Goes
    <3> QED BY <1>2, <1>7, <2>1, <3>1 DEF NoWrite
  <2> QED BY <2>2, <2>3
<1> QED BY <1>4, <1>5, <1>6, <1>8, <1>9 DEF EngineStep, EngineClock

(* A write that is under way is not astray. *)
LEMMA NotAstray == Offered \/ Taken \/ Response \/ NoWrite => ~Astray
<1>1. <<op>> # <<>>
  OBVIOUS
<1> QED BY <1>1 DEF Offered, Taken, Response, NoWrite, Astray

(* The answers on the read channel are those to the question asked. *)
LEMMA ReadStep ==
  ASSUME AtClock, EngineStep
  PROVE  ReadOK' /\ arvalid' \in BOOLEAN /\ rready' \in BOOLEAN /\ rvalid' \in BOOLEAN
<1>1. /\ rvalid' \in BOOLEAN
      /\ rvalid' <=> IF rvalid THEN ~rready ELSE arvalid
      /\ ~rvalid /\ arvalid => from' = araddr
  BY ReadClock DEF EngineStep, AtClock, EngineOK
<1>2. /\ bvalid' \in BOOLEAN
      /\ bvalid' <=> IF bvalid THEN ~bready ELSE writing # <<>>
  BY WriteClock DEF EngineStep, AtClock, EngineOK
<1>3. /\ Offered \/ Taken \/ Response \/ NoWrite \/ Astray
      /\ NoRead \/ Standing \/ Late \/ Drained \/ Asking \/ Answer
      /\ Astray => NoRead
      /\ awready <=> ~bvalid
      /\ wready <=> ~bvalid
      /\ soft /\ Writing => op \notin Before \cup {"ID"}
      /\ bready \in BOOLEAN /\ arvalid \in BOOLEAN /\ rready \in BOOLEAN /\ rvalid \in BOOLEAN
      /\ AccessOK
      /\ <<op>> # <<>>
  BY DEF AtClock, EngineOK, SoftOK, WriteOK, ReadOK, BusType, awready, wready, Achieved, EngineInv
<1>4. Offered' \/ Taken' \/ Response' \/ NoWrite' => ~Astray'
  <2>1. (Offered \/ Taken \/ Response \/ NoWrite => ~Astray)'
    BY NotAstray, PTL
  <2> QED BY <2>1
<1>5. Standing \/ Late \/ Drained \/ Asking \/ Answer => ~Astray
  BY <1>3 DEF NoRead, Standing, Late, Drained, Asking, Answer
<1>6. half \in {"AR", "R"} => NoWrite /\ ~bvalid'
  BY <1>2, <1>3 DEF Offered, Taken, Response, NoWrite, Astray
<1> SUFFICES /\ NoRead' \/ Standing' \/ Late' \/ Drained' \/ Asking' \/ Answer'
             /\ Astray' => NoRead'
             /\ arvalid' \in BOOLEAN /\ rready' \in BOOLEAN
  BY <1>1 DEF ReadOK
<1> USE DEF Before
<1>7. CASE Restart
  <2>1. ~soft /\ op = "RST" /\ half = "RST"
    BY <1>3, <1>7 DEF Restart, Writing, AccessOK, WriteOps
  <2>2. /\ op' = "CRST" /\ half' = "AW" /\ writing' = <<"CRST">> /\ bready' = bready
        /\ arvalid' = arvalid /\ rready' = rready
    BY <1>7, <2>1 DEF Restart, Offer, Goes
  <2>3. CASE NoRead
    BY <1>1, <1>3, <2>2, <2>3 DEF NoRead
  <2>4. CASE Standing \/ Late
    <3>1. NoWrite
      BY <1>3, <1>5, <2>1, <2>4 DEF Offered, Taken, Response
    <3>2. Offered'
      BY <1>2, <1>3, <2>2, <3>1 DEF NoWrite, Offered
    <3>3. ~OddClock /\ OddClock'
      BY <2>1, <2>2, <3>2 DEF OddClock
    <3> QED BY <1>1, <1>3, <1>4, <2>1, <2>2, <2>4, <3>2, <3>3 DEF Standing, Late, Drained
  <2> QED BY <1>3, <2>1, <2>3, <2>4 DEF Drained, Asking, Answer
<1>8. CASE OfferTaken
  <2>1. half = "AW" /\ op \in WriteOps /\ arvalid' = arvalid /\ rready' = rready
    BY <1>3, <1>8 DEF OfferTaken, AccessOK
  <2>2. half' \in {"AW", "B", "RST"}
    BY <1>8 DEF OfferTaken, Goes
  <2>3. CASE NoRead
    BY <1>1, <1>3, <2>1, <2>2, <2>3 DEF NoRead
  <2>4. CASE Standing \/ Drained
    <3>1. ~soft /\ op \in {"CRST", "CTRL", "DIV"}
      BY <1>3, <2>1, <2>4 DEF Standing, Drained, Writing, WriteOps
    <3>2. Offered \/ Taken
      BY <1>3, <1>5, <2>1, <2>4 DEF Response, NoWrite
    <3>3. op' = op
      BY <1>8, <3>1 DEF OfferTaken, Goes
    <3>4. Offered => Taken'
      BY <1>2, <1>3, <1>8, <3>1 DEF OfferTaken, Goes, Offered, Taken
    <3>5. Taken => Response'
      BY <1>2, <1>3, <1>8, <3>1 DEF OfferTaken, Goes, Taken, Response
    <3>6. OddClock' <=> ~OddClock
      <4>1. /\ Offered <=> ~Taken
            /\ Offered => ~Offered' /\ ~Response'
            /\ Taken => ~Offered' /\ ~Taken'
        BY <3>2, <3>4, <3>5 DEF Offered, Taken, Response
      <4>2. ~Response
        BY <2>1 DEF Response
      <4> QED BY <3>1, <3>3, <3>4, <3>5, <4>1, <4>2 DEF OddClock
    <3> QED BY <1>1, <1>3, <1>4, <2>1, <2>4, <3>1, <3>2, <3>3, <3>4, <3>5, <3>6 DEF Standing, Drained
  <2> QED BY <1>3, <2>1, <2>3, <2>4 DEF Late, Asking, Answer, WriteOps
<1>9. CASE Answered
  <2>1. half = "B" /\ op \in WriteOps
    BY <1>3, <1>9 DEF Answered, AccessOK
  <2>2. CASE ~bvalid
    <3>1. Astray /\ NoRead
      BY <1>3, <2>1, <2>2 DEF Offered, Taken, Response, NoWrite
    <3>2. half' \in {"B", "RST"} /\ arvalid' = arvalid /\ rready' = rready
      BY <1>9, <2>2 DEF Answered, Goes
    <3> QED BY <1>1, <1>3, <3>1, <3>2 DEF NoRead
  <2>3. CASE bvalid /\ op = "DIV"
    <3>1. Ask("CORE_ID", "ID", "AR") /\ ~soft
      BY <1>3, <1>9, <2>1, <2>3 DEF Answered, afterWrite, Writing
    <3>2. Response
      BY <1>3, <2>1, <2>3 DEF Offered, Taken, NoWrite, Astray
    <3>3. NoRead \/ Standing \/ Drained
      BY <1>3, <2>1 DEF Late, Asking, Answer, WriteOps
    <3>4. ~rvalid'
      BY <1>1, <2>3, <3>2, <3>3 DEF NoRead, Standing, Drained, OddClock
    <3> QED BY <3>1, <3>4 DEF Ask, Goes, Asking, asks, Astray
  <2>4. CASE bvalid /\ op # "DIV"
    <3>1. arvalid' = arvalid /\ rready' = rready
      BY <1>9, <2>4 DEF Answered
    <3>2. Response
      BY <1>3, <2>1, <2>4 DEF Offered, Taken, NoWrite, Astray, WriteOps
    <3>3. CASE NoRead
      <4>1. half' \in {"AW", "RST"} \/ (half' = "AR" /\ op' = "STAT")
        BY <1>9, <2>4 DEF Answered, Offer, Goes
      <4> QED BY <1>1, <1>3, <3>1, <3>3, <4>1 DEF NoRead
    <3>4. CASE Standing \/ Drained
      <4>1. op \in {"CRST", "CTRL"} /\ ~soft
        BY <1>3, <2>1, <2>4, <3>4 DEF Standing, Drained, Writing, WriteOps
      <4>2. Offer(afterWrite[op]) /\ bready' = FALSE
        BY <1>9, <2>4, <4>1 DEF Answered, afterWrite
      <4>3. afterWrite[op] = (IF op = "CRST" THEN "CTRL" ELSE "DIV")
        BY <4>1 DEF afterWrite
      <4>4. op' = afterWrite[op] /\ Offered'
        BY <1>2, <3>2, <4>1, <4>2 DEF Offer, Goes, Offered, Response
      <4>5. ~Taken' /\ ~Response' /\ ~Offered /\ ~Taken
        BY <2>1, <4>4 DEF Offered, Taken, Response
      <4>6. OddClock <=> op = "CRST"
        BY <3>2, <4>1, <4>5 DEF OddClock
      <4>7. OddClock' <=> op = "CTRL"
        BY <4>1, <4>3, <4>4, <4>5 DEF OddClock
      <4> QED BY <1>1, <1>3, <1>4, <3>1, <3>4, <4>1, <4>3, <4>4, <4>6, <4>7 DEF Standing, Drained
    <3> QED BY <1>3, <2>1, <3>3, <3>4 DEF Late, Asking, Answer, WriteOps
  <2> QED BY <2>2, <2>3, <2>4
<1>10. CASE AskId
  <2>1. Asking /\ half = "AR" /\ op = "ID"
    BY <1>3, <1>10 DEF AskId, NoRead, Standing, Late, Drained, Answer
  <2>2. ~Astray'
    BY <1>3, <1>4, <1>6, <1>10 DEF AskId, Goes, NoWrite
  <2> QED BY <1>1, <1>3, <1>10, <2>1, <2>2 DEF AskId, Goes, Asking, Answer, Late, asks, arready
<1>11. CASE AskStatus
  <2>1. NoRead /\ half = "AR"
    BY <1>3, <1>11 DEF AskStatus, Asking, Standing, Late, Drained, Answer
  <2>2. NoWrite'
    BY <1>3, <1>6, <1>11 DEF AskStatus, Ask, Goes, NoWrite
  <2> QED BY <1>1, <1>3, <1>4, <1>11, <2>1, <2>2
          DEF AskStatus, Ask, Goes, NoRead, Asking, asks, Standing, OddClock, Offered, Response, Taken
<1>12. CASE AwaitRead
  <2>1. Asking /\ op \in {"STAT", "TCRX"}
    BY <1>3, <1>12 DEF AwaitRead, NoRead, Standing, Late, Drained, Answer, Asking, AccessOK, WriteOps
  <2>2. ~Astray'
    BY <1>3, <1>4, <1>6, <1>12 DEF AwaitRead, Goes, NoWrite
  <2> QED BY <1>1, <1>3, <1>12, <2>1, <2>2 DEF AwaitRead, Goes, Asking, Answer, Late, asks, arready
<1>13. CASE Mirror
  <2>1. Answer
    BY <1>3, <1>13 DEF Mirror, NoRead, Standing, Late, Drained, Asking, AccessOK, WriteOps
  <2> QED BY <1>1, <1>3, <1>13, <2>1 DEF Mirror, Goes, Answer, NoRead
<1>14. CASE Poll
  <2>1. Answer /\ op = "STAT"
    BY <1>3, <1>14 DEF Poll, Polled, NoRead, Standing, Late, Drained, Asking
  <2>2. CASE clears \/ sends
    <3>1. half' \in {"AW", "RST"} /\ arvalid' = arvalid /\ rready' = FALSE
      BY <1>14, <2>2 DEF Poll, Offer, Goes
    <3> QED BY <1>1, <1>3, <2>1, <3>1 DEF Answer, NoRead
  <2>3. CASE ~(clears \/ sends)
    <3>1. Ask("TIMECODE_RX", "TCRX", "R") /\ writing' = writing /\ bready' = bready
      BY <1>14, <2>3 DEF Poll
    <3>2. NoWrite' /\ ~rvalid'
      BY <1>1, <1>3, <1>6, <2>1, <3>1 DEF Ask, Goes, NoWrite, Answer
    <3> QED BY <1>4, <3>1, <3>2 DEF Ask, Goes, Asking, asks, Standing, OddClock, Offered, Response, Taken
  <2> QED BY <2>2, <2>3
<1> QED BY <1>7, <1>8, <1>9, <1>10, <1>11, <1>12, <1>13, <1>14 DEF EngineStep, EngineClock

(* So the mirrors take the word of their own register. *)
LEMMA MirrorStep ==
  ASSUME AtClock, EngineStep
  PROVE  Achieved' /\ BroughtUp'
<1>1. \/ control' = control /\ ~(op = "CTRL" /\ Offered)
      \/ control' = word("CTRL") /\ op = "CTRL" /\ Offered
      \/ op = "CRST"
  <2>1. control' = IF ~bvalid /\ writing # <<>> /\ writing[1] \in {"CRST", "CTRL"}
                   THEN word(writing[1]) ELSE control
    BY WriteClock DEF EngineStep, AtClock, EngineOK
  <2>2. CASE Offered
    <3>1. ~bvalid /\ writing # <<>> /\ writing[1] = op
      BY <2>2 DEF Offered
    <3> QED BY <2>1, <2>2, <3>1
  <2>3. CASE ~Offered /\ ~Astray
    <3>1. writing = <<>>
      BY <2>3 DEF AtClock, EngineOK, WriteOK, Taken, Response, NoWrite
    <3> QED BY <2>1, <2>3, <3>1
  <2>4. CASE Astray
    <3>1. writing # <<>> => op = "CRST" \/ writing[1] \in {"CLR", "TC_CLR", "TC_TX"}
      BY <2>4 DEF Astray, AtClock, EngineInv, AccessOK, WriteOps
    <3> QED BY <2>1, <2>4, <3>1 DEF Astray
  <2> QED BY <2>2, <2>3, <2>4
<1>2. op' = (IF soft THEN "RST" ELSE IF Done THEN following ELSE op)
  BY AccessStep DEF EngineStep, AtClock
<1>3. bringup' = (~soft /\ (bringup \/ Polled))
  BY DEF EngineStep, EngineClock
<1>4. Done /\ op \in {"ID", "STAT", "TCRX"} => from = asks[op]
  BY DEF AtClock, EngineInv, AccessOK, WriteOps, EngineOK, ReadOK, Done, NoRead, Standing, Late,
         Drained, Asking, Answer, Before
<1>5. /\ coreid' = IF Done /\ op = "ID" THEN "CORE_ID" ELSE coreid
      /\ status' = IF Done /\ op = "STAT" THEN "STATUS" ELSE status
      /\ tcrx' = IF Done /\ op = "TCRX" THEN "TIMECODE_RX" ELSE tcrx
  BY <1>4 DEF EngineStep, EngineClock, Restart, OfferTaken, Answered, AskId, AskStatus, AwaitRead,
     Mirror, Poll, Polled, Done, asks, AtClock, EngineInv, AccessOK, WriteOps
<1>6. Polled <=> Done /\ op = "STAT"
  BY DEF AtClock, EngineInv, AccessOK, WriteOps, Polled, Done
<1>7. Done /\ Offered => op \notin {"CRST", "CTRL"}
  BY DEF Done, Offered, AtClock, EngineInv, AccessOK
<1>8. /\ op = "RST" => following = "CRST"
      /\ op = "CRST" => following = "CTRL"
      /\ op = "CTRL" => following = "DIV"
      /\ op = "DIV" => following = "ID"
      /\ op \in {"ID", "CLR", "TC_TX", "TCRX"} => following = "STAT"
      /\ op = "TC_CLR" => following = "TC_TX"
      /\ op = "STAT" => following \in {"CLR", "TC_CLR", "TCRX"}
  BY Follows DEF following, Master!afterStatus
<1>9. op \in {"RST", "ID", "STAT", "TCRX"} \cup WriteOps
  BY DEF AtClock, EngineInv, AccessOK
<1>10. Achieved'
  <2>1. (op' \notin Before \/ op' = "DIV" \/ (op' = "CTRL" /\ ~Offered')) => control' = Zero
    <3>1. CASE op' = op
      <4>1. CASE op = "CTRL" /\ Offered
        <5>1. word("CTRL") = Zero
          <6> DEFINE l == IF "CTRL" \in {"CRST", "CLR", "TC_TX"} THEN Low ELSE {}
                     t == "CTRL" \in {"TC_CLR", "TC_TX"}
          <6>1. l = {}
            OBVIOUS
          <6>2. t = FALSE
            OBVIOUS
          <6>3. word("CTRL") = [low |-> l, top |-> t]
            BY DEF word
          <6> HIDE DEF l, t
          <6> QED BY <6>1, <6>2, <6>3 DEF Zero
        <5> QED BY <1>1, <4>1, <5>1
      <4>2. CASE op = "CTRL" /\ ~Offered
        BY <1>1, <4>2 DEF AtClock, EngineOK, Achieved
      <4>3. CASE op # "CTRL"
        BY <1>1, <3>1, <4>3 DEF AtClock, EngineOK, Achieved, Before
      <4> QED BY <4>1, <4>2, <4>3
    <3>2. CASE op' # op /\ ~soft
      <4>1. Done /\ op' = following
        BY <1>2, <3>2
      <4>2. CASE op = "CRST"
        <5>1. half = "B"
          BY <4>1, <4>2 DEF Done, AtClock, EngineInv, AccessOK, WriteOps
        <5>2. Answered /\ bvalid
          BY <4>1, <5>1 DEF Done, EngineStep, EngineClock, Restart, OfferTaken, Answered, AskId, AskStatus,
             AwaitRead, Mirror, Poll, Polled
        <5>3. writing' = <<"CTRL">> /\ half' = "AW" /\ bready' = FALSE
          BY <3>2, <4>2, <5>2 DEF Answered, Offer, Goes, afterWrite
        <5>4. ~bvalid'
          <6>1. Response
            BY <5>1, <5>2 DEF AtClock, EngineOK, WriteOK, Offered, Taken, NoWrite, Astray
          <6> QED BY <6>1, WriteClock DEF EngineStep, AtClock, EngineOK, Response
        <5> QED BY <1>8, <4>1, <4>2, <5>3, <5>4 DEF Offered, Before
      <4>3. CASE op = "RST"
        BY <1>8, <4>1, <4>3 DEF Before
      <4>4. CASE op \notin {"RST", "CRST"}
        <5>1. ~(op = "CTRL" /\ Offered)
          BY <1>7, <4>1
        <5>2. control = Zero
          BY <1>9, <4>4, <5>1 DEF AtClock, EngineOK, Achieved, Before, WriteOps
        <5> QED BY <1>1, <1>7, <4>1, <4>4, <5>2
      <4> QED BY <4>2, <4>3, <4>4
    <3>3. CASE soft
      BY <1>2, <3>3 DEF Before
    <3> QED BY <3>1, <3>2, <3>3
  <2>2. op' \notin Before \cup {"ID"} => coreid' = "CORE_ID"
    BY <1>2, <1>5, <1>8, <1>9 DEF AtClock, EngineOK, Achieved, Before, WriteOps
  <2>3. bringup' => op' \notin Before \cup {"ID"} /\ status' = "STATUS"
    <3>1. Done /\ op \notin Before \cup {"ID"} => following \notin Before \cup {"ID"}
      BY <1>8, <1>9 DEF Before, WriteOps
    <3> QED BY <1>2, <1>3, <1>5, <1>6, <3>1 DEF AtClock, EngineOK, Achieved, Before
  <2> QED BY <2>1, <2>2, <2>3 DEF Achieved
<1>11. BroughtUp'
  <2>1. bringup' => control' = Zero /\ coreid' = "CORE_ID" /\ status' = "STATUS"
    BY <1>10 DEF Achieved
  <2> QED BY <1>5, <2>1 DEF BroughtUp, AtClock, EngineOK
<1> QED BY <1>10, <1>11

(* Every step of the registers and of either master. *)
LEMMA MirrorInvStep ==
  ASSUME EngineInv, MirrorInv, [MCNext]_mcVars
  PROVE  MirrorInv'
<1>1. CASE master = "engine" /\ MasterStep
  <2>1. AtClock /\ EngineStep /\ master' = master
    BY <1>1 DEF MirrorInv, AtClock, MasterStep, Quiet
  <2>2. bvalid' \in BOOLEAN
    BY <2>1, WriteClock DEF EngineStep, AtClock, EngineOK
  <2>3. BusType'
    BY <2>1, <2>2, WriteStep, ReadStep DEF BusType
  <2>4. soft' => ~Writing' \/ bringup'
    BY <1>1 DEF MasterStep, EngineInput
  <2> QED BY <1>1, <2>1, <2>3, <2>4, WriteStep, ReadStep, MirrorStep
          DEF MirrorInv, EngineOK, SoftOK
<1>2. CASE master = "engine" /\ MasterReset
  <2>1. BusType' /\ WriteOK' /\ ReadOK'
    BY <1>2 DEF MasterReset, RegsReset, EngineReset, BusType, WriteOK, ReadOK, NoWrite, NoRead, Astray
  <2>2. Achieved' /\ BroughtUp'
    BY <1>2 DEF MasterReset, RegsReset, EngineReset, Achieved, BroughtUp, Before
  <2>3. soft' => ~Writing' \/ bringup'
    BY <1>2 DEF MasterReset, EngineInput
  <2> QED BY <1>2, <2>1, <2>2, <2>3 DEF MirrorInv, EngineOK, SoftOK, MasterReset, Quiet
<1>3. CASE AnyMaster
  BY <1>3 DEF AnyMaster, engineVars, MirrorInv, AtRest
<1>4. CASE UNCHANGED mcVars
  BY <1>4 DEF mcVars, scoreVars, bringUpVars, regsVars, regVars, engineVars, MirrorInv, AtRest, EngineOK, SoftOK,
     BusType, WriteOK, Offered, Taken, Response, NoWrite, Astray, ReadOK, NoRead, Standing, Late, Drained, Asking, Answer,
     OddClock, Achieved, BroughtUp, Writing, Polled, clears, sends
<1> QED BY <1>1, <1>2, <1>3, <1>4 DEF MCNext, EngineMasters

(* At power-up no access is under way. *)
LEMMA MirrorInvInit == MCInit => MirrorInv
<1> SUFFICES ASSUME MCInit PROVE MirrorInv
  OBVIOUS
<1>1. BusType /\ WriteOK /\ ReadOK /\ AtRest
  BY DEF MCInit, RegsInit, EngineInit, BusType, WriteOK, ReadOK, NoWrite, NoRead, AtRest, Astray
<1>2. Achieved /\ BroughtUp /\ ~soft
  BY DEF MCInit, RegsInit, EngineInit, Achieved, BroughtUp, Before
<1> QED BY <1>1, <1>2 DEF MirrorInv, EngineOK, SoftOK, MCInit

(***************************************************************************)
(* The mirrors hold what the register of their name said, and a core that  *)
(* is reported as brought up is out of its soft reset, whether the soft    *)
(* reset came while the master read or while it wrote (BroughtUp;          *)
(* spw_loopback_axi.v, the AXI4-Lite master).                              *)
(***************************************************************************)
THEOREM MirrorsAreTrue == MCSpec => []BroughtUp
<1>1. MCInit => EngineInv /\ MirrorInv
  BY EngineInvInit, MirrorInvInit DEF MCInit
<1>2. EngineInv /\ MirrorInv /\ [MCNext]_mcVars => (EngineInv /\ MirrorInv)'
  BY EngineInvStep, MirrorInvStep
<1>3. MirrorInv => BroughtUp
  BY DEF MirrorInv, EngineOK, AtRest, BroughtUp
<1> QED BY <1>1, <1>2, <1>3, PTL DEF MCSpec
=============================================================================
