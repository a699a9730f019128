--------------------------- MODULE MCAxiLiteRegs ---------------------------
(***************************************************************************)
(* Model checking of the AXI4-Lite registers, with a scoreboard that sees  *)
(* only the handshakes on the bus, under any bus master and under the      *)
(* master of the loopback engine.                                          *)
(***************************************************************************)
EXTENDS BringUp

VARIABLES
  master,    \* who drives the bus: "any" or "engine"
  aws, ws,   \* addresses and data accepted and not yet joined to a write
  owed,      \* responses owed to the master
  expected,  \* what CONTROL holds if every write is performed as joined
  asked,     \* the write joined in the last clock asks for a Time-Code
  timecode   \* what the low lane of TIMECODE_TX holds

scoreVars == <<aws, ws, owed, expected, asked, timecode>>
mcVars == <<bringUpVars, master, scoreVars>>

OneTime == {{0}}

Accepted(queue, ready, offer) == IF ready THEN queue \o offer ELSE queue

Joined(a, w) == a # <<>> /\ w # <<>>

Merged(old, w) ==
  [low |-> IF w.strb.low THEN w.data.low ELSE old.low,
   top |-> IF w.strb.top THEN w.data.top ELSE old.top]

Score(in) ==
  LET a == Accepted(aws, awready, in.aw)
      w == Accepted(ws, wready, in.w)
  IN IF Joined(a, w)
     THEN /\ aws' = Tail(a) /\ ws' = Tail(w)
          /\ owed' = owed + 1 - (IF bvalid /\ in.bready THEN 1 ELSE 0)
          /\ expected' = IF a[1] = "CONTROL" THEN Merged(expected, w[1]) ELSE expected
          /\ asked' = (a[1] = "TIMECODE_TX" /\ w[1].strb.top /\ w[1].data.top)
          /\ timecode' = IF a[1] = "TIMECODE_TX" /\ w[1].strb.low THEN w[1].data.low ELSE timecode
     ELSE /\ aws' = a /\ ws' = w
          /\ owed' = owed - (IF bvalid /\ in.bready THEN 1 ELSE 0)
          /\ asked' = FALSE
          /\ UNCHANGED <<expected, timecode>>

MCInit ==
  /\ master \in {"any", "engine"}
  /\ RegsInit /\ EngineInit
  /\ aws = <<>> /\ ws = <<>> /\ owed = 0 /\ expected = Zero
  /\ asked = FALSE /\ timecode = {}

ScoreReset ==
  /\ aws' = <<>> /\ ws' = <<>> /\ owed' = 0 /\ expected' = Zero
  /\ asked' = FALSE /\ timecode' = {}

AnyMaster ==
  /\ master = "any"
  /\ CoreInput
  /\ (RegsReset /\ ScoreReset) \/ \E in \in BusInput : RegsClock(in) /\ Score(in)
  /\ UNCHANGED <<engineVars, master>>

(* Events of the core do not change what the engine asks for: none come. *)
Quiet == UNCHANGED <<errors, tick, master>>

MasterStep == EngineStep /\ Score(Drives) /\ EngineInput /\ Quiet

MasterReset == RegsReset /\ EngineReset /\ ScoreReset /\ EngineInput /\ Quiet

EngineMasters == master = "engine" /\ (MasterStep \/ MasterReset)

MCNext == AnyMaster \/ EngineMasters

MCSpec == MCInit /\ [][MCNext]_mcVars /\ WF_mcVars(master = "engine" /\ MasterStep)

(***************************************************************************)
(* Whatever the order and the distance in which the address and the data   *)
(* of writes arrive, the n-th address is joined to the n-th datum, the     *)
(* write is performed once, at once and with its own strobes, and the      *)
(* master gets one response for it; neither channel runs ahead by more     *)
(* than one.                                                               *)
(***************************************************************************)
WritesAsJoined ==
  /\ control = expected
  /\ owed = IF bvalid THEN 1 ELSE 0
  /\ Len(aws) + Len(ws) <= 1

(***************************************************************************)
(* A write that asks for a Time-Code, whichever of its address and data    *)
(* comes first, is one pulse of one clock with the Time-Code last written; *)
(* no other write makes a pulse, and no response left unanswered holds it. *)
(***************************************************************************)
OnePulsePerRequest ==
  [][/\ tickPulse' = asked' /\ tickWord' = timecode'
     /\ tickPulse' => ~tickPulse]_mcVars
=============================================================================
