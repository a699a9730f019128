------------------------------ MODULE BringUp ------------------------------
(***************************************************************************)
(* The AXI4-Lite master of the loopback engine (spw_loopback_axi), clock   *)
(* by clock, on the register block of the SpaceWire core.                  *)
(*                                                                         *)
(* The master raises AWVALID and WVALID together and the register block    *)
(* takes both in one clock or none, so one flag stands for the two.        *)
(***************************************************************************)
EXTENDS AxiLiteRegs

CONSTANT SoftWhen   \* "reading": a soft reset comes while the master does not write,
                    \* "up": at any time once the bring-up is done

ASSUME SoftAssumption == SoftWhen \in {"reading", "up"}

VARIABLES
  op,         \* the access at hand, named as the states of the master are
  half,       \* and how far it is: RST, AW and B of a write, AR and R of a read
  writing,    \* the write that is offered, or <<>> (m_axil_awvalid, m_axil_wvalid)
  bready,     \* m_axil_bready
  araddr,     \* the register that is asked for (m_axil_araddr)
  arvalid,    \* m_axil_arvalid
  rready,     \* m_axil_rready
  coreid,     \* the mirrors of CORE_ID, STATUS and TIMECODE_RX: the register
  status,     \* that the word came from, "none" before the first
  tcrx,
  bringup,    \* bringup_done_r
  run,        \* the link bit of the mirrored STATUS (link_running)
  errClr,     \* errclr_pending
  tcPending,  \* tc_send_pending
  from,       \* the register whose word is on the read channel,
  fromRun,    \* and its link bit
  soft, push, \* one-clock pulses: soft reset, send a Time-Code
  link        \* the link is running

engineVars == <<op, half, writing, bready, araddr, arvalid, rready, coreid, status, tcrx,
                bringup, run, errClr, tcPending, from, fromRun, soft, push, link>>
bringUpVars == <<regsVars, engineVars>>

Both == [low |-> TRUE, top |-> TRUE]

(* The register and the word of each write (the other bits are not kept). *)
target ==
  [CRST |-> "CONTROL", CTRL |-> "CONTROL", DIV |-> "TXDIVCNT", CLR |-> "ERROR",
   TC_CLR |-> "TIMECODE_RX", TC_TX |-> "TIMECODE_TX"]

word(w) == [low |-> IF w \in {"CRST", "CLR", "TC_TX"} THEN Low ELSE {},
            top |-> w \in {"TC_CLR", "TC_TX"}]

(* What the master drives in this clock. *)
Drives ==
  [aw |-> IF writing = <<>> THEN <<>> ELSE <<target[writing[1]]>>,
   w  |-> IF writing = <<>> THEN <<>> ELSE <<[data |-> word(writing[1]), strb |-> Both]>>,
   ar |-> IF arvalid THEN <<araddr>> ELSE <<>>,
   bready |-> bready,
   rready |-> rready]

Goes(o, h) == IF soft THEN op' = "RST" /\ half' = "RST" ELSE op' = o /\ half' = h

Offer(w) == writing' = <<w>> /\ Goes(w, "AW")

Ask(reg, o, h) == araddr' = reg /\ arvalid' = TRUE /\ rready' = TRUE /\ Goes(o, h)

(***************************************************************************)
(* The states of the master.                                               *)
(***************************************************************************)
Restart ==
  /\ half = "RST"
  /\ Offer("CRST")
  /\ UNCHANGED <<bready, araddr, arvalid, rready, coreid, status, tcrx>>

(* Fault: the master forgets to take the response. *)
NoResponse ==
  /\ half = "AW"
  /\ writing' = IF awready /\ wready THEN <<>> ELSE writing
  /\ Goes(op, IF writing = <<>> THEN "B" ELSE "AW")
  /\ UNCHANGED <<bready, araddr, arvalid, rready, coreid, status, tcrx>>

OfferTaken ==
  /\ half = "AW"
  /\ writing' = IF awready /\ wready THEN <<>> ELSE writing
  /\ IF writing = <<>> THEN bready' = TRUE /\ Goes(op, "B")
                       ELSE UNCHANGED bready /\ Goes(op, "AW")
  /\ UNCHANGED <<araddr, arvalid, rready, coreid, status, tcrx>>

afterWrite == [CRST |-> "CTRL", CTRL |-> "DIV", TC_CLR |-> "TC_TX"]

Answered ==
  /\ half = "B"
  /\ IF ~bvalid THEN Goes(op, "B") /\ UNCHANGED <<writing, bready, araddr, arvalid, rready>>
     ELSE /\ bready' = FALSE
          /\ \/ /\ op \in DOMAIN afterWrite
                /\ Offer(afterWrite[op])
                /\ UNCHANGED <<araddr, arvalid, rready>>
             \/ /\ op = "DIV"
                /\ Ask("CORE_ID", "ID", "AR")
                /\ UNCHANGED writing
             \/ /\ op \in {"CLR", "TC_TX"}
                /\ Goes("STAT", "AR")
                /\ UNCHANGED <<writing, araddr, arvalid, rready>>
  /\ UNCHANGED <<coreid, status, tcrx>>

AskId ==
  /\ half = "AR" /\ op = "ID"
  /\ arvalid' = (arvalid /\ ~arready)
  /\ Goes("ID", "R")
  /\ UNCHANGED <<writing, bready, araddr, rready, coreid, status, tcrx>>

AskStatus ==
  /\ half = "AR" /\ op = "STAT"
  /\ Ask("STATUS", "STAT", "R")
  /\ UNCHANGED <<writing, bready, coreid, status, tcrx>>

(* Fault: a request is never lowered while its answer is awaited. *)
KeepsAsking ==
  /\ half = "R" /\ ~rvalid
  /\ Goes(op, "R")
  /\ UNCHANGED <<writing, bready, araddr, arvalid, rready, coreid, status, tcrx>>

(* The answer has not come: only STATUS and TIMECODE_RX still lower ARVALID. *)
AwaitRead ==
  /\ half = "R" /\ ~rvalid
  /\ arvalid' = (arvalid /\ (op = "ID" \/ ~arready))
  /\ Goes(op, "R")
  /\ UNCHANGED <<writing, bready, araddr, rready, coreid, status, tcrx>>

Mirror ==
  /\ half = "R" /\ rvalid /\ op \in {"ID", "TCRX"}
  /\ IF op = "ID" THEN coreid' = from /\ UNCHANGED tcrx ELSE tcrx' = from /\ UNCHANGED coreid
  /\ rready' = FALSE
  /\ Goes("STAT", "AR")
  /\ UNCHANGED <<writing, bready, araddr, arvalid, status>>

Polled == half = "R" /\ rvalid /\ op = "STAT"
clears == fromRun /\ errClr

(* Fault: a Time-Code counts as sent when the errors are cleared instead. *)
SendsBeside == tcPending

sends == ~clears /\ tcPending

Poll ==
  /\ Polled
  /\ status' = from
  /\ IF clears \/ sends
     THEN /\ Offer(IF clears THEN "CLR" ELSE "TC_CLR")
          /\ rready' = FALSE
          /\ UNCHANGED <<araddr, arvalid>>
     ELSE Ask("TIMECODE_RX", "TCRX", "R") /\ UNCHANGED writing
  /\ UNCHANGED <<bready, coreid, tcrx>>

(* Fault: a request in the clock in which another is taken up goes with it. *)
LosesPush == tcPending' = ((push \/ tcPending) /\ ~(Polled /\ sends))

Requests == tcPending' = (push \/ (tcPending /\ ~(Polled /\ sends)))

EngineClock ==
  /\ Restart \/ OfferTaken \/ Answered \/ AskId \/ AskStatus \/ AwaitRead \/ Mirror \/ Poll
  /\ bringup' = (~soft /\ (bringup \/ Polled))
  /\ run' = IF Polled THEN fromRun ELSE run
  /\ errClr' = (half = "RST" \/ (errClr /\ ~(Polled /\ clears)))
  /\ Requests

(* The register block shows the link in STATUS. *)
Source ==
  IF arready /\ arvalid THEN from' = araddr /\ fromRun' = (araddr = "STATUS" /\ link)
                        ELSE UNCHANGED <<from, fromRun>>

Writing == half \in {"RST", "AW", "B"} \/ (Polled /\ (clears \/ sends))

(* Inputs of the next clock. *)
EngineInput ==
  /\ push' \in BOOLEAN /\ link' \in BOOLEAN /\ soft' \in BOOLEAN
  /\ soft' => IF SoftWhen = "reading" THEN ~Writing' ELSE bringup'

EngineReset ==
  /\ op' = "RST" /\ half' = "RST" /\ writing' = <<>> /\ bready' = FALSE
  /\ araddr' = "CORE_ID" /\ arvalid' = FALSE /\ rready' = FALSE
  /\ coreid' = "none" /\ status' = "none" /\ tcrx' = "none"
  /\ bringup' = FALSE /\ run' = FALSE /\ errClr' = FALSE /\ tcPending' = FALSE
  /\ from' = "CORE_ID" /\ fromRun' = FALSE

EngineInit ==
  /\ op = "RST" /\ half = "RST" /\ writing = <<>> /\ bready = FALSE
  /\ araddr = "CORE_ID" /\ arvalid = FALSE /\ rready = FALSE
  /\ coreid = "none" /\ status = "none" /\ tcrx = "none"
  /\ bringup = FALSE /\ run = FALSE /\ errClr = FALSE /\ tcPending = FALSE
  /\ from = "CORE_ID" /\ fromRun = FALSE
  /\ soft = FALSE /\ push = FALSE /\ link = FALSE

EngineStep == RegsClock(Drives) /\ EngineClock /\ Source

BringUpNext ==
  /\ CoreInput
  /\ EngineStep \/ (RegsReset /\ EngineReset)
  /\ EngineInput

BringUpSpec ==
  /\ RegsInit /\ EngineInit /\ [][BringUpNext]_bringUpVars
  /\ WF_bringUpVars(CoreInput /\ EngineStep /\ EngineInput)

(***************************************************************************)
(* The mirrors hold what the register of their name said, and a core that  *)
(* is reported as brought up is out of its soft reset: reads that a soft   *)
(* reset left behind never shift the answers (reg_read 14, 18, 38 hex).    *)
(***************************************************************************)
BroughtUp ==
  /\ coreid \in {"none", "CORE_ID"}
  /\ status \in {"none", "STATUS"}
  /\ tcrx \in {"none", "TIMECODE_RX"}
  /\ bringup => control = Zero /\ coreid = "CORE_ID" /\ status = "STATUS"

(***************************************************************************)
(* The bring-up ends unless it is started again: soft_reset re-runs it so  *)
(* that the link recovers (spw_loopback_axi.v:226-229).                    *)
(***************************************************************************)
BringUpEnds == []<>(bringup \/ half = "RST")

(***************************************************************************)
(* A request for a Time-Code that comes while an earlier one is taken up   *)
(* or sent gets a Time-Code after that one, and any other the next to go   *)
(* out, however it falls together with the polling and with the clearing   *)
(* of the errors, unless bring-up is started again.                        *)
(***************************************************************************)
Sending == (Polled /\ sends) \/ op \in {"TC_CLR", "TC_TX"}

TimecodesSent ==
  push ~> \/ half = "RST"
          \/ ~Sending /\ <>(tickPulse \/ half = "RST")

(***************************************************************************)
(* The handshakes add nothing to the sequence of accesses, and each clock  *)
(* serves the requests made in it and no others.                           *)
(***************************************************************************)
Master == INSTANCE EngineMaster WITH phase <- op
ImplementsMaster == Master!MasterInit /\ [][Master!Serves(push, soft)]_engineVars
=============================================================================
