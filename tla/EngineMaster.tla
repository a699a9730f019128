---------------------------- MODULE EngineMaster ----------------------------
(***************************************************************************)
(* What the loopback engine (spw_loopback_axi) asks of the registers of    *)
(* the SpaceWire core, as one step per bus transaction: the bring-up, the  *)
(* STATUS polling, the one clear of the sticky errors and the Time-Codes.  *)
(*                                                                         *)
(* `done' says that the transaction at hand ends in this clock.            *)
(***************************************************************************)
VARIABLES
  phase,      \* the transaction at hand
  bringup,    \* STATUS has been read since the last reset (bringup_done_r)
  run,        \* the link was running when STATUS was read (spw_status_r[2])
  errClr,     \* the sticky errors are still to be cleared (errclr_pending)
  tcPending   \* a Time-Code waits to be sent (tc_send_pending)

masterVars == <<phase, bringup, run, errClr, tcPending>>

Phase == {"RST", "CRST", "CTRL", "DIV", "ID", "STAT", "CLR", "TC_CLR", "TC_TX", "TCRX"}

(* The transactions that follow one another whatever is read. *)
follows ==
  [p \in Phase \ {"STAT"} |->
     CASE p = "RST"    -> "CRST"
       [] p = "CRST"   -> "CTRL"
       [] p = "CTRL"   -> "DIV"
       [] p = "DIV"    -> "ID"
       [] p = "TC_CLR" -> "TC_TX"
       [] OTHER        -> "STAT"]

(* After STATUS: clear the errors once, send a Time-Code, or mirror one. *)
afterStatus(running) ==
  IF running /\ errClr THEN "CLR" ELSE IF tcPending THEN "TC_CLR" ELSE "TCRX"

(***************************************************************************)
(* One clock.  A request for a Time-Code that comes while one is taken up  *)
(* stays; a soft reset starts the bring-up again, whatever is at hand.     *)
(***************************************************************************)
MasterClock(done, running, push, soft) ==
  LET next == IF phase = "STAT" THEN afterStatus(running) ELSE follows[phase]
      polled == done /\ phase = "STAT"
  IN /\ phase' = IF soft THEN "RST" ELSE IF done THEN next ELSE phase
     /\ bringup' = (~soft /\ (bringup \/ polled))
     /\ run' = IF polled THEN running ELSE run
     /\ errClr' = IF done /\ phase = "RST" THEN TRUE
                  ELSE errClr /\ ~(polled /\ next = "CLR")
     /\ tcPending' = (push \/ (tcPending /\ ~(polled /\ next = "TC_CLR")))

MasterInit ==
  phase = "RST" /\ bringup = FALSE /\ run = FALSE /\ errClr = FALSE /\ tcPending = FALSE

MasterReset ==
  phase' = "RST" /\ bringup' = FALSE /\ run' = FALSE /\ errClr' = FALSE /\ tcPending' = FALSE

Serves(push, soft) ==
  MasterReset \/ \E done, running \in BOOLEAN : MasterClock(done, running, push, soft)

MasterNext == \E push, soft \in BOOLEAN : Serves(push, soft)

MasterSpec == MasterInit /\ [][MasterNext]_masterVars
=============================================================================
