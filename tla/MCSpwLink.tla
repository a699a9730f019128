----------------------------- MODULE MCSpwLink -----------------------------
(***************************************************************************)
(* Model checking of the link controller against any receiver, any         *)
(* transmitter and any room in the receive FIFO.                           *)
(*                                                                         *)
(* History variables: quiet counts the clocks for which the transmitter    *)
(* has been off, up to QuietBound; given is the credit of the FCTs that    *)
(* the transmitter took in the handshake at hand.                          *)
(***************************************************************************)
EXTENDS SpwLink

VARIABLES quiet, given

silenceVars == <<linkVars, quiet, given>>

Period     == ResetTime + 1
QuietBound == 3 * Period

SilenceInit == LinkInit /\ quiet = 0 /\ given = 0

Count == quiet' = CASE txen'              -> 0
                    [] ~txen' /\ quiet < QuietBound -> quiet + 1
                    [] OTHER              -> quiet

Give(in) ==
  given' = IF stnull \/ stfct THEN given + (IF in.fctack THEN FctChars ELSE 0) ELSE 0

SilenceNext ==
  /\ \/ \E in \in LinkInput, room \in Rooms :
          Possible(in, TRUE) /\ LinkClock(in, room) /\ Give(in)
     \/ LinkReset /\ given' = 0
  /\ Count

(* The system clock does not stop. *)
SilenceSpec == SilenceInit /\ [][SilenceNext]_silenceVars /\ WF_silenceVars(SilenceNext)

(***************************************************************************)
(* A connection starts from a clean slate.  On entering Run the credit     *)
(* granted is that of the FCTs sent in this very handshake and the credit  *)
(* to send is that of the one FCT just received, whatever an earlier       *)
(* connection or a failed handshake left, and no credit error is pending.  *)
(***************************************************************************)
FreshConnection ==
  [][(state # "Run" /\ state' = "Run") =>
       ~errcred' /\ txCredit' = FctChars /\ rxCredit' = given']_silenceVars

(***************************************************************************)
(* The exchange of silence: a link that stopped sending stays silent for   *)
(* one period (6.4 us) in ErrorReset and two (12.8 us) in ErrorWait before *)
(* it sends again, whichever error or reset stopped it, so that the other  *)
(* side sees the disconnection.                                            *)
(***************************************************************************)
ExchangeOfSilence == [][(~txen /\ txen') => quiet >= QuietBound]_silenceVars
=============================================================================
