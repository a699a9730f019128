------------------------------ MODULE SpwLine ------------------------------
(***************************************************************************)
(* A transmitter, the Data and Strobe lines and the receiver of the other  *)
(* end: spwxmit, the flops and the front end spwrecvfront_generic, and     *)
(* spwrecv.  The two link controllers are what enables them: the           *)
(* transmitter goes through the phases of a connection, the receiver is    *)
(* switched on before it and off on an error.                              *)
(*                                                                         *)
(* What the two controllers' timers guarantee appears as guards: a         *)
(* transmitter starts on lines that have come to rest and that the other   *)
(* receiver has found dead or not looked at, and a receiver that joins     *)
(* late has seen a NULL before FCTs are sent.                              *)
(***************************************************************************)
EXTENDS SpwRecv

CONSTANT Noisy   \* one bit of a connection may be received wrong

ASSUME NoisyAssumption == Noisy \in BOOLEAN

VARIABLES
  phase,    \* of the transmitting link: off, null (Started), fct (Connecting) or run
  rxen,     \* the receiving link is out of ErrorReset
  line,     \* Data and Strobe on their way: spw_do/so, and the three stages of the front end
  valid,    \* the front end has a bit (inbvalid)
  ready,    \* the receiver was on before the transmitter was
  flight,   \* history: tokens sent and not yet received
  flipped,  \* history: a bit of this connection was received wrong
  silent    \* history: clocks since the transmitter stopped and nothing was noticed

envVars  == <<phase, rxen, ready>>
lineVars == <<xmitVars, recvVars, envVars, line, valid, flight, flipped, silent>>

Phase == {"off", "null", "fct", "run"}

InPhase ==
  {in \in XmitInput :
     /\ in.txen = (phase # "off") /\ in.stnull = (phase = "null") /\ in.stfct = (phase = "fct")
     /\ phase # "run" => in.tick = NoToken}   \* the link passes on no tick before Run

divcnt == IF phase = "run" THEN RunDivcnt ELSE StartDivcnt

(***************************************************************************)
(* The front end: a bit is where either line has changed; its value is     *)
(* Data's.                                                                 *)
(***************************************************************************)
Changed(a, b) == Xor(a.data, a.strobe) # Xor(b.data, b.strobe)

FrontClock ==
  /\ line' = <<[data |-> outData, strobe |-> outStrobe]>> \o SubSeq(line, 1, 3)
  /\ valid' = (rxen /\ Changed(line[3], line[4]))

(* Noise turns the bit over, once in a connection and after its first NULL. *)
Chunk(noise) ==
  IF ~valid THEN <<>> ELSE <<IF noise THEN Not(line[4].data) ELSE line[4].data>>

(***************************************************************************)
(* The two links: when they move is free, within what their timers allow.  *)
(***************************************************************************)
atRest ==
  /\ outData = 0 /\ outStrobe = 0 /\ ~valid
  /\ \A i \in 1..4 : line[i] = [data |-> 0, strobe |-> 0]

Starts  == phase = "off" /\ atRest /\ ~rx.bitSeen /\ phase' = "null"
Goes    == \/ phase = "null" /\ (rx.nullSeen \/ ready) /\ phase' = "fct"
           \/ phase = "fct" /\ phase' = "run"
Stops   == phase # "off" /\ phase' = "off"

PhaseStep == Starts \/ Goes \/ Stops \/ UNCHANGED phase

EnableStep ==
  /\ \/ rxen' = FALSE
     \/ rxen' = TRUE /\ rxen /\ ~recverr
     \/ /\ rxen' = TRUE /\ ~rxen
        /\ phase' = "null" \/ (phase' = "off" /\ atRest)
  /\ ready' = (rxen' /\ (phase' = "off" \/ ready))

(***************************************************************************)
(* One clock edge, and one in which the transmitter is in reset.           *)
(***************************************************************************)
Noise(noise) == noise => Noisy /\ ~flipped /\ rxen /\ valid /\ rx.nullSeen

Receive(noise) ==
  \/ rxen /\ RecvEnabled(Chunk(noise), valid)
  \/ ~rxen /\ RecvDisabled(Chunk(noise))

unnoticed == rxen /\ rx.bitSeen /\ ~recverr

Delivered == rxen' /\ rx'.got # NoToken

Record(tokens, noise) ==
  LET sent == flight \o tokens
  IN /\ flight' = CASE ~rxen' -> <<>>
                    [] Delivered /\ sent # <<>> -> Tail(sent)
                    [] OTHER -> sent
     /\ flipped' = (rxen' /\ (flipped \/ noise))
     /\ silent' = IF phase = "off" /\ unnoticed' THEN silent + 1 ELSE 0

LineClock(in, noise) ==
  /\ Noise(noise)
  /\ XmitClock(in, divcnt)
  /\ FrontClock
  /\ Receive(noise)
  /\ PhaseStep /\ EnableStep
  /\ Record(Accepted(in), noise)

LineReset(noise) ==
  /\ Noise(noise)
  /\ XmitReset
  /\ FrontClock
  /\ Receive(noise)
  /\ phase' = "off" /\ EnableStep
  /\ Record(<<>>, noise)

LineInit ==
  /\ XmitInit /\ RecvInit
  /\ phase = "off" /\ rxen = FALSE /\ ready = FALSE
  /\ line = [i \in 1..4 |-> [data |-> 0, strobe |-> 0]] /\ valid = FALSE
  /\ flight = <<>> /\ flipped = FALSE /\ silent = 0

LineNext ==
  \E noise \in BOOLEAN :
    LineReset(noise) \/ \E in \in InPhase : LineClock(in, noise)

LineSpec == LineInit /\ [][LineNext]_lineVars

(***************************************************************************)
(* Tokens are received as they were sent: nothing is invented, changed,    *)
(* skipped or repeated, whatever is cut off when the transmitter stops and *)
(* whenever the receiver joins.  It holds too when a bit was received      *)
(* wrong: the receiver reports that before it delivers anything of it,     *)
(* unless the transmitter stops at the same moment, when the lines on      *)
(* their way back to zero can supply a parity bit that fits.               *)
(***************************************************************************)
ReceivedAsSent ==
  [][Delivered /\ (flipped => phase # "off") =>
       flight # <<>> /\ rx'.got = Head(flight)]_lineVars

(***************************************************************************)
(* And they are received soon: a token is delivered before the third one   *)
(* after it is accepted, from the very first FCT on.                       *)
(***************************************************************************)
ReceivedSoon == ~flipped => Len(flight) <= 3

(***************************************************************************)
(* On an undisturbed line a receiver that is on raises no alarm while the  *)
(* other side sends, at the start-up rate or the running rate or where it  *)
(* goes from one to the other, as long as a bit takes no longer than the   *)
(* disconnect time at either rate.                                         *)
(***************************************************************************)
RatesSuffice == StartDivcnt < DisconnectTime /\ RunDivcnt < DisconnectTime

NoFalseAlarm == phase # "off" /\ rxen /\ ~flipped => ~recverr

(***************************************************************************)
(* Data and Strobe never change in the same clock, not even when the       *)
(* transmitter is stopped in the middle of a bit pattern; only the reset   *)
(* clears both at once.                                                    *)
(***************************************************************************)
OneLineChanges ==
  [][outData' # outData /\ outStrobe' # outStrobe => XmitReset]_lineVars

(***************************************************************************)
(* Silence is noticed: the receiver of a transmitter that stopped reports  *)
(* an error (or is switched off by its link, or hears it again) within the *)
(* disconnect time, two bit times for the lines to come to rest (the first *)
(* at the rate at which it stopped, the second at the start-up rate) and   *)
(* four clocks in the front end, wherever in a token it stopped.           *)
(***************************************************************************)
Slowest == IF RunDivcnt > StartDivcnt THEN RunDivcnt ELSE StartDivcnt

LongestSilence == DisconnectTime + (Slowest + 1) + (StartDivcnt + 1) + 4

SilenceNoticed == silent <= LongestSilence
=============================================================================
