------------------------------ MODULE SpwRecv ------------------------------
(***************************************************************************)
(* The receiver (spwrecv): it cuts the stream of received bits into tokens *)
(* and watches for parity errors, escape errors and disconnection.         *)
(*                                                                         *)
(* One step is one clock edge, in which the front end delivers a chunk of  *)
(* bits (RXCHUNK of them) or none.  The registers that the bits go through *)
(* are one record, so that a chunk is a fold of the function of one bit.   *)
(***************************************************************************)
EXTENDS SpwXmit, SequencesExt

CONSTANT DisconnectTime   \* clocks without a bit that count as a disconnection

ASSUME DisconnectAssumption == DisconnectTime \in Nat \ {0}
ASSUME WindowAssumption     == WordBits <= 8   \* a word fits the window of nine bits

VARIABLES
  rx,       \* registers of the bit receiver, see Receiver
  disccnt   \* clocks left until the link counts as disconnected

recvVars == <<rx, disccnt>>

Idle == WordBits + 2   \* no token boundary is known yet

Receiver ==
  [bitSeen  : BOOLEAN,           \* a bit was received
   nullSeen : BOOLEAN,           \* the first NULL was received
   window   : [1..9 -> Bit],     \* the last bits, the oldest first (bitshift)
   left     : 0..Idle,           \* bits before the next control flag (bitcnt)
   parity   : Bit,
   control  : BOOLEAN,           \* the token that is arriving is a control code
   escaped  : BOOLEAN,           \* it was preceded by an ESC
   got      : Token \cup {NoToken},  \* token completed in the last clock
   errpar   : BOOLEAN,
   erresc   : BOOLEAN]

Silent ==
  [bitSeen |-> FALSE, nullSeen |-> FALSE, window |-> [i \in 1..9 |-> 1], left |-> Idle,
   parity |-> 0, control |-> FALSE, escaped |-> FALSE, got |-> NoToken,
   errpar |-> FALSE, erresc |-> FALSE]

(* The parity bit and the flag of the token after the first NULL complete it. *)
FirstNull == <<0, 1, 1, 1, 0, 1, 0, 0, 0>>

(***************************************************************************)
(* A token is judged when the flag of the next one arrives: its contents   *)
(* are just before the last bit of the window, which is the parity bit.    *)
(***************************************************************************)
contents(r)  == SubSeq(r.window, 9 - WordBits, 8)
lastTwo(r)   == SubSeq(r.window, 7, 8)
badParity(r, b) == Xor(r.parity, b) = 0

Ctrl(k) == [kind |-> k, word |-> <<>>]

(* The token that r completes, NoToken for NULL and ESC. *)
decoded(r) ==
  CASE ~r.control /\ r.escaped   -> Time(contents(r))
    [] ~r.control /\ ~r.escaped  -> [kind |-> "data", word |-> contents(r)]
    [] r.control /\ lastTwo(r) = <<0, 0>> -> IF r.escaped THEN NoToken ELSE Fct
    [] r.control /\ ~r.escaped /\ lastTwo(r) = <<0, 1>> -> Ctrl("eop")
    [] r.control /\ ~r.escaped /\ lastTwo(r) = <<1, 0>> -> Ctrl("eep")
    [] OTHER -> NoToken

isEsc(r)    == r.control /\ lastTwo(r) = <<1, 1>>
badEsc(r)   == r.control /\ lastTwo(r) # <<0, 0>> /\ r.escaped

Judge(r, b) ==
  IF badParity(r, b) THEN [r EXCEPT !.errpar = TRUE]
  ELSE [r EXCEPT !.got = decoded(r), !.escaped = isEsc(r), !.erresc = @ \/ badEsc(r)]

(* A new token starts with the flag b. *)
Start(r, b) ==
  [r EXCEPT !.parity = 0, !.control = (b = 1), !.left = IF b = 1 THEN 3 ELSE WordBits + 1]

Count(r, b) ==
  [r EXCEPT !.left = IF @ = Idle THEN Idle ELSE @ - 1, !.parity = Xor(@, b)]

Sync(r, b) ==
  IF ~r.nullSeen /\ r.window = FirstNull
  THEN [r EXCEPT !.nullSeen = TRUE, !.control = (b = 1), !.parity = 0, !.left = 3]
  ELSE r

ReceiveBit(r, b) ==
  LET cut == IF r.left = 0 THEN Start(Judge(r, b), b) ELSE Count(r, b)
  IN [Sync(cut, b) EXCEPT !.bitSeen = TRUE, !.window = Append(Tail(r.window), b)]

(***************************************************************************)
(* The clock edge with and without the link enabling the receiver; active  *)
(* says that the front end saw the lines change.                           *)
(***************************************************************************)
received(chunk) == FoldLeft(ReceiveBit, [rx EXCEPT !.got = NoToken], chunk)

RecvEnabled(chunk, active) ==
  /\ rx' = received(chunk)
  /\ disccnt' = CASE active -> DisconnectTime
                  [] ~active /\ disccnt > 0 -> disccnt - 1
                  [] ~active /\ disccnt = 0 -> 0

(* Parity and control have no reset: a bit that is still coming in moves them. *)
RecvDisabled(chunk) ==
  /\ rx' = [Silent EXCEPT !.parity = received(chunk).parity,
                          !.control = received(chunk).control]
  /\ disccnt' = 0

LateDisc == rx.nullSeen /\ disccnt = 0   \* fault: silence counts only after a NULL

errdisc == rx.bitSeen /\ disccnt = 0
recverr == errdisc \/ rx.errpar \/ rx.erresc

RecvInit == rx = Silent /\ disccnt = 0
=============================================================================
