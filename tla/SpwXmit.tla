------------------------------ MODULE SpwXmit ------------------------------
(***************************************************************************)
(* The transmitter (spwxmit): it turns FCTs, Time-Codes, N-Chars and NULLs *)
(* into Data/Strobe bits, one bit per enabled clock.                       *)
(*                                                                         *)
(* One step is one clock edge.  What the link controller and the FIFO tell *)
(* the transmitter in that clock period is the record `in` of XmitInput.   *)
(* The shift register and its bit counter are one sequence, the bits still *)
(* to be sent.  A data word and a time have WordBits bits (8 in the code). *)
(*                                                                         *)
(* Operators marked as faults are the mistakes that the checks of this       *)
(* project are tried against; no specification uses them.                  *)
(***************************************************************************)
EXTENDS Naturals, Sequences

CONSTANTS
  WordBits,     \* bits of a data word and of a Time-Code
  Words,        \* the words that are sent
  StartDivcnt,  \* bit rate while the link starts: one bit per StartDivcnt + 1 clocks
  RunDivcnt     \* bit rate once it runs

Bit  == {0, 1}
Word == [1..WordBits -> Bit]

ASSUME WordsAssumption  == WordBits \in Nat /\ WordBits > 1 /\ Words \subseteq Word
ASSUME DivcntAssumption == StartDivcnt \in Nat /\ RunDivcnt \in Nat

VARIABLES
  txclken,     \* a bit goes out in this clock period
  txclkcnt,    \* clocks until the next one
  txbits,      \* bits of the current token still to be sent (bitshift, bitcnt)
  txparity,    \* parity of the bits since the last parity bit
  outData,     \* the Data and Strobe registers
  outStrobe,
  pendTick,    \* a Time-Code is waiting, and its time
  pendTime,
  allowFct,    \* FCTs may be sent
  allowChar,   \* N-Chars and Time-Codes may be sent
  sentNull,    \* since the transmitter was enabled
  sentFct

xmitVars == <<txclken, txclkcnt, txbits, txparity, outData, outStrobe, pendTick,
              pendTime, allowFct, allowChar, sentNull, sentFct>>

(***************************************************************************)
(* Tokens, and the inputs of one clock period.                             *)
(***************************************************************************)
NoToken  == [kind |-> "none", word |-> <<>>]
Fct      == [kind |-> "fct", word |-> <<>>]
Time(w)  == [kind |-> "time", word |-> w]
NChars(words) == {[kind |-> "eop", word |-> <<>>], [kind |-> "eep", word |-> <<>>]}
                   \cup {[kind |-> "data", word |-> w] : w \in words}
Token    == {Fct} \cup NChars(Word) \cup {Time(w) : w \in Word}

XmitInput ==
  [txen : BOOLEAN, stnull : BOOLEAN, stfct : BOOLEAN,  \* the state of the link
   fctIn : BOOLEAN,                                    \* an FCT is requested
   tick : {NoToken} \cup {Time(w) : w \in Words},      \* a Time-Code from the user
   nchar : {NoToken} \cup NChars(Words)]                      \* the N-Char on offer

(***************************************************************************)
(* The bits of a token after its parity bit, which is the first bit to go  *)
(* out: the control flag and the contents.  ESC is the prefix of NULL and  *)
(* of Time-Codes.                                                          *)
(***************************************************************************)
Xor(a, b) == (a + b) % 2
Not(a)    == 1 - a

EscBits == <<1, 1, 1>>

Bits(t) ==
  CASE t.kind = "data" -> <<0>> \o t.word
    [] t.kind = "fct"  -> <<1, 0, 0>>
    [] t.kind = "eop"  -> <<1, 0, 1>>
    [] t.kind = "eep"  -> <<1, 1, 0>>
    [] t.kind = "time" -> EscBits \o <<1, 0>> \o t.word
    [] t.kind = "none" -> EscBits \o <<0, 1, 0, 0>>   \* NULL

(***************************************************************************)
(* What goes out when a token may begin: Time-Codes first, then FCTs, then *)
(* N-Chars, and a NULL when there is nothing else.  The acknowledgements   *)
(* are worked out beside it.                                               *)
(***************************************************************************)
free      == txclken /\ txbits = <<>>
sendsTime == free /\ allowChar /\ pendTick

(* Fault: an FCT goes before the Time-Code that is taken for sent. *)
FctBeforeTime(in) ==
  IF allowFct /\ in.fctIn THEN Fct
  ELSE IF allowChar /\ pendTick THEN Time(pendTime)
  ELSE IF allowChar THEN in.nchar
  ELSE NoToken

next(in) ==
  IF allowChar /\ pendTick THEN Time(pendTime)
  ELSE IF allowFct /\ in.fctIn THEN Fct
  ELSE IF allowChar THEN in.nchar
  ELSE NoToken

fctack(in) == in.txen /\ free /\ allowFct /\ ~(allowChar /\ pendTick) /\ in.fctIn

(* Fault: an N-Char is acknowledged while the FCT before it goes out. *)
AckBehindFct(in) == in.txen /\ free /\ allowChar /\ ~pendTick /\ in.nchar # NoToken

txack(in) ==
  in.txen /\ free /\ allowChar /\ ~pendTick /\ ~in.fctIn /\ in.nchar # NoToken

(* What this clock period promises to send. *)
Accepted(in) ==
  (IF in.txen /\ sendsTime THEN <<Time(pendTime)>> ELSE <<>>)
    \o (IF fctack(in) THEN <<Fct>> ELSE <<>>)
    \o (IF txack(in) THEN <<in.nchar>> ELSE <<>>)

(***************************************************************************)
(* One bit.  The parity bit of a token covers the contents of the token    *)
(* before it and its own control flag; the number of ones is odd.          *)
(* Data/Strobe: exactly one of the two lines changes for every bit.        *)
(***************************************************************************)
(* Fault: the parity of a Time-Code forgets one of its two control flags. *)
TimeParity(t) == IF t.kind = "none" THEN 0 ELSE Head(Bits(t))

startParity(t) == IF t.kind \in {"none", "time"} THEN 0 ELSE Head(Bits(t))

Begin(in) ==
  LET t == next(in)
  IN /\ txbits = <<>>
     /\ outData' = Xor(txparity, Not(Head(Bits(t))))
     /\ txbits' = Bits(t)
     /\ txparity' = startParity(t)
     /\ sentNull' = (sentNull \/ t = NoToken)
     /\ sentFct' = (sentFct \/ t = Fct)

Shift ==
  /\ txbits # <<>>
  /\ outData' = Head(txbits)
  /\ txbits' = Tail(txbits)
  /\ txparity' = Xor(txparity, Head(txbits))
  /\ UNCHANGED <<sentNull, sentFct>>

strobe == outStrobe' = Not(Xor(outStrobe, Xor(outData, outData')))

SendBit(in) ==
  \/ txclken /\ (Begin(in) \/ Shift) /\ strobe
  \/ ~txclken /\ UNCHANGED <<outData, outStrobe, txbits, txparity, sentNull, sentFct>>

fctAllowed(in)  == ~in.stnull /\ sentNull

charAllowed(in) == ~in.stnull /\ sentNull /\ ~in.stfct /\ sentFct

(* A Time-Code that arrives replaces the one that is waiting. *)
TakeTick(in) ==
  /\ pendTick' = (in.tick # NoToken \/ (pendTick /\ ~sendsTime))
  /\ pendTime' = IF in.tick # NoToken THEN in.tick.word ELSE pendTime

RunDivider(divcnt) ==
  /\ txclken' = (txclkcnt = 0)
  /\ txclkcnt' = IF txclkcnt = 0 THEN divcnt ELSE txclkcnt - 1

(***************************************************************************)
(* One clock edge, with the transmitter enabled, disabled (the two lines   *)
(* return to zero one after the other) and in reset.                       *)
(***************************************************************************)
XmitEnabled(in) ==
  /\ in.txen
  /\ SendBit(in)
  /\ TakeTick(in)
  /\ allowFct' = fctAllowed(in)
  /\ allowChar' = charAllowed(in)

(* Fault: both lines are cleared at once. *)
DropLines == outData' = 0 /\ outStrobe' = 0

RestLines == outData' = outData * outStrobe /\ outStrobe' = 0

Forget == txbits' = <<>> /\ txparity' = 0 /\ pendTick' = FALSE

XmitDisabled(in) ==
  /\ ~in.txen
  /\ Forget
  /\ allowFct' = FALSE /\ allowChar' = FALSE
  /\ sentNull' = FALSE /\ sentFct' = FALSE
  /\ IF txclken THEN RestLines ELSE UNCHANGED <<outData, outStrobe>>
  /\ UNCHANGED pendTime

XmitClock(in, divcnt) == (XmitEnabled(in) \/ XmitDisabled(in)) /\ RunDivider(divcnt)

XmitReset ==
  /\ txclken' = FALSE /\ txclkcnt' = 0
  /\ Forget
  /\ pendTime' = [i \in 1..WordBits |-> 0]
  /\ outData' = 0 /\ outStrobe' = 0
  /\ allowFct' = FALSE /\ allowChar' = FALSE
  /\ sentNull' = FALSE /\ sentFct' = FALSE

XmitInit ==
  /\ txclken = FALSE /\ txclkcnt = 0
  /\ txbits = <<>> /\ txparity = 0
  /\ outData = 0 /\ outStrobe = 0
  /\ pendTick = FALSE /\ pendTime = [i \in 1..WordBits |-> 0]
  /\ allowFct = FALSE /\ allowChar = FALSE
  /\ sentNull = FALSE /\ sentFct = FALSE
=============================================================================
