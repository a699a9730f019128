------------------------------ MODULE SpwPair ------------------------------
(***************************************************************************)
(* Two link controllers, A and B, connected to each other: the handshake,  *)
(* the flow control and the recovery of a whole link.                      *)
(*                                                                         *)
(* Operators marked as faults are the mistakes that the checks of this     *)
(* project are tried against; no specification uses them.                  *)
(*                                                                         *)
(* The transmitters, the lines and the receivers, bit by bit in SpwLine,   *)
(* are here what that module shows them to be: a pipe that delivers the    *)
(* tokens in order.  Each direction is a pipe of Delay places; in every    *)
(* clock the transmitter puts one token in at its end, and the receiver    *)
(* takes what comes out at the other.  A transmitter that is off puts in   *)
(* silence, which the receiver takes for a disconnection.  Time-Codes,     *)
(* which use no credit, and the ends of packets, which count like data,    *)
(* are left out.                                                           *)
(***************************************************************************)
EXTENDS Naturals, Sequences, FiniteSets

CONSTANTS
  FctChars, ResetTime,
  Delay,     \* clocks that a token is on its way
  RxSize,    \* words of the receive FIFOs' memories
  Senders,   \* the nodes whose users send N-Chars
  Troubles   \* the disturbances that happen, see Trouble

ASSUME FctAssumption     == FctChars \in Nat \ {0}
ASSUME ResetAssumption   == ResetTime \in Nat \ {0}
ASSUME DelayAssumption   == Delay \in Nat \ {0}
ASSUME SizeAssumption    == RxSize \in Nat /\ RxSize > FctChars
ASSUME SendersAssumption == Senders \subseteq {"A", "B"}

(***************************************************************************)
(* The way there and back takes no longer than a period of the timer, the  *)
(* 6.4 us that a side stays deaf in ErrorReset.  With a timer one clock    *)
(* shorter a side can hear the connection that it has left and take it for *)
(* the next one.                                                           *)
(***************************************************************************)
ASSUME RoundTripAssumption == 2 * Delay <= ResetTime

(***************************************************************************)
(* What can go wrong in a clock: a bit is received wrong at a node, its    *)
(* user disables the link, or it is reset.                                 *)
(***************************************************************************)
Trouble == {"none", "noiseA", "noiseB", "disableA", "disableB", "resetA", "resetB"}

ASSUME TroublesAssumption == "none" \in Troubles /\ Troubles \subseteq Trouble

VARIABLES
  stateA, txCreditA, rxCreditA, errcredA, timercntA, timerdoneA, xmitFctInA,
  stateB, txCreditB, rxCreditB, errcredB, timercntB, timerdoneB, xmitFctInB,
  xmitA, xmitB,   \* transmitters, see Xmit
  pipeAB, pipeBA, \* tokens on their way, the first to arrive first
  recvA, recvB,   \* receivers, see Recv
  fifoA, fifoB,   \* receive FIFOs, see Fifo
  calm            \* no more disturbances: errors on the lines, resets, disabled links

A == INSTANCE SpwLink WITH
       Rooms <- {}, state <- stateA, txCredit <- txCreditA, rxCredit <- rxCreditA,
       errcred <- errcredA, timercnt <- timercntA, timerdone <- timerdoneA,
       xmitFctIn <- xmitFctInA

B == INSTANCE SpwLink WITH
       Rooms <- {}, state <- stateB, txCredit <- txCreditB, rxCredit <- rxCreditB,
       errcred <- errcredB, timercnt <- timercntB, timerdone <- timerdoneB,
       xmitFctIn <- xmitFctInB

nodeA == <<stateA, txCreditA, rxCreditA, errcredA, timercntA, timerdoneA, xmitFctInA,
           xmitA, recvA, fifoA>>
nodeB == <<stateB, txCreditB, rxCreditB, errcredB, timercntB, timerdoneB, xmitFctInB,
           xmitB, recvB, fifoB>>
pairVars == <<nodeA, nodeB, pipeAB, pipeBA, calm>>

Level == 0..(RxSize - 1)

(* A transmitter: has it sent a NULL and an FCT; has an FCT waited a clock. *)
Xmit == [null : BOOLEAN, fct : BOOLEAN, waited : BOOLEAN]
XmitOff == [null |-> FALSE, fct |-> FALSE, waited |-> FALSE]

(* A receiver: what it heard since it was enabled, and in the last clock. *)
Recv == [null : BOOLEAN, bit : BOOLEAN, got : {"none", "fct", "data"}, err : BOOLEAN]
RecvOff == [null |-> FALSE, bit |-> FALSE, got |-> "none", err |-> FALSE]

(* A receive FIFO: the characters in it and the room as registered. *)
Fifo == [level : Level, room : Level]

(***************************************************************************)
(* What a transmitter may put on the line, given the link's registers; `go` *)
(* says that the link has left Started, `char` that an N-Char may go.  An   *)
(* FCT goes first but may find another token on its way out.                *)
(***************************************************************************)
Puts(x, txen, go, request, char) ==
  IF ~txen THEN {"silence"}
  ELSE IF request /\ go /\ x.null
       THEN {"fct"} \cup (IF x.waited THEN {} ELSE {"null"})
       ELSE {"null"} \cup (IF char /\ x.null /\ x.fct THEN {"data"} ELSE {})

NextXmit(x, token, waits) ==
  IF token = "silence" THEN XmitOff
  ELSE [null |-> x.null \/ token = "null", fct |-> x.fct \/ token = "fct",
        waited |-> waits /\ token = "null"]

(***************************************************************************)
(* A receiver understands nothing before the first NULL.  Noise is an      *)
(* error and spoils the token, as the end of the bits may do.              *)
(***************************************************************************)
NextRecv(r, rxen, token, noise) ==
  IF ~rxen THEN RecvOff
  ELSE [null |-> r.null \/ token = "null",
        bit  |-> r.bit \/ token # "silence",
        got  |-> IF r.null /\ token \in {"fct", "data"} /\ ~noise THEN token ELSE "none",
        err  |-> r.err \/ noise \/ (r.bit /\ token = "silence")]

(* What is stored in this clock counts for the room, what is read does not. *)
NextFifo(f, arrives, read) ==
  LET filled == IF arrives /\ f.level < RxSize - 1 THEN f.level + 1 ELSE f.level
  IN [level |-> IF read /\ f.level > 0 THEN filled - 1 ELSE filled,
      room  |-> RxSize - 1 - filled]

(* A token that is cut off when the transmitter stops never arrives. *)
NextPipe(pipe, token, cut) ==
  Append(IF cut THEN Append(SubSeq(pipe, 2, Delay - 1), "silence") ELSE Tail(pipe), token)

MayCut(pipe, token) ==
  IF token = "silence" /\ Delay > 1 /\ pipe[Delay] # "silence" THEN BOOLEAN ELSE {FALSE}

(***************************************************************************)
(* One clock of a node.  A starts the link; B starts when it hears A.      *)
(***************************************************************************)
Input(r, starts, disabled, token) ==
  [autostart |-> TRUE, linkstart |-> starts, linkdis |-> disabled,
   gotnull |-> r.null, got |-> r.got, recverr |-> r.err,
   fctack |-> token = "fct", txack |-> token = "data"]

SentA(trouble) ==
  IF trouble = "resetA" THEN {"silence"}
  ELSE Puts(xmitA, A!txen, ~A!stnull, xmitFctInA,
            "A" \in Senders /\ A!running /\ txCreditA # 0)

ClockA(trouble, token, read) ==
  LET in == Input(recvA, TRUE, trouble = "disableA", token)
  IN /\ trouble # "resetA"
     /\ A!LinkClock(in, fifoA.room)
     /\ xmitA' = NextXmit(xmitA, token, xmitFctInA)
     /\ recvA' = NextRecv(recvA, A!rxen, Head(pipeBA), trouble = "noiseA")
     /\ fifoA' = NextFifo(fifoA, A!LinkRxchar(in), read)

ResetA(trouble) ==
  /\ trouble = "resetA"
  /\ A!LinkReset
  /\ xmitA' = XmitOff /\ recvA' = RecvOff
  /\ fifoA' = [level |-> 0, room |-> RxSize - 1 - fifoA.level]

SentB(trouble) ==
  IF trouble = "resetB" THEN {"silence"}
  ELSE Puts(xmitB, B!txen, ~B!stnull, xmitFctInB,
            "B" \in Senders /\ B!running /\ txCreditB # 0)

ClockB(trouble, token, read) ==
  LET in == Input(recvB, FALSE, trouble = "disableB", token)
  IN /\ trouble # "resetB"
     /\ B!LinkClock(in, fifoB.room)
     /\ xmitB' = NextXmit(xmitB, token, xmitFctInB)
     /\ recvB' = NextRecv(recvB, B!rxen, Head(pipeAB), trouble = "noiseB")
     /\ fifoB' = NextFifo(fifoB, B!LinkRxchar(in), read)

ResetB(trouble) ==
  /\ trouble = "resetB"
  /\ B!LinkReset
  /\ xmitB' = XmitOff /\ recvB' = RecvOff
  /\ fifoB' = [level |-> 0, room |-> RxSize - 1 - fifoB.level]

(***************************************************************************)
(* One clock of the whole link.                                            *)
(***************************************************************************)
PairClock(trouble, reads) ==
  \E tokenA \in SentA(trouble), tokenB \in SentB(trouble) :
  \E cutA \in MayCut(pipeAB, tokenA), cutB \in MayCut(pipeBA, tokenB) :
    /\ calm => trouble = "none"
    /\ calm' \in BOOLEAN /\ (calm => calm')
    /\ ClockA(trouble, tokenA, "A" \in reads) \/ ResetA(trouble)
    /\ ClockB(trouble, tokenB, "B" \in reads) \/ ResetB(trouble)
    /\ pipeAB' = NextPipe(pipeAB, tokenA, cutA)
    /\ pipeBA' = NextPipe(pipeBA, tokenB, cutB)

PairInit ==
  /\ A!LinkInit /\ B!LinkInit
  /\ xmitA = XmitOff /\ xmitB = XmitOff
  /\ recvA = RecvOff /\ recvB = RecvOff
  /\ fifoA = [level |-> 0, room |-> 0] /\ fifoB = [level |-> 0, room |-> 0]
  /\ pipeAB = [i \in 1..Delay |-> "silence"] /\ pipeBA = [i \in 1..Delay |-> "silence"]
  /\ calm = FALSE

(* The nodes whose users have something to read. *)
Readable == {n \in {"A", "B"} : IF n = "A" THEN fifoA.level > 0 ELSE fifoB.level > 0}

PairNext == \E trouble \in Troubles, reads \in SUBSET Readable : PairClock(trouble, reads)

PairSpec == PairInit /\ [][PairNext]_pairVars

(***************************************************************************)
(* Two controllers that follow the protocol never see a credit error,      *)
(* whatever resets, errors and disabled links interrupt their connections: *)
(* no credit and no character of one connection reaches the next one.      *)
(***************************************************************************)
NoCreditError == ~errcredA /\ ~errcredB

(***************************************************************************)
(* Credit is neither lost nor made: while both sides are in Run, what one  *)
(* side granted is what the other may still send plus what is on its way,  *)
(* FCTs in one direction and characters in the other.                      *)
(***************************************************************************)
OnItsWay(token, pipe, r) ==
  Cardinality({i \in 1..Delay : pipe[i] = token}) + IF r.got = token THEN 1 ELSE 0

CreditConserved ==
  (A!running /\ B!running /\ ~recvA.err /\ ~recvB.err) =>
    /\ rxCreditB = txCreditA + FctChars * OnItsWay("fct", pipeBA, recvA)
                             + OnItsWay("data", pipeAB, recvB)
    /\ rxCreditA = txCreditB + FctChars * OnItsWay("fct", pipeAB, recvB)
                             + OnItsWay("data", pipeBA, recvA)

(***************************************************************************)
(* Once the disturbances are over, the two sides find each other and stay  *)
(* connected, from whatever states they were in.                           *)
(***************************************************************************)
Reconnects == <>calm => <>[](A!running /\ B!running)

(***************************************************************************)
(* Fairness: the clock never stops and the users keep reading.             *)
(***************************************************************************)
PairFairSpec ==
  PairSpec /\ WF_pairVars(\E trouble \in Troubles : PairClock(trouble, Readable))
=============================================================================
