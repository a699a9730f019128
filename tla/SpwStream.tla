----------------------------- MODULE SpwStream -----------------------------
(***************************************************************************)
(* The link controller with its character FIFOs (spwstream): the receive   *)
(* FIFO that the user reads, the transmit FIFO that the user writes, and   *)
(* the packet bookkeeping that ends a half-received packet with an EEP and *)
(* discards the rest of a half-sent one when the link is lost.             *)
(*                                                                         *)
(* A FIFO is the sequence of the characters stored in it; the ring of      *)
(* memory words and the pointers behind it are in module StreamFifo.  The  *)
(* registered flags are kept as the code keeps them: they describe the     *)
(* FIFO as it was before the last read or the last write.                  *)
(***************************************************************************)
EXTENDS SpwLink, Sequences

CONSTANTS
  RxSize,        \* words of the receive FIFO's memory (2^RXFIFOSIZE_BITS)
  TxSize,        \* words of the transmit FIFO's memory (2^TXFIFOSIZE_BITS)
  RxChars,       \* N-Chars that the other side sends
  TxChars,       \* N-Chars that the user writes
  Pins,          \* user pins that change; linkstart is held high, the others low
  CreditHonest   \* the other side sends no N-Char without credit

ASSUME FctCharsPlural  == FctChars > 1
ASSUME SizesAssumption == RxSize \in Nat /\ RxSize > FctChars /\ TxSize \in Nat /\ TxSize > 1
ASSUME CharsAssumption == RxChars \subseteq NChar /\ TxChars \subseteq NChar
ASSUME PinsAssumption  == Pins \subseteq {"autostart", "linkstart", "linkdis"}
ASSUME HonestAssumption == CreditHonest \in BOOLEAN

VARIABLES
  rxpacket,   \* inside a packet that is being received
  rxeep,      \* an EEP is waiting for room in the receive FIFO
  rxq,        \* contents of the receive FIFO
  rxvalid,    \* a character can be read (rxfifo_rvalid)
  rxfull,     \* no room
  rxroom,     \* room, as told to the link controller
  txpacket,   \* inside a packet that is being sent
  txdiscard,  \* discarding the rest of a packet
  txq,        \* contents of the transmit FIFO
  txvalid,    \* a character can be taken (txfifo_rvalid)
  txfull      \* no room

rxVars     == <<rxpacket, rxeep, rxq, rxvalid, rxfull, rxroom>>
txVars     == <<txpacket, txdiscard, txq, txvalid, txfull>>
streamVars == <<linkVars, rxVars, txVars>>

(***************************************************************************)
(* Inputs of one clock period: the link controller's, and the user's side  *)
(* of the FIFOs.                                                           *)
(***************************************************************************)
StreamInput ==
  {in \in LinkInput :
     /\ in.got \in {"none", "fct", "tick"} \cup RxChars
     /\ "autostart" \in Pins \/ ~in.autostart
     /\ "linkstart" \in Pins \/ in.linkstart
     /\ "linkdis" \in Pins \/ ~in.linkdis}

UserInput == [rxread : BOOLEAN, txwrite : {"none"} \cup TxChars]

OfferRest == txvalid   \* fault: the rest of a cut packet is offered

(* What the link controller sees of the transmit FIFO. *)
txOffer == txvalid /\ ~txdiscard

(* An other side that respects the flow control sends only with credit.    *)
Arrives(in) == CreditHonest /\ rxchar(in) => rxCredit # 0

(***************************************************************************)
(* The receive FIFO.  A character of a running link or a waiting EEP is    *)
(* stored if the FIFO was not full; a character that finds it full is      *)
(* lost.  Readers see what was stored before this clock; the room told to  *)
(* the link controller does not count this clock's read.                   *)
(***************************************************************************)
AtMost(n, bound) == IF n > bound THEN bound ELSE n

rxStore(in) == ~rxfull /\ (LinkRxchar(in) \/ rxeep)

rxFilled(in) ==
  IF rxStore(in) THEN Append(rxq, IF rxeep THEN "eep" ELSE in.got) ELSE rxq

rxTake(user) == user.rxread /\ rxvalid

RxFlags(in) ==
  /\ rxroom' = AtMost(RxSize - 1 - Len(rxFilled(in)), MaxRoom)
  /\ rxfull' = (Len(rxFilled(in)) = RxSize - 1)

EepForgotten == FALSE   \* fault: a full FIFO loses the EEP
EepForever   == rxeep   \* fault: the EEP is stored again and again

eepKept == rxeep /\ rxfull   \* an EEP that found no room waits on

RxClock(in, user) ==
  LET packet == IF LinkRxchar(in) THEN in.got = "data" ELSE rxpacket
  IN /\ rxq' = IF rxTake(user) THEN Tail(rxFilled(in)) ELSE rxFilled(in)
     /\ rxvalid' = (Len(rxq) > IF rxTake(user) THEN 1 ELSE 0)
     /\ RxFlags(in)
     /\ \/ running /\ rxpacket' = packet /\ rxeep' = eepKept
        \/ ~running /\ rxpacket' = FALSE /\ rxeep' = (eepKept \/ packet)

(***************************************************************************)
(* The transmit FIFO.  Its first character leaves when the transmitter     *)
(* takes it or when it is discarded.                                       *)
(***************************************************************************)
txLeave(in) == txvalid /\ (in.txack \/ txdiscard)

txFilled(user) ==
  IF user.txwrite # "none" /\ ~txfull THEN Append(txq, user.txwrite) ELSE txq

DiscardOn(in) == txdiscard   \* fault: discarding never ends

discard(in) == txdiscard /\ ~(txLeave(in) /\ Head(txq) # "data")

TxClock(in, user) ==
  LET packet == IF in.txack THEN Head(txq) = "data" ELSE txpacket
  IN /\ txq' = IF txLeave(in) THEN Tail(txFilled(user)) ELSE txFilled(user)
     /\ txvalid' = (Len(txq) > IF txLeave(in) THEN 1 ELSE 0)
     /\ txfull' = (Len(txFilled(user)) = TxSize - 1)
     /\ \/ running /\ txpacket' = packet /\ txdiscard' = (discard(in) /\ ~in.linkdis)
        \/ /\ ~running
           /\ txpacket' = FALSE
           /\ txdiscard' = ((discard(in) \/ packet) /\ ~in.linkdis)

(***************************************************************************)
(* The whole core: one clock edge with and without rst.  rst does not      *)
(* clear the registered room and full flags: they still describe the FIFO  *)
(* that has just been emptied.                                             *)
(***************************************************************************)
StreamClock(in, user) ==
  /\ Possible(in, txOffer)
  /\ Arrives(in)
  /\ LinkClock(in, rxroom)
  /\ RxClock(in, user)
  /\ TxClock(in, user)

StreamReset(in, user) ==
  /\ Arrives(in)
  /\ LinkReset
  /\ RxFlags(in)
  /\ txfull' = (Len(txFilled(user)) = TxSize - 1)
  /\ rxq' = <<>> /\ txq' = <<>>
  /\ rxvalid' = FALSE /\ txvalid' = FALSE
  /\ rxpacket' = FALSE /\ rxeep' = FALSE
  /\ txpacket' = FALSE /\ txdiscard' = FALSE

StreamInit ==
  /\ LinkInit
  /\ rxpacket = FALSE /\ rxeep = FALSE
  /\ rxq = <<>> /\ rxvalid = FALSE /\ rxfull = FALSE /\ rxroom = 0
  /\ txpacket = FALSE /\ txdiscard = FALSE
  /\ txq = <<>> /\ txvalid = FALSE /\ txfull = FALSE

StreamNext ==
  \E in \in StreamInput, user \in UserInput :
    StreamClock(in, user) \/ StreamReset(in, user)

StreamSpec == StreamInit /\ [][StreamNext]_streamVars

StreamTypeOK ==
  /\ LinkTypeOK
  /\ rxq \in Seq(NChar) /\ Len(rxq) < RxSize
  /\ txq \in Seq(NChar) /\ Len(txq) < TxSize
  /\ rxroom \in 0..MaxRoom
  /\ rxpacket \in BOOLEAN /\ rxeep \in BOOLEAN
  /\ rxvalid \in BOOLEAN /\ rxfull \in BOOLEAN
  /\ txpacket \in BOOLEAN /\ txdiscard \in BOOLEAN
  /\ txvalid \in BOOLEAN /\ txfull \in BOOLEAN

(***************************************************************************)
(* Every N-Char that the other side may still send, those of an FCT that   *)
(* is only requested included, has a place in the receive FIFO: the credit *)
(* granted never exceeds the room, although the room register is one clock *)
(* old and the request for the FCT is one clock older.                     *)
(***************************************************************************)
RoomReserved ==
  CreditHonest /\ ~errcred =>
    rxCredit + (IF xmitFctIn THEN FctChars ELSE 0) <= RxSize - 1 - Len(rxq)

(***************************************************************************)
(* A character the other side was entitled to send is stored: when credit  *)
(* is outstanding on a running link, the FIFO is not full and no EEP of an *)
(* earlier connection is waiting to take the place (and the write port).   *)
(***************************************************************************)
EntitledCharFits ==
  (CreditHonest /\ ~errcred /\ running /\ rxCredit # 0) => ~rxfull /\ ~rxeep

(***************************************************************************)
(* The EEP that ends a half-received packet goes ahead of everything a     *)
(* later connection delivers: while it waits the link does not start.      *)
(***************************************************************************)
EepBeforeReconnect == rxeep => ~txen

(***************************************************************************)
(* The valid flags lag behind the FIFO but never run ahead of it, and the  *)
(* full flags never fail to announce a full FIFO.                          *)
(***************************************************************************)
FlagsConservative ==
  /\ rxvalid => rxq # <<>>
  /\ txvalid => txq # <<>>
  /\ Len(rxq) = RxSize - 1 => rxfull
  /\ Len(txq) = TxSize - 1 => txfull

(***************************************************************************)
(* A user who keeps reading gets the end of every packet that was cut,     *)
(* even if the FIFO was full when the link failed.                         *)
(***************************************************************************)
EepDelivered == rxeep ~> ~rxeep
=============================================================================
