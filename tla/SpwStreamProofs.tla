-------------------------- MODULE SpwStreamProofs --------------------------
(***************************************************************************)
(* Proofs about the core with its FIFOs, for every size of the FIFOs: the  *)
(* receive FIFO never overflows with a remote that respects its credit,    *)
(* an EEP always precedes the next connection, the transmit side never     *)
(* continues a cut packet as if it were a new one, and the receive side    *)
(* implements the packet stream of RxPackets.                              *)
(*                                                                         *)
(* RoomReserved is not inductive: it speaks of the room there is, while    *)
(* the FCT is requested from a register that is one clock old.  The        *)
(* invariant follows the registers, and the EEP, which takes a place that  *)
(* no credit stands for.                                                   *)
(***************************************************************************)
EXTENDS MCStream, SpwLinkProofs, SequenceTheorems

(* The room register never promises more than there is. *)
RoomIsThere == rxroom <= RxSize - 1 - Len(rxq)

(* The credit granted and requested is within the room register. *)
RoomKept ==
  CreditHonest /\ ~errcred =>
    rxCredit + (IF xmitFctIn THEN FctChars ELSE 0) <= rxroom

(* A full flag means no room, and that the FIFO was full a clock ago unless *)
(* a reset has emptied it since. *)
FullIsRecent ==
  rxfull => /\ rxroom = 0
            /\ Len(rxq) >= RxSize - 2 \/ (~rxeep /\ ~rxpacket)

(* A cut packet is noticed in the first clock of ErrorReset. *)
CutIsNoticed == (rxpacket /\ ~running) => (state = "ErrorReset" /\ timercnt = ResetTime)

(* While an EEP waits the link neither starts nor asks for an FCT. *)
EepWaits ==
  rxeep => /\ state \in {"ErrorReset", "ErrorWait", "Ready"}
           /\ ~xmitFctIn
           /\ state = "ErrorReset" \/ rxroom <= 1

StreamInv ==
  /\ StreamTypeOK
  /\ CreditWithinLimit
  /\ NothingLeftOver
  /\ FlagsConservative
  /\ RoomIsThere
  /\ RoomKept
  /\ FullIsRecent
  /\ CutIsNoticed
  /\ EepWaits

LEMMA SizesAreNumbers ==
  /\ RxSize \in Nat /\ RxSize > 2 /\ RxSize > FctChars
  /\ TxSize \in Nat /\ TxSize > 1
  /\ FctChars > 1
  /\ MaxRoom \in Nat
BY SizesAssumption, FctCharsPlural, ConstantsAreNumbers

LEMMA InputIsLinkInput == StreamInput \subseteq LinkInput
BY DEF StreamInput

(* What a clock stores in the receive FIFO fits there. *)
LEMMA RxFilledOK ==
  ASSUME StreamInv, NEW in \in StreamInput
  PROVE  /\ rxFilled(in) \in Seq(NChar)
         /\ Len(rxFilled(in)) = Len(rxq) + (IF rxStore(in) THEN 1 ELSE 0)
         /\ Len(rxFilled(in)) < RxSize
         /\ rxq # <<>> => rxFilled(in) # <<>>
<1>1. rxq \in Seq(NChar) /\ Len(rxq) < RxSize /\ Len(rxq) \in Nat
  BY DEF StreamInv, StreamTypeOK
<1>2. CASE ~rxStore(in)
  BY <1>1, <1>2 DEF rxFilled
<1>3. CASE rxStore(in)
  <2> DEFINE c == IF rxeep THEN "eep" ELSE in.got
  <2>1. c \in NChar
    BY <1>3 DEF rxStore, LinkRxchar, rxchar, NChar
  <2>2. rxFilled(in) = Append(rxq, c)
    BY <1>3 DEF rxFilled
  <2>3. Len(rxq) # RxSize - 1
    BY <1>3 DEF rxStore, StreamInv, FlagsConservative
  <2> QED BY <1>1, <1>3, <2>1, <2>2, <2>3, SizesAreNumbers
<1> QED BY <1>2, <1>3

(* What the user writes fits in the transmit FIFO. *)
LEMMA TxFilledOK ==
  ASSUME StreamInv, NEW user \in UserInput
  PROVE  /\ txFilled(user) \in Seq(NChar)
         /\ Len(txFilled(user)) \in Len(txq)..(TxSize - 1)
         /\ txq # <<>> => txFilled(user) # <<>>
<1>1. txq \in Seq(NChar) /\ Len(txq) < TxSize /\ Len(txq) \in Nat
  BY DEF StreamInv, StreamTypeOK
<1>2. CASE ~(user.txwrite # "none" /\ ~txfull)
  BY <1>1, <1>2, SizesAreNumbers DEF txFilled
<1>3. CASE user.txwrite # "none" /\ ~txfull
  <2>1. user.txwrite \in NChar
    BY <1>3, CharsAssumption DEF UserInput
  <2>2. txFilled(user) = Append(txq, user.txwrite)
    BY <1>3 DEF txFilled
  <2>3. Len(txq) # TxSize - 1
    BY <1>3 DEF StreamInv, FlagsConservative
  <2> QED BY <1>1, <2>1, <2>2, <2>3, SizesAreNumbers
<1> QED BY <1>2, <1>3

LEMMA AtMostOK ==
  ASSUME NEW n \in Nat, NEW bound \in Nat
  PROVE  /\ AtMost(n, bound) \in 0..bound
         /\ AtMost(n, bound) <= n
         /\ \A m \in Int : m <= n /\ m <= bound => m <= AtMost(n, bound)
BY DEF AtMost

(***************************************************************************)
(* The registered room is at most the room before this clock's read, and   *)
(* it shrinks by no more than the character stored.                        *)
(***************************************************************************)
LEMMA RxFlagsOK ==
  ASSUME StreamInv, NEW in \in StreamInput, RxFlags(in)
  PROVE  /\ rxroom' \in 0..MaxRoom
         /\ rxroom' <= RxSize - 1 - Len(rxFilled(in))
         /\ rxroom' >= rxroom - (IF rxStore(in) THEN 1 ELSE 0)
         /\ rxfull' \in BOOLEAN
         /\ rxfull' <=> Len(rxFilled(in)) = RxSize - 1
         /\ rxfull' => rxroom' = 0
<1>1. /\ Len(rxFilled(in)) \in Nat /\ Len(rxFilled(in)) < RxSize
      /\ Len(rxFilled(in)) = Len(rxq) + (IF rxStore(in) THEN 1 ELSE 0)
      /\ Len(rxq) \in Nat
  BY RxFilledOK DEF StreamInv, StreamTypeOK
<1>2. rxroom \in 0..MaxRoom /\ rxroom <= RxSize - 1 - Len(rxq)
  BY DEF StreamInv, StreamTypeOK, RoomIsThere
<1>3. rxroom' = AtMost(RxSize - 1 - Len(rxFilled(in)), MaxRoom)
  BY DEF RxFlags
<1>4. rxfull' = (Len(rxFilled(in)) = RxSize - 1)
  BY DEF RxFlags
<1> DEFINE room  == RxSize - 1 - Len(rxFilled(in))
           taken == IF rxStore(in) THEN 1 ELSE 0
<1>5. room \in Nat /\ rxroom - taken <= room /\ rxroom - taken <= MaxRoom
      /\ rxroom - taken \in Int
  BY <1>1, <1>2, SizesAreNumbers
<1>6. /\ rxroom' \in 0..MaxRoom
      /\ rxroom' <= room
      /\ rxroom - taken <= rxroom'
  BY <1>3, <1>5, AtMostOK, SizesAreNumbers
<1>8. rxfull' => rxroom' = 0
  <2> SUFFICES ASSUME rxfull' PROVE rxroom' = 0
    OBVIOUS
  <2>1. Len(rxFilled(in)) = RxSize - 1
    BY <1>4, Zenon
  <2>2. room = 0
    BY <1>1, <2>1, SizesAreNumbers
  <2> QED BY <1>6, <2>2, SizesAreNumbers
<1>7. rxfull' \in BOOLEAN
  BY <1>4, Zenon
<1>9. rxroom' >= rxroom - taken
  BY <1>2, <1>5, <1>6
<1> QED BY <1>4, <1>6, <1>7, <1>8, <1>9

(***************************************************************************)
(* The FIFOs keep their types and their flags stay conservative.           *)
(***************************************************************************)
LEMMA TailFacts ==
  ASSUME NEW s \in Seq(NChar), s # <<>>
  PROVE  Tail(s) \in Seq(NChar) /\ Len(Tail(s)) = Len(s) - 1 /\ Len(s) > 0
OBVIOUS

LEMMA RxFifoOK ==
  ASSUME StreamInv, NEW in \in StreamInput, NEW user \in UserInput, RxClock(in, user)
  PROVE  /\ rxq' \in Seq(NChar) /\ Len(rxq') < RxSize
         /\ Len(rxq') <= Len(rxFilled(in)) /\ Len(rxq') >= Len(rxFilled(in)) - 1
         /\ rxvalid' \in BOOLEAN /\ (rxvalid' => rxq' # <<>>)
         /\ Len(rxq') = RxSize - 1 => rxfull'
<1> DEFINE take == rxTake(user)
<1>1. take => rxq # <<>>
  BY DEF rxTake, StreamInv, FlagsConservative
<1>2. rxq' = (IF take THEN Tail(rxFilled(in)) ELSE rxFilled(in))
  BY DEF RxClock
<1>3. rxvalid' = (Len(rxq) > IF take THEN 1 ELSE 0)
  BY DEF RxClock
<1>4. /\ rxFilled(in) \in Seq(NChar) /\ Len(rxFilled(in)) < RxSize
      /\ Len(rxFilled(in)) >= Len(rxq) /\ (take => rxFilled(in) # <<>>)
      /\ Len(rxFilled(in)) \in Nat /\ Len(rxq) \in Nat
  BY <1>1, RxFilledOK DEF StreamInv, StreamTypeOK
<1>5. /\ rxq' \in Seq(NChar)
      /\ Len(rxq') = Len(rxFilled(in)) - (IF take THEN 1 ELSE 0)
  <2>1. CASE take
    <3>1. rxq' = Tail(rxFilled(in)) /\ rxFilled(in) # <<>>
      BY <1>2, <1>4, <2>1
    <3> QED BY <1>4, <2>1, <3>1, TailFacts
  <2>2. CASE ~take
    BY <1>2, <1>4, <2>2
  <2> QED BY <2>1, <2>2
<1>6. rxvalid' \in BOOLEAN
  BY <1>3
<1>7. ASSUME rxvalid' PROVE rxq' # <<>>
  <2>1. Len(rxq) > IF take THEN 1 ELSE 0
    BY <1>3, <1>7, Zenon
  <2> QED BY <1>4, <1>5, <2>1
<1>8. ASSUME Len(rxq') = RxSize - 1 PROVE rxfull'
  <2>1. Len(rxFilled(in)) = RxSize - 1
    BY <1>4, <1>5, <1>8, SizesAreNumbers
  <2> QED BY <2>1, RxFlagsOK DEF RxClock
<1> QED BY <1>4, <1>5, <1>6, <1>7, <1>8, SizesAreNumbers

LEMMA TxFifoOK ==
  ASSUME StreamInv, NEW in \in StreamInput, NEW user \in UserInput, TxClock(in, user)
  PROVE  /\ txq' \in Seq(NChar) /\ Len(txq') < TxSize
         /\ txvalid' \in BOOLEAN /\ (txvalid' => txq' # <<>>)
         /\ txfull' \in BOOLEAN /\ (Len(txq') = TxSize - 1 => txfull')
         /\ txpacket' \in BOOLEAN /\ txdiscard' \in BOOLEAN
<1> DEFINE leave == txLeave(in)
<1>1. leave => txq # <<>>
  BY DEF txLeave, StreamInv, FlagsConservative
<1>2. txq' = (IF leave THEN Tail(txFilled(user)) ELSE txFilled(user))
  BY DEF TxClock
<1>3. txvalid' = (Len(txq) > IF leave THEN 1 ELSE 0)
  BY DEF TxClock
<1>4. txfull' = (Len(txFilled(user)) = TxSize - 1)
  BY DEF TxClock
<1>5. /\ txFilled(user) \in Seq(NChar) /\ Len(txFilled(user)) < TxSize
      /\ Len(txFilled(user)) >= Len(txq) /\ (leave => txFilled(user) # <<>>)
      /\ Len(txFilled(user)) \in Nat /\ Len(txq) \in Nat
  BY <1>1, TxFilledOK, SizesAreNumbers DEF StreamInv, StreamTypeOK
<1>6. /\ txq' \in Seq(NChar)
      /\ Len(txq') = Len(txFilled(user)) - (IF leave THEN 1 ELSE 0)
  <2>1. CASE leave
    <3>1. txq' = Tail(txFilled(user)) /\ txFilled(user) # <<>>
      BY <1>2, <1>5, <2>1
    <3> QED BY <1>5, <2>1, <3>1, TailFacts
  <2>2. CASE ~leave
    BY <1>2, <1>5, <2>2
  <2> QED BY <2>1, <2>2
<1>7. txvalid' \in BOOLEAN /\ txfull' \in BOOLEAN
  BY <1>3, <1>4
<1>8. ASSUME txvalid' PROVE txq' # <<>>
  <2>1. Len(txq) > IF leave THEN 1 ELSE 0
    BY <1>3, <1>8, Zenon
  <2> QED BY <1>5, <1>6, <2>1
<1>9. ASSUME Len(txq') = TxSize - 1 PROVE txfull'
  <2>1. Len(txFilled(user)) = TxSize - 1
    BY <1>5, <1>6, <1>9, SizesAreNumbers
  <2> QED BY <1>4, <2>1
<1>10. txpacket' \in BOOLEAN
  <2>1. txpacket \in BOOLEAN
    BY DEF StreamInv, StreamTypeOK
  <2> QED BY <2>1, Zenon DEF TxClock
<1>11. txdiscard' \in BOOLEAN
  BY Zenon DEF TxClock, discard
<1> QED BY <1>5, <1>6, <1>7, <1>8, <1>9, <1>10, <1>11, SizesAreNumbers

(* What one clock of the link controller does to its credit and to the request. *)
LEMMA CreditStep ==
  ASSUME LinkTypeOK, NEW in \in LinkInput, NEW offer, Possible(in, offer),
         LinkClock(in, rxroom)
  PROVE  \/ state = "ErrorReset" /\ ClearCredit
         \/ state # "ErrorReset" /\ CountCredit(in, rxroom)
BY DEF LinkClock, ErrorReset, ErrorWait, Ready, Started, Connecting, Run

(* How the state may change, where it matters to the FIFOs. *)
LEMMA StateStep ==
  ASSUME LinkTypeOK, NEW in \in LinkInput, LinkClock(in, rxroom)
  PROVE  /\ state' # "Run" /\ running => state' = "ErrorReset" /\ timercnt' = ResetTime
         /\ state \in {"ErrorReset", "ErrorWait"} =>
              state' \in {"ErrorReset", "ErrorWait", "Ready"}
         /\ state = "Ready" /\ ~xmitFctIn => state' \in {"ErrorReset", "Ready"}
         /\ state = "ErrorReset" /\ timercnt = ResetTime => state' = "ErrorReset"
BY ConstantsAreNumbers
   DEF LinkClock, ErrorReset, ErrorWait, Ready, Started, Connecting, Run,
       start, Move, Stay, RestartTimer, running

(***************************************************************************)
(* The room register keeps up with the credit: this is the heart of the    *)
(* argument that the receive FIFO cannot overflow.                         *)
(***************************************************************************)
LEMMA BoundKept ==
  ASSUME StreamInv, NEW in \in StreamInput, NEW user \in UserInput,
         StreamClock(in, user), CreditHonest, ~errcred \/ state = "ErrorReset"
  PROVE  rxCredit' + (IF xmitFctIn' THEN FctChars ELSE 0) <= rxroom'
<1>1. /\ LinkTypeOK /\ in \in LinkInput /\ Possible(in, txOffer)
      /\ LinkClock(in, rxroom) /\ RxFlags(in)
      /\ rxchar(in) => rxCredit # 0
  BY InputIsLinkInput DEF StreamInv, StreamTypeOK, StreamClock, Arrives, RxClock
<1>2. /\ rxCredit \in 0..(CreditMod - 1) /\ rxroom \in 0..MaxRoom
      /\ rxroom' \in 0..MaxRoom
      /\ rxroom' >= rxroom - (IF rxStore(in) THEN 1 ELSE 0)
  BY <1>1, RxFlagsOK DEF StreamInv, StreamTypeOK, LinkTypeOK
<1>3. CASE state = "ErrorReset"
  <2>1. rxCredit' = 0 /\ xmitFctIn' = FALSE
    BY <1>1, <1>3, CreditStep DEF ClearCredit
  <2> QED BY <1>2, <2>1, ConstantsAreNumbers
<1>4. CASE state # "ErrorReset"
  <2>1. /\ CountCredit(in, rxroom)
        /\ rxCredit' = IF rxchar(in) THEN Dec(granted(in)) ELSE granted(in)
        /\ xmitFctIn' => granted(in) <= CreditLimit /\ granted(in) + FctChars <= rxroom
        /\ ~errcred
    BY <1>1, <1>4, CreditStep DEF CountCredit, mayAsk
  <2>2. rxCredit + (IF xmitFctIn THEN FctChars ELSE 0) <= rxroom
    BY <2>1 DEF StreamInv, RoomKept
  <2>3. in.fctack => xmitFctIn /\ rxCredit <= CreditLimit
    BY <1>1, <2>1 DEF Possible, StreamInv, CreditWithinLimit
  <2>4. in.fctack => granted(in) = rxCredit + FctChars
    <3>1. Wrap(rxCredit + FctChars) = rxCredit + FctChars \/ rxCredit + FctChars >= CreditMod
      BY <1>2, WrapInRange, ConstantsAreNumbers
    <3>2. rxCredit <= CreditLimit => rxCredit + FctChars < CreditMod
      BY <1>2, ConstantsAreNumbers
    <3> QED BY <1>2, <2>3, <3>1, <3>2, ConstantsAreNumbers DEF granted
  <2>5. /\ granted(in) \in 0..(CreditMod - 1) /\ granted(in) <= rxroom
        /\ rxchar(in) => granted(in) # 0
    <3>1. CASE in.fctack
      BY <1>2, <2>2, <2>3, <2>4, <3>1, WrapInRange, ConstantsAreNumbers
    <3>2. CASE ~in.fctack
      <4>1. granted(in) = rxCredit
        BY <3>2 DEF granted
      <4>2. rxCredit <= rxroom
        BY <1>2, <2>2, ConstantsAreNumbers
      <4> QED BY <1>1, <1>2, <4>1, <4>2
    <3> QED BY <3>1, <3>2
  <2>6. rxCredit' = granted(in) - (IF rxchar(in) THEN 1 ELSE 0)
    BY <2>1, <2>5, DecInRange, ConstantsAreNumbers
  <2>7. CASE ~rxeep
    <3>1. rxStore(in) => rxchar(in)
      BY <2>7 DEF rxStore, LinkRxchar
    <3>2. CASE xmitFctIn'
      BY <1>2, <2>1, <2>5, <2>6, <3>1, <3>2, ConstantsAreNumbers
    <3>3. CASE ~xmitFctIn'
      BY <1>2, <2>5, <2>6, <3>1, <3>3, ConstantsAreNumbers
    <3> QED BY <3>2, <3>3
  <2>8. CASE rxeep
    <3>1. ~xmitFctIn /\ state \in {"ErrorWait", "Ready"} /\ rxroom <= 1
      BY <1>4, <2>8 DEF StreamInv, EepWaits
    <3>2. rxCredit = 0
      BY <3>1 DEF StreamInv, NothingLeftOver
    <3>3. granted(in) = 0 /\ ~rxchar(in)
      BY <1>1, <2>3, <3>1, <3>2 DEF granted
    <3>4. ~xmitFctIn' /\ rxCredit' = 0
      BY <1>2, <2>1, <2>6, <3>1, <3>3, SizesAreNumbers, ConstantsAreNumbers
    <3> QED BY <1>2, <3>4
  <2> QED BY <2>7, <2>8
<1> QED BY <1>3, <1>4

LEMMA RoomKeptStep ==
  ASSUME StreamInv, NEW in \in StreamInput, NEW user \in UserInput,
         StreamClock(in, user)
  PROVE  RoomKept'
<1> SUFFICES ASSUME ~errcred'
             PROVE  ~errcred \/ state = "ErrorReset"
  BY BoundKept DEF RoomKept
<1>1. LinkTypeOK /\ in \in LinkInput /\ Possible(in, txOffer) /\ LinkClock(in, rxroom)
  BY InputIsLinkInput DEF StreamInv, StreamTypeOK, StreamClock
<1> QED BY <1>1, CreditStep DEF CountCredit

(***************************************************************************)
(* The packet bookkeeping of the receive side: an EEP is owed only from    *)
(* the first clock of ErrorReset on, and while it waits the link cannot    *)
(* get ready to start.                                                     *)
(***************************************************************************)
LEMMA EepStep ==
  ASSUME StreamInv, NEW in \in StreamInput, NEW user \in UserInput,
         StreamClock(in, user)
  PROVE  FullIsRecent' /\ CutIsNoticed' /\ EepWaits'
<1>1. /\ LinkTypeOK /\ in \in LinkInput /\ Possible(in, txOffer)
      /\ LinkClock(in, rxroom) /\ RxClock(in, user) /\ RxFlags(in)
      /\ rxroom \in 0..MaxRoom /\ rxroom' \in 0..MaxRoom
      /\ FullIsRecent /\ CutIsNoticed /\ EepWaits
  BY InputIsLinkInput, RxFlagsOK DEF StreamInv, StreamTypeOK, StreamClock, RxClock
<1>2. /\ rxfull' => rxroom' = 0 /\ Len(rxFilled(in)) = RxSize - 1
      /\ Len(rxq') >= Len(rxFilled(in)) - 1
      /\ Len(rxFilled(in)) \in Nat /\ rxq' \in Seq(NChar)
  BY <1>1, RxFlagsOK, RxFifoOK, RxFilledOK
<1>3. FullIsRecent'
  BY <1>2, SizesAreNumbers DEF FullIsRecent
<1>4. /\ running => /\ rxeep' <=> (rxeep /\ rxfull)
                    /\ rxpacket' <=> IF LinkRxchar(in) THEN in.got = "data" ELSE rxpacket
      /\ ~running => /\ rxpacket' = FALSE
                     /\ rxeep' <=> ((rxeep /\ rxfull) \/ rxpacket)
  BY <1>1, Zenon DEF RxClock, LinkRxchar, eepKept
<1>5. CutIsNoticed'
  <2> SUFFICES ASSUME rxpacket', state' # "Run"
               PROVE  state' = "ErrorReset" /\ timercnt' = ResetTime
    BY DEF CutIsNoticed, running
  <2>1. running
    BY <1>4
  <2> QED BY <1>1, <2>1, StateStep
<1>6. EepWaits'
  <2> SUFFICES ASSUME rxeep'
               PROVE  /\ state' \in {"ErrorReset", "ErrorWait", "Ready"}
                      /\ ~xmitFctIn'
                      /\ state' = "ErrorReset" \/ rxroom' <= 1
    BY DEF EepWaits
  <2>1. (rxeep /\ rxfull) \/ (~running /\ rxpacket)
    BY <1>4
  <2>2. CASE ~running /\ rxpacket
    <3>1. state = "ErrorReset" /\ timercnt = ResetTime
      BY <1>1, <2>2 DEF CutIsNoticed
    <3>2. state' = "ErrorReset" /\ ClearCredit
      BY <1>1, <3>1, StateStep, CreditStep
    <3> QED BY <3>2 DEF ClearCredit
  <2>3. CASE rxeep /\ rxfull
    <3>1. /\ state \in {"ErrorReset", "ErrorWait", "Ready"} /\ ~xmitFctIn
          /\ rxroom = 0 /\ Len(rxq) >= RxSize - 2
      BY <1>1, <2>3 DEF EepWaits, FullIsRecent
    <3>2. state' \in {"ErrorReset", "ErrorWait", "Ready"}
      BY <1>1, <3>1, StateStep
    <3>3. ~xmitFctIn'
      <4>1. CASE state = "ErrorReset"
        BY <1>1, <4>1, CreditStep DEF ClearCredit
      <4>2. CASE state # "ErrorReset"
        <5>1. CountCredit(in, rxroom) /\ ~in.fctack
          BY <1>1, <3>1, <4>2, CreditStep DEF Possible
        <5>2. xmitFctIn' => rxCredit + FctChars <= 0
          BY <3>1, <5>1 DEF CountCredit, mayAsk, granted
        <5> QED BY <1>1, <5>2, SizesAreNumbers, ConstantsAreNumbers DEF LinkTypeOK
      <4> QED BY <4>1, <4>2
    <3>4. rxroom' <= 1
      <4>1. /\ Len(rxFilled(in)) = Len(rxq) + (IF rxStore(in) THEN 1 ELSE 0)
            /\ rxroom' <= RxSize - 1 - Len(rxFilled(in))
            /\ Len(rxq) \in Nat
        BY <1>1, RxFilledOK, RxFlagsOK DEF StreamInv, StreamTypeOK
      <4> QED BY <1>1, <3>1, <4>1, SizesAreNumbers
    <3> QED BY <3>2, <3>3, <3>4
  <2> QED BY <2>1, <2>2, <2>3
<1> QED BY <1>3, <1>5, <1>6

LEMMA StreamClockInv ==
  ASSUME StreamInv, NEW in \in StreamInput, NEW user \in UserInput,
         StreamClock(in, user)
  PROVE  StreamInv'
<1>1. /\ LinkInv /\ in \in LinkInput /\ Possible(in, txOffer)
      /\ LinkClock(in, rxroom) /\ RxClock(in, user) /\ RxFlags(in) /\ TxClock(in, user)
  BY InputIsLinkInput
     DEF StreamInv, StreamTypeOK, LinkInv, StreamClock, RxClock
<1>2. LinkInv'
  BY <1>1, LinkClockInv
<1>3. rxpacket' \in BOOLEAN /\ rxeep' \in BOOLEAN
  <2>1. rxpacket \in BOOLEAN
    BY DEF StreamInv, StreamTypeOK
  <2> QED BY <1>1, <2>1, Zenon DEF RxClock, eepKept
<1>4. StreamTypeOK'
  BY <1>1, <1>2, <1>3, RxFifoOK, RxFlagsOK, TxFifoOK DEF StreamTypeOK, LinkInv
<1>5. FlagsConservative'
  BY <1>1, RxFifoOK, TxFifoOK DEF FlagsConservative
<1>6. RoomIsThere'
  <2>1. /\ rxroom' <= RxSize - 1 - Len(rxFilled(in)) /\ Len(rxq') <= Len(rxFilled(in))
        /\ Len(rxFilled(in)) \in Nat /\ Len(rxq') \in Nat /\ rxroom' \in 0..MaxRoom
    BY <1>1, <1>4, RxFifoOK, RxFlagsOK, RxFilledOK DEF StreamTypeOK
  <2> QED BY <2>1, SizesAreNumbers DEF RoomIsThere
<1> QED BY <1>2, <1>4, <1>5, <1>6, RoomKeptStep, EepStep DEF StreamInv, LinkInv

LEMMA StreamResetInv ==
  ASSUME StreamInv, NEW in \in StreamInput, NEW user \in UserInput,
         StreamReset(in, user)
  PROVE  StreamInv'
<1>1. /\ rxq' = <<>> /\ txq' = <<>> /\ rxvalid' = FALSE /\ txvalid' = FALSE
      /\ rxpacket' = FALSE /\ rxeep' = FALSE /\ txpacket' = FALSE /\ txdiscard' = FALSE
      /\ txfull' = (Len(txFilled(user)) = TxSize - 1) /\ RxFlags(in)
      /\ rxCredit' = 0 /\ xmitFctIn' = FALSE /\ LinkReset
  BY DEF StreamReset, LinkReset, ClearCredit
<1>2. LinkInv'
  BY <1>1, LinkResetInv
<1>3. /\ rxroom' \in 0..MaxRoom /\ rxroom' <= RxSize - 1 /\ rxfull' \in BOOLEAN
      /\ rxfull' => rxroom' = 0
  <2>1. Len(rxFilled(in)) \in Nat
    BY RxFilledOK
  <2> QED BY <1>1, <2>1, RxFlagsOK, SizesAreNumbers
<1>4. /\ rxvalid' \in BOOLEAN /\ txvalid' \in BOOLEAN /\ txfull' \in BOOLEAN
      /\ rxpacket' \in BOOLEAN /\ rxeep' \in BOOLEAN
      /\ txpacket' \in BOOLEAN /\ txdiscard' \in BOOLEAN
  BY <1>1, Zenon
<1>5. StreamTypeOK'
  BY <1>1, <1>2, <1>3, <1>4, SizesAreNumbers DEF StreamTypeOK, LinkInv
<1> QED BY <1>1, <1>2, <1>3, <1>5, SizesAreNumbers, ConstantsAreNumbers
        DEF StreamInv, LinkInv, FlagsConservative, RoomIsThere, RoomKept, FullIsRecent,
            CutIsNoticed, EepWaits

LEMMA StreamInitInv == StreamInit => StreamInv
<1> SUFFICES ASSUME StreamInit PROVE StreamInv
  OBVIOUS
<1>1. LinkInv
  BY LinkInitInv DEF StreamInit
<1>2. /\ rxq = <<>> /\ txq = <<>> /\ rxvalid = FALSE /\ txvalid = FALSE
      /\ rxpacket = FALSE /\ rxeep = FALSE /\ txpacket = FALSE /\ txdiscard = FALSE
      /\ rxfull = FALSE /\ txfull = FALSE /\ rxroom = 0
      /\ rxCredit = 0 /\ xmitFctIn = FALSE
  BY DEF StreamInit, LinkInit
<1>3. /\ rxvalid \in BOOLEAN /\ txvalid \in BOOLEAN /\ txfull \in BOOLEAN
      /\ rxpacket \in BOOLEAN /\ rxeep \in BOOLEAN /\ rxfull \in BOOLEAN
      /\ txpacket \in BOOLEAN /\ txdiscard \in BOOLEAN
  BY <1>2, Zenon
<1>4. StreamTypeOK
  BY <1>1, <1>2, <1>3, SizesAreNumbers DEF StreamTypeOK, LinkInv
<1> QED BY <1>1, <1>2, <1>4, SizesAreNumbers, ConstantsAreNumbers
        DEF StreamInv, LinkInv, FlagsConservative, RoomIsThere, RoomKept, FullIsRecent,
            CutIsNoticed, EepWaits

(***************************************************************************)
(* The inductive invariant of the core.                                    *)
(***************************************************************************)
THEOREM StreamInvariant == StreamSpec => []StreamInv
<1>1. StreamInv /\ [StreamNext]_streamVars => StreamInv'
  <2> SUFFICES ASSUME StreamInv, [StreamNext]_streamVars PROVE StreamInv'
    OBVIOUS
  <2>1. ASSUME NEW in \in StreamInput, NEW user \in UserInput, StreamClock(in, user)
        PROVE  StreamInv'
    BY <2>1, StreamClockInv
  <2>2. ASSUME NEW in \in StreamInput, NEW user \in UserInput, StreamReset(in, user)
        PROVE  StreamInv'
    BY <2>2, StreamResetInv
  <2>3. CASE UNCHANGED streamVars
    BY <2>3
       DEF streamVars, linkVars, rxVars, txVars, StreamInv, StreamTypeOK, LinkTypeOK,
           CreditWithinLimit, NothingLeftOver, FlagsConservative, RoomIsThere,
           RoomKept, FullIsRecent, CutIsNoticed, EepWaits, running
  <2> QED BY <2>1, <2>2, <2>3 DEF StreamNext
<1> QED BY <1>1, StreamInitInv, PTL DEF StreamSpec

(* The registers and the FIFOs keep their types; the FIFOs never overflow. *)
THEOREM StreamTypeCorrect == StreamSpec => []StreamTypeOK
<1>1. StreamInv => StreamTypeOK
  BY DEF StreamInv
<1> QED BY <1>1, StreamInvariant, PTL

(* The flags never claim a character that is not there or hide a full FIFO. *)
THEOREM FlagsAreConservative == StreamSpec => []FlagsConservative
<1>1. StreamInv => FlagsConservative
  BY DEF StreamInv
<1> QED BY <1>1, StreamInvariant, PTL

(* Credit that is granted or requested always has room behind it. *)
THEOREM RoomIsReserved == StreamSpec => []RoomReserved
<1>1. StreamInv => RoomReserved
  <2> SUFFICES ASSUME StreamInv, CreditHonest, ~errcred
               PROVE  rxCredit + (IF xmitFctIn THEN FctChars ELSE 0) <= RxSize - 1 - Len(rxq)
    BY DEF RoomReserved
  <2>1. /\ rxCredit + (IF xmitFctIn THEN FctChars ELSE 0) <= rxroom
        /\ rxroom <= RxSize - 1 - Len(rxq)
    BY DEF StreamInv, RoomKept, RoomIsThere
  <2>2. rxCredit \in Nat /\ rxroom \in Nat /\ Len(rxq) \in Nat
    BY ConstantsAreNumbers, SizesAreNumbers DEF StreamInv, StreamTypeOK, LinkTypeOK
  <2> QED BY <2>1, <2>2, SizesAreNumbers, ConstantsAreNumbers
<1> QED BY <1>1, StreamInvariant, PTL

(* Every character that the other side is entitled to send is stored. *)
THEOREM EntitledCharsFit == StreamSpec => []EntitledCharFits
<1>1. StreamInv => EntitledCharFits
  <2> SUFFICES ASSUME StreamInv, CreditHonest, ~errcred, running, rxCredit # 0
               PROVE  ~rxfull /\ ~rxeep
    BY DEF EntitledCharFits
  <2>1. rxCredit + (IF xmitFctIn THEN FctChars ELSE 0) <= rxroom
    BY DEF StreamInv, RoomKept
  <2>2. rxCredit \in Nat /\ rxroom \in Nat
    BY ConstantsAreNumbers, SizesAreNumbers DEF StreamInv, StreamTypeOK, LinkTypeOK
  <2>3. rxroom > 0
    BY <2>1, <2>2, ConstantsAreNumbers
  <2> QED BY <2>3 DEF StreamInv, FullIsRecent, EepWaits, running
<1> QED BY <1>1, StreamInvariant, PTL

(* An EEP is stored before the next connection starts. *)
THEOREM EepComesFirst == StreamSpec => []EepBeforeReconnect
<1>1. StreamInv => EepBeforeReconnect
  BY DEF StreamInv, EepWaits, EepBeforeReconnect, txen
<1> QED BY <1>1, StreamInvariant, PTL

(***************************************************************************)
(* The transmit side.  What the flags of the core say of the packet that   *)
(* is being sent agrees with what has left the FIFO and gone out:          *)
(* a packet is sent or discarded, never both, and one that is open at the  *)
(* FIFO and is neither was kept by linkdis.                                *)
(***************************************************************************)
PacketFlags ==
  /\ txpacket \in BOOLEAN /\ txdiscard \in BOOLEAN
  /\ userMid \in BOOLEAN /\ linkMid \in BOOLEAN /\ excused \in BOOLEAN

TxInv ==
  /\ PacketFlags
  /\ txpacket => userMid /\ ~txdiscard
  /\ txdiscard => userMid
  /\ running => (linkMid <=> txpacket)
  /\ ~running => ~linkMid
  /\ userMid /\ ~txdiscard /\ ~excused => txpacket

(* One clock of the flags, from what the transmitter takes. *)
LEMMA TxInvClock ==
  ASSUME TxInv, NEW in, NEW user, Possible(in, txOffer), TxClock(in, user), HistoryClock(in)
  PROVE  TxInv'
<1> DEFINE data == Head(txq) = "data"
           packet == IF in.txack THEN data ELSE txpacket
           mid == IF txLeave(in) THEN data ELSE userMid
<1>1. in.txack => txLeave(in) /\ ~txdiscard /\ running
  BY DEF Possible, txOffer, txLeave, txen, stnull, stfct, running
<1>2. txLeave(in) => in.txack \/ txdiscard
  BY DEF txLeave
<1>3. discard(in) <=> txdiscard /\ ~(txLeave(in) /\ ~data)
  BY DEF discard
<1>4. /\ txpacket' = (running /\ packet)
      /\ txdiscard' = ((discard(in) \/ (~running /\ packet)) /\ ~in.linkdis)
  <2>1. running => txpacket' = packet /\ txdiscard' = (discard(in) /\ ~in.linkdis)
    BY DEF TxClock
  <2>2. ~running => txpacket' = FALSE /\ txdiscard' = ((discard(in) \/ packet) /\ ~in.linkdis)
    BY DEF TxClock
  <2>3. packet \in BOOLEAN
    BY DEF TxInv, PacketFlags
  <2> QED BY <2>1, <2>2, <2>3
<1>5. /\ userMid' = mid
      /\ linkMid' = (running' /\ IF in.txack THEN data ELSE linkMid)
      /\ excused' = (mid /\ (excused \/ in.linkdis))
  BY DEF HistoryClock, running
<1>6. mid \in BOOLEAN /\ packet \in BOOLEAN /\ running \in BOOLEAN
  BY DEF TxInv, PacketFlags, running
<1>7. PacketFlags'
  BY <1>4, <1>5, <1>6 DEF PacketFlags
<1>8. packet => mid /\ ~txdiscard
  BY <1>1, <1>2 DEF TxInv
<1>9. discard(in) => mid /\ ~packet
  BY <1>1, <1>2, <1>3, <1>8 DEF TxInv
<1> HIDE DEF packet, mid
<1>10. txpacket' => userMid' /\ ~txdiscard'
  BY <1>4, <1>5, <1>8, <1>9
<1>11. txdiscard' => userMid'
  BY <1>4, <1>5, <1>8, <1>9
<1>12. running' => (linkMid' <=> txpacket')
  <2>1. CASE in.txack
    BY <1>1, <1>4, <1>5, <2>1 DEF packet
  <2>2. CASE ~in.txack
    BY <1>4, <1>5, <2>2 DEF packet, TxInv
  <2> QED BY <2>1, <2>2
<1>13. ~running' => ~linkMid'
  BY <1>5
<1>14. userMid' /\ ~txdiscard' /\ ~excused' => txpacket'
  <2> SUFFICES ASSUME mid, ~txdiscard', ~excused'
               PROVE  running /\ packet
    BY <1>4, <1>5
  <2>1. ~excused /\ ~in.linkdis
    BY <1>5, <1>6
  <2>2. ~discard(in) /\ (running \/ ~packet)
    BY <1>4, <2>1
  <2>3. CASE txdiscard
    BY <1>3, <2>2, <2>3 DEF mid
  <2>4. CASE ~txdiscard /\ in.txack
    BY <1>1, <2>4 DEF mid, packet
  <2>5. CASE ~txdiscard /\ ~in.txack
    <3>1. userMid /\ txpacket
      BY <1>2, <2>1, <2>5 DEF mid, TxInv
    <3> QED BY <2>2, <2>5, <3>1 DEF packet
  <2> QED BY <2>3, <2>4, <2>5
<1> QED BY <1>7, <1>10, <1>11, <1>12, <1>13, <1>14 DEF TxInv

LEMMA TxInvInit == MCInit => TxInv
BY DEF MCInit, StreamInit, LinkInit, HistoryInit, TxInv, PacketFlags, running

LEMMA TxInvStep ==
  ASSUME TxInv, [MCNext]_mcVars
  PROVE  TxInv'
<1>1. ASSUME NEW in \in StreamInput, NEW user \in UserInput, StreamClock(in, user), HistoryClock(in)
      PROVE  TxInv'
  BY <1>1, TxInvClock DEF StreamClock
<1>2. ASSUME NEW in \in StreamInput, NEW user \in UserInput, StreamReset(in, user), HistoryReset
      PROVE  TxInv'
  BY <1>2 DEF StreamReset, LinkReset, HistoryReset, TxInv, PacketFlags, running
<1>3. CASE UNCHANGED mcVars
  BY <1>3 DEF mcVars, streamVars, linkVars, txVars, history, TxInv, PacketFlags, running
<1> QED BY <1>1, <1>2, <1>3 DEF MCNext

LEMMA TxInvariant == MCSpec => []TxInv
<1>1. TxInv /\ [MCNext]_mcVars => TxInv'
  BY TxInvStep
<1> QED BY <1>1, TxInvInit, PTL DEF MCSpec

(***************************************************************************)
(* The other side sees only whole packets of the user's, unless linkdis    *)
(* kept the rest of a cut one (spwstream.v, r.txpacket and r.txdiscard).   *)
(***************************************************************************)
THEOREM AlignedPackets == MCSpec => []PacketsAligned
<1>1. TxInv => PacketsAligned
  BY DEF TxInv, PacketFlags, PacketsAligned
<1> QED BY <1>1, TxInvariant, PTL

(***************************************************************************)
(* Discarding ends with the packet that was cut (spwstream.v, txdiscard).  *)
(***************************************************************************)
THEOREM DiscardEndsWithPacket == MCSpec => []DiscardOnlyRest
<1>1. TxInv => DiscardOnlyRest
  BY DEF TxInv, DiscardOnlyRest
<1> QED BY <1>1, TxInvariant, PTL

(***************************************************************************)
(* The receive side.  A character that arrives with credit is stored, in   *)
(* the clock that ends the connection as well; and an EEP waits only when  *)
(* no packet is open.                                                      *)
(***************************************************************************)
RunRoom == CreditHonest /\ running => rxCredit <= rxroom

RxInv ==
  /\ StreamInv
  /\ RunRoom
  /\ rxpacket => ~rxeep

(* A connection is entered and kept without a credit error. *)
LEMMA RunWithoutError ==
  ASSUME StreamInv, NEW in, LinkClock(in, rxroom), running'
  PROVE  ~errcred
<1>1. state = "Connecting" \/ (state = "Run" /\ ~errcred)
  BY DEF LinkClock, ErrorReset, ErrorWait, Ready, Started, Connecting, Run, Move, Stay, running,
         runFails, StreamInv, StreamTypeOK, LinkTypeOK, State
<1> QED BY <1>1 DEF StreamInv, NothingLeftOver

LEMMA RxFlagsStep ==
  ASSUME RxInv, NEW in, NEW user, RxClock(in, user)
  PROVE  /\ running => rxpacket' = (IF LinkRxchar(in) THEN in.got = "data" ELSE rxpacket) /\ ~rxeep'
         /\ ~running => rxpacket' = FALSE /\ (rxeep' <=> (rxeep /\ rxfull) \/ rxpacket)
<1>1. running => ~rxeep
  BY DEF RxInv, StreamInv, EepWaits, running
<1>2. running => /\ rxpacket' = (IF LinkRxchar(in) THEN in.got = "data" ELSE rxpacket)
                 /\ rxeep' = eepKept
  BY DEF RxClock
<1>3. ~running => /\ rxpacket' = FALSE
                  /\ rxeep' = (eepKept \/ (IF LinkRxchar(in) THEN in.got = "data" ELSE rxpacket))
  BY DEF RxClock
<1>4. ~running => ~LinkRxchar(in)
  BY DEF LinkRxchar
<1> QED BY <1>1, <1>2, <1>3, <1>4 DEF eepKept

LEMMA RxInvStep ==
  ASSUME RxInv, [MCNext]_mcVars
  PROVE  RxInv'
<1>1. ASSUME NEW in \in StreamInput, NEW user \in UserInput, StreamClock(in, user)
      PROVE  RxInv'
  <2>1. StreamInv'
    BY <1>1, StreamClockInv DEF RxInv
  <2>2. RunRoom'
    <3> SUFFICES ASSUME CreditHonest, running'
                 PROVE  rxCredit' <= rxroom'
      BY DEF RunRoom
    <3>1. ~errcred
      BY <1>1, RunWithoutError DEF StreamClock, RxInv
    <3>2. rxCredit' + (IF xmitFctIn' THEN FctChars ELSE 0) <= rxroom'
      BY <1>1, <3>1, BoundKept DEF RxInv
    <3>3. rxCredit' \in Nat /\ rxroom' \in Nat
      BY <2>1, ConstantsAreNumbers, SizesAreNumbers DEF StreamInv, StreamTypeOK, LinkTypeOK
    <3>4. (IF xmitFctIn' THEN FctChars ELSE 0) \in Nat
      BY ConstantsAreNumbers
    <3>5. \A c, f, r \in Nat : c + f <= r => c <= r
      OBVIOUS
    <3> QED BY <3>2, <3>3, <3>4, <3>5
  <2>3. rxpacket' => ~rxeep'
    BY <1>1, RxFlagsStep DEF StreamClock
  <2> QED BY <2>1, <2>2, <2>3 DEF RxInv
<1>2. ASSUME NEW in \in StreamInput, NEW user \in UserInput, StreamReset(in, user)
      PROVE  RxInv'
  <2>1. StreamInv'
    BY <1>2, StreamResetInv DEF RxInv
  <2>2. rxpacket' = FALSE /\ state' = "ErrorReset"
    BY <1>2 DEF StreamReset, LinkReset
  <2> QED BY <2>1, <2>2 DEF RxInv, RunRoom, running
<1>3. CASE UNCHANGED mcVars
  <2>1. UNCHANGED streamVars
    BY <1>3 DEF mcVars
  <2> QED BY <2>1
       DEF streamVars, linkVars, rxVars, txVars, RxInv, RunRoom, StreamInv, StreamTypeOK, LinkTypeOK,
           CreditWithinLimit, NothingLeftOver, FlagsConservative, RoomIsThere,
           RoomKept, FullIsRecent, CutIsNoticed, EepWaits, running
<1> QED BY <1>1, <1>2, <1>3 DEF MCNext

LEMMA RxInvInit == MCInit => RxInv
<1>1. MCInit => StreamInv
  BY StreamInitInv DEF MCInit
<1> QED BY <1>1 DEF MCInit, StreamInit, LinkInit, RxInv, RunRoom, running

(***************************************************************************)
(* Sequences: what is read leaves the front, what is added comes behind.   *)
(***************************************************************************)
LEMMA TailOfConcat ==
  ASSUME NEW S, NEW s \in Seq(S), NEW e \in S, s # <<>>
  PROVE  Tail(s \o <<e>>) = Tail(s) \o <<e>>
<1>1. s \o <<e>> = Append(s, e) /\ Tail(s) \in Seq(S)
  BY AppendIsConcat, HeadTailProperties
<1>2. Tail(Append(s, e)) = Append(Tail(s), e)
  BY HeadTailAppend
<1>3. Append(Tail(s), e) = Tail(s) \o <<e>>
  BY <1>1, AppendIsConcat
<1> QED BY <1>1, <1>2, <1>3

eepBehind == IF rxeep \/ (rxpacket /\ ~running) THEN <<"eep">> ELSE <<>>

(***************************************************************************)
(* One clock of the core is one clock of the packet stream.                *)
(***************************************************************************)
LEMMA ClockIsPacketClock ==
  ASSUME RxInv, CreditHonest, NEW in \in StreamInput, NEW user \in UserInput, StreamClock(in, user)
  PROVE  Packets!Clock(IF LinkRxchar(in) THEN <<in.got>> ELSE <<>>, running /\ ~running', rxTake(user))
<1> DEFINE arrived == IF LinkRxchar(in) THEN <<in.got>> ELSE <<>>
           fails == running /\ ~running'
           reads == rxTake(user)
           filled == rxFilled(in)
           body == IF arrived = <<>> THEN rxpacket /\ running ELSE ~Packets!Ends(arrived[1])
           added == IF fails /\ body THEN <<"eep">> ELSE <<>>
<1>0. RxClock(in, user) /\ Arrives(in)
  BY DEF StreamClock
<1>1. rxq \in Seq(NChar) /\ (reads => rxq # <<>>)
  BY DEF RxInv, StreamInv, StreamTypeOK, FlagsConservative, rxTake
<1>2. LinkRxchar(in) => in.got \in NChar /\ running /\ ~rxfull
  <2> SUFFICES ASSUME LinkRxchar(in)
               PROVE  in.got \in NChar /\ running /\ ~rxfull
    OBVIOUS
  <2>1. in.got \in NChar /\ running /\ rxCredit # 0
    BY <1>0 DEF LinkRxchar, rxchar, Arrives
  <2>2. rxCredit <= rxroom /\ rxCredit \in Nat /\ rxroom \in Nat
    BY <2>1, ConstantsAreNumbers, SizesAreNumbers
       DEF RxInv, RunRoom, StreamInv, StreamTypeOK, LinkTypeOK
  <2>3. rxroom # 0
    BY <2>1, <2>2
  <2> QED BY <2>1, <2>3 DEF RxInv, StreamInv, FullIsRecent
<1>3. filled \in Seq(NChar) /\ (reads => filled # <<>>)
  BY <1>1, RxFilledOK DEF RxInv
<1>4. rxq' = IF reads THEN Tail(filled) ELSE filled
  BY <1>0 DEF RxClock
<1>5. "eep" \in NChar
  BY DEF NChar
<1>6. ASSUME NEW e \in {<<>>, <<"eep">>}
      PROVE  rxq' \o e = IF reads THEN Tail(filled \o e) ELSE filled \o e
  <2>1. CASE e = <<>>
    <3>1. rxq' \in Seq(NChar)
      BY <1>3, <1>4, HeadTailProperties
    <3> QED BY <1>3, <1>4, <2>1, <3>1, ConcatEmptySeq
  <2>2. CASE e = <<"eep">>
    BY <1>3, <1>4, <1>5, <2>2, TailOfConcat
  <2> QED BY <2>1, <2>2
<1> HIDE DEF filled, reads
<1>7. /\ filled \o eepBehind' = rxq \o eepBehind \o arrived \o added
      /\ (rxpacket /\ running)' <=> (body /\ ~fails)
  <2>1. CASE running
    <3>1. ~rxeep /\ eepBehind = <<>>
      BY <2>1 DEF RxInv, StreamInv, EepWaits, eepBehind, running
    <3>2. ~rxeep' /\ rxpacket' = body
      <4>1. CASE LinkRxchar(in)
        BY <1>0, <2>1, <4>1, RxFlagsStep DEF Packets!Ends
      <4>2. CASE ~LinkRxchar(in)
        <5>1. rxpacket \in BOOLEAN
          BY DEF RxInv, StreamInv, StreamTypeOK
        <5>2. body = rxpacket
          BY <2>1, <4>2, <5>1
        <5> QED BY <1>0, <2>1, <4>2, <5>2, RxFlagsStep
      <4> QED BY <4>1, <4>2
    <3>3. eepBehind' = added
      BY <2>1, <3>2 DEF eepBehind
    <3>4. filled = rxq \o arrived
      <4>1. CASE LinkRxchar(in)
        BY <1>1, <1>2, <3>1, <4>1, AppendIsConcat DEF filled, rxFilled, rxStore
      <4>2. CASE ~LinkRxchar(in)
        BY <1>1, <3>1, <4>2, ConcatEmptySeq DEF filled, rxFilled, rxStore
      <4> QED BY <4>1, <4>2
    <3>5. rxq \o eepBehind = rxq
      BY <1>1, <3>1, ConcatEmptySeq
    <3> QED BY <2>1, <3>2, <3>3, <3>4, <3>5
  <2>2. CASE ~running
    <3>1. arrived = <<>> /\ ~body /\ added = <<>>
      BY <1>2, <2>2
    <3>2. rxpacket' = FALSE /\ (rxeep' <=> (rxeep /\ rxfull) \/ rxpacket)
      BY <1>0, <2>2, RxFlagsStep
    <3>3. filled \o eepBehind' = rxq \o eepBehind
      <4>1. CASE rxeep /\ ~rxfull
        <5>1. filled = rxq \o <<"eep">> /\ filled \in Seq(NChar)
          BY <1>1, <1>3, <1>5, <4>1, AppendIsConcat DEF filled, rxFilled, rxStore
        <5>2. eepBehind' = <<>> /\ eepBehind = <<"eep">>
          BY <3>2, <4>1 DEF eepBehind, RxInv
        <5> QED BY <5>1, <5>2, ConcatEmptySeq
      <4>2. CASE ~(rxeep /\ ~rxfull)
        <5>1. filled = rxq
          BY <1>2, <2>2, <4>2 DEF filled, rxFilled, rxStore
        <5>2. eepBehind' = eepBehind
          BY <2>2, <3>2, <4>2 DEF eepBehind
        <5> QED BY <5>1, <5>2
      <4> QED BY <4>1, <4>2
    <3>4. rxq \o eepBehind \in Seq(NChar)
      BY <1>1, <1>5 DEF eepBehind
    <3> QED BY <2>2, <3>1, <3>2, <3>3, <3>4, ConcatEmptySeq
  <2> QED BY <2>1, <2>2
<1>8. rxq' \o eepBehind' = IF reads THEN Tail(rxq \o eepBehind \o arrived \o added)
                                    ELSE rxq \o eepBehind \o arrived \o added
  BY <1>6, <1>7 DEF eepBehind
<1>9. reads => rxq \o eepBehind # <<>>
  BY <1>1, <1>5, ConcatEqualIffEmpty DEF eepBehind
<1> QED BY <1>7, <1>8, <1>9 DEF Packets!Clock, eepBehind, reads

LEMMA StepIsPacketStep ==
  ASSUME RxInv, CreditHonest, [MCNext]_mcVars
  PROVE  [Packets!Next]_(Packets!vars)
<1>1. ASSUME NEW in \in StreamInput, NEW user \in UserInput, StreamClock(in, user)
      PROVE  Packets!Next
  <2> DEFINE arrived == IF LinkRxchar(in) THEN <<in.got>> ELSE <<>>
  <2>1. arrived \in {<<>>} \cup {<<c>> : c \in NChar}
    BY DEF LinkRxchar, rxchar
  <2>2. (running /\ ~running') \in BOOLEAN /\ rxTake(user) \in BOOLEAN
    BY DEF rxTake
  <2>3. Packets!Clock(arrived, running /\ ~running', rxTake(user))
    BY <1>1, ClockIsPacketClock
  <2> HIDE DEF arrived
  <2> QED BY <2>1, <2>2, <2>3 DEF Packets!Next
<1>2. ASSUME NEW in \in StreamInput, NEW user \in UserInput, StreamReset(in, user)
      PROVE  Packets!Next
  <2>1. rxq' = <<>> /\ rxeep' = FALSE /\ rxpacket' = FALSE
    BY <1>2 DEF StreamReset
  <2>2. (rxq \o (IF rxeep \/ (rxpacket /\ ~running) THEN <<"eep">> ELSE <<>>))' = <<>>
    BY <2>1
  <2>3. (rxpacket /\ running)' = FALSE
    BY <2>1
  <2> QED BY <2>2, <2>3 DEF Packets!Next, Packets!Clear
<1>3. CASE UNCHANGED mcVars
  BY <1>3 DEF mcVars, streamVars, linkVars, rxVars, Packets!vars, running
<1> QED BY <1>1, <1>2, <1>3 DEF MCNext

(***************************************************************************)
(* Of what a remote sends that respects its credit, the user reads every   *)
(* character, in order and once, with an EEP after each packet that a lost *)
(* connection cut and nowhere else (spwstream.v, the receive side).        *)
(***************************************************************************)
THEOREM PacketsImplemented ==
  ASSUME CreditHonest
  PROVE  MCSpec => ImplementsPackets
<1>1. MCInit => Packets!Init
  BY DEF MCInit, StreamInit, Packets!Init
<1>2. RxInv /\ [MCNext]_mcVars => RxInv'
  BY RxInvStep
<1>3. RxInv /\ [MCNext]_mcVars => [Packets!Next]_(Packets!vars)
  BY StepIsPacketStep
<1> QED BY <1>1, <1>2, <1>3, RxInvInit, PTL DEF MCSpec, ImplementsPackets, Packets!Spec
=============================================================================
