--------------------------- MODULE SpwLinkProofs ---------------------------
(***************************************************************************)
(* Proofs about the link controller, for every FctChars, ResetTime and     *)
(* receive room.  The lemmas are about one clock edge, so that the module  *)
(* that puts the controller beside the FIFOs can use them.  The last part  *)
(* proves that a link that stopped sending stays silent for three periods  *)
(* of the timer.                                                           *)
(***************************************************************************)
EXTENDS MCSpwLink, TLAPS

(* The part of the invariant that keeps the six-bit counters meaningful.   *)
LinkInv == LinkTypeOK /\ CreditWithinLimit /\ NothingLeftOver

(* The constants are numbers, and so are the ones derived from them. *)
LEMMA ConstantsAreNumbers ==
  /\ FctChars \in Nat /\ FctChars > 0
  /\ ResetTime \in Nat /\ ResetTime > 0
  /\ CreditMod = 8 * FctChars /\ CreditLimit = 6 * FctChars
  /\ MaxCredit = 7 * FctChars /\ MaxRoom = CreditMod - 1
BY FctCharsAssumption, ResetTimeAssumption
   DEF CreditMod, CreditLimit, MaxCredit, MaxRoom

(* The wrapping additions and decrements stay inside the register. *)
LEMMA WrapInRange ==
  ASSUME NEW n \in 0..(CreditMod - 1)
  PROVE  /\ Wrap(n + FctChars) \in 0..(CreditMod - 1)
         /\ n + FctChars < CreditMod => Wrap(n + FctChars) = n + FctChars
BY ConstantsAreNumbers DEF Wrap

LEMMA DecInRange ==
  ASSUME NEW n \in 0..(CreditMod - 1)
  PROVE  /\ Dec(n) \in 0..(CreditMod - 1)
         /\ n # 0 => Dec(n) = n - 1
BY ConstantsAreNumbers DEF Dec

(* The timer registers keep their type. *)
LEMMA TimerTypeOK ==
  ASSUME LinkTypeOK
  PROVE  /\ RestartTimer => timercnt' \in 0..ResetTime /\ timerdone' \in BOOLEAN
         /\ RunTimer     => timercnt' \in 0..ResetTime /\ timerdone' \in BOOLEAN
<1>1. (RestartTimer \/ RunTimer) => timercnt' \in 0..ResetTime
  BY ConstantsAreNumbers DEF LinkTypeOK, RestartTimer, RunTimer
<1>2. (RestartTimer \/ RunTimer) => timerdone' \in BOOLEAN
  BY Zenon DEF LinkTypeOK, RestartTimer, RunTimer
<1> QED BY <1>1, <1>2

(***************************************************************************)
(* Counting the credit of one clock keeps the type of the registers and    *)
(* the limit of seven FCTs.                                                *)
(***************************************************************************)
LEMMA CountCreditOK ==
  ASSUME LinkTypeOK, NEW in \in LinkInput, NEW room, NEW offer,
         Possible(in, offer), CountCredit(in, room)
  PROVE  /\ txCredit' \in 0..(CreditMod - 1)
         /\ rxCredit' \in 0..(CreditMod - 1)
         /\ errcred' \in BOOLEAN
         /\ xmitFctIn' \in BOOLEAN
         /\ CreditWithinLimit => CreditWithinLimit'
<1>1. earned(in) \in 0..(CreditMod - 1) /\ granted(in) \in 0..(CreditMod - 1)
  BY WrapInRange DEF LinkTypeOK, earned, granted
<1>2. /\ txCredit' = IF in.txack THEN Dec(earned(in)) ELSE earned(in)
      /\ rxCredit' = IF rxchar(in) THEN Dec(granted(in)) ELSE granted(in)
      /\ xmitFctIn' = (granted(in) <= CreditLimit /\ granted(in) + FctChars <= room)
      /\ errcred' = \/ errcred
                    \/ in.got = "fct" /\ txCredit > CreditLimit
                    \/ rxchar(in) /\ rxCredit = 0
  BY DEF CountCredit, mayAsk
<1>3. txCredit' \in 0..(CreditMod - 1) /\ rxCredit' \in 0..(CreditMod - 1)
  BY <1>1, <1>2, DecInRange
<1>4. errcred' \in BOOLEAN /\ xmitFctIn' \in BOOLEAN
  BY <1>2, Zenon DEF LinkTypeOK
<1>5. ASSUME CreditWithinLimit, ~errcred'
      PROVE  /\ txCredit' <= MaxCredit
             /\ rxCredit' <= MaxCredit
             /\ xmitFctIn' => rxCredit' <= CreditLimit
  <2>1. /\ ~errcred
        /\ in.got = "fct" => txCredit <= CreditLimit
        /\ rxchar(in) => rxCredit # 0
    BY <1>2, <1>5, ConstantsAreNumbers DEF LinkTypeOK
  <2>2. txCredit <= MaxCredit /\ rxCredit <= MaxCredit
    BY <1>5, <2>1 DEF CreditWithinLimit
  <2>3. in.fctack => rxCredit <= CreditLimit
    BY <1>5, <2>1 DEF CreditWithinLimit, Possible
  <2>4. earned(in) <= MaxCredit
    BY <2>1, <2>2, WrapInRange, ConstantsAreNumbers DEF LinkTypeOK, earned
  <2>5. granted(in) <= MaxCredit /\ (rxchar(in) => granted(in) # 0)
    BY <2>1, <2>2, <2>3, WrapInRange, ConstantsAreNumbers DEF LinkTypeOK, granted
  <2>6. in.txack => earned(in) # 0
    BY <2>1, WrapInRange, ConstantsAreNumbers DEF Possible, LinkTypeOK, earned
  <2>7. txCredit' <= MaxCredit
    BY <1>1, <1>2, <2>4, <2>6, DecInRange, ConstantsAreNumbers
  <2>8. rxCredit' <= granted(in)
    BY <1>1, <1>2, <2>5, DecInRange, ConstantsAreNumbers
  <2>9. xmitFctIn' => granted(in) <= CreditLimit
    BY <1>2
  <2> QED BY <1>1, <1>3, <2>5, <2>7, <2>8, <2>9, ConstantsAreNumbers
<1> QED BY <1>3, <1>4, <1>5 DEF CreditWithinLimit

(***************************************************************************)
(* One clock edge of the controller preserves the invariant, whatever the  *)
(* components around it present.                                           *)
(***************************************************************************)
LEMMA LinkClockInv ==
  ASSUME LinkInv, NEW in \in LinkInput, NEW room, NEW offer,
         Possible(in, offer), LinkClock(in, room)
  PROVE  LinkInv'
<1> USE DEF LinkInv
<1>1. ErrorReset => LinkInv'
  <2> SUFFICES ASSUME ErrorReset PROVE LinkInv'
    OBVIOUS
  <2>1. /\ txCredit' = 0 /\ rxCredit' = 0 /\ errcred' = FALSE /\ xmitFctIn' = FALSE
        /\ state' \in {"ErrorWait", "ErrorReset"}
        /\ RestartTimer \/ RunTimer
    BY DEF ErrorReset, ClearCredit, Move, Stay
  <2>2. /\ state' \in State
        /\ txCredit' \in 0..(CreditMod - 1) /\ rxCredit' \in 0..(CreditMod - 1)
    BY <2>1, ConstantsAreNumbers DEF State
  <2>3. errcred' \in BOOLEAN /\ xmitFctIn' \in BOOLEAN
    BY <2>1, Zenon
  <2>4. LinkTypeOK'
    BY <2>1, <2>2, <2>3, TimerTypeOK DEF LinkTypeOK
  <2> QED BY <2>1, <2>4, ConstantsAreNumbers DEF CreditWithinLimit, NothingLeftOver
<1>2. ASSUME CountCredit(in, room), state' \in State, RestartTimer \/ RunTimer
      PROVE  LinkTypeOK' /\ CreditWithinLimit'
  <2>1. timercnt' \in 0..ResetTime /\ timerdone' \in BOOLEAN
    BY <1>2, TimerTypeOK
  <2> QED BY <1>2, <2>1, CountCreditOK DEF LinkTypeOK
<1>3. ASSUME CountCredit(in, room), in.got = "none", ~in.fctack, ~in.txack,
             rxCredit = 0, txCredit = 0, ~errcred
      PROVE  rxCredit' = 0 /\ txCredit' = 0 /\ ~errcred'
  BY <1>3 DEF CountCredit, earned, granted, rxchar, NChar
<1>4. ErrorWait(in, room) => LinkInv'
  <2> SUFFICES ASSUME ErrorWait(in, room) PROVE LinkInv'
    OBVIOUS
  <2>1. /\ CountCredit(in, room) /\ (RestartTimer \/ RunTimer) /\ state = "ErrorWait"
        /\ state' = "ErrorReset" \/ (state' \in {"ErrorWait", "Ready"} /\ in.got = "none")
    BY DEF ErrorWait, Move, Stay, early
  <2>2. ~in.fctack /\ ~in.txack
    BY <2>1 DEF Possible, txen
  <2> QED BY <1>2, <1>3, <2>1, <2>2 DEF NothingLeftOver, State
<1>5. Ready(in, room) => LinkInv'
  <2> SUFFICES ASSUME Ready(in, room) PROVE LinkInv'
    OBVIOUS
  <2>1. /\ CountCredit(in, room) /\ (RestartTimer \/ RunTimer) /\ state = "Ready"
        /\ state' = "ErrorReset" \/ (state' \in {"Ready", "Started"} /\ in.got = "none")
    BY DEF Ready, Move, Stay, early
  <2>2. ~in.fctack /\ ~in.txack
    BY <2>1 DEF Possible, txen
  <2> QED BY <1>2, <1>3, <2>1, <2>2 DEF NothingLeftOver, State
<1>6. Started(in, room) => LinkInv'
  <2> SUFFICES ASSUME Started(in, room) PROVE LinkInv'
    OBVIOUS
  <2>1. /\ CountCredit(in, room) /\ (RestartTimer \/ RunTimer) /\ state = "Started"
        /\ state' = "ErrorReset" \/ (state' \in {"Started", "Connecting"} /\ in.got = "none")
    BY DEF Started, Move, Stay, early
  <2>2. ~in.fctack /\ ~in.txack
    BY <2>1 DEF Possible, stnull
  <2> QED BY <1>2, <1>3, <2>1, <2>2 DEF NothingLeftOver, State
<1>7. Connecting(in, room) => LinkInv'
  <2> SUFFICES ASSUME Connecting(in, room) PROVE LinkInv'
    OBVIOUS
  <2>1. /\ CountCredit(in, room) /\ (RestartTimer \/ RunTimer) /\ state = "Connecting"
        /\ \/ state' \in {"ErrorReset", "Run"}
           \/ state' = "Connecting" /\ in.got # "fct" /\ ~rxchar(in)
    BY DEF Connecting, Move, Stay
  <2>2. ~in.txack
    BY <2>1 DEF Possible, stfct
  <2>3. in.got # "fct" /\ ~rxchar(in) => txCredit' = 0 /\ ~errcred'
    BY <2>1, <2>2 DEF CountCredit, earned, NothingLeftOver
  <2> QED BY <1>2, <2>1, <2>3 DEF NothingLeftOver, State
<1>8. Run(in, room) => LinkInv'
  <2> SUFFICES ASSUME Run(in, room) PROVE LinkInv'
    OBVIOUS
  <2>1. /\ CountCredit(in, room) /\ (RestartTimer \/ RunTimer)
        /\ state' \in {"ErrorReset", "Run"}
    BY DEF Run, Move, Stay
  <2> QED BY <1>2, <2>1 DEF NothingLeftOver, State
<1> QED BY <1>1, <1>4, <1>5, <1>6, <1>7, <1>8 DEF LinkClock

(* Reset and power-up establish the invariant. *)
LEMMA LinkResetInv == LinkReset => LinkInv'
<1> SUFFICES ASSUME LinkReset PROVE LinkInv'
  OBVIOUS
<1>1. /\ state' = "ErrorReset" /\ timercnt' = ResetTime /\ timerdone' = FALSE
      /\ txCredit' = 0 /\ rxCredit' = 0 /\ errcred' = FALSE /\ xmitFctIn' = FALSE
  BY DEF LinkReset, RestartTimer, ClearCredit
<1>2. /\ state' \in State /\ timercnt' \in 0..ResetTime
      /\ txCredit' \in 0..(CreditMod - 1) /\ rxCredit' \in 0..(CreditMod - 1)
  BY <1>1, ConstantsAreNumbers DEF State
<1>3. timerdone' \in BOOLEAN /\ errcred' \in BOOLEAN /\ xmitFctIn' \in BOOLEAN
  BY <1>1, Zenon
<1>4. LinkTypeOK'
  BY <1>2, <1>3 DEF LinkTypeOK
<1> QED BY <1>1, <1>4, ConstantsAreNumbers
        DEF LinkInv, CreditWithinLimit, NothingLeftOver

LEMMA LinkInitInv == LinkInit => LinkInv
<1> SUFFICES ASSUME LinkInit PROVE LinkInv
  OBVIOUS
<1>1. /\ state \in State /\ timercnt \in 0..ResetTime
      /\ txCredit \in 0..(CreditMod - 1) /\ rxCredit \in 0..(CreditMod - 1)
  BY ConstantsAreNumbers DEF State, LinkInit
<1>2. timerdone \in BOOLEAN /\ errcred \in BOOLEAN /\ xmitFctIn \in BOOLEAN
  BY Zenon DEF LinkInit
<1>3. LinkTypeOK
  BY <1>1, <1>2 DEF LinkTypeOK
<1> QED BY <1>3, ConstantsAreNumbers
        DEF LinkInit, LinkInv, CreditWithinLimit, NothingLeftOver

(***************************************************************************)
(* The registers keep their types, credit stays within seven FCTs, and     *)
(* nothing is left over from an earlier connection.                        *)
(***************************************************************************)
THEOREM LinkInvariant == LinkSpec => []LinkInv
<1>1. LinkInv /\ [LinkNext]_linkVars => LinkInv'
  <2> SUFFICES ASSUME LinkInv, [LinkNext]_linkVars PROVE LinkInv'
    OBVIOUS
  <2>1. ASSUME NEW in \in LinkInput, NEW room \in Rooms,
               Possible(in, TRUE), LinkClock(in, room)
        PROVE  LinkInv'
    BY <2>1, LinkClockInv
  <2>2. CASE LinkReset
    BY <2>2, LinkResetInv
  <2>3. CASE UNCHANGED linkVars
    BY <2>3 DEF linkVars, LinkInv, LinkTypeOK, CreditWithinLimit, NothingLeftOver
  <2> QED BY <2>1, <2>2, <2>3 DEF LinkNext
<1> QED BY <1>1, LinkInitInv, PTL DEF LinkSpec

THEOREM LinkTypeCorrect == LinkSpec => []LinkTypeOK
BY LinkInvariant, PTL DEF LinkInv

(* Credit stays within the limit of seven FCTs. *)
THEOREM CreditStaysWithinLimit == LinkSpec => []CreditWithinLimit
BY LinkInvariant, PTL DEF LinkInv

(* No credit survives from one connection to the next. *)
THEOREM NothingIsLeftOver == LinkSpec => []NothingLeftOver
BY LinkInvariant, PTL DEF LinkInv

(***************************************************************************)
(* How long the transmitter has been off at least, by the place the        *)
(* controller has reached on its way through ErrorReset and ErrorWait.     *)
(***************************************************************************)
SilentFor(n) == quiet >= n

SilenceKept ==
  /\ quiet \in 0..QuietBound
  /\ state = "ErrorReset" => SilentFor(ResetTime - timercnt)
  /\ state = "ErrorWait" /\ ~timerdone => SilentFor(2 * ResetTime + 1 - timercnt)
  /\ state = "ErrorWait" /\ timerdone  => SilentFor(3 * ResetTime + 2 - timercnt)
  /\ state = "Ready" => SilentFor(QuietBound)

SilenceInv == LinkInv /\ SilenceKept

LEMMA QuietBoundValue == QuietBound \in Nat /\ QuietBound = 3 * ResetTime + 3
BY ConstantsAreNumbers DEF QuietBound, Period

(* While the transmitter is off, the count goes on until its bound. *)
LEMMA CountGoesOn ==
  ASSUME SilenceKept, Count
  PROVE  /\ quiet' \in 0..QuietBound
         /\ ~txen' => quiet' = QuietBound \/ quiet' = quiet + 1
BY QuietBoundValue DEF SilenceKept, Count

(***************************************************************************)
(* One clock edge of the controller, state by state.                       *)
(***************************************************************************)
LEMMA SilenceClock ==
  ASSUME SilenceInv, NEW in \in LinkInput, NEW room, LinkClock(in, room), Count
  PROVE  SilenceKept'
<1>1. /\ quiet' \in 0..QuietBound
      /\ ~txen' => quiet' = QuietBound \/ quiet' = quiet + 1
  BY CountGoesOn DEF SilenceInv
<1>2. /\ quiet \in 0..QuietBound /\ timercnt \in 0..ResetTime
      /\ timerdone \in BOOLEAN
  BY DEF SilenceInv, SilenceKept, LinkInv, LinkTypeOK
<1>3. ASSUME state' = "ErrorReset", timercnt' = ResetTime
      PROVE  SilenceKept'
  BY <1>1, <1>3, ConstantsAreNumbers DEF SilenceKept, SilentFor
<1>4. ASSUME txen'
      PROVE  SilenceKept'
  BY <1>1, <1>4 DEF SilenceKept, txen
<1>5. CASE ErrorReset
  <2>1. CASE Move("ErrorWait")
    <3>1. /\ state = "ErrorReset" /\ timercnt = 0 /\ state' = "ErrorWait"
          /\ timercnt' = ResetTime /\ ~timerdone'
      BY <1>5, <2>1, ConstantsAreNumbers, <1>2 DEF ErrorReset, Move, RestartTimer, Stay
    <3>2. quiet >= ResetTime
      BY <3>1, ConstantsAreNumbers DEF SilenceInv, SilenceKept, SilentFor
    <3> QED BY <1>1, <1>2, <3>1, <3>2, ConstantsAreNumbers, QuietBoundValue
            DEF SilenceKept, SilentFor, txen
  <2>2. CASE timercnt > 0 /\ Stay
    <3>1. /\ state = "ErrorReset" /\ state' = "ErrorReset"
          /\ timercnt' = timercnt - 1
      BY <1>5, <2>2, <1>2 DEF ErrorReset, Stay, RunTimer
    <3>2. quiet >= ResetTime - timercnt
      BY <3>1 DEF SilenceInv, SilenceKept, SilentFor
    <3> QED BY <1>1, <1>2, <3>1, <3>2, ConstantsAreNumbers, QuietBoundValue
            DEF SilenceKept, SilentFor, txen
  <2> QED BY <1>5, <2>1, <2>2 DEF ErrorReset
<1>6. CASE ErrorWait(in, room)
  <2>1. CASE Move("ErrorReset")
    BY <1>3, <2>1 DEF Move, RestartTimer
  <2>2. CASE TwoPeriods /\ Move("Ready")
    <3>1. /\ state = "ErrorWait" /\ state' = "Ready" /\ timercnt = 0 /\ timerdone
      BY <1>6, <2>2 DEF ErrorWait, Move, TwoPeriods
    <3>2. quiet >= 3 * ResetTime + 2
      BY <3>1, ConstantsAreNumbers DEF SilenceInv, SilenceKept, SilentFor
    <3> QED BY <1>1, <1>2, <3>1, <3>2, ConstantsAreNumbers, QuietBoundValue
            DEF SilenceKept, SilentFor, txen
  <2>3. CASE ~TwoPeriods /\ Stay
    <3>1. /\ state = "ErrorWait" /\ state' = "ErrorWait"
      BY <1>6, <2>3 DEF ErrorWait, Stay
    <3>2. /\ ~timerdone => quiet >= 2 * ResetTime + 1 - timercnt
          /\ timerdone => quiet >= 3 * ResetTime + 2 - timercnt
      BY <3>1 DEF SilenceInv, SilenceKept, SilentFor
    <3>3. CASE timercnt = 0
      <4>1. ~timerdone /\ timercnt' = ResetTime /\ timerdone'
        BY <2>3, <3>3 DEF TwoPeriods, Stay, RunTimer
      <4> QED BY <1>1, <1>2, <3>1, <3>2, <3>3, <4>1, ConstantsAreNumbers, QuietBoundValue
              DEF SilenceKept, SilentFor, txen
    <3>4. CASE timercnt > 0
      <4>1. timercnt' = timercnt - 1 /\ (timerdone' <=> timerdone)
        BY <1>2, <2>3, <3>4 DEF Stay, RunTimer
      <4>2. /\ ~timerdone' => quiet' >= 2 * ResetTime + 1 - timercnt'
            /\ timerdone' => quiet' >= 3 * ResetTime + 2 - timercnt'
        BY <1>1, <1>2, <3>1, <3>2, <4>1, ConstantsAreNumbers, QuietBoundValue DEF txen
      <4> QED BY <1>1, <3>1, <4>2 DEF SilenceKept, SilentFor
    <3> QED BY <1>2, <3>3, <3>4
  <2> QED BY <1>6, <2>1, <2>2, <2>3 DEF ErrorWait
<1>7. CASE Ready(in, room)
  <2>1. CASE Move("ErrorReset")
    BY <1>3, <2>1 DEF Move, RestartTimer
  <2>2. CASE Move("Started")
    BY <1>4, <2>2 DEF Move, txen
  <2>3. CASE Stay
    <3>1. state = "Ready" /\ state' = "Ready"
      BY <1>7, <2>3 DEF Ready, Stay
    <3>2. quiet >= QuietBound
      BY <3>1 DEF SilenceInv, SilenceKept, SilentFor
    <3> QED BY <1>1, <1>2, <3>1, <3>2, QuietBoundValue DEF SilenceKept, SilentFor, txen
  <2> QED BY <1>7, <2>1, <2>2, <2>3 DEF Ready
<1>8. CASE Started(in, room)
  <2>1. Move("ErrorReset") \/ Move("Connecting") \/ state' = "Started"
    BY <1>8 DEF Started, Stay
  <2> QED BY <1>3, <1>4, <2>1 DEF Move, RestartTimer, txen
<1>9. CASE Connecting(in, room)
  <2>1. Move("ErrorReset") \/ state' = "Run" \/ state' = "Connecting"
    BY <1>9 DEF Connecting, Stay
  <2> QED BY <1>3, <1>4, <2>1 DEF Move, RestartTimer, txen
<1>10. CASE Run(in, room)
  <2>1. Move("ErrorReset") \/ state' = "Run"
    BY <1>10 DEF Run, Stay
  <2> QED BY <1>3, <1>4, <2>1 DEF Move, RestartTimer, txen
<1> QED BY <1>5, <1>6, <1>7, <1>8, <1>9, <1>10 DEF LinkClock

(* The transmitter is switched on from Ready only. *)
LEMMA SentAgainFromReady ==
  ASSUME LinkInv, LinkNext, ~txen, txen'
  PROVE  state = "Ready"
<1>1. CASE LinkReset
  BY <1>1 DEF LinkReset, txen
<1>2. ASSUME NEW in \in LinkInput, NEW room \in Rooms, LinkClock(in, room)
      PROVE  state = "Ready"
  BY <1>2 DEF LinkClock, ErrorReset, ErrorWait, Started, Connecting, Run, Ready,
              Move, Stay, txen
<1> QED BY <1>1, <1>2 DEF LinkNext

(* Every step keeps the count in line with the controller. *)
LEMMA SilenceStep == SilenceInv /\ [SilenceNext]_silenceVars => SilenceInv'
<1> SUFFICES ASSUME SilenceInv, [SilenceNext]_silenceVars PROVE SilenceInv'
  OBVIOUS
<1>1. CASE UNCHANGED silenceVars
  BY <1>1 DEF silenceVars, linkVars, SilenceInv, LinkInv, LinkTypeOK, CreditWithinLimit,
              NothingLeftOver, SilenceKept, SilentFor
<1>2. ASSUME NEW in \in LinkInput, NEW room \in Rooms,
             Possible(in, TRUE), LinkClock(in, room), Count
      PROVE  SilenceInv'
  <2>1. LinkInv'
    BY <1>2, LinkClockInv DEF SilenceInv
  <2>2. SilenceKept'
    BY <1>2, SilenceClock
  <2> QED BY <2>1, <2>2 DEF SilenceInv
<1>3. CASE LinkReset /\ Count
  <2>1. LinkInv'
    BY <1>3, LinkResetInv
  <2>2. quiet' \in 0..QuietBound
    BY <1>3, CountGoesOn DEF SilenceInv
  <2>3. state' = "ErrorReset" /\ timercnt' = ResetTime
    BY <1>3 DEF LinkReset, RestartTimer
  <2> QED BY <2>1, <2>2, <2>3, ConstantsAreNumbers DEF SilenceInv, SilenceKept, SilentFor
<1> QED BY <1>1, <1>2, <1>3 DEF SilenceNext

(***************************************************************************)
(* The exchange of silence, for every ResetTime: whichever error or reset  *)
(* stopped the transmitter, it stays off for three periods of the timer    *)
(* before the controller sends again.                                      *)
(***************************************************************************)
THEOREM SilenceIsExchanged == SilenceSpec => ExchangeOfSilence
<1>1. SilenceInit => SilenceInv
  <2> SUFFICES ASSUME SilenceInit PROVE SilenceInv
    OBVIOUS
  <2>1. LinkInv
    BY LinkInitInv DEF SilenceInit
  <2>2. quiet = 0 /\ state = "ErrorReset" /\ timercnt = ResetTime
    BY DEF SilenceInit, LinkInit
  <2> QED BY <2>1, <2>2, ConstantsAreNumbers, QuietBoundValue
          DEF SilenceInv, SilenceKept, SilentFor
<1>2. SilenceInv /\ [SilenceNext]_silenceVars => [(~txen /\ txen') => quiet >= QuietBound]_silenceVars
  <2> SUFFICES ASSUME SilenceInv, SilenceNext, ~txen, txen'
               PROVE  quiet >= QuietBound
    BY DEF silenceVars
  <2>1. state = "Ready"
    BY SentAgainFromReady DEF SilenceNext, LinkNext, SilenceInv
  <2> QED BY <2>1 DEF SilenceInv, SilenceKept, SilentFor
<1> QED BY <1>1, <1>2, SilenceStep, PTL DEF SilenceSpec, ExchangeOfSilence

(***************************************************************************)
(* What the transmitter took in the handshake at hand is the credit        *)
(* granted: nothing before Connecting, every FCT in it.                    *)
(***************************************************************************)
GivenKept ==
  /\ state = "Started" => given = 0
  /\ state = "Connecting" => given = rxCredit

HandshakeInv == LinkInv /\ GivenKept

(* A clock of Connecting that decodes no N-Char adds to both alike. *)
LEMMA GivenAsGranted ==
  ASSUME HandshakeInv, state = "Connecting", NEW in \in LinkInput, NEW room,
         Possible(in, TRUE), CountCredit(in, room), Give(in), ~rxchar(in)
  PROVE  given' = rxCredit'
<1>1. /\ given = rxCredit /\ rxCredit \in 0..(CreditMod - 1)
      /\ in.fctack => rxCredit <= CreditLimit
  BY DEF HandshakeInv, GivenKept, LinkInv, LinkTypeOK, NothingLeftOver, CreditWithinLimit, Possible
<1>2. in.fctack => Wrap(rxCredit + FctChars) = rxCredit + FctChars
  BY <1>1, WrapInRange, ConstantsAreNumbers
<1>3. rxCredit' = IF in.fctack THEN Wrap(rxCredit + FctChars) ELSE rxCredit
  BY DEF CountCredit, granted
<1>4. given' = IF in.fctack THEN given + FctChars ELSE given
  BY <1>1, ConstantsAreNumbers DEF Give, stfct
<1> QED BY <1>1, <1>2, <1>3, <1>4

(* One clock edge: Started is entered with nothing given and gives nothing. *)
LEMMA GivenClock ==
  ASSUME HandshakeInv, NEW in \in LinkInput, NEW room,
         Possible(in, TRUE), LinkClock(in, room), Give(in)
  PROVE  GivenKept'
<1>1. ASSUME state' = "Started"
      PROVE  given' = 0
  <2>1. Ready(in, room) \/ Started(in, room)
    BY <1>1 DEF LinkClock, ErrorReset, ErrorWait, Connecting, Run, Move, Stay
  <2>2. CASE Ready(in, room)
    BY <2>2 DEF Ready, Give, stnull, stfct
  <2>3. CASE Started(in, room)
    <3>1. given = 0 /\ ~in.fctack /\ stnull
      BY <2>3 DEF Started, HandshakeInv, GivenKept, Possible, stnull
    <3> QED BY <3>1 DEF Give
  <2> QED BY <2>1, <2>2, <2>3
<1>2. ASSUME state' = "Connecting"
      PROVE  given' = rxCredit'
  <2>1. Started(in, room) \/ Connecting(in, room)
    BY <1>2 DEF LinkClock, ErrorReset, ErrorWait, Ready, Run, Move, Stay
  <2>2. CASE Started(in, room)
    <3>1. state = "Started" /\ CountCredit(in, room) /\ in.got = "none"
      BY <1>2, <2>2 DEF Started, Move, early
    <3>2. given = 0 /\ rxCredit = 0 /\ ~in.fctack
      BY <3>1 DEF HandshakeInv, LinkInv, GivenKept, NothingLeftOver, Possible, stnull
    <3>3. given' = 0
      BY <3>1, <3>2 DEF Give, stnull
    <3>4. rxCredit' = 0
      BY <3>1, <3>2 DEF CountCredit, granted, rxchar, NChar
    <3> QED BY <3>3, <3>4
  <2>3. CASE Connecting(in, room)
    <3>1. state = "Connecting" /\ CountCredit(in, room) /\ ~rxchar(in)
      BY <1>2, <2>3 DEF Connecting, Move
    <3> QED BY <3>1, GivenAsGranted
  <2> QED BY <2>1, <2>2, <2>3
<1> QED BY <1>1, <1>2 DEF GivenKept

LEMMA HandshakeStep == HandshakeInv /\ [SilenceNext]_silenceVars => HandshakeInv'
<1> SUFFICES ASSUME HandshakeInv, [SilenceNext]_silenceVars PROVE HandshakeInv'
  OBVIOUS
<1>1. CASE UNCHANGED silenceVars
  BY <1>1 DEF silenceVars, linkVars, HandshakeInv, GivenKept, LinkInv, LinkTypeOK,
              CreditWithinLimit, NothingLeftOver
<1>2. ASSUME NEW in \in LinkInput, NEW room \in Rooms,
             Possible(in, TRUE), LinkClock(in, room), Give(in)
      PROVE  HandshakeInv'
  <2>1. LinkInv'
    BY <1>2, LinkClockInv DEF HandshakeInv
  <2>2. GivenKept'
    BY <1>2, GivenClock
  <2> QED BY <2>1, <2>2 DEF HandshakeInv
<1>3. CASE LinkReset
  <2>1. LinkInv' /\ state' = "ErrorReset"
    BY <1>3, LinkResetInv DEF LinkReset
  <2> QED BY <2>1 DEF HandshakeInv, GivenKept
<1> QED BY <1>1, <1>2, <1>3 DEF SilenceNext

(***************************************************************************)
(* A connection is fresh, for every FctChars, ResetTime and room: what is  *)
(* granted on entering Run is what was sent in this handshake, what may be *)
(* sent is the one FCT received, and no error is pending.                  *)
(***************************************************************************)
THEOREM ConnectionIsFresh == SilenceSpec => FreshConnection
<1> DEFINE Entry == (state # "Run" /\ state' = "Run") =>
                      ~errcred' /\ txCredit' = FctChars /\ rxCredit' = given'
<1>1. SilenceInit => HandshakeInv
  <2> SUFFICES ASSUME SilenceInit PROVE HandshakeInv
    OBVIOUS
  <2>1. LinkInv /\ state = "ErrorReset"
    BY LinkInitInv DEF SilenceInit, LinkInit
  <2> QED BY <2>1 DEF HandshakeInv, GivenKept
<1>2. HandshakeInv /\ [SilenceNext]_silenceVars => [Entry]_silenceVars
  <2> SUFFICES ASSUME HandshakeInv, SilenceNext, state # "Run", state' = "Run"
               PROVE  ~errcred' /\ txCredit' = FctChars /\ rxCredit' = given'
    BY DEF silenceVars
  <2>1. PICK in \in LinkInput, room \in Rooms :
          Possible(in, TRUE) /\ Connecting(in, room) /\ Give(in)
    BY DEF SilenceNext, LinkReset, LinkClock, ErrorReset, ErrorWait, Ready, Started,
           Run, Move, Stay
  <2>2. in.got = "fct" /\ CountCredit(in, room) /\ state = "Connecting" /\ ~rxchar(in)
    BY <2>1 DEF Connecting, Move, Stay, rxchar, NChar
  <2>3. txCredit = 0 /\ ~errcred /\ ~in.txack
    BY <2>1, <2>2 DEF HandshakeInv, LinkInv, NothingLeftOver, Possible, stfct
  <2>4. ~errcred' /\ txCredit' = Wrap(0 + FctChars)
    BY <2>2, <2>3, ConstantsAreNumbers DEF CountCredit, earned
  <2>5. Wrap(0 + FctChars) = FctChars
    BY ConstantsAreNumbers DEF Wrap
  <2>6. rxCredit' = given'
    BY <2>1, <2>2, GivenAsGranted
  <2> QED BY <2>4, <2>5, <2>6
<1> QED BY <1>1, <1>2, HandshakeStep, PTL DEF SilenceSpec, FreshConnection
=============================================================================
