--------------------------- MODULE SpwPairProofs ---------------------------
(***************************************************************************)
(* No credit is lost or made between two link controllers, for every FCT   *)
(* size, delay of the line, FIFO size, set of senders and set of           *)
(* disturbances, as long as the way there and back takes no longer than a  *)
(* period of the timer.                                                    *)
(*                                                                         *)
(* What is said of one side holds of the other.  A side is therefore taken *)
(* as a value, ValueA or ValueB, NodeStep sums up what a clock does to     *)
(* such a value, and the lemmas are about any two values that take a step. *)
(***************************************************************************)
EXTENDS SpwPair, FiniteSetTheorems, TLAPS

ValueA == [s |-> stateA, tx |-> txCreditA, rx |-> rxCreditA, ec |-> errcredA,
           cnt |-> timercntA, done |-> timerdoneA, ask |-> xmitFctInA,
           xmit |-> xmitA, recv |-> recvA]
ValueB == [s |-> stateB, tx |-> txCreditB, rx |-> rxCreditB, ec |-> errcredB,
           cnt |-> timercntB, done |-> timerdoneB, ask |-> xmitFctInB,
           xmit |-> xmitB, recv |-> recvB]

Token   == {"silence", "null", "fct", "data"}
Credits == {"fct", "data"}                    \* the tokens that credit depends on
Waiting == {"ErrorWait", "Ready"}
Joined  == {"Connecting", "Run"}              \* the states that a NULL leads to
Sending == {"Started"} \cup Joined
PairState == {"ErrorReset"} \cup Waiting \cup Sending

(* For how many clocks, at least, a node has put nothing but silence. *)
Quiet(n) == IF n.s = "ErrorReset" THEN ResetTime - n.cnt
            ELSE IF n.s = "ErrorWait" /\ ~n.done THEN 2 * ResetTime + 1 - n.cnt
            ELSE IF n.s \in Waiting THEN 2 * ResetTime + 2
            ELSE 0

(***************************************************************************)
(* A node by itself: its registers and what its receiver may have heard.   *)
(***************************************************************************)
Registers(n) ==
  /\ n.s \in PairState /\ (n.s \in {"ErrorReset", "ErrorWait"} => n.cnt \in 0..ResetTime)
  /\ n.tx \in 0..(7 * FctChars) /\ n.rx \in 0..(7 * FctChars) /\ ~n.ec
  /\ n.ask => n.rx <= 6 * FctChars
  /\ n.s \in Waiting \cup {"Started"} => n.tx = 0 /\ n.rx = 0
  /\ n.s = "Connecting" => n.tx = 0
  /\ n.s \in Waiting => ~n.xmit.null

Receiver(n) ==
  /\ n.recv.got \in {"none", "fct", "data"}
  /\ n.recv.null => n.recv.bit
  /\ n.s \in Joined => n.recv.null
  /\ n.s # "ErrorReset" /\ n.recv.err => n.recv.got = "none"
  /\ n.s \in Waiting /\ Quiet(n) <= ResetTime + 1 => ~n.recv.null

NodeInv(n) == Registers(n) /\ Receiver(n)

(***************************************************************************)
(* What a sends, on its way through p to b.  What a connection sends is    *)
(* one unbroken stretch that begins with NULLs, and the silence between    *)
(* two of them is longer than p.                                           *)
(***************************************************************************)
Stretch(a, p) ==
  /\ p \in Seq(Token) /\ Len(p) = Delay
  /\ \A i \in 1..Delay : i > Delay - Quiet(a) => p[i] = "silence"
  /\ a.s \in Sending => \A i \in 1..(Delay - 1) : p[i] # "silence" => p[i + 1] # "silence"
  /\ a.s = "Started" => \A i \in 1..Delay : p[i] \notin Credits

(* Silence is heard Delay clocks later and ends the connection. *)
Heard(a, p, b) ==
  /\ b.recv.bit => Quiet(a) <= Delay + 2
  /\ b.recv.bit /\ b.s # "ErrorReset" => Quiet(a) <= Delay + 1
  /\ b.recv.bit /\ b.s # "ErrorReset" /\ ~b.recv.err => Quiet(a) <= Delay
  /\ b.recv.bit /\ ~b.recv.err /\ a.s \in Sending => p[1] # "silence"

(* The other side of a node that has stopped stops a round trip later. *)
Flushed(p, b) ==
  b.s \notin Sending =>
    \A i \in 1..Delay : p[i] \in Credits => i <= 2 * Delay + 2 - Quiet(b)

(* A node that waits decodes nothing, as it has heard no NULL yet. *)
Deaf(b) == b.s \in Waiting => b.recv.got = "none"

(* The NULL that opens the receiver goes before what it must not miss. *)
NullFirst(a, p, b) ==
  b.s # "ErrorReset" /\ ~b.recv.err /\ ~b.recv.null =>
    /\ a.s \in Sending /\ a.xmit.null => \E j \in 1..Delay : p[j] = "null"
    /\ a.s # "ErrorReset" =>
         \A i \in 1..Delay : p[i] \in Credits => \E j \in 1..(i - 1) : p[j] = "null"

Direction(a, p, b) ==
  Stretch(a, p) /\ Heard(a, p, b) /\ Flushed(p, b) /\ Deaf(b) /\ NullFirst(a, p, b)

(***************************************************************************)
(* What a granted to b, over p, and b uses over q: as much as b may still  *)
(* send and what is on its way; more if an error has spoiled a token, and  *)
(* enough for what is on its way when b is gone.                           *)
(***************************************************************************)
Used(a, p, b, q) == b.tx + FctChars * OnItsWay("fct", p, b.recv) + OnItsWay("data", q, a.recv)

Granted(a, p, b, q) ==
  /\ a.s # "ErrorReset" /\ b.s # "ErrorReset" => a.rx >= Used(a, p, b, q)
  /\ a.s # "ErrorReset" /\ b.s # "ErrorReset" /\ ~a.recv.err /\ ~b.recv.err =>
       a.rx = Used(a, p, b, q)
  /\ a.s \in Sending => a.rx >= OnItsWay("data", q, a.recv)
  /\ b.s \in Sending => b.tx + FctChars * OnItsWay("fct", p, b.recv) <= 7 * FctChars

PairInv ==
  /\ NodeInv(ValueA) /\ NodeInv(ValueB)
  /\ Direction(ValueA, pipeAB, ValueB) /\ Direction(ValueB, pipeBA, ValueA)
  /\ Granted(ValueA, pipeAB, ValueB, pipeBA) /\ Granted(ValueB, pipeBA, ValueA, pipeAB)

-----------------------------------------------------------------------------
(***************************************************************************)
(* What a clock does to a node n that hears a token and puts another one,  *)
(* m being the node after it.                                              *)
(***************************************************************************)
Fresh(m) == m.s = "ErrorReset" /\ m.cnt = ResetTime /\ ~m.done

Counts(n, m) ==
  \/ n.s = m.s /\ n.cnt = 0 /\ ~n.done /\ m.cnt = ResetTime /\ m.done
  \/ n.s = m.s /\ n.cnt > 0 /\ m.cnt = n.cnt - 1 /\ m.done = n.done

Moves(n, m) ==
  \/ Fresh(m)
  \/ /\ n.s = "ErrorReset" /\ m.s = "ErrorReset"
     /\ n.cnt > 0 /\ m.cnt = n.cnt - 1
  \/ /\ n.s = "ErrorReset" /\ m.s = "ErrorWait"
     /\ n.cnt = 0 /\ m.cnt = ResetTime /\ ~m.done
  \/ /\ ~n.recv.err
     /\ \/ /\ n.s = "ErrorWait" /\ n.recv.got = "none"
           /\ Counts(n, m) \/ (n.cnt = 0 /\ n.done /\ m.s = "Ready")
        \/ n.s = "Ready" /\ n.recv.got = "none" /\ m.s \in {"Ready", "Started"}
        \/ n.s = "Started" /\ n.recv.got = "none" /\ m.s = "Started"
        \/ n.s = "Started" /\ n.recv.got = "none" /\ n.recv.null /\ m.s = "Connecting"
        \/ n.s = "Connecting" /\ n.recv.got = "none" /\ m.s = "Connecting"
        \/ n.s = "Connecting" /\ n.recv.got = "fct" /\ m.s = "Run"
        \/ n.s = "Run" /\ m.s = "Run"

Plus(c)  == IF c + FctChars >= 8 * FctChars THEN (c + FctChars) - 8 * FctChars ELSE c + FctChars
Minus(c) == IF c = 0 THEN 8 * FctChars - 1 ELSE c - 1

Cleared(m) == m.tx = 0 /\ m.rx = 0 /\ ~m.ec /\ ~m.ask

Counted(n, m, put) ==
  LET earns  == IF n.recv.got = "fct" THEN Plus(n.tx) ELSE n.tx
      grants == IF put = "fct" THEN Plus(n.rx) ELSE n.rx
  IN /\ m.tx = IF put = "data" THEN Minus(earns) ELSE earns
     /\ m.rx = IF n.recv.got = "data" THEN Minus(grants) ELSE grants
     /\ m.ask => grants <= 6 * FctChars
     /\ m.ec => \/ n.ec
                \/ n.recv.got = "fct" /\ n.tx > 6 * FctChars
                \/ n.recv.got = "data" /\ n.rx = 0

Transmits(n, m, put) ==
  /\ put \in Token
  /\ n.s \notin Sending => put = "silence"
  /\ put = "silence" => n.s \notin Sending \/ Fresh(m)
  /\ put \in Credits => n.xmit.null /\ n.s \in Joined
  /\ put = "fct" => n.ask
  /\ put = "data" => n.tx # 0
  /\ m.xmit.null => put = "null" \/ (put # "silence" /\ n.xmit.null)

Noted(r, heard, noise) == NextRecv(r, TRUE, heard, noise)

Receives(n, m, heard, noise) ==
  \/ m.recv = RecvOff /\ (Fresh(m) \/ n.s = "ErrorReset")
  \/ n.s # "ErrorReset" /\ m.recv = Noted(n.recv, heard, noise)

NodeStep(n, m, heard, noise, put) ==
  /\ Moves(n, m)
  /\ \/ Cleared(m) /\ (Fresh(m) \/ n.s = "ErrorReset")
     \/ n.s # "ErrorReset" /\ Counted(n, m, put)
  /\ Transmits(n, m, put)
  /\ Receives(n, m, heard, noise)
LEMMA ConstantsAreNumbers ==
  /\ FctChars \in Nat /\ FctChars > 0
  /\ ResetTime \in Nat /\ Delay \in Nat /\ Delay > 0 /\ 2 * Delay <= ResetTime
BY FctAssumption, ResetAssumption, DelayAssumption, RoundTripAssumption

(* The link controller's actions say what Moves and Counted say of a value. *)
LEMMA MovesA ==
  ASSUME Receiver(ValueA), NEW starts, NEW disabled, NEW token, NEW room,
         A!LinkClock(Input(recvA, starts, disabled, token), room)
  PROVE  /\ Moves(ValueA, ValueA')
         /\ \/ Cleared(ValueA') /\ stateA = "ErrorReset"
            \/ stateA # "ErrorReset" /\ Counted(ValueA, ValueA', token)
<1> DEFINE in == Input(recvA, starts, disabled, token)
<1>1. /\ in.gotnull = recvA.null /\ in.got = recvA.got /\ in.recverr = recvA.err
      /\ (in.fctack <=> token = "fct") /\ (in.txack <=> token = "data")
      /\ in.got \in {"none", "fct", "data"}
      /\ A!rxchar(in) <=> recvA.got = "data"
  BY DEF Input, Receiver, ValueA, A!rxchar, A!NChar
<1> HIDE DEF in
<1>2. A!CountCredit(in, room) => Counted(ValueA, ValueA', token)
  <2> SUFFICES ASSUME A!CountCredit(in, room) PROVE Counted(ValueA, ValueA', token)
    OBVIOUS
  <2>1. /\ A!earned(in) = IF recvA.got = "fct" THEN Plus(txCreditA) ELSE txCreditA
        /\ A!granted(in) = IF token = "fct" THEN Plus(rxCreditA) ELSE rxCreditA
    <3>1. \A c : A!Wrap(c + FctChars) = Plus(c)
      BY DEF A!Wrap, A!CreditMod, Plus
    <3> QED BY <1>1, <3>1 DEF A!earned, A!granted
  <2>2. \A c : A!Dec(c) = Minus(c)
    BY DEF A!Dec, A!CreditMod, Minus
  <2>3. /\ txCreditA' = IF token = "data" THEN Minus(A!earned(in)) ELSE A!earned(in)
        /\ rxCreditA' = IF recvA.got = "data" THEN Minus(A!granted(in)) ELSE A!granted(in)
    BY <1>1, <2>2 DEF A!CountCredit
  <2>4. xmitFctInA' => A!granted(in) <= 6 * FctChars
    BY DEF A!CountCredit, A!mayAsk, A!CreditLimit
  <2>5. errcredA' => \/ errcredA
                     \/ recvA.got = "fct" /\ txCreditA > 6 * FctChars
                     \/ recvA.got = "data" /\ rxCreditA = 0
    BY <1>1 DEF A!CountCredit, A!CreditLimit
  <2> QED BY <2>1, <2>3, <2>4, <2>5 DEF Counted, ValueA
<1>3. CASE A!ErrorReset
  BY <1>3 DEF A!ErrorReset, A!Move, A!Stay, A!RestartTimer, A!RunTimer, A!ClearCredit,
              Moves, Fresh, Cleared, ValueA
<1>4. CASE A!ErrorWait(in, room)
  BY <1>1, <1>2, <1>4 DEF A!ErrorWait, A!Move, A!Stay, A!RestartTimer, A!RunTimer, A!early,
              A!TwoPeriods, Moves, Fresh, Counts, ValueA
<1>5. CASE A!Ready(in, room)
  BY <1>1, <1>2, <1>5 DEF A!Ready, A!Move, A!Stay, A!RestartTimer, A!early, Moves, Fresh, ValueA
<1>6. CASE A!Started(in, room)
  BY <1>1, <1>2, <1>6 DEF A!Started, A!Move, A!Stay, A!RestartTimer, A!early,
              Moves, Fresh, ValueA
<1>7. CASE A!Connecting(in, room)
  BY <1>1, <1>2, <1>7 DEF A!Connecting, A!Move, A!Stay, A!RestartTimer,
              Moves, Fresh, ValueA
<1>8. CASE A!Run(in, room)
  BY <1>1, <1>2, <1>8 DEF A!Run, A!runFails, A!Move, A!Stay, A!RestartTimer,
              Moves, Fresh, ValueA
<1> QED BY <1>3, <1>4, <1>5, <1>6, <1>7, <1>8 DEF A!LinkClock, in

LEMMA StepA ==
  ASSUME Receiver(ValueA), stateA \in PairState,
         NEW trouble, NEW read, NEW token \in SentA(trouble),
         ClockA(trouble, token, read) \/ ResetA(trouble)
  PROVE  NodeStep(ValueA, ValueA', Head(pipeBA), trouble = "noiseA", token)
<1> DEFINE heard == Head(pipeBA)
           noise == trouble = "noiseA"
<1>1. CASE ResetA(trouble)
  <2>1. /\ token = "silence" /\ Fresh(ValueA') /\ Cleared(ValueA')
        /\ recvA' = RecvOff /\ xmitA' = XmitOff
    BY <1>1 DEF ResetA, SentA, A!LinkReset, A!RestartTimer, A!ClearCredit,
                Fresh, Cleared, ValueA
  <2>2. Transmits(ValueA, ValueA', token)
    BY <2>1 DEF Transmits, Token, Credits, ValueA, XmitOff
  <2> QED BY <2>1, <2>2 DEF NodeStep, Moves, Receives, ValueA
<1>2. CASE ClockA(trouble, token, read)
  <2>1. /\ A!LinkClock(Input(recvA, TRUE, trouble = "disableA", token), fifoA.room)
        /\ xmitA' = NextXmit(xmitA, token, xmitFctInA)
        /\ recvA' = NextRecv(recvA, A!rxen, heard, noise)
        /\ trouble # "resetA"
    BY <1>2 DEF ClockA
  <2>2. /\ Moves(ValueA, ValueA')
        /\ \/ Cleared(ValueA') /\ stateA = "ErrorReset"
           \/ stateA # "ErrorReset" /\ Counted(ValueA, ValueA', token)
    BY <2>1, MovesA
  <2>3. Transmits(ValueA, ValueA', token)
    <3>1. token \in Puts(xmitA, A!txen, ~A!stnull, xmitFctInA,
                         "A" \in Senders /\ A!running /\ txCreditA # 0)
      BY <2>1 DEF SentA
    <3>2. A!txen <=> stateA \in Sending
      BY DEF A!txen, Sending, Joined
    <3>3. token \in Token /\ (token = "silence" <=> ~A!txen)
      BY <3>1 DEF Puts, Token
    <3>4. token \in Credits => xmitA.null /\ stateA \in Joined
      BY <3>1, <3>2, <3>3
         DEF Puts, A!stnull, A!running, Credits, Sending, Joined
    <3>5. (token = "fct" => xmitFctInA) /\ (token = "data" => txCreditA # 0)
      BY <3>1 DEF Puts
    <3>6. xmitA'.null => token = "null" \/ (token # "silence" /\ xmitA.null)
      BY <2>1 DEF NextXmit, XmitOff
    <3> QED BY <3>2, <3>3, <3>4, <3>5, <3>6 DEF Transmits, ValueA
  <2>4. Receives(ValueA, ValueA', heard, noise)
    BY <2>1 DEF Receives, NextRecv, Noted, A!rxen, ValueA
  <2> QED BY <2>2, <2>3, <2>4 DEF NodeStep, ValueA
<1> QED BY <1>1, <1>2

LEMMA MovesB ==
  ASSUME Receiver(ValueB), NEW starts, NEW disabled, NEW token, NEW room,
         B!LinkClock(Input(recvB, starts, disabled, token), room)
  PROVE  /\ Moves(ValueB, ValueB')
         /\ \/ Cleared(ValueB') /\ stateB = "ErrorReset"
            \/ stateB # "ErrorReset" /\ Counted(ValueB, ValueB', token)
<1> DEFINE in == Input(recvB, starts, disabled, token)
<1>1. /\ in.gotnull = recvB.null /\ in.got = recvB.got /\ in.recverr = recvB.err
      /\ (in.fctack <=> token = "fct") /\ (in.txack <=> token = "data")
      /\ in.got \in {"none", "fct", "data"}
      /\ B!rxchar(in) <=> recvB.got = "data"
  BY DEF Input, Receiver, ValueB, B!rxchar, B!NChar
<1> HIDE DEF in
<1>2. B!CountCredit(in, room) => Counted(ValueB, ValueB', token)
  <2> SUFFICES ASSUME B!CountCredit(in, room) PROVE Counted(ValueB, ValueB', token)
    OBVIOUS
  <2>1. /\ B!earned(in) = IF recvB.got = "fct" THEN Plus(txCreditB) ELSE txCreditB
        /\ B!granted(in) = IF token = "fct" THEN Plus(rxCreditB) ELSE rxCreditB
    <3>1. \A c : B!Wrap(c + FctChars) = Plus(c)
      BY DEF B!Wrap, B!CreditMod, Plus
    <3> QED BY <1>1, <3>1 DEF B!earned, B!granted
  <2>2. \A c : B!Dec(c) = Minus(c)
    BY DEF B!Dec, B!CreditMod, Minus
  <2>3. /\ txCreditB' = IF token = "data" THEN Minus(B!earned(in)) ELSE B!earned(in)
        /\ rxCreditB' = IF recvB.got = "data" THEN Minus(B!granted(in)) ELSE B!granted(in)
    BY <1>1, <2>2 DEF B!CountCredit
  <2>4. xmitFctInB' => B!granted(in) <= 6 * FctChars
    BY DEF B!CountCredit, B!mayAsk, B!CreditLimit
  <2>5. errcredB' => \/ errcredB
                     \/ recvB.got = "fct" /\ txCreditB > 6 * FctChars
                     \/ recvB.got = "data" /\ rxCreditB = 0
    BY <1>1 DEF B!CountCredit, B!CreditLimit
  <2> QED BY <2>1, <2>3, <2>4, <2>5 DEF Counted, ValueB
<1>3. CASE B!ErrorReset
  BY <1>3 DEF B!ErrorReset, B!Move, B!Stay, B!RestartTimer, B!RunTimer, B!ClearCredit,
              Moves, Fresh, Cleared, ValueB
<1>4. CASE B!ErrorWait(in, room)
  BY <1>1, <1>2, <1>4 DEF B!ErrorWait, B!Move, B!Stay, B!RestartTimer, B!RunTimer, B!early,
              B!TwoPeriods, Moves, Fresh, Counts, ValueB
<1>5. CASE B!Ready(in, room)
  BY <1>1, <1>2, <1>5 DEF B!Ready, B!Move, B!Stay, B!RestartTimer, B!early, Moves, Fresh, ValueB
<1>6. CASE B!Started(in, room)
  BY <1>1, <1>2, <1>6 DEF B!Started, B!Move, B!Stay, B!RestartTimer, B!early,
              Moves, Fresh, ValueB
<1>7. CASE B!Connecting(in, room)
  BY <1>1, <1>2, <1>7 DEF B!Connecting, B!Move, B!Stay, B!RestartTimer,
              Moves, Fresh, ValueB
<1>8. CASE B!Run(in, room)
  BY <1>1, <1>2, <1>8 DEF B!Run, B!runFails, B!Move, B!Stay, B!RestartTimer,
              Moves, Fresh, ValueB
<1> QED BY <1>3, <1>4, <1>5, <1>6, <1>7, <1>8 DEF B!LinkClock, in

LEMMA StepB ==
  ASSUME Receiver(ValueB), stateB \in PairState,
         NEW trouble, NEW read, NEW token \in SentB(trouble),
         ClockB(trouble, token, read) \/ ResetB(trouble)
  PROVE  NodeStep(ValueB, ValueB', Head(pipeAB), trouble = "noiseB", token)
<1> DEFINE heard == Head(pipeAB)
           noise == trouble = "noiseB"
<1>1. CASE ResetB(trouble)
  <2>1. /\ token = "silence" /\ Fresh(ValueB') /\ Cleared(ValueB')
        /\ recvB' = RecvOff /\ xmitB' = XmitOff
    BY <1>1 DEF ResetB, SentB, B!LinkReset, B!RestartTimer, B!ClearCredit,
                Fresh, Cleared, ValueB
  <2>2. Transmits(ValueB, ValueB', token)
    BY <2>1 DEF Transmits, Token, Credits, ValueB, XmitOff
  <2> QED BY <2>1, <2>2 DEF NodeStep, Moves, Receives, ValueB
<1>2. CASE ClockB(trouble, token, read)
  <2>1. /\ B!LinkClock(Input(recvB, FALSE, trouble = "disableB", token), fifoB.room)
        /\ xmitB' = NextXmit(xmitB, token, xmitFctInB)
        /\ recvB' = NextRecv(recvB, B!rxen, heard, noise)
        /\ trouble # "resetB"
    BY <1>2 DEF ClockB
  <2>2. /\ Moves(ValueB, ValueB')
        /\ \/ Cleared(ValueB') /\ stateB = "ErrorReset"
           \/ stateB # "ErrorReset" /\ Counted(ValueB, ValueB', token)
    BY <2>1, MovesB
  <2>3. Transmits(ValueB, ValueB', token)
    <3>1. token \in Puts(xmitB, B!txen, ~B!stnull, xmitFctInB,
                         "B" \in Senders /\ B!running /\ txCreditB # 0)
      BY <2>1 DEF SentB
    <3>2. B!txen <=> stateB \in Sending
      BY DEF B!txen, Sending, Joined
    <3>3. token \in Token /\ (token = "silence" <=> ~B!txen)
      BY <3>1 DEF Puts, Token
    <3>4. token \in Credits => xmitB.null /\ stateB \in Joined
      BY <3>1, <3>2, <3>3
         DEF Puts, B!stnull, B!running, Credits, Sending, Joined
    <3>5. (token = "fct" => xmitFctInB) /\ (token = "data" => txCreditB # 0)
      BY <3>1 DEF Puts
    <3>6. xmitB'.null => token = "null" \/ (token # "silence" /\ xmitB.null)
      BY <2>1 DEF NextXmit, XmitOff
    <3> QED BY <3>2, <3>3, <3>4, <3>5, <3>6 DEF Transmits, ValueB
  <2>4. Receives(ValueB, ValueB', heard, noise)
    BY <2>1 DEF Receives, NextRecv, Noted, B!rxen, ValueB
  <2> QED BY <2>2, <2>3, <2>4 DEF NodeStep, ValueB
<1> QED BY <1>1, <1>2

-----------------------------------------------------------------------------
(***************************************************************************)
(* A node by itself.                                                       *)
(***************************************************************************)
LEMMA QuietRange ==
  ASSUME NEW n, Registers(n)
  PROVE  /\ Quiet(n) \in 0..(2 * ResetTime + 2)
         /\ n.s \in Sending => Quiet(n) = 0
         /\ n.s \in Waiting => Quiet(n) >= ResetTime + 1
         /\ n.s = "Ready" => Quiet(n) = 2 * ResetTime + 2
BY ConstantsAreNumbers DEF Registers, PairState, Quiet, Sending, Joined, Waiting

LEMMA QuietStep ==
  ASSUME NEW n, NEW m, Registers(n), Moves(n, m)
  PROVE  /\ m.s \in PairState
         /\ m.s \in {"ErrorReset", "ErrorWait"} => m.cnt \in 0..ResetTime
         /\ Quiet(m) \in Nat
         /\ n.s \notin Sending => Quiet(m) <= Quiet(n) + 1
         /\ n.s \in Sending /\ m.s \notin Sending => Fresh(m)
         /\ Fresh(m) => Quiet(m) = 0
<1> USE ConstantsAreNumbers DEF Registers, PairState, Sending, Joined, Waiting, Moves, Fresh, Counts
<1>1. m.s \in PairState /\ (n.s \in Sending /\ m.s \notin Sending => Fresh(m))
  OBVIOUS
<1>2. m.s \in {"ErrorReset", "ErrorWait"} => m.cnt \in 0..ResetTime
  OBVIOUS
<1>5. Quiet(m) \in Nat
  BY <1>1, <1>2 DEF Quiet
<1>3. Fresh(m) => Quiet(m) = 0
  BY DEF Quiet
<1>4. n.s \notin Sending => Quiet(m) <= Quiet(n) + 1
  <2>1. CASE m.s = "ErrorWait" /\ n.s = "ErrorWait"
    BY <2>1 DEF Quiet
  <2>2. CASE n.s = "ErrorWait" /\ m.s # "ErrorWait"
    BY <2>2 DEF Quiet
  <2>3. CASE n.s \notin Sending /\ n.s # "ErrorWait"
    BY <2>3 DEF Quiet
  <2> QED BY <2>1, <2>2, <2>3
<1> QED BY <1>1, <1>2, <1>3, <1>4, <1>5

(* One FCT or character more or less, when nothing overflows. *)
Has(x, y) == IF x = y THEN 1 ELSE 0

(* What arrives now can be counted. *)
Expected(n) ==
  /\ n.s \in Waiting => n.recv.got = "none"
  /\ n.s \in Sending /\ n.recv.got = "fct" => n.tx <= 6 * FctChars
  /\ n.s \in Sending /\ n.recv.got = "data" => n.rx > 0

LEMMA CountedExactly ==
  ASSUME NEW n, NEW m, NEW put, NodeInv(n), Expected(n), n.s # "ErrorReset",
         Counted(n, m, put), Transmits(n, m, put)
  PROVE  /\ m.tx = n.tx + FctChars * Has(n.recv.got, "fct") - Has(put, "data")
         /\ m.rx = n.rx + FctChars * Has(put, "fct") - Has(n.recv.got, "data")
         /\ m.tx \in 0..(7 * FctChars) /\ m.rx \in 0..(7 * FctChars) /\ ~m.ec
         /\ m.ask => m.rx <= 6 * FctChars
<1> DEFINE earns  == IF n.recv.got = "fct" THEN Plus(n.tx) ELSE n.tx
           grants == IF put = "fct" THEN Plus(n.rx) ELSE n.rx
<1>1. /\ n.s \in Waiting \cup Sending
      /\ n.tx \in 0..(7 * FctChars) /\ n.rx \in 0..(7 * FctChars) /\ ~n.ec
      /\ n.ask => n.rx <= 6 * FctChars
      /\ put \in {"fct", "data"} => n.s \in Joined
      /\ put = "fct" => n.ask
      /\ put = "data" => n.tx # 0
      /\ n.recv.got \in {"none", "fct", "data"}
  BY DEF NodeInv, Registers, Receiver, Transmits, PairState, Credits
<1>2. /\ n.recv.got = "fct" => n.tx <= 6 * FctChars
      /\ n.recv.got = "data" => n.rx > 0
  BY <1>1 DEF Expected
<1>3. /\ m.tx = IF put = "data" THEN Minus(earns) ELSE earns
      /\ m.rx = IF n.recv.got = "data" THEN Minus(grants) ELSE grants
      /\ m.ask => grants <= 6 * FctChars
  BY DEF Counted
<1>4. ~m.ec
  BY <1>1, <1>2, ConstantsAreNumbers DEF Counted
<1>5. earns = n.tx + FctChars * Has(n.recv.got, "fct") /\ earns \in 0..(7 * FctChars)
  BY <1>1, <1>2, ConstantsAreNumbers DEF Plus, Has
<1>6. grants = n.rx + FctChars * Has(put, "fct") /\ grants \in 0..(7 * FctChars)
  BY <1>1, <1>2, ConstantsAreNumbers DEF Plus, Has
<1>7. (put = "data" => earns > 0) /\ (n.recv.got = "data" => grants > 0)
  BY <1>1, <1>2, ConstantsAreNumbers DEF Plus
<1> HIDE DEF earns, grants
<1>8. m.tx = earns - Has(put, "data") /\ m.tx \in 0..(7 * FctChars)
  BY <1>3, <1>5, <1>7, ConstantsAreNumbers DEF Minus, Has
<1>9. m.rx = grants - Has(n.recv.got, "data") /\ m.rx \in 0..(7 * FctChars)
  BY <1>3, <1>6, <1>7, ConstantsAreNumbers DEF Minus, Has
<1>10. m.ask => m.rx <= 6 * FctChars
  BY <1>3, <1>6, <1>9, ConstantsAreNumbers DEF Has
<1> QED BY <1>1, <1>4, <1>5, <1>6, <1>8, <1>9, <1>10, ConstantsAreNumbers DEF Has

LEMMA RegistersStep ==
  ASSUME NEW n, NEW m, NEW heard, NEW noise, NEW put,
         NodeInv(n), Expected(n), NodeStep(n, m, heard, noise, put)
  PROVE  Registers(m)
<1>1. /\ m.s \in PairState
      /\ m.s \in {"ErrorReset", "ErrorWait"} => m.cnt \in 0..ResetTime
  BY QuietStep DEF NodeInv, NodeStep
<1>2. m.s \in Waiting => ~m.xmit.null
  <2>1. m.s \in Waiting => n.s \notin Sending
    BY DEF NodeStep, Moves, Fresh, Waiting, Sending, Joined
  <2> QED BY <2>1 DEF NodeStep, Transmits
<1>3. /\ m.tx \in 0..(7 * FctChars) /\ m.rx \in 0..(7 * FctChars) /\ ~m.ec
      /\ m.ask => m.rx <= 6 * FctChars
  <2>1. CASE Cleared(m)
    BY <2>1, ConstantsAreNumbers DEF Cleared
  <2>2. CASE n.s # "ErrorReset" /\ Counted(n, m, put)
    BY <2>2, CountedExactly DEF NodeStep
  <2> QED BY <2>1, <2>2 DEF NodeStep
<1>4. /\ m.s \in Waiting \cup {"Started"} => m.tx = 0 /\ m.rx = 0
      /\ m.s = "Connecting" => m.tx = 0
  <2>1. CASE Cleared(m)
    BY <2>1 DEF Cleared
  <2>2. CASE n.s # "ErrorReset" /\ Counted(n, m, put)
    <3>1. /\ m.s \in Waiting \cup {"Started"} =>
               n.s \in Waiting \cup {"Started"} /\ n.recv.got = "none"
          /\ m.s = "Connecting" =>
               n.s \in {"Started", "Connecting"} /\ n.recv.got = "none"
      BY <2>2 DEF NodeStep, Moves, Fresh, Counts, Waiting
    <3>2. /\ n.s \in Waiting \cup {"Started"} => put \notin Credits
          /\ n.s = "Connecting" => put # "data"
      BY DEF NodeStep, Transmits, Credits, Joined, Waiting, NodeInv, Registers
    <3> QED BY <2>2, <3>1, <3>2, ConstantsAreNumbers
            DEF Counted, NodeInv, Registers, Credits
  <2> QED BY <2>1, <2>2 DEF NodeStep
<1> QED BY <1>1, <1>2, <1>3, <1>4 DEF Registers

(* What a receiver notes, field by field. *)
LEMMA NextRecvFields ==
  ASSUME NEW r, NEW heard, NEW noise
  PROVE  /\ Noted(r, heard, noise).null <=> r.null \/ heard = "null"
         /\ Noted(r, heard, noise).bit <=> r.bit \/ heard # "silence"
         /\ Noted(r, heard, noise).err <=>
              r.err \/ noise \/ (r.bit /\ heard = "silence")
         /\ Noted(r, heard, noise).got =
              IF r.null /\ heard \in {"fct", "data"} /\ ~noise THEN heard ELSE "none"
<1> DEFINE x == [null |-> r.null \/ heard = "null",
                 bit  |-> r.bit \/ heard # "silence",
                 got  |-> IF r.null /\ heard \in {"fct", "data"} /\ ~noise
                          THEN heard ELSE "none",
                 err  |-> r.err \/ noise \/ (r.bit /\ heard = "silence")]
<1>1. Noted(r, heard, noise) = x
  BY Zenon DEF Noted, NextRecv
<1>2. x.got = IF r.null /\ heard \in {"fct", "data"} /\ ~noise THEN heard ELSE "none"
  OBVIOUS
<1>3. x.null <=> r.null \/ heard = "null"
  OBVIOUS
<1>4. x.bit <=> r.bit \/ heard # "silence"
  OBVIOUS
<1>5. x.err <=> r.err \/ noise \/ (r.bit /\ heard = "silence")
  OBVIOUS
<1> QED BY <1>1, <1>2, <1>3, <1>4, <1>5, Zenon

LEMMA ReceiverStep ==
  ASSUME NEW n, NEW m, NEW heard \in Token, NEW noise, NEW put,
         NodeInv(n), NodeStep(n, m, heard, noise, put)
  PROVE  Receiver(m)
<1> USE DEF NodeInv
<1>1. CASE m.recv = RecvOff /\ (Fresh(m) \/ n.s = "ErrorReset")
  <2>1. m.s \notin Joined
    BY <1>1 DEF NodeStep, Moves, Fresh, Joined
  <2> QED BY <1>1, <2>1 DEF Receiver, RecvOff
<1>2. CASE n.s # "ErrorReset" /\ m.recv = Noted(n.recv, heard, noise)
  <2>1. /\ m.recv.null <=> n.recv.null \/ heard = "null"
        /\ m.recv.bit <=> n.recv.bit \/ heard # "silence"
        /\ m.recv.err <=> n.recv.err \/ noise \/ (n.recv.bit /\ heard = "silence")
        /\ m.recv.got = IF n.recv.null /\ heard \in {"fct", "data"} /\ ~noise
                        THEN heard ELSE "none"
    BY <1>2, NextRecvFields
  <2>2. m.recv.got \in {"none", "fct", "data"} /\ (m.recv.null => m.recv.bit)
    BY <2>1 DEF Receiver
  <2>3. m.s \in Joined => m.recv.null
    <3>1. m.s \in Joined => n.recv.null
      BY <1>2 DEF NodeStep, Moves, Fresh, Joined, Receiver, Counts
    <3> QED BY <2>1, <3>1
  <2>4. m.s # "ErrorReset" /\ m.recv.err => m.recv.got = "none"
    <3>1. m.s # "ErrorReset" => ~n.recv.err
      BY <1>2 DEF NodeStep, Moves, Fresh
    <3> QED BY <2>1, <3>1
  <2>5. m.s \in Waiting => Quiet(m) > ResetTime + 1
    BY <1>2, ConstantsAreNumbers
       DEF NodeStep, Moves, Fresh, Waiting, Quiet, Counts, Registers
  <2> QED BY <2>2, <2>3, <2>4, <2>5, QuietStep, ConstantsAreNumbers
          DEF Receiver, Quiet, NodeStep
<1> QED BY <1>1, <1>2 DEF NodeStep, Receives

-----------------------------------------------------------------------------
(***************************************************************************)
(* The pipe: everything moves one place on, and what is cut becomes        *)
(* silence.                                                                *)
(***************************************************************************)
LEMMA PipeStep ==
  ASSUME NEW p \in Seq(Token), Len(p) = Delay, NEW u \in Token, NEW cut \in BOOLEAN,
         cut => Delay > 1
  PROVE  /\ NextPipe(p, u, cut) \in Seq(Token) /\ Len(NextPipe(p, u, cut)) = Delay
         /\ NextPipe(p, u, cut)[Delay] = u
         /\ \A i \in 1..(Delay - 1) :
              NextPipe(p, u, cut)[i] = IF cut /\ i = Delay - 1 THEN "silence" ELSE p[i + 1]
         /\ Head(p) = p[1] /\ p[1] \in Token
<1> USE ConstantsAreNumbers
<1>1. p \in Seq(Token) /\ Len(p) = Delay
  OBVIOUS
<1>2. Head(p) = p[1] /\ p[1] \in Token
  OBVIOUS
<1>3. CASE ~cut
  <2>1. /\ Tail(p) \in Seq(Token) /\ Len(Tail(p)) = Delay - 1
        /\ \A i \in 1..(Delay - 1) : Tail(p)[i] = p[i + 1]
    BY <1>1
  <2> HIDE <1>1
  <2>2. NextPipe(p, u, cut) = Append(Tail(p), u)
    BY <1>3 DEF NextPipe
  <2>3. /\ Append(Tail(p), u) \in Seq(Token) /\ Len(Append(Tail(p), u)) = Delay
        /\ \A i \in 1..(Delay - 1) : Append(Tail(p), u)[i] = Tail(p)[i]
        /\ Append(Tail(p), u)[Delay] = u
    BY <2>1
  <2> QED BY <1>2, <1>3, <2>1, <2>2, <2>3
<1>4. CASE cut
  <2> DEFINE q == SubSeq(p, 2, Delay - 1)
             r == Append(q, "silence")
  <2>1. /\ q \in Seq(Token) /\ Len(q) = Delay - 2
        /\ \A i \in 1..(Delay - 2) : q[i] = p[i + 1]
    BY <1>1, <1>4
  <2> HIDE DEF q
  <2>2. /\ r \in Seq(Token) /\ Len(r) = Delay - 1
        /\ \A i \in 1..(Delay - 2) : r[i] = q[i]
        /\ r[Delay - 1] = "silence"
    BY <1>4, <2>1 DEF Token
  <2> HIDE DEF r
  <2>3. /\ Append(r, u) \in Seq(Token) /\ Len(Append(r, u)) = Delay
        /\ \A i \in 1..(Delay - 1) : Append(r, u)[i] = r[i]
        /\ Append(r, u)[Delay] = u
    BY <2>2
  <2>4. NextPipe(p, u, cut) = Append(r, u)
    BY <1>4 DEF NextPipe, r, q
  <2>5. \A i \in 1..(Delay - 1) :
          Append(r, u)[i] = IF i = Delay - 1 THEN "silence" ELSE p[i + 1]
    BY <2>1, <2>2, <2>3
  <2> HIDE DEF r
  <2> QED BY <1>2, <1>4, <2>3, <2>4, <2>5
<1> QED BY <1>3, <1>4

(* The three facts of it, each to be cited on its own. *)
LEMMA PipeLast ==
  ASSUME NEW p \in Seq(Token), Len(p) = Delay, NEW u \in Token, NEW cut \in BOOLEAN,
         cut => Delay > 1
  PROVE  NextPipe(p, u, cut)[Delay] = u
BY PipeStep

LEMMA PipeMoves ==
  ASSUME NEW p \in Seq(Token), Len(p) = Delay, NEW u \in Token, NEW cut \in BOOLEAN,
         cut => Delay > 1
  PROVE  \A i \in 1..(Delay - 1) :
           NextPipe(p, u, cut)[i] = IF cut /\ i = Delay - 1 THEN "silence" ELSE p[i + 1]
<1> DEFINE p2 == NextPipe(p, u, cut)
<1>1. /\ p2[Delay] = u
      /\ \A i \in 1..(Delay - 1) :
           p2[i] = IF cut /\ i = Delay - 1 THEN "silence" ELSE p[i + 1]
  BY PipeStep, ConstantsAreNumbers
<1> QED BY <1>1, Zenon

LEMMA PipeShape ==
  ASSUME NEW p \in Seq(Token), Len(p) = Delay, NEW u \in Token, NEW cut \in BOOLEAN,
         cut => Delay > 1
  PROVE  NextPipe(p, u, cut) \in Seq(Token) /\ Len(NextPipe(p, u, cut)) = Delay
BY PipeStep

(* How often a token is on its way. *)
Count(t, p) == Cardinality({i \in 1..Delay : p[i] = t})

LEMMA CountStep ==
  ASSUME NEW p \in Seq(Token), Len(p) = Delay, NEW u \in Token, NEW cut \in BOOLEAN,
         cut => Delay > 1 /\ u = "silence", NEW t \in Credits
  PROVE  /\ Count(t, p) \in Nat /\ Count(t, NextPipe(p, u, cut)) \in Nat
         /\ Count(t, NextPipe(p, u, cut)) <= Count(t, p) + Has(u, t) - Has(p[1], t)
         /\ ~cut => Count(t, NextPipe(p, u, cut)) = Count(t, p) + Has(u, t) - Has(p[1], t)
<1> USE ConstantsAreNumbers
<1> DEFINE p2   == NextPipe(p, u, cut)
           rest == {i \in 2..Delay : p[i] = t}
           kept == {i \in 1..(Delay - 1) : p2[i] = t}
<1>1. /\ p2[Delay] = u
      /\ \A i \in 1..(Delay - 1) :
           p2[i] = IF cut /\ i = Delay - 1 THEN "silence" ELSE p[i + 1]
  BY PipeStep
<1> HIDE DEF p2
<1>2. /\ IsFiniteSet(rest) /\ IsFiniteSet(kept)
      /\ Cardinality(rest) \in Nat /\ Cardinality(kept) \in Nat
  <2>1. IsFiniteSet(1..Delay)
    BY FS_Interval
  <2>2. rest \subseteq 1..Delay /\ kept \subseteq 1..Delay
    OBVIOUS
  <2> QED BY <2>1, <2>2, FS_Subset, FS_CardinalityType
<1> HIDE DEF rest, kept
<1>3. Count(t, p) = Cardinality(rest) + Has(p[1], t)
  <2>1. CASE p[1] = t
    <3>1. {i \in 1..Delay : p[i] = t} = rest \cup {1} /\ 1 \notin rest
      BY <2>1 DEF rest
    <3> QED BY <1>2, <2>1, <3>1, FS_AddElement DEF Count, Has
  <2>2. CASE p[1] # t
    <3>1. {i \in 1..Delay : p[i] = t} = rest
      BY <2>2 DEF rest
    <3>2. Count(t, p) = Cardinality(rest)
      BY <3>1, Zenon DEF Count
    <3> QED BY <1>2, <2>2, <3>2 DEF Has
  <2> QED BY <2>1, <2>2
<1>4. Count(t, p2) = Cardinality(kept) + Has(u, t)
  <2>1. CASE u = t
    <3>1. {i \in 1..Delay : p2[i] = t} = kept \cup {Delay} /\ Delay \notin kept
      BY <1>1, <2>1 DEF kept
    <3> QED BY <1>2, <2>1, <3>1, FS_AddElement DEF Count, Has
  <2>2. CASE u # t
    <3>1. {i \in 1..Delay : p2[i] = t} = kept
      BY <1>1, <2>2 DEF kept
    <3>2. Count(t, p2) = Cardinality(kept)
      BY <3>1, Zenon DEF Count
    <3> QED BY <1>2, <2>2, <3>2 DEF Has
  <2> QED BY <2>1, <2>2
<1> DEFINE f == [i \in kept |-> i + 1]
<1>5. \A i \in kept : i \in Int /\ i + 1 \in rest
  BY <1>1 DEF kept, rest, Credits
<1>6. f \in Injection(kept, rest)
  <2>1. f \in [kept -> rest]
    BY <1>5
  <2>2. \A i, j \in kept : f[i] = f[j] => i = j
    BY <1>5
  <2> HIDE DEF f
  <2> QED BY <2>1, <2>2 DEF Injection, IsInjective
<1>7. /\ Cardinality(kept) <= Cardinality(rest)
      /\ Cardinality(kept) = Cardinality(rest) <=> f \in Surjection(kept, rest)
  BY <1>2, <1>6, FS_Injection
<1>8. ASSUME ~cut
      PROVE  Cardinality(kept) = Cardinality(rest)
  <2>1. \A j \in rest : j - 1 \in kept /\ f[j - 1] = j
    BY <1>1, <1>8 DEF kept, rest
  <2> HIDE DEF f
  <2>2. f \in Surjection(kept, rest)
    BY <1>6, <2>1 DEF Surjection, Injection
  <2> QED BY <1>7, <2>2
<1> QED BY <1>2, <1>3, <1>4, <1>7, <1>8 DEF p2, Has

-----------------------------------------------------------------------------
(***************************************************************************)
(* One direction: a sends u into p, b takes what comes out; a listens to   *)
(* b over q.                                                               *)
(***************************************************************************)
Passes(a, a2, b, b2, p, q, u, v, na, nb, cut) ==
  /\ NodeInv(a) /\ NodeInv(b) /\ Direction(a, p, b) /\ Direction(b, q, a)
  /\ NodeStep(a, a2, q[1], na, u) /\ NodeStep(b, b2, p[1], nb, v)
  /\ cut \in BOOLEAN /\ (cut => Delay > 1 /\ u = "silence" /\ p[Delay] # "silence")

(* What a receiver has heard after the clock. *)
LEMMA Hears ==
  ASSUME NEW n, NEW m, NEW heard, NEW noise, NEW put,
         Receiver(n), NodeStep(n, m, heard, noise, put)
  PROVE  /\ m.recv.bit => n.s # "ErrorReset" /\ (n.recv.bit \/ heard # "silence")
         /\ m.recv.bit /\ ~m.recv.err => heard # "silence" /\ ~n.recv.err
         /\ m.recv.null => n.recv.null \/ heard = "null"
         /\ m.recv.got # "none" =>
              n.s # "ErrorReset" /\ n.recv.null /\ m.recv.got = heard /\ heard \in Credits
         /\ n.s # "ErrorReset" /\ m.s # "ErrorReset" =>
              /\ ~n.recv.err
              /\ n.recv.null \/ heard = "null" => m.recv.null
              /\ heard \in Credits /\ n.recv.null /\ ~m.recv.err => m.recv.got = heard
<1>1. CASE m.recv = RecvOff /\ (Fresh(m) \/ n.s = "ErrorReset")
  BY <1>1 DEF RecvOff, Fresh
<1>2. CASE n.s # "ErrorReset" /\ m.recv = Noted(n.recv, heard, noise)
  <2>1. n.s # "ErrorReset" /\ m.s # "ErrorReset" => ~n.recv.err
    BY DEF NodeStep, Moves, Fresh
  <2>2. /\ m.recv.null <=> n.recv.null \/ heard = "null"
        /\ m.recv.bit <=> n.recv.bit \/ heard # "silence"
        /\ m.recv.err <=> n.recv.err \/ noise \/ (n.recv.bit /\ heard = "silence")
        /\ m.recv.got = IF n.recv.null /\ heard \in {"fct", "data"} /\ ~noise
                        THEN heard ELSE "none"
    BY <1>2, NextRecvFields
  <2> QED BY <1>2, <2>1, <2>2 DEF Credits, Receiver
<1> QED BY <1>1, <1>2 DEF NodeStep, Receives

(* A side that is connected hears the other one, which has not been silent. *)
LEMMA JoinedHears ==
  ASSUME NEW a, NEW b, NEW q, NodeInv(a), NodeInv(b), Heard(b, q, a), a.s \in Joined
  PROVE  /\ Quiet(b) <= Delay + 1
         /\ ~a.recv.err => Quiet(b) <= Delay
         /\ b.s \notin Waiting
<1>1. a.recv.bit /\ a.s # "ErrorReset"
  BY DEF NodeInv, Receiver, Joined
<1> QED BY <1>1, QuietRange, ConstantsAreNumbers DEF Heard, NodeInv

LEMMA PassPipe ==
  ASSUME NEW a, NEW a2, NEW b, NEW b2, NEW p, NEW q, NEW u, NEW v, NEW na, NEW nb, NEW cut,
         Passes(a, a2, b, b2, p, q, u, v, na, nb, cut)
  PROVE  /\ NextPipe(p, u, cut) \in Seq(Token) /\ Len(NextPipe(p, u, cut)) = Delay
         /\ NextPipe(p, u, cut)[Delay] = u
         /\ \A i \in 1..(Delay - 1) :
              NextPipe(p, u, cut)[i] = IF cut /\ i = Delay - 1 THEN "silence" ELSE p[i + 1]
<1>1. /\ p \in Seq(Token) /\ Len(p) = Delay /\ u \in Token /\ cut \in BOOLEAN
      /\ cut => Delay > 1
  BY DEF Passes, Direction, Stretch, NodeStep, Transmits
<1> QED BY <1>1, PipeShape, PipeLast, PipeMoves

LEMMA StretchStep ==
  ASSUME NEW a, NEW a2, NEW b, NEW b2, NEW p, NEW q, NEW u, NEW v, NEW na, NEW nb, NEW cut,
         Passes(a, a2, b, b2, p, q, u, v, na, nb, cut)
  PROVE  Stretch(a2, NextPipe(p, u, cut))
<1> DEFINE p2 == NextPipe(p, u, cut)
<1> USE ConstantsAreNumbers
<1>1. /\ Registers(a) /\ Moves(a, a2) /\ Transmits(a, a2, u) /\ Stretch(a, p)
      /\ cut => u = "silence"
  BY DEF Passes, NodeInv, Direction, NodeStep
<1>2. /\ p2 \in Seq(Token) /\ Len(p2) = Delay /\ p2[Delay] = u
      /\ \A i \in 1..(Delay - 1) :
           p2[i] = IF cut /\ i = Delay - 1 THEN "silence" ELSE p[i + 1]
  BY PassPipe
<1> HIDE DEF p2
<1>3. ASSUME NEW i \in 1..Delay, i > Delay - Quiet(a2)
      PROVE  p2[i] = "silence"
  <2>1. a.s \notin Sending /\ Quiet(a2) <= Quiet(a) + 1
    BY <1>1, <1>3, QuietStep, QuietRange DEF Registers, Quiet, Sending, Joined, Waiting, PairState
  <2>2. u = "silence"
    BY <1>1, <2>1 DEF Transmits
  <2>3. CASE i = Delay
    BY <1>2, <2>2, <2>3
  <2>4. CASE i < Delay
    <3>1. i + 1 \in 1..Delay /\ i + 1 > Delay - Quiet(a)
      BY <1>1, <1>3, <2>1, <2>4, QuietStep, QuietRange
    <3> QED BY <1>1, <1>2, <2>4, <3>1 DEF Stretch
  <2> QED BY <2>3, <2>4
<1>4. ASSUME a2.s \in Sending, NEW i \in 1..(Delay - 1), p2[i] # "silence"
      PROVE  p2[i + 1] # "silence"
  <2>1. p[i + 1] # "silence"
    BY <1>2, <1>4
  <2>2. a.s \in Sending /\ a2.s # "ErrorReset"
    <3>1. a.s \in Sending \/ a.s = "Ready"
      BY <1>1, <1>4 DEF Moves, Fresh, Counts, Sending, Joined
    <3>2. a.s = "Ready" => Quiet(a) > Delay
      BY <1>1, QuietRange
    <3>3. i + 1 \in 1..Delay
      OBVIOUS
    <3> QED BY <1>1, <1>4, <2>1, <3>1, <3>2, <3>3, QuietRange DEF Stretch, Sending, Joined
  <2>3. u # "silence" /\ ~cut
    BY <1>1, <2>2 DEF Transmits, Fresh
  <2>4. CASE i = Delay - 1
    BY <1>2, <2>3, <2>4
  <2>5. CASE i < Delay - 1
    <3>1. i + 1 \in 1..(Delay - 1) /\ p[(i + 1) + 1] # "silence"
      BY <1>1, <2>1, <2>2, <2>5 DEF Stretch
    <3> QED BY <1>2, <2>3, <3>1
  <2> QED BY <2>4, <2>5
<1>5. ASSUME a2.s = "Started", NEW i \in 1..Delay
      PROVE  p2[i] \notin Credits
  <2>1. a.s \in {"Ready", "Started"}
    BY <1>1, <1>5 DEF Moves, Fresh, Counts
  <2>2. u \notin Credits
    BY <1>1, <2>1 DEF Transmits, Joined
  <2>3. \A j \in 1..Delay : p[j] \notin Credits
    <3>1. a.s = "Ready" => Quiet(a) > Delay
      BY <1>1, QuietRange
    <3> QED BY <1>1, <2>1, <3>1, QuietRange DEF Stretch, Credits
  <2>4. CASE i = Delay
    BY <1>2, <2>2, <2>4
  <2>5. CASE i < Delay
    <3>1. i \in 1..(Delay - 1) /\ i + 1 \in 1..Delay
      BY <2>5
    <3> QED BY <1>2, <2>3, <3>1 DEF Credits
  <2> QED BY <2>4, <2>5
<1> QED BY <1>2, <1>3, <1>4, <1>5 DEF Stretch, p2

LEMMA HeardStep ==
  ASSUME NEW a, NEW a2, NEW b, NEW b2, NEW p, NEW q, NEW u, NEW v, NEW na, NEW nb, NEW cut,
         Passes(a, a2, b, b2, p, q, u, v, na, nb, cut)
  PROVE  Heard(a2, NextPipe(p, u, cut), b2) /\ Deaf(b2)
<1> DEFINE p2 == NextPipe(p, u, cut)
<1> USE ConstantsAreNumbers
<1>1. /\ Registers(a) /\ Moves(a, a2) /\ Transmits(a, a2, u) /\ Stretch(a, p)
      /\ NodeInv(b) /\ NodeStep(b, b2, p[1], nb, v) /\ Moves(b, b2)
      /\ Heard(a, p, b) /\ Flushed(p, b)
      /\ cut => u = "silence"
  BY DEF Passes, NodeInv, Direction, NodeStep
<1>2. /\ p2[Delay] = u
      /\ \A i \in 1..(Delay - 1) :
           p2[i] = IF cut /\ i = Delay - 1 THEN "silence" ELSE p[i + 1]
  BY PassPipe
<1> HIDE DEF p2
<1>3. /\ b2.recv.bit => b.s # "ErrorReset" /\ (b.recv.bit \/ p[1] # "silence")
      /\ b2.recv.bit /\ ~b2.recv.err => p[1] # "silence" /\ ~b.recv.err
      /\ b2.s # "ErrorReset" /\ b.s # "ErrorReset" => ~b.recv.err
      /\ b2.recv.got # "none" =>
           b.s # "ErrorReset" /\ b.recv.null /\ b2.recv.got = p[1] /\ p[1] \in Credits
  BY <1>1, Hears DEF NodeInv
<1>4. /\ Quiet(a) \in Nat /\ Quiet(a2) \in Nat
      /\ a.s \notin Sending => Quiet(a2) <= Quiet(a) + 1
      /\ a.s \in Sending => Quiet(a2) = 0 /\ Quiet(a) = 0
      /\ p[1] # "silence" => Quiet(a) <= Delay - 1
  <2>1. Quiet(a2) <= Quiet(a) + 1 \/ a.s \in Sending
    BY <1>1, QuietStep
  <2>2. a.s \in Sending => Quiet(a2) = 0 /\ Quiet(a) = 0
    <3>1. a.s \in Sending => a2.s \in Sending \/ Fresh(a2)
      BY <1>1, QuietStep
    <3> QED BY <1>1, <3>1, QuietRange, QuietStep
            DEF Quiet, Sending, Joined, Waiting
  <2>3. p[1] # "silence" => Quiet(a) <= Delay - 1
    BY <1>1, QuietRange DEF Stretch
  <2> QED BY <1>1, <2>1, <2>2, <2>3, QuietRange, QuietStep
<1>5. /\ b2.recv.bit => Quiet(a2) <= Delay + 2
      /\ b2.recv.bit /\ b2.s # "ErrorReset" => Quiet(a2) <= Delay + 1
      /\ b2.recv.bit /\ b2.s # "ErrorReset" /\ ~b2.recv.err => Quiet(a2) <= Delay
  BY <1>1, <1>3, <1>4 DEF Heard
<1>6. ASSUME b2.recv.bit, ~b2.recv.err, a2.s \in Sending
      PROVE  p2[1] # "silence"
  <2>1. p[1] # "silence"
    BY <1>3, <1>6
  <2>2. a.s \in Sending
    <3>1. a.s \in Sending \/ a.s = "Ready"
      BY <1>1, <1>6 DEF Moves, Fresh, Counts, Sending, Joined
    <3> QED BY <1>1, <1>4, <2>1, <3>1, QuietRange
  <2>3. u # "silence" /\ ~cut
    BY <1>1, <1>6, <2>2 DEF Transmits, Fresh, Sending, Joined
  <2>4. CASE Delay = 1
    BY <1>2, <2>3, <2>4
  <2>5. CASE Delay > 1
    <3>1. 1 \in 1..(Delay - 1)
      BY <2>5
    <3>2. p2[1] = p[1 + 1] /\ p[1 + 1] # "silence"
      BY <1>1, <1>2, <2>1, <2>2, <2>3, <3>1 DEF Stretch
    <3> QED BY <3>2
  <2> QED BY <2>4, <2>5
<1>7. b2.s \in Waiting => b2.recv.got = "none"
  <2> SUFFICES ASSUME b2.s \in Waiting, b2.recv.got # "none" PROVE FALSE
    OBVIOUS
  <2>1. b.s \in Waiting /\ b.recv.null /\ p[1] \in Credits
    BY <1>1, <1>3 DEF Moves, Fresh, Counts, Waiting
  <2>2. Quiet(b) > ResetTime + 1
    BY <1>1, <2>1, QuietRange DEF NodeInv, Receiver
  <2>3. 1 <= 2 * Delay + 2 - Quiet(b)
    BY <1>1, <2>1 DEF Flushed, Waiting, Sending, Joined
  <2> QED BY <1>1, <2>2, <2>3, QuietRange DEF NodeInv
<1> QED BY <1>5, <1>6, <1>7 DEF Heard, Deaf, p2

LEMMA FlushedStep ==
  ASSUME NEW a, NEW a2, NEW b, NEW b2, NEW p, NEW q, NEW u, NEW v, NEW na, NEW nb, NEW cut,
         Passes(a, a2, b, b2, p, q, u, v, na, nb, cut)
  PROVE  Flushed(NextPipe(p, u, cut), b2)
<1> DEFINE p2 == NextPipe(p, u, cut)
<1> USE ConstantsAreNumbers
<1>1. /\ NodeInv(a) /\ Transmits(a, a2, u) /\ Stretch(a, p) /\ Heard(b, q, a)
      /\ NodeInv(b) /\ Registers(b) /\ Moves(b, b2) /\ Flushed(p, b)
  BY DEF Passes, NodeInv, Direction, NodeStep
<1>2. /\ p2[Delay] = u
      /\ \A i \in 1..(Delay - 1) :
           p2[i] = IF cut /\ i = Delay - 1 THEN "silence" ELSE p[i + 1]
  BY PassPipe
<1> HIDE DEF p2
<1> SUFFICES ASSUME b2.s \notin Sending, NEW i \in 1..Delay, p2[i] \in Credits
             PROVE  i <= 2 * Delay + 2 - Quiet(b2)
  BY DEF Flushed, p2
<1>3. CASE b.s \in Sending
  BY <1>1, <1>3, QuietStep
<1>4. CASE b.s \notin Sending
  <2>1. Quiet(b2) <= Quiet(b) + 1 /\ Quiet(b) \in Nat /\ Quiet(b2) \in Nat
    BY <1>1, <1>4, QuietStep, QuietRange
  <2>2. CASE i = Delay
    <3>1. a.s \in Joined
      BY <1>1, <1>2, <2>2 DEF Transmits
    <3>2. Quiet(b) <= Delay + 1
      BY <1>1, <3>1, JoinedHears
    <3> QED BY <2>1, <2>2, <3>2, QuietStep, <1>1 DEF Quiet
  <2>3. CASE i < Delay
    <3>1. i + 1 \in 1..Delay /\ p[i + 1] \in Credits
      BY <1>2, <2>3 DEF Credits
    <3>2. i + 1 <= 2 * Delay + 2 - Quiet(b)
      BY <1>1, <1>4, <3>1 DEF Flushed
    <3> QED BY <2>1, <3>2
  <2> QED BY <2>2, <2>3
<1> QED BY <1>3, <1>4

(* When the second of the two leaves ErrorReset, nothing of the connection *)
(* before is left: neither side is connected, and no credit is on its way. *)
LEMMA NothingStale ==
  ASSUME NEW a, NEW a2, NEW b, NEW b2, NEW p, NEW q, NEW u, NEW v, NEW na, NEW nb, NEW cut,
         Passes(a, a2, b, b2, p, q, u, v, na, nb, cut),
         a.s = "ErrorReset" \/ b.s = "ErrorReset", a2.s # "ErrorReset", b2.s # "ErrorReset"
  PROVE  /\ a2.s \notin Joined
         /\ \A i \in 1..Delay : NextPipe(p, u, cut)[i] \notin Credits
         /\ b2.recv.got = "none"
<1> DEFINE p2 == NextPipe(p, u, cut)
<1> USE ConstantsAreNumbers
<1>1. /\ Registers(a) /\ Moves(a, a2) /\ Stretch(a, p) /\ Heard(b, q, a) /\ Receiver(a)
      /\ NodeInv(b) /\ NodeStep(b, b2, p[1], nb, v) /\ Moves(b, b2)
  BY DEF Passes, NodeInv, Direction, NodeStep
<1>2. Stretch(a2, p2)
  BY StretchStep
<1> HIDE DEF p2
<1>3. /\ a.s = "ErrorReset" => a2.s = "ErrorWait" /\ Quiet(a) = ResetTime
      /\ b.s = "ErrorReset" => b2.s = "ErrorWait" /\ Quiet(b) = ResetTime
  BY <1>1 DEF Moves, Fresh, Quiet
<1>4. a2.s \notin Joined
  <2> SUFFICES ASSUME a2.s \in Joined PROVE FALSE
    OBVIOUS
  <2>1. b.s = "ErrorReset" /\ Quiet(b) = ResetTime
    BY <1>3 DEF Joined
  <2>2. a.recv.bit /\ ~a.recv.err /\ a.s # "ErrorReset"
    BY <1>1 DEF Moves, Fresh, Counts, Joined, Receiver
  <2>3. Quiet(b) <= Delay
    BY <1>1, <2>2 DEF Heard
  <2> QED BY <2>1, <2>3
<1>5. ASSUME NEW i \in 1..Delay
      PROVE  p2[i] \notin Credits
  <2>1. CASE a2.s = "Started"
    BY <1>2, <2>1 DEF Stretch
  <2>2. CASE a2.s \in Waiting
    <3>1. /\ a2.s \in {"ErrorReset", "ErrorWait"} => a2.cnt \in 0..ResetTime
          /\ Quiet(a2) \in Nat
      BY <1>1, QuietStep
    <3>2. Quiet(a2) >= ResetTime + 1
      BY <2>2, <3>1 DEF Quiet, Waiting
    <3>3. i > Delay - Quiet(a2)
      BY <3>1, <3>2
    <3> QED BY <1>2, <3>3 DEF Stretch, Credits
  <2>3. a2.s \in PairState
    BY <1>1, QuietStep
  <2> QED BY <1>4, <2>1, <2>2, <2>3 DEF PairState, Sending
<1>6. b2.recv.got = "none"
  <2> SUFFICES ASSUME b2.recv.got # "none" PROVE FALSE
    OBVIOUS
  <2>1. b.s # "ErrorReset" /\ p[1] \in Credits
    BY <1>1, Hears DEF NodeInv
  <2>2. Quiet(a) = ResetTime
    BY <1>3, <2>1
  <2>3. p[1] = "silence"
    BY <1>1, <2>2 DEF Stretch
  <2> QED BY <2>1, <2>3 DEF Credits
<1> QED BY <1>4, <1>5, <1>6 DEF p2

LEMMA NullFirstStep ==
  ASSUME NEW a, NEW a2, NEW b, NEW b2, NEW p, NEW q, NEW u, NEW v, NEW na, NEW nb, NEW cut,
         Passes(a, a2, b, b2, p, q, u, v, na, nb, cut)
  PROVE  NullFirst(a2, NextPipe(p, u, cut), b2)
<1> DEFINE p2 == NextPipe(p, u, cut)
<1> USE ConstantsAreNumbers
<1> SUFFICES ASSUME b2.s # "ErrorReset", ~b2.recv.err, ~b2.recv.null
             PROVE  /\ a2.s \in Sending /\ a2.xmit.null => \E j \in 1..Delay : p2[j] = "null"
                    /\ a2.s # "ErrorReset" =>
                         \A i \in 1..Delay : p2[i] \in Credits =>
                           \E j \in 1..(i - 1) : p2[j] = "null"
  BY DEF NullFirst
<1>1. /\ Registers(a) /\ Moves(a, a2) /\ Transmits(a, a2, u) /\ NullFirst(a, p, b)
      /\ Receiver(b) /\ NodeStep(b, b2, p[1], nb, v)
      /\ cut => u = "silence"
  BY DEF Passes, NodeInv, Direction, NodeStep
<1>2. /\ p2[Delay] = u
      /\ \A i \in 1..(Delay - 1) :
           p2[i] = IF cut /\ i = Delay - 1 THEN "silence" ELSE p[i + 1]
  BY PassPipe
<1>3. ASSUME a.s = "ErrorReset" \/ b.s = "ErrorReset", a2.s # "ErrorReset"
      PROVE  (\A i \in 1..Delay : p2[i] \notin Credits) /\ a2.s \notin Joined
  BY <1>3, NothingStale
<1> HIDE DEF p2
<1>4. CASE a.s = "ErrorReset" \/ b.s = "ErrorReset"
  <2>1. a2.s \in Sending /\ a2.xmit.null => u = "null"
    <3>1. a2.s = "Started" => a.s \notin Joined
      BY <1>1 DEF Moves, Fresh, Counts, Joined
    <3>2. a2.s \in Sending => a2.s = "Started"
      BY <1>3, <1>4 DEF Sending, Joined
    <3> QED BY <1>1, <1>4, <3>1, <3>2 DEF Transmits, Token, Credits, Sending, Joined
  <2>2. Delay \in 1..Delay
    OBVIOUS
  <2> QED BY <1>2, <1>3, <1>4, <2>1, <2>2
<1>5. CASE a.s # "ErrorReset" /\ b.s # "ErrorReset"
  <2>1. ~b.recv.err /\ ~b.recv.null /\ p[1] # "null"
    BY <1>1, <1>5, Hears
  <2>2. ASSUME NEW j \in 1..Delay, p[j] = "null", cut => j < Delay
        PROVE  j - 1 \in 1..(Delay - 1) /\ p2[j - 1] = "null"
    <3>1. j - 1 \in 1..(Delay - 1) /\ (j - 1) + 1 = j
      BY <2>1, <2>2
    <3> QED BY <1>2, <2>2, <3>1
  <2>3. ASSUME u # "silence", a.s \in Sending, a.xmit.null
        PROVE  \E j \in 1..(Delay - 1) : p2[j] = "null"
    <3>1. PICK j \in 1..Delay : p[j] = "null"
      BY <1>1, <1>5, <2>1, <2>3 DEF NullFirst
    <3> QED BY <1>1, <2>2, <2>3, <3>1
  <2>4. ASSUME a2.s \in Sending, a2.xmit.null
        PROVE  \E j \in 1..Delay : p2[j] = "null"
    <3>1. u = "null" \/ (u # "silence" /\ a.xmit.null)
      BY <1>1, <2>4 DEF Transmits
    <3>2. CASE u = "null"
      BY <1>2, <3>2
    <3>3. CASE u # "silence" /\ a.xmit.null
      BY <1>1, <2>3, <3>3 DEF Transmits
    <3> QED BY <3>1, <3>2, <3>3
  <2>5. ASSUME NEW i \in 1..Delay, p2[i] \in Credits
        PROVE  \E j \in 1..(i - 1) : p2[j] = "null"
    <3>1. CASE i = Delay
      <4>1. u # "silence" /\ a.s \in Sending /\ a.xmit.null
        BY <1>1, <1>2, <2>5, <3>1 DEF Transmits, Credits, Sending
      <4> QED BY <2>3, <3>1, <4>1
    <3>2. CASE i < Delay
      <4>1. i + 1 \in 1..Delay /\ p[i + 1] \in Credits
        BY <1>2, <2>5, <3>2 DEF Credits
      <4>2. PICK j \in 1..i : p[j] = "null"
        BY <1>1, <1>5, <2>1, <4>1 DEF NullFirst
      <4>3. j - 1 \in 1..(i - 1) /\ p2[j - 1] = "null"
        BY <2>2, <3>2, <4>2
      <4> QED BY <4>3
    <3> QED BY <3>1, <3>2
  <2> QED BY <2>4, <2>5
<1> QED BY <1>4, <1>5

-----------------------------------------------------------------------------
(***************************************************************************)
(* The tokens of a kind that are on their way from a to b.                 *)
(***************************************************************************)
LEMMA Ways ==
  ASSUME NEW p \in Seq(Token), Len(p) = Delay, NEW r, NEW t \in Credits
  PROVE  /\ OnItsWay(t, p, r) = Count(t, p) + Has(r.got, t)
         /\ OnItsWay(t, p, r) \in Nat
         /\ OnItsWay(t, p, r) >= Has(r.got, t)
         /\ Has(r.got, t) \in {0, 1}
<1>1. OnItsWay(t, p, r) = Count(t, p) + Has(r.got, t)
  BY DEF OnItsWay, Count, Has
<1>2. Count(t, p) \in Nat
  BY CountStep DEF Token
<1>3. Has(r.got, t) \in {0, 1}
  BY DEF Has
<1> QED BY <1>1, <1>2, <1>3

(* What the clock makes of them; nothing is lost while there is no error. *)
LEMMA WayStep ==
  ASSUME NEW a, NEW a2, NEW b, NEW b2, NEW p, NEW q, NEW u, NEW v, NEW na, NEW nb, NEW cut,
         Passes(a, a2, b, b2, p, q, u, v, na, nb, cut), NEW t \in Credits
  PROVE  /\ OnItsWay(t, NextPipe(p, u, cut), b2.recv) + Has(b.recv.got, t)
              <= OnItsWay(t, p, b.recv) + Has(u, t)
         /\ /\ a.s # "ErrorReset" /\ a2.s # "ErrorReset"
            /\ b.s # "ErrorReset" /\ b2.s # "ErrorReset" /\ ~b2.recv.err
            => OnItsWay(t, NextPipe(p, u, cut), b2.recv) + Has(b.recv.got, t)
                 = OnItsWay(t, p, b.recv) + Has(u, t)
<1> DEFINE p2 == NextPipe(p, u, cut)
<1> USE ConstantsAreNumbers
<1>1. /\ Registers(a) /\ Moves(a, a2) /\ Transmits(a, a2, u) /\ Stretch(a, p)
      /\ NullFirst(a, p, b) /\ Receiver(b) /\ NodeStep(b, b2, p[1], nb, v)
      /\ p \in Seq(Token) /\ Len(p) = Delay /\ u \in Token
      /\ cut \in BOOLEAN /\ (cut => Delay > 1 /\ u = "silence" /\ p[Delay] # "silence")
  BY DEF Passes, NodeInv, Direction, NodeStep, Stretch, Transmits
<1>2. p2 \in Seq(Token) /\ Len(p2) = Delay
  BY PassPipe
<1>3. /\ Count(t, p) \in Nat /\ Count(t, p2) \in Nat
      /\ Count(t, p2) <= Count(t, p) + Has(u, t) - Has(p[1], t)
      /\ ~cut => Count(t, p2) = Count(t, p) + Has(u, t) - Has(p[1], t)
  BY <1>1, CountStep
<1> HIDE DEF p2
<1>4. /\ OnItsWay(t, p, b.recv) = Count(t, p) + Has(b.recv.got, t)
      /\ OnItsWay(t, p2, b2.recv) = Count(t, p2) + Has(b2.recv.got, t)
      /\ Has(b.recv.got, t) \in {0, 1} /\ Has(b2.recv.got, t) \in {0, 1}
      /\ Has(u, t) \in {0, 1} /\ Has(p[1], t) \in {0, 1}
  <2>1. OnItsWay(t, p, b.recv) = Count(t, p) + Has(b.recv.got, t)
    BY <1>1, Ways
  <2>2. OnItsWay(t, p2, b2.recv) = Count(t, p2) + Has(b2.recv.got, t)
    BY <1>2, Ways
  <2> QED BY <2>1, <2>2 DEF Has
<1>5. Has(b2.recv.got, t) <= Has(p[1], t)
  BY <1>1, Hears DEF Has, Credits
<1>6. ASSUME a.s # "ErrorReset", a2.s # "ErrorReset",
             b.s # "ErrorReset", b2.s # "ErrorReset", ~b2.recv.err
      PROVE  Has(b2.recv.got, t) = Has(p[1], t) /\ ~cut
  <2>1. p[1] \in Credits => b.recv.null
    <3>1. ~b.recv.err
      BY <1>1, <1>6, Hears
    <3>2. 1 \in 1..Delay /\ ~ \E j \in 1..(1 - 1) : p[j] = "null"
      OBVIOUS
    <3> QED BY <1>1, <1>6, <3>1, <3>2 DEF NullFirst
  <2>2. p[1] = t => b2.recv.got = t
    BY <1>1, <1>6, <2>1, Hears
  <2>3. ~cut
    <3>1. a.s \notin Sending => Quiet(a) > Delay
      BY <1>1, <1>6, QuietRange DEF Registers, PairState
    <3>2. a.s \notin Sending => p[Delay] = "silence"
      BY <1>1, <3>1, QuietRange DEF Stretch
    <3>3. a.s \in Sending => u # "silence"
      BY <1>1, <1>6 DEF Transmits, Fresh
    <3> QED BY <1>1, <3>2, <3>3
  <2> QED BY <1>5, <2>2, <2>3, <1>4 DEF Has
<1>7. OnItsWay(t, p2, b2.recv) + Has(b.recv.got, t) <= OnItsWay(t, p, b.recv) + Has(u, t)
  BY <1>3, <1>4, <1>5
<1>8. ASSUME a.s # "ErrorReset", a2.s # "ErrorReset",
             b.s # "ErrorReset", b2.s # "ErrorReset", ~b2.recv.err
      PROVE  OnItsWay(t, p2, b2.recv) + Has(b.recv.got, t) = OnItsWay(t, p, b.recv) + Has(u, t)
  BY <1>3, <1>4, <1>6, <1>8
<1> QED BY <1>7, <1>8 DEF p2

LEMMA NothingOnItsWay ==
  ASSUME NEW p, NEW r, NEW t \in Credits, \A i \in 1..Delay : p[i] \notin Credits,
         r.got = "none"
  PROVE  OnItsWay(t, p, r) = 0
<1>1. {i \in 1..Delay : p[i] = t} = {}
  OBVIOUS
<1>2. Cardinality({i \in 1..Delay : p[i] = t}) = 0
  BY <1>1, FS_EmptySet
<1>3. r.got # t
  BY DEF Credits
<1> QED BY <1>2, <1>3 DEF OnItsWay

(* To a side that is about to start nothing is on its way. *)
LEMMA NothingForReady ==
  ASSUME NEW a, NEW a2, NEW b, NEW b2, NEW p, NEW q, NEW u, NEW v, NEW na, NEW nb, NEW cut,
         Passes(a, a2, b, b2, p, q, u, v, na, nb, cut), b.s = "Ready", NEW t \in Credits
  PROVE  OnItsWay(t, p, b.recv) = 0 /\ Has(u, t) = 0
<1> USE ConstantsAreNumbers
<1>1. /\ NodeInv(a) /\ NodeInv(b) /\ Registers(b) /\ Flushed(p, b) /\ Deaf(b) /\ Heard(b, q, a)
      /\ Transmits(a, a2, u)
  BY DEF Passes, NodeInv, Direction, NodeStep
<1>2. \A i \in 1..Delay : p[i] \notin Credits
  <2>1. Quiet(b) = 2 * ResetTime + 2
    BY <1>1, QuietRange
  <2> QED BY <1>1, <2>1 DEF Flushed, Sending, Joined
<1>3. b.recv.got = "none"
  BY <1>1 DEF Deaf, Waiting
<1>4. u \notin Credits
  <2>1. a.s \notin Joined
    BY <1>1, JoinedHears DEF Waiting
  <2> QED BY <1>1, <2>1 DEF Transmits
<1>5. OnItsWay(t, p, b.recv) = 0
  BY <1>2, <1>3, NothingOnItsWay
<1> QED BY <1>4, <1>5 DEF Has

-----------------------------------------------------------------------------
(***************************************************************************)
(* A clock of both sides; v goes from b into q, as u from a into p.        *)
(***************************************************************************)
Exchange(a, a2, b, b2, p, q, u, v, na, nb, cut, cutq) ==
  /\ Passes(a, a2, b, b2, p, q, u, v, na, nb, cut)
  /\ Passes(b, b2, a, a2, q, p, v, u, nb, na, cutq)
  /\ Granted(a, p, b, q) /\ Granted(b, q, a, p)

LEMMA Multiples ==
  ASSUME NEW x \in Int, NEW y \in Int
  PROVE  /\ FctChars * x \in Int
         /\ FctChars * (x + y) = FctChars * x + FctChars * y
         /\ x <= y => FctChars * x <= FctChars * y
         /\ x \in Nat => FctChars * x \in Nat
BY ConstantsAreNumbers

(* What arrives at b can be counted, as it was granted. *)
LEMMA ArrivesExpected ==
  ASSUME NEW a, NEW b, NEW p, NEW q, NodeInv(b), Direction(a, p, b), Direction(b, q, a),
         Granted(a, p, b, q), Granted(b, q, a, p)
  PROVE  Expected(b)
<1> USE ConstantsAreNumbers
<1>1. b.s \in Waiting => b.recv.got = "none"
  BY DEF Direction, Deaf
<1>2. ASSUME b.s \in Sending, b.recv.got = "fct"
      PROVE  b.tx <= 6 * FctChars
  <2>1. OnItsWay("fct", p, b.recv) \in Nat /\ OnItsWay("fct", p, b.recv) >= 1
    <3>1. "fct" \in Credits
      BY DEF Credits
    <3>2. p \in Seq(Token) /\ Len(p) = Delay
      BY DEF Direction, Stretch
    <3> QED BY <1>2, <3>1, <3>2, Ways DEF Has
  <2>2. FctChars * OnItsWay("fct", p, b.recv) >= FctChars * 1
        /\ FctChars * OnItsWay("fct", p, b.recv) \in Nat
    BY <2>1, Multiples
  <2>3. b.tx + FctChars * OnItsWay("fct", p, b.recv) <= 7 * FctChars
    BY <1>2 DEF Granted
  <2>4. b.tx \in Nat
    BY DEF NodeInv, Registers
  <2> QED BY <2>2, <2>3, <2>4
<1>3. ASSUME b.s \in Sending, b.recv.got = "data"
      PROVE  b.rx > 0
  <2>1. OnItsWay("data", p, b.recv) \in Nat /\ OnItsWay("data", p, b.recv) >= 1
    <3>1. "data" \in Credits
      BY DEF Credits
    <3>2. p \in Seq(Token) /\ Len(p) = Delay
      BY DEF Direction, Stretch
    <3> QED BY <1>3, <3>1, <3>2, Ways DEF Has
  <2>2. b.rx >= OnItsWay("data", p, b.recv) /\ b.rx \in Nat
    BY <1>3 DEF Granted, NodeInv, Registers
  <2> QED BY <2>1, <2>2
<1> QED BY <1>1, <1>2, <1>3 DEF Expected

(* The numbers that Granted relates, before and after the clock. *)
LEMMA Balance ==
  ASSUME NEW a, NEW a2, NEW b, NEW b2, NEW p, NEW q, NEW u, NEW v, NEW na, NEW nb,
         NEW cut, NEW cutq, Exchange(a, a2, b, b2, p, q, u, v, na, nb, cut, cutq)
  PROVE  /\ Registers(a2) /\ Registers(b2)
         /\ OnItsWay("fct", p, b.recv) \in Nat /\ OnItsWay("data", q, a.recv) \in Nat
         /\ OnItsWay("fct", NextPipe(p, u, cut), b2.recv) \in Nat
         /\ OnItsWay("data", NextPipe(q, v, cutq), a2.recv) \in Nat
         /\ FctChars * OnItsWay("fct", p, b.recv) \in Nat
         /\ FctChars * OnItsWay("fct", NextPipe(p, u, cut), b2.recv) \in Nat
         /\ FctChars * OnItsWay("fct", NextPipe(p, u, cut), b2.recv)
              + FctChars * Has(b.recv.got, "fct")
              <= FctChars * OnItsWay("fct", p, b.recv) + FctChars * Has(u, "fct")
         /\ OnItsWay("data", NextPipe(q, v, cutq), a2.recv) + Has(a.recv.got, "data")
              <= OnItsWay("data", q, a.recv) + Has(v, "data")
<1> DEFINE p2 == NextPipe(p, u, cut)
           q2 == NextPipe(q, v, cutq)
<1>1. /\ Passes(a, a2, b, b2, p, q, u, v, na, nb, cut)
      /\ Passes(b, b2, a, a2, q, p, v, u, nb, na, cutq)
      /\ NodeInv(a) /\ NodeInv(b) /\ Direction(a, p, b) /\ Direction(b, q, a)
      /\ NodeStep(a, a2, q[1], na, u) /\ NodeStep(b, b2, p[1], nb, v)
      /\ Granted(a, p, b, q) /\ Granted(b, q, a, p)
  BY DEF Exchange, Passes
<1>2. Registers(a2) /\ Registers(b2)
  BY <1>1, ArrivesExpected, RegistersStep
<1>3. "fct" \in Credits /\ "data" \in Credits
  BY DEF Credits
<1>4. /\ p \in Seq(Token) /\ Len(p) = Delay /\ q \in Seq(Token) /\ Len(q) = Delay
  BY <1>1 DEF Direction, Stretch
<1>5. p2 \in Seq(Token) /\ Len(p2) = Delay
  BY <1>1, PassPipe
<1>6. q2 \in Seq(Token) /\ Len(q2) = Delay
  BY <1>1, PassPipe
<1>7. /\ OnItsWay("fct", p2, b2.recv) + Has(b.recv.got, "fct")
           <= OnItsWay("fct", p, b.recv) + Has(u, "fct")
      /\ OnItsWay("data", q2, a2.recv) + Has(a.recv.got, "data")
           <= OnItsWay("data", q, a.recv) + Has(v, "data")
  BY <1>1, <1>3, WayStep
<1> HIDE DEF p2, q2
<1>8. /\ OnItsWay("fct", p, b.recv) \in Nat /\ OnItsWay("data", q, a.recv) \in Nat
      /\ OnItsWay("fct", p2, b2.recv) \in Nat /\ OnItsWay("data", q2, a2.recv) \in Nat
  BY <1>3, <1>4, <1>5, <1>6, Ways
<1>9. Has(b.recv.got, "fct") \in Int /\ Has(u, "fct") \in Int
  BY DEF Has
<1>10. /\ FctChars * OnItsWay("fct", p, b.recv) \in Nat
       /\ FctChars * OnItsWay("fct", p2, b2.recv) \in Nat
  BY <1>8, Multiples
<1>11. FctChars * OnItsWay("fct", p2, b2.recv) + FctChars * Has(b.recv.got, "fct")
         <= FctChars * OnItsWay("fct", p, b.recv) + FctChars * Has(u, "fct")
  <2>1. FctChars * (OnItsWay("fct", p2, b2.recv) + Has(b.recv.got, "fct"))
          <= FctChars * (OnItsWay("fct", p, b.recv) + Has(u, "fct"))
    BY <1>7, <1>8, <1>9, Multiples
  <2> QED BY <2>1, <1>8, <1>9, Multiples
<1> QED BY <1>2, <1>7, <1>8, <1>10, <1>11 DEF p2, q2

(* What the clock does to the numbers of a side that is not in ErrorReset. *)
LEMMA Accounts ==
  ASSUME NEW n, NEW m, NEW heard, NEW noise, NEW put,
         NodeInv(n), Expected(n), NodeStep(n, m, heard, noise, put),
         n.s # "ErrorReset", m.s # "ErrorReset"
  PROVE  /\ m.tx = n.tx + FctChars * Has(n.recv.got, "fct") - Has(put, "data")
         /\ m.rx = n.rx + FctChars * Has(put, "fct") - Has(n.recv.got, "data")
<1>1. Counted(n, m, put) /\ Transmits(n, m, put)
  BY DEF NodeStep, Fresh
<1> QED BY <1>1, CountedExactly

LEMMA BothUp ==
  ASSUME NEW a, NEW a2, NEW b, NEW b2, NEW p, NEW q, NEW u, NEW v, NEW na, NEW nb,
         NEW cut, NEW cutq, Exchange(a, a2, b, b2, p, q, u, v, na, nb, cut, cutq),
         a2.s # "ErrorReset", b2.s # "ErrorReset"
  PROVE  /\ a2.rx >= Used(a2, NextPipe(p, u, cut), b2, NextPipe(q, v, cutq))
         /\ ~a2.recv.err /\ ~b2.recv.err =>
              a2.rx = Used(a2, NextPipe(p, u, cut), b2, NextPipe(q, v, cutq))
<1> DEFINE p2 == NextPipe(p, u, cut)
           q2 == NextPipe(q, v, cutq)
<1> USE ConstantsAreNumbers
<1>1. /\ Passes(a, a2, b, b2, p, q, u, v, na, nb, cut)
      /\ Passes(b, b2, a, a2, q, p, v, u, nb, na, cutq)
      /\ NodeInv(a) /\ NodeInv(b) /\ Direction(a, p, b) /\ Direction(b, q, a)
      /\ NodeStep(a, a2, q[1], na, u) /\ NodeStep(b, b2, p[1], nb, v)
      /\ Granted(a, p, b, q) /\ Granted(b, q, a, p)
  BY DEF Exchange, Passes
<1>2. Registers(a2) /\ Registers(b2)
  BY Balance
<1>3. "fct" \in Credits /\ "data" \in Credits
  BY DEF Credits
<1>4. CASE a.s = "ErrorReset" \/ b.s = "ErrorReset"
  <2>1. /\ \A i \in 1..Delay : p2[i] \notin Credits
        /\ b2.recv.got = "none" /\ a2.s \notin Joined
    BY <1>1, <1>4, NothingStale
  <2>2. /\ \A i \in 1..Delay : q2[i] \notin Credits
        /\ a2.recv.got = "none" /\ b2.s \notin Joined
    BY <1>1, <1>4, NothingStale
  <2>3. OnItsWay("fct", p2, b2.recv) = 0
    BY <1>3, <2>1, NothingOnItsWay
  <2>4. OnItsWay("data", q2, a2.recv) = 0
    BY <1>3, <2>2, NothingOnItsWay
  <2>5. a2.rx = 0 /\ b2.tx = 0
    BY <1>2, <2>1, <2>2 DEF Registers, PairState, Sending
  <2> HIDE DEF p2, q2
  <2>6. a2.rx = Used(a2, p2, b2, q2) /\ a2.rx \in Nat
    BY <2>3, <2>4, <2>5 DEF Used
  <2> QED BY <2>6 DEF p2, q2
<1>5. CASE a.s # "ErrorReset" /\ b.s # "ErrorReset"
  <2>1. /\ b2.tx = b.tx + FctChars * Has(b.recv.got, "fct") - Has(v, "data")
        /\ a2.rx = a.rx + FctChars * Has(u, "fct") - Has(a.recv.got, "data")
    BY <1>1, <1>5, ArrivesExpected, Accounts
  <2>2. /\ OnItsWay("fct", p, b.recv) \in Nat /\ OnItsWay("data", q, a.recv) \in Nat
        /\ OnItsWay("fct", p2, b2.recv) \in Nat /\ OnItsWay("data", q2, a2.recv) \in Nat
        /\ FctChars * OnItsWay("fct", p, b.recv) \in Nat
        /\ FctChars * OnItsWay("fct", p2, b2.recv) \in Nat
        /\ FctChars * OnItsWay("fct", p2, b2.recv) + FctChars * Has(b.recv.got, "fct")
             <= FctChars * OnItsWay("fct", p, b.recv) + FctChars * Has(u, "fct")
        /\ OnItsWay("data", q2, a2.recv) + Has(a.recv.got, "data")
             <= OnItsWay("data", q, a.recv) + Has(v, "data")
    BY Balance
  <2>3. /\ a.rx \in Nat /\ b.tx \in Nat
        /\ Has(b.recv.got, "fct") \in Int /\ Has(u, "fct") \in Int
        /\ Has(v, "data") \in Int /\ Has(a.recv.got, "data") \in Int
        /\ FctChars * Has(b.recv.got, "fct") \in Int /\ FctChars * Has(u, "fct") \in Int
    <3>1. /\ a.rx \in Nat /\ b.tx \in Nat
          /\ Has(b.recv.got, "fct") \in Int /\ Has(u, "fct") \in Int
          /\ Has(v, "data") \in Int /\ Has(a.recv.got, "data") \in Int
      BY <1>1 DEF NodeInv, Registers, Has
    <3> QED BY <3>1, Multiples
  <2>4. a.rx >= b.tx + FctChars * OnItsWay("fct", p, b.recv) + OnItsWay("data", q, a.recv)
    BY <1>1, <1>5 DEF Granted, Used
  <2> DEFINE f  == FctChars * OnItsWay("fct", p, b.recv)
             f2 == FctChars * OnItsWay("fct", p2, b2.recv)
             d  == OnItsWay("data", q, a.recv)
             d2 == OnItsWay("data", q2, a2.recv)
             gf == FctChars * Has(b.recv.got, "fct")
             uf == FctChars * Has(u, "fct")
             gd == Has(a.recv.got, "data")
             vd == Has(v, "data")
  <2>5. /\ f \in Nat /\ f2 \in Nat /\ d \in Nat /\ d2 \in Nat
        /\ gf \in Int /\ uf \in Int /\ gd \in Int /\ vd \in Int
        /\ a.rx \in Nat /\ b.tx \in Nat
        /\ b2.tx = b.tx + gf - vd /\ a2.rx = a.rx + uf - gd
        /\ f2 + gf <= f + uf /\ d2 + gd <= d + vd
        /\ a.rx >= b.tx + f + d
    BY <2>1, <2>2, <2>3, <2>4
  <2>6. Used(a2, p2, b2, q2) = b2.tx + f2 + d2
    BY DEF Used
  <2>7. ASSUME ~a2.recv.err, ~b2.recv.err
        PROVE  f2 + gf = f + uf /\ d2 + gd = d + vd /\ a.rx = b.tx + f + d
    <3>1. /\ OnItsWay("fct", p2, b2.recv) + Has(b.recv.got, "fct")
               = OnItsWay("fct", p, b.recv) + Has(u, "fct")
          /\ d2 + gd = d + vd
      BY <1>1, <1>3, <1>5, <2>7, WayStep
    <3>2. FctChars * (OnItsWay("fct", p2, b2.recv) + Has(b.recv.got, "fct"))
               = FctChars * (OnItsWay("fct", p, b.recv) + Has(u, "fct"))
      BY <3>1
    <3>3. f2 + gf = f + uf
      BY <2>2, <2>3, <3>2, Multiples
    <3>4. ~a.recv.err /\ ~b.recv.err
      BY <1>1, <1>5, Hears DEF NodeInv
    <3> QED BY <1>1, <1>5, <3>1, <3>3, <3>4 DEF Granted, Used
  <2> HIDE DEF p2, q2, f, f2, d, d2, gf, uf, gd, vd
  <2>8. a2.rx >= Used(a2, p2, b2, q2)
    BY <2>5, <2>6
  <2>9. ~a2.recv.err /\ ~b2.recv.err => a2.rx = Used(a2, p2, b2, q2)
    BY <2>5, <2>6, <2>7
  <2> QED BY <2>8, <2>9 DEF p2, q2
<1> QED BY <1>4, <1>5

(* What is on its way to a side that sends was granted by it. *)
LEMMA EnoughGranted ==
  ASSUME NEW a, NEW a2, NEW b, NEW b2, NEW p, NEW q, NEW u, NEW v, NEW na, NEW nb,
         NEW cut, NEW cutq, Exchange(a, a2, b, b2, p, q, u, v, na, nb, cut, cutq),
         a2.s \in Sending
  PROVE  a2.rx >= OnItsWay("data", NextPipe(q, v, cutq), a2.recv)
<1> DEFINE p2 == NextPipe(p, u, cut)
           q2 == NextPipe(q, v, cutq)
<1> USE ConstantsAreNumbers
<1>1. /\ Passes(a, a2, b, b2, p, q, u, v, na, nb, cut)
      /\ Passes(b, b2, a, a2, q, p, v, u, nb, na, cutq)
      /\ NodeInv(a) /\ NodeInv(b) /\ Direction(a, p, b) /\ Direction(b, q, a)
      /\ NodeStep(a, a2, q[1], na, u) /\ NodeStep(b, b2, p[1], nb, v)
      /\ Granted(a, p, b, q) /\ Granted(b, q, a, p)
  BY DEF Exchange, Passes
<1>2. /\ OnItsWay("fct", p, b.recv) \in Nat /\ OnItsWay("data", q, a.recv) \in Nat
      /\ OnItsWay("data", q2, a2.recv) \in Nat
      /\ FctChars * OnItsWay("fct", p, b.recv) \in Nat
      /\ OnItsWay("data", q2, a2.recv) + Has(a.recv.got, "data")
           <= OnItsWay("data", q, a.recv) + Has(v, "data")
  BY Balance
<1>3. a.s \in Sending \/ a.s = "Ready"
  BY <1>1 DEF NodeStep, Moves, Fresh, Counts, Sending, Joined
<1>4. a.s # "ErrorReset" /\ a2.s # "ErrorReset"
  BY <1>3 DEF Sending, Joined
<1>5. a2.rx = a.rx + FctChars * Has(u, "fct") - Has(a.recv.got, "data")
  BY <1>1, <1>4, ArrivesExpected, Accounts
<1>6. a.rx >= OnItsWay("data", q, a.recv) + Has(v, "data")
  <2>1. CASE a.s = "Ready"
    <3>1. OnItsWay("data", q, a.recv) = 0 /\ Has(v, "data") = 0
      BY <1>1, <2>1, NothingForReady DEF Credits
    <3> QED BY <1>1, <3>1 DEF NodeInv, Registers
  <2>2. CASE a.s \in Sending /\ v # "data"
    BY <1>1, <1>2, <2>2 DEF Granted, Has
  <2>3. CASE v = "data"
    <3>1. b.s # "ErrorReset" /\ b.tx # 0 /\ b.tx \in Nat
      BY <1>1, <2>3 DEF NodeStep, Transmits, Credits, Joined, NodeInv, Registers
    <3>2. a.rx >= b.tx + FctChars * OnItsWay("fct", p, b.recv) + OnItsWay("data", q, a.recv)
      BY <1>1, <1>4, <3>1 DEF Granted, Used
    <3>3. a.rx \in Nat
      BY <1>1 DEF NodeInv, Registers
    <3>4. Has(v, "data") = 1
      BY <2>3 DEF Has
    <3> DEFINE d == OnItsWay("data", q, a.recv)
               f == FctChars * OnItsWay("fct", p, b.recv)
    <3>5. d \in Nat /\ f \in Nat /\ a.rx >= b.tx + f + d
      BY <1>2, <3>2
    <3> HIDE DEF d, f
    <3>6. a.rx >= d + 1
      BY <3>1, <3>3, <3>5
    <3> QED BY <3>4, <3>6 DEF d
  <2> QED BY <1>3, <2>1, <2>2, <2>3
<1>7. /\ a.rx \in Nat /\ Has(v, "data") \in Nat /\ Has(a.recv.got, "data") \in Nat
      /\ FctChars * Has(u, "fct") \in Nat
  <2>1. Has(u, "fct") \in Nat
    BY DEF Has
  <2> QED BY <1>1, <2>1, Multiples DEF NodeInv, Registers, Has
<1> HIDE DEF p2, q2
<1> QED BY <1>2, <1>5, <1>6, <1>7 DEF q2

(* A side that sends never gets more credit than the seven FCTs' worth. *)
LEMMA CreditFits ==
  ASSUME NEW a, NEW a2, NEW b, NEW b2, NEW p, NEW q, NEW u, NEW v, NEW na, NEW nb,
         NEW cut, NEW cutq, Exchange(a, a2, b, b2, p, q, u, v, na, nb, cut, cutq),
         b2.s \in Sending
  PROVE  b2.tx + FctChars * OnItsWay("fct", NextPipe(p, u, cut), b2.recv) <= 7 * FctChars
<1> DEFINE p2 == NextPipe(p, u, cut)
           q2 == NextPipe(q, v, cutq)
<1> USE ConstantsAreNumbers
<1>1. /\ Passes(a, a2, b, b2, p, q, u, v, na, nb, cut)
      /\ Passes(b, b2, a, a2, q, p, v, u, nb, na, cutq)
      /\ NodeInv(a) /\ NodeInv(b) /\ Direction(a, p, b) /\ Direction(b, q, a)
      /\ NodeStep(a, a2, q[1], na, u) /\ NodeStep(b, b2, p[1], nb, v)
      /\ Granted(a, p, b, q) /\ Granted(b, q, a, p)
  BY DEF Exchange, Passes
<1>2. /\ OnItsWay("fct", p, b.recv) \in Nat /\ OnItsWay("data", q, a.recv) \in Nat
      /\ FctChars * OnItsWay("fct", p, b.recv) \in Nat
      /\ FctChars * OnItsWay("fct", p2, b2.recv) \in Nat
      /\ FctChars * OnItsWay("fct", p2, b2.recv) + FctChars * Has(b.recv.got, "fct")
           <= FctChars * OnItsWay("fct", p, b.recv) + FctChars * Has(u, "fct")
  BY Balance
<1>3. b.s \in Sending \/ b.s = "Ready"
  BY <1>1 DEF NodeStep, Moves, Fresh, Counts, Sending, Joined
<1>4. b.s # "ErrorReset" /\ b2.s # "ErrorReset"
  BY <1>3 DEF Sending, Joined
<1>5. b2.tx = b.tx + FctChars * Has(b.recv.got, "fct") - Has(v, "data")
  BY <1>1, <1>4, ArrivesExpected, Accounts
<1>6. b.tx + FctChars * OnItsWay("fct", p, b.recv) + FctChars * Has(u, "fct") <= 7 * FctChars
  <2>1. CASE b.s = "Ready"
    <3>1. OnItsWay("fct", p, b.recv) = 0 /\ Has(u, "fct") = 0 /\ b.tx = 0
      BY <1>1, <2>1, NothingForReady DEF Credits, NodeInv, Registers, Waiting
    <3> QED BY <3>1
  <2>2. CASE b.s \in Sending /\ u # "fct"
    <3>1. b.tx + FctChars * OnItsWay("fct", p, b.recv) <= 7 * FctChars
      BY <1>1, <2>2 DEF Granted
    <3>2. FctChars * Has(u, "fct") = 0
      BY <2>2 DEF Has
    <3>3. b.tx \in Nat
      BY <1>1 DEF NodeInv, Registers
    <3> QED BY <1>2, <3>1, <3>2, <3>3
  <2>3. CASE u = "fct"
    <3>1. a.s # "ErrorReset" /\ a.rx <= 6 * FctChars
      BY <1>1, <2>3 DEF NodeStep, Transmits, Credits, Joined, NodeInv, Registers
    <3>2. a.rx >= b.tx + FctChars * OnItsWay("fct", p, b.recv) + OnItsWay("data", q, a.recv)
      BY <1>1, <1>4, <3>1 DEF Granted, Used
    <3>3. a.rx \in Nat /\ b.tx \in Nat
      BY <1>1 DEF NodeInv, Registers
    <3>4. FctChars * Has(u, "fct") = FctChars
      BY <2>3 DEF Has
    <3> QED BY <1>2, <3>1, <3>2, <3>3, <3>4
  <2> QED BY <1>3, <2>1, <2>2, <2>3
<1>7. /\ b.tx \in Nat /\ Has(v, "data") \in Nat
      /\ FctChars * Has(u, "fct") \in Nat /\ FctChars * Has(b.recv.got, "fct") \in Nat
  <2>1. Has(u, "fct") \in Nat /\ Has(b.recv.got, "fct") \in Nat
    BY DEF Has
  <2> QED BY <1>1, <2>1, Multiples DEF NodeInv, Registers, Has
<1> HIDE DEF p2, q2
<1> QED BY <1>2, <1>5, <1>6, <1>7 DEF p2

LEMMA GrantedStep ==
  ASSUME NEW a, NEW a2, NEW b, NEW b2, NEW p, NEW q, NEW u, NEW v, NEW na, NEW nb,
         NEW cut, NEW cutq, Exchange(a, a2, b, b2, p, q, u, v, na, nb, cut, cutq)
  PROVE  Granted(a2, NextPipe(p, u, cut), b2, NextPipe(q, v, cutq))
BY BothUp, EnoughGranted, CreditFits DEF Granted

(* A clock of the whole link keeps everything that is said of the one side. *)
LEMMA SideStep ==
  ASSUME NEW a, NEW a2, NEW b, NEW b2, NEW p, NEW q, NEW u, NEW v, NEW na, NEW nb,
         NEW cut, NEW cutq, Exchange(a, a2, b, b2, p, q, u, v, na, nb, cut, cutq)
  PROVE  /\ NodeInv(a2)
         /\ Direction(a2, NextPipe(p, u, cut), b2)
         /\ Granted(a2, NextPipe(p, u, cut), b2, NextPipe(q, v, cutq))
<1>1. /\ Passes(a, a2, b, b2, p, q, u, v, na, nb, cut)
      /\ NodeInv(a) /\ NodeStep(a, a2, q[1], na, u)
  BY DEF Exchange, Passes
<1>2. q[1] \in Token
  BY PipeStep DEF Exchange, Passes, Direction, Stretch, Token
<1>3. NodeInv(a2)
  BY <1>1, <1>2, Balance, ReceiverStep DEF NodeInv
<1>4. Direction(a2, NextPipe(p, u, cut), b2)
  BY <1>1, StretchStep, HeardStep, FlushedStep, NullFirstStep DEF Direction
<1> QED BY <1>3, <1>4, GrantedStep

-----------------------------------------------------------------------------
(***************************************************************************)
(* The whole link.                                                         *)
(***************************************************************************)
LEMMA PairInvInit == PairInit => PairInv
<1> SUFFICES ASSUME PairInit PROVE PairInv
  OBVIOUS
<1> USE ConstantsAreNumbers
<1> DEFINE n == ValueA
           m == ValueB
           z == [i \in 1..Delay |-> "silence"]
<1>1. pipeAB = z /\ pipeBA = z
  BY DEF PairInit
<1>2. /\ n.s = "ErrorReset" /\ n.cnt = ResetTime /\ n.recv = RecvOff /\ Cleared(n)
      /\ m.s = "ErrorReset" /\ m.cnt = ResetTime /\ m.recv = RecvOff /\ Cleared(m)
  BY DEF PairInit, A!LinkInit, B!LinkInit, ValueA, ValueB, Cleared
<1>3. z \in Seq(Token) /\ Len(z) = Delay /\ \A i \in 1..Delay : z[i] = "silence"
  BY DEF Token
<1> HIDE DEF n, m, z
<1>4. \A k : k.s = "ErrorReset" /\ k.cnt = ResetTime /\ k.recv = RecvOff /\ Cleared(k)
               => NodeInv(k) /\ Quiet(k) = 0
  BY DEF NodeInv, Registers, Receiver, Quiet, Cleared, RecvOff, PairState, Waiting,
         Sending, Joined
<1>5. \A k, l : /\ k.s = "ErrorReset" /\ Quiet(k) = 0
                /\ l.s = "ErrorReset" /\ l.recv = RecvOff
                => Direction(k, z, l) /\ Granted(k, z, l, z)
  BY <1>3 DEF Direction, Stretch, Heard, Flushed, Deaf, NullFirst, Granted, RecvOff,
              Waiting, Sending, Joined, Credits
<1> QED BY <1>1, <1>2, <1>4, <1>5 DEF PairInv, n, m

LEMMA PairInvStep == PairInv /\ [PairNext]_pairVars => PairInv'
<1> SUFFICES ASSUME PairInv, [PairNext]_pairVars PROVE PairInv'
  OBVIOUS
<1>1. CASE UNCHANGED pairVars
  <2>1. ValueA' = ValueA /\ ValueB' = ValueB /\ pipeAB' = pipeAB /\ pipeBA' = pipeBA
    BY <1>1 DEF pairVars, nodeA, nodeB, ValueA, ValueB
  <2>2. PairInv' <=>
          /\ NodeInv(ValueA') /\ NodeInv(ValueB')
          /\ Direction(ValueA', pipeAB', ValueB') /\ Direction(ValueB', pipeBA', ValueA')
          /\ Granted(ValueA', pipeAB', ValueB', pipeBA')
          /\ Granted(ValueB', pipeBA', ValueA', pipeAB')
    BY DEF PairInv
  <2> QED BY <2>1, <2>2 DEF PairInv
<1>2. CASE PairNext
  <2>1. PICK trouble \in Troubles, reads \in SUBSET Readable : PairClock(trouble, reads)
    BY <1>2 DEF PairNext
  <2>2. PICK u \in SentA(trouble), v \in SentB(trouble) :
          \E cut \in MayCut(pipeAB, u), cutq \in MayCut(pipeBA, v) :
            /\ ClockA(trouble, u, "A" \in reads) \/ ResetA(trouble)
            /\ ClockB(trouble, v, "B" \in reads) \/ ResetB(trouble)
            /\ pipeAB' = NextPipe(pipeAB, u, cut)
            /\ pipeBA' = NextPipe(pipeBA, v, cutq)
    BY <2>1 DEF PairClock
  <2>3. PICK cut \in MayCut(pipeAB, u), cutq \in MayCut(pipeBA, v) :
           /\ ClockA(trouble, u, "A" \in reads) \/ ResetA(trouble)
           /\ ClockB(trouble, v, "B" \in reads) \/ ResetB(trouble)
           /\ pipeAB' = NextPipe(pipeAB, u, cut)
           /\ pipeBA' = NextPipe(pipeBA, v, cutq)
    BY <2>2
  <2> DEFINE a  == ValueA
             a2 == ValueA'
             b  == ValueB
             b2 == ValueB'
             na == trouble = "noiseA"
             nb == trouble = "noiseB"
  <2>4. /\ NodeInv(a) /\ NodeInv(b)
        /\ Direction(a, pipeAB, b) /\ Direction(b, pipeBA, a)
        /\ Granted(a, pipeAB, b, pipeBA) /\ Granted(b, pipeBA, a, pipeAB)
    BY DEF PairInv
  <2>5. /\ Receiver(ValueA) /\ stateA \in PairState
        /\ Receiver(ValueB) /\ stateB \in PairState
    BY <2>4 DEF NodeInv, Registers, ValueA, ValueB
  <2>6. Head(pipeAB) = pipeAB[1] /\ Head(pipeBA) = pipeBA[1]
    BY <2>4, ConstantsAreNumbers DEF Direction, Stretch
  <2>7. NodeStep(a, a2, pipeBA[1], na, u)
    <3>1. NodeStep(ValueA, ValueA', Head(pipeBA), trouble = "noiseA", u)
      BY <2>3, <2>5, StepA
    <3> QED BY <2>6, <3>1
  <2>8. NodeStep(b, b2, pipeAB[1], nb, v)
    <3>1. NodeStep(ValueB, ValueB', Head(pipeAB), trouble = "noiseB", v)
      BY <2>3, <2>5, StepB
    <3> QED BY <2>6, <3>1
  <2>9. /\ cut \in BOOLEAN /\ (cut => Delay > 1 /\ u = "silence" /\ pipeAB[Delay] # "silence")
        /\ cutq \in BOOLEAN
        /\ (cutq => Delay > 1 /\ v = "silence" /\ pipeBA[Delay] # "silence")
    BY <2>3 DEF MayCut
  <2> HIDE DEF a, a2, b, b2, na, nb
  <2>10. Exchange(a, a2, b, b2, pipeAB, pipeBA, u, v, na, nb, cut, cutq)
    BY <2>4, <2>7, <2>8, <2>9 DEF Exchange, Passes
  <2>11. Exchange(b, b2, a, a2, pipeBA, pipeAB, v, u, nb, na, cutq, cut)
    BY <2>10 DEF Exchange
  <2>12. /\ NodeInv(a2) /\ Direction(a2, pipeAB', b2) /\ Granted(a2, pipeAB', b2, pipeBA')
    BY <2>3, <2>10, SideStep
  <2>13. /\ NodeInv(b2) /\ Direction(b2, pipeBA', a2) /\ Granted(b2, pipeBA', a2, pipeAB')
    BY <2>3, <2>11, SideStep
  <2> QED BY <2>12, <2>13 DEF PairInv, a2, b2
<1> QED BY <1>1, <1>2

THEOREM PairInvariant == PairSpec => []PairInv
BY PairInvInit, PairInvStep, PTL DEF PairSpec

(* Neither side ever sees a credit error, whatever interrupts the link. *)
THEOREM NoCreditErrors == PairSpec => []NoCreditError
<1>1. PairInv => NoCreditError
  BY DEF PairInv, NodeInv, Registers, NoCreditError, ValueA, ValueB
<1> QED BY <1>1, PairInvariant, PTL

(* While both sides are in Run and hear no error, the credit that one has  *)
(* granted is what the other may still send and what is on its way.        *)
THEOREM CreditIsConserved == PairSpec => []CreditConserved
<1>1. PairInv => CreditConserved
  <2> SUFFICES ASSUME PairInv, stateA = "Run", stateB = "Run", ~recvA.err, ~recvB.err
               PROVE  /\ rxCreditB = txCreditA + FctChars * OnItsWay("fct", pipeBA, recvA)
                                               + OnItsWay("data", pipeAB, recvB)
                      /\ rxCreditA = txCreditB + FctChars * OnItsWay("fct", pipeAB, recvB)
                                               + OnItsWay("data", pipeBA, recvA)
    BY DEF CreditConserved, A!running, B!running
  <2> QED BY DEF PairInv, Granted, Used, ValueA, ValueB
<1> QED BY <1>1, PairInvariant, PTL

=============================================================================
