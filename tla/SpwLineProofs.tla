--------------------------- MODULE SpwLineProofs ---------------------------
(***************************************************************************)
(* What is sent on a line of SpwLine is received, for every width of a     *)
(* word up to eight bits, every set of words, every pair of rates and      *)
(* every disconnect time.                                                  *)
(*                                                                         *)
(* The argument looks at the receiver together with what is on its way to  *)
(* it: the tokens in flight and the bits in the five stages of the front   *)
(* end.  A copy of the receiver that is given those bits at once arrives   *)
(* where the receiver will be in five clocks, and that copy is in step     *)
(* with the transmitter: it is at the same place of the same token.        *)
(*                                                                         *)
(*  1. Bits and windows; one bit, by the place in the token.               *)
(*  2. Tokens and their bits; what a receiver decodes.                     *)
(*  3. InStep: the receiver and the transmitter at the same place, while   *)
(*     a token is sent, when the next one begins, and before the first     *)
(*     NULL is recognised.                                                 *)
(*  4. Pass, Along, Follows: the bits and tokens on their way.             *)
(*  5. Ends: the transmitter stops; Room: how much is on its way; Heard: a *)
(*     receiver is switched on; Twin: a bit is received wrong.             *)
(*  6. The steps of the line as steps of these, and the invariant LineInv. *)
(*  7. When the bits arrive: false alarms, and silence.                    *)
(***************************************************************************)
EXTENDS SpwLine, Integers, SequenceTheorems, TLAPS

(* The window with a bit appended, and a receiver that has had one bit. *)
Push(w, b) == [i \in 1..9 |-> IF i < 9 THEN w[i + 1] ELSE b]
Take(r, b) == ReceiveBit([r EXCEPT !.got = NoToken], b)

(* The width of a word, and what left means when no token is being counted. *)
LEMMA WordIsShort == WordBits \in 2..8 /\ Idle = WordBits + 2
BY WordsAssumption, WindowAssumption DEF Idle

(* A function from 1..n is a sequence of length n. *)
LEMMA IsSeq ==
  ASSUME NEW S, NEW n \in Nat, NEW f \in [1..n -> S]
  PROVE  f \in Seq(S) /\ Len(f) = n
<1>1. f \in Seq(S)
  BY SeqDef
<1>2. DOMAIN f = 1..n /\ DOMAIN f = 1..Len(f) /\ Len(f) \in Nat
  BY <1>1, LenProperties
<1>3. Len(f) = n
  <2>1. Len(f) > n => Len(f) \in 1..n
    BY <1>2
  <2>2. n > Len(f) => n \in 1..Len(f)
    BY <1>2
  <2> QED BY <1>2, <2>1, <2>2
<1> QED BY <1>1, <1>3

(* Appending to a sequence, in the form in which it is used here. *)
LEMMA AppendLen ==
  ASSUME NEW S, NEW s \in Seq(S), NEW e \in S
  PROVE  Append(s, e) \in Seq(S) /\ Len(Append(s, e)) = Len(s) + 1
<1>1. Append(s, e) \in Seq(S)
  BY AppendProperties
<1>2. Len(Append(s, e)) = Len(s) + 1
  BY AppendProperties
<1> QED BY <1>1, <1>2

(* Appending leaves the elements where they were. *)
LEMMA AppendAt ==
  ASSUME NEW S, NEW s \in Seq(S), NEW e \in S
  PROVE  /\ \A i \in 1..Len(s) : Append(s, e)[i] = s[i]
         /\ Append(s, e)[Len(s) + 1] = e
<1>1. \A i \in 1..Len(s) : Append(s, e)[i] = s[i]
  BY AppendProperties
<1>2. Append(s, e)[Len(s) + 1] = e
  BY AppendProperties
<1> QED BY <1>1, <1>2

(* Dropping the oldest bit of a window moves the others up by one. *)
LEMMA TailIs ==
  ASSUME NEW w \in Seq(Bit), Len(w) = 9
  PROVE  Tail(w) \in Seq(Bit) /\ Len(Tail(w)) = 8 /\ \A i \in 1..8 : Tail(w)[i] = w[i + 1]
<1>1. w # <<>>
  <2> SUFFICES ASSUME w = <<>> PROVE FALSE
    OBVIOUS
  <2>1. Len(w) = 0
    BY EmptySeq
  <2> QED BY <2>1
<1>2. /\ Tail(w) \in Seq(Bit) /\ Len(Tail(w)) = Len(w) - 1
      /\ \A i \in 1..Len(Tail(w)) : Tail(w)[i] = w[i + 1]
  BY <1>1, HeadTailProperties
<1>3. Len(Tail(w)) = 8
  BY <1>2
<1> QED BY <1>2, <1>3

(* The window after a bit, as a function of the one before. *)
LEMMA PushIs ==
  ASSUME NEW w \in [1..9 -> Bit], NEW b \in Bit
  PROVE  Append(Tail(w), b) = Push(w, b) /\ Push(w, b) \in [1..9 -> Bit]
<1>1. w \in Seq(Bit) /\ Len(w) = 9
  BY IsSeq
<1>2. Tail(w) \in Seq(Bit) /\ Len(Tail(w)) = 8 /\ \A i \in 1..8 : Tail(w)[i] = w[i + 1]
  BY <1>1, TailIs
<1>3. /\ Append(Tail(w), b) \in Seq(Bit) /\ Len(Append(Tail(w), b)) = 9
      /\ \A i \in 1..8 : Append(Tail(w), b)[i] = Tail(w)[i]
      /\ Append(Tail(w), b)[9] = b
  <2> DEFINE s == Tail(w)
  <2>1. s \in Seq(Bit) /\ Len(s) = 8
    BY <1>2
  <2> HIDE DEF s
  <2>2. Append(s, b) \in Seq(Bit) /\ Len(Append(s, b)) = Len(s) + 1
    BY <2>1, AppendLen
  <2>3. (\A i \in 1..Len(s) : Append(s, b)[i] = s[i]) /\ Append(s, b)[Len(s) + 1] = b
    BY <2>1, AppendAt
  <2>4. /\ Append(s, b) \in Seq(Bit) /\ Len(Append(s, b)) = 9
        /\ \A i \in 1..8 : Append(s, b)[i] = s[i]
        /\ Append(s, b)[9] = b
    <3>1. Len(s) + 1 = 9
      BY <2>1
    <3> QED BY <2>1, <2>2, <2>3, <3>1, Zenon
  <2> QED BY <2>4 DEF s
<1>4. Push(w, b) \in [1..9 -> Bit]
  BY DEF Push
<1>5. Push(w, b) \in Seq(Bit) /\ Len(Push(w, b)) = 9
  BY <1>4, IsSeq
<1>6. \A i \in 1..9 : Append(Tail(w), b)[i] = Push(w, b)[i]
  <2> DEFINE a == Append(Tail(w), b)
  <2> SUFFICES ASSUME NEW i \in 1..9 PROVE a[i] = Push(w, b)[i]
    OBVIOUS
  <2>1. (\A j \in 1..8 : a[j] = w[j + 1]) /\ a[9] = b
    BY <1>2, <1>3
  <2> HIDE DEF a
  <2> QED BY <2>1 DEF Push
<1>7. Append(Tail(w), b) = Push(w, b)
  <2> DEFINE a == Append(Tail(w), b)
             p == Push(w, b)
  <2>1. a \in Seq(Bit) /\ p \in Seq(Bit) /\ Len(a) = Len(p) /\ \A i \in 1..Len(a) : a[i] = p[i]
    BY <1>3, <1>5, <1>6
  <2> HIDE DEF a, p
  <2>2. a = p
    BY <2>1, SeqEqual
  <2> QED BY <2>2 DEF a, p
<1> QED BY <1>4, <1>7

(* The two operations on bits, by cases. *)
LEMMA BitOps ==
  ASSUME NEW a \in Bit, NEW b \in Bit
  PROVE  /\ Xor(a, b) = IF a = b THEN 0 ELSE 1
         /\ Not(a) = IF a = 0 THEN 1 ELSE 0
BY DEF Xor, Not, Bit

(* The window of a receiver as contents of a token, element by element. *)
LEMMA ContentsIs ==
  ASSUME NEW r \in Receiver
  PROVE  /\ contents(r) \in Word
         /\ contents(r) = [i \in 1..WordBits |-> r.window[8 - WordBits + i]]
         /\ lastTwo(r) = <<r.window[7], r.window[8]>>
<1>1. r.window \in [1..9 -> Bit]
  BY DEF Receiver
<1> DEFINE f == [i \in 1..WordBits |-> r.window[8 - WordBits + i]]
<1>2. f \in Word
  BY <1>1, WordIsShort DEF Word
<1>3. f \in Seq(Bit) /\ Len(f) = WordBits
  <2> HIDE DEF f
  <2>1. f \in [1..WordBits -> Bit] /\ WordBits \in Nat
    BY <1>2, WordIsShort DEF Word
  <2> QED BY <2>1, IsSeq
<1>4. /\ contents(r) \in Seq(Bit) /\ Len(contents(r)) = WordBits
      /\ \A i \in 1..WordBits : contents(r)[i] = r.window[8 - WordBits + i]
  <2>1. /\ 9 - WordBits \in Int /\ 8 \in Int /\ 9 - WordBits <= 8
        /\ 8 - (9 - WordBits) + 1 = WordBits
        /\ \A i \in (9 - WordBits)..8 : r.window[i] \in Bit
    BY <1>1, WordIsShort
  <2>2. /\ SubSeq(r.window, 9 - WordBits, 8) \in Seq(Bit)
        /\ Len(SubSeq(r.window, 9 - WordBits, 8)) = WordBits
        /\ \A i \in 1..(8 - (9 - WordBits) + 1) :
             SubSeq(r.window, 9 - WordBits, 8)[i] = r.window[9 - WordBits + i - 1]
    BY <2>1, SubSeqProperties
  <2>3. \A i \in 1..WordBits : 9 - WordBits + i - 1 = 8 - WordBits + i
    BY WordIsShort
  <2> QED BY <2>1, <2>2, <2>3 DEF contents
<1>5. \A i \in 1..WordBits : contents(r)[i] = f[i]
  BY <1>4
<1> HIDE DEF f
<1>6. contents(r) = f
  BY <1>3, <1>4, <1>5, SeqEqual
<1>7. lastTwo(r) = <<r.window[7], r.window[8]>>
  <2>1. /\ SubSeq(r.window, 7, 8) \in Seq(Bit)
        /\ Len(SubSeq(r.window, 7, 8)) = 2
        /\ \A i \in 1..2 : SubSeq(r.window, 7, 8)[i] = r.window[7 + i - 1]
    BY <1>1, SubSeqProperties
  <2>2. <<r.window[7], r.window[8]>> \in Seq(Bit) /\ Len(<<r.window[7], r.window[8]>>) = 2
    BY <1>1
  <2>3. \A i \in 1..2 : SubSeq(r.window, 7, 8)[i] = <<r.window[7], r.window[8]>>[i]
    BY <2>1
  <2> QED BY <2>1, <2>2, <2>3, SeqEqual DEF lastTwo
<1> QED BY <1>2, <1>6, <1>7 DEF f

(* What a receiver decodes is a token or nothing. *)
LEMMA DecodedIs ==
  ASSUME NEW r \in Receiver
  PROVE  decoded(r) \in Token \cup {NoToken}
<1>1. contents(r) \in Word
  BY ContentsIs
<1> QED BY <1>1 DEF decoded, Token, NChars, Time, Fct, Ctrl, NoToken

(***************************************************************************)
(* One bit, by the place in the token at which it arrives.                 *)
(***************************************************************************)
Bare(r) ==
  [bitSeen |-> r.bitSeen, nullSeen |-> r.nullSeen, window |-> r.window,
   left |-> r.left, parity |-> r.parity, control |-> r.control, escaped |-> r.escaped,
   got |-> NoToken, errpar |-> r.errpar, erresc |-> r.erresc]

(* Clearing got changes no other field. *)
LEMMA BareIs ==
  ASSUME NEW r \in Receiver
  PROVE  [r EXCEPT !.got = NoToken] = Bare(r)
BY DEF Receiver, Bare

(* A bit inside a token, or one before the first NULL is recognised. *)
LEMMA TakeCounts ==
  ASSUME NEW r \in Receiver, NEW b \in Bit, r.left # 0, r.nullSeen \/ r.window # FirstNull
  PROVE  LET q == Take(r, b)
         IN /\ q.bitSeen = TRUE /\ q.nullSeen = r.nullSeen /\ q.window = Push(r.window, b)
            /\ q.left = IF r.left = Idle THEN Idle ELSE r.left - 1
            /\ q.parity = Xor(r.parity, b)
            /\ q.control = r.control /\ q.escaped = r.escaped /\ q.got = NoToken
            /\ q.errpar = r.errpar /\ q.erresc = r.erresc
<1>1. r.window \in [1..9 -> Bit]
  BY DEF Receiver
<1>2. Append(Tail(r.window), b) = Push(r.window, b)
  BY <1>1, PushIs
<1> DEFINE s == [r EXCEPT !.got = NoToken]
           c == Count(s, b)
<1>3. s = Bare(r)
  BY BareIs
<1>4. c = [Bare(r) EXCEPT !.left = IF r.left = Idle THEN Idle ELSE r.left - 1,
                          !.parity = Xor(r.parity, b)]
  BY <1>3 DEF Count, Bare
<1> HIDE DEF s, c
<1>5. c.nullSeen = r.nullSeen /\ c.window = r.window
  BY <1>4 DEF Bare
<1>6. Sync(c, b) = c
  BY <1>5 DEF Sync
<1>7. Take(r, b) = [c EXCEPT !.bitSeen = TRUE, !.window = Push(r.window, b)]
  BY <1>2, <1>3, <1>6 DEF Take, ReceiveBit, s, c, Bare
<1> QED BY <1>4, <1>7 DEF Bare, Receiver

(* The bit that follows the window of the first NULL: the receiver is in
   step. *)
LEMMA TakeSyncs ==
  ASSUME NEW r \in Receiver, NEW b \in Bit, r.left # 0, ~r.nullSeen, r.window = FirstNull
  PROVE  LET q == Take(r, b)
         IN /\ q.bitSeen = TRUE /\ q.nullSeen = TRUE /\ q.window = Push(r.window, b)
            /\ q.left = 3 /\ q.parity = 0
            /\ q.control = (b = 1) /\ q.escaped = r.escaped /\ q.got = NoToken
            /\ q.errpar = r.errpar /\ q.erresc = r.erresc
<1>1. r.window \in [1..9 -> Bit]
  BY DEF Receiver
<1>2. Append(Tail(r.window), b) = Push(r.window, b)
  BY <1>1, PushIs
<1> DEFINE s == [r EXCEPT !.got = NoToken]
           c == Count(s, b)
<1>3. s = Bare(r)
  BY BareIs
<1>4. c = [Bare(r) EXCEPT !.left = IF r.left = Idle THEN Idle ELSE r.left - 1,
                          !.parity = Xor(r.parity, b)]
  BY <1>3 DEF Count, Bare
<1> HIDE DEF s, c
<1>5. c.nullSeen = r.nullSeen /\ c.window = r.window
  BY <1>4 DEF Bare
<1>6. Sync(c, b) = [c EXCEPT !.nullSeen = TRUE, !.control = (b = 1), !.parity = 0, !.left = 3]
  BY <1>5 DEF Sync
<1>7. Take(r, b) = [[c EXCEPT !.nullSeen = TRUE, !.control = (b = 1), !.parity = 0, !.left = 3]
                      EXCEPT !.bitSeen = TRUE, !.window = Push(r.window, b)]
  BY <1>2, <1>3, <1>5, <1>6, ZenonT(60) DEF Take, ReceiveBit, s, c, Bare
<1> QED BY <1>4, <1>7 DEF Bare, Receiver

(* The bit that completes a token: parity and escape are judged, the token is
   decoded. *)
LEMMA TakeJudges ==
  ASSUME NEW r \in Receiver, NEW b \in Bit, r.left = 0, r.nullSeen
  PROVE  LET q == Take(r, b)
         IN /\ q.bitSeen = TRUE /\ q.nullSeen = TRUE /\ q.window = Push(r.window, b)
            /\ q.left = (IF b = 1 THEN 3 ELSE WordBits + 1) /\ q.parity = 0
            /\ q.control = (b = 1)
            /\ badParity(r, b) => /\ q.escaped = r.escaped /\ q.got = NoToken
                                  /\ q.errpar = TRUE /\ q.erresc = r.erresc
            /\ ~badParity(r, b) => /\ q.escaped = isEsc(r) /\ q.got = decoded(r)
                                   /\ q.errpar = r.errpar /\ q.erresc = (r.erresc \/ badEsc(r))
<1>1. r.window \in [1..9 -> Bit]
  BY DEF Receiver
<1>2. Append(Tail(r.window), b) = Push(r.window, b)
  BY <1>1, PushIs
<1> DEFINE s == [r EXCEPT !.got = NoToken]
<1>3. s = Bare(r)
  BY BareIs
<1>4. s.window = r.window /\ s.control = r.control /\ s.escaped = r.escaped /\ s.parity = r.parity
      /\ s.left = r.left /\ s.nullSeen = r.nullSeen
  BY <1>3 DEF Bare
<1> HIDE DEF s
<1>5. decoded(s) = decoded(r) /\ isEsc(s) = isEsc(r) /\ badEsc(s) = badEsc(r) /\ badParity(s, b) = badParity(r, b)
  BY <1>4 DEF decoded, isEsc, badEsc, badParity, contents, lastTwo
<1> DEFINE j == Judge(s, b)
           c == Start(j, b)
<1>6. j.nullSeen = TRUE /\ j.window = r.window
  <2>1. CASE badParity(r, b)
    <3>1. j = [Bare(r) EXCEPT !.errpar = TRUE]
      BY <1>3, <1>5, <2>1 DEF Judge
    <3> HIDE DEF j
    <3> QED BY <3>1 DEF Bare, Receiver
  <2>2. CASE ~badParity(r, b)
    <3>1. j = [Bare(r) EXCEPT !.got = decoded(r), !.escaped = isEsc(r), !.erresc = r.erresc \/ badEsc(r)]
      BY <1>3, <1>5, <2>2 DEF Judge, Bare
    <3> HIDE DEF j
    <3> QED BY <3>1 DEF Bare, Receiver
  <2> QED BY <2>1, <2>2
<1>7. /\ badParity(r, b) => /\ j.escaped = r.escaped /\ j.got = NoToken
                            /\ j.errpar = TRUE /\ j.erresc = r.erresc
      /\ ~badParity(r, b) => /\ j.escaped = isEsc(r) /\ j.got = decoded(r)
                             /\ j.errpar = r.errpar /\ j.erresc = (r.erresc \/ badEsc(r))
  <2>1. CASE badParity(r, b)
    <3>1. j = [Bare(r) EXCEPT !.errpar = TRUE]
      BY <1>3, <1>5, <2>1 DEF Judge
    <3> HIDE DEF j
    <3> QED BY <3>1, <2>1 DEF Bare
  <2>2. CASE ~badParity(r, b)
    <3>1. j = [Bare(r) EXCEPT !.got = decoded(r), !.escaped = isEsc(r), !.erresc = r.erresc \/ badEsc(r)]
      BY <1>3, <1>5, <2>2 DEF Judge, Bare
    <3> HIDE DEF j
    <3> QED BY <3>1, <2>2 DEF Bare
  <2> QED BY <2>1, <2>2
<1>8. c = [j EXCEPT !.parity = 0, !.control = (b = 1), !.left = IF b = 1 THEN 3 ELSE WordBits + 1]
  BY DEF Start
<1> HIDE DEF j, c
<1>9. c.nullSeen = TRUE /\ c.window = r.window
  BY <1>6, <1>8 DEF Receiver
<1>10. Sync(c, b) = c
  BY <1>9 DEF Sync
<1>11. Take(r, b) = [c EXCEPT !.bitSeen = TRUE, !.window = Push(r.window, b)]
  BY <1>2, <1>4, <1>9, <1>10 DEF Take, ReceiveBit, s, c, j
<1> QED BY <1>6, <1>7, <1>8, <1>11 DEF Receiver

(* What a bit leaves is a receiver again. *)
LEMMA TakeReceiver ==
  ASSUME NEW r \in Receiver, NEW b \in Bit
  PROVE  Take(r, b) \in Receiver /\ [r EXCEPT !.got = NoToken] \in Receiver
<1> DEFINE s == [r EXCEPT !.got = NoToken]
           cut == IF s.left = 0 THEN Start(Judge(s, b), b) ELSE Count(s, b)
<1>1. s \in Receiver
  BY DEF Receiver
<1>2. ASSUME NEW q \in Receiver PROVE Judge(q, b) \in Receiver
  <2>1. isEsc(q) \in BOOLEAN /\ badEsc(q) \in BOOLEAN
    BY DEF isEsc, badEsc, Receiver
  <2>2. decoded(q) \in Token \cup {NoToken}
    BY DecodedIs
  <2>3. [q EXCEPT !.errpar = TRUE] \in Receiver
    BY DEF Receiver
  <2>4. [q EXCEPT !.got = decoded(q), !.escaped = isEsc(q), !.erresc = @ \/ badEsc(q)] \in Receiver
    BY <2>1, <2>2, ZenonT(60) DEF Receiver
  <2> QED BY <2>3, <2>4 DEF Judge
<1>3. ASSUME NEW q \in Receiver PROVE Start(q, b) \in Receiver
  <2>1. 0 \in Bit /\ (b = 1) \in BOOLEAN /\ (IF b = 1 THEN 3 ELSE WordBits + 1) \in 0..Idle
    BY WordIsShort DEF Bit
  <2> QED BY <2>1 DEF Start, Receiver
<1>4. ASSUME NEW q \in Receiver, q.left # 0 PROVE Count(q, b) \in Receiver
  <2>1. q.parity \in Bit /\ q.left \in 0..Idle
    BY DEF Receiver
  <2>2. Xor(q.parity, b) \in Bit
    BY <2>1 DEF Xor, Bit
  <2>3. (IF q.left = Idle THEN Idle ELSE q.left - 1) \in 0..Idle
    BY <1>4, <2>1, WordIsShort
  <2>4. Count(q, b) = [q EXCEPT !.left = IF q.left = Idle THEN Idle ELSE q.left - 1, !.parity = Xor(q.parity, b)]
    BY DEF Count
  <2> QED BY <2>2, <2>3, <2>4 DEF Receiver
<1>5. ASSUME NEW q \in Receiver PROVE Sync(q, b) \in Receiver
  <2>1. 0 \in Bit /\ (b = 1) \in BOOLEAN /\ 3 \in 0..Idle
    BY WordIsShort DEF Bit
  <2> QED BY <2>1 DEF Sync, Receiver
<1>6. cut \in Receiver
  <2>1. CASE s.left = 0
    BY <1>1, <1>2, <1>3, <2>1
  <2>2. CASE s.left # 0
    BY <1>1, <1>4, <2>2
  <2> QED BY <2>1, <2>2
<1>7. Sync(cut, b) \in Receiver
  BY <1>5, <1>6
<1>8. Append(Tail(s.window), b) \in [1..9 -> Bit]
  <2>1. s.window \in [1..9 -> Bit]
    BY <1>1 DEF Receiver
  <2> QED BY <2>1, PushIs
<1>9. Take(r, b) = [Sync(cut, b) EXCEPT !.bitSeen = TRUE, !.window = Append(Tail(s.window), b)]
  BY DEF Take, ReceiveBit
<1> HIDE DEF s, cut
<1>10. Take(r, b) \in Receiver
  <2> DEFINE q == Sync(cut, b)
             w == Append(Tail(s.window), b)
  <2>1. q \in Receiver /\ w \in [1..9 -> Bit]
    BY <1>7, <1>8
  <2>2. Take(r, b) = [q EXCEPT !.bitSeen = TRUE, !.window = w]
    BY <1>9
  <2> HIDE DEF q, w
  <2> QED BY <2>1, <2>2 DEF Receiver
<1> QED BY <1>1, <1>10 DEF s

(***************************************************************************)
(* Tokens and their bits, one after the other.                             *)
(***************************************************************************)
Sendable == Token \cup {NoToken}     \* NoToken stands for a NULL
Prefixed == {NoToken} \cup {Time(w) : w \in Word}

Contents(t) == IF t.kind = "data" \/ t.kind = "time" THEN t.word
               ELSE IF t.kind = "eop" THEN <<0, 1>>
               ELSE IF t.kind = "eep" THEN <<1, 0>>
               ELSE <<0, 0>>                \* an FCT, also the one that ends a NULL
Flag(t) == IF t.kind \in {"data", "time"} THEN 0 ELSE 1   \* of the contents
LastPart(t)  == Cons(Flag(t), Contents(t))
AfterPrefix(t) == Cons(Not(Flag(t)), LastPart(t))

(* The head and the tail of a sequence built with Cons. *)
LEMMA ConsOf ==
  ASSUME NEW S, NEW a \in S, NEW s \in Seq(S)
  PROVE  /\ Cons(a, s) \in Seq(S) /\ Cons(a, s) # <<>>
         /\ Head(Cons(a, s)) = a /\ Tail(Cons(a, s)) = s
         /\ Len(Cons(a, s)) = Len(s) + 1
<1>1. <<a>> \in Seq(S) /\ Len(<<a>>) = 1
  OBVIOUS
<1>2. /\ Cons(a, s) \in Seq(S) /\ Len(Cons(a, s)) = 1 + Len(s)
      /\ \A i \in 1..(1 + Len(s)) : Cons(a, s)[i] = IF i <= 1 THEN <<a>>[i] ELSE s[i - 1]
  BY <1>1, ConcatProperties DEF Cons
<1>3. Len(s) \in Nat
  OBVIOUS
<1> DEFINE c == Cons(a, s)
<1> HIDE DEF c
<1>4. c # <<>>
  <2> SUFFICES ASSUME c = <<>> PROVE FALSE
    OBVIOUS
  <2>1. Len(c) = 0
    BY EmptySeq
  <2> QED BY <1>2, <1>3, <2>1 DEF c
<1>5. Head(c) = c[1]
  BY <1>2, <1>4 DEF c
<1>6. c[1] = a
  BY <1>2, <1>3 DEF c
<1>7. Tail(c) = s
  <2>1. c \in Seq(S) /\ Len(c) = 1 + Len(s)
    BY <1>2 DEF c
  <2>2. \A i \in 1..Len(s) : c[i + 1] = s[i]
    BY <1>2, <1>3 DEF c
  <2>3. /\ Tail(c) \in Seq(S) /\ Len(Tail(c)) = Len(c) - 1
        /\ \A i \in 1..Len(Tail(c)) : Tail(c)[i] = c[i + 1]
    BY <2>1, <1>4, HeadTailProperties
  <2>4. Len(Tail(c)) = Len(s)
    BY <2>1, <2>3, <1>3
  <2> DEFINE d == Tail(c)
  <2>5. d \in Seq(S) /\ Len(d) = Len(s) /\ \A i \in 1..Len(s) : d[i] = s[i]
    BY <2>2, <2>3, <2>4
  <2> HIDE DEF d
  <2>6. d = s
    BY <2>5, SeqEqual
  <2> QED BY <2>6 DEF d
<1> QED BY <1>2, <1>3, <1>4, <1>5, <1>6, <1>7 DEF c

(* The same for bits. *)
LEMMA ConsIs ==
  ASSUME NEW a \in Bit, NEW s \in Seq(Bit)
  PROVE  /\ Cons(a, s) \in Seq(Bit) /\ Cons(a, s) # <<>>
         /\ Head(Cons(a, s)) = a /\ Tail(Cons(a, s)) = s
         /\ Len(Cons(a, s)) = Len(s) + 1
BY ConsOf

(* A nonempty sequence of bits is its head and its tail. *)
LEMMA SeqIsCons ==
  ASSUME NEW s \in Seq(Bit), s # <<>>
  PROVE  Head(s) \in Bit /\ Tail(s) \in Seq(Bit) /\ s = Cons(Head(s), Tail(s)) /\ Len(Tail(s)) = Len(s) - 1
<1>1. Head(s) \in Bit /\ Tail(s) \in Seq(Bit) /\ Len(Tail(s)) = Len(s) - 1
  BY HeadTailProperties
<1>2. s = Cons(Head(s), Tail(s))
  <2> DEFINE c == Cons(Head(s), Tail(s))
  <2>1. c \in Seq(Bit) /\ Head(c) = Head(s) /\ Tail(c) = Tail(s) /\ Len(c) = Len(s) /\ c # <<>>
    <3>1. c \in Seq(Bit) /\ Head(c) = Head(s) /\ Tail(c) = Tail(s) /\ c # <<>>
      BY <1>1, ConsIs
    <3>2. Len(c) = Len(Tail(s)) + 1
      BY <1>1, ConsIs
    <3> QED BY <1>1, <3>1, <3>2
  <2> HIDE DEF c
  <2>2. c[1] = s[1]
    BY <2>1
  <2>3. ASSUME NEW i \in 1..Len(s), i # 1 PROVE c[i] = s[i]
    <3>1. i - 1 \in 1..Len(Tail(s)) /\ (i - 1) + 1 = i
      BY <1>1, <2>3
    <3>2. \A j \in 1..Len(Tail(s)) : Tail(s)[j] = s[j + 1]
      BY HeadTailProperties
    <3>3. \A j \in 1..Len(Tail(c)) : Tail(c)[j] = c[j + 1]
      BY <2>1, HeadTailProperties
    <3> QED BY <2>1, <3>1, <3>2, <3>3
  <2>4. \A i \in 1..Len(c) : c[i] = s[i]
    BY <2>1, <2>2, <2>3
  <2>5. c = s
    BY <2>1, <2>4, SeqEqual
  <2> QED BY <2>5 DEF c
<1> QED BY <1>1, <1>2

(* The kinds of token. *)
LEMMA TokenIs ==
  ASSUME NEW t \in Sendable
  PROVE  /\ t = NoToken \/ t = Fct \/ t = Ctrl("eop") \/ t = Ctrl("eep")
            \/ (\E w \in Word : t = [kind |-> "data", word |-> w]) \/ (\E w \in Word : t = Time(w))
         /\ Flag(t) \in Bit /\ Contents(t) \in Seq(Bit)
<1>1. t = NoToken \/ t = Fct \/ t = Ctrl("eop") \/ t = Ctrl("eep")
      \/ (\E w \in Word : t = [kind |-> "data", word |-> w]) \/ (\E w \in Word : t = Time(w))
  BY DEF Sendable, Token, NChars, Ctrl
<1>2. \A w \in Word : w \in Seq(Bit)
  BY IsSeq, WordIsShort DEF Word
<1>3. 0 \in Bit /\ 1 \in Bit
  BY DEF Bit
<1>4. <<0, 0>> \in Seq(Bit) /\ <<0, 1>> \in Seq(Bit) /\ <<1, 0>> \in Seq(Bit)
  BY <1>3
<1>5. Flag(t) \in Bit
  BY <1>3 DEF Flag
<1>6. Contents(t) \in Seq(Bit)
  BY <1>1, <1>2, <1>4 DEF Contents, Time, Ctrl, Fct, NoToken
<1> QED BY <1>1, <1>5, <1>6

(* A token is its parts: at once, or behind the prefix ESC. *)
LEMMA BitsAre ==
  ASSUME NEW t \in Sendable
  PROVE  /\ LastPart(t) \in Seq(Bit) /\ AfterPrefix(t) \in Seq(Bit)
         /\ t \notin Prefixed => Bits(t) = LastPart(t) /\ startParity(t) = Flag(t)
         /\ t \in Prefixed => /\ Bits(t) = Cons(1, Cons(1, Cons(1, AfterPrefix(t))))
                              /\ startParity(t) = 0
<1>1. Flag(t) \in Bit /\ Contents(t) \in Seq(Bit) /\ Not(Flag(t)) \in Bit /\ 1 \in Bit
  BY TokenIs, BitOps DEF Bit
<1>2. LastPart(t) \in Seq(Bit) /\ AfterPrefix(t) \in Seq(Bit)
  BY <1>1, ConsIs DEF LastPart, AfterPrefix
<1>3. t \notin Prefixed => Bits(t) = LastPart(t) /\ startParity(t) = Flag(t)
  <2>1. CASE t = Fct
    <3>1. <<1, 0, 0>> = <<1>> \o <<0, 0>>
      OBVIOUS
    <3> QED BY <2>1, <3>1 DEF Fct, Bits, LastPart, Cons, Flag, Contents, startParity
  <2>2. CASE t = Ctrl("eop")
    <3>1. <<1, 0, 1>> = <<1>> \o <<0, 1>>
      OBVIOUS
    <3> QED BY <2>2, <3>1 DEF Ctrl, Bits, LastPart, Cons, Flag, Contents, startParity
  <2>3. CASE t = Ctrl("eep")
    <3>1. <<1, 1, 0>> = <<1>> \o <<1, 0>>
      OBVIOUS
    <3> QED BY <2>3, <3>1 DEF Ctrl, Bits, LastPart, Cons, Flag, Contents, startParity
  <2>4. ASSUME NEW w \in Word, t = [kind |-> "data", word |-> w]
        PROVE  Bits(t) = LastPart(t) /\ startParity(t) = Flag(t)
    <3>1. t.kind = "data" /\ t.word = w
      BY <2>4
    <3>2. Bits(t) = <<0>> \o w /\ Flag(t) = 0 /\ Contents(t) = w
      BY <3>1 DEF Bits, Flag, Contents
    <3>3. w \in Seq(Bit) /\ 0 \in Bit
      BY <3>2, TokenIs
    <3>4. Head(<<0>> \o w) = 0
      BY <3>3, ConsIs DEF Cons
    <3>5. startParity(t) = 0
      BY <3>1, <3>2, <3>4 DEF startParity
    <3> QED BY <3>2, <3>5 DEF LastPart, Cons
  <2> QED BY <2>1, <2>2, <2>3, <2>4, TokenIs DEF Prefixed
<1>4. t \in Prefixed => Bits(t) = Cons(1, Cons(1, Cons(1, AfterPrefix(t)))) /\ startParity(t) = 0
  <2> DEFINE e(s) == Cons(1, Cons(1, Cons(1, s)))
  <2>1. ASSUME NEW s \in Seq(Bit) PROVE <<1, 1, 1>> \o s = e(s)
    <3> DEFINE o == <<1>>
    <3>1. o \in Seq(Bit) /\ <<1, 1>> = o \o o /\ <<1, 1, 1>> = (o \o o) \o o /\ o \o o \in Seq(Bit)
      BY <1>1
    <3> HIDE DEF o
    <3>2. ((o \o o) \o o) \o s = (o \o o) \o (o \o s)
      BY <3>1, ConcatAssociative
    <3>3. o \o s \in Seq(Bit)
      BY <3>1, ConcatProperties
    <3>4. (o \o o) \o (o \o s) = o \o (o \o (o \o s))
      BY <3>1, <3>3, ConcatAssociative
    <3>5. e(s) = o \o (o \o (o \o s))
      BY DEF o, Cons
    <3> QED BY <3>1, <3>2, <3>4, <3>5
  <2> HIDE DEF e
  <2>2. ASSUME t = NoToken PROVE Bits(t) = e(AfterPrefix(t)) /\ startParity(t) = 0
    <3>1. Bits(t) = <<1, 1, 1>> \o <<0, 1, 0, 0>>
      BY <2>2 DEF NoToken, Bits, EscBits
    <3>2. AfterPrefix(t) = <<0, 1, 0, 0>>
      <4>1. <<0, 1, 0, 0>> = <<0>> \o (<<1>> \o <<0, 0>>)
        OBVIOUS
      <4>2. Flag(t) = 1 /\ Contents(t) = <<0, 0>> /\ Not(1) = 0
        BY <2>2 DEF NoToken, Flag, Contents, Not
      <4> QED BY <4>1, <4>2 DEF AfterPrefix, LastPart, Cons
    <3> QED BY <1>2, <2>1, <2>2, <3>1, <3>2 DEF startParity, NoToken
  <2>3. ASSUME NEW w \in Word, t = Time(w) PROVE Bits(t) = e(AfterPrefix(t)) /\ startParity(t) = 0
    <3>1. t.kind = "time" /\ t.word = w
      BY <2>3 DEF Time
    <3>2. Bits(t) = <<1, 1, 1>> \o <<1, 0>> \o w /\ Flag(t) = 0 /\ Contents(t) = w /\ Not(0) = 1
      BY <3>1 DEF Bits, Flag, Contents, EscBits, Not
    <3>3. w \in Seq(Bit) /\ <<1, 1, 1>> \in Seq(Bit) /\ <<1, 0>> \in Seq(Bit) /\ <<0>> \in Seq(Bit) /\ <<1>> \in Seq(Bit)
      BY <3>2, TokenIs DEF Bit
    <3>4. (<<1, 1, 1>> \o <<1, 0>>) \o w = <<1, 1, 1>> \o (<<1, 0>> \o w)
      BY <3>3, ConcatAssociative
    <3>5. <<1, 0>> \o w = <<1>> \o (<<0>> \o w)
      <4>1. <<1, 0>> = <<1>> \o <<0>>
        OBVIOUS
      <4>2. (<<1>> \o <<0>>) \o w = <<1>> \o (<<0>> \o w)
        BY <3>3, ConcatAssociative
      <4> QED BY <4>1, <4>2
    <3>6. AfterPrefix(t) = <<1, 0>> \o w
      BY <3>2, <3>5 DEF AfterPrefix, LastPart, Cons
    <3>7. Bits(t) = e(AfterPrefix(t))
      BY <1>2, <2>1, <3>2, <3>4, <3>6
    <3> QED BY <3>1, <3>7 DEF startParity
  <2>4. t \in Prefixed => Bits(t) = e(AfterPrefix(t)) /\ startParity(t) = 0
    BY <2>2, <2>3 DEF Prefixed
  <2> QED BY <2>4 DEF e
<1> QED BY <1>2, <1>3, <1>4

(* The tokens accepted for t: none when t is a NULL. *)
Tok(t) == IF t = NoToken THEN <<>> ELSE <<t>>

(* An FCT, EOP or EEP has two bits of contents, data and a Time-Code a word. *)
LEMMA ContentsLength ==
  ASSUME NEW t \in Sendable
  PROVE  /\ Flag(t) = 1 => Len(Contents(t)) = 2
         /\ Flag(t) = 0 => Len(Contents(t)) = WordBits
<1>1. \A w \in Word : Len(w) = WordBits
  BY IsSeq, WordIsShort DEF Word
<1>2. Len(<<0, 0>>) = 2 /\ Len(<<0, 1>>) = 2 /\ Len(<<1, 0>>) = 2
  OBVIOUS
<1> QED BY <1>1, <1>2, TokenIs DEF Flag, Contents, Time, Ctrl, Fct, NoToken

(* A receiver that has the contents and the parity bit of t, before it is judged. *)
LEMMA Decodes ==
  ASSUME NEW t \in Sendable, NEW q \in Receiver,
         q.control <=> Flag(t) = 1, q.escaped <=> t \in Prefixed,
         \A i \in 1..Len(Contents(t)) : q.window[8 - Len(Contents(t)) + i] = Contents(t)[i]
  PROVE  decoded(q) = t /\ ~isEsc(q) /\ ~badEsc(q)
<1>1. CASE Flag(t) = 0
  <2>1. Len(Contents(t)) = WordBits /\ Contents(t) \in Seq(Bit)
    BY <1>1, ContentsLength, TokenIs
  <2>2. contents(q) \in Word /\ contents(q) = [i \in 1..WordBits |-> q.window[8 - WordBits + i]]
    BY ContentsIs
  <2>3. contents(q) \in Seq(Bit) /\ Len(contents(q)) = WordBits
    <3>1. WordBits \in Nat
      BY WordIsShort
    <3>2. contents(q) \in [1..WordBits -> Bit]
      BY <2>2, Zenon DEF Word
    <3> QED BY <3>1, <3>2, IsSeq
  <2>4. \A i \in 1..WordBits : contents(q)[i] = Contents(t)[i]
    BY <2>1, <2>2
  <2>5. contents(q) = Contents(t)
    BY <2>1, <2>3, <2>4, SeqEqual
  <2>6. ~q.control
    BY <1>1
  <2>7. CASE \E w \in Word : t = [kind |-> "data", word |-> w]
    <3>1. t \notin Prefixed /\ t = [kind |-> "data", word |-> Contents(t)]
      <4>1. PICK w \in Word : t = [kind |-> "data", word |-> w]
        BY <2>7
      <4>2. t.kind = "data" /\ t.word = w
        BY <4>1
      <4>3. t # NoToken /\ \A v \in Word : t # Time(v)
        BY <4>2 DEF NoToken, Time
      <4> QED BY <4>1, <4>2, <4>3 DEF Prefixed, Contents
    <3> QED BY <2>5, <2>6, <3>1 DEF decoded, isEsc, badEsc
  <2>8. CASE \E w \in Word : t = Time(w)
    <3>1. t \in Prefixed /\ t = Time(Contents(t))
      BY <2>8 DEF Prefixed, Time, Contents
    <3> QED BY <2>5, <2>6, <3>1 DEF decoded, isEsc, badEsc
  <2> QED BY <1>1, <2>7, <2>8, TokenIs DEF Flag, Fct, NoToken, Ctrl
<1>2. CASE Flag(t) = 1
  <2>1. Len(Contents(t)) = 2 /\ Contents(t) \in Seq(Bit)
    BY <1>2, ContentsLength, TokenIs
  <2>2. q.window[7] = Contents(t)[1] /\ q.window[8] = Contents(t)[2]
    <3>1. 1 \in 1..2 /\ 2 \in 1..2 /\ 8 - 2 + 1 = 7 /\ 8 - 2 + 2 = 8
      OBVIOUS
    <3> QED BY <2>1, <3>1
  <2>3. lastTwo(q) = <<Contents(t)[1], Contents(t)[2]>>
    BY <2>2, ContentsIs
  <2>4. q.control
    BY <1>2
  <2>5. CASE t = NoToken
    <3>1. t \in Prefixed /\ Contents(t) = <<0, 0>>
      BY <2>5 DEF Prefixed, NoToken, Contents
    <3>2. lastTwo(q) = <<0, 0>>
      BY <2>3, <3>1
    <3> QED BY <2>4, <2>5, <3>1, <3>2 DEF decoded, isEsc, badEsc
  <2>6. CASE t = Fct
    <3>1. t \notin Prefixed /\ Contents(t) = <<0, 0>>
      BY <2>6 DEF Prefixed, NoToken, Contents, Fct, Time
    <3>2. lastTwo(q) = <<0, 0>>
      BY <2>3, <3>1
    <3> QED BY <2>4, <2>6, <3>1, <3>2 DEF decoded, isEsc, badEsc
  <2>7. CASE t = Ctrl("eop")
    <3>1. t \notin Prefixed /\ Contents(t) = <<0, 1>>
      BY <2>7 DEF Prefixed, NoToken, Contents, Ctrl, Time
    <3>2. lastTwo(q) = <<0, 1>>
      BY <2>3, <3>1
    <3> QED BY <2>4, <2>7, <3>1, <3>2 DEF decoded, isEsc, badEsc
  <2>8. CASE t = Ctrl("eep")
    <3>1. t \notin Prefixed /\ Contents(t) = <<1, 0>>
      BY <2>8 DEF Prefixed, NoToken, Contents, Ctrl, Time
    <3>2. lastTwo(q) = <<1, 0>>
      BY <2>3, <3>1
    <3> QED BY <2>4, <2>8, <3>1, <3>2 DEF decoded, isEsc, badEsc
  <2>9. (\A w \in Word : t # [kind |-> "data", word |-> w]) /\ (\A w \in Word : t # Time(w))
    BY <1>2 DEF Flag, Time
  <2> QED BY <2>5, <2>6, <2>7, <2>8, <2>9, TokenIs
<1> QED BY <1>1, <1>2 DEF Flag

(* What is appended leaves the front of a sequence as it is. *)
LEMMA FrontStays ==
  ASSUME NEW S, NEW s \in Seq(S), NEW u \in Seq(S), s # <<>>
  PROVE  s \o u # <<>> /\ Head(s \o u) = Head(s) /\ Tail(s \o u) = Tail(s) \o u
<1>1. Len(s) \in Nat /\ Len(s) # 0 /\ Len(u) \in Nat
  <2>1. Len(s) = 0 => s = <<>>
    BY EmptySeq
  <2> QED BY <2>1
<1> DEFINE c == s \o u
<1>2. c \in Seq(S)
  BY ConcatProperties
<1>3. Len(c) = Len(s) + Len(u)
  BY ConcatProperties
<1>4. \A i \in 1..(Len(s) + Len(u)) : c[i] = IF i <= Len(s) THEN s[i] ELSE u[i - Len(s)]
  BY ConcatProperties
<1>5. Tail(s) \in Seq(S) /\ Len(Tail(s)) = Len(s) - 1
  BY HeadTailProperties
<1>6. \A i \in 1..Len(Tail(s)) : Tail(s)[i] = s[i + 1]
  BY HeadTailProperties
<1> DEFINE d == Tail(s) \o u
<1>7. d \in Seq(S)
  BY <1>5, ConcatProperties
<1>8. Len(d) = Len(Tail(s)) + Len(u)
  BY <1>5, ConcatProperties
<1>9. \A i \in 1..(Len(Tail(s)) + Len(u)) : d[i] = IF i <= Len(Tail(s)) THEN Tail(s)[i] ELSE u[i - Len(Tail(s))]
  BY <1>5, ConcatProperties
<1> HIDE DEF c, d
<1>10. c # <<>>
  <2> SUFFICES ASSUME c = <<>> PROVE FALSE
    OBVIOUS
  <2>1. Len(c) = 0
    BY EmptySeq
  <2> QED BY <1>1, <1>3, <2>1
<1>11. Head(c) = Head(s)
  <2>1. c[1] = s[1]
    BY <1>1, <1>4
  <2> QED BY <1>10, <2>1
<1>12. Tail(c) \in Seq(S) /\ Len(Tail(c)) = Len(c) - 1
  BY <1>2, <1>10, HeadTailProperties
<1>13. \A i \in 1..Len(Tail(c)) : Tail(c)[i] = c[i + 1]
  BY <1>2, <1>10, HeadTailProperties
<1>14. Len(Tail(c)) = Len(d)
  BY <1>1, <1>3, <1>5, <1>8, <1>12
<1>15. \A i \in 1..Len(d) : Tail(c)[i] = d[i]
  <2> SUFFICES ASSUME NEW i \in 1..Len(d) PROVE Tail(c)[i] = d[i]
    OBVIOUS
  <2>1. Tail(c)[i] = c[i + 1] /\ i \in 1..(Len(s) - 1 + Len(u)) /\ i + 1 \in 1..(Len(s) + Len(u))
    BY <1>1, <1>5, <1>8, <1>13, <1>14
  <2>2. CASE i <= Len(s) - 1
    <3>1. c[i + 1] = s[i + 1] /\ d[i] = Tail(s)[i] /\ Tail(s)[i] = s[i + 1]
      BY <1>1, <1>4, <1>5, <1>6, <1>9, <2>1, <2>2
    <3> QED BY <2>1, <3>1
  <2>3. CASE ~(i <= Len(s) - 1)
    <3>1. c[i + 1] = u[i + 1 - Len(s)] /\ d[i] = u[i - (Len(s) - 1)]
      BY <1>1, <1>4, <1>5, <1>9, <2>1, <2>3
    <3>2. i + 1 - Len(s) = i - (Len(s) - 1)
      BY <1>1
    <3> QED BY <2>1, <3>1, <3>2
  <2> QED BY <2>2, <2>3
<1>16. Tail(c) = d
  BY <1>7, <1>12, <1>14, <1>15, SeqEqual
<1> QED BY <1>10, <1>11, <1>16 DEF c, d

(* A clock with no bit or with one: the fold over the chunk is one step or none. *)
LEMMA ReceivedIs ==
  ASSUME NEW chunk, chunk = <<>> \/ \E b : chunk = <<b>>
  PROVE  received(chunk) = IF chunk = <<>> THEN [rx EXCEPT !.got = NoToken] ELSE ReceiveBit([rx EXCEPT !.got = NoToken], chunk[1])
<1> DEFINE r == [rx EXCEPT !.got = NoToken]
           D == DOMAIN chunk
           It == CHOOSE iter : iter = [s \in SUBSET D |-> IF s = {} THEN r ELSE LET x == Max(s) IN ReceiveBit(iter[s \ {x}], chunk[x])]
           W == [s \in SUBSET D |-> IF s = {} THEN r ELSE ReceiveBit(r, chunk[1])]
<1>1. received(chunk) = It[D]
  BY DEF FoldLeft, MapThenFoldSet, received
<1>2. (D = {} /\ chunk = <<>>) \/ (D = {1} /\ chunk # <<>>)
  <2>1. CASE chunk = <<>>
    <3>1. DOMAIN chunk = 1..0
      BY <2>1
    <3>2. 1..0 = {}
      OBVIOUS
    <3>3. D = {}
      BY <3>1, <3>2
    <3> QED BY <3>3, <2>1
  <2>2. ASSUME NEW b, chunk = <<b>> PROVE D = {1} /\ chunk # <<>>
    <3>1. DOMAIN chunk = 1..1
      BY <2>2
    <3>2. chunk # <<>>
      BY <2>2
    <3> QED BY <3>1, <3>2
  <2> QED BY <2>1, <2>2
<1>3. Max({1}) = 1
  BY DEF Max
<1>4. W = [s \in SUBSET D |-> IF s = {} THEN r ELSE LET x == Max(s) IN ReceiveBit(W[s \ {x}], chunk[x])]
  <2>1. ASSUME NEW s \in SUBSET D, s # {} PROVE s = {1}
    BY <1>2, <2>1
  <2>2. ASSUME NEW s \in SUBSET D PROVE W[s] = IF s = {} THEN r ELSE LET x == Max(s) IN ReceiveBit(W[s \ {x}], chunk[x])
    <3>1. CASE s = {}
      BY <3>1
    <3>2. CASE s # {}
      <4>1. s = {1} /\ s \ {1} = {} /\ {} \in SUBSET D
        BY <2>1, <3>2
      <4>2. W[{}] = r
        OBVIOUS
      <4>3. W[s] = ReceiveBit(r, chunk[1])
        BY <4>1
      <4> QED BY <1>3, <4>1, <4>2, <4>3, <3>2
    <3> QED BY <3>1, <3>2
  <2> QED BY <2>2
<1>5. It = [s \in SUBSET D |-> IF s = {} THEN r ELSE LET x == Max(s) IN ReceiveBit(It[s \ {x}], chunk[x])]
  BY <1>4
<1> HIDE DEF It, W
<1>6. It[{}] = r
  BY <1>5
<1>7. D = {1} => It[{1}] = ReceiveBit(r, chunk[1])
  <2> HAVE D = {1}
  <2>1. {1} \ {1} = {}
    OBVIOUS
  <2>2. {1} \in SUBSET D /\ {1} # {}
    OBVIOUS
  <2>3. It[{1}] = ReceiveBit(It[{1} \ {Max({1})}], chunk[Max({1})])
    BY <1>5, <2>2
  <2> QED BY <2>1, <2>3, <1>3, <1>6
<1> QED BY <1>1, <1>2, <1>6, <1>7

(***************************************************************************)
(* A receiver, and a receiver with the tokens that are on their way to it. *)
(***************************************************************************)
Rest(r) == [r EXCEPT !.got = NoToken]

(* A receiver as it can be: it counts bits exactly when it has seen a NULL. *)
Whole(r) ==
  /\ r \in Receiver
  /\ r.nullSeen <=> r.left # Idle
  /\ ~r.nullSeen => ~r.escaped /\ ~r.errpar /\ ~r.erresc
  /\ ~r.bitSeen => ~r.nullSeen /\ r.window = [i \in 1..9 |-> 1]

(* What a receiver has seen it does not forget while it is on. *)
Keeps(r, q) ==
  /\ r.bitSeen => q.bitSeen
  /\ r.nullSeen => q.nullSeen
  /\ r.errpar => q.errpar
  /\ r.erresc => q.erresc

(* A clock without a bit changes got alone. *)
LEMMA RestIs ==
  ASSUME NEW r \in Receiver
  PROVE  /\ Rest(r) \in Receiver /\ Rest(r).got = NoToken
         /\ Rest(r).bitSeen = r.bitSeen /\ Rest(r).nullSeen = r.nullSeen
         /\ Rest(r).window = r.window /\ Rest(r).left = r.left /\ Rest(r).parity = r.parity
         /\ Rest(r).control = r.control /\ Rest(r).escaped = r.escaped
         /\ Rest(r).errpar = r.errpar /\ Rest(r).erresc = r.erresc
<1>1. Rest(r) = Bare(r)
  BY BareIs DEF Rest
<1>2. Rest(r) \in Receiver
  BY DEF Rest, Receiver
<1> QED BY <1>1, <1>2 DEF Bare

(* It leaves a receiver whole. *)
LEMMA WholeRest ==
  ASSUME NEW r, Whole(r)
  PROVE  Whole(Rest(r)) /\ Keeps(r, Rest(r))
<1>1. r \in Receiver
  BY DEF Whole
<1> DEFINE q == Rest(r)
<1>2. /\ q \in Receiver /\ q.got = NoToken
      /\ q.bitSeen = r.bitSeen /\ q.nullSeen = r.nullSeen
      /\ q.window = r.window /\ q.left = r.left
      /\ q.escaped = r.escaped
      /\ q.errpar = r.errpar /\ q.erresc = r.erresc
  BY <1>1, RestIs
<1> HIDE DEF q
<1>3. Whole(q) /\ Keeps(r, q)
  BY <1>2 DEF Whole, Keeps
<1> QED BY <1>3 DEF q

(* So does a bit, whatever it is. *)
LEMMA WholeTake ==
  ASSUME NEW r, Whole(r), NEW b \in Bit
  PROVE  Whole(Take(r, b)) /\ Keeps(r, Take(r, b)) /\ Take(r, b).bitSeen
<1> DEFINE q == Take(r, b)
<1>1. r \in Receiver
  BY DEF Whole
<1>2. q \in Receiver
  BY <1>1, TakeReceiver
<1>3. /\ r.left # Idle /\ r.left # 0 => r.left - 1 # Idle
      /\ 3 # Idle /\ WordBits + 1 # Idle /\ Idle # 0
  BY <1>1, WordIsShort DEF Receiver
<1>4. CASE r.left # 0 /\ (r.nullSeen \/ r.window # FirstNull)
  <2>1. /\ q.bitSeen = TRUE /\ q.nullSeen = r.nullSeen
        /\ q.left = IF r.left = Idle THEN Idle ELSE r.left - 1
        /\ q.escaped = r.escaped /\ q.errpar = r.errpar /\ q.erresc = r.erresc
    BY <1>1, <1>4, TakeCounts
  <2> HIDE DEF q
  <2>2. q.left = Idle <=> r.left = Idle
    BY <1>3, <1>4, <2>1
  <2>3. Whole(q)
    BY <1>2, <2>1, <2>2 DEF Whole
  <2>4. Keeps(r, q)
    BY <2>1 DEF Keeps
  <2> QED BY <2>1, <2>3, <2>4 DEF q
<1>5. CASE r.left # 0 /\ ~r.nullSeen /\ r.window = FirstNull
  <2>1. /\ q.bitSeen = TRUE /\ q.nullSeen = TRUE /\ q.left = 3
        /\ q.escaped = r.escaped /\ q.errpar = r.errpar /\ q.erresc = r.erresc
    BY <1>1, <1>5, TakeSyncs
  <2> HIDE DEF q
  <2>2. Whole(q) /\ Keeps(r, q)
    BY <1>2, <1>3, <2>1 DEF Whole, Keeps
  <2> QED BY <2>1, <2>2 DEF q
<1>6. CASE r.left = 0
  <2>1. r.nullSeen
    BY <1>3, <1>6 DEF Whole
  <2>2. /\ q.bitSeen = TRUE /\ q.nullSeen = TRUE
        /\ q.left = (IF b = 1 THEN 3 ELSE WordBits + 1)
        /\ r.errpar => q.errpar
        /\ r.erresc => q.erresc
    BY <1>1, <1>6, <2>1, TakeJudges
  <2> HIDE DEF q
  <2>3. Whole(q) /\ Keeps(r, q)
    BY <1>2, <1>3, <2>2 DEF Whole, Keeps
  <2> QED BY <2>2, <2>3 DEF q
<1> QED BY <1>4, <1>5, <1>6

(* The receiver has all of d but its parity bit, which is the next bit of t. *)
AtParity(r, fl, bits, par) ==
  \E d \in Sendable, t \in Sendable :
    /\ bits = Bits(t) /\ par = startParity(t) /\ fl = Tok(d) \o Tok(t)
    /\ r.left = 0 /\ r.parity = Not(Head(bits))
    /\ decoded(r) = d /\ ~isEsc(r) /\ ~badEsc(r)

(* The receiver is in the ESC of t. *)
InEsc(r, fl, bits, par) ==
  \E t \in Prefixed :
    /\ fl = Tok(t) /\ r.control /\ ~r.escaped
    /\ \/ /\ bits = Cons(1, Cons(1, AfterPrefix(t))) /\ par = 1
          /\ r.left = 3 /\ r.parity = 0
       \/ /\ bits = Cons(1, AfterPrefix(t)) /\ par = 0
          /\ r.left = 2 /\ r.parity = 1 /\ r.window[9] = 1
       \/ /\ bits = AfterPrefix(t) /\ par = 1
          /\ r.left = 1 /\ r.parity = 0 /\ r.window[9] = 1 /\ r.window[8] = 1

(* The receiver has the ESC of t but for its parity bit. *)
AfterEsc(r, fl, bits, par) ==
  \E t \in Prefixed :
    /\ bits = LastPart(t) /\ par = Flag(t) /\ fl = Tok(t)
    /\ r.control /\ ~r.escaped /\ r.left = 0 /\ r.parity = Not(Flag(t))
    /\ r.window[7] = 1 /\ r.window[8] = 1

(* The receiver has the flag of t and the first bits of its contents. *)
InContents(r, fl, bits, par) ==
  \E t \in Sendable :
    /\ fl = Tok(t) /\ r.left = Len(bits) + 1 /\ r.parity = par
    /\ r.control <=> Flag(t) = 1
    /\ r.escaped <=> t \in Prefixed
    /\ Len(bits) <= Len(Contents(t))
    /\ \A i \in 1..(Len(Contents(t)) - Len(bits)) :
         r.window[9 - (Len(Contents(t)) - Len(bits)) + i] = Contents(t)[i]
    /\ \A i \in 1..Len(bits) : bits[i] = Contents(t)[Len(Contents(t)) - Len(bits) + i]

(* What is still on its way when q has received. *)
Moved(fl, q) == IF q.got # NoToken THEN Tail(fl) ELSE fl

(* An FCT's flag, or that of any token, is followed by all of its contents. *)
LEMMA ContentsBegin ==
  ASSUME NEW t \in Sendable, NEW q \in Receiver,
         q.control <=> Flag(t) = 1, q.escaped <=> t \in Prefixed,
         q.left = (IF Flag(t) = 1 THEN 3 ELSE WordBits + 1), q.parity = 0
  PROVE  InContents(q, Tok(t), Contents(t), 0)
<1> DEFINE c == Contents(t)
<1>1. /\ c \in Seq(Bit)
      /\ Flag(t) \in Bit
      /\ Flag(t) = 1 => Len(c) = 2
      /\ Flag(t) = 0 => Len(c) = WordBits
  BY TokenIs, ContentsLength
<1>2. q.left = Len(c) + 1
  <2> HIDE DEF c
  <2>1. Flag(t) = 0 \/ Flag(t) = 1
    BY <1>1 DEF Bit
  <2>2. CASE Flag(t) = 0
    BY <1>1, <2>2
  <2>3. CASE Flag(t) = 1
    BY <1>1, <2>3, SMTT(60)
  <2> QED BY <2>1, <2>2, <2>3
<1>3. Len(c) \in Nat
  BY <1>1
<1>4. InContents(q, Tok(t), c, 0)
  <2> HIDE DEF c
  <2>1. \A i \in 1..(Len(c) - Len(c)) : q.window[9 - (Len(c) - Len(c)) + i] = c[i]
    BY <1>3
  <2>2. \A i \in 1..Len(c) : c[i] = c[Len(c) - Len(c) + i]
    BY <1>3
  <2>3. Len(c) <= Len(c)
    BY <1>3
  <2> QED BY <1>2, <2>1, <2>2, <2>3 DEF InContents, c
<1> QED BY <1>4

(* One token or two on their way. *)
LEMMA TokMoves ==
  ASSUME NEW d \in Sendable, NEW t \in Sendable
  PROVE  /\ Tok(t) \in Seq(Token) /\ Tok(d) \o Tok(t) \in Seq(Token)
         /\ d # NoToken => /\ Tok(d) \o Tok(t) # <<>> /\ Head(Tok(d) \o Tok(t)) = d
                           /\ Tail(Tok(d) \o Tok(t)) = Tok(t)
         /\ d = NoToken => Tok(d) \o Tok(t) = Tok(t)
<1>1. d # NoToken => d \in Token
  BY DEF Sendable
<1>2. t # NoToken => t \in Token
  BY DEF Sendable
<1>3. Tok(t) \in Seq(Token) /\ Tok(d) \in Seq(Token)
  BY <1>1, <1>2 DEF Tok
<1>4. Tok(d) \o Tok(t) \in Seq(Token)
  BY <1>3, ConcatProperties
<1>5. d = NoToken => Tok(d) \o Tok(t) = Tok(t)
  BY <1>3 DEF Tok
<1>6. ASSUME d # NoToken
      PROVE  Tok(d) \o Tok(t) # <<>> /\ Head(Tok(d) \o Tok(t)) = d /\ Tail(Tok(d) \o Tok(t)) = Tok(t)
  <2>1. Tok(d) \o Tok(t) = Cons(d, Tok(t))
    BY <1>6 DEF Tok, Cons
  <2>2. d \in Token
    BY <1>1, <1>6
  <2>3. Cons(d, Tok(t)) # <<>> /\ Head(Cons(d, Tok(t))) = d /\ Tail(Cons(d, Tok(t))) = Tok(t)
    BY <1>3, <2>2, ConsOf
  <2> QED BY <2>1, <2>3
<1> QED BY <1>3, <1>4, <1>5, <1>6

(* The first bit of t completes d: it is judged right and delivered. *)
LEMMA ShiftAtParity ==
  ASSUME NEW r, Whole(r), r.nullSeen, NEW fl, NEW bits, NEW par, AtParity(r, fl, bits, par)
  PROVE  LET b == Head(bits)
             q == Take(r, b)
         IN /\ bits # <<>> /\ ~badParity(r, b) /\ ~badEsc(r)
            /\ decoded(r) # NoToken => fl # <<>> /\ Head(fl) = decoded(r)
            /\ \/ InEsc(q, Moved(fl, q), Tail(bits), Xor(par, b))
               \/ InContents(q, Moved(fl, q), Tail(bits), Xor(par, b))
<1>1. PICK d \in Sendable, t \in Sendable :
        /\ bits = Bits(t) /\ par = startParity(t) /\ fl = Tok(d) \o Tok(t)
        /\ r.left = 0 /\ r.parity = Not(Head(bits))
        /\ decoded(r) = d /\ ~isEsc(r) /\ ~badEsc(r)
  BY DEF AtParity
<1> DEFINE b == Head(bits)
           q == Take(r, b)
<1>2. r \in Receiver
  BY DEF Whole
<1>3. Flag(t) \in Bit /\ Contents(t) \in Seq(Bit) /\ 1 \in Bit
  BY TokenIs DEF Bit
<1>4. \/ /\ t \in Prefixed /\ b = 1 /\ bits # <<>> /\ par = 0
         /\ Tail(bits) = Cons(1, Cons(1, AfterPrefix(t)))
      \/ /\ t \notin Prefixed /\ b = Flag(t) /\ bits # <<>> /\ par = Flag(t)
         /\ Tail(bits) = Contents(t)
  <2>1. CASE t \in Prefixed
    <3> DEFINE s == Cons(1, Cons(1, AfterPrefix(t)))
    <3>1. AfterPrefix(t) \in Seq(Bit)
      BY BitsAre
    <3>2. Cons(1, AfterPrefix(t)) \in Seq(Bit)
      BY <1>3, <3>1, ConsIs
    <3>3. s \in Seq(Bit)
      BY <1>3, <3>2, ConsIs
    <3>4. bits = Cons(1, s) /\ par = 0
      BY <1>1, <2>1, BitsAre
    <3> HIDE DEF s
    <3>5. bits # <<>> /\ Head(bits) = 1 /\ Tail(bits) = s
      BY <1>3, <3>3, <3>4, ConsIs
    <3> QED BY <2>1, <3>4, <3>5 DEF s
  <2>2. CASE t \notin Prefixed
    <3>1. bits = Cons(Flag(t), Contents(t)) /\ par = Flag(t)
      BY <1>1, <2>2, BitsAre DEF LastPart
    <3>2. bits # <<>> /\ Head(bits) = Flag(t) /\ Tail(bits) = Contents(t)
      BY <1>3, <3>1, ConsIs
    <3> QED BY <2>2, <3>1, <3>2
  <2> QED BY <2>1, <2>2
<1>5. b \in Bit
  BY <1>3, <1>4
<1>6. ~badParity(r, b)
  <2>1. Not(b) \in Bit /\ Not(b) # b
    BY <1>5, BitOps DEF Bit
  <2>2. Xor(Not(b), b) = 1
    BY <1>5, <2>1, BitOps
  <2> QED BY <1>1, <2>2 DEF badParity
<1>7. q \in Receiver
  BY <1>2, <1>5, TakeReceiver
<1>8. /\ q.left = (IF b = 1 THEN 3 ELSE WordBits + 1) /\ q.parity = 0
      /\ q.control = (b = 1) /\ q.escaped = FALSE /\ q.got = d
  <2>1. /\ q.left = (IF b = 1 THEN 3 ELSE WordBits + 1) /\ q.parity = 0
        /\ q.control = (b = 1) /\ q.escaped = isEsc(r) /\ q.got = decoded(r)
    BY <1>1, <1>2, <1>5, <1>6, TakeJudges, ZenonT(60)
  <2>2. isEsc(r) \in BOOLEAN
    BY <1>2 DEF isEsc, Receiver
  <2> QED BY <1>1, <2>1, <2>2
<1>9. /\ d # NoToken => fl # <<>> /\ Head(fl) = d
      /\ Moved(fl, q) = Tok(t)
  BY <1>1, <1>8, TokMoves DEF Moved
<1>10. \/ InEsc(q, Moved(fl, q), Tail(bits), Xor(par, b))
       \/ InContents(q, Moved(fl, q), Tail(bits), Xor(par, b))
  <2>1. CASE t \in Prefixed
    <3>1. b = 1 /\ par = 0 /\ Tail(bits) = Cons(1, Cons(1, AfterPrefix(t)))
      BY <1>4, <2>1
    <3>2. Xor(par, b) = 1
      BY <3>1 DEF Xor
    <3> HIDE DEF q, b
    <3>3. InEsc(q, Moved(fl, q), Tail(bits), Xor(par, b))
      BY <1>8, <1>9, <2>1, <3>1, <3>2 DEF InEsc
    <3> QED BY <3>3
  <2>2. CASE t \notin Prefixed
    <3>1. b = Flag(t) /\ par = Flag(t) /\ Tail(bits) = Contents(t)
      BY <1>4, <2>2
    <3>2. Xor(par, b) = 0
      BY <1>3, <3>1, BitOps
    <3> HIDE DEF q, b
    <3>3. /\ q.control <=> Flag(t) = 1
          /\ q.escaped <=> t \in Prefixed
          /\ q.left = (IF Flag(t) = 1 THEN 3 ELSE WordBits + 1)
          /\ q.parity = 0
      BY <1>8, <2>2, <3>1
    <3>4. InContents(q, Tok(t), Contents(t), 0)
      BY <1>7, <3>3, ContentsBegin
    <3> QED BY <1>9, <3>1, <3>2, <3>4
  <2> QED BY <2>1, <2>2
<1> QED BY <1>1, <1>4, <1>6, <1>9, <1>10

(* A token behind an ESC can be sent. *)
LEMMA PrefixedIs ==
  ASSUME NEW t \in Prefixed
  PROVE  t \in Sendable /\ Not(Flag(t)) \in Bit /\ Flag(t) \in Bit
<1>1. t \in Sendable
  BY DEF Prefixed, Sendable, Token
<1> QED BY <1>1, TokenIs, BitOps DEF Bit

(* The bits of an ESC keep the two ends in step. *)
LEMMA ShiftInEsc ==
  ASSUME NEW r, Whole(r), r.nullSeen, NEW fl, NEW bits, NEW par, InEsc(r, fl, bits, par)
  PROVE  LET b == Head(bits)
             q == Take(r, b)
         IN /\ bits # <<>> /\ r.left # 0 /\ q.got = NoToken
            /\ \/ InEsc(q, fl, Tail(bits), Xor(par, b))
               \/ AfterEsc(q, fl, Tail(bits), Xor(par, b))
<1>1. PICK t \in Prefixed :
        /\ fl = Tok(t) /\ r.control /\ ~r.escaped
        /\ \/ /\ bits = Cons(1, Cons(1, AfterPrefix(t))) /\ par = 1
              /\ r.left = 3 /\ r.parity = 0
           \/ /\ bits = Cons(1, AfterPrefix(t)) /\ par = 0
              /\ r.left = 2 /\ r.parity = 1 /\ r.window[9] = 1
           \/ /\ bits = AfterPrefix(t) /\ par = 1
              /\ r.left = 1 /\ r.parity = 0 /\ r.window[9] = 1 /\ r.window[8] = 1
  BY DEF InEsc
<1> DEFINE b == Head(bits)
           q == Take(r, b)
<1>2. r \in Receiver /\ r.window \in [1..9 -> Bit]
  BY DEF Whole, Receiver
<1>3. /\ t \in Sendable /\ Not(Flag(t)) \in Bit /\ Flag(t) \in Bit /\ 1 \in Bit
      /\ AfterPrefix(t) \in Seq(Bit) /\ LastPart(t) \in Seq(Bit)
  BY PrefixedIs, BitsAre DEF Bit
<1>4. r.left # 0 /\ r.left # Idle
  BY <1>1 DEF Whole
<1>5. ASSUME b \in Bit
      PROVE  /\ q.window = Push(r.window, b) /\ q.left = r.left - 1 /\ q.parity = Xor(r.parity, b)
             /\ q.control /\ ~q.escaped /\ q.got = NoToken
             /\ q.window[9] = b /\ q.window[8] = r.window[9] /\ q.window[7] = r.window[8]
  <2>1. /\ q.window = Push(r.window, b) /\ q.left = r.left - 1 /\ q.parity = Xor(r.parity, b)
        /\ q.control = r.control /\ q.escaped = r.escaped /\ q.got = NoToken
    BY <1>2, <1>4, <1>5, TakeCounts
  <2> HIDE DEF q, b
  <2> QED BY <1>1, <1>2, <2>1 DEF Push
<1>6. CASE /\ bits = Cons(1, Cons(1, AfterPrefix(t))) /\ par = 1
           /\ r.left = 3 /\ r.parity = 0
  <2>1. Cons(1, AfterPrefix(t)) \in Seq(Bit)
    BY <1>3, ConsIs
  <2>2. bits # <<>> /\ b = 1 /\ Tail(bits) = Cons(1, AfterPrefix(t))
    BY <1>3, <1>6, <2>1, ConsIs
  <2>3. q.left = 2 /\ q.parity = 1 /\ q.control /\ ~q.escaped /\ q.got = NoToken /\ q.window[9] = 1
    BY <1>3, <1>5, <1>6, <2>2 DEF Xor
  <2>4. Xor(par, b) = 0
    BY <1>6, <2>2 DEF Xor
  <2> HIDE DEF q, b
  <2>5. InEsc(q, fl, Tail(bits), Xor(par, b))
    BY <1>1, <2>2, <2>3, <2>4 DEF InEsc
  <2> QED BY <1>4, <2>2, <2>3, <2>5 DEF q, b
<1>7. CASE /\ bits = Cons(1, AfterPrefix(t)) /\ par = 0
           /\ r.left = 2 /\ r.parity = 1 /\ r.window[9] = 1
  <2>1. bits # <<>> /\ b = 1 /\ Tail(bits) = AfterPrefix(t)
    BY <1>3, <1>7, ConsIs
  <2>2. /\ q.left = 1 /\ q.parity = 0 /\ q.control /\ ~q.escaped /\ q.got = NoToken
        /\ q.window[9] = 1 /\ q.window[8] = 1
    BY <1>3, <1>5, <1>7, <2>1 DEF Xor
  <2>3. Xor(par, b) = 1
    BY <1>7, <2>1 DEF Xor
  <2> HIDE DEF q, b
  <2>4. InEsc(q, fl, Tail(bits), Xor(par, b))
    BY <1>1, <2>1, <2>2, <2>3 DEF InEsc
  <2> QED BY <1>4, <2>1, <2>2, <2>4 DEF q, b
<1>8. CASE /\ bits = AfterPrefix(t) /\ par = 1
           /\ r.left = 1 /\ r.parity = 0 /\ r.window[9] = 1 /\ r.window[8] = 1
  <2>1. bits # <<>> /\ b = Not(Flag(t)) /\ Tail(bits) = LastPart(t)
    BY <1>3, <1>8, ConsIs DEF AfterPrefix
  <2>2. /\ q.left = 0 /\ q.parity = Xor(0, b) /\ q.control /\ ~q.escaped /\ q.got = NoToken
        /\ q.window[8] = 1 /\ q.window[7] = 1
    BY <1>3, <1>5, <1>8, <2>1
  <2>3. Xor(par, b) = Flag(t) /\ Xor(0, b) = Not(Flag(t))
    BY <1>3, <1>8, <2>1 DEF Xor, Not, Bit
  <2> HIDE DEF q, b
  <2>4. AfterEsc(q, fl, Tail(bits), Xor(par, b))
    BY <1>1, <2>1, <2>2, <2>3 DEF AfterEsc
  <2> QED BY <1>4, <2>1, <2>2, <2>4 DEF q, b
<1> QED BY <1>1, <1>6, <1>7, <1>8

(* The parity bit behind an ESC fits, and nothing is delivered. *)
LEMMA ShiftAfterEsc ==
  ASSUME NEW r, Whole(r), r.nullSeen, NEW fl, NEW bits, NEW par, AfterEsc(r, fl, bits, par)
  PROVE  LET b == Head(bits)
             q == Take(r, b)
         IN /\ bits # <<>> /\ ~badParity(r, b) /\ ~badEsc(r) /\ decoded(r) = NoToken
            /\ q.got = NoToken
            /\ InContents(q, fl, Tail(bits), Xor(par, b))
<1>1. PICK t \in Prefixed :
        /\ bits = LastPart(t) /\ par = Flag(t) /\ fl = Tok(t)
        /\ r.control /\ ~r.escaped /\ r.left = 0 /\ r.parity = Not(Flag(t))
        /\ r.window[7] = 1 /\ r.window[8] = 1
  BY DEF AfterEsc
<1> DEFINE b == Head(bits)
           q == Take(r, b)
<1>2. r \in Receiver
  BY DEF Whole
<1>3. /\ t \in Sendable /\ Not(Flag(t)) \in Bit /\ Flag(t) \in Bit
      /\ Contents(t) \in Seq(Bit)
  BY PrefixedIs, TokenIs
<1>4. bits # <<>> /\ b = Flag(t) /\ Tail(bits) = Contents(t)
  BY <1>1, <1>3, ConsIs DEF LastPart
<1>5. ~badParity(r, b)
  <2>1. Xor(Not(b), b) = 1
    BY <1>3, <1>4 DEF Xor, Not, Bit
  <2> QED BY <1>1, <1>4, <2>1 DEF badParity
<1>6. lastTwo(r) = <<1, 1>>
  BY <1>1, <1>2, ContentsIs
<1>7. <<1, 1>> # <<0, 0>> /\ <<1, 1>> # <<0, 1>> /\ <<1, 1>> # <<1, 0>>
  OBVIOUS
<1>8. decoded(r) = NoToken /\ isEsc(r) /\ ~badEsc(r)
  BY <1>1, <1>6, <1>7 DEF decoded, isEsc, badEsc
<1>9. /\ q.left = (IF b = 1 THEN 3 ELSE WordBits + 1) /\ q.parity = 0
      /\ q.control = (b = 1) /\ q.escaped /\ q.got = NoToken
  <2>1. /\ q.left = (IF b = 1 THEN 3 ELSE WordBits + 1) /\ q.parity = 0
        /\ q.control = (b = 1) /\ q.escaped = isEsc(r) /\ q.got = decoded(r)
    <3>1. b \in Bit /\ r.left = 0
      BY <1>1, <1>3, <1>4
    <3> QED BY <1>2, <1>5, <3>1, TakeJudges, ZenonT(60)
  <2> QED BY <1>8, <2>1
<1>10. q \in Receiver
  BY <1>2, <1>3, <1>4, TakeReceiver
<1>11. Xor(par, b) = 0
  BY <1>1, <1>3, <1>4 DEF Xor, Bit
<1>12. InContents(q, Tok(t), Contents(t), 0)
  <2> HIDE DEF q
  <2> QED BY <1>3, <1>4, <1>9, <1>10, ContentsBegin
<1> QED BY <1>1, <1>4, <1>5, <1>8, <1>9, <1>11, <1>12

(* Contents have at least two bits and at most a word. *)
LEMMA ContentsCount ==
  ASSUME NEW t \in Sendable
  PROVE  Len(Contents(t)) \in 2..8
<1> DEFINE n == Len(Contents(t))
<1>1. n = 2 \/ n = WordBits
  BY TokenIs, ContentsLength DEF Bit
<1> HIDE DEF n
<1>2. n \in 2..8
  BY <1>1, WordIsShort
<1> QED BY <1>2 DEF n

(* The bits of the contents keep the two ends in step. *)
LEMMA ShiftInContents ==
  ASSUME NEW r, Whole(r), r.nullSeen, NEW fl, NEW bits \in Seq(Bit), NEW par, InContents(r, fl, bits, par),
         bits # <<>>
  PROVE  LET b == Head(bits)
             q == Take(r, b)
         IN /\ r.left # 0 /\ q.got = NoToken
            /\ InContents(q, fl, Tail(bits), Xor(par, b))
<1>1. PICK t \in Sendable :
        /\ fl = Tok(t) /\ r.left = Len(bits) + 1 /\ r.parity = par
        /\ r.control <=> Flag(t) = 1
        /\ r.escaped <=> t \in Prefixed
        /\ Len(bits) <= Len(Contents(t))
        /\ \A i \in 1..(Len(Contents(t)) - Len(bits)) :
             r.window[9 - (Len(Contents(t)) - Len(bits)) + i] = Contents(t)[i]
        /\ \A i \in 1..Len(bits) : bits[i] = Contents(t)[Len(Contents(t)) - Len(bits) + i]
  BY DEF InContents
<1> DEFINE b == Head(bits)
           q == Take(r, b)
           n == Len(Contents(t))
           k == Len(bits)
           rest == Tail(bits)
<1>2. r \in Receiver /\ r.window \in [1..9 -> Bit]
  BY DEF Whole, Receiver
<1>3. /\ b \in Bit /\ b = bits[1] /\ rest \in Seq(Bit) /\ Len(rest) = k - 1
      /\ \A i \in 1..(k - 1) : rest[i] = bits[i + 1]
  <2>1. b \in Bit /\ rest \in Seq(Bit) /\ Len(rest) = k - 1
    BY SeqIsCons
  <2>2. \A i \in 1..Len(rest) : rest[i] = bits[i + 1]
    BY HeadTailProperties
  <2>3. b = bits[1]
    OBVIOUS
  <2> QED BY <2>1, <2>2, <2>3
<1>4. n \in 2..8 /\ k \in Nat
  BY ContentsCount
<1>5. k # 0
  <2>1. k = 0 => bits = <<>>
    BY EmptySeq
  <2> QED BY <2>1
<1>6. r.left # 0 /\ r.left # Idle
  BY <1>1, <1>4 DEF Whole
<1>7. /\ q.window = Push(r.window, b) /\ q.left = r.left - 1 /\ q.parity = Xor(r.parity, b)
      /\ q.control = r.control /\ q.escaped = r.escaped /\ q.got = NoToken
  BY <1>2, <1>3, <1>6, TakeCounts
<1>x. /\ k <= n
      /\ \A i \in 1..(n - k) : r.window[9 - (n - k) + i] = Contents(t)[i]
      /\ \A i \in 1..k : bits[i] = Contents(t)[n - k + i]
      /\ r.left = k + 1
  BY <1>1
<1> HIDE DEF b, q, rest, n, k
<1>8. \A i \in 1..(n - (k - 1)) : q.window[9 - (n - (k - 1)) + i] = Contents(t)[i]
  <2> SUFFICES ASSUME NEW i \in 1..(n - (k - 1)) PROVE q.window[9 - (n - (k - 1)) + i] = Contents(t)[i]
    OBVIOUS
  <2>1. k - 1 \in Nat /\ k <= n
    BY <1>x, <1>4, <1>5
  <2>2. 9 - (n - (k - 1)) + i \in 1..9
    BY <1>4, <2>1
  <2>3. CASE i = n - (k - 1)
    <3>1. q.window[9] = b
      BY <1>2, <1>7 DEF Push
    <3>2. bits[1] = Contents(t)[n - k + 1]
      BY <1>x, <1>4, <1>5
    <3>3. n - k + 1 = i /\ 9 - (n - (k - 1)) + i = 9
      BY <1>4, <2>3
    <3> QED BY <1>3, <3>1, <3>2, <3>3
  <2>4. CASE i < n - (k - 1)
    <3>1. i \in 1..(n - k) /\ 9 - (n - (k - 1)) + i < 9
      BY <1>4, <2>4
    <3>2. r.window[9 - (n - k) + i] = Contents(t)[i]
      BY <1>x, <3>1
    <3>3. q.window[9 - (n - (k - 1)) + i] = r.window[9 - (n - (k - 1)) + i + 1]
      BY <1>7, <2>2, <3>1 DEF Push
    <3>4. 9 - (n - (k - 1)) + i + 1 = 9 - (n - k) + i
      BY <1>4
    <3> QED BY <3>2, <3>3, <3>4
  <2> QED BY <1>4, <2>3, <2>4
<1>9. \A i \in 1..(k - 1) : rest[i] = Contents(t)[n - (k - 1) + i]
  <2> SUFFICES ASSUME NEW i \in 1..(k - 1) PROVE rest[i] = Contents(t)[n - (k - 1) + i]
    OBVIOUS
  <2>1. i + 1 \in 1..k /\ n - (k - 1) + i = n - k + (i + 1)
    BY <1>4
  <2>2. bits[i + 1] = Contents(t)[n - k + (i + 1)]
    BY <1>x, <2>1
  <2> QED BY <1>3, <2>1, <2>2
<1>10. q.left = Len(rest) + 1 /\ Len(rest) = k - 1 /\ Len(rest) <= n
  BY <1>x, <1>3, <1>4, <1>7
<1>11. /\ \A i \in 1..(n - Len(rest)) : q.window[9 - (n - Len(rest)) + i] = Contents(t)[i]
       /\ \A i \in 1..Len(rest) : rest[i] = Contents(t)[n - Len(rest) + i]
  BY <1>8, <1>9, <1>10
<1>12. InContents(q, fl, rest, Xor(par, b))
  BY <1>1, <1>7, <1>10, <1>11 DEF InContents, n
<1> QED BY <1>6, <1>7, <1>12 DEF q, b, rest

(* Every token has a first bit. *)
LEMMA BitsHead ==
  ASSUME NEW t \in Sendable
  PROVE  Bits(t) \in Seq(Bit) /\ Bits(t) # <<>> /\ Head(Bits(t)) \in Bit
<1>1. Flag(t) \in Bit /\ Contents(t) \in Seq(Bit) /\ 1 \in Bit /\ AfterPrefix(t) \in Seq(Bit)
  BY TokenIs, BitsAre DEF Bit
<1>2. CASE t \in Prefixed
  <2> DEFINE s == Cons(1, Cons(1, AfterPrefix(t)))
  <2>1. Cons(1, AfterPrefix(t)) \in Seq(Bit)
    BY <1>1, ConsIs
  <2>2. s \in Seq(Bit)
    BY <1>1, <2>1, ConsIs
  <2>3. Bits(t) = Cons(1, s)
    BY <1>2, BitsAre
  <2> HIDE DEF s
  <2> QED BY <1>1, <2>2, <2>3, ConsIs
<1>3. CASE t \notin Prefixed
  <2>1. Bits(t) = Cons(Flag(t), Contents(t))
    BY <1>3, BitsAre DEF LastPart
  <2> QED BY <1>1, <2>1, ConsIs
<1> QED BY <1>2, <1>3

(* The bit behind the contents completes the token, whatever it is. *)
LEMMA EndOfContents ==
  ASSUME NEW r, Whole(r), r.nullSeen, NEW fl, NEW par, InContents(r, fl, <<>>, par), NEW b \in Bit
  PROVE  LET q == Take(r, b)
         IN /\ r.left = 1 /\ r.left # 0 /\ q.left = 0 /\ q.parity = Xor(par, b) /\ q.got = NoToken
            /\ ~isEsc(q) /\ ~badEsc(q)
            /\ \E d \in Sendable : fl = Tok(d) /\ decoded(q) = d
<1>1. PICK d \in Sendable :
        /\ fl = Tok(d) /\ r.left = Len(<<>>) + 1 /\ r.parity = par
        /\ r.control <=> Flag(d) = 1
        /\ r.escaped <=> d \in Prefixed
        /\ Len(<<>>) <= Len(Contents(d))
        /\ \A i \in 1..(Len(Contents(d)) - Len(<<>>)) :
             r.window[9 - (Len(Contents(d)) - Len(<<>>)) + i] = Contents(d)[i]
        /\ \A i \in 1..Len(<<>>) : <<>>[i] = Contents(d)[Len(Contents(d)) - Len(<<>>) + i]
  BY DEF InContents
<1> DEFINE q == Take(r, b)
           n == Len(Contents(d))
<1>2. r \in Receiver /\ r.window \in [1..9 -> Bit]
  BY DEF Whole, Receiver
<1>3. Len(<<>>) = 0
  OBVIOUS
<1>4. n \in 2..8
  BY ContentsCount
<1>5. r.left = 1 /\ r.left # 0 /\ r.left # Idle
  BY <1>1, <1>3 DEF Whole
<1>6. /\ q.window = Push(r.window, b) /\ q.left = 0 /\ q.parity = Xor(par, b)
      /\ q.control = r.control /\ q.escaped = r.escaped /\ q.got = NoToken
  <2>1. /\ q.window = Push(r.window, b) /\ q.left = r.left - 1 /\ q.parity = Xor(r.parity, b)
        /\ q.control = r.control /\ q.escaped = r.escaped /\ q.got = NoToken
    BY <1>2, <1>5, TakeCounts
  <2> QED BY <1>1, <1>5, <2>1
<1>7. q \in Receiver
  BY <1>2, TakeReceiver
<1>8. \A i \in 1..(n - 0) : r.window[9 - (n - 0) + i] = Contents(d)[i]
  BY <1>1, <1>3
<1> HIDE DEF q, n
<1>9. \A i \in 1..n : q.window[8 - n + i] = Contents(d)[i]
  <2> SUFFICES ASSUME NEW i \in 1..n PROVE q.window[8 - n + i] = Contents(d)[i]
    OBVIOUS
  <2>1. 8 - n + i \in 1..8 /\ 8 - n + i + 1 = 9 - n + i
    BY <1>4
  <2>2. q.window[8 - n + i] = r.window[9 - n + i]
    BY <1>6, <2>1 DEF Push
  <2>3. n - 0 = n
    BY <1>4
  <2>4. r.window[9 - n + i] = Contents(d)[i]
    BY <1>8, <2>3
  <2> QED BY <2>2, <2>4
<1>10. decoded(q) = d /\ ~isEsc(q) /\ ~badEsc(q)
  BY <1>1, <1>6, <1>7, <1>9, Decodes DEF n
<1> QED BY <1>1, <1>5, <1>6, <1>10 DEF q

(* The parity bit sent when the next token begins ends the one before it. *)
LEMMA BeginAfterContents ==
  ASSUME NEW r, Whole(r), r.nullSeen, NEW fl, NEW par \in Bit, InContents(r, fl, <<>>, par),
         NEW t \in Sendable
  PROVE  LET b == Xor(par, Not(Head(Bits(t))))
             q == Take(r, b)
         IN /\ r.left # 0 /\ q.got = NoToken
            /\ AtParity(q, fl \o Tok(t), Bits(t), startParity(t))
<1> DEFINE h == Head(Bits(t))
           b == Xor(par, Not(h))
           q == Take(r, b)
<1>1. h \in Bit
  BY BitsHead
<1> HIDE DEF h
<1>2. Not(h) \in Bit /\ b \in Bit /\ Xor(par, b) = Not(h)
  BY <1>1 DEF Xor, Not, Bit
<1> HIDE DEF b
<1>3. /\ r.left # 0 /\ q.left = 0 /\ q.parity = Xor(par, b) /\ q.got = NoToken
      /\ ~isEsc(q) /\ ~badEsc(q)
      /\ \E d \in Sendable : fl = Tok(d) /\ decoded(q) = d
  BY <1>2, EndOfContents
<1> HIDE DEF q
<1>4. AtParity(q, fl \o Tok(t), Bits(t), startParity(t))
  BY <1>2, <1>3 DEF AtParity, h
<1> QED BY <1>3, <1>4 DEF q, b, h

(* The bits of a stream of NULLs, by place; a window with its last n bits,
   and ones before them. *)
NullBit(j) == IF j \in {-6, -5, -4, -2, 2, 3, 4, 6} THEN 1 ELSE 0
Win(w, n, pos) == \A i \in 1..9 : w[i] = IF i > 9 - n THEN NullBit(pos - 9 + i) ELSE 1

(* One bit more of the stream in the window. *)
LEMMA WinPush ==
  ASSUME NEW w \in [1..9 -> Bit], NEW n \in 0..9, NEW p \in 0..8, Win(w, n, p)
  PROVE  Win(Push(w, NullBit(p + 1)), IF n < 9 THEN n + 1 ELSE 9, p + 1)
<1> DEFINE v == Push(w, NullBit(p + 1))
           m == IF n < 9 THEN n + 1 ELSE 9
<1> SUFFICES ASSUME NEW i \in 1..9
             PROVE  v[i] = IF i > 9 - m THEN NullBit(p + 1 - 9 + i) ELSE 1
  BY DEF Win
<1>1. CASE i = 9
  <2>1. v[i] = NullBit(p + 1)
    BY <1>1 DEF Push
  <2>2. p + 1 - 9 + i = p + 1 /\ i > 9 - m
    BY <1>1
  <2> QED BY <2>1, <2>2
<1>2. CASE i # 9
  <2>1. v[i] = w[i + 1] /\ i + 1 \in 1..9
    BY <1>2 DEF Push
  <2>2. w[i + 1] = IF i + 1 > 9 - n THEN NullBit(p - 9 + (i + 1)) ELSE 1
    BY <2>1 DEF Win
  <2>3. p - 9 + (i + 1) = p + 1 - 9 + i /\ (i + 1 > 9 - n <=> i > 9 - m)
    BY <1>2
  <2> QED BY <2>1, <2>2, <2>3
<1> QED BY <1>1, <1>2

(* The stream repeats after eight bits. *)
LEMMA WinWrap ==
  ASSUME NEW w, NEW n \in 0..9, Win(w, n, 9)
  PROVE  Win(w, n, 1)
<1>1. ASSUME NEW i \in 1..9 PROVE NullBit(9 - 9 + i) = NullBit(1 - 9 + i)
  BY DEF NullBit
<1> QED BY <1>1 DEF Win

(* The pattern of the first NULL, bit by bit. *)
LEMMA FirstNullIs ==
  /\ FirstNull \in [1..9 -> Bit]
  /\ FirstNull[1] = 0 /\ FirstNull[2] = 1 /\ FirstNull[3] = 1 /\ FirstNull[4] = 1 /\ FirstNull[5] = 0
  /\ FirstNull[6] = 1 /\ FirstNull[7] = 0 /\ FirstNull[8] = 0 /\ FirstNull[9] = 0
<1>1. FirstNull \in [1..9 -> Bit]
  BY DEF FirstNull, Bit
<1> QED BY <1>1 DEF FirstNull

(* Nine bits of the stream that end with the first bit of a NULL are the
   pattern. *)
LEMMA WinFirst ==
  ASSUME NEW w \in [1..9 -> Bit], Win(w, 9, 1)
  PROVE  w = FirstNull
<1>1. ASSUME NEW i \in 1..9 PROVE w[i] = FirstNull[i]
  <2>1. w[i] = NullBit(1 - 9 + i)
    BY DEF Win
  <2>2. i \in {1, 2, 3, 4, 5, 6, 7, 8, 9}
    OBVIOUS
  <2> QED BY <2>1, <2>2, FirstNullIs DEF NullBit
<1> QED BY <1>1, FirstNullIs

(* And the pattern is found nowhere else in the stream. *)
LEMMA OnlyFirst ==
  ASSUME NEW w \in [1..9 -> Bit], NEW n \in 0..9, NEW p \in 0..8, Win(w, n, p), w = FirstNull
  PROVE  n = 9 /\ p = 1
<1>1. n = 9
  <2>1. w[1] = IF 1 > 9 - n THEN NullBit(p - 9 + 1) ELSE 1
    BY DEF Win
  <2> QED BY <2>1, FirstNullIs
<1>2. NullBit(p - 9 + 2) = 1 /\ NullBit(p - 9 + 3) = 1 /\ NullBit(p - 9 + 4) = 1
  BY <1>1, FirstNullIs DEF Win
<1>3. p = 1
  BY <1>2 DEF NullBit
<1> QED BY <1>1, <1>3

(* The transmitter is in a NULL, with the bits still to send. *)
SendsNull(bits, par) ==
  /\ bits \in Seq(Bit) /\ Len(bits) \in 0..7
  /\ \A i \in 1..Len(bits) : bits[i] = NullBit(8 - Len(bits) + i)
  /\ par = IF Len(bits) \in {6, 4, 3} THEN 1 ELSE 0

(* A receiver that has not seen a NULL: nothing was sent, NULLs are being
   sent, or the FCT behind them. *)
BeforeNulls(r, fl, bits, par, null) ==
  bits = <<>> /\ par = 0 /\ ~null /\ fl = <<>> /\ Win(r.window, 0, 0)

InNulls(r, fl, bits, par, null, rdy) ==
  /\ null /\ SendsNull(bits, par) /\ fl = <<>>
  /\ \E n \in 0..9 : /\ Win(r.window, n, 8 - Len(bits))
                     /\ rdy => n = 8 - Len(bits) \/ (n = 9 /\ Len(bits) = 7)

BehindNull(r, fl, bits, par, null, rdy) ==
  rdy /\ null /\ Win(r.window, 9, 1) /\ bits = Bits(Fct) /\ par = 1 /\ fl = <<Fct>>

(* The bits of a NULL behind its parity bit. *)
NullBits == Bits(NoToken)

(* They are the bits of the stream. *)
LEMMA NullBitsAre ==
  /\ NullBits \in Seq(Bit) /\ Len(NullBits) = 7 /\ Head(NullBits) = 1
  /\ \A i \in 1..7 : NullBits[i] = NullBit(1 + i)
  /\ SendsNull(NullBits, 0)
<1>1. NullBits = <<1, 1, 1, 0, 1, 0, 0>>
  <2>1. NullBits = <<1, 1, 1>> \o <<0, 1, 0, 0>>
    BY DEF NullBits, Bits, NoToken, EscBits
  <2> DEFINE a == <<1, 1, 1>>
             c == <<0, 1, 0, 0>>
             d == <<1, 1, 1, 0, 1, 0, 0>>
  <2>2. a \in Seq(Bit) /\ c \in Seq(Bit) /\ d \in Seq(Bit) /\ Len(a) = 3 /\ Len(c) = 4 /\ Len(d) = 7
    BY DEF Bit
  <2>3. /\ \A i \in 1..3 : d[i] = a[i]
        /\ \A i \in 4..7 : d[i] = c[i - 3]
    <3>1. 1..3 = {1, 2, 3} /\ 4..7 = {4, 5, 6, 7}
      OBVIOUS
    <3> QED BY <3>1
  <2> HIDE DEF a, c, d
  <2>4. /\ a \o c \in Seq(Bit) /\ Len(a \o c) = 7
        /\ \A i \in 1..7 : (a \o c)[i] = IF i <= 3 THEN a[i] ELSE c[i - 3]
    <3>1. a \o c \in Seq(Bit)
      BY <2>2, ConcatProperties
    <3>2. Len(a \o c) = Len(a) + Len(c)
      BY <2>2, ConcatProperties
    <3>3. \A i \in 1..(Len(a) + Len(c)) : (a \o c)[i] = IF i <= Len(a) THEN a[i] ELSE c[i - Len(a)]
      BY <2>2, ConcatProperties
    <3>4. Len(a) + Len(c) = 7
      BY <2>2
    <3> QED BY <2>2, <3>1, <3>2, <3>3, <3>4
  <2>5. ASSUME NEW i \in 1..7 PROVE (a \o c)[i] = d[i]
    <3>1. CASE i <= 3
      <4>1. i \in 1..3
        BY <3>1
      <4> QED BY <2>3, <2>4, <3>1, <4>1
    <3>2. CASE ~(i <= 3)
      <4>1. i \in 4..7
        BY <3>2
      <4> QED BY <2>3, <2>4, <3>2, <4>1
    <3> QED BY <3>1, <3>2
  <2>6. a \o c = d
    BY <2>2, <2>4, <2>5, SeqEqual
  <2> QED BY <2>1, <2>6 DEF a, c, d
<1>2. NullBits \in Seq(Bit) /\ Len(NullBits) = 7 /\ Head(NullBits) = 1
  BY <1>1 DEF Bit
<1>3. ASSUME NEW i \in 1..7 PROVE NullBits[i] = NullBit(1 + i)
  <2>1. i \in {1, 2, 3, 4, 5, 6, 7}
    OBVIOUS
  <2> QED BY <1>1, <2>1 DEF NullBit
<1>4. SendsNull(NullBits, 0)
  <2> HIDE DEF NullBits
  <2>1. \A i \in 1..7 : NullBits[i] = NullBit(8 - 7 + i)
    <3>1. 8 - 7 = 1
      OBVIOUS
    <3> QED BY <1>3, <3>1
  <2> QED BY <1>2, <2>1 DEF SendsNull
<1> QED BY <1>2, <1>3, <1>4

(* The bits of the first FCT. *)
LEMMA FctBitsAre ==
  /\ Bits(Fct) \in Seq(Bit) /\ Bits(Fct) # <<>> /\ Head(Bits(Fct)) = 1
  /\ Tail(Bits(Fct)) = Contents(Fct) /\ startParity(Fct) = 1
  /\ Fct \in Sendable /\ Flag(Fct) = 1 /\ Fct \notin Prefixed /\ Tok(Fct) = <<Fct>>
<1>1. Bits(Fct) = Cons(1, Contents(Fct))
  <2>1. <<1, 0, 0>> = <<1>> \o <<0, 0>>
    OBVIOUS
  <2> QED BY <2>1 DEF Fct, Bits, Cons, Contents
<1>2. Contents(Fct) \in Seq(Bit) /\ 1 \in Bit
  BY DEF Contents, Fct, Bit
<1>3. /\ Bits(Fct) \in Seq(Bit) /\ Bits(Fct) # <<>> /\ Head(Bits(Fct)) = 1
      /\ Tail(Bits(Fct)) = Contents(Fct)
  BY <1>1, <1>2, ConsIs
<1>4. startParity(Fct) = 1
  BY <1>3 DEF startParity, Fct
<1>5. Fct \in Sendable /\ Flag(Fct) = 1 /\ Fct \notin Prefixed /\ Tok(Fct) = <<Fct>>
  BY DEF Sendable, Token, Flag, Prefixed, Tok, Fct, NoToken, Time
<1> QED BY <1>3, <1>4, <1>5

(* A bit of a NULL before the receiver is in step: it stays out of step or is
   in step from now on. *)
LEMMA LookShift ==
  ASSUME NEW r, Whole(r), ~r.nullSeen, NEW fl, NEW bits, NEW par, NEW rdy,
         InNulls(r, fl, bits, par, TRUE, rdy), bits # <<>>
  PROVE  LET b == Head(bits)
             q == Take(r, b)
         IN /\ b \in Bit /\ Tail(bits) \in Seq(Bit) /\ r.left # 0 /\ q.got = NoToken
            /\ \/ ~q.nullSeen /\ InNulls(q, fl, Tail(bits), Xor(par, b), TRUE, rdy)
               \/ q.nullSeen /\ InEsc(q, fl, Tail(bits), Xor(par, b))
<1>1. PICK n \in 0..9 : /\ Win(r.window, n, 8 - Len(bits))
                        /\ rdy => n = 8 - Len(bits) \/ (n = 9 /\ Len(bits) = 7)
  BY DEF InNulls
<1> DEFINE b == Head(bits)
           q == Take(r, b)
           rest == Tail(bits)
           k == Len(bits)
           p == 8 - k
<1>2. r \in Receiver /\ r.window \in [1..9 -> Bit]
  BY DEF Whole, Receiver
<1>3. /\ bits \in Seq(Bit) /\ k \in 0..7 /\ fl = <<>>
      /\ \A i \in 1..k : bits[i] = NullBit(8 - k + i)
      /\ par = IF k \in {6, 4, 3} THEN 1 ELSE 0
  BY DEF InNulls, SendsNull
<1>4. k # 0
  <2>1. k = 0 => bits = <<>>
    BY <1>3, EmptySeq
  <2> QED BY <2>1
<1>5. /\ b \in Bit /\ b = NullBit(p + 1) /\ rest \in Seq(Bit) /\ Len(rest) = k - 1
      /\ \A i \in 1..(k - 1) : rest[i] = NullBit(8 - (k - 1) + i)
  <2>1. b \in Bit /\ rest \in Seq(Bit) /\ Len(rest) = k - 1
    BY <1>3, SeqIsCons
  <2>2. \A i \in 1..Len(rest) : rest[i] = bits[i + 1]
    BY <1>3, HeadTailProperties
  <2>3. b = bits[1]
    BY <1>3
  <2> HIDE DEF b, rest, k
  <2>4. b = NullBit(p + 1)
    BY <1>3, <1>4, <2>3
  <2>5. ASSUME NEW i \in 1..(k - 1) PROVE rest[i] = NullBit(8 - (k - 1) + i)
    <3>1. i + 1 \in 1..k /\ 8 - k + (i + 1) = 8 - (k - 1) + i /\ i \in 1..Len(rest)
      BY <1>3, <2>1
    <3> QED BY <1>3, <2>2, <3>1
  <2> QED BY <2>1, <2>4, <2>5
<1>6. r.left = Idle /\ ~r.escaped /\ r.left # 0
  BY WordIsShort DEF Whole
<1>7. p \in 1..7 /\ p \in 0..8 /\ k = 8 - p /\ p + 1 = 8 - (k - 1) /\ k - 1 \in 0..6
  <2> HIDE DEF k
  <2> QED BY <1>3, <1>4
<1>8. Win(r.window, n, p) /\ (rdy => n = p \/ (n = 9 /\ p = 1))
  <2>1. Win(r.window, n, p)
    BY <1>1
  <2>2. rdy => n = p \/ (n = 9 /\ k = 7)
    BY <1>1
  <2> HIDE DEF p, k
  <2> QED BY <1>7, <2>1, <2>2
<1> HIDE DEF p
<1>9. Xor(par, b) = IF k - 1 \in {6, 4, 3} THEN 1 ELSE 0
  <2> HIDE DEF b, k
  <2>1. k \in {1, 2, 3, 4, 5, 6, 7} /\ p \in {1, 2, 3, 4, 5, 6, 7}
    BY <1>3, <1>4, <1>7
  <2>2. /\ k - 1 \in {6, 4, 3} <=> k \in {7, 5, 4}
        /\ b = 1 <=> p + 1 \in {2, 3, 4, 6}
        /\ p + 1 \in {2, 3, 4, 6} <=> k \in {7, 6, 5, 3}
    BY <1>5, <1>7, <2>1 DEF NullBit
  <2>3. /\ par \in Bit /\ (par = 1 <=> k \in {6, 4, 3})
    BY <1>3 DEF Bit
  <2>4. Xor(par, b) = IF par = b THEN 0 ELSE 1
    BY <1>5, <2>3, BitOps
  <2> QED BY <1>5, <2>1, <2>2, <2>3, <2>4 DEF Bit
<1>10. CASE r.window = FirstNull
  <2>1. p = 1 /\ n = 9
    BY <1>2, <1>7, <1>8, <1>10, OnlyFirst
  <2>2. k = 7 /\ b = 1
    <3> HIDE DEF k, b
    <3>1. k = 7
      BY <1>7, <2>1
    <3>2. b = 1
      BY <1>5, <2>1 DEF NullBit
    <3> QED BY <3>1, <3>2
  <2>3. q.nullSeen /\ q.left = 3 /\ q.parity = 0 /\ q.control /\ ~q.escaped /\ q.got = NoToken
    BY <1>2, <1>5, <1>6, <1>10, <2>2, TakeSyncs
  <2>4. bits = NullBits
    <3> HIDE DEF k
    <3>1. \A i \in 1..7 : bits[i] = NullBits[i]
      <4>1. 8 - 7 = 1
        OBVIOUS
      <4> QED BY <1>3, <2>2, <4>1, NullBitsAre
    <3>2. Len(bits) = Len(NullBits)
      BY <2>2, NullBitsAre DEF k
    <3> QED BY <1>3, <3>1, <3>2, NullBitsAre, SeqEqual
  <2>5. rest = Cons(1, Cons(1, AfterPrefix(NoToken)))
    <3> DEFINE s == Cons(1, Cons(1, AfterPrefix(NoToken)))
    <3>1. NoToken \in Sendable /\ NoToken \in Prefixed /\ 1 \in Bit
      BY DEF Sendable, Prefixed, Bit
    <3>2. AfterPrefix(NoToken) \in Seq(Bit) /\ NullBits = Cons(1, s)
      BY <3>1, BitsAre DEF NullBits
    <3>3. Cons(1, AfterPrefix(NoToken)) \in Seq(Bit)
      BY <3>1, <3>2, ConsIs
    <3>4. s \in Seq(Bit)
      BY <3>1, <3>3, ConsIs
    <3> HIDE DEF s
    <3>5. Tail(NullBits) = s
      BY <3>1, <3>2, <3>4, ConsIs
    <3> QED BY <2>4, <3>5 DEF s
  <2>6. Xor(par, b) = 1
    <3> HIDE DEF k, b
    <3>1. k - 1 = 6
      BY <2>2
    <3> QED BY <1>9, <3>1
  <2>7. fl = Tok(NoToken) /\ NoToken \in Prefixed
    BY <1>3 DEF Tok, Prefixed
  <2> HIDE DEF q, b, rest
  <2>8. InEsc(q, fl, rest, Xor(par, b))
    BY <2>3, <2>5, <2>6, <2>7 DEF InEsc
  <2> QED BY <1>5, <1>6, <2>3, <2>8 DEF q, b, rest
<1>11. CASE r.window # FirstNull
  <2>1. ~q.nullSeen /\ q.got = NoToken /\ q.window = Push(r.window, b)
    BY <1>2, <1>5, <1>6, <1>11, TakeCounts
  <2> DEFINE m == IF n < 9 THEN n + 1 ELSE 9
  <2> HIDE DEF q, b, rest, k
  <2>2. Win(q.window, m, p + 1)
    BY <1>2, <1>5, <1>7, <1>8, <2>1, WinPush
  <2>3. rdy => n = p
    <3>1. ~(n = 9 /\ p = 1)
      BY <1>2, <1>8, <1>11, WinFirst
    <3> QED BY <1>8, <3>1
  <2>4. m \in 0..9 /\ (rdy => m = p + 1)
    BY <1>7, <2>3
  <2>5. SendsNull(rest, Xor(par, b))
    <3>1. k - 1 \in 0..7
      BY <1>7
    <3> QED BY <1>5, <1>9, <3>1 DEF SendsNull
  <2>6. Win(q.window, m, 8 - Len(rest)) /\ (rdy => m = 8 - Len(rest))
    BY <1>5, <1>7, <2>2, <2>4
  <2>7. InNulls(q, fl, rest, Xor(par, b), TRUE, rdy)
    <3> HIDE DEF m
    <3> QED BY <1>3, <2>4, <2>5, <2>6 DEF InNulls
  <2> QED BY <1>5, <1>6, <2>1, <2>7 DEF q, b, rest
<1> QED BY <1>10, <1>11

(* The first bit of the FCT behind a NULL: the receiver is in step. *)
LEMMA LookShiftFct ==
  ASSUME NEW r, Whole(r), ~r.nullSeen, NEW fl, NEW bits, NEW par, NEW null, NEW rdy,
         BehindNull(r, fl, bits, par, null, rdy)
  PROVE  LET b == Head(bits)
             q == Take(r, b)
         IN /\ bits # <<>> /\ b \in Bit /\ r.left # 0 /\ q.got = NoToken /\ q.nullSeen
            /\ InContents(q, fl, Tail(bits), Xor(par, b))
<1> DEFINE b == Head(bits)
           q == Take(r, b)
<1>1. r \in Receiver /\ r.window \in [1..9 -> Bit]
  BY DEF Whole, Receiver
<1>2. bits = Bits(Fct) /\ par = 1 /\ fl = <<Fct>> /\ r.window = FirstNull
  BY <1>1, WinFirst DEF BehindNull
<1>3. bits # <<>> /\ b = 1 /\ b \in Bit /\ Tail(bits) = Contents(Fct)
  BY <1>2, FctBitsAre DEF Bit
<1>4. Xor(par, b) = 0
  BY <1>2, <1>3 DEF Xor
<1>5. r.left = Idle /\ ~r.escaped /\ r.left # 0
  BY WordIsShort DEF Whole
<1>6. q.nullSeen /\ q.left = 3 /\ q.parity = 0 /\ q.control /\ ~q.escaped /\ q.got = NoToken
  BY <1>1, <1>2, <1>3, <1>5, TakeSyncs
<1>7. q \in Receiver
  BY <1>1, <1>3, TakeReceiver
<1>8. InContents(q, Tok(Fct), Contents(Fct), 0)
  <2> HIDE DEF q
  <2> QED BY <1>6, <1>7, FctBitsAre, ContentsBegin
<1> QED BY <1>2, <1>3, <1>4, <1>5, <1>6, <1>8, FctBitsAre

(* The parity bit before a NULL, or before the FCT, when the receiver is not
   in step. *)
LEMMA LookBegin ==
  ASSUME NEW r, Whole(r), ~r.nullSeen, NEW fl, NEW par, NEW rdy, NEW null, NEW t,
         \/ t = NoToken /\ BeforeNulls(r, fl, <<>>, par, null)
         \/ t = NoToken /\ InNulls(r, fl, <<>>, par, null, rdy)
         \/ t = Fct /\ rdy /\ InNulls(r, fl, <<>>, par, null, rdy)
  PROVE  LET b == Xor(par, Not(Head(Bits(t))))
             q == Take(r, b)
         IN /\ b \in Bit /\ r.left # 0 /\ q.got = NoToken /\ ~q.nullSeen
            /\ \/ t = NoToken /\ InNulls(q, fl \o Tok(t), Bits(t), startParity(t), TRUE, rdy)
               \/ t = Fct /\ BehindNull(q, fl \o Tok(t), Bits(t), startParity(t), null, rdy)
<1> DEFINE b == Xor(par, Not(Head(Bits(t))))
           q == Take(r, b)
<1>1. r \in Receiver /\ r.window \in [1..9 -> Bit]
  BY DEF Whole, Receiver
<1>2. Len(<<>>) = 0
  OBVIOUS
<1>3. par = 0 /\ fl = <<>>
  BY <1>2 DEF BeforeNulls, InNulls, SendsNull
<1>4. Head(Bits(t)) = 1
  BY NullBitsAre, FctBitsAre DEF NullBits
<1>5. b = 0 /\ b \in Bit /\ b = NullBit(1)
  BY <1>3, <1>4 DEF Xor, Not, Bit, NullBit
<1>6. PICK n \in 0..9, p \in {0, 8} :
        /\ Win(r.window, n, p)
        /\ p = 0 => n = 0 /\ t = NoToken
        /\ p = 8 => null /\ (rdy => n = 8)
  <2>1. CASE BeforeNulls(r, fl, <<>>, par, null) /\ t = NoToken
    BY <2>1 DEF BeforeNulls
  <2>2. CASE InNulls(r, fl, <<>>, par, null, rdy)
    <3>1. PICK n \in 0..9 : /\ Win(r.window, n, 8 - Len(<<>>))
                            /\ rdy => n = 8 - Len(<<>>) \/ (n = 9 /\ Len(<<>>) = 7)
      BY <2>2 DEF InNulls
    <3>2. 8 - Len(<<>>) = 8 /\ Len(<<>>) # 7
      BY <1>2
    <3>3. null /\ Win(r.window, n, 8) /\ (rdy => n = 8)
      BY <2>2, <3>1, <3>2 DEF InNulls
    <3> QED BY <3>3
  <2> QED BY <2>1, <2>2
<1>7. r.left = Idle /\ r.left # 0
  BY WordIsShort DEF Whole
<1>8. r.window # FirstNull
  <2>1. p \in 0..8 /\ p # 1
    BY <1>6
  <2> QED BY <1>1, <1>6, <2>1, OnlyFirst
<1>9. ~q.nullSeen /\ q.got = NoToken /\ q.window = Push(r.window, b)
  BY <1>1, <1>5, <1>7, <1>8, TakeCounts
<1> DEFINE m == IF n < 9 THEN n + 1 ELSE 9
<1> HIDE DEF q, b
<1>10. Win(q.window, m, 1)
  <2>1. p \in 0..8 /\ NullBit(p + 1) = NullBit(1)
    BY <1>6 DEF NullBit
  <2>2. Win(q.window, m, p + 1)
    BY <1>1, <1>5, <1>6, <1>9, <2>1, WinPush
  <2>3. p + 1 = 1 \/ p + 1 = 9
    BY <1>6
  <2>4. m \in 0..9
    BY <1>6
  <2> HIDE DEF m
  <2> QED BY <2>2, <2>3, <2>4, WinWrap
<1>11. m \in 0..9 /\ (rdy /\ p = 0 => m = 1) /\ (rdy /\ p = 8 => m = 9)
  BY <1>6
<1> HIDE DEF m
<1>12. CASE t = NoToken
  <2>1. fl \o Tok(t) = <<>>
    <3>1. Tok(t) = <<>> /\ <<>> \o <<>> = <<>>
      BY <1>12 DEF Tok
    <3> QED BY <1>3, <3>1
  <2>2. Bits(t) = NullBits /\ startParity(t) = 0
    BY <1>12 DEF NullBits, startParity, NoToken
  <2>3. Len(NullBits) = 7 /\ SendsNull(NullBits, 0)
    BY NullBitsAre
  <2>4. Win(q.window, m, 8 - Len(NullBits)) /\ (rdy => m = 8 - Len(NullBits) \/ (m = 9 /\ Len(NullBits) = 7))
    <3>1. 8 - Len(NullBits) = 1
      BY <2>3
    <3> QED BY <1>6, <1>10, <1>11, <2>3, <3>1
  <2>5. InNulls(q, fl \o Tok(t), Bits(t), startParity(t), TRUE, rdy)
    BY <1>11, <2>1, <2>2, <2>3, <2>4 DEF InNulls
  <2> QED BY <1>5, <1>7, <1>9, <1>12, <2>5 DEF q, b
<1>13. CASE t = Fct
  <2>1. p = 8 /\ rdy /\ null
    <3>1. Fct # NoToken
      BY DEF Fct, NoToken
    <3>2. p # 0
      BY <1>6, <1>13, <3>1
    <3>3. rdy
      BY <1>13, <3>1
    <3> QED BY <1>6, <3>2, <3>3
  <2>2. fl \o Tok(t) = <<Fct>>
    <3>1. Tok(t) = <<Fct>> /\ <<>> \o <<Fct>> = <<Fct>>
      BY <1>13, FctBitsAre
    <3> QED BY <1>3, <3>1
  <2>3. BehindNull(q, fl \o Tok(t), Bits(t), startParity(t), null, rdy)
    BY <1>10, <1>11, <1>13, <2>1, <2>2, FctBitsAre DEF BehindNull
  <2> QED BY <1>5, <1>7, <1>9, <1>13, <2>3 DEF q, b
<1> QED BY <1>12, <1>13

(* A receiver with what is on its way to it, when a bit arrives or none does. *)
Pass(x, on, b) ==
  IF on THEN [r |-> Take(x.r, b), fl |-> Moved(x.fl, Take(x.r, b))]
  ELSE [r |-> Rest(x.r), fl |-> x.fl]

(* One more token is on its way. *)
More(x, t) == [r |-> x.r, fl |-> x.fl \o Tok(t)]

(* The token about to be completed is the next one on its way. *)
Fits(x) == x.r.left = 0 /\ decoded(x.r) # NoToken => x.fl # <<>> /\ Head(x.fl) = decoded(x.r)

(* The bit b is not reported as an error. *)
Clear(x, b) == x.r.left = 0 => ~badParity(x.r, b) /\ ~badEsc(x.r)

(* The receiver is in step with a transmitter that still has bits to send of
   its token. *)
InStep(x, bits, par, null, fct, rdy) ==
  /\ ~x.r.errpar /\ ~x.r.erresc
  /\ \/ /\ x.r.nullSeen
        /\ \/ AtParity(x.r, x.fl, bits, par) \/ InEsc(x.r, x.fl, bits, par)
           \/ AfterEsc(x.r, x.fl, bits, par) \/ InContents(x.r, x.fl, bits, par)
     \/ ~x.r.nullSeen /\ ~fct /\ BeforeNulls(x.r, x.fl, bits, par, null)
     \/ ~x.r.nullSeen /\ ~fct /\ InNulls(x.r, x.fl, bits, par, null, rdy)
     \/ ~x.r.nullSeen /\ BehindNull(x.r, x.fl, bits, par, null, rdy)

(* What a bit can report and deliver. *)
LEMMA TakeErrors ==
  ASSUME NEW r, Whole(r), NEW b \in Bit
  PROVE  /\ Take(r, b).got # NoToken => r.left = 0 /\ ~badParity(r, b) /\ Take(r, b).got = decoded(r)
         /\ (r.left = 0 => ~badParity(r, b) /\ ~badEsc(r))
               => Take(r, b).errpar = r.errpar /\ Take(r, b).erresc = r.erresc
         /\ r.left = 0 /\ badParity(r, b) => Take(r, b).errpar
<1> DEFINE q == Take(r, b)
<1>1. r \in Receiver
  BY DEF Whole
<1>2. CASE r.left # 0
  <2>1. q.got = NoToken /\ q.errpar = r.errpar /\ q.erresc = r.erresc
    <3>1. CASE r.nullSeen \/ r.window # FirstNull
      BY <1>1, <1>2, <3>1, TakeCounts
    <3>2. CASE ~r.nullSeen /\ r.window = FirstNull
      BY <1>1, <1>2, <3>2, TakeSyncs
    <3> QED BY <3>1, <3>2
  <2> HIDE DEF q
  <2> QED BY <1>2, <2>1 DEF q
<1>3. CASE r.left = 0
  <2>1. r.nullSeen
    BY <1>3, WordIsShort DEF Whole
  <2>2. /\ badParity(r, b) => q.got = NoToken /\ q.errpar = TRUE
        /\ ~badParity(r, b) => q.got = decoded(r) /\ q.errpar = r.errpar /\ q.erresc = (r.erresc \/ badEsc(r))
    BY <1>1, <1>3, <2>1, TakeJudges, ZenonT(60)
  <2>3. r.erresc \in BOOLEAN
    BY <1>1 DEF Receiver
  <2> HIDE DEF q
  <2>4. ~badParity(r, b) /\ ~badEsc(r) => q.errpar = r.errpar /\ q.erresc = r.erresc
    BY <2>2, <2>3
  <2> QED BY <1>3, <2>2, <2>4 DEF q
<1> QED BY <1>2, <1>3

(* A bit inside a token keeps the receiver in step. *)
LEMMA SendShift ==
  ASSUME NEW x, Whole(x.r), NEW bits \in Seq(Bit), bits # <<>>, NEW par, NEW null, NEW fct, NEW rdy,
         InStep(x, bits, par, null, fct, rdy)
  PROVE  LET b == Head(bits)
         IN Fits(x) /\ Clear(x, b) /\ InStep(Pass(x, TRUE, b), Tail(bits), Xor(par, b), null, fct, rdy)
<1> DEFINE b == Head(bits)
           q == Take(x.r, b)
           f == Moved(x.fl, q)
           y == Pass(x, TRUE, b)
<1>1. b \in Bit
  BY SeqIsCons
<1>2. y.r = q /\ y.fl = f
  BY DEF Pass
<1>3. f = IF q.got # NoToken THEN Tail(x.fl) ELSE x.fl
  BY DEF Moved
<1>4. ~x.r.errpar /\ ~x.r.erresc
  BY DEF InStep
<1>5. Clear(x, b) => ~q.errpar /\ ~q.erresc
  BY <1>1, <1>4, TakeErrors DEF Clear
<1>6. x.r.nullSeen => q.nullSeen
  BY <1>1, WholeTake DEF Keeps
<1>7. CASE x.r.nullSeen /\ AtParity(x.r, x.fl, bits, par)
  <2>1. /\ ~badParity(x.r, b) /\ ~badEsc(x.r)
        /\ decoded(x.r) # NoToken => x.fl # <<>> /\ Head(x.fl) = decoded(x.r)
        /\ \/ InEsc(q, f, Tail(bits), Xor(par, b))
           \/ InContents(q, f, Tail(bits), Xor(par, b))
    BY <1>7, ShiftAtParity
  <2>2. Fits(x) /\ Clear(x, b)
    BY <2>1 DEF Fits, Clear
  <2> HIDE DEF q, f, y
  <2> QED BY <1>2, <1>5, <1>6, <1>7, <2>1, <2>2 DEF InStep, y
<1>8. CASE x.r.nullSeen /\ InEsc(x.r, x.fl, bits, par)
  <2>1. /\ x.r.left # 0 /\ q.got = NoToken
        /\ \/ InEsc(q, x.fl, Tail(bits), Xor(par, b))
           \/ AfterEsc(q, x.fl, Tail(bits), Xor(par, b))
    BY <1>8, ShiftInEsc
  <2>2. Fits(x) /\ Clear(x, b)
    BY <2>1 DEF Fits, Clear
  <2> HIDE DEF q, f, y
  <2> QED BY <1>2, <1>3, <1>5, <1>6, <1>8, <2>1, <2>2 DEF InStep, y
<1>9. CASE x.r.nullSeen /\ AfterEsc(x.r, x.fl, bits, par)
  <2>1. /\ ~badParity(x.r, b) /\ ~badEsc(x.r) /\ decoded(x.r) = NoToken
        /\ q.got = NoToken
        /\ InContents(q, x.fl, Tail(bits), Xor(par, b))
    BY <1>9, ShiftAfterEsc
  <2>2. Fits(x) /\ Clear(x, b)
    BY <2>1 DEF Fits, Clear
  <2> HIDE DEF q, f, y
  <2> QED BY <1>2, <1>3, <1>5, <1>6, <1>9, <2>1, <2>2 DEF InStep, y
<1>10. CASE x.r.nullSeen /\ InContents(x.r, x.fl, bits, par)
  <2>1. /\ x.r.left # 0 /\ q.got = NoToken
        /\ InContents(q, x.fl, Tail(bits), Xor(par, b))
    BY <1>10, ShiftInContents
  <2>2. Fits(x) /\ Clear(x, b)
    BY <2>1 DEF Fits, Clear
  <2> HIDE DEF q, f, y
  <2> QED BY <1>2, <1>3, <1>5, <1>6, <1>10, <2>1, <2>2 DEF InStep, y
<1>11. CASE ~x.r.nullSeen /\ ~fct /\ InNulls(x.r, x.fl, bits, par, null, rdy)
  <2>1. InNulls(x.r, x.fl, bits, par, TRUE, rdy) /\ null
    BY <1>11 DEF InNulls
  <2>2. /\ x.r.left # 0 /\ q.got = NoToken
        /\ \/ ~q.nullSeen /\ InNulls(q, x.fl, Tail(bits), Xor(par, b), TRUE, rdy)
           \/ q.nullSeen /\ InEsc(q, x.fl, Tail(bits), Xor(par, b))
    BY <1>11, <2>1, LookShift
  <2>3. Fits(x) /\ Clear(x, b)
    BY <2>2 DEF Fits, Clear
  <2> HIDE DEF q, f, y
  <2>4. InNulls(q, x.fl, Tail(bits), Xor(par, b), TRUE, rdy) => InNulls(q, x.fl, Tail(bits), Xor(par, b), null, rdy)
    BY <2>1 DEF InNulls
  <2> QED BY <1>2, <1>3, <1>5, <1>11, <2>2, <2>3, <2>4 DEF InStep, y
<1>12. CASE ~x.r.nullSeen /\ BehindNull(x.r, x.fl, bits, par, null, rdy)
  <2>1. /\ x.r.left # 0 /\ q.got = NoToken /\ q.nullSeen
        /\ InContents(q, x.fl, Tail(bits), Xor(par, b))
    BY <1>12, LookShiftFct
  <2>2. Fits(x) /\ Clear(x, b)
    BY <2>1 DEF Fits, Clear
  <2> HIDE DEF q, f, y
  <2> QED BY <1>2, <1>3, <1>5, <1>12, <2>1, <2>2 DEF InStep, y
<1>13. ~BeforeNulls(x.r, x.fl, bits, par, null)
  BY DEF BeforeNulls
<1> QED BY <1>7, <1>8, <1>9, <1>10, <1>11, <1>12, <1>13 DEF InStep

(* So does the parity bit with which a token begins. *)
LEMMA SendBegin ==
  ASSUME NEW x, Whole(x.r), NEW par \in Bit, NEW null, NEW fct, NEW rdy,
         InStep(x, <<>>, par, null, fct, rdy), NEW t \in Sendable,
         x.r.nullSeen \/ t = NoToken \/ (t = Fct /\ null /\ rdy)
  PROVE  LET b == Xor(par, Not(Head(Bits(t))))
         IN /\ Fits(More(x, t)) /\ Clear(More(x, t), b)
            /\ InStep(Pass(More(x, t), TRUE, b), Bits(t), startParity(t), null \/ t = NoToken, fct \/ t = Fct, rdy)
<1> DEFINE b == Xor(par, Not(Head(Bits(t))))
           z == More(x, t)
           q == Take(x.r, b)
           y == Pass(z, TRUE, b)
<1>1. z.r = x.r /\ z.fl = x.fl \o Tok(t)
  BY DEF More
<1>2. y.r = q /\ y.fl = Moved(z.fl, q)
  BY <1>1 DEF Pass
<1>3. ~x.r.errpar /\ ~x.r.erresc
  BY DEF InStep
<1>4. Xor(par, Not(Head(Bits(t)))) \in Bit
  <2>1. Head(Bits(t)) \in Bit
    BY BitsHead
  <2> QED BY <2>1, BitOps DEF Bit
<1>5. x.r.left # 0 => ~q.errpar /\ ~q.erresc
  BY <1>3, <1>4, TakeErrors
<1>6. x.r.left # 0 => Fits(z) /\ Clear(z, b)
  BY <1>1 DEF Fits, Clear
<1>7. q.got = NoToken => y.fl = z.fl
  BY <1>2 DEF Moved
<1>8. CASE x.r.nullSeen
  <2>1. Len(<<>>) = 0 /\ Bits(t) # <<>>
    BY BitsHead
  <2>2. InContents(x.r, x.fl, <<>>, par)
    <3>1. ~AtParity(x.r, x.fl, <<>>, par)
      BY BitsHead DEF AtParity
    <3>2. ~InEsc(x.r, x.fl, <<>>, par)
      BY <1>8, ShiftInEsc
    <3>3. ~AfterEsc(x.r, x.fl, <<>>, par)
      BY <1>8, ShiftAfterEsc
    <3> QED BY <1>8, <3>1, <3>2, <3>3 DEF InStep
  <2>3. /\ x.r.left # 0 /\ q.got = NoToken
        /\ AtParity(q, x.fl \o Tok(t), Bits(t), startParity(t))
    BY <1>8, <2>2, BeginAfterContents
  <2>4. q.nullSeen
    BY <1>4, <1>8, WholeTake DEF Keeps
  <2> HIDE DEF q, z, y, b
  <2>5. InStep(y, Bits(t), startParity(t), null \/ t = NoToken, fct \/ t = Fct, rdy)
    BY <1>1, <1>2, <1>5, <1>7, <2>3, <2>4 DEF InStep
  <2> QED BY <1>6, <2>3, <2>5 DEF y, z, b
<1>9. CASE ~x.r.nullSeen
  <2>1. ~BehindNull(x.r, x.fl, <<>>, par, null, rdy)
    BY FctBitsAre DEF BehindNull
  <2>2. ~fct /\ (BeforeNulls(x.r, x.fl, <<>>, par, null) \/ InNulls(x.r, x.fl, <<>>, par, null, rdy))
    BY <1>9, <2>1 DEF InStep
  <2>3. BeforeNulls(x.r, x.fl, <<>>, par, null) => t = NoToken
    BY <1>9 DEF BeforeNulls
  <2>4. /\ b \in Bit /\ x.r.left # 0 /\ q.got = NoToken /\ ~q.nullSeen
        /\ \/ t = NoToken /\ InNulls(q, x.fl \o Tok(t), Bits(t), startParity(t), TRUE, rdy)
           \/ t = Fct /\ BehindNull(q, x.fl \o Tok(t), Bits(t), startParity(t), null, rdy)
    <3>1. \/ t = NoToken /\ BeforeNulls(x.r, x.fl, <<>>, par, null)
          \/ t = NoToken /\ InNulls(x.r, x.fl, <<>>, par, null, rdy)
          \/ t = Fct /\ rdy /\ InNulls(x.r, x.fl, <<>>, par, null, rdy)
      BY <1>9, <2>2, <2>3
    <3> QED BY <1>9, <3>1, LookBegin
  <2> HIDE DEF q, z, y, b
  <2>5. t = NoToken => t # Fct
    BY DEF NoToken, Fct
  <2>6. t = NoToken => InStep(y, Bits(t), startParity(t), null \/ t = NoToken, fct \/ t = Fct, rdy)
    <3> HAVE t = NoToken
    <3>1. InNulls(q, x.fl \o Tok(t), Bits(t), startParity(t), null \/ t = NoToken, rdy)
      BY <2>4, <2>5 DEF InNulls
    <3>2. ~(fct \/ t = Fct)
      BY <2>2, <2>5
    <3> QED BY <1>1, <1>2, <1>5, <1>7, <2>4, <3>1, <3>2 DEF InStep
  <2>7. t = Fct => InStep(y, Bits(t), startParity(t), null \/ t = NoToken, fct \/ t = Fct, rdy)
    <3> HAVE t = Fct
    <3>1. BehindNull(q, x.fl \o Tok(t), Bits(t), startParity(t), null \/ t = NoToken, rdy)
      BY <2>4, <2>5 DEF BehindNull
    <3> QED BY <1>1, <1>2, <1>5, <1>7, <2>4, <3>1 DEF InStep
  <2> QED BY <1>6, <2>4, <2>6, <2>7 DEF y, z, b
<1> QED BY <1>8, <1>9

(* And a clock without a bit. *)
LEMMA InStepRest ==
  ASSUME NEW x, x.r \in Receiver, NEW b, NEW bits, NEW par, NEW null, NEW fct, NEW rdy,
         InStep(x, bits, par, null, fct, rdy)
  PROVE  InStep(Pass(x, FALSE, b), bits, par, null, fct, rdy)
<1> DEFINE q == Rest(x.r)
           y == Pass(x, FALSE, b)
<1>1. y.r = q /\ y.fl = x.fl
  BY DEF Pass
<1>2. /\ q.nullSeen = x.r.nullSeen
      /\ q.window = x.r.window /\ q.left = x.r.left /\ q.parity = x.r.parity
      /\ q.control = x.r.control /\ q.escaped = x.r.escaped
      /\ q.errpar = x.r.errpar /\ q.erresc = x.r.erresc
  BY RestIs
<1> HIDE DEF q, y
<1>3. decoded(q) = decoded(x.r) /\ isEsc(q) = isEsc(x.r) /\ badEsc(q) = badEsc(x.r)
  BY <1>2 DEF decoded, isEsc, badEsc, contents, lastTwo
<1>4. AtParity(x.r, x.fl, bits, par) => AtParity(q, x.fl, bits, par)
  BY <1>2, <1>3 DEF AtParity
<1>5. InEsc(x.r, x.fl, bits, par) => InEsc(q, x.fl, bits, par)
  BY <1>2 DEF InEsc
<1>6. AfterEsc(x.r, x.fl, bits, par) => AfterEsc(q, x.fl, bits, par)
  BY <1>2 DEF AfterEsc
<1>7. InContents(x.r, x.fl, bits, par) => InContents(q, x.fl, bits, par)
  BY <1>2 DEF InContents
<1>8. BeforeNulls(x.r, x.fl, bits, par, null) => BeforeNulls(q, x.fl, bits, par, null)
  BY <1>2 DEF BeforeNulls
<1>9. InNulls(x.r, x.fl, bits, par, null, rdy) => InNulls(q, x.fl, bits, par, null, rdy)
  BY <1>2 DEF InNulls
<1>10. BehindNull(x.r, x.fl, bits, par, null, rdy) => BehindNull(q, x.fl, bits, par, null, rdy)
  BY <1>2 DEF BehindNull
<1>11. InStep(y, bits, par, null, fct, rdy)
  BY <1>1, <1>2, <1>4, <1>5, <1>6, <1>7, <1>8, <1>9, <1>10 DEF InStep
<1> QED BY <1>11 DEF y

(* A receiver with the tokens on their way, and five stages with the bits on
   their way. *)
Convoys == {x \in [r : Receiver, fl : Seq(Token)] : Whole(x.r)}
Pipes   == [1..5 -> [on : BOOLEAN, bit : Bit]]

(* One bit leaves a receiver with tokens on their way. *)
LEMMA PassIs ==
  ASSUME NEW x \in Convoys, NEW on \in BOOLEAN, NEW b \in Bit, on => Fits(x)
  PROVE  Pass(x, on, b) \in Convoys /\ Keeps(x.r, Pass(x, on, b).r)
<1>1. x.r \in Receiver /\ Whole(x.r) /\ x.fl \in Seq(Token)
  BY DEF Convoys
<1>2. CASE on
  <2> DEFINE q == Take(x.r, b)
             f == Moved(x.fl, q)
  <2>1. Whole(q) /\ Keeps(x.r, q)
    BY <1>1, WholeTake
  <2>2. q.got # NoToken => x.r.left = 0 /\ q.got = decoded(x.r)
    BY <1>1, TakeErrors
  <2>3. Pass(x, on, b) = [r |-> q, fl |-> f]
    BY <1>2 DEF Pass
  <2> HIDE DEF q
  <2>4. q.got # NoToken => x.fl # <<>>
    BY <1>2, <2>2 DEF Fits
  <2>5. f \in Seq(Token)
    <3>1. x.fl # <<>> => Tail(x.fl) \in Seq(Token)
      BY <1>1, HeadTailProperties
    <3> QED BY <1>1, <2>4, <3>1 DEF Moved
  <2>6. q \in Receiver
    BY <2>1 DEF Whole
  <2> HIDE DEF f
  <2>7. [r |-> q, fl |-> f] \in Convoys
    BY <2>1, <2>5, <2>6 DEF Convoys
  <2> QED BY <2>1, <2>3, <2>7
<1>3. CASE ~on
  <2> DEFINE q == Rest(x.r)
  <2>1. Whole(q) /\ Keeps(x.r, q)
    BY <1>1, WholeRest
  <2>2. Pass(x, on, b) = [r |-> q, fl |-> x.fl]
    BY <1>3 DEF Pass
  <2> HIDE DEF q
  <2>3. q \in Receiver
    BY <2>1 DEF Whole
  <2>4. [r |-> q, fl |-> x.fl] \in Convoys
    BY <1>1, <2>1, <2>3 DEF Convoys
  <2> QED BY <2>1, <2>2, <2>4
<1> QED BY <1>2, <1>3

(* One more token changes neither the receiver nor the next token. *)
LEMMA MoreIs ==
  ASSUME NEW x \in Convoys, NEW t \in Sendable
  PROVE  /\ More(x, t) \in Convoys /\ More(x, t).r = x.r /\ More(x, t).fl = x.fl \o Tok(t)
         /\ t = NoToken => More(x, t) = x
         /\ Fits(x) => Fits(More(x, t))
         /\ \A b : Clear(x, b) => Clear(More(x, t), b)
         /\ x.fl # <<>> => /\ x.fl \o Tok(t) # <<>>
                           /\ Head(x.fl \o Tok(t)) = Head(x.fl)
                           /\ Tail(x.fl \o Tok(t)) = Tail(x.fl) \o Tok(t)
<1>1. x.r \in Receiver /\ Whole(x.r) /\ x.fl \in Seq(Token) /\ x = [r |-> x.r, fl |-> x.fl]
  BY DEF Convoys
<1>2. Tok(t) \in Seq(Token) /\ x.fl \o Tok(t) \in Seq(Token)
  <2>1. Tok(t) \in Seq(Token)
    BY TokMoves
  <2> QED BY <1>1, <2>1, ConcatProperties
<1>3. More(x, t) \in Convoys /\ More(x, t).r = x.r /\ More(x, t).fl = x.fl \o Tok(t)
  <2> DEFINE f == x.fl \o Tok(t)
  <2>1. More(x, t) = [r |-> x.r, fl |-> f] /\ f \in Seq(Token)
    BY <1>2 DEF More
  <2> HIDE DEF f
  <2>2. More(x, t) \in Convoys /\ More(x, t).r = x.r /\ More(x, t).fl = f
    BY <1>1, <2>1 DEF Convoys
  <2> QED BY <2>2 DEF f
<1>4. t = NoToken => More(x, t) = x
  <2>1. x.fl \o <<>> = x.fl
    BY <1>1, ConcatEmptySeq
  <2> QED BY <1>1, <2>1 DEF More, Tok
<1>5. x.fl # <<>> => /\ x.fl \o Tok(t) # <<>>
                     /\ Head(x.fl \o Tok(t)) = Head(x.fl)
                     /\ Tail(x.fl \o Tok(t)) = Tail(x.fl) \o Tok(t)
  BY <1>1, <1>2, FrontStays
<1>6. Fits(x) => Fits(More(x, t))
  <2> DEFINE y == More(x, t)
  <2>1. y.r = x.r /\ (x.fl # <<>> => y.fl # <<>> /\ Head(y.fl) = Head(x.fl))
    BY <1>3, <1>5
  <2> HIDE DEF y
  <2>2. Fits(x) => Fits(y)
    BY <2>1 DEF Fits
  <2> QED BY <2>2 DEF y
<1>7. ASSUME NEW b PROVE Clear(x, b) => Clear(More(x, t), b)
  BY <1>3 DEF Clear
<1> QED BY <1>3, <1>4, <1>5, <1>6, <1>7

(* A token may be sent before or after a bit arrives. *)
LEMMA PassMore ==
  ASSUME NEW x \in Convoys, NEW t \in Sendable, NEW on \in BOOLEAN, NEW b \in Bit, on => Fits(x)
  PROVE  Pass(More(x, t), on, b) = More(Pass(x, on, b), t)
<1> DEFINE y == More(x, t)
<1>1. /\ y.r = x.r /\ y.fl = x.fl \o Tok(t)
      /\ x.fl # <<>> => Tail(y.fl) = Tail(x.fl) \o Tok(t)
  BY MoreIs
<1> HIDE DEF y
<1>2. CASE on
  <2> DEFINE q == Take(x.r, b)
  <2>1. q.got # NoToken => x.r.left = 0 /\ q.got = decoded(x.r)
    BY TakeErrors DEF Convoys
  <2>2. Take(y.r, b) = q
    BY <1>1
  <2> HIDE DEF q
  <2>3. q.got # NoToken => x.fl # <<>>
    BY <1>2, <2>1 DEF Fits
  <2>4. Moved(y.fl, q) = Moved(x.fl, q) \o Tok(t)
    BY <1>1, <2>3 DEF Moved
  <2>5. Pass(y, on, b) = [r |-> q, fl |-> Moved(y.fl, q)]
    BY <1>2, <2>2 DEF Pass
  <2>6. Pass(x, on, b) = [r |-> q, fl |-> Moved(x.fl, q)]
    BY <1>2 DEF Pass, q
  <2>7. More(Pass(x, on, b), t) = [r |-> q, fl |-> Moved(x.fl, q) \o Tok(t)]
    BY <2>6 DEF More
  <2> QED BY <2>4, <2>5, <2>7 DEF y
<1>3. CASE ~on
  BY <1>1, <1>3 DEF Pass, More, y
<1> QED BY <1>2, <1>3

(* The receiver as it will be when the stages 1 to 5 have arrived. *)
At1(x, p) == Pass(x, p[1].on, p[1].bit)
At2(x, p) == Pass(At1(x, p), p[2].on, p[2].bit)
At3(x, p) == Pass(At2(x, p), p[3].on, p[3].bit)
At4(x, p) == Pass(At3(x, p), p[4].on, p[4].bit)
At5(x, p) == Pass(At4(x, p), p[5].on, p[5].bit)

(* Along the way every completed token is the next one on its way. *)
Along4(x, p) ==
  /\ p[1].on => Fits(x)
  /\ p[2].on => Fits(At1(x, p))
  /\ p[3].on => Fits(At2(x, p))
  /\ p[4].on => Fits(At3(x, p))

Along(x, p) == Along4(x, p) /\ (p[5].on => Fits(At4(x, p)))

(* Along the way no bit is reported as an error. *)
Unharmed4(x, p) ==
  /\ p[1].on => Clear(x, p[1].bit)
  /\ p[2].on => Clear(At1(x, p), p[2].bit)
  /\ p[3].on => Clear(At2(x, p), p[3].bit)
  /\ p[4].on => Clear(At3(x, p), p[4].bit)

Unharmed(x, p) == Unharmed4(x, p) /\ (p[5].on => Clear(At4(x, p), p[5].bit))

(* Every stage has moved on by one. *)
Shifted(p, p2) == p2[1] = p[2] /\ p2[2] = p[3] /\ p2[3] = p[4] /\ p2[4] = p[5]

(* The receivers along the way are receivers. *)
LEMMA AlongIs ==
  ASSUME NEW x \in Convoys, NEW p \in Pipes, Along4(x, p)
  PROVE  /\ At1(x, p) \in Convoys /\ At2(x, p) \in Convoys /\ At3(x, p) \in Convoys /\ At4(x, p) \in Convoys
         /\ (p[5].on => Fits(At4(x, p))) => At5(x, p) \in Convoys /\ Keeps(x.r, At5(x, p).r)
<1>1. /\ p[1].on \in BOOLEAN /\ p[1].bit \in Bit /\ p[2].on \in BOOLEAN /\ p[2].bit \in Bit
      /\ p[3].on \in BOOLEAN /\ p[3].bit \in Bit /\ p[4].on \in BOOLEAN /\ p[4].bit \in Bit
      /\ p[5].on \in BOOLEAN /\ p[5].bit \in Bit
  BY DEF Pipes
<1>2. At1(x, p) \in Convoys /\ Keeps(x.r, At1(x, p).r)
  BY <1>1, PassIs DEF At1, Along4
<1>3. At2(x, p) \in Convoys /\ Keeps(At1(x, p).r, At2(x, p).r)
  BY <1>1, <1>2, PassIs DEF At2, Along4
<1>4. At3(x, p) \in Convoys /\ Keeps(At2(x, p).r, At3(x, p).r)
  BY <1>1, <1>3, PassIs DEF At3, Along4
<1>5. At4(x, p) \in Convoys /\ Keeps(At3(x, p).r, At4(x, p).r)
  BY <1>1, <1>4, PassIs DEF At4, Along4
<1>6. (p[5].on => Fits(At4(x, p))) => At5(x, p) \in Convoys /\ Keeps(At4(x, p).r, At5(x, p).r)
  BY <1>1, <1>5, PassIs DEF At5
<1> QED BY <1>2, <1>3, <1>4, <1>5, <1>6 DEF Keeps

(* When a bit has arrived the last but one receiver is the last of before. *)
LEMMA AlongShifts ==
  ASSUME NEW x \in Convoys, NEW p \in Pipes, NEW p2 \in Pipes, Shifted(p, p2), Along(x, p),
         NEW t \in Sendable, NEW y, y = More(At1(x, p), t)
  PROVE  /\ y \in Convoys /\ y.r = At1(x, p).r
         /\ Along4(y, p2) /\ At4(y, p2) = More(At5(x, p), t)
         /\ At5(x, p) \in Convoys /\ Keeps(x.r, At5(x, p).r)
         /\ Unharmed(x, p) => Unharmed4(y, p2)
<1>1. /\ p2[1].on = p[2].on /\ p2[1].bit = p[2].bit /\ p2[2].on = p[3].on /\ p2[2].bit = p[3].bit
      /\ p2[3].on = p[4].on /\ p2[3].bit = p[4].bit /\ p2[4].on = p[5].on /\ p2[4].bit = p[5].bit
  BY DEF Shifted
<1>2. /\ p[2].on \in BOOLEAN /\ p[2].bit \in Bit
      /\ p[3].on \in BOOLEAN /\ p[3].bit \in Bit /\ p[4].on \in BOOLEAN /\ p[4].bit \in Bit
      /\ p[5].on \in BOOLEAN /\ p[5].bit \in Bit
  BY DEF Pipes
<1>3. /\ At1(x, p) \in Convoys /\ At2(x, p) \in Convoys /\ At3(x, p) \in Convoys /\ At4(x, p) \in Convoys
      /\ At5(x, p) \in Convoys /\ Keeps(x.r, At5(x, p).r)
  BY AlongIs DEF Along
<1>4. y \in Convoys /\ y.r = At1(x, p).r /\ (p[2].on => Fits(y)) /\ (\A b : Clear(At1(x, p), b) => Clear(y, b))
  BY <1>3, MoreIs DEF Along, Along4
<1>5. At1(y, p2) = More(At2(x, p), t)
  BY <1>1, <1>2, <1>3, PassMore DEF At1, At2, Along, Along4
<1>6. (p[3].on => Fits(At1(y, p2))) /\ (\A b : Clear(At2(x, p), b) => Clear(At1(y, p2), b))
  BY <1>3, <1>5, MoreIs DEF Along, Along4
<1>7. At2(y, p2) = More(At3(x, p), t)
  <2>1. At2(y, p2) = Pass(More(At2(x, p), t), p[3].on, p[3].bit)
    BY <1>1, <1>5 DEF At2
  <2>2. p[3].on => Fits(At2(x, p))
    BY DEF Along, Along4
  <2>3. Pass(More(At2(x, p), t), p[3].on, p[3].bit) = More(Pass(At2(x, p), p[3].on, p[3].bit), t)
    BY <1>2, <1>3, <2>2, PassMore
  <2> QED BY <2>1, <2>3 DEF At3
<1>8. (p[4].on => Fits(At2(y, p2))) /\ (\A b : Clear(At3(x, p), b) => Clear(At2(y, p2), b))
  BY <1>3, <1>7, MoreIs DEF Along, Along4
<1>9. At3(y, p2) = More(At4(x, p), t)
  <2>1. At3(y, p2) = Pass(More(At3(x, p), t), p[4].on, p[4].bit)
    BY <1>1, <1>7 DEF At3
  <2>2. p[4].on => Fits(At3(x, p))
    BY DEF Along, Along4
  <2>3. Pass(More(At3(x, p), t), p[4].on, p[4].bit) = More(Pass(At3(x, p), p[4].on, p[4].bit), t)
    BY <1>2, <1>3, <2>2, PassMore
  <2> QED BY <2>1, <2>3 DEF At4
<1>10. (p[5].on => Fits(At3(y, p2))) /\ (\A b : Clear(At4(x, p), b) => Clear(At3(y, p2), b))
  BY <1>3, <1>9, MoreIs DEF Along
<1>11. At4(y, p2) = More(At5(x, p), t)
  <2>1. At4(y, p2) = Pass(More(At4(x, p), t), p[5].on, p[5].bit)
    BY <1>1, <1>9 DEF At4
  <2>2. p[5].on => Fits(At4(x, p))
    BY DEF Along
  <2>3. Pass(More(At4(x, p), t), p[5].on, p[5].bit) = More(Pass(At4(x, p), p[5].on, p[5].bit), t)
    BY <1>2, <1>3, <2>2, PassMore
  <2> QED BY <2>1, <2>3 DEF At5
<1>12. Along4(y, p2)
  BY <1>1, <1>4, <1>6, <1>8, <1>10 DEF Along4
<1>13. Unharmed(x, p) => Unharmed4(y, p2)
  BY <1>1, <1>4, <1>6, <1>8, <1>10 DEF Unharmed4, Unharmed
<1> QED BY <1>3, <1>4, <1>11, <1>12, <1>13

(* With all that is on its way, the receiver is in step with the transmitter. *)
Follows(x, p, s, rdy) ==
  /\ x \in Convoys /\ Along(x, p) /\ Unharmed(x, p)
  /\ InStep(At5(x, p), s.bits, s.par, s.null, s.fct, rdy)

(* The transmitter sends the next bit b of its token. *)
Shifts(s, b, s2) ==
  /\ s.bits \in Seq(Bit) /\ s.bits # <<>> /\ b = Head(s.bits)
  /\ s2.bits = Tail(s.bits) /\ s2.par = Xor(s.par, Head(s.bits)) /\ s2.null = s.null /\ s2.fct = s.fct

(* The transmitter sends the parity bit b and begins t. *)
Begins(s, t, b, s2) ==
  /\ s.bits = <<>> /\ s.par \in Bit /\ b = Xor(s.par, Not(Head(Bits(t))))
  /\ s2.bits = Bits(t) /\ s2.par = startParity(t)
  /\ s2.null = (s.null \/ t = NoToken) /\ s2.fct = (s.fct \/ t = Fct)

(* Before the receiver is in step, only NULLs are sent, and an FCT to one
   that was on before them. *)
MayBegin(x, s, t, rdy) == x.r.nullSeen \/ t = NoToken \/ (t = Fct /\ s.null /\ rdy)

(* A token that may begin keeps the receiver in step. *)
LEMMA SendBegins ==
  ASSUME NEW x, Whole(x.r), NEW s, NEW s2, NEW b, NEW rdy, NEW t \in Sendable,
         InStep(x, s.bits, s.par, s.null, s.fct, rdy), Begins(s, t, b, s2), MayBegin(x, s, t, rdy)
  PROVE  /\ Fits(More(x, t)) /\ Clear(More(x, t), b)
         /\ InStep(Pass(More(x, t), TRUE, b), s2.bits, s2.par, s2.null, s2.fct, rdy)
<1>1. s.bits = <<>> /\ s.par \in Bit /\ b = Xor(s.par, Not(Head(Bits(t))))
  BY DEF Begins
<1>2. InStep(x, <<>>, s.par, s.null, s.fct, rdy)
  BY <1>1
<1>3. x.r.nullSeen \/ t = NoToken \/ (t = Fct /\ s.null /\ rdy)
  BY DEF MayBegin
<1> DEFINE c == Xor(s.par, Not(Head(Bits(t))))
<1>4. /\ Fits(More(x, t)) /\ Clear(More(x, t), c)
      /\ InStep(Pass(More(x, t), TRUE, c), Bits(t), startParity(t), s.null \/ t = NoToken, s.fct \/ t = Fct, rdy)
  BY <1>1, <1>2, <1>3, SendBegin
<1> HIDE DEF c
<1>5. b = c
  BY <1>1 DEF c
<1> QED BY <1>4, <1>5 DEF Begins

(* The receiver follows when nothing is sent, *)
LEMMA FollowsRest ==
  ASSUME NEW x, NEW p \in Pipes, NEW p2 \in Pipes, NEW s, NEW rdy, NEW y,
         Follows(x, p, s, rdy), Shifted(p, p2), ~p2[5].on, y = More(At1(x, p), NoToken)
  PROVE  Follows(y, p2, s, rdy)
<1> DEFINE z == At5(x, p)
<1>1. /\ y \in Convoys /\ Along4(y, p2) /\ Unharmed4(y, p2)
      /\ At4(y, p2) = More(z, NoToken) /\ z \in Convoys
  <2>1. NoToken \in Sendable
    BY DEF Sendable
  <2> QED BY <2>1, AlongShifts DEF Follows
<1>2. At4(y, p2) = z
  BY <1>1, MoreIs DEF Sendable
<1>3. InStep(z, s.bits, s.par, s.null, s.fct, rdy)
  BY DEF Follows
<1> HIDE DEF z
<1>4. z.r \in Receiver
  BY <1>1 DEF Convoys
<1>5. At5(y, p2) = Pass(z, FALSE, p2[5].bit)
  BY <1>2 DEF At5, Pass
<1>6. InStep(At5(y, p2), s.bits, s.par, s.null, s.fct, rdy)
  BY <1>3, <1>4, <1>5, InStepRest
<1> QED BY <1>1, <1>6 DEF Follows, Along, Unharmed

(* when a bit of a token is sent, *)
LEMMA FollowsShift ==
  ASSUME NEW x, NEW p \in Pipes, NEW p2 \in Pipes, NEW s, NEW s2, NEW rdy, NEW y,
         Follows(x, p, s, rdy), Shifted(p, p2), y = More(At1(x, p), NoToken),
         p2[5].on, Shifts(s, p2[5].bit, s2)
  PROVE  Follows(y, p2, s2, rdy)
<1> DEFINE z == At5(x, p)
           b == Head(s.bits)
<1>1. /\ y \in Convoys /\ Along4(y, p2) /\ Unharmed4(y, p2)
      /\ At4(y, p2) = More(z, NoToken) /\ z \in Convoys
  <2>1. NoToken \in Sendable
    BY DEF Sendable
  <2> QED BY <2>1, AlongShifts DEF Follows
<1>2. At4(y, p2) = z
  BY <1>1, MoreIs DEF Sendable
<1>3. InStep(z, s.bits, s.par, s.null, s.fct, rdy)
  BY DEF Follows
<1> HIDE DEF z
<1>4. Whole(z.r)
  BY <1>1 DEF Convoys
<1>5. Fits(z) /\ Clear(z, b) /\ InStep(Pass(z, TRUE, b), Tail(s.bits), Xor(s.par, b), s.null, s.fct, rdy)
  BY <1>3, <1>4, SendShift DEF Shifts
<1>6. At5(y, p2) = Pass(z, TRUE, b)
  BY <1>2 DEF At5, Pass, Shifts
<1>7. Along(y, p2) /\ Unharmed(y, p2)
  BY <1>1, <1>2, <1>5 DEF Along, Unharmed, Shifts
<1>8. InStep(At5(y, p2), s2.bits, s2.par, s2.null, s2.fct, rdy)
  BY <1>5, <1>6 DEF Shifts
<1> QED BY <1>1, <1>7, <1>8 DEF Follows

(* and when a token begins. *)
LEMMA FollowsBegin ==
  ASSUME NEW x, NEW p \in Pipes, NEW p2 \in Pipes, NEW s, NEW s2, NEW rdy, NEW y, NEW t \in Sendable,
         Follows(x, p, s, rdy), Shifted(p, p2), y = More(At1(x, p), t),
         p2[5].on, Begins(s, t, p2[5].bit, s2), MayBegin(At5(x, p), s, t, rdy)
  PROVE  Follows(y, p2, s2, rdy)
<1> DEFINE z == At5(x, p)
           b == p2[5].bit
<1>1. /\ y \in Convoys /\ Along4(y, p2) /\ Unharmed4(y, p2)
      /\ At4(y, p2) = More(z, t) /\ z \in Convoys
  BY AlongShifts DEF Follows
<1>2. InStep(z, s.bits, s.par, s.null, s.fct, rdy)
  BY DEF Follows
<1> HIDE DEF z
<1>3. MayBegin(z, s, t, rdy)
  BY DEF z
<1>4. Whole(z.r)
  BY <1>1 DEF Convoys
<1>5. Fits(More(z, t)) /\ Clear(More(z, t), b) /\ InStep(Pass(More(z, t), TRUE, b), s2.bits, s2.par, s2.null, s2.fct, rdy)
  BY <1>2, <1>3, <1>4, SendBegins
<1> HIDE DEF b
<1>6. At5(y, p2) = Pass(More(z, t), TRUE, b)
  BY <1>1 DEF At5, Pass, b
<1>7. Along(y, p2) /\ Unharmed(y, p2)
  BY <1>1, <1>5 DEF Along, Unharmed, b
<1> QED BY <1>1, <1>5, <1>6, <1>7 DEF Follows

(* At most k changes that are no bits are still to come: a token they
   complete is one on its way. *)
Harmless(x, k) ==
  /\ k > 0 => Fits(x)
  /\ k > 1 /\ x.r.left = 1 => \A b \in Bit : Fits([r |-> Take(x.r, b), fl |-> x.fl])
  /\ x.fl # <<>> => x.r.bitSeen

(* The transmitter has stopped: what is on its way is received right, and the
   last changes do no harm. *)
Ends(x, p, k) == x \in Convoys /\ Along(x, p) /\ Harmless(At5(x, p), k)

(* What is accepted for t is one token or none. *)
LEMMA TokIs ==
  ASSUME NEW t \in Sendable
  PROVE  /\ Tok(t) \in Seq(Token) /\ Len(Tok(t)) = (IF t = NoToken THEN 0 ELSE 1)
         /\ t # NoToken => Tok(t) # <<>> /\ Head(Tok(t)) = t
         /\ t = NoToken => Tok(t) = <<>>
BY DEF Tok, Sendable

(* Tokens are on their way only to a receiver that has seen bits. *)
LEMMA BitsSeen ==
  ASSUME NEW x \in Convoys, NEW bits, NEW par, NEW null, NEW fct, NEW rdy,
         InStep(x, bits, par, null, fct, rdy)
  PROVE  x.fl # <<>> => x.r.bitSeen
<1>1. Whole(x.r) /\ x.r \in Receiver
  BY DEF Convoys
<1>2. CASE x.r.nullSeen
  BY <1>1, <1>2 DEF Whole
<1>3. CASE BehindNull(x.r, x.fl, bits, par, null, rdy)
  <2>1. x.r.window[5] = 0
    BY <1>3 DEF BehindNull, Win, NullBit
  <2> QED BY <1>1, <2>1 DEF Whole
<1>4. CASE BeforeNulls(x.r, x.fl, bits, par, null) \/ InNulls(x.r, x.fl, bits, par, null, rdy)
  BY <1>4 DEF BeforeNulls, InNulls
<1> QED BY <1>2, <1>3, <1>4 DEF InStep

(* A receiver in step completes the token on its way, *)
LEMMA InStepFits ==
  ASSUME NEW x \in Convoys, NEW bits \in Seq(Bit), NEW par, NEW null, NEW fct, NEW rdy,
         InStep(x, bits, par, null, fct, rdy)
  PROVE  Fits(x)
<1> SUFFICES ASSUME x.r.left = 0, decoded(x.r) # NoToken
             PROVE  x.fl # <<>> /\ Head(x.fl) = decoded(x.r)
  BY DEF Fits
<1>1. Whole(x.r) /\ x.r.nullSeen
  BY WordIsShort DEF Convoys, Whole
<1>2. CASE AtParity(x.r, x.fl, bits, par)
  <2>1. PICK d \in Sendable, t \in Sendable : x.fl = Tok(d) \o Tok(t) /\ decoded(x.r) = d
    BY <1>2 DEF AtParity
  <2> QED BY <2>1, TokMoves
<1>3. CASE AfterEsc(x.r, x.fl, bits, par)
  BY <1>1, <1>3, ShiftAfterEsc
<1>4. CASE InEsc(x.r, x.fl, bits, par)
  BY <1>4 DEF InEsc
<1>5. CASE InContents(x.r, x.fl, bits, par)
  BY <1>5 DEF InContents
<1> QED BY <1>1, <1>2, <1>3, <1>4, <1>5 DEF InStep

(* also with a bit that the transmitter did not mean. *)
LEMMA InStepNextFits ==
  ASSUME NEW x \in Convoys, NEW bits \in Seq(Bit), NEW par, NEW null, NEW fct, NEW rdy,
         InStep(x, bits, par, null, fct, rdy), x.r.left = 1, NEW b \in Bit
  PROVE  Fits([r |-> Take(x.r, b), fl |-> x.fl])
<1>1. Whole(x.r) /\ x.r.nullSeen /\ x.r \in Receiver
  BY WordIsShort DEF Convoys, Whole
<1> DEFINE q == Take(x.r, b)
<1>2. CASE AtParity(x.r, x.fl, bits, par)
  BY <1>2 DEF AtParity
<1>3. CASE AfterEsc(x.r, x.fl, bits, par)
  BY <1>3 DEF AfterEsc
<1>4. CASE InEsc(x.r, x.fl, bits, par)
  <2>1. x.r.control /\ ~x.r.escaped /\ x.r.window[9] = 1
    BY <1>4 DEF InEsc
  <2>2. q.control = x.r.control /\ q.escaped = x.r.escaped /\ q.window = Push(x.r.window, b) /\ q \in Receiver
    <3>1. x.r.left # 0
      OBVIOUS
    <3> QED BY <1>1, <3>1, TakeCounts, TakeReceiver
  <2> HIDE DEF q
  <2>3. lastTwo(q) = <<q.window[7], q.window[8]>>
    BY <2>2, ContentsIs
  <2>4. q.window[8] = 1
    BY <2>1, <2>2 DEF Push
  <2>5. InEsc(x.r, x.fl, bits, par) => x.r.window[8] = 1
    BY WordIsShort DEF InEsc
  <2>6. q.window[7] = 1
    BY <1>4, <2>2, <2>5 DEF Push
  <2>7. decoded(q) = NoToken
    BY <2>1, <2>2, <2>3, <2>4, <2>6 DEF decoded
  <2> QED BY <2>7 DEF Fits, q
<1>5. CASE InContents(x.r, x.fl, bits, par)
  <2>1. Len(bits) = 0
    BY <1>5 DEF InContents
  <2>2. bits = <<>>
    BY <2>1, EmptySeq
  <2>3. InContents(x.r, x.fl, <<>>, par)
    BY <1>5, <2>2
  <2>4. \E d \in Sendable : x.fl = Tok(d) /\ decoded(q) = d
    BY <1>1, <2>3, EndOfContents
  <2> HIDE DEF q
  <2>5. decoded(q) # NoToken => x.fl # <<>> /\ Head(x.fl) = decoded(q)
    BY <2>4, TokIs
  <2> QED BY <2>5 DEF Fits, q
<1> QED BY <1>1, <1>2, <1>3, <1>4, <1>5 DEF InStep

(* So the end of a transmission does no harm, *)
LEMMA InStepHarmless ==
  ASSUME NEW x \in Convoys, NEW bits \in Seq(Bit), NEW par, NEW null, NEW fct, NEW rdy,
         InStep(x, bits, par, null, fct, rdy), NEW k
  PROVE  Harmless(x, k)
<1>1. Fits(x) /\ (x.fl # <<>> => x.r.bitSeen)
  BY InStepFits, BitsSeen
<1>2. x.r.left = 1 => \A b \in Bit : Fits([r |-> Take(x.r, b), fl |-> x.fl])
  BY InStepNextFits
<1> QED BY <1>1, <1>2 DEF Harmless

(* wherever in a token the transmitter stops. *)
LEMMA FollowsEnds ==
  ASSUME NEW x, NEW p \in Pipes, NEW s, NEW rdy, Follows(x, p, s, rdy), s.bits \in Seq(Bit), NEW k
  PROVE  Ends(x, p, k)
<1> DEFINE z == At5(x, p)
<1>1. x \in Convoys /\ Along(x, p) /\ Along4(x, p) /\ (p[5].on => Fits(At4(x, p)))
  BY DEF Follows, Along
<1>2. z \in Convoys
  BY <1>1, AlongIs
<1>3. InStep(z, s.bits, s.par, s.null, s.fct, rdy)
  BY DEF Follows
<1> HIDE DEF z
<1>4. Harmless(z, k)
  BY <1>2, <1>3, InStepHarmless
<1> QED BY <1>1, <1>4 DEF Ends, z

(* A clock without a bit keeps what fits. *)
LEMMA RestFits ==
  ASSUME NEW x \in Convoys
  PROVE  LET y == Pass(x, FALSE, 0) IN
         /\ \A b : Pass(x, FALSE, b) = y
         /\ y.fl = x.fl /\ y.r.left = x.r.left /\ y.r.bitSeen = x.r.bitSeen
         /\ Fits(x) => Fits(y)
         /\ \A b \in Bit : y.r.left # 0 => Take(y.r, b) = Take(x.r, b)
<1>1. x.r \in Receiver
  BY DEF Convoys
<1> DEFINE r == x.r
<1>2. r \in Receiver
  BY <1>1
<1> HIDE DEF r
<1>3. /\ Rest(r).left = r.left /\ Rest(r).bitSeen = r.bitSeen /\ Rest(r).window = r.window
      /\ Rest(r).control = r.control /\ Rest(r).escaped = r.escaped
  BY <1>2, RestIs
<1>4. decoded(Rest(r)) = decoded(r)
  BY <1>3 DEF decoded, contents, lastTwo
<1>5. [Rest(r) EXCEPT !.got = NoToken] = [r EXCEPT !.got = NoToken]
  BY <1>2 DEF Rest, Receiver
<1>6. \A b \in Bit : Take(Rest(r), b) = Take(r, b)
  BY <1>3, <1>5 DEF Take, ReceiveBit
<1> QED BY <1>3, <1>4, <1>6 DEF Pass, Fits, r

(* Along the way back to rest: one bit less, or a clock without one. *)
LEMMA EndsStep ==
  ASSUME NEW x, NEW p \in Pipes, NEW p2 \in Pipes, NEW k \in 0..2, NEW k2 \in 0..2, Ends(x, p, k),
         Shifted(p, p2), NEW y, y = More(At1(x, p), NoToken),
         k2 <= k, p2[5].on => k2 < k
  PROVE  Ends(y, p2, k2)
<1> DEFINE z == At5(x, p)
           b == p2[5].bit
<1>1. x \in Convoys /\ Along(x, p) /\ NoToken \in Sendable
  BY DEF Ends, Sendable
<1>2. y \in Convoys /\ Along4(y, p2) /\ At4(y, p2) = More(z, NoToken) /\ z \in Convoys
  BY <1>1, AlongShifts
<1>3. At4(y, p2) = z
  BY <1>2, MoreIs DEF Sendable
<1>4. Harmless(z, k)
  BY DEF Ends
<1>5. b \in Bit /\ p2[5].on \in BOOLEAN
  BY DEF Pipes
<1>6. At5(y, p2) = Pass(z, p2[5].on, b)
  BY <1>3 DEF At5
<1> HIDE DEF z, b
<1>7. Whole(z.r) /\ z.r \in Receiver
  BY <1>2 DEF Convoys, Whole
<1>8. CASE ~p2[5].on
  <2> DEFINE v == Pass(z, FALSE, 0)
  <2>1. /\ v = Pass(z, p2[5].on, b) /\ v.fl = z.fl /\ v.r.left = z.r.left /\ v.r.bitSeen = z.r.bitSeen
        /\ Fits(z) => Fits(v)
        /\ \A c \in Bit : v.r.left # 0 => Take(v.r, c) = Take(z.r, c)
    <3>1. v = Pass(z, p2[5].on, b)
      BY <1>8 DEF Pass
    <3> QED BY <1>2, <3>1, RestFits
  <2> HIDE DEF v
  <2>2. (k2 > 0 => k > 0) /\ (k2 > 1 => k > 1)
    OBVIOUS
  <2>3. Harmless(v, k2)
    <3>1. k2 > 0 => Fits(v)
      BY <1>4, <2>1, <2>2 DEF Harmless
    <3>2. ASSUME k2 > 1, v.r.left = 1, NEW c \in Bit PROVE Fits([r |-> Take(v.r, c), fl |-> v.fl])
      <4>1. Take(v.r, c) = Take(z.r, c) /\ v.fl = z.fl /\ z.r.left = 1 /\ k > 1
        BY <2>1, <2>2, <3>2
      <4> QED BY <1>4, <4>1 DEF Harmless
    <3>3. v.fl # <<>> => v.r.bitSeen
      BY <1>4, <2>1 DEF Harmless
    <3> QED BY <3>1, <3>2, <3>3 DEF Harmless
  <2> QED BY <1>2, <1>1, <1>6, <1>8, <2>1, <2>3 DEF Ends, Along
<1>9. CASE p2[5].on
  <2> DEFINE q == Take(z.r, b)
             v == Pass(z, TRUE, b)
  <2>1. Fits(z) /\ k > 0 /\ (k2 > 0 => k > 1) /\ ~(k2 > 1)
    BY <1>4, <1>9 DEF Harmless
  <2>2. v.r = q /\ v.fl = Moved(z.fl, q) /\ q.bitSeen
    BY <1>5, <1>7, WholeTake DEF Pass
  <2>3. v = Pass(z, p2[5].on, b)
    BY <1>9
  <2>4. ASSUME k2 > 0 PROVE Fits(v)
    <3> SUFFICES ASSUME q.left = 0 PROVE Fits(v)
      BY <2>2 DEF Fits
    <3>1. z.r.left # 0
      <4> SUFFICES ASSUME z.r.left = 0 PROVE FALSE
        OBVIOUS
      <4>1. z.r.nullSeen
        BY <1>7, WordIsShort DEF Whole
      <4>2. q.left = IF b = 1 THEN 3 ELSE WordBits + 1
        BY <1>5, <1>7, <4>1, TakeJudges
      <4> QED BY <4>2, WordIsShort
    <3>2. z.r.left = 1
      <4>1. CASE z.r.nullSeen \/ z.r.window # FirstNull
        <5>1. q.left = IF z.r.left = Idle THEN Idle ELSE z.r.left - 1
          BY <1>5, <1>7, <3>1, <4>1, TakeCounts
        <5>2. z.r.left \in 0..Idle
          BY <1>7 DEF Receiver
        <5> HIDE DEF q
        <5> QED BY <5>1, <5>2, WordIsShort
      <4>2. CASE ~z.r.nullSeen /\ z.r.window = FirstNull
        <5>1. q.left = 3
          BY <1>5, <1>7, <3>1, <4>2, TakeSyncs
        <5> QED BY <5>1
      <4> QED BY <4>1, <4>2
    <3>3. q.got = NoToken
      BY <1>5, <1>7, <3>1, TakeErrors
    <3>4. v = [r |-> q, fl |-> z.fl]
      BY <3>3 DEF Pass, Moved
    <3>5. Fits([r |-> Take(z.r, b), fl |-> z.fl])
      BY <1>4, <1>5, <2>1, <2>4, <3>2 DEF Harmless
    <3> QED BY <3>4, <3>5
  <2> HIDE DEF v, q
  <2>5. Harmless(v, k2)
    BY <2>1, <2>2, <2>4 DEF Harmless
  <2> QED BY <1>1, <1>2, <1>3, <1>6, <2>1, <2>3, <2>5 DEF Ends, Along
<1> QED BY <1>8, <1>9

(* The tokens that fit in the last j stages in front of a receiver. *)
Room(j, left) ==
  IF left = 0 THEN (IF j < 4 THEN 2 ELSE 3)
  ELSE IF left = Idle THEN 3
  ELSE IF j < left THEN 1
  ELSE IF j - left < 4 THEN 2
  ELSE 3

(* A token or none. *)
LEMMA OneToken ==
  ASSUME NEW t \in Sendable
  PROVE  Tok(t) \in Seq(Token) /\ Len(Tok(t)) \in Nat /\ Len(Tok(t)) <= 1
<1>1. Tok(t) \in Seq(Token) /\ Len(Tok(t)) = (IF t = NoToken THEN 0 ELSE 1)
  BY TokIs
<1> QED BY <1>1

(* In step, there are two tokens at most. *)
LEMMA RoomBegins ==
  ASSUME NEW x \in Convoys, NEW bits \in Seq(Bit), NEW par, NEW null, NEW fct, NEW rdy,
         InStep(x, bits, par, null, fct, rdy)
  PROVE  Len(x.fl) <= Room(0, x.r.left)
<1>1. Whole(x.r) /\ x.r \in Receiver /\ x.r.left \in 0..Idle
  BY DEF Convoys, Receiver
<1>2. CASE AtParity(x.r, x.fl, bits, par)
  <2>1. PICK d \in Sendable, t \in Sendable : x.fl = Tok(d) \o Tok(t) /\ x.r.left = 0
    BY <1>2 DEF AtParity
  <2>2. /\ Tok(d) \in Seq(Token) /\ Len(Tok(d)) \in Nat /\ Len(Tok(d)) <= 1
        /\ Tok(t) \in Seq(Token) /\ Len(Tok(t)) \in Nat /\ Len(Tok(t)) <= 1
    BY OneToken
  <2>3. Len(x.fl) = Len(Tok(d)) + Len(Tok(t))
    BY <2>1, <2>2, ConcatProperties
  <2>4. ASSUME NEW i \in Nat, i <= 1, NEW j \in Nat, j <= 1, NEW n, n = i + j PROVE n <= 2
    BY <2>4
  <2>5. Len(x.fl) <= 2
    BY <2>2, <2>3, <2>4
  <2> QED BY <2>1, <2>5 DEF Room
<1>3. CASE AfterEsc(x.r, x.fl, bits, par)
  <2>1. PICK t \in Prefixed : x.fl = Tok(t) /\ x.r.left = 0
    BY <1>3 DEF AfterEsc
  <2>2. Len(x.fl) <= 1
    BY <2>1, PrefixedIs, OneToken
  <2> QED BY <2>1, <2>2 DEF Room
<1>4. CASE InEsc(x.r, x.fl, bits, par)
  <2>1. PICK t \in Prefixed : x.fl = Tok(t) /\ x.r.left \in 1..3
    BY <1>4 DEF InEsc
  <2>2. Len(x.fl) <= 1
    BY <2>1, PrefixedIs, OneToken
  <2> QED BY <2>1, <2>2 DEF Room
<1>5. CASE InContents(x.r, x.fl, bits, par)
  <2>1. PICK t \in Sendable : x.fl = Tok(t) /\ x.r.left = Len(bits) + 1
    BY <1>5 DEF InContents
  <2>2. Len(x.fl) <= 1 /\ Len(bits) \in Nat
    BY <2>1, OneToken
  <2> QED BY <2>1, <2>2 DEF Room
<1>6. CASE ~x.r.nullSeen
  <2>1. x.r.left = Idle
    BY <1>1, <1>6 DEF Whole
  <2>2. x.fl = <<>> \/ x.fl = <<Fct>>
    BY <1>6 DEF InStep, BeforeNulls, InNulls, BehindNull
  <2>3. Len(x.fl) <= 3
    BY <2>2, EmptySeq, SMTT(60)
  <2> QED BY <2>1, <2>3, WordIsShort DEF Room
<1> QED BY <1>2, <1>3, <1>4, <1>5, <1>6 DEF InStep

(* A stage more, and what fits in it. *)
LEMMA RoomStep ==
  ASSUME NEW x \in Convoys, NEW on \in BOOLEAN, NEW b \in Bit, on => Fits(x), NEW j \in 1..5,
         Len(Pass(x, on, b).fl) <= Room(j - 1, Pass(x, on, b).r.left)
  PROVE  Len(x.fl) <= Room(j, x.r.left)
<1>1. Whole(x.r) /\ x.r \in Receiver /\ x.r.left \in 0..Idle /\ x.fl \in Seq(Token)
  BY DEF Convoys, Receiver
<1>2. CASE ~on
  <2>1. Rest(x.r).left = x.r.left
    BY <1>1, RestIs
  <2>2. Len(x.fl) <= Room(j - 1, x.r.left)
    BY <1>2, <2>1 DEF Pass
  <2>3. Room(j - 1, x.r.left) <= Room(j, x.r.left)
    BY <1>1, WordIsShort DEF Room
  <2>4. Room(j - 1, x.r.left) \in Nat /\ Room(j, x.r.left) \in Nat /\ Len(x.fl) \in Nat
    BY <1>1 DEF Room
  <2> QED BY <2>2, <2>3, <2>4
<1>3. CASE on
  <2> DEFINE q == Take(x.r, b)
             n == Len(x.fl)
             m == Len(Moved(x.fl, q))
  <2>1. m <= Room(j - 1, q.left) /\ n \in Nat
    BY <1>1, <1>3 DEF Pass
  <2>2. CASE x.r.left = 0
    <3>1. x.r.nullSeen
      BY <1>1, <2>2, WordIsShort DEF Whole
    <3>2. q.left = IF b = 1 THEN 3 ELSE WordBits + 1
      BY <1>1, <2>2, <3>1, TakeJudges
    <3>3. n <= m + 1 /\ m \in Nat
      <4>1. CASE q.got = NoToken
        BY <1>1, <4>1 DEF Moved
      <4>2. CASE q.got # NoToken
        <5>1. x.fl # <<>>
          <6>1. q.got = decoded(x.r)
            BY <1>1, <4>2, TakeErrors
          <6> HIDE DEF q
          <6> QED BY <1>3, <2>2, <4>2, <6>1 DEF Fits
        <5>2. Len(Tail(x.fl)) = Len(x.fl) - 1 /\ Tail(x.fl) \in Seq(Token)
          BY <1>1, <5>1, HeadTailProperties
        <5>3. Len(Tail(x.fl)) \in Nat
          BY <5>2
        <5> QED BY <4>2, <5>2, <5>3 DEF Moved
      <4> QED BY <4>1, <4>2
    <3> HIDE DEF m, n, q
    <3>4. q.left \in 3..(WordBits + 1) /\ q.left # Idle /\ q.left # 0
      BY <3>2, WordIsShort
    <3>5. Room(j - 1, q.left) + 1 <= Room(j, 0) /\ Room(j - 1, q.left) \in Nat /\ Room(j, 0) \in Nat
      BY <3>4, WordIsShort DEF Room
    <3>6. n <= Room(j, 0)
      BY <2>1, <3>3, <3>5
    <3> QED BY <2>2, <3>6 DEF n
  <2>3. CASE x.r.left # 0
    <3>1. q.got = NoToken
      BY <1>1, <2>3, TakeErrors
    <3>2. m = n
      BY <3>1 DEF Moved
    <3>3. CASE x.r.left = Idle
      <4>1. q \in Receiver
        BY <1>1, TakeReceiver
      <4> HIDE DEF q, m, n
      <4>2. Room(j - 1, q.left) \in 0..3
        BY <4>1 DEF Room
      <4>3. n <= 3
        BY <2>1, <3>2, <4>2
      <4> QED BY <3>3, <4>3, WordIsShort DEF Room, n
    <3>4. CASE x.r.left # Idle
      <4>1. x.r.nullSeen
        BY <1>1, <3>4 DEF Whole
      <4>2. q.left = x.r.left - 1
        BY <1>1, <2>3, <3>4, <4>1, TakeCounts
      <4> DEFINE l == x.r.left
      <4>3. l \in 1..(WordBits + 1) /\ l # Idle
        BY <1>1, <2>3, <3>4, WordIsShort
      <4> HIDE DEF q, m, l
      <4>4. q.left = l - 1
        BY <4>2 DEF l
      <4>5. Room(j - 1, q.left) <= Room(j, l)
        BY <4>3, <4>4, WordIsShort DEF Room
      <4>6. Room(j - 1, q.left) \in Nat /\ Room(j, l) \in Nat
        BY <4>3, <4>4 DEF Room
      <4>7. n <= Room(j, l)
        <5> HIDE DEF n
        <5> QED BY <2>1, <3>2, <4>5, <4>6
      <4> QED BY <4>7 DEF l
    <3> QED BY <3>3, <3>4
  <2> QED BY <2>2, <2>3
<1> QED BY <1>2, <1>3

(* Three tokens at most are on their way. *)
LEMMA FollowsFew ==
  ASSUME NEW x, NEW p \in Pipes, NEW s, NEW rdy, Follows(x, p, s, rdy), s.bits \in Seq(Bit)
  PROVE  Len(x.fl) <= 3
<1> DEFINE x1 == At1(x, p)
           x2 == At2(x, p)
           x3 == At3(x, p)
           x4 == At4(x, p)
           x5 == At5(x, p)
<1>1. /\ x \in Convoys /\ Along4(x, p) /\ (p[5].on => Fits(x4))
      /\ InStep(x5, s.bits, s.par, s.null, s.fct, rdy)
  BY DEF Follows, Along
<1>2. x1 \in Convoys /\ x2 \in Convoys /\ x3 \in Convoys /\ x4 \in Convoys /\ x5 \in Convoys
  BY <1>1, AlongIs
<1>3. /\ x1 = Pass(x, p[1].on, p[1].bit) /\ x2 = Pass(x1, p[2].on, p[2].bit)
      /\ x3 = Pass(x2, p[3].on, p[3].bit) /\ x4 = Pass(x3, p[4].on, p[4].bit)
      /\ x5 = Pass(x4, p[5].on, p[5].bit)
  BY DEF At1, At2, At3, At4, At5
<1>4. /\ p[1].on => Fits(x)
      /\ p[2].on => Fits(x1)
      /\ p[3].on => Fits(x2)
      /\ p[4].on => Fits(x3)
  BY <1>1 DEF Along4
<1>5. \A i \in 1..5 : p[i].on \in BOOLEAN /\ p[i].bit \in Bit
  BY DEF Pipes
<1> HIDE DEF x1, x2, x3, x4, x5
<1>6. Len(x5.fl) <= Room(0, x5.r.left)
  BY <1>1, <1>2, RoomBegins
<1>7. ASSUME NEW y \in Convoys, NEW i \in 1..5, p[i].on => Fits(y), NEW v, v = Pass(y, p[i].on, p[i].bit),
             NEW j \in 1..5, Len(v.fl) <= Room(j - 1, v.r.left)
      PROVE  Len(y.fl) <= Room(j, y.r.left)
  BY <1>5, <1>7, RoomStep
<1>8. Len(x4.fl) <= Room(1, x4.r.left)
  BY <1>1, <1>2, <1>3, <1>6, <1>7, 1 - 1 = 0, SMTT(60)
<1>9. Len(x3.fl) <= Room(2, x3.r.left)
  BY <1>2, <1>3, <1>4, <1>8, <1>7, 2 - 1 = 1, SMTT(60)
<1>10. Len(x2.fl) <= Room(3, x2.r.left)
  BY <1>2, <1>3, <1>4, <1>9, <1>7, 3 - 1 = 2
<1>11. Len(x1.fl) <= Room(4, x1.r.left)
  BY <1>2, <1>3, <1>4, <1>10, <1>7, 4 - 1 = 3
<1>12. Len(x.fl) <= Room(5, x.r.left)
  BY <1>1, <1>2, <1>3, <1>4, <1>11, <1>7, 5 - 1 = 4
<1>13. Room(5, x.r.left) \in 0..3
  BY DEF Room
<1>14. Len(x.fl) \in Nat
  BY <1>1 DEF Convoys
<1> QED BY <1>12, <1>13, <1>14

(* What the transmitter does in a clock, and the change it puts on the lines. *)
Sends(s, t, e, s2) ==
  \/ ~e.on /\ s2 = s /\ t = NoToken
  \/ e.on /\ Shifts(s, e.bit, s2) /\ t = NoToken
  \/ e.on /\ Begins(s, t, e.bit, s2)

(* Whatever the transmitter sends, the receiver follows. *)
LEMMA FollowsOn ==
  ASSUME NEW x, NEW p \in Pipes, NEW p2 \in Pipes, NEW s, NEW s2, NEW rdy, NEW y, NEW t \in Sendable,
         Follows(x, p, s, rdy), Shifted(p, p2), y = More(At1(x, p), t),
         Sends(s, t, p2[5], s2), s.bits = <<>> => MayBegin(At5(x, p), s, t, rdy)
  PROVE  Follows(y, p2, s2, rdy)
<1>1. CASE ~p2[5].on /\ s2 = s /\ t = NoToken
  <2>1. y = More(At1(x, p), NoToken)
    BY <1>1
  <2>2. Follows(y, p2, s, rdy)
    BY <1>1, <2>1, FollowsRest
  <2> QED BY <1>1, <2>2
<1>2. CASE p2[5].on /\ Shifts(s, p2[5].bit, s2) /\ t = NoToken
  <2>1. y = More(At1(x, p), NoToken)
    BY <1>2
  <2> QED BY <1>2, <2>1, FollowsShift
<1>3. CASE p2[5].on /\ Begins(s, t, p2[5].bit, s2)
  <2>1. MayBegin(At5(x, p), s, t, rdy)
    BY <1>3 DEF Begins
  <2> QED BY <1>3, <2>1, FollowsBegin
<1> QED BY <1>1, <1>2, <1>3 DEF Sends

(* A receiver that is switched on, and the changes it does not hear. *)
Fresh(y) ==
  /\ y \in Convoys /\ y.fl = <<>>
  /\ ~y.r.nullSeen /\ y.r.window = [i \in 1..9 |-> 1] /\ y.r.got = NoToken

Deaf(i, p) == [j \in 1..5 |-> [on |-> j > i /\ p[j].on, bit |-> p[j].bit]]

(* A receiver switched on now or soon will follow. *)
Heard(p, s) == \A i \in 1..5 : \A y : Fresh(y) => Follows(y, Deaf(i, p), s, FALSE)

(* What is not heard is no bit; the others are as they were. *)
LEMMA DeafIs ==
  ASSUME NEW p \in Pipes, NEW i \in 1..5
  PROVE  /\ Deaf(i, p) \in Pipes
         /\ \A j \in 1..5 : Deaf(i, p)[j].bit = p[j].bit /\ (Deaf(i, p)[j].on <=> j > i /\ p[j].on)
         /\ ~p[1].on => Deaf(1, p) = p
<1>1. \A j \in 1..5 : p[j] \in [on : BOOLEAN, bit : Bit]
  BY DEF Pipes
<1>2. Deaf(i, p) \in Pipes
  BY <1>1 DEF Deaf, Pipes
<1>3. \A j \in 1..5 : Deaf(i, p)[j].bit = p[j].bit /\ (Deaf(i, p)[j].on <=> j > i /\ p[j].on)
  BY <1>1 DEF Deaf
<1>4. ASSUME ~p[1].on PROVE Deaf(1, p) = p
  <2>1. ASSUME NEW j \in 1..5 PROVE [on |-> j > 1 /\ p[j].on, bit |-> p[j].bit] = p[j]
    <3>1. (j > 1 /\ p[j].on) = p[j].on
      BY <1>1, <1>4
    <3>2. p[j] = [on |-> p[j].on, bit |-> p[j].bit]
      BY <1>1
    <3> QED BY <3>1, <3>2
  <2>2. p \in [1..5 -> [on : BOOLEAN, bit : Bit]]
    BY DEF Pipes
  <2>3. p = [j \in 1..5 |-> p[j]]
    BY <2>2
  <2>4. Deaf(1, p) = [j \in 1..5 |-> p[j]]
    BY <2>1 DEF Deaf
  <2> QED BY <2>3, <2>4
<1> QED BY <1>2, <1>3, <1>4

(* A new receiver stays as it is until it hears a bit. *)
LEMMA FreshRests ==
  ASSUME NEW y, Fresh(y), NEW b
  PROVE  Pass(y, FALSE, b) = y
<1>1. y \in [r : Receiver, fl : Seq(Token)] /\ y.r \in Receiver /\ y.r.got = NoToken
  BY DEF Fresh, Convoys
<1>2. [y.r EXCEPT !.got = NoToken] = y.r
  BY <1>1 DEF Receiver
<1>3. Rest(y.r) = y.r
  BY <1>2 DEF Rest
<1>4. y = [r |-> y.r, fl |-> y.fl]
  BY <1>1
<1> QED BY <1>3, <1>4 DEF Pass

(* It is in step with a transmitter that has sent nothing, or NULLs. *)
LEMMA FreshBegins ==
  ASSUME NEW y, Fresh(y), NEW bits, NEW par, NEW null, NEW fct, ~fct,
         \/ bits = <<>> /\ par = 0 /\ ~null
         \/ null /\ SendsNull(bits, par)
  PROVE  InStep(y, bits, par, null, fct, FALSE)
<1>1. Whole(y.r) /\ y.r.window = [i \in 1..9 |-> 1] /\ ~y.r.nullSeen /\ y.fl = <<>>
  BY DEF Fresh, Convoys
<1>2. ~y.r.errpar /\ ~y.r.erresc
  BY <1>1 DEF Whole
<1>3. \A pos : Win(y.r.window, 0, pos)
  BY <1>1 DEF Win
<1>4. CASE bits = <<>> /\ par = 0 /\ ~null
  BY <1>1, <1>2, <1>3, <1>4 DEF InStep, BeforeNulls
<1>5. CASE null /\ SendsNull(bits, par)
  <2>1. Win(y.r.window, 0, 8 - Len(bits)) /\ 0 \in 0..9
    BY <1>3
  <2>2. InNulls(y.r, y.fl, bits, par, null, FALSE)
    BY <1>1, <1>5, <2>1 DEF InNulls
  <2> QED BY <1>1, <1>2, <2>2 DEF InStep
<1> QED BY <1>4, <1>5

(* And only with such a transmitter. *)
LEMMA FreshStays ==
  ASSUME NEW y, Fresh(y), NEW p \in Pipes, NEW s, Follows(y, Deaf(4, p), s, FALSE)
  PROVE  /\ ~s.fct
         /\ \/ s.bits = <<>> /\ s.par = 0 /\ ~s.null
            \/ s.null /\ SendsNull(s.bits, s.par)
<1> DEFINE d == Deaf(4, p)
<1>1. /\ ~d[1].on /\ ~d[2].on /\ ~d[3].on /\ ~d[4].on
      /\ d \in Pipes
  BY DeafIs
<1>2. d[1].on = FALSE /\ d[2].on = FALSE /\ d[3].on = FALSE /\ d[4].on = FALSE
      /\ d[5].on \in BOOLEAN /\ d[5].bit \in Bit
  BY <1>1 DEF Pipes
<1> HIDE DEF d
<1>3. At1(y, d) = y
  BY <1>2, FreshRests DEF At1
<1>4. At2(y, d) = y
  BY <1>2, <1>3, FreshRests DEF At2
<1>5. At3(y, d) = y
  BY <1>2, <1>4, FreshRests DEF At3
<1>6. At4(y, d) = y
  BY <1>2, <1>5, FreshRests DEF At4
<1> DEFINE z == Pass(y, d[5].on, d[5].bit)
<1>7. InStep(z, s.bits, s.par, s.null, s.fct, FALSE)
  BY <1>6 DEF Follows, At5, d
<1>8. ~z.r.nullSeen
  <2>1. Whole(y.r) /\ y.r \in Receiver /\ ~y.r.nullSeen /\ y.r.left = Idle
    BY DEF Fresh, Convoys, Whole
  <2>2. CASE ~d[5].on
    BY <2>1, <2>2, RestIs DEF Pass
  <2>3. CASE d[5].on
    <3>1. y.r.window[1] = 1
      BY DEF Fresh
    <3>2. y.r.window # FirstNull
      BY <3>1, FirstNullIs
    <3>3. y.r.left # 0
      BY <2>1, WordIsShort
    <3>4. Take(y.r, d[5].bit).nullSeen = y.r.nullSeen
      BY <1>2, <2>1, <3>2, <3>3, TakeCounts
    <3> QED BY <2>1, <2>3, <3>4 DEF Pass
  <2> QED BY <2>2, <2>3
<1> HIDE DEF z
<1> QED BY <1>7, <1>8 DEF InStep, BeforeNulls, InNulls, BehindNull

(* Before the first NULL nothing is on its way. *)
LEMMA HeardBegins ==
  ASSUME NEW p \in Pipes, NEW s, \A j \in 2..5 : ~p[j].on,
         s.bits = <<>> /\ s.par = 0 /\ ~s.null /\ ~s.fct
  PROVE  Heard(p, s)
<1> SUFFICES ASSUME NEW i \in 1..5, NEW y, Fresh(y) PROVE Follows(y, Deaf(i, p), s, FALSE)
  BY DEF Heard
<1> DEFINE d == Deaf(i, p)
<1>1. d \in Pipes /\ \A j \in 1..5 : ~d[j].on
  <2>1. \A j \in 1..5 : ~(j > i /\ p[j].on)
    OBVIOUS
  <2> QED BY <2>1, DeafIs
<1>2. d[1].on = FALSE /\ d[2].on = FALSE /\ d[3].on = FALSE /\ d[4].on = FALSE /\ d[5].on = FALSE
  BY <1>1 DEF Pipes
<1> HIDE DEF d
<1>3. At1(y, d) = y
  BY <1>2, FreshRests DEF At1
<1>4. At2(y, d) = y
  BY <1>2, <1>3, FreshRests DEF At2
<1>5. At3(y, d) = y
  BY <1>2, <1>4, FreshRests DEF At3
<1>6. At4(y, d) = y
  BY <1>2, <1>5, FreshRests DEF At4
<1>7. At5(y, d) = y
  BY <1>2, <1>6, FreshRests DEF At5
<1>8. InStep(y, s.bits, s.par, s.null, s.fct, FALSE)
  BY FreshBegins
<1>9. y \in Convoys
  BY DEF Fresh
<1>10. Follows(y, d, s, FALSE)
  BY <1>2, <1>7, <1>8, <1>9 DEF Follows, Along, Along4, Unharmed, Unharmed4
<1> QED BY <1>10 DEF d

(* While NULLs are sent a receiver may be switched on at any time. *)
LEMMA HeardStep ==
  ASSUME NEW p \in Pipes, NEW p2 \in Pipes, NEW s, NEW s2, Heard(p, s),
         \A j \in 2..4 : p2[j] = p[j + 1], p2[1].bit = p[2].bit,
         Sends(s, NoToken, p2[5], s2)
  PROVE  Heard(p2, s2)
<1>1. ASSUME NEW i \in 1..4, NEW y, Fresh(y) PROVE Follows(y, Deaf(i, p2), s2, FALSE)
  <2> DEFINE c == Deaf(i + 1, p)
             d == Deaf(i, p2)
  <2>1. i + 1 \in 1..5 /\ i \in 1..5 /\ i + 1 > 1
    OBVIOUS
  <2>2. c \in Pipes /\ d \in Pipes
    BY <2>1, DeafIs
  <2>3. ASSUME NEW j \in 1..4 PROVE d[j] = c[j + 1]
    <3>1. j \in 1..5 /\ j + 1 \in 1..5
      OBVIOUS
    <3>2. d[j] = [on |-> j > i /\ p2[j].on, bit |-> p2[j].bit]
      BY <3>1 DEF Deaf
    <3>3. c[j + 1] = [on |-> j + 1 > i + 1 /\ p[j + 1].on, bit |-> p[j + 1].bit]
      BY <3>1 DEF Deaf
    <3>4. (j > i /\ p2[j].on) = (j + 1 > i + 1 /\ p[j + 1].on)
      <4>1. j > i => j \in 2..4
        OBVIOUS
      <4>2. (j > i) <=> (j + 1 > i + 1)
        OBVIOUS
      <4> QED BY <4>1, <4>2
    <3>5. p2[j].bit = p[j + 1].bit
      <4>1. CASE j = 1
        BY <4>1
      <4>2. CASE j # 1
        <5>1. j \in 2..4
          BY <4>2
        <5> QED BY <5>1
      <4> QED BY <4>1, <4>2
    <3> QED BY <3>2, <3>3, <3>4, <3>5
  <2>4. Shifted(c, d)
    BY <2>3 DEF Shifted
  <2>5. d[5] = p2[5]
    <3>1. p2[5] \in [on : BOOLEAN, bit : Bit]
      BY DEF Pipes
    <3>2. d[5] = [on |-> 5 > i /\ p2[5].on, bit |-> p2[5].bit]
      BY DEF Deaf
    <3>3. (5 > i /\ p2[5].on) = p2[5].on
      BY <3>1
    <3> QED BY <3>1, <3>2, <3>3
  <2>6. c[1].on = FALSE
    <3>1. ~c[1].on
      BY <2>1, DeafIs
    <3> QED BY <2>2, <3>1 DEF Pipes
  <2>7. Follows(y, c, s, FALSE)
    BY <1>1, <2>1 DEF Heard
  <2> HIDE DEF c, d
  <2>8. At1(y, c) = y
    BY <1>1, <2>6, FreshRests DEF At1
  <2>9. y = More(At1(y, c), NoToken) /\ NoToken \in Sendable
    <3>1. y \in Convoys
      BY <1>1 DEF Fresh
    <3>2. NoToken \in Sendable
      BY DEF Sendable
    <3> QED BY <2>8, <3>1, <3>2, MoreIs
  <2>10. Sends(s, NoToken, d[5], s2)
    BY <2>5
  <2>11. s.bits = <<>> => MayBegin(At5(y, c), s, NoToken, FALSE)
    BY DEF MayBegin
  <2>12. Follows(y, d, s2, FALSE)
    BY <2>2, <2>4, <2>7, <2>9, <2>10, <2>11, FollowsOn
  <2> QED BY <2>12 DEF d
<1>2. ASSUME NEW y, Fresh(y) PROVE Follows(y, Deaf(5, p2), s2, FALSE)
  <2>1. Follows(y, Deaf(4, p2), s2, FALSE)
    <3>1. 4 \in 1..4
      OBVIOUS
    <3> QED BY <1>1, <1>2, <3>1
  <2>2. /\ ~s2.fct
        /\ \/ s2.bits = <<>> /\ s2.par = 0 /\ ~s2.null
           \/ s2.null /\ SendsNull(s2.bits, s2.par)
    BY <1>2, <2>1, FreshStays
  <2> DEFINE d == Deaf(5, p2)
  <2>3. d[1].on = FALSE /\ d[2].on = FALSE /\ d[3].on = FALSE /\ d[4].on = FALSE /\ d[5].on = FALSE
    <3>1. \A j \in 1..5 : d[j] = [on |-> j > 5 /\ p2[j].on, bit |-> p2[j].bit]
      BY DEF Deaf
    <3>2. \A j \in 1..5 : (j > 5 /\ p2[j].on) = FALSE
      OBVIOUS
    <3> HIDE DEF d
    <3>3. \A j \in 1..5 : d[j].on = FALSE
      <4> SUFFICES ASSUME NEW j \in 1..5 PROVE d[j].on = FALSE
        OBVIOUS
      <4>1. d[j].on = (j > 5 /\ p2[j].on)
        BY <3>1
      <4> QED BY <3>2, <4>1
    <3> QED BY <3>3
  <2> HIDE DEF d
  <2>4. At1(y, d) = y
    BY <1>2, <2>3, FreshRests DEF At1
  <2>5. At2(y, d) = y
    BY <1>2, <2>3, <2>4, FreshRests DEF At2
  <2>6. At3(y, d) = y
    BY <1>2, <2>3, <2>5, FreshRests DEF At3
  <2>7. At4(y, d) = y
    BY <1>2, <2>3, <2>6, FreshRests DEF At4
  <2>8. At5(y, d) = y
    BY <1>2, <2>3, <2>7, FreshRests DEF At5
  <2>9. InStep(y, s2.bits, s2.par, s2.null, s2.fct, FALSE)
    BY <1>2, <2>2, FreshBegins
  <2>10. y \in Convoys
    BY <1>2 DEF Fresh
  <2>11. Follows(y, d, s2, FALSE)
    BY <2>3, <2>8, <2>9, <2>10 DEF Follows, Along, Along4, Unharmed, Unharmed4
  <2> QED BY <2>11 DEF d
<1> QED
  <2> SUFFICES ASSUME NEW i \in 1..5, NEW y, Fresh(y) PROVE Follows(y, Deaf(i, p2), s2, FALSE)
    BY DEF Heard
  <2>1. CASE i = 5
    BY <1>2, <2>1
  <2>2. CASE i # 5
    <3>1. i \in 1..4
      BY <2>2
    <3> QED BY <1>1, <3>1
  <2> QED BY <2>1, <2>2

(* A receiver that has taken one bit wrong, and the one that would have taken it right. *)
Twin(r, v) ==
  /\ Whole(r) /\ r.nullSeen /\ Whole(v) /\ v.nullSeen
  /\ v.left = r.left /\ v.parity = Not(r.parity)

(* One wrong bit, inside a token. *)
LEMMA TwinBegins ==
  ASSUME NEW r, Whole(r), r.nullSeen, r.left # 0, NEW b \in Bit
  PROVE  Twin(Take(r, Not(b)), Take(r, b)) /\ Take(r, Not(b)).got = NoToken
<1>1. r \in Receiver /\ Not(b) \in Bit /\ r.parity \in Bit
  BY BitOps DEF Whole, Receiver, Bit
<1> DEFINE q == Take(r, Not(b))
           v == Take(r, b)
<1>2. /\ q.nullSeen = r.nullSeen /\ q.parity = Xor(r.parity, Not(b)) /\ q.got = NoToken
      /\ q.left = IF r.left = Idle THEN Idle ELSE r.left - 1
  BY <1>1, TakeCounts
<1>3. /\ v.nullSeen = r.nullSeen /\ v.parity = Xor(r.parity, b) /\ v.got = NoToken
      /\ v.left = IF r.left = Idle THEN Idle ELSE r.left - 1
  BY <1>1, TakeCounts
<1>4. Whole(q) /\ Whole(v)
  BY <1>1, WholeTake
<1> HIDE DEF q, v
<1>5. v.parity = Not(q.parity)
  BY <1>1, <1>2, <1>3 DEF Xor, Not, Bit
<1> QED BY <1>2, <1>3, <1>4, <1>5 DEF Twin, q, v

(* A right bit afterwards: nothing is delivered before the parity error is
   reported. *)
LEMMA TwinTakes ==
  ASSUME NEW r, NEW v, Twin(r, v), NEW b \in Bit, v.left = 0 => ~badParity(v, b)
  PROVE  /\ Take(r, b).got = NoToken /\ (Take(r, b).errpar \/ Take(v, b).got = NoToken)
         /\ Take(r, b).errpar \/ Twin(Take(r, b), Take(v, b))
<1>1. r \in Receiver /\ v \in Receiver /\ r.nullSeen /\ v.nullSeen /\ v.left = r.left /\ v.parity = Not(r.parity)
      /\ Whole(r) /\ Whole(v)
  BY DEF Twin, Whole
<1>2. r.parity \in Bit /\ v.parity \in Bit
  BY <1>1 DEF Receiver
<1>3. CASE r.left = 0
  <2>1. badParity(r, b)
    BY <1>1, <1>2, <1>3 DEF badParity, Xor, Not, Bit
  <2>2. Take(r, b).errpar
    BY <1>1, <1>3, <2>1, TakeErrors
  <2>3. Take(r, b).got = NoToken
    BY <1>1, <2>1, TakeErrors
  <2> QED BY <2>2, <2>3
<1>4. CASE r.left # 0
  <2> DEFINE q == Take(r, b)
             w == Take(v, b)
  <2>1. /\ q.nullSeen = r.nullSeen /\ q.parity = Xor(r.parity, b) /\ q.got = NoToken
        /\ q.left = IF r.left = Idle THEN Idle ELSE r.left - 1
    BY <1>1, <1>4, TakeCounts
  <2>2. v.left # 0
    BY <1>1, <1>4
  <2>3. /\ w.nullSeen = v.nullSeen /\ w.parity = Xor(v.parity, b) /\ w.got = NoToken
        /\ w.left = IF v.left = Idle THEN Idle ELSE v.left - 1
    BY <1>1, <2>2, TakeCounts
  <2>4. Whole(q) /\ Whole(w)
    BY <1>1, WholeTake
  <2> HIDE DEF q, w
  <2>5. w.parity = Not(q.parity)
    BY <1>1, <1>2, <2>1, <2>3 DEF Xor, Not, Bit
  <2>6. w.left = q.left
    BY <1>1, <2>1, <2>3
  <2>7. Twin(q, w)
    BY <1>1, <2>1, <2>3, <2>4, <2>5, <2>6 DEF Twin
  <2> QED BY <2>1, <2>3, <2>7 DEF q, w
<1> QED BY <1>3, <1>4

(* A clock without a bit. *)
LEMMA TwinRests ==
  ASSUME NEW r, NEW v, Twin(r, v)
  PROVE  Twin(Rest(r), Rest(v)) /\ Rest(r).got = NoToken /\ Rest(v).got = NoToken
<1>1. r \in Receiver /\ v \in Receiver /\ Whole(r) /\ Whole(v)
  BY DEF Twin, Whole
<1>2. /\ Rest(r).nullSeen = r.nullSeen /\ Rest(r).left = r.left /\ Rest(r).parity = r.parity /\ Rest(r).got = NoToken
      /\ Rest(v).nullSeen = v.nullSeen /\ Rest(v).left = v.left /\ Rest(v).parity = v.parity /\ Rest(v).got = NoToken
  BY <1>1, RestIs
<1>3. Whole(Rest(r)) /\ Whole(Rest(v))
  BY <1>1, WholeRest
<1> QED BY <1>2, <1>3 DEF Twin

(* What is on its way when t is sent and q has received. *)
Moves(x, on, b, q, t, fl2) ==
  /\ on => Fits(x)
  /\ q = IF on THEN Take(x.r, b) ELSE Rest(x.r)
  /\ LET sent == x.fl \o Tok(t)
     IN fl2 = IF q.got # NoToken /\ sent # <<>> THEN Tail(sent) ELSE sent

(* The receiver of the line and the flight move as a convoy does. *)
LEMMA HereMoves ==
  ASSUME NEW x \in Convoys, NEW on \in BOOLEAN, NEW b \in Bit, NEW t \in Sendable,
         NEW q, NEW fl2, Moves(x, on, b, q, t, fl2)
  PROVE  /\ [r |-> q, fl |-> fl2] = More(Pass(x, on, b), t)
         /\ q.got # NoToken => x.fl # <<>> /\ q.got = Head(x.fl)
<1>1. (on => Fits(x)) /\ q = IF on THEN Take(x.r, b) ELSE Rest(x.r)
  BY DEF Moves
<1>2. Whole(x.r) /\ x.r \in Receiver /\ x.fl \in Seq(Token)
  BY DEF Convoys, Whole
<1>3. q.got # NoToken => on /\ x.fl # <<>> /\ q.got = Head(x.fl)
  <2>1. ~on => q.got = NoToken
    BY <1>1, <1>2, RestIs
  <2>2. ASSUME on, q.got # NoToken PROVE x.r.left = 0 /\ q.got = decoded(x.r)
    BY <1>1, <1>2, <2>2, TakeErrors
  <2> QED BY <1>1, <2>1, <2>2 DEF Fits
<1> DEFINE sent == x.fl \o Tok(t)
<1>4. fl2 = IF q.got # NoToken /\ sent # <<>> THEN Tail(sent) ELSE sent
  BY DEF Moves
<1> HIDE DEF sent
<1>5. CASE q.got = NoToken
  <2>1. fl2 = x.fl \o Tok(t)
    BY <1>5, <1>4 DEF sent
  <2>2. Pass(x, on, b) = [r |-> q, fl |-> x.fl]
    BY <1>1, <1>5 DEF Pass, Moved
  <2>3. Pass(x, on, b).r = q /\ Pass(x, on, b).fl = x.fl
    BY <2>2
  <2>4. [r |-> q, fl |-> fl2] = More(Pass(x, on, b), t)
    BY <2>1, <2>3 DEF More
  <2> QED BY <1>5, <2>4
<1>6. CASE q.got # NoToken
  <2>1. sent # <<>> /\ Tail(sent) = Tail(x.fl) \o Tok(t)
    BY <1>3, <1>6, MoreIs DEF sent
  <2>2. fl2 = Tail(x.fl) \o Tok(t)
    BY <1>6, <1>4, <2>1
  <2>3. Pass(x, on, b) = [r |-> q, fl |-> Tail(x.fl)]
    BY <1>1, <1>3, <1>6 DEF Pass, Moved
  <2>4. Pass(x, on, b).r = q /\ Pass(x, on, b).fl = Tail(x.fl)
    BY <2>3
  <2>5. [r |-> q, fl |-> fl2] = More(Pass(x, on, b), t)
    BY <2>2, <2>4 DEF More
  <2> QED BY <1>3, <2>5
<1> QED BY <1>5, <1>6

(* The lines between the transmitter and the receiver, as a pipe. *)
LineState == [data : Bit, strobe : Bit]
Out == [data |-> outData, strobe |-> outStrobe]

PipeOf(v, l, o) ==
  [i \in 1..5 |-> IF i = 1 THEN [on |-> v, bit |-> l[4].data]
                  ELSE IF i = 5 THEN [on |-> Changed(o, l[1]), bit |-> o.data]
                  ELSE [on |-> Changed(l[5 - i], l[6 - i]), bit |-> l[5 - i].data]]

(* The stages, one by one. *)
LEMMA PipeIs ==
  ASSUME NEW v \in BOOLEAN, NEW l \in [1..4 -> LineState], NEW o \in LineState
  PROVE  /\ PipeOf(v, l, o) \in Pipes
         /\ PipeOf(v, l, o)[1] = [on |-> v, bit |-> l[4].data]
         /\ PipeOf(v, l, o)[2] = [on |-> Changed(l[3], l[4]), bit |-> l[3].data]
         /\ PipeOf(v, l, o)[3] = [on |-> Changed(l[2], l[3]), bit |-> l[2].data]
         /\ PipeOf(v, l, o)[4] = [on |-> Changed(l[1], l[2]), bit |-> l[1].data]
         /\ PipeOf(v, l, o)[5] = [on |-> Changed(o, l[1]), bit |-> o.data]
<1>1. \A a, c : Changed(a, c) \in BOOLEAN
  BY DEF Changed
<1>2. \A i \in 1..4 : l[i] \in LineState /\ l[i].data \in Bit
  BY DEF LineState
<1>3. o.data \in Bit
  BY DEF LineState
<1>4. PipeOf(v, l, o) \in Pipes
  <2> SUFFICES ASSUME NEW i \in 1..5
               PROVE  (IF i = 1 THEN [on |-> v, bit |-> l[4].data]
                       ELSE IF i = 5 THEN [on |-> Changed(o, l[1]), bit |-> o.data]
                       ELSE [on |-> Changed(l[5 - i], l[6 - i]), bit |-> l[5 - i].data])
                         \in [on : BOOLEAN, bit : Bit]
    BY DEF PipeOf, Pipes
  <2>1. CASE i = 1
    BY <1>2, <2>1
  <2>2. CASE i = 5
    BY <1>1, <1>3, <2>2
  <2>3. CASE i # 1 /\ i # 5
    <3>1. 5 - i \in 1..4
      BY <2>3
    <3> QED BY <1>1, <1>2, <2>3, <3>1
  <2> QED BY <2>1, <2>2, <2>3
<1>5. /\ 5 - 2 = 3 /\ 6 - 2 = 4 /\ 5 - 3 = 2 /\ 6 - 3 = 3 /\ 5 - 4 = 1 /\ 6 - 4 = 2
  OBVIOUS
<1> QED BY <1>4, <1>5 DEF PipeOf

(* In a clock every stage moves on by one. *)
LEMMA PipeShifts ==
  ASSUME NEW v \in BOOLEAN, NEW l \in [1..4 -> LineState], NEW o \in LineState,
         NEW v2 \in BOOLEAN, NEW l2 \in [1..4 -> LineState], NEW o2 \in LineState,
         l2[1] = o, l2[2] = l[1], l2[3] = l[2], l2[4] = l[3]
  PROVE  LET p == PipeOf(v, l, o)
             p2 == PipeOf(v2, l2, o2)
         IN /\ \A j \in 2..4 : p2[j] = p[j + 1]
            /\ p2[1].bit = p[2].bit
            /\ v2 = Changed(l[3], l[4]) => Shifted(p, p2)
            /\ p2[5] = [on |-> Changed(o2, o), bit |-> o2.data]
            /\ p2[1].on = v2
<1> DEFINE p == PipeOf(v, l, o)
           p2 == PipeOf(v2, l2, o2)
<1>1. /\ p[1] = [on |-> v, bit |-> l[4].data]
      /\ p[2] = [on |-> Changed(l[3], l[4]), bit |-> l[3].data]
      /\ p[3] = [on |-> Changed(l[2], l[3]), bit |-> l[2].data]
      /\ p[4] = [on |-> Changed(l[1], l[2]), bit |-> l[1].data]
      /\ p[5] = [on |-> Changed(o, l[1]), bit |-> o.data]
  BY PipeIs, SMTT(60)
<1>2. /\ p2[1] = [on |-> v2, bit |-> l2[4].data]
      /\ p2[2] = [on |-> Changed(l2[3], l2[4]), bit |-> l2[3].data]
      /\ p2[3] = [on |-> Changed(l2[2], l2[3]), bit |-> l2[2].data]
      /\ p2[4] = [on |-> Changed(l2[1], l2[2]), bit |-> l2[1].data]
      /\ p2[5] = [on |-> Changed(o2, l2[1]), bit |-> o2.data]
  BY PipeIs, SMTT(60)
<1> HIDE DEF p, p2
<1>3. p2[2] = p[3] /\ p2[3] = p[4] /\ p2[4] = p[5]
  BY <1>1, <1>2
<1>4. \A j \in 2..4 : p2[j] = p[j + 1]
  <2> SUFFICES ASSUME NEW j \in 2..4 PROVE p2[j] = p[j + 1]
    OBVIOUS
  <2>1. j = 2 \/ j = 3 \/ j = 4
    OBVIOUS
  <2>2. 2 + 1 = 3 /\ 3 + 1 = 4 /\ 4 + 1 = 5
    OBVIOUS
  <2> QED BY <1>3, <2>1, <2>2
<1>5. p2[1].bit = p[2].bit /\ p2[1].on = v2
  BY <1>1, <1>2
<1>6. v2 = Changed(l[3], l[4]) => p2[1] = p[2]
  BY <1>1, <1>2
<1>7. v2 = Changed(l[3], l[4]) => Shifted(p, p2)
  BY <1>3, <1>6 DEF Shifted
<1>8. p2[5] = [on |-> Changed(o2, o), bit |-> o2.data]
  BY <1>2
<1> QED BY <1>4, <1>5, <1>7, <1>8 DEF p, p2

(* The transmitter's state, and the flags that imply each other. *)
XmitTypes ==
  /\ txclken \in BOOLEAN /\ txclkcnt \in Nat
  /\ txbits \in Seq(Bit) /\ txparity \in Bit
  /\ outData \in Bit /\ outStrobe \in Bit
  /\ pendTick \in BOOLEAN /\ pendTime \in Word
  /\ allowFct \in BOOLEAN /\ allowChar \in BOOLEAN
  /\ sentNull \in BOOLEAN /\ sentFct \in BOOLEAN
  /\ allowChar => allowFct /\ sentFct
  /\ allowFct => sentNull

(* What of the transmitter decides its next bits, and the change that puts o
   on the lines. *)
Sender == [bits |-> txbits, par |-> txparity, null |-> sentNull, fct |-> sentFct]

Onto(o) == [on |-> Changed(o, Out), bit |-> o.data]

(* What the link and the FIFO give the transmitter. *)
LEMMA InputIs ==
  ASSUME NEW in \in InPhase
  PROVE  /\ in \in XmitInput /\ in.txen = (phase # "off") /\ in.stnull = (phase = "null") /\ in.stfct = (phase = "fct")
         /\ in.txen \in BOOLEAN /\ in.stnull \in BOOLEAN /\ in.stfct \in BOOLEAN /\ in.fctIn \in BOOLEAN
         /\ in.nchar \in Sendable /\ in.nchar # Fct
         /\ in.tick = NoToken \/ in.tick.word \in Word
<1>1. in \in XmitInput /\ in.txen = (phase # "off") /\ in.stnull = (phase = "null") /\ in.stfct = (phase = "fct")
  BY DEF InPhase
<1>2. /\ in.txen \in BOOLEAN /\ in.stnull \in BOOLEAN /\ in.stfct \in BOOLEAN /\ in.fctIn \in BOOLEAN
      /\ in.nchar \in {NoToken} \cup NChars(Words) /\ in.tick \in {NoToken} \cup {Time(w) : w \in Words}
  BY <1>1 DEF XmitInput
<1>3. in.nchar \in Sendable /\ in.nchar # Fct
  BY <1>2, WordsAssumption DEF Sendable, Token, NChars, NoToken, Fct
<1>4. in.tick = NoToken \/ in.tick.word \in Word
  BY <1>2, WordsAssumption DEF Time
<1> QED BY <1>1, <1>2, <1>3, <1>4

(* What is sent next, and what is accepted. *)
LEMMA NextIs ==
  ASSUME XmitTypes, NEW in \in InPhase
  PROVE  /\ next(in) \in Sendable
         /\ next(in) = NoToken \/ (next(in) = Fct /\ allowFct) \/ allowChar
         /\ Accepted(in) = IF in.txen /\ free THEN Tok(next(in)) ELSE <<>>
<1>1. /\ in.nchar \in Sendable /\ in.nchar # Fct /\ in.fctIn \in BOOLEAN /\ in.txen \in BOOLEAN
  BY InputIs
<1>2. pendTime \in Word /\ (allowChar => allowFct) /\ pendTick \in BOOLEAN /\ allowChar \in BOOLEAN /\ allowFct \in BOOLEAN
  BY DEF XmitTypes
<1>3. Time(pendTime) \in Sendable /\ Time(pendTime) # NoToken /\ Fct \in Sendable /\ NoToken \in Sendable /\ Fct # NoToken
  BY <1>2 DEF Sendable, Token, Time, NoToken, Fct
<1>4. <<>> \o <<>> = <<>> /\ \A a : <<a>> \o <<>> = <<a>> /\ <<>> \o <<a>> = <<a>>
  OBVIOUS
<1>5. CASE ~(in.txen /\ free)
  <2>1. ~(in.txen /\ sendsTime) /\ ~fctack(in) /\ ~txack(in)
    BY <1>5 DEF sendsTime, fctack, txack
  <2> QED BY <1>1, <1>2, <1>3, <1>4, <1>5, <2>1 DEF next, Accepted
<1>6. CASE in.txen /\ free
  <2>1. CASE allowChar /\ pendTick
    <3>1. in.txen /\ sendsTime /\ ~fctack(in) /\ ~txack(in) /\ next(in) = Time(pendTime)
      BY <1>6, <2>1 DEF sendsTime, fctack, txack, next
    <3> QED BY <1>3, <1>4, <1>6, <2>1, <3>1 DEF Accepted, Tok
  <2>2. CASE ~(allowChar /\ pendTick) /\ allowFct /\ in.fctIn
    <3>1. ~sendsTime /\ fctack(in) /\ ~txack(in) /\ next(in) = Fct
      BY <1>6, <2>2 DEF sendsTime, fctack, txack, next
    <3> QED BY <1>3, <1>4, <1>6, <2>2, <3>1 DEF Accepted, Tok
  <2>3. CASE ~(allowChar /\ pendTick) /\ ~(allowFct /\ in.fctIn) /\ allowChar
    <3>1. ~sendsTime /\ ~fctack(in) /\ next(in) = in.nchar
      BY <1>6, <2>3 DEF sendsTime, fctack, next
    <3>2. txack(in) <=> in.nchar # NoToken
      BY <1>2, <1>6, <2>3 DEF txack
    <3> QED BY <1>1, <1>4, <1>6, <2>3, <3>1, <3>2 DEF Accepted, Tok
  <2>4. CASE ~(allowChar /\ pendTick) /\ ~(allowFct /\ in.fctIn) /\ ~allowChar
    <3>1. ~sendsTime /\ ~fctack(in) /\ ~txack(in) /\ next(in) = NoToken
      BY <1>6, <2>4 DEF sendsTime, fctack, txack, next
    <3> QED BY <1>3, <1>4, <1>6, <2>4, <3>1 DEF Accepted, Tok
  <2> QED BY <2>1, <2>2, <2>3, <2>4
<1> QED BY <1>5, <1>6

(* When a bit goes out exactly one line changes. *)
LEMMA StrobeIs ==
  ASSUME outData \in Bit, outStrobe \in Bit, outData' \in Bit, strobe
  PROVE  outStrobe' \in Bit /\ Changed(Out', Out)
<1>1. outStrobe' = Not(Xor(outStrobe, Xor(outData, outData')))
  BY DEF strobe
<1>2. outStrobe' \in Bit /\ Xor(outData', outStrobe') # Xor(outData, outStrobe)
  <2>1. ASSUME NEW a \in {0, 1}, NEW b \in {0, 1}, NEW c \in {0, 1}, NEW d, d = Not(Xor(b, Xor(a, c)))
        PROVE  d \in {0, 1} /\ Xor(c, d) # Xor(a, b)
    BY <2>1 DEF Xor, Not
  <2> QED BY <1>1, <2>1 DEF Bit
<1> QED BY <1>2 DEF Changed, Out

(* What an enabled transmitter does in a clock. *)
LEMMA Sending ==
  ASSUME XmitTypes, NEW in \in InPhase, in.txen, XmitEnabled(in)
  PROVE  /\ txbits' \in Seq(Bit) /\ txparity' \in Bit /\ outData' \in Bit /\ outStrobe' \in Bit
         /\ sentNull' \in BOOLEAN /\ sentFct' \in BOOLEAN /\ (sentNull => sentNull') /\ (sentFct => sentFct')
         /\ \E t \in Sendable :
              /\ Accepted(in) = Tok(t)
              /\ Sends(Sender, t, Onto(Out'), Sender')
              /\ t = NoToken \/ (t = Fct /\ allowFct) \/ allowChar
<1>1. /\ txbits \in Seq(Bit) /\ txparity \in Bit /\ outData \in Bit /\ outStrobe \in Bit
      /\ sentNull \in BOOLEAN /\ sentFct \in BOOLEAN
  BY DEF XmitTypes
<1>2. SendBit(in) /\ NoToken \in Sendable /\ Tok(NoToken) = <<>>
  BY DEF XmitEnabled, Sendable, Tok
<1>3. CASE ~txclken
  <2>1. UNCHANGED <<outData, outStrobe, txbits, txparity, sentNull, sentFct>>
    BY <1>2, <1>3 DEF SendBit
  <2>2. Accepted(in) = Tok(NoToken)
    BY <1>2, <1>3, NextIs DEF free
  <2>3. Sends(Sender, NoToken, Onto(Out'), Sender')
    BY <2>1 DEF Sends, Sender, Onto, Out, Changed
  <2> QED BY <1>1, <1>2, <2>1, <2>2, <2>3
<1>4. CASE txclken /\ Shift /\ strobe
  <2>1. /\ txbits # <<>> /\ outData' = Head(txbits) /\ txbits' = Tail(txbits)
        /\ txparity' = Xor(txparity, Head(txbits)) /\ sentNull' = sentNull /\ sentFct' = sentFct
    BY <1>4 DEF Shift
  <2>2. Head(txbits) \in Bit /\ Tail(txbits) \in Seq(Bit)
    BY <1>1, <2>1, SeqIsCons
  <2>3. outData' \in Bit /\ txparity' \in Bit
    BY <1>1, <2>1, <2>2, BitOps DEF Bit
  <2>4. outStrobe' \in Bit /\ Changed(Out', Out)
    BY <1>1, <1>4, <2>3, StrobeIs
  <2>5. Accepted(in) = Tok(NoToken)
    BY <1>2, <2>1, NextIs DEF free
  <2>6. Sends(Sender, NoToken, Onto(Out'), Sender')
    <3>1. Out'.data = Head(txbits)
      BY <2>1 DEF Out
    <3>2. Onto(Out').on /\ Onto(Out').bit = Head(txbits)
      BY <2>4, <3>1 DEF Onto
    <3>3. Shifts(Sender, Onto(Out').bit, Sender')
      BY <1>1, <2>1, <3>2 DEF Shifts, Sender
    <3> QED BY <3>2, <3>3 DEF Sends
  <2> QED BY <1>1, <1>2, <2>1, <2>2, <2>3, <2>4, <2>5, <2>6
<1>5. CASE txclken /\ Begin(in) /\ strobe
  <2> DEFINE t == next(in)
  <2>1. /\ txbits = <<>> /\ outData' = Xor(txparity, Not(Head(Bits(t)))) /\ txbits' = Bits(t)
        /\ txparity' = startParity(t) /\ sentNull' = (sentNull \/ t = NoToken) /\ sentFct' = (sentFct \/ t = Fct)
    BY <1>5 DEF Begin
  <2>2. t \in Sendable /\ Accepted(in) = Tok(t) /\ (t = NoToken \/ (t = Fct /\ allowFct) \/ allowChar)
    BY <1>5, <2>1, NextIs DEF free
  <2> HIDE DEF t
  <2>3. Bits(t) \in Seq(Bit) /\ Bits(t) # <<>> /\ Head(Bits(t)) \in Bit
    BY <2>2, BitsHead
  <2>4. startParity(t) \in Bit
    BY <2>3 DEF startParity, Bit
  <2>5. outData' \in Bit
    BY <1>1, <2>1, <2>3 DEF Xor, Not, Bit
  <2>6. outStrobe' \in Bit /\ Changed(Out', Out)
    BY <1>1, <1>5, <2>5, StrobeIs
  <2>7. Sends(Sender, t, Onto(Out'), Sender')
    <3>1. Out'.data = outData'
      BY DEF Out
    <3>2. Onto(Out').on /\ Onto(Out').bit = outData'
      BY <2>6, <3>1 DEF Onto
    <3>3. Begins(Sender, t, Onto(Out').bit, Sender')
      BY <1>1, <2>1, <3>2 DEF Begins, Sender
    <3> QED BY <3>2, <3>3 DEF Sends
  <2>8. sentNull' \in BOOLEAN /\ sentFct' \in BOOLEAN /\ (sentNull => sentNull') /\ (sentFct => sentFct')
    BY <2>1
  <2> QED BY <2>1, <2>2, <2>3, <2>4, <2>5, <2>6, <2>7, <2>8
<1> QED BY <1>2, <1>3, <1>4, <1>5 DEF SendBit

(* The two lines return to zero, at most one change in a clock. *)
LEMMA Resting ==
  ASSUME outData \in Bit, outStrobe \in Bit,
         \/ outData' = outData * outStrobe /\ outStrobe' = 0
         \/ outData' = outData /\ outStrobe' = outStrobe
         \/ outData' = 0 /\ outStrobe' = 0
  PROVE  /\ outData' \in Bit /\ outStrobe' \in Bit
         /\ (outData + outStrobe)' <= outData + outStrobe
         /\ Changed(Out', Out) => (outData + outStrobe)' < outData + outStrobe
<1>1. outData \in {0, 1} /\ outStrobe \in {0, 1}
  BY DEF Bit
<1>2. Changed(Out', Out) <=> (outData' + outStrobe') % 2 # (outData + outStrobe) % 2
  BY DEF Changed, Out, Xor
<1> QED BY <1>1, <1>2 DEF Bit

(* A clock of the transmitter keeps its types, *)
LEMMA ClockTypes ==
  ASSUME XmitTypes, NEW in \in InPhase, NEW d \in Nat, XmitClock(in, d)
  PROVE  XmitTypes'
<1>1. txclken' \in BOOLEAN /\ txclkcnt' \in Nat
  BY DEF XmitClock, RunDivider, XmitTypes
<1>2. CASE XmitDisabled(in)
  <2>1. /\ txbits' = <<>> /\ txparity' = 0 /\ pendTick' = FALSE /\ pendTime' = pendTime
        /\ allowFct' = FALSE /\ allowChar' = FALSE /\ sentNull' = FALSE /\ sentFct' = FALSE
    BY <1>2 DEF XmitDisabled, Forget
  <2>2. \/ outData' = outData * outStrobe /\ outStrobe' = 0
        \/ outData' = outData /\ outStrobe' = outStrobe
        \/ outData' = 0 /\ outStrobe' = 0
    BY <1>2 DEF XmitDisabled, RestLines
  <2>3. outData' \in Bit /\ outStrobe' \in Bit
    BY <2>2, Resting DEF XmitTypes
  <2>4. <<>> \in Seq(Bit) /\ 0 \in Bit /\ pendTime \in Word
    BY DEF Bit, XmitTypes
  <2> QED BY <1>1, <2>1, <2>3, <2>4 DEF XmitTypes
<1>3. CASE XmitEnabled(in)
  <2>1. in.txen /\ TakeTick(in) /\ allowFct' = fctAllowed(in) /\ allowChar' = charAllowed(in)
    BY <1>3 DEF XmitEnabled
  <2>2. /\ txbits' \in Seq(Bit) /\ txparity' \in Bit /\ outData' \in Bit /\ outStrobe' \in Bit
        /\ sentNull' \in BOOLEAN /\ sentFct' \in BOOLEAN /\ (sentNull => sentNull') /\ (sentFct => sentFct')
    BY <1>3, <2>1, Sending
  <2>3. pendTick' \in BOOLEAN /\ pendTime' \in Word
    BY <2>1, InputIs DEF TakeTick, XmitTypes
  <2>4. in.stnull \in BOOLEAN /\ in.stfct \in BOOLEAN /\ sentNull \in BOOLEAN /\ sentFct \in BOOLEAN
    BY InputIs DEF XmitTypes
  <2>5. /\ allowFct' \in BOOLEAN /\ allowChar' \in BOOLEAN
        /\ allowChar' => allowFct' /\ sentFct
        /\ allowFct' => sentNull
    BY <2>1, <2>4 DEF fctAllowed, charAllowed
  <2> QED BY <1>1, <2>2, <2>3, <2>5 DEF XmitTypes
<1> QED BY <1>2, <1>3 DEF XmitClock

(* and so does its reset. *)
LEMMA ResetTypes ==
  ASSUME XmitReset
  PROVE  XmitTypes'
<1>1. <<>> \in Seq(Bit) /\ 0 \in Bit /\ [i \in 1..WordBits |-> 0] \in Word
  BY DEF Bit, Word
<1> QED BY <1>1 DEF XmitReset, Forget, XmitTypes

(* The line's types, and the receiver as the phases leave it. *)
LineTypes ==
  /\ phase \in Phase /\ rxen \in BOOLEAN /\ ready \in BOOLEAN /\ flipped \in BOOLEAN
  /\ line \in [1..4 -> LineState] /\ valid \in BOOLEAN
  /\ Whole(rx) /\ disccnt \in 0..DisconnectTime
  /\ flight \in Seq(Token) /\ silent \in Nat
  /\ ready => rxen
  /\ rxen \/ (flight = <<>> /\ ~flipped)
  /\ flipped => rx.nullSeen
  /\ phase \in {"fct", "run"} /\ rxen => rx.nullSeen \/ ready

(* The bits on their way now. *)
Pipe == PipeOf(valid, line, Out)

(* A clock of the front end. *)
LEMMA FrontIs ==
  ASSUME LineTypes, XmitTypes, FrontClock
  PROVE  /\ line' \in [1..4 -> LineState] /\ valid' \in BOOLEAN
         /\ line'[1] = Out /\ line'[2] = line[1] /\ line'[3] = line[2] /\ line'[4] = line[3]
         /\ valid' = (rxen /\ Changed(line[3], line[4]))
<1>1. Out \in LineState /\ line \in [1..4 -> LineState] /\ rxen \in BOOLEAN
  BY DEF Out, LineState, XmitTypes, LineTypes
<1>2. line' = <<Out>> \o SubSeq(line, 1, 3) /\ valid' = (rxen /\ Changed(line[3], line[4]))
  BY DEF FrontClock, Out
<1>3. line \in Seq(LineState) /\ Len(line) = 4
  BY <1>1, IsSeq
<1> DEFINE l == line
           s == SubSeq(l, 1, 3)
<1>4. l \in Seq(LineState) /\ Len(l) = 4 /\ l \in [1..4 -> LineState]
  BY <1>1, <1>3
<1> HIDE DEF l
<1>5. s \in Seq(LineState) /\ Len(s) = 3 /\ s[1] = l[1] /\ s[2] = l[2] /\ s[3] = l[3]
  <2>1. \A i \in 1..3 : l[i] \in LineState
    BY <1>4
  <2>2. /\ SubSeq(l, 1, 3) \in Seq(LineState) /\ Len(SubSeq(l, 1, 3)) = (IF 1 <= 3 THEN 3 - 1 + 1 ELSE 0)
        /\ \A i \in 1..(3 - 1 + 1) : SubSeq(l, 1, 3)[i] = l[1 + i - 1]
    BY <2>1, SubSeqProperties
  <2>3. /\ Len(s) = 3 /\ \A i \in 1..3 : s[i] = l[i]
    BY <2>2
  <2> HIDE DEF s
  <2>4. s[1] = l[1] /\ s[2] = l[2] /\ s[3] = l[3]
    BY <2>3
  <2> QED BY <2>2, <2>3, <2>4 DEF s
<1> HIDE DEF s
<1> DEFINE o == <<Out>>
           n == o \o s
<1>6. o \in Seq(LineState) /\ Len(o) = 1 /\ o[1] = Out
  BY <1>1
<1> HIDE DEF o
<1>7. /\ o \o s \in Seq(LineState) /\ Len(o \o s) = Len(o) + Len(s)
      /\ \A i \in 1..(Len(o) + Len(s)) : (o \o s)[i] = IF i <= Len(o) THEN o[i] ELSE s[i - Len(o)]
  BY <1>5, <1>6, ConcatProperties
<1>8. n \in Seq(LineState) /\ Len(n) = 4 /\ n[1] = Out /\ n[2] = s[1] /\ n[3] = s[2] /\ n[4] = s[3]
  BY <1>5, <1>6, <1>7
<1>9. line' = n
  BY <1>2 DEF n, o, s, l
<1> HIDE DEF n
<1>10. n \in [1..4 -> LineState]
  <2>1. n \in [1..Len(n) -> LineState]
    BY <1>8, LenProperties
  <2> QED BY <1>8, <2>1
<1>11. valid' \in BOOLEAN
  BY <1>1, <1>2 DEF Changed
<1> QED BY <1>2, <1>5, <1>8, <1>9, <1>10, <1>11 DEF l

(* A clock of the receiver, on or off. *)
LEMMA ReceiveIs ==
  ASSUME LineTypes, NEW noise \in BOOLEAN, Receive(noise)
  PROVE  /\ line[4].data \in Bit /\ disccnt' \in 0..DisconnectTime
         /\ rxen => /\ rx' = IF valid THEN Take(rx, IF noise THEN Not(line[4].data) ELSE line[4].data) ELSE Rest(rx)
                    /\ disccnt' = IF valid THEN DisconnectTime ELSE IF disccnt > 0 THEN disccnt - 1 ELSE 0
         /\ ~rxen => /\ Whole(rx') /\ ~rx'.nullSeen /\ ~rx'.bitSeen /\ rx'.got = NoToken
                     /\ rx'.window = [i \in 1..9 |-> 1] /\ disccnt' = 0
<1>1. Whole(rx) /\ rx \in Receiver /\ line[4] \in LineState /\ disccnt \in 0..DisconnectTime /\ DisconnectTime \in Nat
  BY DisconnectAssumption DEF LineTypes, Whole
<1> DEFINE c == Chunk(noise)
           b == IF noise THEN Not(line[4].data) ELSE line[4].data
<1>2. line[4].data \in Bit /\ b \in Bit
  <2>1. line[4].data \in Bit
    BY <1>1 DEF LineState
  <2> QED BY <2>1, BitOps DEF Bit
<1>3. (~valid => c = <<>>) /\ (valid => c = <<b>>)
  BY DEF Chunk
<1>4. c = <<>> \/ \E d : c = <<d>>
  BY <1>3
<1> HIDE DEF c, b
<1>5. received(c) = IF c = <<>> THEN [rx EXCEPT !.got = NoToken] ELSE ReceiveBit([rx EXCEPT !.got = NoToken], c[1])
  BY <1>4, ReceivedIs
<1>6. received(c) = IF valid THEN Take(rx, b) ELSE Rest(rx)
  BY <1>3, <1>5 DEF Take, Rest
<1>7. received(c) \in Receiver
  BY <1>1, <1>2, <1>6, TakeReceiver, RestIs
<1>8. ASSUME rxen
      PROVE  /\ rx' = IF valid THEN Take(rx, b) ELSE Rest(rx)
             /\ disccnt' = IF valid THEN DisconnectTime ELSE IF disccnt > 0 THEN disccnt - 1 ELSE 0
  <2>1. RecvEnabled(c, valid)
    BY <1>8 DEF Receive, c
  <2>2. rx' = received(c) /\ disccnt' = CASE valid -> DisconnectTime
                                          [] ~valid /\ disccnt > 0 -> disccnt - 1
                                          [] ~valid /\ disccnt = 0 -> 0
    BY <2>1 DEF RecvEnabled
  <2>3. disccnt > 0 \/ disccnt = 0
    BY <1>1
  <2>4. ~(disccnt > 0 /\ disccnt = 0)
    OBVIOUS
  <2> QED BY <1>6, <2>2, <2>3, <2>4
<1>9. ASSUME ~rxen
      PROVE  /\ Whole(rx') /\ ~rx'.nullSeen /\ ~rx'.bitSeen /\ rx'.got = NoToken
             /\ rx'.window = [i \in 1..9 |-> 1] /\ disccnt' = 0
  <2>1. RecvDisabled(c)
    BY <1>9 DEF Receive, c
  <2> DEFINE e == received(c)
             n == [Silent EXCEPT !.parity = e.parity, !.control = e.control]
  <2>2. rx' = n /\ disccnt' = 0
    BY <2>1 DEF RecvDisabled
  <2>3. e.parity \in Bit /\ e.control \in BOOLEAN
    BY <1>7 DEF Receiver
  <2> HIDE DEF e
  <2>4. Silent \in Receiver
    BY WordIsShort DEF Silent, Receiver, Bit
  <2>5. /\ n \in Receiver /\ n.nullSeen = FALSE /\ n.bitSeen = FALSE /\ n.got = NoToken
        /\ n.window = [i \in 1..9 |-> 1] /\ n.left = Idle /\ n.escaped = FALSE /\ n.errpar = FALSE /\ n.erresc = FALSE
    BY <2>3, <2>4 DEF Silent, Receiver
  <2> HIDE DEF n
  <2> QED BY <2>2, <2>5 DEF Whole
<1>10. disccnt' \in 0..DisconnectTime
  BY <1>1, <1>8, <1>9, rxen \in BOOLEAN DEF LineTypes
<1> QED BY <1>2, <1>8, <1>9, <1>10 DEF b

(* The receiver and what is on its way to it. *)
Here == [r |-> rx, fl |-> flight]

(* All that happens in a clock, except for the transmitter. *)
Around(t, noise) ==
  /\ Noise(noise) /\ FrontClock /\ Receive(noise) /\ EnableStep
  /\ PhaseStep \/ phase' = "off"
  /\ Record(Tok(t), noise)

(* The two lines on their way to zero. *)
Quiet ==
  /\ (outData + outStrobe)' <= outData + outStrobe
  /\ Changed(Out', Out) => (outData + outStrobe)' < outData + outStrobe

(* The transmitter has sent nothing yet. *)
Blank(s) == s.bits = <<>> /\ s.par = 0 /\ ~s.null /\ ~s.fct

(* When the receiver is switched on or off. *)
LEMMA EnableIs ==
  ASSUME LineTypes, EnableStep
  PROVE  /\ rxen' \in BOOLEAN /\ ready' \in BOOLEAN /\ ready' = (rxen' /\ (phase' = "off" \/ ready))
         /\ rxen' /\ rxen => ~recverr
         /\ rxen' /\ ~rxen => phase' = "null" \/ (phase' = "off" /\ atRest)
BY DEF EnableStep, LineTypes

(* Where each phase comes from. *)
LEMMA PhaseIs ==
  ASSUME LineTypes, PhaseStep \/ phase' = "off"
  PROVE  /\ phase' \in Phase
         /\ phase' = "null" => phase = "null" \/ (phase = "off" /\ atRest /\ ~rx.bitSeen)
         /\ phase' = "fct" => phase = "fct" \/ (phase = "null" /\ (rx.nullSeen \/ ready))
         /\ phase' = "run" => phase \in {"fct", "run"}
BY DEF PhaseStep, Starts, Goes, Stops, Phase, LineTypes

(* What the history variables record. *)
LEMMA RecordIs ==
  ASSUME LineTypes, NEW t \in Sendable, NEW noise, Record(Tok(t), noise), rxen' \in BOOLEAN
  PROVE  /\ flight' \in Seq(Token)
         /\ ~rxen' => flight' = <<>>
         /\ rxen' => flight' = IF rx'.got # NoToken /\ flight \o Tok(t) # <<>>
                               THEN Tail(flight \o Tok(t)) ELSE flight \o Tok(t)
         /\ flipped' = (rxen' /\ (flipped \/ noise))
         /\ silent' = IF phase = "off" /\ unnoticed' THEN silent + 1 ELSE 0
         /\ silent' \in Nat
<1> DEFINE sent == flight \o Tok(t)
<1>1. sent \in Seq(Token)
  BY TokIs, ConcatProperties DEF LineTypes
<1>2. /\ flight' = CASE ~rxen' -> <<>>
                     [] Delivered /\ sent # <<>> -> Tail(sent)
                     [] OTHER -> sent
      /\ flipped' = (rxen' /\ (flipped \/ noise))
      /\ silent' = IF phase = "off" /\ unnoticed' THEN silent + 1 ELSE 0
  BY DEF Record
<1>3. Delivered <=> rxen' /\ rx'.got # NoToken
  BY DEF Delivered
<1> HIDE DEF sent
<1>4. /\ ~rxen' => flight' = <<>>
      /\ rxen' => flight' = IF rx'.got # NoToken /\ sent # <<>> THEN Tail(sent) ELSE sent
  BY <1>2, <1>3
<1>5. sent # <<>> => Tail(sent) \in Seq(Token)
  BY <1>1, HeadTailProperties
<1>6. flight' \in Seq(Token)
  <2>1. <<>> \in Seq(Token)
    OBVIOUS
  <2>2. flight' = <<>> \/ flight' = sent \/ (sent # <<>> /\ flight' = Tail(sent))
    BY <1>4
  <2> QED BY <1>1, <1>5, <2>1, <2>2
<1>7. silent' \in Nat
  BY <1>2 DEF LineTypes
<1> QED BY <1>2, <1>4, <1>6, <1>7 DEF sent

(* A clock keeps the types and the receiver what it has seen. *)
LEMMA AroundTypes ==
  ASSUME XmitTypes, LineTypes, NEW t \in Sendable, NEW noise \in BOOLEAN, Around(t, noise)
  PROVE  LineTypes' /\ (rxen => Keeps(rx, rx'))
<1>1. /\ rxen' \in BOOLEAN /\ ready' \in BOOLEAN /\ ready' = (rxen' /\ (phase' = "off" \/ ready))
      /\ rxen' /\ ~rxen => phase' = "null" \/ phase' = "off"
  BY EnableIs DEF Around
<1>2. /\ phase' \in Phase
      /\ phase' = "fct" => phase = "fct" \/ (phase = "null" /\ (rx.nullSeen \/ ready))
      /\ phase' = "run" => phase \in {"fct", "run"}
  BY PhaseIs DEF Around
<1>3. /\ flight' \in Seq(Token) /\ (~rxen' => flight' = <<>>)
      /\ flipped' = (rxen' /\ (flipped \/ noise)) /\ silent' \in Nat
  BY <1>1, RecordIs DEF Around
<1>4. line' \in [1..4 -> LineState] /\ valid' \in BOOLEAN
  BY FrontIs DEF Around
<1>5. Whole(rx) /\ rxen \in BOOLEAN /\ valid \in BOOLEAN /\ line[4].data \in Bit
  BY ReceiveIs DEF LineTypes, Around
<1> DEFINE b == IF noise THEN Not(line[4].data) ELSE line[4].data
<1>6. b \in Bit
  BY <1>5, BitOps DEF Bit
<1>7. /\ disccnt' \in 0..DisconnectTime
      /\ rxen => rx' = IF valid THEN Take(rx, b) ELSE Rest(rx)
      /\ ~rxen => Whole(rx')
  BY ReceiveIs DEF Around
<1> HIDE DEF b
<1>8. rxen => Whole(rx') /\ Keeps(rx, rx')
  BY <1>5, <1>6, <1>7, WholeTake, WholeRest
<1>9. noise => rx.nullSeen /\ rxen
  BY DEF Around, Noise
<1>10. rxen /\ rx.nullSeen => rx'.nullSeen
  BY <1>8 DEF Keeps
<1>11. flipped' => rx'.nullSeen
  <2>1. flipped => rxen /\ rx.nullSeen
    BY DEF LineTypes
  <2> QED BY <1>3, <1>9, <1>10, <2>1
<1>12. phase' \in {"fct", "run"} /\ rxen' => rx'.nullSeen \/ ready'
  <2> SUFFICES ASSUME phase' \in {"fct", "run"}, rxen' PROVE rx'.nullSeen \/ ready'
    OBVIOUS
  <2>1. rxen
    BY <1>1
  <2>2. rx.nullSeen \/ ready
    BY <1>2, <2>1 DEF LineTypes
  <2>3. ready => ready'
    BY <1>1
  <2> QED BY <1>10, <2>1, <2>2, <2>3
<1>13. /\ ready' => rxen'
       /\ rxen' \/ (flight' = <<>> /\ ~flipped')
       /\ flipped' \in BOOLEAN
  BY <1>1, <1>3
<1>14. Whole(rx')
  BY <1>5, <1>7, <1>8
<1>15. LineTypes'
  BY <1>1, <1>2, <1>3, <1>4, <1>7, <1>11, <1>12, <1>13, <1>14 DEF LineTypes
<1> QED BY <1>8, <1>15

(* What is on its way moves on by one stage. *)
LEMMA PipeMoves ==
  ASSUME XmitTypes, XmitTypes', LineTypes, LineTypes', FrontClock
  PROVE  /\ Pipe \in Pipes /\ Pipe' \in Pipes
         /\ \A j \in 2..4 : Pipe'[j] = Pipe[j + 1]
         /\ Pipe'[1].bit = Pipe[2].bit
         /\ rxen => Shifted(Pipe, Pipe')
         /\ ~rxen => ~Pipe'[1].on
         /\ Pipe'[5] = Onto(Out') /\ Pipe[1] = [on |-> valid, bit |-> line[4].data]
<1>1. Out \in LineState /\ Out' \in LineState
  BY DEF Out, LineState, XmitTypes
<1>2. /\ line \in [1..4 -> LineState] /\ line' \in [1..4 -> LineState]
      /\ valid \in BOOLEAN /\ valid' \in BOOLEAN
  BY DEF LineTypes
<1>3. /\ line'[1] = Out /\ line'[2] = line[1] /\ line'[3] = line[2] /\ line'[4] = line[3]
      /\ valid' = (rxen /\ Changed(line[3], line[4]))
  BY FrontIs
<1>4. Pipe = PipeOf(valid, line, Out) /\ Pipe' = PipeOf(valid', line', Out')
  BY DEF Pipe
<1>5. Pipe \in Pipes /\ Pipe' \in Pipes /\ Pipe[1] = [on |-> valid, bit |-> line[4].data]
  BY <1>1, <1>2, <1>4, PipeIs
<1>6. /\ \A j \in 2..4 : Pipe'[j] = Pipe[j + 1]
      /\ Pipe'[1].bit = Pipe[2].bit
      /\ valid' = Changed(line[3], line[4]) => Shifted(Pipe, Pipe')
      /\ Pipe'[5] = [on |-> Changed(Out', Out), bit |-> Out'.data]
      /\ Pipe'[1].on = valid'
  <2> DEFINE l == line
             l2 == line'
             o == Out
             o2 == Out'
             v == valid
             v2 == valid'
  <2>1. /\ v \in BOOLEAN /\ v2 \in BOOLEAN /\ l \in [1..4 -> LineState] /\ l2 \in [1..4 -> LineState]
        /\ o \in LineState /\ o2 \in LineState
        /\ l2[1] = o /\ l2[2] = l[1] /\ l2[3] = l[2] /\ l2[4] = l[3]
        /\ Pipe = PipeOf(v, l, o) /\ Pipe' = PipeOf(v2, l2, o2)
    BY <1>1, <1>2, <1>3, <1>4
  <2> HIDE DEF l, l2, o, o2, v, v2
  <2>2. /\ \A j \in 2..4 : Pipe'[j] = Pipe[j + 1]
        /\ Pipe'[1].bit = Pipe[2].bit
        /\ v2 = Changed(l[3], l[4]) => Shifted(Pipe, Pipe')
        /\ Pipe'[5] = [on |-> Changed(o2, o), bit |-> o2.data]
        /\ Pipe'[1].on = v2
    BY <2>1, PipeShifts
  <2> QED BY <2>2 DEF l, o, o2, v2
<1>7. rxen => valid' = Changed(line[3], line[4])
  BY <1>3 DEF Changed
<1> QED BY <1>3, <1>5, <1>6, <1>7 DEF Onto

(* The receiver and its flight are a convoy. *)
LEMMA HereIs ==
  ASSUME LineTypes
  PROVE  Here \in Convoys /\ Here.r = rx /\ Here.fl = flight
BY DEF Here, Convoys, LineTypes, Whole

(* In a clock they move on by one bit, and what is delivered is the head of
   the flight. *)
LEMMA HereStep ==
  ASSUME XmitTypes, LineTypes, NEW t \in Sendable, NEW noise \in BOOLEAN, Around(t, noise),
         valid => Fits(Here), rxen, rxen'
  PROVE  /\ ~noise => Here' = More(At1(Here, Pipe), t)
         /\ rx'.got # NoToken => flight # <<>> /\ rx'.got = Head(flight)
<1>1. Here \in Convoys /\ Here.r = rx /\ Here.fl = flight /\ valid \in BOOLEAN
  BY HereIs DEF LineTypes
<1> DEFINE b == IF noise THEN Not(line[4].data) ELSE line[4].data
<1>2. line[4].data \in Bit /\ rx' = IF valid THEN Take(rx, b) ELSE Rest(rx)
  BY ReceiveIs DEF Around
<1>3. b \in Bit
  BY <1>2, BitOps DEF Bit
<1>4. flight' = IF rx'.got # NoToken /\ flight \o Tok(t) # <<>>
                THEN Tail(flight \o Tok(t)) ELSE flight \o Tok(t)
  BY RecordIs, rxen' \in BOOLEAN DEF Around
<1> HIDE DEF b
<1>5. /\ [r |-> rx', fl |-> flight'] = More(Pass(Here, valid, b), t)
      /\ rx'.got # NoToken => Here.fl # <<>> /\ rx'.got = Head(Here.fl)
  <2>1. Moves(Here, valid, b, rx', t, flight')
    BY <1>1, <1>2, <1>4 DEF Moves, b
  <2>2. PICK x \in Convoys : x = Here
    BY <1>1
  <2>3. PICK q : q = rx'
    OBVIOUS
  <2>4. PICK fl2 : fl2 = flight'
    OBVIOUS
  <2>5. PICK on \in BOOLEAN, c \in Bit : on = valid /\ c = b
    BY <1>1, <1>3
  <2>6. Moves(x, on, c, q, t, fl2)
    BY <2>1, <2>2, <2>3, <2>4, <2>5
  <2>7. /\ [r |-> q, fl |-> fl2] = More(Pass(x, on, c), t)
        /\ q.got # NoToken => x.fl # <<>> /\ q.got = Head(x.fl)
    BY <2>6, HereMoves
  <2> QED BY <2>2, <2>3, <2>4, <2>5, <2>7
<1>6. Here' = [r |-> rx', fl |-> flight']
  BY DEF Here
<1>7. ASSUME ~noise PROVE Pass(Here, valid, b) = At1(Here, Pipe)
  <2>1. Out \in LineState /\ line \in [1..4 -> LineState]
    BY DEF Out, LineState, XmitTypes, LineTypes
  <2>2. Pipe[1] = [on |-> valid, bit |-> line[4].data]
    BY <1>1, <2>1, PipeIs DEF Pipe
  <2>3. Pipe[1].on = valid /\ Pipe[1].bit = b
    BY <1>7, <2>2 DEF b
  <2> QED BY <2>3 DEF At1
<1> QED BY <1>1, <1>5, <1>6, <1>7

(* What is on its way, in the four situations of a connection. *)
HeardInv == phase = "null" => ~allowFct /\ Heard(Pipe, Sender)
SendsInv == rxen /\ ~flipped /\ phase # "off" => Follows(Here, Pipe, Sender, ready)
EndsInv  == rxen /\ ~flipped /\ phase = "off" => Ends(Here, Pipe, outData + outStrobe)
WrongInv == rxen /\ flipped /\ phase # "off" =>
              rx.errpar \/ \E v : Twin(rx, v) /\ Follows([r |-> v, fl |-> flight], Pipe, Sender, ready)

Carried == HeardInv /\ SendsInv /\ EndsInv /\ WrongInv /\ ReceivedSoon

(* The transmitter was on and accepted t. *)
Active(t) ==
  /\ phase # "off" /\ Sends(Sender, t, Onto(Out'), Sender')
  /\ t = NoToken \/ (t = Fct /\ allowFct) \/ allowChar
  /\ phase = "null" => ~allowFct'

(* The transmitter was off, or is reset. *)
Stopped(t) ==
  /\ t = NoToken /\ Quiet
  /\ phase' # "off" => phase = "off" /\ Blank(Sender') /\ ~allowFct'

(* Everything a clock is given. *)
Clocked(t, noise) ==
  /\ XmitTypes /\ LineTypes /\ XmitTypes' /\ LineTypes' /\ Carried
  /\ Around(t, noise)

(* With nothing on its way nothing changes. *)
LEMMA AllOff ==
  ASSUME NEW x \in Convoys, NEW p \in Pipes, \A j \in 1..5 : ~p[j].on
  PROVE  At5(x, p).fl = x.fl /\ At5(x, p).r.bitSeen = x.r.bitSeen
<1> DEFINE x1 == At1(x, p)
           x2 == At2(x, p)
           x3 == At3(x, p)
           x4 == At4(x, p)
<1>1. /\ p[1].on = FALSE /\ p[2].on = FALSE /\ p[3].on = FALSE /\ p[4].on = FALSE /\ p[5].on = FALSE
      /\ \A j \in 1..5 : p[j].bit \in Bit
  BY DEF Pipes
<1>2. Along4(x, p)
  BY <1>1 DEF Along4
<1>3. x1 \in Convoys /\ x2 \in Convoys /\ x3 \in Convoys /\ x4 \in Convoys
  BY <1>2, AlongIs
<1>4. ASSUME NEW y \in Convoys, NEW b PROVE Pass(y, FALSE, b).fl = y.fl /\ Pass(y, FALSE, b).r.bitSeen = y.r.bitSeen
  BY <1>4, RestFits
<1>5. x1 = Pass(x, FALSE, p[1].bit)
  BY <1>1 DEF At1
<1>6. x2 = Pass(x1, FALSE, p[2].bit)
  BY <1>1 DEF At2
<1>7. x3 = Pass(x2, FALSE, p[3].bit)
  BY <1>1 DEF At3
<1>8. x4 = Pass(x3, FALSE, p[4].bit)
  BY <1>1 DEF At4
<1>9. At5(x, p) = Pass(x4, FALSE, p[5].bit)
  BY <1>1 DEF At5
<1> HIDE DEF x1, x2, x3, x4
<1>10. x1.fl = x.fl /\ x1.r.bitSeen = x.r.bitSeen
  BY <1>4, <1>5
<1>11. x2.fl = x.fl /\ x2.r.bitSeen = x.r.bitSeen
  BY <1>3, <1>4, <1>6, <1>10
<1>12. x3.fl = x.fl /\ x3.r.bitSeen = x.r.bitSeen
  BY <1>3, <1>4, <1>7, <1>11
<1>13. x4.fl = x.fl /\ x4.r.bitSeen = x.r.bitSeen
  BY <1>3, <1>4, <1>8, <1>12
<1> DEFINE v == Pass(x4, FALSE, p[5].bit)
<1>14. v.fl = x4.fl /\ v.r.bitSeen = x4.r.bitSeen
  BY <1>3, <1>4
<1>15. At5(x, p) = v
  BY <1>9
<1> HIDE DEF v
<1> QED BY <1>13, <1>14, <1>15

(* A new receiver follows a transmitter that has sent nothing. *)
LEMMA FreshFollows ==
  ASSUME NEW y, Fresh(y), NEW p \in Pipes, \A j \in 1..5 : ~p[j].on, NEW s, Blank(s), NEW rdy
  PROVE  Follows(y, p, s, rdy)
<1>1. /\ p[1].on = FALSE /\ p[2].on = FALSE /\ p[3].on = FALSE /\ p[4].on = FALSE /\ p[5].on = FALSE
  BY DEF Pipes
<1>2. At1(y, p) = y
  BY <1>1, FreshRests DEF At1
<1>3. At2(y, p) = y
  BY <1>1, <1>2, FreshRests DEF At2
<1>4. At3(y, p) = y
  BY <1>1, <1>3, FreshRests DEF At3
<1>5. At4(y, p) = y
  BY <1>1, <1>4, FreshRests DEF At4
<1>6. At5(y, p) = y
  BY <1>1, <1>5, FreshRests DEF At5
<1>7. /\ y \in Convoys /\ Whole(y.r) /\ ~y.r.nullSeen /\ y.fl = <<>>
      /\ y.r.window = [i \in 1..9 |-> 1]
  BY DEF Fresh, Convoys
<1>8. InStep(y, s.bits, s.par, s.null, s.fct, rdy)
  <2>1. Win(y.r.window, 0, 0)
    BY <1>7 DEF Win
  <2>2. BeforeNulls(y.r, y.fl, s.bits, s.par, s.null)
    BY <1>7, <2>1 DEF BeforeNulls, Blank
  <2>3. ~y.r.errpar /\ ~y.r.erresc
    BY <1>7 DEF Whole
  <2> QED BY <1>7, <2>2, <2>3 DEF InStep, Blank
<1> QED BY <1>1, <1>6, <1>7, <1>8 DEF Follows, Along, Along4, Unharmed, Unharmed4

(* A receiver out of step is not harmed by the lines coming to rest. *)
LEMMA EndsBegins ==
  ASSUME NEW y \in Convoys, ~y.r.nullSeen, NEW p \in Pipes,
         ~p[1].on, ~p[2].on, ~p[3].on, ~p[4].on, y.fl # <<>> => p[5].on, NEW k
  PROVE  Ends(y, p, k)
<1>1. /\ p[1].on = FALSE /\ p[2].on = FALSE /\ p[3].on = FALSE /\ p[4].on = FALSE
      /\ p[5].on \in BOOLEAN /\ p[5].bit \in Bit
  BY DEF Pipes
<1> DEFINE x1 == At1(y, p)
           x2 == At2(y, p)
           x3 == At3(y, p)
           x4 == At4(y, p)
           z == At5(y, p)
<1>2. Along4(y, p)
  BY <1>1 DEF Along4
<1>3. x1 \in Convoys /\ x2 \in Convoys /\ x3 \in Convoys /\ x4 \in Convoys
  BY <1>2, AlongIs
<1>4. ASSUME NEW x \in Convoys, NEW b PROVE Pass(x, FALSE, b).fl = x.fl /\ Pass(x, FALSE, b).r.left = x.r.left
  BY <1>4, RestFits
<1>5. x1 = Pass(y, FALSE, p[1].bit)
  BY <1>1 DEF At1
<1>6. x2 = Pass(x1, FALSE, p[2].bit)
  BY <1>1 DEF At2
<1>7. x3 = Pass(x2, FALSE, p[3].bit)
  BY <1>1 DEF At3
<1>8. x4 = Pass(x3, FALSE, p[4].bit)
  BY <1>1 DEF At4
<1>9. z = Pass(x4, p[5].on, p[5].bit)
  BY DEF At5
<1> HIDE DEF x1, x2, x3, x4, z
<1>10. x4.fl = y.fl /\ x4.r.left = y.r.left
  <2>1. x1.fl = y.fl /\ x1.r.left = y.r.left
    BY <1>4, <1>5
  <2>2. x2.fl = x1.fl /\ x2.r.left = x1.r.left
    BY <1>3, <1>4, <1>6
  <2>3. x3.fl = x2.fl /\ x3.r.left = x2.r.left
    BY <1>3, <1>4, <1>7
  <2>4. x4.fl = x3.fl /\ x4.r.left = x3.r.left
    BY <1>3, <1>4, <1>8
  <2> QED BY <2>1, <2>2, <2>3, <2>4
<1>11. y.r.left = Idle /\ Idle # 0 /\ Idle # 1 /\ Idle - 1 # 0
  BY WordIsShort DEF Convoys, Whole
<1>12. Along(y, p)
  BY <1>2, <1>10, <1>11 DEF Along, Fits, x4
<1>13. x4.r \in Receiver /\ Whole(x4.r)
  BY <1>3 DEF Convoys
<1>14. CASE ~p[5].on
  <2>1. z.fl = <<>> /\ z.r.left = Idle
    BY <1>3, <1>4, <1>9, <1>10, <1>11, <1>14, <1>1
  <2>2. Harmless(z, k)
    BY <1>11, <2>1 DEF Harmless, Fits
  <2> QED BY <1>12, <2>2 DEF Ends, z
<1>15. CASE p[5].on
  <2> DEFINE q == Take(x4.r, p[5].bit)
  <2>1. z.r = q /\ q.bitSeen
    BY <1>1, <1>9, <1>13, <1>15, WholeTake DEF Pass
  <2>2. q.left \in {Idle, 3}
    <3>1. x4.r.left # 0 /\ x4.r.left = Idle
      BY <1>10, <1>11
    <3>2. CASE x4.r.nullSeen \/ x4.r.window # FirstNull
      BY <1>1, <1>13, <3>1, <3>2, TakeCounts
    <3>3. CASE ~x4.r.nullSeen /\ x4.r.window = FirstNull
      BY <1>1, <1>13, <3>1, <3>3, TakeSyncs
    <3> QED BY <3>2, <3>3
  <2> HIDE DEF q
  <2>3. z.r.left # 0 /\ z.r.left # 1
    BY <1>11, <2>1, <2>2
  <2>4. Harmless(z, k)
    BY <2>1, <2>3 DEF Harmless, Fits
  <2> QED BY <1>12, <2>4 DEF Ends, z
<1> QED BY <1>14, <1>15

(* The phases let a token begin only when it may. *)
LEMMA BeginOk ==
  ASSUME XmitTypes, LineTypes, rxen, NEW x, Follows(x, Pipe, Sender, ready), x.r.nullSeen = rx.nullSeen,
         Pipe \in Pipes, HeardInv, NEW t, Active(t), txbits = <<>>
  PROVE  MayBegin(At5(x, Pipe), Sender, t, ready)
<1> DEFINE z == At5(x, Pipe)
<1>1. x \in Convoys /\ Along4(x, Pipe) /\ (Pipe[5].on => Fits(At4(x, Pipe)))
      /\ InStep(z, Sender.bits, Sender.par, Sender.null, Sender.fct, ready)
  BY DEF Follows, Along
<1>2. Keeps(x.r, z.r)
  BY <1>1, AlongIs
<1>3. Sender.bits = <<>> /\ Sender.null = sentNull /\ Sender.fct = sentFct
  BY DEF Sender
<1> HIDE DEF z
<1>4. CASE t = NoToken
  BY <1>4 DEF MayBegin, z
<1>5. CASE t = Fct /\ allowFct
  <2>1. phase \in {"fct", "run"} /\ sentNull
    BY <1>5 DEF Active, HeardInv, LineTypes, Phase, XmitTypes
  <2>2. rx.nullSeen \/ ready
    BY <2>1 DEF LineTypes
  <2>3. rx.nullSeen => z.r.nullSeen
    BY <1>2 DEF Keeps
  <2> QED BY <1>3, <1>5, <2>1, <2>2, <2>3 DEF MayBegin, z
<1>6. CASE allowChar
  <2>1. sentFct
    BY <1>6 DEF XmitTypes
  <2>2. Sender.bits # Bits(Fct)
    BY <1>3, FctBitsAre
  <2>3. z.r.nullSeen
    BY <1>1, <1>3, <2>1, <2>2 DEF InStep, BehindNull
  <2> QED BY <2>3 DEF MayBegin, z
<1> QED BY <1>4, <1>5, <1>6 DEF Active

(* At rest nothing is on its way, *)
LEMMA AtRestIs ==
  ASSUME XmitTypes, LineTypes, atRest
  PROVE  (\A j \in 1..5 : ~Pipe[j].on) /\ outData + outStrobe = 0 /\ ~valid
<1> DEFINE zero == [data |-> 0, strobe |-> 0]
<1>1. /\ Out = zero /\ valid = FALSE
      /\ line[1] = zero /\ line[2] = zero /\ line[3] = zero /\ line[4] = zero
  BY DEF atRest, Out, LineTypes
<1>2. Out \in LineState /\ line \in [1..4 -> LineState] /\ valid \in BOOLEAN
  BY DEF Out, LineState, XmitTypes, LineTypes
<1>3. /\ Pipe[1].on = valid /\ Pipe[2].on = Changed(line[3], line[4]) /\ Pipe[3].on = Changed(line[2], line[3])
      /\ Pipe[4].on = Changed(line[1], line[2]) /\ Pipe[5].on = Changed(Out, line[1])
  <2>1. /\ Pipe[1] = [on |-> valid, bit |-> line[4].data]
        /\ Pipe[2] = [on |-> Changed(line[3], line[4]), bit |-> line[3].data]
        /\ Pipe[3] = [on |-> Changed(line[2], line[3]), bit |-> line[2].data]
        /\ Pipe[4] = [on |-> Changed(line[1], line[2]), bit |-> line[1].data]
        /\ Pipe[5] = [on |-> Changed(Out, line[1]), bit |-> Out.data]
    BY <1>2, PipeIs, SMTT(60) DEF Pipe
  <2> QED BY <2>1
<1>4. ~Changed(zero, zero)
  BY DEF Changed
<1> HIDE DEF zero
<1>5. ~Pipe[1].on /\ ~Pipe[2].on /\ ~Pipe[3].on /\ ~Pipe[4].on /\ ~Pipe[5].on
  BY <1>1, <1>3, <1>4
<1>6. \A j \in 1..5 : ~Pipe[j].on
  <2> SUFFICES ASSUME NEW j \in 1..5 PROVE ~Pipe[j].on
    OBVIOUS
  <2>1. j = 1 \/ j = 2 \/ j = 3 \/ j = 4 \/ j = 5
    OBVIOUS
  <2> QED BY <1>5, <2>1
<1>7. outData + outStrobe = 0
  BY DEF atRest
<1> QED BY <1>1, <1>6, <1>7

(* and nothing is in the clock after it. *)
LEMMA RestStays ==
  ASSUME NEW t, NEW noise, Clocked(t, noise), atRest, Quiet
  PROVE  (\A j \in 2..5 : ~Pipe'[j].on) /\ ~Pipe'[1].on
<1>1. (\A j \in 1..5 : ~Pipe[j].on) /\ outData + outStrobe = 0
  BY AtRestIs DEF Clocked
<1>2. /\ \A j \in 2..4 : Pipe'[j] = Pipe[j + 1]
      /\ rxen => Shifted(Pipe, Pipe')
      /\ ~rxen => ~Pipe'[1].on
      /\ Pipe'[5] = Onto(Out')
  BY PipeMoves DEF Clocked, Around
<1>3. outData' \in Bit /\ outStrobe' \in Bit
  BY DEF Clocked, XmitTypes
<1>4. ~Changed(Out', Out)
  BY <1>1, <1>3 DEF Quiet, Bit
<1>5. ~Pipe'[5].on
  BY <1>2, <1>4 DEF Onto
<1>6. ~Pipe'[1].on
  BY <1>1, <1>2 DEF Shifted
<1>7. ASSUME NEW j \in 2..5 PROVE ~Pipe'[j].on
  <2>1. CASE j = 5
    BY <1>5, <2>1
  <2>2. CASE j # 5
    <3>1. j \in 2..4 /\ j + 1 \in 1..5
      BY <2>2
    <3> QED BY <1>1, <1>2, <3>1
  <2> QED BY <2>1, <2>2
<1> QED BY <1>6, <1>7

(* A receiver could be switched on before this clock and can be after it. *)
LEMMA HeardKept ==
  ASSUME NEW t \in Sendable, NEW noise \in BOOLEAN, Clocked(t, noise), Active(t) \/ Stopped(t)
  PROVE  HeardInv'
<1> SUFFICES ASSUME phase' = "null" PROVE ~allowFct' /\ Heard(Pipe', Sender')
  BY DEF HeardInv
<1>1. phase = "null" \/ (phase = "off" /\ atRest)
  BY PhaseIs DEF Clocked, Around
<1>2. /\ Pipe \in Pipes /\ Pipe' \in Pipes
      /\ \A j \in 2..4 : Pipe'[j] = Pipe[j + 1]
      /\ Pipe'[1].bit = Pipe[2].bit
      /\ Pipe'[5] = Onto(Out')
  BY PipeMoves DEF Clocked, Around
<1>3. CASE phase = "null"
  <2>1. Active(t)
    BY <1>3 DEF Stopped
  <2>2. ~allowFct /\ Heard(Pipe, Sender)
    BY <1>3 DEF Clocked, Carried, HeardInv
  <2>3. t = NoToken
    BY <2>1, <2>2 DEF Active, Clocked, XmitTypes
  <2>4. Sends(Sender, NoToken, Pipe'[5], Sender')
    BY <1>2, <2>1, <2>3 DEF Active
  <2>5. PICK p \in Pipes, p2 \in Pipes : p = Pipe /\ p2 = Pipe'
    BY <1>2
  <2>6. PICK s, s2 : s = Sender /\ s2 = Sender'
    OBVIOUS
  <2>7. Heard(p2, s2)
    BY <1>2, <2>2, <2>4, <2>5, <2>6, HeardStep
  <2> QED BY <1>3, <2>1, <2>5, <2>7, <2>6 DEF Active
<1>4. CASE phase = "off" /\ atRest
  <2>1. Stopped(t)
    BY <1>4 DEF Active
  <2>2. Blank(Sender') /\ ~allowFct' /\ Quiet
    BY <1>4, <2>1 DEF Stopped
  <2>3. \A j \in 2..5 : ~Pipe'[j].on
    BY <1>4, <2>2, RestStays
  <2>4. PICK p2 \in Pipes : p2 = Pipe'
    BY <1>2
  <2>5. PICK s2 : s2 = Sender'
    OBVIOUS
  <2>6. Heard(p2, s2)
    BY <2>2, <2>3, <2>4, <2>5, HeardBegins DEF Blank
  <2> QED BY <2>2, <2>4, <2>6, <2>5
<1> QED BY <1>1, <1>3, <1>4

(* A receiver that stays on: the transmitter sends. *)
LEMMA SentOn ==
  ASSUME NEW t \in Sendable, NEW noise, Clocked(t, noise), Active(t), rxen,
         NEW x, NEW y, Follows(x, Pipe, Sender, ready), x.r.nullSeen = rx.nullSeen, y = More(At1(x, Pipe), t)
  PROVE  Follows(y, Pipe', Sender', ready)
<1>1. /\ Pipe \in Pipes /\ Pipe' \in Pipes /\ Shifted(Pipe, Pipe') /\ Pipe'[5] = Onto(Out')
  BY PipeMoves DEF Clocked, Around
<1>2. Sends(Sender, t, Pipe'[5], Sender')
  BY <1>1 DEF Active
<1>3. Sender.bits = <<>> => MayBegin(At5(x, Pipe), Sender, t, ready)
  <2> SUFFICES ASSUME Sender.bits = <<>> PROVE MayBegin(At5(x, Pipe), Sender, t, ready)
    OBVIOUS
  <2>1. txbits = <<>>
    BY DEF Sender
  <2> QED BY <1>1, <2>1, BeginOk DEF Clocked, Carried
<1>4. PICK p \in Pipes, p2 \in Pipes : p = Pipe /\ p2 = Pipe'
  BY <1>1
<1>5. PICK s, s2, rdy : s = Sender /\ s2 = Sender' /\ rdy = ready
  OBVIOUS
<1>6. /\ Follows(x, p, s, rdy) /\ Shifted(p, p2) /\ y = More(At1(x, p), t)
      /\ Sends(s, t, p2[5], s2)
      /\ s.bits = <<>> => MayBegin(At5(x, p), s, t, rdy)
  BY <1>1, <1>2, <1>3, <1>4, <1>5
<1>7. Follows(y, p2, s2, rdy)
  BY <1>6, FollowsOn
<1> QED BY <1>4, <1>7, <1>5

(* The bit that arrives completes the next token on its way. *)
LEMMA FitsHere ==
  ASSUME XmitTypes, LineTypes, Carried, rxen, ~flipped
  PROVE  valid => Fits(Here)
<1>1. Along(Here, Pipe)
  <2>1. CASE phase = "off"
    BY <2>1 DEF Carried, EndsInv, Ends
  <2>2. CASE phase # "off"
    BY <2>2 DEF Carried, SendsInv, Follows
  <2> QED BY <2>1, <2>2
<1>2. Pipe[1].on = valid
  <2>1. Out \in LineState /\ line \in [1..4 -> LineState] /\ valid \in BOOLEAN
    BY DEF Out, LineState, XmitTypes, LineTypes
  <2>2. Pipe[1] = [on |-> valid, bit |-> line[4].data]
    BY <2>1, PipeIs DEF Pipe
  <2> QED BY <2>2
<1> QED BY <1>1, <1>2 DEF Along, Along4

(* It is not reported, and completes the next token on its way. *)
LEMMA ClearHere ==
  ASSUME XmitTypes, LineTypes, valid, NEW x, Follows(x, Pipe, Sender, ready)
  PROVE  Clear(x, line[4].data) /\ Fits(x)
<1>1. Out \in LineState /\ line \in [1..4 -> LineState] /\ valid \in BOOLEAN
  BY DEF Out, LineState, XmitTypes, LineTypes
<1>2. Pipe[1] = [on |-> valid, bit |-> line[4].data]
  BY <1>1, PipeIs DEF Pipe
<1>3. Pipe[1].on /\ Pipe[1].bit = line[4].data
  BY <1>2
<1> QED BY <1>3 DEF Follows, Unharmed, Unharmed4, Along, Along4

(* A receiver that stays on has reported nothing, and has had at most one
   wrong bit. *)
LEMMA NoiseOrNot ==
  ASSUME NEW t \in Sendable, NEW noise \in BOOLEAN, Clocked(t, noise), rxen, rxen'
  PROVE  /\ ready' = (phase' = "off" \/ ready) /\ ~recverr
         /\ ~flipped' => ~flipped /\ ~noise
         /\ flipped' => flipped \/ (noise /\ ~flipped /\ valid /\ rx.nullSeen)
         /\ noise => ~flipped
<1>1. ready' = (phase' = "off" \/ ready) /\ ~recverr
  BY EnableIs DEF Clocked, Around
<1>2. flipped' = (flipped \/ noise)
  BY RecordIs DEF Clocked, Around, LineTypes
<1>3. noise => ~flipped /\ valid /\ rx.nullSeen
  BY DEF Clocked, Around, Noise
<1> QED BY <1>1, <1>2, <1>3

(* When nothing is accepted no more tokens are on their way. *)
LEMMA FewOf ==
  ASSUME NEW t \in Sendable, NEW noise \in BOOLEAN, Clocked(t, noise), t = NoToken, Len(flight) <= 3
  PROVE  Len(flight') <= 3
<1>1. /\ flight \in Seq(Token)
      /\ ~rxen' => flight' = <<>>
      /\ rxen' => flight' = IF rx'.got # NoToken /\ flight \o Tok(t) # <<>>
                            THEN Tail(flight \o Tok(t)) ELSE flight \o Tok(t)
  BY RecordIs DEF Clocked, Around, LineTypes
<1>2. Tok(t) = <<>>
  BY DEF Tok
<1>3. flight \o Tok(t) = flight
  BY <1>1, <1>2
<1>4. flight # <<>> => Len(Tail(flight)) <= 3
  <2> SUFFICES ASSUME flight # <<>> PROVE Len(Tail(flight)) <= 3
    OBVIOUS
  <2>1. Len(Tail(flight)) = Len(flight) - 1
    BY <1>1, HeadTailProperties
  <2>2. Len(flight) \in Nat
    BY <1>1
  <2> QED BY <2>1, <2>2
<1>5. Len(<<>>) <= 3
  OBVIOUS
<1>6. flight' = <<>> \/ flight' = flight \/ (flight # <<>> /\ flight' = Tail(flight))
  BY <1>1, <1>3 DEF Clocked, LineTypes
<1> QED BY <1>4, <1>5, <1>6

(* The receiver stays off, or is switched off. *)
LEMMA KeptOff ==
  ASSUME NEW t \in Sendable, NEW noise \in BOOLEAN, Clocked(t, noise), ~rxen'
  PROVE  SendsInv' /\ EndsInv' /\ WrongInv' /\ ReceivedSoon'
<1>1. flight' = <<>>
  BY DEF Clocked, LineTypes
<1>2. Len(flight') <= 3
  BY <1>1
<1> QED BY <1>2 DEF SendsInv, EndsInv, WrongInv, ReceivedSoon

(* It is switched on. *)
LEMMA SwitchedOn ==
  ASSUME NEW t \in Sendable, NEW noise \in BOOLEAN, Clocked(t, noise), Active(t) \/ Stopped(t),
         ~rxen, rxen', HeardInv'
  PROVE  SendsInv' /\ EndsInv' /\ WrongInv' /\ ReceivedSoon'
<1>1. /\ Whole(rx') /\ ~rx'.nullSeen /\ ~rx'.bitSeen /\ rx'.got = NoToken
      /\ rx'.window = [i \in 1..9 |-> 1]
  BY ReceiveIs DEF Clocked, Around
<1>2. /\ flipped = FALSE /\ noise = FALSE /\ flight = <<>> /\ ready = FALSE
      /\ phase' = "null" \/ (phase' = "off" /\ atRest)
      /\ ready' = (phase' = "off" \/ ready)
  <2>1. flight = <<>> /\ ~flipped /\ ~ready
    BY DEF Clocked, LineTypes
  <2>2. ~noise
    BY DEF Clocked, Around, Noise
  <2>3. /\ phase' = "null" \/ (phase' = "off" /\ atRest)
        /\ ready' = (phase' = "off" \/ ready)
    BY EnableIs DEF Clocked, Around
  <2> QED BY <2>1, <2>2, <2>3 DEF Clocked, LineTypes
<1>3. ~flipped'
  BY <1>2, RecordIs DEF Clocked, Around, LineTypes
<1>4. flight' = Tok(t)
  <2>1. flight' = flight \o Tok(t)
    BY <1>1, RecordIs DEF Clocked, Around, LineTypes
  <2> QED BY <1>2, <2>1, TokIs
<1>5. /\ Pipe \in Pipes /\ Pipe' \in Pipes /\ Pipe'[5] = Onto(Out') /\ ~Pipe'[1].on
      /\ \A j \in 2..4 : Pipe'[j] = Pipe[j + 1]
  BY PipeMoves DEF Clocked, Around
<1>6. Here' \in Convoys /\ Here'.r = rx' /\ Here'.fl = flight'
  BY HereIs DEF Here, Convoys, Clocked, LineTypes, Whole
<1>7. CASE phase' = "null"
  <2>1. t = NoToken
    <3>1. CASE Stopped(t)
      BY <3>1 DEF Stopped
    <3>2. CASE Active(t)
      <4>1. phase = "null"
        BY <1>7, <3>2, PhaseIs DEF Clocked, Around, Active
      <4>2. ~allowFct /\ ~allowChar
        BY <4>1 DEF Clocked, Carried, HeardInv, XmitTypes
      <4> QED BY <3>2, <4>2 DEF Active
    <3> QED BY <3>1, <3>2
  <2>2. flight' = <<>>
    BY <1>4, <2>1, TokIs
  <2>3. Fresh(Here')
    BY <1>1, <1>6, <2>2 DEF Fresh
  <2>4. Heard(Pipe', Sender') /\ ready' = FALSE
    BY <1>2, <1>7 DEF HeardInv
  <2>5. PICK p2 \in Pipes : p2 = Pipe'
    BY <1>5
  <2>6. PICK y, s2, rdy : y = Here' /\ s2 = Sender' /\ rdy = ready'
    OBVIOUS
  <2>7. Follows(y, Deaf(1, p2), s2, FALSE)
    BY <2>3, <2>4, <2>5, <2>6, 1 \in 1..5 DEF Heard
  <2>8. Deaf(1, p2) = p2
    BY <1>5, <2>5, DeafIs, 1 \in 1..5
  <2>9. Follows(y, p2, s2, rdy)
    BY <2>4, <2>5, <2>7, <2>8, <2>6
  <2>10. Follows(Here', Pipe', Sender', ready')
    BY <2>5, <2>9, <2>6
  <2>11. Len(flight') <= 3
    BY <2>2
  <2> QED BY <1>3, <1>7, <2>10, <2>11 DEF SendsInv, EndsInv, WrongInv, ReceivedSoon
<1>8. CASE phase' = "off" /\ atRest
  <2>1. \A j \in 1..5 : ~Pipe[j].on
    BY <1>8, AtRestIs DEF Clocked
  <2>2. ~Pipe'[1].on /\ ~Pipe'[2].on /\ ~Pipe'[3].on /\ ~Pipe'[4].on
    <3>1. Pipe'[2] = Pipe[3] /\ Pipe'[3] = Pipe[4] /\ Pipe'[4] = Pipe[5]
      BY <1>5, 2 \in 2..4, 3 \in 2..4, 4 \in 2..4, 2 + 1 = 3, 3 + 1 = 4, 4 + 1 = 5
    <3> QED BY <1>5, <2>1, <3>1, 3 \in 1..5, 4 \in 1..5, 5 \in 1..5
  <2>3. flight' # <<>> => Pipe'[5].on
    <3> SUFFICES ASSUME flight' # <<>> PROVE Pipe'[5].on
      OBVIOUS
    <3>1. t # NoToken
      BY <1>4, TokIs
    <3>2. Sends(Sender, t, Onto(Out'), Sender')
      BY <3>1 DEF Active, Stopped
    <3> QED BY <1>5, <3>1, <3>2 DEF Sends
  <2>4. PICK y \in Convoys, p2 \in Pipes : y = Here' /\ p2 = Pipe'
    BY <1>5, <1>6
  <2>5. PICK k : k = (outData + outStrobe)'
    OBVIOUS
  <2>6. Ends(y, p2, k)
    BY <1>1, <1>6, <2>2, <2>3, <2>4, EndsBegins
  <2>7. Ends(Here', Pipe', (outData + outStrobe)')
    BY <2>4, <2>6, <2>5
  <2>8. Len(flight') <= 3
    <3>1. Len(Tok(t)) \in Nat /\ Len(Tok(t)) <= 1
      BY OneToken
    <3>2. ASSUME NEW n \in Nat, n <= 1 PROVE n <= 3
      BY <3>2
    <3>3. Len(Tok(t)) <= 3
      BY <3>1, <3>2
    <3> QED BY <1>4, <3>3
  <2> QED BY <1>3, <1>8, <2>7, <2>8 DEF SendsInv, EndsInv, WrongInv, ReceivedSoon
<1> QED BY <1>2, <1>7, <1>8

(* It stays on while the lines come to rest, or while they rest. *)
LEMMA EndsOn ==
  ASSUME NEW t \in Sendable, NEW noise \in BOOLEAN, Clocked(t, noise), rxen, rxen', ~flipped, ~noise,
         Stopped(t), NEW k \in 0..2, k = outData + outStrobe, Ends(Here, Pipe, k)
  PROVE  Ends(Here', Pipe', (outData + outStrobe)')
<1>1. Pipe \in Pipes /\ Pipe' \in Pipes /\ Shifted(Pipe, Pipe') /\ Pipe'[5] = Onto(Out')
  BY PipeMoves DEF Clocked, Around
<1>2. t = NoToken /\ Quiet
  BY DEF Stopped
<1>3. Here' = More(At1(Here, Pipe), NoToken)
  BY <1>2, FitsHere, HereStep DEF Clocked
<1>4. (outData + outStrobe)' \in 0..2
  <2>1. outData' \in {0, 1} /\ outStrobe' \in {0, 1}
    BY DEF Clocked, XmitTypes, Bit
  <2>2. \A a \in {0, 1}, c \in {0, 1} : a + c \in 0..2
    OBVIOUS
  <2> QED BY <2>1, <2>2
<1>5. (outData + outStrobe)' <= k /\ (Pipe'[5].on => (outData + outStrobe)' < k)
  BY <1>1, <1>2 DEF Quiet, Onto
<1>6. PICK p \in Pipes, p2 \in Pipes, k2 \in 0..2 : p = Pipe /\ p2 = Pipe' /\ k2 = (outData + outStrobe)'
  BY <1>1, <1>4
<1>7. PICK x, y : x = Here /\ y = Here'
  OBVIOUS
<1>8. Ends(y, p2, k2)
  BY <1>1, <1>3, <1>5, <1>6, <1>7, EndsStep
<1> QED BY <1>6, <1>8, <1>7

(* So nothing is harmed while the transmitter is off. *)
LEMMA KeptQuiet ==
  ASSUME NEW t \in Sendable, NEW noise \in BOOLEAN, Clocked(t, noise), rxen, rxen', Stopped(t), HeardInv'
  PROVE  SendsInv' /\ EndsInv' /\ WrongInv' /\ ReceivedSoon'
<1>1. /\ ready' = (phase' = "off" \/ ready) /\ ~recverr
      /\ ~flipped' => ~flipped /\ ~noise
      /\ flipped' => flipped \/ (noise /\ ~flipped /\ valid /\ rx.nullSeen)
  BY NoiseOrNot
<1>2. ~flipped' => Len(flight') <= 3
  BY <1>1, FewOf DEF Stopped, Clocked, Carried, ReceivedSoon
<1>3. Here \in Convoys /\ Here.r = rx /\ Here.fl = flight /\ Pipe \in Pipes
  BY HereIs, PipeMoves DEF Clocked, Around
<1>4. outData + outStrobe \in 0..2
  BY DEF Clocked, XmitTypes, Bit
<1>5. ~flipped => Ends(Here, Pipe, outData + outStrobe)
  <2>1. CASE phase = "off"
    BY <2>1 DEF Clocked, Carried, EndsInv
  <2>2. CASE phase # "off" /\ ~flipped
    <3>1. Follows(Here, Pipe, Sender, ready)
      BY <2>2 DEF Clocked, Carried, SendsInv
    <3>2. Sender.bits \in Seq(Bit)
      BY DEF Sender, Clocked, XmitTypes
    <3> QED BY <1>3, <3>1, <3>2, FollowsEnds
  <2> QED BY <2>1, <2>2
<1>6. CASE phase' = "off"
  <2>1. ~flipped' => Ends(Here', Pipe', (outData + outStrobe)')
    BY <1>1, <1>4, <1>5, EndsOn
  <2> QED BY <1>2, <1>6, <2>1 DEF SendsInv, EndsInv, WrongInv, ReceivedSoon
<1>7. CASE phase' # "off"
  <2>1. phase = "off" /\ Blank(Sender')
    BY <1>7 DEF Stopped
  <2>2. phase' = "null" /\ atRest /\ ~rx.bitSeen
    BY <1>7, <2>1, PhaseIs DEF Clocked, Around, LineTypes, Phase
  <2>3. Whole(rx) /\ ~rx.nullSeen /\ rx.window = [i \in 1..9 |-> 1]
    BY <2>2 DEF Clocked, LineTypes, Whole
  <2>4. ~flipped /\ ~noise
    <3>1. ~flipped
      BY <2>3 DEF Clocked, LineTypes
    <3>2. ~noise
      BY <2>3 DEF Clocked, Around, Noise
    <3> QED BY <3>1, <3>2
  <2>5. ~flipped'
    BY <1>1, <2>3, <2>4
  <2>6. flight = <<>>
    <3>1. (\A j \in 1..5 : ~Pipe[j].on) /\ ~valid
      BY <2>2, AtRestIs DEF Clocked
    <3>2. At5(Here, Pipe).fl = flight /\ At5(Here, Pipe).r.bitSeen = rx.bitSeen
      BY <1>3, <3>1, AllOff
    <3>3. At5(Here, Pipe).fl # <<>> => At5(Here, Pipe).r.bitSeen
      BY <1>5, <2>4 DEF Ends, Harmless
    <3> QED BY <2>2, <3>2, <3>3
  <2>7. rx' = Rest(rx)
    <3>1. ~valid
      BY <2>2, AtRestIs DEF Clocked
    <3> QED BY <3>1, ReceiveIs DEF Clocked, Around
  <2>8. /\ rx'.got = NoToken /\ rx'.nullSeen = rx.nullSeen /\ rx'.window = rx.window
    BY <2>3, <2>7, RestIs DEF Whole
  <2>9. flight' = <<>>
    <3>1. flight' = flight \o Tok(t)
      BY <2>8, RecordIs DEF Clocked, Around, LineTypes
    <3>2. Tok(t) = <<>>
      BY DEF Stopped, Tok
    <3> QED BY <2>6, <3>1, <3>2
  <2>10. Here' \in Convoys /\ Here'.r = rx' /\ Here'.fl = flight'
    BY HereIs DEF Here, Convoys, Clocked, LineTypes, Whole
  <2>11. Fresh(Here')
    BY <2>3, <2>8, <2>9, <2>10 DEF Fresh
  <2>12. \A j \in 1..5 : ~Pipe'[j].on
    <3>1. (\A j \in 2..5 : ~Pipe'[j].on) /\ ~Pipe'[1].on
      BY <2>2, RestStays DEF Stopped
    <3>2. \A j \in 1..5 : j = 1 \/ j \in 2..5
      OBVIOUS
    <3> QED BY <3>1, <3>2
  <2>13. Pipe' \in Pipes
    BY PipeMoves DEF Clocked, Around
  <2>14. PICK p2 \in Pipes : p2 = Pipe'
    BY <2>13
  <2>15. PICK y, s2, rdy : y = Here' /\ s2 = Sender' /\ rdy = ready'
    OBVIOUS
  <2>16. Follows(y, p2, s2, rdy)
    BY <2>1, <2>11, <2>12, <2>14, <2>15, FreshFollows
  <2>17. Follows(Here', Pipe', Sender', ready')
    BY <2>14, <2>16, <2>15
  <2> QED BY <1>2, <1>7, <2>5, <2>17 DEF SendsInv, EndsInv, WrongInv, ReceivedSoon
<1> QED BY <1>6, <1>7

(* A right bit. *)
LEMMA SentRight ==
  ASSUME NEW t \in Sendable, NEW noise \in BOOLEAN, Clocked(t, noise), rxen, rxen', Active(t), ~flipped, ~noise
  PROVE  Follows(Here', Pipe', Sender', ready)
<1>1. Follows(Here, Pipe, Sender, ready)
  BY DEF Clocked, Carried, SendsInv, Active
<1>2. Here' = More(At1(Here, Pipe), t)
  BY FitsHere, HereStep DEF Clocked
<1>3. Here.r.nullSeen = rx.nullSeen
  BY HereIs DEF Clocked
<1>4. PICK x, y : x = Here /\ y = Here'
  OBVIOUS
<1>5. Follows(y, Pipe', Sender', ready)
  BY <1>1, <1>2, <1>3, <1>4, SentOn
<1> QED BY <1>4, <1>5

(* The first wrong bit: either it is the parity bit, or the receivers differ from now on. *)
LEMMA SentWrong ==
  ASSUME NEW t \in Sendable, NEW noise \in BOOLEAN, Clocked(t, noise), rxen, rxen', Active(t), ~flipped, noise
  PROVE  rx'.errpar \/ \E v : Twin(rx', v) /\ Follows([r |-> v, fl |-> flight'], Pipe', Sender', ready)
<1>1. Follows(Here, Pipe, Sender, ready)
  BY DEF Clocked, Carried, SendsInv, Active
<1>2. Here \in Convoys /\ Here.r = rx /\ Here.fl = flight /\ Whole(rx)
  BY HereIs DEF Clocked, LineTypes
<1>3. valid /\ rx.nullSeen
  BY NoiseOrNot DEF Clocked, Around, Noise
<1> DEFINE b == line[4].data
<1>4. b \in Bit /\ rx' = Take(rx, Not(b))
  BY <1>3, ReceiveIs DEF Clocked, Around
<1>5. Clear(Here, b)
  BY <1>1, <1>3, ClearHere DEF Clocked
<1>6. CASE rx.left = 0
  <2>1. ~badParity(rx, b)
    BY <1>2, <1>5, <1>6 DEF Clear
  <2> HIDE DEF b
  <2>2. rx.parity \in Bit
    BY <1>2 DEF Whole, Receiver
  <2>3. badParity(rx, Not(b))
    BY <1>4, <2>1, <2>2 DEF badParity, Xor, Not, Bit
  <2>4. Not(b) \in Bit
    BY <1>4, BitOps DEF Bit
  <2> QED BY <1>2, <1>4, <1>6, <2>3, <2>4, TakeErrors
<1>7. CASE rx.left # 0
  <2> DEFINE v == Take(rx, b)
  <2>1. Twin(rx', v) /\ rx'.got = NoToken
    BY <1>2, <1>3, <1>4, <1>7, TwinBegins
  <2>2. v.got = NoToken
    BY <1>2, <1>4, <1>7, TakeErrors
  <2>3. flight' = flight \o Tok(t)
    BY <2>1, RecordIs DEF Clocked, Around, LineTypes
  <2>4. Pipe[1].on = TRUE /\ Pipe[1].bit = b
    <3>1. Pipe[1] = [on |-> valid, bit |-> line[4].data] /\ valid = TRUE
      BY <1>3, PipeMoves DEF Clocked, Around, LineTypes
    <3> QED BY <3>1
  <2> HIDE DEF b
  <2>5. At1(Here, Pipe) = Pass(Here, TRUE, b)
    BY <2>4 DEF At1
  <2>6. At1(Here, Pipe) = [r |-> v, fl |-> flight]
    BY <1>2, <2>2, <2>5 DEF Pass, Moved
  <2> HIDE DEF v
  <2>7. [r |-> v, fl |-> flight'] = More(At1(Here, Pipe), t)
    BY <2>3, <2>6 DEF More
  <2>8. PICK x, y : x = Here /\ y = [r |-> v, fl |-> flight']
    OBVIOUS
  <2>9. Follows(y, Pipe', Sender', ready)
    BY <1>1, <1>2, <2>7, <2>8, SentOn
  <2> QED BY <2>1, <2>8, <2>9
<1> QED BY <1>6, <1>7

(* And the bits after it. *)
Took(v) == IF valid THEN Take(v, line[4].data) ELSE Rest(v)

(* It follows the transmitter still, while the other reports or delivers
   nothing. *)
LEMMA WrongTakes ==
  ASSUME NEW t \in Sendable, NEW noise \in BOOLEAN, Clocked(t, noise), rxen, rxen', phase # "off", flipped
  PROVE  \E v : /\ v.nullSeen = rx.nullSeen
                /\ Follows([r |-> v, fl |-> flight], Pipe, Sender, ready)
                /\ rx'.got = NoToken
                /\ rx'.errpar \/ (Twin(rx', Took(v)) /\ Took(v).got = NoToken)
<1>1. ~recverr /\ ~noise
  BY NoiseOrNot
<1>2. ~rx.errpar
  BY <1>1 DEF recverr
<1>3. PICK v : Twin(rx, v) /\ Follows([r |-> v, fl |-> flight], Pipe, Sender, ready)
  BY <1>2 DEF Clocked, Carried, WrongInv
<1> DEFINE b == line[4].data
           x == [r |-> v, fl |-> flight]
           w == IF valid THEN Take(v, b) ELSE Rest(v)
<1>4. b \in Bit /\ rx' = (IF valid THEN Take(rx, b) ELSE Rest(rx)) /\ valid \in BOOLEAN
  BY <1>1, ReceiveIs DEF Clocked, Around, LineTypes
<1>5. Follows(x, Pipe, Sender, ready) /\ x.r = v /\ v.nullSeen = rx.nullSeen
  BY <1>3 DEF Twin
<1> HIDE DEF x
<1>6. rx'.got = NoToken /\ (rx'.errpar \/ (Twin(rx', w) /\ w.got = NoToken))
  <2>1. CASE valid
    <3>1. Clear(x, b)
      BY <1>5, <2>1, ClearHere DEF Clocked
    <3>2. v.left = 0 => ~badParity(v, b)
      BY <1>5, <3>1 DEF Clear
    <3> HIDE DEF b
    <3> QED BY <1>3, <1>4, <2>1, <3>2, TwinTakes
  <2>2. CASE ~valid
    BY <1>3, <1>4, <2>2, TwinRests
  <2> QED BY <2>1, <2>2
<1>7. w = Took(v)
  BY DEF Took
<1> HIDE DEF w
<1> QED BY <1>3, <1>5, <1>6, <1>7

(* Together they go on, *)
LEMMA SentOnWrong ==
  ASSUME NEW t \in Sendable, NEW noise \in BOOLEAN, Clocked(t, noise), rxen, rxen', Active(t), flipped
  PROVE  rx'.errpar \/ \E v : Twin(rx', v) /\ Follows([r |-> v, fl |-> flight'], Pipe', Sender', ready)
<1>1. PICK v : /\ v.nullSeen = rx.nullSeen
               /\ Follows([r |-> v, fl |-> flight], Pipe, Sender, ready)
               /\ rx'.got = NoToken
               /\ rx'.errpar \/ (Twin(rx', Took(v)) /\ Took(v).got = NoToken)
  BY WrongTakes DEF Active
<1> DEFINE x == [r |-> v, fl |-> flight]
           w == Took(v)
<1>2. Follows(x, Pipe, Sender, ready) /\ x.r = v /\ x.fl = flight /\ v.nullSeen = rx.nullSeen
  BY <1>1
<1> HIDE DEF x
<1>3. Pipe[1].on = valid /\ Pipe[1].bit = line[4].data
  <2>1. Pipe[1] = [on |-> valid, bit |-> line[4].data]
    BY PipeMoves DEF Clocked, Around
  <2> QED BY <2>1
<1>4. ASSUME ~rx'.errpar PROVE Twin(rx', w) /\ Follows([r |-> w, fl |-> flight'], Pipe', Sender', ready)
  <2>1. Twin(rx', w) /\ w.got = NoToken
    BY <1>1, <1>4
  <2>2. flight' = flight \o Tok(t)
    BY <1>1, RecordIs DEF Clocked, Around, LineTypes
  <2>3. At1(x, Pipe) = [r |-> w, fl |-> flight]
    <3>1. At1(x, Pipe) = Pass(x, valid, line[4].data)
      BY <1>3 DEF At1
    <3>2. CASE valid
      BY <1>2, <2>1, <3>1, <3>2 DEF Pass, Moved, Took
    <3>3. CASE ~valid
      BY <1>2, <3>1, <3>3 DEF Pass, Took
    <3> QED BY <3>2, <3>3
  <2> HIDE DEF w
  <2>4. [r |-> w, fl |-> flight'] = More(At1(x, Pipe), t)
    BY <2>2, <2>3 DEF More
  <2>5. PICK u, y : u = x /\ y = [r |-> w, fl |-> flight']
    OBVIOUS
  <2>6. Follows(y, Pipe', Sender', ready)
    BY <1>2, <2>4, <2>5, SentOn
  <2> QED BY <2>1, <2>5, <2>6
<1> HIDE DEF w
<1> QED BY <1>4

(* and with this the four invariants are kept while the transmitter sends, *)
LEMMA KeptActive ==
  ASSUME NEW t \in Sendable, NEW noise \in BOOLEAN, Clocked(t, noise), rxen, rxen', Active(t)
  PROVE  SendsInv' /\ EndsInv' /\ WrongInv' /\ ReceivedSoon'
<1>1. /\ ready' = (phase' = "off" \/ ready)
      /\ ~flipped' => ~flipped /\ ~noise
      /\ flipped' => flipped \/ (noise /\ ~flipped)
  BY NoiseOrNot
<1>2. Pipe' \in Pipes /\ Sender'.bits \in Seq(Bit) /\ Here'.fl = flight'
  BY PipeMoves DEF Clocked, Around, Sender, XmitTypes, Here
<1>3. CASE ~flipped'
  <2>1. Follows(Here', Pipe', Sender', ready)
    BY <1>1, <1>3, SentRight
  <2>2. PICK p2 \in Pipes : p2 = Pipe'
    BY <1>2
  <2>3. PICK x, s2, rdy, k : x = Here' /\ s2 = Sender' /\ rdy = ready /\ k = (outData + outStrobe)'
    OBVIOUS
  <2>4. Follows(x, p2, s2, rdy) /\ s2.bits \in Seq(Bit)
    BY <1>2, <2>1, <2>2, <2>3
  <2>5. Len(x.fl) <= 3
    BY <2>4, FollowsFew
  <2>6. Ends(x, p2, k)
    BY <2>4, FollowsEnds
  <2>7. ReceivedSoon'
    BY <1>2, <2>3, <2>5 DEF ReceivedSoon
  <2>8. EndsInv'
    BY <2>2, <2>3, <2>6 DEF EndsInv
  <2>9. SendsInv'
    <3> SUFFICES ASSUME phase' # "off" PROVE Follows(Here', Pipe', Sender', ready')
      BY DEF SendsInv
    <3>1. ready' = ready
      BY <1>1 DEF Clocked, LineTypes
    <3> QED BY <2>1, <3>1
  <2> QED BY <1>3, <2>7, <2>8, <2>9 DEF WrongInv
<1>4. CASE flipped'
  <2>1. rx'.errpar \/ \E v : Twin(rx', v) /\ Follows([r |-> v, fl |-> flight'], Pipe', Sender', ready)
    BY <1>1, <1>4, SentWrong, SentOnWrong
  <2>2. WrongInv'
    <3> SUFFICES ASSUME phase' # "off"
                 PROVE rx'.errpar \/ \E v : Twin(rx', v) /\ Follows([r |-> v, fl |-> flight'], Pipe', Sender', ready')
      BY DEF WrongInv
    <3>1. ready' = ready
      BY <1>1 DEF Clocked, LineTypes
    <3> QED BY <2>1, <3>1
  <2> QED BY <1>4, <2>2 DEF SendsInv, EndsInv, ReceivedSoon
<1> QED BY <1>3, <1>4

(* and in every clock. *)
LEMMA CarriedKept ==
  ASSUME NEW t \in Sendable, NEW noise \in BOOLEAN, Clocked(t, noise), Active(t) \/ Stopped(t)
  PROVE  Carried'
<1>1. HeardInv'
  BY HeardKept
<1>2. rxen \in BOOLEAN /\ rxen' \in BOOLEAN
  BY DEF Clocked, LineTypes
<1>3. CASE ~rxen'
  BY <1>1, <1>3, KeptOff DEF Carried
<1>4. CASE rxen' /\ ~rxen
  BY <1>1, <1>4, SwitchedOn DEF Carried
<1>5. CASE rxen' /\ rxen /\ Stopped(t)
  BY <1>1, <1>5, KeptQuiet DEF Carried
<1>6. CASE rxen' /\ rxen /\ Active(t)
  BY <1>1, <1>6, KeptActive DEF Carried
<1> QED BY <1>2, <1>3, <1>4, <1>5, <1>6

(* The inductive invariant. *)
LineInv == XmitTypes /\ LineTypes /\ Carried

(* A clock in reset is one in which the transmitter is stopped. *)
LEMMA ResetSteps ==
  ASSUME LineInv, NEW noise \in BOOLEAN, LineReset(noise)
  PROVE  /\ Clocked(NoToken, noise) /\ Stopped(NoToken) /\ NoToken \in Sendable
<1>1. XmitTypes /\ LineTypes /\ Carried /\ NoToken \in Sendable /\ Tok(NoToken) = <<>>
  BY DEF LineInv, Sendable, Tok
<1>2. XmitReset /\ phase' = "off"
  BY DEF LineReset
<1>3. Around(NoToken, noise)
  BY <1>1 DEF LineReset, Around
<1>4. XmitTypes'
  BY <1>2, ResetTypes
<1>5. LineTypes'
  BY <1>1, <1>3, AroundTypes
<1>6. Quiet
  <2>1. outData' = 0 /\ outStrobe' = 0
    BY <1>2 DEF XmitReset
  <2> QED BY <1>1, <2>1, Resting DEF Quiet, XmitTypes
<1> QED BY <1>1, <1>2, <1>3, <1>4, <1>5, <1>6 DEF Clocked, Stopped

(* Any other is one in which it sends or is stopped. *)
LEMMA ClockSteps ==
  ASSUME LineInv, NEW noise \in BOOLEAN, NEW in \in InPhase, LineClock(in, noise)
  PROVE  \E t \in Sendable : Clocked(t, noise) /\ (Active(t) \/ Stopped(t))
<1>1. XmitTypes /\ LineTypes /\ Carried /\ NoToken \in Sendable /\ Tok(NoToken) = <<>>
  BY DEF LineInv, Sendable, Tok
<1>2. XmitClock(in, divcnt) /\ divcnt \in Nat
  BY DivcntAssumption DEF LineClock, divcnt
<1>3. XmitTypes'
  BY <1>1, <1>2, ClockTypes
<1>4. ASSUME NEW t \in Sendable, Accepted(in) = Tok(t) PROVE Clocked(t, noise)
  <2>1. Around(t, noise)
    BY <1>4 DEF LineClock, Around
  <2>2. LineTypes'
    BY <1>1, <2>1, AroundTypes
  <2> QED BY <1>1, <1>3, <2>1, <2>2 DEF Clocked
<1>5. in.txen = (phase # "off") /\ in.stnull = (phase = "null") /\ in.txen \in BOOLEAN
  BY InputIs
<1>6. CASE phase = "off"
  <2>1. Accepted(in) = Tok(NoToken)
    BY <1>1, <1>5, <1>6, NextIs
  <2>2. XmitDisabled(in)
    BY <1>2, <1>5, <1>6 DEF XmitClock, XmitEnabled
  <2>3. \/ outData' = outData * outStrobe /\ outStrobe' = 0
        \/ outData' = outData /\ outStrobe' = outStrobe
        \/ outData' = 0 /\ outStrobe' = 0
    BY <2>2 DEF XmitDisabled, RestLines
  <2>4. Quiet
    BY <1>1, <2>3, Resting DEF Quiet, XmitTypes
  <2>5. Blank(Sender') /\ ~allowFct'
    BY <2>2 DEF XmitDisabled, Forget, Blank, Sender
  <2>6. Stopped(NoToken)
    BY <1>6, <2>4, <2>5 DEF Stopped
  <2> QED BY <1>1, <1>4, <2>1, <2>6
<1>7. CASE phase # "off"
  <2>1. XmitEnabled(in) /\ in.txen
    BY <1>2, <1>5, <1>7 DEF XmitClock, XmitDisabled
  <2>2. PICK t \in Sendable :
          /\ Accepted(in) = Tok(t)
          /\ Sends(Sender, t, Onto(Out'), Sender')
          /\ t = NoToken \/ (t = Fct /\ allowFct) \/ allowChar
    BY <1>1, <2>1, Sending
  <2>3. phase = "null" => ~allowFct'
    BY <1>5, <2>1 DEF XmitEnabled, fctAllowed
  <2>4. Active(t)
    BY <1>7, <2>2, <2>3 DEF Active
  <2> QED BY <1>4, <2>2, <2>4
<1> QED BY <1>6, <1>7

(* Every step of the line is one of these. *)
LEMMA StepIs ==
  ASSUME LineInv, LineNext
  PROVE  \E t \in Sendable, noise \in BOOLEAN : Clocked(t, noise) /\ (Active(t) \/ Stopped(t))
<1>1. PICK noise \in BOOLEAN : LineReset(noise) \/ \E in \in InPhase : LineClock(in, noise)
  BY DEF LineNext
<1>2. CASE LineReset(noise)
  BY <1>2, ResetSteps
<1>3. CASE \E in \in InPhase : LineClock(in, noise)
  BY <1>3, ClockSteps
<1> QED BY <1>1, <1>2, <1>3

(* The invariant holds at first, *)
LEMMA LineInvInit == LineInit => LineInv
<1> SUFFICES ASSUME LineInit PROVE LineInv
  OBVIOUS
<1>1. XmitTypes
  <2>1. <<>> \in Seq(Bit) /\ 0 \in Bit /\ [i \in 1..WordBits |-> 0] \in Word
    BY DEF Bit, Word
  <2> QED BY <2>1 DEF LineInit, XmitInit, XmitTypes
<1>2. LineTypes
  <2>1. Silent \in Receiver
    BY WordIsShort DEF Silent, Receiver, Bit
  <2>2. Whole(rx)
    BY <2>1 DEF LineInit, RecvInit, Silent, Whole
  <2>3. line \in [1..4 -> LineState]
    BY DEF LineInit, LineState, Bit
  <2>4. phase = "off" /\ rxen = FALSE /\ ready = FALSE /\ valid = FALSE /\ flight = <<>>
        /\ flipped = FALSE /\ silent = 0 /\ disccnt = 0
    BY DEF LineInit, RecvInit
  <2>5. <<>> \in Seq(Token) /\ 0 \in 0..DisconnectTime /\ 0 \in Nat
    BY DisconnectAssumption
  <2> QED BY <2>2, <2>3, <2>4, <2>5 DEF LineTypes, Phase
<1>3. Carried
  <2>1. phase = "off" /\ rxen = FALSE /\ flight = <<>>
    BY DEF LineInit
  <2>2. Len(flight) <= 3
    BY <2>1
  <2> QED BY <2>1, <2>2 DEF Carried, HeardInv, SendsInv, EndsInv, WrongInv, ReceivedSoon
<1> QED BY <1>1, <1>2, <1>3 DEF LineInv

(* and every step keeps it. *)
LEMMA LineInvStep == LineInv /\ [LineNext]_lineVars => LineInv'
<1>1. ASSUME LineInv, LineNext PROVE LineInv'
  <2>1. PICK t \in Sendable, noise \in BOOLEAN : Clocked(t, noise) /\ (Active(t) \/ Stopped(t))
    BY <1>1, StepIs
  <2>2. Carried'
    BY <2>1, CarriedKept
  <2> QED BY <2>1, <2>2 DEF LineInv, Clocked
<1>2. ASSUME LineInv, UNCHANGED lineVars PROVE LineInv'
  <2>1. /\ txclken' = txclken /\ txclkcnt' = txclkcnt /\ txbits' = txbits /\ txparity' = txparity
        /\ outData' = outData /\ outStrobe' = outStrobe /\ pendTick' = pendTick /\ pendTime' = pendTime
        /\ allowFct' = allowFct /\ allowChar' = allowChar /\ sentNull' = sentNull /\ sentFct' = sentFct
        /\ rx' = rx /\ disccnt' = disccnt /\ phase' = phase /\ rxen' = rxen /\ ready' = ready
        /\ line' = line /\ valid' = valid /\ flight' = flight /\ flipped' = flipped /\ silent' = silent
    BY <1>2 DEF lineVars, xmitVars, recvVars, envVars
  <2>2. XmitTypes'
    BY <1>2, <2>1 DEF LineInv, XmitTypes
  <2>3. LineTypes'
    BY <1>2, <2>1 DEF LineInv, LineTypes
  <2>4. Pipe' = Pipe /\ Here' = Here /\ Sender' = Sender
    BY <2>1 DEF Pipe, Out, Here, Sender
  <2>5. Carried'
    BY <1>2, <2>1, <2>4 DEF LineInv, Carried, HeardInv, SendsInv, EndsInv, WrongInv, ReceivedSoon
  <2> QED BY <2>2, <2>3, <2>5 DEF LineInv
<1> QED BY <1>1, <1>2

(***************************************************************************)
(* The invariant holds in every state: the bits and tokens on their way,   *)
(* pushed through a copy of the receiver, keep it in step with the         *)
(* transmitter, whatever the phases and the enables of the two ends are.   *)
(***************************************************************************)
THEOREM LineInvariant == LineSpec => []LineInv
BY LineInvInit, LineInvStep, PTL DEF LineSpec

(***************************************************************************)
(* A token is delivered before the third one after it is accepted: no more *)
(* than three are on their way, for every width of a word and every pair   *)
(* of rates.                                                               *)
(***************************************************************************)
THEOREM TokensSoon == LineSpec => []ReceivedSoon
BY LineInvariant, PTL DEF LineInv, Carried

(* What is delivered is the head of the flight. *)
LEMMA DeliveredIsHead ==
  ASSUME LineInv, LineNext, Delivered, flipped => phase # "off"
  PROVE  flight # <<>> /\ rx'.got = Head(flight)
<1>1. PICK t \in Sendable, noise \in BOOLEAN : Clocked(t, noise) /\ (Active(t) \/ Stopped(t))
  BY StepIs
<1>2. rxen' /\ rx'.got # NoToken
  BY DEF Delivered
<1>3. rxen
  <2>1. ~rxen => rx'.got = NoToken
    BY <1>1, ReceiveIs DEF Clocked, Around
  <2> QED BY <1>2, <2>1
<1>4. CASE ~flipped
  <2>1. valid => Fits(Here)
    BY <1>1, <1>3, <1>4, FitsHere DEF Clocked
  <2> QED BY <1>1, <1>2, <1>3, <2>1, HereStep DEF Clocked
<1>5. CASE flipped
  <2>1. \E v : rx'.got = NoToken
    BY <1>1, <1>2, <1>3, <1>5, WrongTakes
  <2> QED BY <1>2, <2>1
<1> QED BY <1>4, <1>5

(***************************************************************************)
(* Tokens are received as they were sent, for every width and set of words *)
(* and every pair of rates, with at most one wrong bit in a connection.    *)
(***************************************************************************)
THEOREM TokensAsSent == LineSpec => ReceivedAsSent
<1>1. LineInv /\ [LineNext]_lineVars =>
        [Delivered /\ (flipped => phase # "off") => flight # <<>> /\ rx'.got = Head(flight)]_lineVars
  BY DeliveredIsHead
<1> QED BY <1>1, LineInvariant, PTL DEF LineSpec, ReceivedAsSent

(***************************************************************************)
(* Data and Strobe never change in the same clock, for every pair of       *)
(* rates, except in the transmitter's reset.                               *)
(***************************************************************************)
THEOREM LinesOneByOne == LineSpec => OneLineChanges
<1>1. LineInv /\ [LineNext]_lineVars => [outData' # outData /\ outStrobe' # outStrobe => XmitReset]_lineVars
  <2> SUFFICES ASSUME LineInv, LineNext, outData' # outData, outStrobe' # outStrobe PROVE XmitReset
    OBVIOUS
  <2>1. PICK noise \in BOOLEAN : LineReset(noise) \/ \E in \in InPhase : LineClock(in, noise)
    BY DEF LineNext
  <2>2. CASE LineReset(noise)
    BY <2>2 DEF LineReset
  <2>3. ASSUME NEW in \in InPhase, LineClock(in, noise) PROVE FALSE
    <3>1. XmitTypes /\ (XmitEnabled(in) \/ XmitDisabled(in))
      BY <2>3 DEF LineInv, LineClock, XmitClock
    <3>2. CASE XmitDisabled(in)
      <4>1. \/ outData' = outData * outStrobe /\ outStrobe' = 0
            \/ outData' = outData
        BY <3>2 DEF XmitDisabled, RestLines
      <4> QED BY <3>1, <4>1 DEF XmitTypes, Bit
    <3>3. CASE XmitEnabled(in)
      <4>1. strobe \/ outData' = outData
        BY <3>3 DEF XmitEnabled, SendBit
      <4>2. outData' \in Bit /\ outStrobe' \in Bit
        BY <2>3, <3>1, ClockTypes, DivcntAssumption DEF LineClock, divcnt, XmitTypes
      <4>3. strobe => Changed(Out', Out)
        BY <3>1, <4>2, StrobeIs DEF XmitTypes
      <4>4. outData' = Not(outData) /\ outStrobe' = Not(outStrobe)
        BY <3>1, <4>2 DEF XmitTypes, Bit, Not
      <4>5. ~Changed(Out', Out)
        BY <3>1, <4>4 DEF Changed, Out, Xor, Not, XmitTypes, Bit
      <4> QED BY <4>1, <4>3, <4>5
    <3> QED BY <3>1, <3>2, <3>3
  <2> QED BY <2>1, <2>2, <2>3
<1> QED BY <1>1, LineInvariant, PTL DEF LineSpec, OneLineChanges

(***************************************************************************)
(* When the bits arrive: the places of the stages are the clocks until     *)
(* they do.                                                                *)
(***************************************************************************)
NextSent == IF txclken THEN 6 ELSE txclkcnt + 7
Arrive   == {i \in 1..5 : Pipe[i].on} \cup {NextSent}

(* A bit is followed by the next one, and the receiver knows of one. *)
GapsInv  == phase # "off" => \A i \in 1..5 : Pipe[i].on => \E j \in Arrive : i < j /\ j <= i + DisconnectTime
DueInv   == phase # "off" /\ rxen /\ rx.bitSeen => \E j \in Arrive : 1 <= j /\ j <= disccnt
Timed    == txclkcnt <= Slowest /\ GapsInv /\ DueInv

(* The divider and the lines in a clock, and in a reset. *)
Counted ==
  /\ txclken' = (txclkcnt = 0)
  /\ txclkcnt' = (IF txclkcnt = 0 THEN divcnt ELSE txclkcnt - 1)
  /\ phase # "off" => (Changed(Out', Out) <=> txclken)
  /\ phase = "off" => IF txclken THEN RestLines ELSE outData' = outData /\ outStrobe' = outStrobe
Cleared ==
  /\ txclken' = FALSE /\ txclkcnt' = 0 /\ phase' = "off"
  /\ outData' = 0 /\ outStrobe' = 0

(* A clock of the line is such a clock. *)
LEMMA CountedIs ==
  ASSUME LineInv, NEW noise \in BOOLEAN, NEW in \in InPhase, LineClock(in, noise)
  PROVE  Counted
<1>1. XmitTypes /\ XmitClock(in, divcnt) /\ in.txen = (phase # "off")
  BY InputIs DEF LineInv, LineClock
<1>2. RunDivider(divcnt)
  BY <1>1 DEF XmitClock
<1>3. CASE phase = "off"
  <2>1. XmitDisabled(in)
    BY <1>1, <1>3 DEF XmitClock, XmitEnabled
  <2>2. IF txclken THEN RestLines ELSE outData' = outData /\ outStrobe' = outStrobe
    BY <2>1 DEF XmitDisabled
  <2> QED BY <1>2, <1>3, <2>2 DEF Counted, RunDivider
<1>4. CASE phase # "off"
  <2>1. XmitEnabled(in)
    BY <1>1, <1>4 DEF XmitClock, XmitDisabled
  <2>2. XmitTypes'
    BY <1>1, ClockTypes, DivcntAssumption DEF divcnt
  <2>3. CASE txclken
    <3>1. strobe
      BY <2>1, <2>3 DEF XmitEnabled, SendBit
    <3>2. Changed(Out', Out)
      BY <1>1, <2>2, <3>1, StrobeIs DEF XmitTypes
    <3> QED BY <1>2, <1>4, <2>3, <3>2 DEF Counted, RunDivider
  <2>4. CASE ~txclken
    <3>1. outData' = outData /\ outStrobe' = outStrobe
      BY <2>1, <2>4 DEF XmitEnabled, SendBit
    <3>2. ~Changed(Out', Out)
      BY <3>1 DEF Changed, Out
    <3> QED BY <1>2, <1>4, <2>4, <3>2 DEF Counted, RunDivider
  <2> QED BY <2>3, <2>4
<1> QED BY <1>3, <1>4

(* A step with its timing. *)
LEMMA TimeIs ==
  ASSUME LineInv, LineNext
  PROVE  \E t \in Sendable, noise \in BOOLEAN : Clocked(t, noise) /\ (Counted \/ Cleared)
<1>1. PICK noise \in BOOLEAN : LineReset(noise) \/ \E in \in InPhase : LineClock(in, noise)
  BY DEF LineNext
<1>2. CASE LineReset(noise)
  <2>1. Cleared
    BY <1>2 DEF LineReset, XmitReset, Cleared
  <2> QED BY <1>2, <2>1, ResetSteps
<1>3. ASSUME NEW in \in InPhase, LineClock(in, noise)
      PROVE \E t \in Sendable : Clocked(t, noise) /\ Counted
  BY <1>3, ClockSteps, CountedIs
<1> QED BY <1>1, <1>2, <1>3

(* The stages after a clock, and what the receiver counts. *)
LEMMA StagesMove ==
  ASSUME NEW t \in Sendable, NEW noise \in BOOLEAN, Clocked(t, noise)
  PROVE  /\ \A i \in 1..4 : Pipe'[i].on => Pipe[i + 1].on
         /\ \A i \in 2..5 : Pipe[i].on => Pipe'[i - 1].on \/ (i = 2 /\ ~rxen)
         /\ Pipe'[5].on = Changed(Out', Out) /\ Pipe[1].on = valid
         /\ \A i \in 1..5 : Pipe[i].on \in BOOLEAN /\ Pipe'[i].on \in BOOLEAN
<1>1. XmitTypes /\ XmitTypes' /\ LineTypes /\ LineTypes' /\ FrontClock
  BY DEF Clocked, Around
<1>2. /\ Pipe \in Pipes /\ Pipe' \in Pipes
      /\ \A j \in 2..4 : Pipe'[j] = Pipe[j + 1]
      /\ rxen => Shifted(Pipe, Pipe')
      /\ ~rxen => ~Pipe'[1].on
      /\ Pipe'[5] = Onto(Out') /\ Pipe[1] = [on |-> valid, bit |-> line[4].data]
  BY <1>1, PipeMoves
<1>3. rxen => Pipe'[1] = Pipe[2]
  BY <1>2 DEF Shifted
<1>4. ASSUME NEW i \in 1..4, Pipe'[i].on PROVE Pipe[i + 1].on
  <2>1. i = 1 \/ i \in 2..4
    OBVIOUS
  <2> QED BY <1>1, <1>2, <1>3, <1>4, <2>1 DEF LineTypes
<1>5. ASSUME NEW i \in 2..5, Pipe[i].on PROVE Pipe'[i - 1].on \/ (i = 2 /\ ~rxen)
  <2>1. CASE i = 2
    BY <1>3, <1>5, <2>1
  <2>2. CASE i # 2
    <3>1. i - 1 \in 2..4 /\ (i - 1) + 1 = i
      BY <2>2
    <3>2. Pipe'[i - 1] = Pipe[(i - 1) + 1]
      BY <1>2, <3>1
    <3> QED BY <1>5, <3>1, <3>2
  <2> QED BY <2>1, <2>2
<1>6. Pipe'[5].on = Changed(Out', Out) /\ Pipe[1].on = valid
  BY <1>2 DEF Onto
<1>7. \A i \in 1..5 : Pipe[i].on \in BOOLEAN /\ Pipe'[i].on \in BOOLEAN
  BY <1>2 DEF Pipes
<1> QED BY <1>4, <1>5, <1>6, <1>7

(* The count of silence restarts with a bit and falls without one. *)
LEMMA CountsDown ==
  ASSUME NEW t \in Sendable, NEW noise \in BOOLEAN, Clocked(t, noise)
  PROVE  /\ disccnt \in 0..DisconnectTime /\ disccnt' \in 0..DisconnectTime /\ DisconnectTime \in Nat
         /\ rxen /\ valid => disccnt' = DisconnectTime
         /\ rxen /\ ~valid => /\ disccnt' = IF disccnt > 0 THEN disccnt - 1 ELSE 0
                              /\ rx'.bitSeen = rx.bitSeen
         /\ ~rxen => ~rx'.bitSeen /\ disccnt' = 0
<1>1. LineTypes /\ Receive(noise)
  BY DEF Clocked, Around
<1>2. disccnt \in 0..DisconnectTime /\ rx \in Receiver
  BY <1>1 DEF LineTypes, Whole
<1>3. /\ disccnt' \in 0..DisconnectTime
      /\ rxen => /\ rx' = IF valid THEN Take(rx, IF noise THEN Not(line[4].data) ELSE line[4].data) ELSE Rest(rx)
                 /\ disccnt' = IF valid THEN DisconnectTime ELSE IF disccnt > 0 THEN disccnt - 1 ELSE 0
      /\ ~rxen => ~rx'.bitSeen /\ disccnt' = 0
  BY <1>1, ReceiveIs
<1>4. Rest(rx).bitSeen = rx.bitSeen
  BY <1>2, RestIs
<1> QED BY <1>2, <1>3, <1>4, DisconnectAssumption

(* The divider counts no further than the slower rate. *)
LEMMA Rates ==
  /\ Slowest \in Nat /\ StartDivcnt <= Slowest /\ RunDivcnt <= Slowest
  /\ divcnt \in Nat /\ divcnt <= Slowest /\ (phase # "run" => divcnt = StartDivcnt)
BY DivcntAssumption DEF Slowest, divcnt

(* Within a connection: every arrival is a clock nearer. *)
LEMMA GapsKept ==
  ASSUME NEW t \in Sendable, NEW noise \in BOOLEAN, Clocked(t, noise), Counted, Timed, RatesSuffice, phase # "off"
  PROVE  GapsInv' /\ (rxen /\ rxen' => DueInv')
<1>1. /\ txclkcnt \in Nat /\ txclken \in BOOLEAN
      /\ txclkcnt' \in Nat /\ txclken' \in BOOLEAN
  BY DEF Clocked, XmitTypes
<1>2. /\ \A i \in 1..4 : Pipe'[i].on => Pipe[i + 1].on
      /\ \A i \in 2..5 : Pipe[i].on => Pipe'[i - 1].on \/ (i = 2 /\ ~rxen)
      /\ Pipe'[5].on = Changed(Out', Out) /\ Pipe[1].on = valid
      /\ \A i \in 1..5 : Pipe[i].on \in BOOLEAN /\ Pipe'[i].on \in BOOLEAN
  BY StagesMove
<1>3. /\ disccnt \in 0..DisconnectTime /\ disccnt' \in 0..DisconnectTime /\ DisconnectTime \in Nat
      /\ rxen /\ valid => disccnt' = DisconnectTime
      /\ rxen /\ ~valid => /\ disccnt' = IF disccnt > 0 THEN disccnt - 1 ELSE 0
                           /\ rx'.bitSeen = rx.bitSeen
  BY CountsDown
<1>4. Pipe'[5].on <=> txclken
  BY <1>2 DEF Counted
<1>5. /\ NextSent \in Nat /\ NextSent >= 6 /\ NextSent' \in Nat
      /\ NextSent' = txclkcnt + 6
      /\ txclken => NextSent = 6
      /\ ~txclken => NextSent = txclkcnt + 7
  <2>1. /\ txclken => NextSent = 6
        /\ ~txclken => NextSent = txclkcnt + 7
    BY DEF NextSent
  <2>2. CASE txclkcnt = 0
    <3>1. txclken'
      BY <1>1, <2>2 DEF Counted
    <3>2. NextSent' = 6
      BY <3>1 DEF NextSent
    <3> QED BY <1>1, <2>1, <2>2, <3>2
  <2>3. CASE txclkcnt # 0
    <3>1. ~txclken' /\ txclkcnt' = txclkcnt - 1
      BY <1>1, <2>3 DEF Counted
    <3>2. NextSent' = txclkcnt' + 7
      BY <3>1 DEF NextSent
    <3> QED BY <1>1, <2>1, <3>1, <3>2
  <2> QED BY <2>2, <2>3
<1>6. ~txclken => NextSent' = NextSent - 1
  BY <1>1, <1>5
<1>7. txclken => NextSent = 6 /\ NextSent' = txclkcnt + 6
  BY <1>5
<1>8. txclkcnt < DisconnectTime
  BY <1>1, <1>3, Rates, DivcntAssumption DEF Timed, RatesSuffice, Slowest
<1>9. ASSUME NEW j \in Arrive, j > 1, j # 2 \/ rxen PROVE j - 1 \in Arrive'
  <2>1. CASE j = NextSent
    <3>1. CASE txclken
      BY <1>4, <1>7, <2>1, <3>1 DEF Arrive
    <3>2. CASE ~txclken
      BY <1>6, <2>1, <3>2 DEF Arrive
    <3> QED BY <3>1, <3>2
  <2>2. CASE j \in 1..5 /\ Pipe[j].on
    <3>1. j \in 2..5 /\ j - 1 \in 1..5
      BY <1>9, <2>2
    <3>2. Pipe'[j - 1].on
      BY <1>2, <1>9, <2>2, <3>1
    <3> QED BY <3>1, <3>2 DEF Arrive
  <2> QED BY <2>1, <2>2 DEF Arrive
<1>10. Arrive \subseteq Nat
  BY <1>5 DEF Arrive
<1>11. GapsInv'
  <2> SUFFICES ASSUME NEW i \in 1..5, Pipe'[i].on
               PROVE  \E j \in Arrive' : i < j /\ j <= i + DisconnectTime
    BY DEF GapsInv
  <2>1. CASE i = 5
    <3>1. txclken
      BY <1>4, <2>1
    <3>2. NextSent' \in Arrive' /\ 5 < NextSent' /\ NextSent' <= 5 + DisconnectTime
      BY <1>1, <1>3, <1>7, <1>8, <3>1 DEF Arrive
    <3> QED BY <2>1, <3>2
  <2>2. CASE i # 5
    <3>1. i \in 1..4 /\ i + 1 \in 1..5 /\ Pipe[i + 1].on
      BY <1>2, <2>2
    <3>2. PICK j \in Arrive : i + 1 < j /\ j <= (i + 1) + DisconnectTime
      BY <3>1 DEF Timed, GapsInv
    <3>3. j \in Nat /\ j > 2
      BY <1>10, <3>1, <3>2
    <3>4. j - 1 \in Arrive'
      BY <1>9, <3>3
    <3>5. i < j - 1 /\ j - 1 <= i + DisconnectTime
      BY <1>3, <3>2, <3>3
    <3> QED BY <3>4, <3>5
  <2> QED BY <2>1, <2>2
<1>12. ASSUME rxen, rxen' PROVE DueInv'
  <2> SUFFICES ASSUME rx'.bitSeen PROVE \E j \in Arrive' : 1 <= j /\ j <= disccnt'
    BY DEF DueInv
  <2>1. CASE valid
    <3>1. PICK j \in Arrive : 1 < j /\ j <= 1 + DisconnectTime
      <4>1. Pipe[1].on /\ 1 \in 1..5
        BY <1>2, <2>1
      <4> QED BY <4>1 DEF Timed, GapsInv
    <3>2. j \in Nat /\ j - 1 \in Arrive'
      BY <1>9, <1>10, <1>12, <3>1
    <3>3. 1 <= j - 1 /\ j - 1 <= disccnt'
      BY <1>3, <1>12, <2>1, <3>1, <3>2
    <3> QED BY <3>2, <3>3
  <2>2. CASE ~valid
    <3>1. rx.bitSeen
      BY <1>3, <1>12, <2>2
    <3>2. PICK j \in Arrive : 1 <= j /\ j <= disccnt
      BY <1>12, <3>1 DEF Timed, DueInv
    <3>3. j \in Nat /\ j # 1
      BY <1>2, <1>5, <1>10, <2>2 DEF Arrive
    <3>4. j - 1 \in Arrive'
      BY <1>9, <1>12, <3>2, <3>3
    <3>5. 1 <= j - 1 /\ j - 1 <= disccnt'
      BY <1>3, <1>12, <2>2, <3>2, <3>3
    <3> QED BY <3>4, <3>5
  <2> QED BY <1>2, <2>1, <2>2
<1> QED BY <1>11, <1>12

(* Nothing is on its way at first. *)
LEMMA TimedInit == LineInit => Timed
<1> SUFFICES ASSUME LineInit PROVE Timed
  OBVIOUS
<1>1. phase = "off" /\ txclkcnt = 0
  BY DEF LineInit, XmitInit
<1> QED BY <1>1, Rates DEF Timed, GapsInv, DueInv

(* The arrivals stay close together, and one is due before the count runs
   out. *)
LEMMA TimedStep ==
  ASSUME RatesSuffice, LineInv, Timed, [LineNext]_lineVars
  PROVE  Timed'
<1>1. CASE LineNext
  <2>1. PICK t \in Sendable, noise \in BOOLEAN : Clocked(t, noise) /\ (Counted \/ Cleared)
    BY <1>1, TimeIs
  <2>2. XmitTypes /\ XmitTypes' /\ LineTypes /\ LineTypes' /\ EnableStep /\ (PhaseStep \/ phase' = "off")
    BY <2>1 DEF Clocked, Around
  <2>3. txclkcnt' <= Slowest
    <3>1. txclkcnt \in Nat /\ txclkcnt <= Slowest
      BY <2>2 DEF XmitTypes, Timed
    <3> QED BY <2>1, <3>1, Rates DEF Counted, Cleared
  <2>4. rxen' /\ ~rxen => ~rx'.bitSeen
    BY <2>1, CountsDown
  <2>5. CASE phase' = "off"
    BY <2>3, <2>5 DEF Timed, GapsInv, DueInv
  <2>6. CASE phase' # "off" /\ phase # "off"
    <3>1. Counted
      BY <2>1, <2>6 DEF Cleared
    <3>2. GapsInv' /\ (rxen /\ rxen' => DueInv')
      BY <1>1, <2>1, <2>6, <3>1, GapsKept
    <3>3. rxen \in BOOLEAN /\ rxen' \in BOOLEAN
      BY <2>2 DEF LineTypes
    <3> QED BY <2>3, <2>4, <3>2, <3>3 DEF Timed, DueInv
  <2>7. CASE phase' # "off" /\ phase = "off"
    <3>1. phase' = "null" /\ atRest /\ ~rx.bitSeen
      BY <2>2, <2>7, PhaseIs DEF Phase, LineTypes
    <3>2. Counted
      BY <2>1, <2>7 DEF Cleared
    <3>3. IF txclken THEN RestLines ELSE outData' = outData /\ outStrobe' = outStrobe
      BY <2>7, <3>2 DEF Counted
    <3>4. outData' = 0 /\ outStrobe' = 0
      BY <3>1, <3>3 DEF atRest, RestLines
    <3>5. ~Changed(Out', Out) /\ ~valid
      BY <3>1, <3>4 DEF Changed, Out, atRest
    <3>6. \A i \in 1..5 : ~Pipe[i].on
      BY <2>2, <3>1, AtRestIs
    <3>7. ASSUME NEW i \in 1..5 PROVE ~Pipe'[i].on
      <4>1. /\ \A k \in 1..4 : Pipe'[k].on => Pipe[k + 1].on
            /\ Pipe'[5].on = Changed(Out', Out)
        BY <2>1, StagesMove
      <4>2. i = 5 \/ (i \in 1..4 /\ i + 1 \in 1..5)
        OBVIOUS
      <4> QED BY <3>5, <3>6, <4>1, <4>2
    <3>8. ~rx'.bitSeen
      <4>1. rxen \in BOOLEAN
        BY <2>2 DEF LineTypes
      <4> QED BY <2>1, <3>1, <3>5, <4>1, CountsDown
    <3> QED BY <2>3, <3>7, <3>8 DEF Timed, GapsInv, DueInv
  <2> QED BY <2>5, <2>6, <2>7
<1>2. CASE UNCHANGED lineVars
  <2>1. /\ phase' = phase /\ rxen' = rxen /\ rx' = rx /\ disccnt' = disccnt /\ txclkcnt' = txclkcnt
        /\ txclken' = txclken /\ line' = line /\ valid' = valid /\ outData' = outData /\ outStrobe' = outStrobe
    BY <1>2 DEF lineVars, xmitVars, recvVars, envVars
  <2>2. Pipe' = Pipe /\ NextSent' = NextSent
    BY <2>1 DEF Pipe, Out, NextSent
  <2>3. Arrive' = Arrive
    BY <2>2 DEF Arrive
  <2>4. Slowest' = Slowest
    BY DEF Slowest
  <2> QED BY <2>1, <2>2, <2>3, <2>4 DEF Timed, GapsInv, DueInv
<1> QED BY <1>1, <1>2

(* So no disconnection is seen, and a receiver that follows has reported no
   error. *)
LEMMA NoAlarmNow ==
  ASSUME LineInv, Timed
  PROVE  NoFalseAlarm
<1> SUFFICES ASSUME phase # "off", rxen, ~flipped PROVE ~recverr
  BY DEF NoFalseAlarm
<1>1. XmitTypes /\ LineTypes /\ Carried
  BY DEF LineInv
<1>2. Follows(Here, Pipe, Sender, ready)
  BY <1>1 DEF Carried, SendsInv
<1>3. Here \in Convoys /\ Here.r = rx
  BY <1>1, HereIs
<1>4. Out \in LineState /\ line \in [1..4 -> LineState] /\ valid \in BOOLEAN /\ disccnt \in 0..DisconnectTime
  BY <1>1 DEF Out, LineState, XmitTypes, LineTypes
<1>5. Pipe \in Pipes
  BY <1>4, PipeIs DEF Pipe
<1>6. Keeps(rx, At5(Here, Pipe).r)
  BY <1>2, <1>3, <1>5, AlongIs DEF Follows, Along
<1>7. ~At5(Here, Pipe).r.errpar /\ ~At5(Here, Pipe).r.erresc
  BY <1>2 DEF Follows, InStep
<1>8. ~rx.errpar /\ ~rx.erresc
  BY <1>6, <1>7 DEF Keeps
<1>9. ~errdisc
  <2> SUFFICES ASSUME rx.bitSeen PROVE disccnt # 0
    BY DEF errdisc
  <2>1. PICK j \in Arrive : 1 <= j /\ j <= disccnt
    BY DEF Timed, DueInv
  <2>2. j \in Nat
    BY <1>1 DEF Arrive, NextSent, XmitTypes
  <2> QED BY <1>4, <2>1, <2>2, DisconnectAssumption
<1> QED BY <1>8, <1>9 DEF recverr

(***************************************************************************)
(* A receiver reports no disconnection, parity or escape error on an       *)
(* undisturbed line while the other side sends, provided a bit takes no    *)
(* longer than the disconnect time at either rate.                         *)
(***************************************************************************)
THEOREM NoAlarms == ASSUME RatesSuffice PROVE LineSpec => []NoFalseAlarm
<1>1. LineInit => Timed
  BY TimedInit
<1>2. LineInv /\ Timed /\ [LineNext]_lineVars => Timed'
  BY TimedStep
<1>3. LineInv /\ Timed => NoFalseAlarm
  BY NoAlarmNow
<1> QED BY <1>1, <1>2, <1>3, LineInvariant, PTL DEF LineSpec

(***************************************************************************)
(* The transmitter has stopped: its lines change at most twice more, once  *)
(* now or when the divider says, and once a bit time after that.           *)
(***************************************************************************)
Lines    == outData + outStrobe
(* The place of the last change. *)
NextLast == IF txclken THEN txclkcnt + 7 ELSE txclkcnt + StartDivcnt + 8

(* In n clocks from now the receiver will have noticed. *)
Within(n) ==
  /\ Lines > 0 => NextSent + DisconnectTime <= n
  /\ Lines > 1 => NextLast + DisconnectTime <= n
  /\ \A i \in 1..5 : Pipe[i].on => i + DisconnectTime <= n
  /\ disccnt <= n

(* A line is up only when the divider runs. *)
RunsInv    == Lines > 0 /\ ~txclken => txclkcnt < Slowest
CountedInv == silent > 0 => phase = "off" /\ unnoticed
WithinInv  == phase = "off" /\ rxen => silent <= LongestSilence + 1 /\ Within(LongestSilence + 1 - silent)
Noticed    == txclkcnt <= Slowest /\ RunsInv /\ CountedInv /\ WithinInv

(* The lines and the divider after a clock with the transmitter off. *)
LEMMA LinesFall ==
  ASSUME NEW t \in Sendable, NEW noise \in BOOLEAN, Clocked(t, noise), Counted \/ Cleared, phase = "off"
  PROVE  /\ Lines \in 0..2 /\ Lines' \in 0..2 /\ Lines' <= Lines
         /\ Changed(Out', Out) => /\ Lines > 0 /\ Lines' < Lines
                                  /\ Counted => txclken
         /\ Counted /\ txclken /\ Lines > 0 => Lines' < Lines
         /\ Cleared => Lines' = 0
<1>1. /\ outData \in {0, 1} /\ outStrobe \in {0, 1} /\ outData' \in {0, 1} /\ outStrobe' \in {0, 1}
      /\ txclken \in BOOLEAN
  BY DEF Clocked, XmitTypes, Bit
<1>2. Changed(Out', Out) <=> (outData' + outStrobe') % 2 # (outData + outStrobe) % 2
  BY DEF Changed, Out, Xor
<1>3. CASE ~Counted
  <2>1. outData' = 0 /\ outStrobe' = 0
    BY <1>3 DEF Cleared
  <2> QED BY <1>1, <1>2, <1>3, <2>1 DEF Lines
<1>4. CASE Counted
  <2>1. CASE txclken
    <3>1. outData' = outData * outStrobe /\ outStrobe' = 0
      BY <1>4, <2>1 DEF Counted, RestLines
    <3> QED BY <1>1, <1>2, <2>1, <3>1 DEF Lines, Cleared
  <2>2. CASE ~txclken
    <3>1. outData' = outData /\ outStrobe' = outStrobe
      BY <1>4, <2>2 DEF Counted
    <3> QED BY <1>1, <1>2, <2>2, <3>1 DEF Lines, Cleared
  <2> QED BY <1>1, <2>1, <2>2
<1> QED BY <1>3, <1>4

(* How these places move. *)
LEMMA NextSentIs ==
  ASSUME NEW t \in Sendable, NEW noise \in BOOLEAN, Clocked(t, noise), Counted
  PROVE  /\ txclkcnt \in Nat /\ txclken \in BOOLEAN /\ txclkcnt' \in Nat /\ txclken' \in BOOLEAN
         /\ NextSent \in Nat /\ NextSent >= 6 /\ NextSent' = txclkcnt + 6
         /\ txclken => NextSent = 6 /\ NextLast = txclkcnt + 7
         /\ ~txclken => NextSent = txclkcnt + 7 /\ NextLast = txclkcnt + StartDivcnt + 8
         /\ phase # "run" /\ ~txclken => NextLast' = NextLast - 1
         /\ ~txclken' => txclkcnt' = txclkcnt - 1
<1>1. /\ txclkcnt \in Nat /\ txclken \in BOOLEAN
      /\ txclkcnt' \in Nat /\ txclken' \in BOOLEAN
  BY DEF Clocked, XmitTypes
<1>2. /\ txclken => NextSent = 6 /\ NextLast = txclkcnt + 7
      /\ ~txclken => NextSent = txclkcnt + 7 /\ NextLast = txclkcnt + StartDivcnt + 8
  BY DEF NextSent, NextLast
<1>3. /\ divcnt \in Nat /\ (phase # "run" => divcnt = StartDivcnt) /\ StartDivcnt \in Nat
  BY Rates, DivcntAssumption
<1>4. CASE txclkcnt = 0
  <2>1. txclken' /\ txclkcnt' = divcnt
    BY <1>1, <1>4 DEF Counted
  <2>2. NextSent' = 6 /\ NextLast' = txclkcnt' + 7
    BY <2>1 DEF NextSent, NextLast
  <2> QED BY <1>1, <1>2, <1>3, <1>4, <2>1, <2>2
<1>5. CASE txclkcnt # 0
  <2>1. ~txclken' /\ txclkcnt' = txclkcnt - 1
    BY <1>1, <1>5 DEF Counted
  <2>2. NextSent' = txclkcnt' + 7 /\ NextLast' = txclkcnt' + StartDivcnt + 8
    BY <2>1 DEF NextSent, NextLast
  <2> QED BY <1>1, <1>2, <1>3, <1>5, <2>1, <2>2
<1> QED BY <1>4, <1>5

(* A clock less, as long as nothing is received any more. *)
LEMMA WithinLess ==
  ASSUME NEW t \in Sendable, NEW noise \in BOOLEAN, Clocked(t, noise), Counted \/ Cleared,
         phase = "off", rxen, NEW n \in Nat, n > 0, Within(n)
  PROVE  Within(n - 1)'
<1>1. /\ Lines \in 0..2 /\ Lines' \in 0..2 /\ Lines' <= Lines
      /\ Changed(Out', Out) => /\ Lines > 0 /\ Lines' < Lines
                               /\ Counted => txclken
      /\ Counted /\ txclken /\ Lines > 0 => Lines' < Lines
      /\ Cleared => Lines' = 0
  BY LinesFall
<1>2. /\ \A i \in 1..4 : Pipe'[i].on => Pipe[i + 1].on
      /\ Pipe'[5].on = Changed(Out', Out) /\ Pipe[1].on = valid
  BY StagesMove
<1>3. /\ disccnt \in 0..DisconnectTime /\ disccnt' \in 0..DisconnectTime /\ DisconnectTime \in Nat
      /\ valid => disccnt' = DisconnectTime
      /\ ~valid => disccnt' = IF disccnt > 0 THEN disccnt - 1 ELSE 0
  BY CountsDown
<1>4. XmitTypes /\ NextSent \in Nat /\ NextSent >= 6
  <2>1. XmitTypes
    BY DEF Clocked
  <2> QED BY <2>1 DEF XmitTypes, NextSent
<1>5. \A i \in 1..5 : Pipe'[i].on => i + DisconnectTime <= n - 1
  <2> SUFFICES ASSUME NEW i \in 1..5, Pipe'[i].on PROVE i + DisconnectTime <= n - 1
    OBVIOUS
  <2>1. CASE i = 5
    <3>1. NextSent + DisconnectTime <= n
      BY <1>1, <1>2, <2>1 DEF Within
    <3> QED BY <1>3, <1>4, <2>1, <3>1
  <2>2. CASE i # 5
    <3>1. i \in 1..4 /\ i + 1 \in 1..5 /\ Pipe[i + 1].on
      BY <1>2, <2>2
    <3>2. (i + 1) + DisconnectTime <= n
      BY <3>1 DEF Within
    <3> QED BY <1>3, <3>1, <3>2
  <2> QED BY <2>1, <2>2
<1>6. disccnt' <= n - 1
  <2>1. CASE valid
    <3>1. Pipe[1].on /\ 1 \in 1..5
      BY <1>2, <2>1
    <3>2. 1 + DisconnectTime <= n
      BY <3>1 DEF Within
    <3> QED BY <1>3, <2>1, <3>2
  <2>2. CASE ~valid
    BY <1>3, <2>2 DEF Within
  <2> QED BY <2>1, <2>2
<1>7. /\ Lines' > 0 => NextSent' + DisconnectTime <= n - 1
      /\ Lines' > 1 => NextLast' + DisconnectTime <= n - 1
  <2>1. CASE Cleared
    BY <1>1, <2>1
  <2>2. CASE Counted
    <3>1. /\ txclkcnt \in Nat /\ txclken \in BOOLEAN /\ NextSent' = txclkcnt + 6
          /\ txclken => NextLast = txclkcnt + 7
          /\ ~txclken => NextSent = txclkcnt + 7 /\ NextLast = txclkcnt + StartDivcnt + 8
          /\ ~txclken => NextLast' = NextLast - 1
      <4>1. phase # "run"
        OBVIOUS
      <4> QED BY <2>2, <4>1, NextSentIs
    <3>2. /\ Lines > 0 => NextSent + DisconnectTime <= n
          /\ Lines > 1 => NextLast + DisconnectTime <= n
      BY DEF Within
    <3>3. CASE txclken
      BY <1>1, <1>3, <2>2, <3>1, <3>2, <3>3
    <3>4. CASE ~txclken
      BY <1>1, <1>3, <3>1, <3>2, <3>4, DivcntAssumption
    <3> QED BY <3>1, <3>3, <3>4
  <2> QED BY <2>1, <2>2
<1>8. (n - 1)' = n - 1
  OBVIOUS
<1> QED BY <1>5, <1>6, <1>7 DEF Within

(* The moment of the stop, and a receiver that is switched on later. *)
LEMMA WithinAtAll ==
  XmitTypes /\ LineTypes /\ txclkcnt <= Slowest /\ RunsInv => Within(LongestSilence + 1)
<1> SUFFICES ASSUME XmitTypes, LineTypes, txclkcnt <= Slowest, RunsInv
             PROVE  Within(LongestSilence + 1)
  OBVIOUS
<1>1. /\ outData \in {0, 1} /\ outStrobe \in {0, 1} /\ txclken \in BOOLEAN /\ txclkcnt \in Nat
      /\ disccnt \in 0..DisconnectTime
  BY DEF XmitTypes, LineTypes, Bit
<1>2. Slowest \in Nat /\ StartDivcnt \in Nat /\ DisconnectTime \in Nat
  BY Rates, DivcntAssumption, DisconnectAssumption
<1>3. LongestSilence + 1 = DisconnectTime + Slowest + StartDivcnt + 7
  BY <1>2 DEF LongestSilence
<1>4. Lines > 0 => NextSent + DisconnectTime <= LongestSilence + 1
  BY <1>1, <1>2, <1>3 DEF NextSent, RunsInv
<1>5. Lines > 0 => NextLast + DisconnectTime <= LongestSilence + 1
  BY <1>1, <1>2, <1>3 DEF NextLast, RunsInv
<1>6. Lines > 1 => Lines > 0
  BY <1>1 DEF Lines
<1> QED BY <1>1, <1>2, <1>3, <1>4, <1>5, <1>6 DEF Within

(* The same after a step. *)
LEMMA WithinAfter ==
  (XmitTypes /\ LineTypes /\ txclkcnt <= Slowest /\ RunsInv)' => Within(LongestSilence + 1)'
BY WithinAtAll, PTL

(* Nothing has stopped at first. *)
LEMMA NoticedInit == LineInit => Noticed
<1> SUFFICES ASSUME LineInit PROVE Noticed
  OBVIOUS
<1>1. txclkcnt = 0 /\ outData = 0 /\ outStrobe = 0 /\ silent = 0 /\ rxen = FALSE
  BY DEF LineInit, XmitInit
<1> QED BY <1>1, Rates DEF Noticed, RunsInv, CountedInv, WithinInv, Lines

(* From the stop on the time that is left falls with every clock of silence. *)
LEMMA NoticedStep ==
  ASSUME LineInv, Noticed, [LineNext]_lineVars
  PROVE  Noticed'
<1>1. CASE LineNext
  <2>1. PICK t \in Sendable, noise \in BOOLEAN : Clocked(t, noise) /\ (Counted \/ Cleared)
    BY <1>1, TimeIs
  <2>2. XmitTypes /\ XmitTypes' /\ LineTypes /\ LineTypes' /\ EnableStep /\ (PhaseStep \/ phase' = "off")
        /\ Record(Tok(t), noise)
    BY <2>1 DEF Clocked, Around
  <2>3. /\ txclkcnt \in Nat /\ txclken \in BOOLEAN /\ txclkcnt' \in Nat /\ txclken' \in BOOLEAN
        /\ outData \in {0, 1} /\ outStrobe \in {0, 1} /\ outData' \in {0, 1} /\ outStrobe' \in {0, 1}
    BY <2>2 DEF XmitTypes, Bit
  <2>4. txclkcnt' <= Slowest
    BY <2>1, <2>3, Rates DEF Noticed, Counted, Cleared
  <2>5. RunsInv'
    <3>1. CASE Cleared
      BY <3>1, Rates DEF RunsInv, Cleared, Lines
    <3>2. CASE Counted
      <4> SUFFICES ASSUME Lines' > 0, ~txclken' PROVE txclkcnt' < Slowest
        BY DEF RunsInv
      <4>1. txclkcnt' = txclkcnt - 1
        BY <2>1, <3>2, NextSentIs
      <4> QED BY <2>3, <4>1, Rates DEF Noticed
    <3> QED BY <2>1, <3>1, <3>2
  <2>6. /\ silent' = IF phase = "off" /\ unnoticed' THEN silent + 1 ELSE 0
        /\ silent \in Nat /\ silent' \in Nat
    <3>1. rxen' \in BOOLEAN
      BY <2>2 DEF LineTypes
    <3> QED BY <2>2, <3>1, RecordIs DEF LineTypes
  <2>7. CountedInv'
    <3> SUFFICES ASSUME silent' > 0 PROVE phase' = "off" /\ unnoticed'
      BY DEF CountedInv
    <3>1. phase = "off" /\ unnoticed'
      BY <2>6
    <3>2. rxen' /\ rx'.bitSeen
      BY <3>1 DEF unnoticed
    <3>3. phase' # "off" => atRest /\ ~rx.bitSeen
      BY <2>2, <3>1, PhaseIs DEF Phase, LineTypes
    <3>4. atRest => ~valid
      BY DEF atRest
    <3>5. rxen \in BOOLEAN
      BY <2>2 DEF LineTypes
    <3> QED BY <2>1, <3>1, <3>2, <3>3, <3>4, <3>5, CountsDown
  <2>8. WithinInv'
    <3> SUFFICES ASSUME phase' = "off", rxen'
                 PROVE  silent' <= LongestSilence + 1 /\ Within(LongestSilence + 1 - silent)'
      <4>1. LongestSilence' = LongestSilence
        BY DEF LongestSilence, Slowest
      <4> QED BY <4>1 DEF WithinInv
    <3> PICK m : m = LongestSilence + 1 - silent'
      OBVIOUS
    <3>1. LongestSilence' = LongestSilence /\ Slowest' = Slowest
      BY DEF LongestSilence, Slowest
    <3> SUFFICES silent' <= LongestSilence + 1 /\ Within(m)'
      <4>1. (LongestSilence + 1 - silent)' = m
        BY <3>1
      <4> QED BY <4>1 DEF Within
    <3>2. /\ LongestSilence \in Nat /\ LongestSilence + 1 \in Nat
          /\ Within(LongestSilence + 1)'
      <4>1. LongestSilence \in Nat /\ LongestSilence + 1 \in Nat
        BY Rates, DivcntAssumption, DisconnectAssumption DEF LongestSilence
      <4>2. (XmitTypes /\ LineTypes /\ txclkcnt <= Slowest /\ RunsInv)'
        BY <2>2, <2>4, <2>5, <3>1
      <4>3. Within(LongestSilence + 1)'
        BY <4>2, WithinAfter
      <4> QED BY <4>1, <4>3
    <3>3. CASE silent' = 0
      <4>1. m = LongestSilence + 1
        BY <3>2, <3>3
      <4>2. (LongestSilence + 1)' = m
        BY <3>1, <4>1
      <4>3. Within(m)'
        BY <3>2, <4>1, <4>2 DEF Within
      <4> QED BY <3>2, <3>3, <4>3
    <3>4. CASE silent' # 0
      <4>1. phase = "off" /\ unnoticed' /\ silent' = silent + 1
        BY <2>6, <3>4
      <4>2. rx'.bitSeen /\ disccnt' # 0
        BY <4>1 DEF unnoticed, recverr, errdisc
      <4>3. rxen
        <5>1. rxen \in BOOLEAN
          BY <2>2 DEF LineTypes
        <5> QED BY <2>1, <4>2, <5>1, CountsDown
      <4>4. PICK n : n = LongestSilence + 1 - silent
        OBVIOUS
      <4>5. silent <= LongestSilence + 1 /\ Within(LongestSilence + 1 - silent)
        BY <4>1, <4>3 DEF Noticed, WithinInv
      <4>6. n \in Nat /\ Within(n)
        BY <2>6, <3>2, <4>4, <4>5
      <4>7. n > 0
        <5> SUFFICES ASSUME n = 0 PROVE FALSE
          BY <4>6
        <5>1. /\ disccnt \in 0..DisconnectTime /\ DisconnectTime \in Nat
              /\ ~valid => disccnt' = IF disccnt > 0 THEN disccnt - 1 ELSE 0
          BY <2>1, <4>3, CountsDown
        <5>2. disccnt <= 0 /\ (Pipe[1].on => 1 + DisconnectTime <= 0)
          BY <4>6 DEF Within
        <5>3. ~valid
          BY <2>1, <5>1, <5>2, StagesMove
        <5> QED BY <4>2, <5>1, <5>2, <5>3
      <4>8. Within(n - 1)'
        BY <2>1, <4>1, <4>3, <4>6, <4>7, WithinLess
      <4>9. n - 1 = m /\ silent' <= LongestSilence + 1
        BY <2>6, <3>2, <4>1, <4>4, <4>6, <4>7
      <4> QED BY <4>8, <4>9 DEF Within
    <3> QED BY <3>3, <3>4
  <2> QED BY <2>4, <2>5, <2>7, <2>8 DEF Noticed, Slowest
<1>2. CASE UNCHANGED lineVars
  <2>1. /\ phase' = phase /\ rxen' = rxen /\ rx' = rx /\ disccnt' = disccnt /\ txclkcnt' = txclkcnt
        /\ txclken' = txclken /\ line' = line /\ valid' = valid /\ outData' = outData /\ outStrobe' = outStrobe
        /\ silent' = silent
    BY <1>2 DEF lineVars, xmitVars, recvVars, envVars
  <2>2. Pipe' = Pipe /\ NextSent' = NextSent /\ NextLast' = NextLast /\ Lines' = Lines
    BY <2>1 DEF Pipe, Out, NextSent, NextLast, Lines
  <2>3. Slowest' = Slowest /\ LongestSilence' = LongestSilence
    BY DEF Slowest, LongestSilence
  <2>4. unnoticed' = unnoticed
    BY <2>1 DEF unnoticed, recverr, errdisc
  <2> QED BY <2>1, <2>2, <2>3, <2>4 DEF Noticed, RunsInv, CountedInv, WithinInv, Within
<1> QED BY <1>1, <1>2

(* When none is left the receiver has reported it. *)
LEMMA NoticedNow ==
  ASSUME LineInv, Noticed
  PROVE  SilenceNoticed
<1>1. silent \in Nat /\ disccnt \in 0..DisconnectTime /\ LongestSilence \in Nat
  BY Rates, DivcntAssumption, DisconnectAssumption DEF LineInv, LineTypes, LongestSilence
<1>2. CASE silent = 0
  BY <1>1, <1>2 DEF SilenceNoticed
<1>3. CASE silent # 0
  <2>1. phase = "off" /\ rxen /\ rx.bitSeen /\ ~errdisc
    BY <1>1, <1>3 DEF Noticed, CountedInv, unnoticed, recverr
  <2>2. disccnt > 0
    BY <1>1, <2>1, DisconnectAssumption DEF errdisc
  <2>3. disccnt <= LongestSilence + 1 - silent
    BY <2>1 DEF Noticed, WithinInv, Within
  <2> QED BY <1>1, <2>2, <2>3, DisconnectAssumption DEF SilenceNoticed
<1> QED BY <1>2, <1>3

(***************************************************************************)
(* A transmitter that stops, or is reset, anywhere in a token is noticed:  *)
(* by an error within the disconnect time, two bit times and four clocks,  *)
(* for every pair of rates.                                                *)
(***************************************************************************)
THEOREM StopsAreNoticed == LineSpec => []SilenceNoticed
<1>1. LineInit => Noticed
  BY NoticedInit
<1>2. LineInv /\ Noticed /\ [LineNext]_lineVars => Noticed'
  BY NoticedStep
<1>3. LineInv /\ Noticed => SilenceNoticed
  BY NoticedNow
<1> QED BY <1>1, <1>2, <1>3, LineInvariant, PTL DEF LineSpec
=============================================================================
