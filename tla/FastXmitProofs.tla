--------------------------- MODULE FastXmitProofs ---------------------------
(***************************************************************************)
(* Every code that the fast transmitter sends has its reason, for every    *)
(* set of codes, length of a code, way of dividing the transmit clock and  *)
(* rest of a disabled transmitter of at least three system clocks.         *)
(*                                                                         *)
(* SentAsAccepted is not inductive: it speaks of the code at the end of    *)
(* the pipeline and of what was accepted at its other end.  The invariant  *)
(* follows what was accepted along the way: it waits for a slot, lies in a *)
(* slot, or is in stage B with one or two codes to be sent.  Which side a  *)
(* slot belongs to is told by its two flags, and the flops on the way      *)
(* between them never tell either side more than is true.  A connection    *)
(* passes from Working through Resting (or Resetting) to Starting and to   *)
(* Working again, and what is left of the old one has to be gone by then.  *)
(***************************************************************************)
EXTENDS FastXmit, Integers, SequenceTheorems, TLAPS

(***************************************************************************)
(* Tokens and where they are.                                              *)
(***************************************************************************)
TokenRecords == [tick : BOOLEAN, fct : BOOLEAN, piggy : BOOLEAN, char : Data \cup Ends \cup Times \cup {None}]

(* A token that a slot was filled with. *)
Proper(tok) ==
  /\ tok \in TokenRecords
  /\ tok.tick \/ tok.fct \/ tok.char # None
  /\ tok.tick => ~tok.fct /\ ~tok.piggy /\ tok.char \in Times
  /\ ~tok.tick => tok.char \in Data \cup Ends \cup {None} /\ (tok.piggy <=> tok.fct /\ tok.char # None)

(* What a token carries of one kind, as a queue of no or one code. *)
Kinds == {"char", "time"}
Of(kind, tok) == IF tok.char # None /\ (tok.tick <=> kind = "time") THEN <<tok.char>> ELSE <<>>

(* The code of stage C is still to be sent; the first of two codes has been sent. *)
pending == e_count <= 2 /\ ~c_update
half == ~b_update /\ c_busy # pending

startsWithEsc == b_token.tick \/ ~b_valid

(* What stage B has taken and not sent, what the slots hold in the order in *)
(* which they are taken, and whether an FCT of stage B is still to be sent. *)
Unsent(kind) == IF b_update THEN <<>> ELSE Of(kind, b_token)
InSlots(kind) == Of(kind, slot[b_mux]) \o Of(kind, slot[1 - b_mux])
FctUnsent == b_token.fct /\ ~b_update /\ ~(b_token.piggy /\ half)
One(yes) == IF yes THEN 1 ELSE 0

(***************************************************************************)
(* The transmitter at work.                                                *)
(***************************************************************************)
filled(i) == sysflip[i] # txflip[i]

(* A flag that has been flipped is seen later, and then stays. *)
FlagsOK ==
  \A i \in Sides :
    IF filled(i)
    THEN /\ synctx_sysflip[i][2] = sysflip[i] => synctx_sysflip[i][1] = sysflip[i]
         /\ syncsys_txflip[i] = <<txflip[i], txflip[i]>>
    ELSE /\ synctx_sysflip[i] = <<sysflip[i], sysflip[i]>>
         /\ allow_fct /\ syncsys_txflip[i][2] = txflip[i] => syncsys_txflip[i][1] = txflip[i]

(* A slot that is filled holds a proper token, and they fill in turn. *)
SlotsOK ==
  /\ \A i \in Sides : IF filled(i) THEN Proper(slot[i]) ELSE slot[i] = Empty
  /\ IF tokmux = b_mux THEN filled(0) <=> filled(1) ELSE filled(b_mux) /\ ~filled(tokmux)

(* Before an FCT is allowed, nothing has been asked for and nothing filled. *)
NotYet ==
  /\ allow_char => allow_fct /\ sent_fct
  /\ phase = "null" => ~allow_fct
  /\ ~allow_fct =>
       /\ ~pend_fct /\ pend_char = None /\ ~sent_fct
       /\ \A i \in Sides : ~sysflip[i] /\ ~txflip[i]

(* What a disabled transmitter is left with: the first NULL is prepared. *)
TxClear ==
  /\ txflip = [i \in Sides |-> FALSE] /\ b_mux = 0
  /\ ~b_update /\ ~b_valid /\ b_token = Empty
  /\ ~c_update /\ c_busy /\ c_esc /\ c_fct
  /\ d_code = "ESC" /\ e_count = 0

(* The enable signal passes the flops, and finds everything clear. *)
Enabling ==
  /\ enabled => synctx_txen[1]
  /\ synctx_txen[1] => txenreg
  /\ ~enabled => TxClear
  /\ enabled /\ (e_count <= 1 \/ b_update) => b_txflip = txflip[b_mux]

(* Stages B to E: a token in stage B is of one code or of two, c_busy says *)
(* which of them comes next, and stage D holds it when it is due.          *)
PipeOK ==
  /\ b_update => e_count >= 3 /\ ~c_busy /\ ~c_update
  /\ c_update => e_count = 2
  /\ IF b_valid THEN Proper(b_token) ELSE b_token = Empty
  /\ c_busy => /\ startsWithEsc \/ b_token.piggy
               /\ c_esc <=> startsWithEsc
               /\ ~c_esc => c_fct
  /\ ~c_busy => ~c_esc
  /\ ~c_busy /\ pending => /\ c_fct <=> (~b_valid \/ (b_token.fct /\ ~b_token.piggy))
                           /\ c_char = b_token.char
  /\ e_count = 0 => d_code = IF c_esc THEN "ESC" ELSE IF c_fct THEN "FCT" ELSE c_char

(* What was accepted and not sent is in stage B, in the slots, or waits for *)
(* one, in this order.                                                     *)
DueOK ==
  /\ dueChars = Unsent("char") \o InSlots("char") \o (IF pend_char = None THEN <<>> ELSE <<pend_char>>)
  /\ dueTimes = Unsent("time") \o InSlots("time")
  /\ dueFcts = One(FctUnsent) + One(slot[b_mux].fct) + One(slot[1 - b_mux].fct) + One(pend_fct)
  /\ escaped <=> startsWithEsc /\ half

(* An FCT is sent before the first N-Char and the first Time-Code. *)
FctAhead(n) ==
  fctSent \/ FctUnsent \/ (n >= 1 /\ slot[b_mux].fct) \/ (n >= 2 /\ slot[1 - b_mux].fct)

(* So an FCT is sent, or is ahead, wherever one of these is. *)
FctFirst ==
  /\ ~b_update /\ b_token.char # None => FctAhead(0)
  /\ slot[b_mux].char # None => FctAhead(1)
  /\ slot[1 - b_mux].char # None => FctAhead(2)
  /\ sent_fct => FctAhead(2)

(* The transmitter works from the enabling of its clocks until a system clock *)
(* finds the link off.                                                        *)
Working ==
  /\ ~coreRst
  /\ phase = "off" => rested = 1
  /\ FlagsOK /\ SlotsOK /\ NotYet /\ Enabling /\ PipeOK /\ DueOK /\ FctFirst

(***************************************************************************)
(* The way from one connection to the next.                                *)
(***************************************************************************)
(* The registers of the system clock are clear. *)
SysClear ==
  /\ \A i \in Sides : ~sysflip[i] /\ slot[i] = Empty
  /\ tokmux = 0
  /\ ~pend_fct /\ pend_char = None /\ ~allow_fct /\ ~allow_char /\ ~sent_fct
  /\ ~txenreg

NothingDue == dueChars = <<>> /\ dueTimes = <<>> /\ dueFcts = 0

AllDown == synctx_txen = Down /\ \A i \in Sides : synctx_sysflip[i] = Down

(* What was flipped back passes the flops, one in a clock. *)
Falling(ff) ==
  /\ rested < 2 => ff = Down
  /\ rested = 2 /\ last = "other" => ~ff[1]
  /\ rested > 2 => ~ff[1] /\ (last = "other" => ~ff[2])

Resetting == coreRst /\ AllDown

(* The link is off: the flops fall, one after another, and then stay down. *)
Resting ==
  /\ ~coreRst /\ phase = "off"
  /\ SysClear /\ NothingDue
  /\ Falling(synctx_txen) /\ \A i \in Sides : Falling(synctx_sysflip[i])

(* The link has started, the registers are clear, and the flops are down. *)
Starting ==
  /\ ~coreRst /\ phase = "null"
  /\ SysClear /\ NothingDue /\ ~escaped /\ ~fctSent
  /\ AllDown
  /\ last = "other" => TxClear

(***************************************************************************)
(* The inductive invariant.                                                *)
(***************************************************************************)
FastTypeOK ==
  /\ last \in {"sys", "other", "both"} /\ coreRst \in BOOLEAN
  /\ phase \in {"off", "null", "fct", "run"} /\ rested \in 0..Rest
  /\ phase # "off" => rested = 0
  /\ txenreg \in BOOLEAN /\ sysflip \in [Sides -> BOOLEAN] /\ tokmux \in Sides
  /\ slot \in [Sides -> TokenRecords]
  /\ pend_fct \in BOOLEAN /\ pend_char \in Data \cup Ends \cup {None} /\ pend_tick \in Times \cup {None}
  /\ allow_fct \in BOOLEAN /\ allow_char \in BOOLEAN /\ sent_fct \in BOOLEAN
  /\ bitclken \in BOOLEAN /\ txflip \in [Sides -> BOOLEAN] /\ b_update \in BOOLEAN /\ b_mux \in Sides
  /\ b_txflip \in BOOLEAN /\ b_valid \in BOOLEAN /\ b_token \in TokenRecords
  /\ c_update \in BOOLEAN /\ c_busy \in BOOLEAN /\ c_esc \in BOOLEAN /\ c_fct \in BOOLEAN
  /\ e_count \in Nat
  /\ synctx_sysflip \in [Sides -> BOOLEAN \X BOOLEAN] /\ synctx_txen \in BOOLEAN \X BOOLEAN
  /\ syncsys_txflip \in [Sides -> BOOLEAN \X BOOLEAN]
  /\ dueFcts \in Nat /\ dueChars \in Seq(Data \cup Ends) /\ dueTimes \in Seq(Times)
  /\ escaped \in BOOLEAN /\ fctSent \in BOOLEAN

(* Two slots, stage B and one waiting request. *)
FewDue == Len(dueChars) <= 4 /\ dueFcts <= 4 /\ Len(dueTimes) <= 3

(* Between two clock edges the transmitter works, is reset, rests or starts. *)
FastInv == FastTypeOK /\ FewDue /\ (Working \/ Resetting \/ Resting \/ Starting)

(***************************************************************************)
(* One step of the two clocks, for given edges and inputs.                 *)
(***************************************************************************)
FastStep(sysEdge, txEdge, in) ==
  /\ InPace(sysEdge, txEdge)
  /\ IF sysEdge THEN SysEnabled(in) \/ SysDisabled \/ SysReset ELSE UNCHANGED sysRegs
  /\ IF txEdge THEN TxClock(IF sysEdge THEN Filled(in) ELSE slot) ELSE UNCHANGED txRegs
  /\ Slots(sysEdge, txEdge, in)
  /\ History(sysEdge, txEdge, in)
  /\ IF sysEdge THEN LinkMoves ELSE UNCHANGED envVars
  /\ AnyReset(sysEdge)
  /\ SyncTx(txEdge) /\ SyncSys(sysEdge)

InputOK(sysEdge, in) ==
  /\ in \in XmitInput
  /\ in = NoInput \/ (sysEdge /\ Heard(in))

LEMMA FastNextIsStep ==
  ASSUME FastNext
  PROVE  \E sysEdge \in BOOLEAN, txEdge \in BOOLEAN : \E in : InputOK(sysEdge, in) /\ FastStep(sysEdge, txEdge, in)
<1>1. NoInput \in XmitInput
  BY DEF NoInput, XmitInput
<1> QED BY <1>1 DEF FastNext, FastStep, InputOK

(* What the flops of a synchroniser hold after an edge. *)
LEMMA SynchsType ==
  ASSUME NEW ff \in BOOLEAN \X BOOLEAN, NEW c \in BOOLEAN, NEW old \in BOOLEAN, NEW new \in BOOLEAN
  PROVE  Synchronised(ff, c, old, new) \subseteq BOOLEAN \X BOOLEAN
<1>1. Down \in BOOLEAN \X BOOLEAN
  BY DEF Down
<1>2. Clocked(ff, {old, new}) \subseteq BOOLEAN \X BOOLEAN
  <2>1. ff[1] \in BOOLEAN
    OBVIOUS
  <2>2. ASSUME NEW seen \in {old, new}
        PROVE  <<seen, ff[1]>> \in BOOLEAN \X BOOLEAN
    BY <2>1
  <2> QED BY <2>2 DEF Clocked
<1> QED BY <1>1, <1>2 DEF Synchronised

(* Without a reset: the old or the new value of the input, one clock late. *)
LEMMA SynchsClocked ==
  ASSUME NEW ff \in BOOLEAN \X BOOLEAN, NEW c \in BOOLEAN, NEW old \in BOOLEAN, NEW new \in BOOLEAN,
         NEW ff2 \in Synchronised(ff, c, old, new), ~coreRst, ~coreRst'
  PROVE  IF c THEN ff2[2] = ff[1] /\ ff2[1] \in {old, new} ELSE ff2 = ff
<1>1. CASE c
  <2>1. PICK seen \in {old, new} : ff2 = <<seen, ff[1]>>
    BY <1>1 DEF Synchronised, Clocked
  <2> QED BY <1>1, <2>1
<1>2. CASE ~c
  BY <1>2 DEF Synchronised
<1> QED BY <1>1, <1>2

LEMMA Synchs ==
  ASSUME NEW ff \in BOOLEAN \X BOOLEAN, NEW c \in BOOLEAN, NEW old \in BOOLEAN, NEW new \in BOOLEAN,
         NEW ff2 \in Synchronised(ff, c, old, new)
  PROVE  /\ ff2 \in BOOLEAN \X BOOLEAN
         /\ coreRst \/ coreRst' => ff2 = Down
         /\ ~coreRst /\ ~coreRst' => IF c THEN ff2[2] = ff[1] /\ ff2[1] \in {old, new} ELSE ff2 = ff
<1>1. ff2 \in BOOLEAN \X BOOLEAN
  BY SynchsType
<1>2. coreRst \/ coreRst' => ff2 = Down
  BY DEF Synchronised
<1>3. ASSUME ~coreRst, ~coreRst'
      PROVE  IF c THEN ff2[2] = ff[1] /\ ff2[1] \in {old, new} ELSE ff2 = ff
  BY <1>3, SynchsClocked
<1> QED BY <1>1, <1>2, <1>3

(***************************************************************************)
(* Types.                                                                  *)
(***************************************************************************)
LEMMA EmptyOK == Empty \in TokenRecords
BY DEF Empty, TokenRecords

(* What a slot is filled with is a token. *)
LEMMA TokenOK ==
  ASSUME FastTypeOK, NEW in \in XmitInput
  PROVE  token(in) \in TokenRecords
<1>1. pend_tick \in Times \cup {None} /\ pend_char \in Data \cup Ends \cup {None} /\ pend_fct \in BOOLEAN
  BY DEF FastTypeOK
<1>2. in.fct_in \in BOOLEAN /\ allow_fct \in BOOLEAN /\ allow_char \in BOOLEAN
  BY DEF XmitInput, FastTypeOK
<1>3. timeFirst \in BOOLEAN /\ takesFct(in) \in BOOLEAN /\ takesChar \in BOOLEAN
  BY <1>1, <1>2 DEF timeFirst, takesFct, takesChar
<1>4. [Empty EXCEPT !.tick = TRUE, !.char = pend_tick] \in TokenRecords
  BY <1>1, EmptyOK DEF Empty, TokenRecords
<1>5. CASE timeFirst
  BY <1>4, <1>5 DEF token
<1>6. CASE ~timeFirst
  <2>1. (IF takesChar THEN pend_char ELSE None) \in Data \cup Ends \cup Times \cup {None}
    BY <1>1
  <2>2. (takesFct(in) /\ takesChar) \in BOOLEAN
    OBVIOUS
  <2> QED BY <1>3, <1>6, <2>1, <2>2 DEF token, TokenRecords
<1> QED BY <1>5, <1>6

LEMMA FilledType ==
  ASSUME FastTypeOK, NEW in \in XmitInput
  PROVE  Filled(in) \in [Sides -> TokenRecords]
<1>1. [i \in Sides |-> Empty] \in [Sides -> TokenRecords]
  BY EmptyOK
<1>2. [slot EXCEPT ![tokmux] = token(in)] \in [Sides -> TokenRecords]
  BY TokenOK DEF FastTypeOK
<1>3. slot \in [Sides -> TokenRecords]
  BY DEF FastTypeOK
<1> QED BY <1>1, <1>2, <1>3 DEF Filled

(* Each group of registers keeps its types. *)
LEMMA SysTypes ==
  ASSUME FastTypeOK, NEW in \in XmitInput, SysEnabled(in) \/ SysDisabled \/ SysReset
  PROVE  /\ txenreg' \in BOOLEAN /\ sysflip' \in [Sides -> BOOLEAN] /\ tokmux' \in Sides
         /\ pend_fct' \in BOOLEAN /\ pend_char' \in Data \cup Ends \cup {None} /\ pend_tick' \in Times \cup {None}
         /\ allow_fct' \in BOOLEAN /\ allow_char' \in BOOLEAN /\ sent_fct' \in BOOLEAN
<1>1. /\ txenreg \in BOOLEAN /\ sysflip \in [Sides -> BOOLEAN] /\ tokmux \in Sides
      /\ pend_fct \in BOOLEAN /\ pend_char \in Data \cup Ends \cup {None} /\ pend_tick \in Times \cup {None}
      /\ allow_fct \in BOOLEAN /\ allow_char \in BOOLEAN /\ sent_fct \in BOOLEAN
      /\ in.txwrite \in Data \cup Ends \cup {None} /\ in.tick \in Times \cup {None}
  BY DEF FastTypeOK, XmitInput
<1>2. CASE SysEnabled(in)
  <2>1. txenreg' \in BOOLEAN
    BY <1>1, <1>2 DEF SysEnabled, Latch
  <2>2. sysflip' \in [Sides -> BOOLEAN] /\ tokmux' \in Sides
    <3>1. [sysflip EXCEPT ![tokmux] = ~@] \in [Sides -> BOOLEAN]
      BY <1>1
    <3>2. 1 - tokmux \in Sides
      BY <1>1 DEF Sides
    <3>3. \/ sysflip' = [sysflip EXCEPT ![tokmux] = ~@] /\ tokmux' = 1 - tokmux
          \/ sysflip' = sysflip /\ tokmux' = tokmux
      BY <1>2 DEF SysEnabled, FlipFlag
    <3> QED BY <1>1, <3>1, <3>2, <3>3
  <2>3. pend_fct' \in BOOLEAN /\ sent_fct' \in BOOLEAN
    BY <1>2 DEF SysEnabled, Pending
  <2>4. pend_char' \in Data \cup Ends \cup {None} /\ pend_tick' \in Times \cup {None}
    BY <1>1, <1>2 DEF SysEnabled, Pending, txack
  <2>5. allow_fct' \in BOOLEAN /\ allow_char' \in BOOLEAN
    BY <1>2 DEF SysEnabled, Allowed
  <2> QED BY <2>1, <2>2, <2>3, <2>4, <2>5
<1>3. CASE SysDisabled \/ SysReset
  <2>1. sysflip' \in [Sides -> BOOLEAN] /\ tokmux' \in Sides
    BY <1>3 DEF SysDisabled, SysReset, Sides
  <2>2. pend_char' \in Data \cup Ends \cup {None} /\ pend_tick' \in Times \cup {None}
    BY <1>3 DEF SysDisabled, SysReset
  <2>3. pend_fct' \in BOOLEAN /\ sent_fct' \in BOOLEAN /\ allow_fct' \in BOOLEAN /\ allow_char' \in BOOLEAN
    BY <1>3 DEF SysDisabled, SysReset
  <2>4. txenreg' \in BOOLEAN
    BY <1>1, <1>3 DEF SysDisabled, SysReset, Latch
  <2> QED BY <2>1, <2>2, <2>3, <2>4
<1> QED BY <1>2, <1>3

LEMMA TxTypes ==
  ASSUME FastTypeOK, NEW F \in [Sides -> TokenRecords], TxClock(F)
  PROVE  /\ bitclken' \in BOOLEAN /\ txflip' \in [Sides -> BOOLEAN] /\ b_update' \in BOOLEAN /\ b_mux' \in Sides
         /\ b_txflip' \in BOOLEAN /\ b_valid' \in BOOLEAN /\ b_token' \in TokenRecords
         /\ c_update' \in BOOLEAN /\ c_busy' \in BOOLEAN /\ c_esc' \in BOOLEAN /\ c_fct' \in BOOLEAN
         /\ e_count' \in Nat
<1>1. /\ txflip \in [Sides -> BOOLEAN] /\ b_mux \in Sides /\ b_valid \in BOOLEAN /\ b_token \in TokenRecords
      /\ slot \in [Sides -> TokenRecords] /\ b_update \in BOOLEAN /\ c_update \in BOOLEAN
      /\ c_busy \in BOOLEAN /\ c_esc \in BOOLEAN /\ c_fct \in BOOLEAN /\ bitclken \in BOOLEAN
      /\ e_count \in Nat /\ synctx_sysflip \in [Sides -> BOOLEAN \X BOOLEAN] /\ b_txflip \in BOOLEAN
  BY DEF FastTypeOK
<1>2. bitclken' \in BOOLEAN
  BY BitDueAssumption DEF TxClock
<1>3. b_txflip' \in BOOLEAN
  BY <1>1 DEF TxClock
<1>4. CASE TxEnabled(F)
  <2>1. b_update' \in BOOLEAN /\ c_update' \in BOOLEAN
    BY <1>4 DEF TxEnabled, loads
  <2>2. txflip' \in [Sides -> BOOLEAN]
    <3>1. [txflip EXCEPT ![b_mux] = synctx_sysflip[b_mux][2]] \in [Sides -> BOOLEAN]
      BY <1>1
    <3> QED BY <1>1, <1>4, <3>1 DEF TxEnabled, StageB
  <2>3. b_mux' \in Sides
    <3>1. 1 - b_mux \in Sides
      BY <1>1 DEF Sides
    <3> QED BY <1>1, <1>4, <3>1 DEF TxEnabled, StageB
  <2>4. b_valid' \in BOOLEAN
    BY <1>1, <1>4 DEF TxEnabled, StageB, fresh
  <2>5. b_token' \in TokenRecords
    BY <1>1, <1>4, EmptyOK DEF TxEnabled, StageB
  <2>6. c_busy' \in BOOLEAN /\ c_esc' \in BOOLEAN /\ c_fct' \in BOOLEAN
    BY <1>1, <1>4 DEF TxEnabled, StageC
  <2>7. e_count' \in Nat
    BY <1>1, <1>4, LongBitsAssumption DEF TxEnabled, StageE, loads
  <2> QED BY <1>2, <1>3, <2>1, <2>2, <2>3, <2>4, <2>5, <2>6, <2>7
<1>5. CASE TxDisabled
  <2>1. txflip' \in [Sides -> BOOLEAN] /\ b_mux' \in Sides
    BY <1>5 DEF TxDisabled, Sides
  <2>2. b_update' \in BOOLEAN /\ b_valid' \in BOOLEAN /\ c_update' \in BOOLEAN
    BY <1>5 DEF TxDisabled
  <2>3. c_busy' \in BOOLEAN /\ c_esc' \in BOOLEAN /\ c_fct' \in BOOLEAN
    BY <1>5 DEF TxDisabled
  <2>4. b_token' \in TokenRecords
    BY <1>5, EmptyOK DEF TxDisabled
  <2>5. e_count' \in Nat
    BY <1>5 DEF TxDisabled
  <2> QED BY <1>2, <1>3, <2>1, <2>2, <2>3, <2>4, <2>5
<1> QED BY <1>4, <1>5 DEF TxClock

(* Every flop of every synchroniser is one that Synchronised allows. *)
LEMMA SyncTypes ==
  ASSUME FastTypeOK, NEW sysEdge \in BOOLEAN, NEW txEdge \in BOOLEAN, SyncTx(txEdge), SyncSys(sysEdge),
         txenreg' \in BOOLEAN, sysflip' \in [Sides -> BOOLEAN], txflip' \in [Sides -> BOOLEAN]
  PROVE  /\ synctx_sysflip' \in [Sides -> BOOLEAN \X BOOLEAN] /\ synctx_txen' \in BOOLEAN \X BOOLEAN
         /\ syncsys_txflip' \in [Sides -> BOOLEAN \X BOOLEAN]
         /\ synctx_txen' \in Synchronised(synctx_txen, txEdge, txenreg, txenreg')
         /\ \A i \in Sides :
              /\ synctx_sysflip'[i] \in Synchronised(synctx_sysflip[i], txEdge, sysflip[i], sysflip'[i])
              /\ syncsys_txflip'[i] \in Synchronised(syncsys_txflip[i], sysEdge, txflip[i], txflip'[i])
<1>1. /\ synctx_sysflip \in [Sides -> BOOLEAN \X BOOLEAN] /\ synctx_txen \in BOOLEAN \X BOOLEAN
      /\ syncsys_txflip \in [Sides -> BOOLEAN \X BOOLEAN]
      /\ txenreg \in BOOLEAN /\ sysflip \in [Sides -> BOOLEAN] /\ txflip \in [Sides -> BOOLEAN]
  BY DEF FastTypeOK
<1>2. 0 \in Sides /\ 1 \in Sides /\ \A i \in Sides : i = 0 \/ i = 1
  BY DEF Sides
<1>3. synctx_txen' \in BOOLEAN \X BOOLEAN
  BY <1>1, SynchsType DEF SyncTx
<1>4. PICK ff0 \in Synchronised(synctx_sysflip[0], txEdge, sysflip[0], sysflip'[0]),
           ff1 \in Synchronised(synctx_sysflip[1], txEdge, sysflip[1], sysflip'[1]) :
         synctx_sysflip' = [i \in Sides |-> IF i = 0 THEN ff0 ELSE ff1]
  BY DEF SyncTx
<1>5. PICK gg0 \in Synchronised(syncsys_txflip[0], sysEdge, txflip[0], txflip'[0]),
           gg1 \in Synchronised(syncsys_txflip[1], sysEdge, txflip[1], txflip'[1]) :
         syncsys_txflip' = [i \in Sides |-> IF i = 0 THEN gg0 ELSE gg1]
  BY DEF SyncSys
<1>6. ASSUME NEW i \in Sides
      PROVE  /\ Synchronised(synctx_sysflip[i], txEdge, sysflip[i], sysflip'[i]) \subseteq BOOLEAN \X BOOLEAN
             /\ Synchronised(syncsys_txflip[i], sysEdge, txflip[i], txflip'[i]) \subseteq BOOLEAN \X BOOLEAN
  <2>1. synctx_sysflip[i] \in BOOLEAN \X BOOLEAN /\ sysflip[i] \in BOOLEAN /\ sysflip'[i] \in BOOLEAN
    BY <1>1
  <2>2. syncsys_txflip[i] \in BOOLEAN \X BOOLEAN /\ txflip[i] \in BOOLEAN /\ txflip'[i] \in BOOLEAN
    BY <1>1
  <2>3. Synchronised(synctx_sysflip[i], txEdge, sysflip[i], sysflip'[i]) \subseteq BOOLEAN \X BOOLEAN
    BY <2>1, SynchsType, Zenon
  <2>4. Synchronised(syncsys_txflip[i], sysEdge, txflip[i], txflip'[i]) \subseteq BOOLEAN \X BOOLEAN
    BY <2>2, SynchsType, Zenon
  <2> QED BY <2>3, <2>4
<1>7. /\ ff0 \in BOOLEAN \X BOOLEAN /\ ff1 \in BOOLEAN \X BOOLEAN
      /\ gg0 \in BOOLEAN \X BOOLEAN /\ gg1 \in BOOLEAN \X BOOLEAN
  BY <1>2, <1>6
<1>8. \A i \in Sides : synctx_sysflip'[i] \in Synchronised(synctx_sysflip[i], txEdge, sysflip[i], sysflip'[i])
  BY <1>2, <1>4
<1>9. \A i \in Sides : syncsys_txflip'[i] \in Synchronised(syncsys_txflip[i], sysEdge, txflip[i], txflip'[i])
  BY <1>2, <1>5
<1>10. synctx_sysflip' \in [Sides -> BOOLEAN \X BOOLEAN] /\ syncsys_txflip' \in [Sides -> BOOLEAN \X BOOLEAN]
  BY <1>4, <1>5, <1>7
<1> QED BY <1>3, <1>8, <1>9, <1>10 DEF SyncTx

LEMMA TailsInSeq ==
  ASSUME NEW S, NEW s \in Seq(S), NEW yes
  PROVE  /\ (IF yes /\ s # <<>> THEN Tail(s) ELSE s) \in Seq(S)
         /\ \A x \in S : Append(IF yes /\ s # <<>> THEN Tail(s) ELSE s, x) \in Seq(S)
OBVIOUS

LEMMA HistoryTypes ==
  ASSUME FastTypeOK, NEW sysEdge \in BOOLEAN, NEW txEdge \in BOOLEAN, NEW in \in XmitInput, History(sysEdge, txEdge, in)
  PROVE  /\ dueFcts' \in Nat /\ dueChars' \in Seq(Data \cup Ends) /\ dueTimes' \in Seq(Times)
         /\ escaped' \in BOOLEAN /\ fctSent' \in BOOLEAN
<1>1. /\ dueFcts \in Nat /\ dueChars \in Seq(Data \cup Ends) /\ dueTimes \in Seq(Times)
      /\ escaped \in BOOLEAN /\ fctSent \in BOOLEAN /\ pend_tick \in Times \cup {None}
      /\ in.txwrite \in Data \cup Ends \cup {None}
  BY DEF FastTypeOK, XmitInput
<1>2. CASE sysEdge /\ (coreRst \/ ~txen)
  <2>1. dueFcts' = 0 /\ dueChars' = <<>> /\ dueTimes' = <<>> /\ escaped' = FALSE /\ fctSent' = FALSE
    BY <1>2 DEF History
  <2>2. dueFcts' \in Nat /\ dueChars' \in Seq(Data \cup Ends) /\ dueTimes' \in Seq(Times)
    BY <2>1
  <2>3. escaped' \in BOOLEAN /\ fctSent' \in BOOLEAN
    BY <2>1
  <2> QED BY <2>2, <2>3
<1>3. CASE ~(sysEdge /\ (coreRst \/ ~txen))
  <2>1. escaped' \in BOOLEAN /\ fctSent' \in BOOLEAN
    BY <1>1, <1>3 DEF History, sends, enabled
  <2>2. dueFcts' \in Nat
    BY <1>1, <1>3 DEF History
  <2>3. dueChars' \in Seq(Data \cup Ends)
    <3>1. sysEdge /\ txack(in) => in.txwrite \in Data \cup Ends
      BY <1>1 DEF txack
    <3> QED BY <1>1, <1>3, <3>1, TailsInSeq DEF History
  <2>4. dueTimes' \in Seq(Times)
    <3>1. sysEdge /\ timeFirst /\ needtoken => pend_tick \in Times
      BY <1>1 DEF timeFirst
    <3> QED BY <1>1, <1>3, <3>1, TailsInSeq DEF History
  <2> QED BY <2>1, <2>2, <2>3, <2>4
<1> QED BY <1>2, <1>3

(* Every step keeps the types. *)
LEMMA FastTypeStep ==
  ASSUME FastTypeOK, NEW sysEdge \in BOOLEAN, NEW txEdge \in BOOLEAN, NEW in, InputOK(sysEdge, in),
         FastStep(sysEdge, txEdge, in)
  PROVE  FastTypeOK'
<1> DEFINE F == IF sysEdge THEN Filled(in) ELSE slot
<1>1. in \in XmitInput
  BY DEF InputOK
<1>2. /\ F \in [Sides -> TokenRecords] /\ slot \in [Sides -> TokenRecords]
  BY <1>1, FilledType DEF FastTypeOK
<1> HIDE DEF F
<1>3. last' \in {"sys", "other", "both"} /\ coreRst' \in BOOLEAN
  BY DEF FastStep, InPace, AnyReset, FastTypeOK
<1>4. phase' \in {"off", "null", "fct", "run"} /\ rested' \in 0..Rest /\ (phase' # "off" => rested' = 0)
  <2>1. CASE sysEdge
    <3>1. LinkMoves /\ phase \in {"off", "null", "fct", "run"} /\ rested \in 0..Rest
      BY <2>1 DEF FastStep, FastTypeOK
    <3>2. phase' \in {"off", "null", "fct", "run"}
      BY <3>1 DEF LinkMoves
    <3>3. rested' \in 0..Rest
      BY <3>1, RestAssumption DEF LinkMoves
    <3>4. phase' # "off" => rested' = 0
      BY <3>1 DEF LinkMoves
    <3> QED BY <3>2, <3>3, <3>4
  <2>2. CASE ~sysEdge
    BY <2>2 DEF FastStep, FastTypeOK, envVars
  <2> QED BY <2>1, <2>2
<1>5. /\ txenreg' \in BOOLEAN /\ sysflip' \in [Sides -> BOOLEAN] /\ tokmux' \in Sides
      /\ pend_fct' \in BOOLEAN /\ pend_char' \in Data \cup Ends \cup {None} /\ pend_tick' \in Times \cup {None}
      /\ allow_fct' \in BOOLEAN /\ allow_char' \in BOOLEAN /\ sent_fct' \in BOOLEAN
  <2>1. CASE sysEdge
    BY <1>1, <2>1, SysTypes DEF FastStep
  <2>2. CASE ~sysEdge
    BY <2>2 DEF FastStep, FastTypeOK, sysRegs
  <2> QED BY <2>1, <2>2
<1>6. /\ bitclken' \in BOOLEAN /\ txflip' \in [Sides -> BOOLEAN] /\ b_update' \in BOOLEAN /\ b_mux' \in Sides
      /\ b_txflip' \in BOOLEAN /\ b_valid' \in BOOLEAN /\ b_token' \in TokenRecords
      /\ c_update' \in BOOLEAN /\ c_busy' \in BOOLEAN /\ c_esc' \in BOOLEAN /\ c_fct' \in BOOLEAN
      /\ e_count' \in Nat
  <2>1. CASE txEdge
    <3>1. TxClock(F)
      BY <2>1 DEF FastStep, F
    <3> QED BY <1>2, <3>1, TxTypes
  <2>2. CASE ~txEdge
    BY <2>2 DEF FastStep, FastTypeOK, txRegs
  <2> QED BY <2>1, <2>2
<1>7. slot' \in [Sides -> TokenRecords]
  <2>1. slot' = IF txEdge /\ takes THEN [F EXCEPT ![b_mux] = Empty] ELSE F
    BY DEF FastStep, Slots, F
  <2>2. [F EXCEPT ![b_mux] = Empty] \in [Sides -> TokenRecords]
    BY <1>2, EmptyOK
  <2> QED BY <1>2, <2>1, <2>2
<1>8. /\ synctx_sysflip' \in [Sides -> BOOLEAN \X BOOLEAN] /\ synctx_txen' \in BOOLEAN \X BOOLEAN
      /\ syncsys_txflip' \in [Sides -> BOOLEAN \X BOOLEAN]
  BY <1>5, <1>6, SyncTypes DEF FastStep
<1>9. /\ dueFcts' \in Nat /\ dueChars' \in Seq(Data \cup Ends) /\ dueTimes' \in Seq(Times)
      /\ escaped' \in BOOLEAN /\ fctSent' \in BOOLEAN
  BY <1>1, HistoryTypes DEF FastStep
<1> QED BY <1>3, <1>4, <1>5, <1>6, <1>7, <1>8, <1>9 DEF FastTypeOK

(***************************************************************************)
(* The transmitter at work: one step of the two clocks.                    *)
(***************************************************************************)
Works(sysEdge, txEdge, in) ==
  /\ FastTypeOK /\ FastTypeOK' /\ Working
  /\ InputOK(sysEdge, in) /\ FastStep(sysEdge, txEdge, in)
  /\ sysEdge => txen

(* In this step a slot is filled; in this step a slot is emptied. *)
fillNow(sysEdge, in) == sysEdge /\ fills(in)
takeNow(txEdge) == txEdge /\ takes

LEMMA TheSides ==
  /\ 0 \in Sides /\ 1 \in Sides /\ Sides = {0, 1}
  /\ \A i \in Sides : 1 - i \in Sides /\ 1 - i # i /\ 1 - (1 - i) = i
  /\ \A i, j \in Sides : j = i \/ j = 1 - i
BY DEF Sides

LEMMA SysWorks ==
  ASSUME NEW sysEdge \in BOOLEAN, NEW txEdge \in BOOLEAN, NEW in, Works(sysEdge, txEdge, in)
  PROVE  IF sysEdge THEN SysEnabled(in) ELSE UNCHANGED sysRegs
BY DEF Works, Working, FastStep, SysDisabled, SysReset

(* A slot is filled only when it is known to be empty, by both flops. *)
LEMMA FillFacts ==
  ASSUME NEW sysEdge \in BOOLEAN, NEW txEdge \in BOOLEAN, NEW in, Works(sysEdge, txEdge, in)
  PROVE  /\ fillNow(sysEdge, in) => /\ sysEdge /\ allow_fct /\ ~filled(tokmux)
                                    /\ syncsys_txflip[tokmux] = <<txflip[tokmux], txflip[tokmux]>>
         /\ sysflip' = IF fillNow(sysEdge, in) THEN [sysflip EXCEPT ![tokmux] = ~@] ELSE sysflip
         /\ tokmux' = IF fillNow(sysEdge, in) THEN 1 - tokmux ELSE tokmux
<1>1. IF sysEdge THEN SysEnabled(in) ELSE UNCHANGED sysRegs
  BY SysWorks
<1>2. /\ sysflip \in [Sides -> BOOLEAN] /\ txflip \in [Sides -> BOOLEAN] /\ tokmux \in Sides
      /\ syncsys_txflip \in [Sides -> BOOLEAN \X BOOLEAN]
  BY DEF Works, FastTypeOK
<1>3. FlagsOK /\ NotYet
  BY DEF Works, Working
<1>4. ASSUME sysEdge, fills(in)
      PROVE  allow_fct /\ ~filled(tokmux) /\ syncsys_txflip[tokmux] = <<txflip[tokmux], txflip[tokmux]>>
  <2>1. needtoken /\ allow_fct
    BY <1>3, <1>4 DEF fills, timeFirst, takesFct, takesChar, NotYet
  <2>2. sysflip[tokmux] = syncsys_txflip[tokmux][2]
    BY <2>1 DEF needtoken
  <2>3. ~filled(tokmux)
    <3>1. filled(tokmux) => syncsys_txflip[tokmux] = <<txflip[tokmux], txflip[tokmux]>>
      BY <1>2, <1>3 DEF FlagsOK
    <3> QED BY <2>2, <3>1 DEF filled
  <2>4. syncsys_txflip[tokmux][2] = txflip[tokmux]
    BY <2>2, <2>3 DEF filled
  <2>5. syncsys_txflip[tokmux][1] = txflip[tokmux]
    BY <1>2, <1>3, <2>1, <2>3, <2>4 DEF FlagsOK
  <2>6. syncsys_txflip[tokmux] \in BOOLEAN \X BOOLEAN
    BY <1>2
  <2> QED BY <2>1, <2>3, <2>4, <2>5, <2>6
<1>5. /\ sysflip' = IF fillNow(sysEdge, in) THEN [sysflip EXCEPT ![tokmux] = ~@] ELSE sysflip
      /\ tokmux' = IF fillNow(sysEdge, in) THEN 1 - tokmux ELSE tokmux
  BY <1>1 DEF SysEnabled, FlipFlag, sysRegs, fillNow
<1> QED BY <1>4, <1>5 DEF fillNow

(* A slot is taken only when it is known to be filled, by both flops. *)
LEMMA TakeFacts ==
  ASSUME NEW sysEdge \in BOOLEAN, NEW txEdge \in BOOLEAN, NEW in, Works(sysEdge, txEdge, in)
  PROVE  /\ takeNow(txEdge) => /\ txEdge /\ enabled /\ b_update /\ filled(b_mux)
                               /\ synctx_sysflip[b_mux] = <<sysflip[b_mux], sysflip[b_mux]>>
         /\ txflip' = IF takeNow(txEdge) THEN [txflip EXCEPT ![b_mux] = ~@] ELSE txflip
         /\ b_mux' = IF takeNow(txEdge) THEN 1 - b_mux ELSE b_mux
<1> DEFINE F == IF sysEdge THEN Filled(in) ELSE slot
<1>1. IF txEdge THEN TxClock(F) ELSE UNCHANGED txRegs
  BY DEF Works, FastStep
<1> HIDE DEF F
<1>2. /\ sysflip \in [Sides -> BOOLEAN] /\ txflip \in [Sides -> BOOLEAN] /\ b_mux \in Sides
      /\ synctx_sysflip \in [Sides -> BOOLEAN \X BOOLEAN] /\ b_txflip \in BOOLEAN
      /\ synctx_sysflip[b_mux] \in BOOLEAN \X BOOLEAN
  BY DEF Works, FastTypeOK
<1>3. FlagsOK /\ Enabling
  BY DEF Works, Working
<1>4. enabled /\ b_update => (fresh <=> synctx_sysflip[b_mux][2] # txflip[b_mux])
  BY <1>3 DEF Enabling, fresh
<1>5. ASSUME enabled, b_update, fresh
      PROVE  filled(b_mux) /\ synctx_sysflip[b_mux] = <<sysflip[b_mux], sysflip[b_mux]>>
  <2>1. filled(b_mux)
    BY <1>2, <1>3, <1>4, <1>5 DEF FlagsOK, filled
  <2>2. synctx_sysflip[b_mux][2] = sysflip[b_mux]
    BY <1>2, <1>4, <1>5, <2>1 DEF filled
  <2>3. synctx_sysflip[b_mux][1] = sysflip[b_mux]
    BY <1>2, <1>3, <2>1, <2>2 DEF FlagsOK
  <2> QED BY <1>2, <2>1, <2>2, <2>3
<1>6. CASE ~txEdge
  BY <1>1, <1>6 DEF txRegs, takeNow
<1>7. CASE txEdge /\ ~enabled
  <2>1. TxDisabled /\ TxClear
    BY <1>1, <1>3, <1>7 DEF TxClock, TxEnabled, Enabling
  <2> QED BY <1>7, <2>1 DEF TxDisabled, TxClear, takeNow, takes
<1>8. CASE txEdge /\ enabled
  <2>1. StageB(F)
    BY <1>1, <1>8 DEF TxClock, TxEnabled, TxDisabled
  <2>2. CASE ~b_update
    BY <1>8, <2>1, <2>2 DEF StageB, takeNow, takes
  <2>3. CASE b_update
    <3>1. takeNow(txEdge) <=> fresh
      BY <1>8, <2>3 DEF takeNow, takes
    <3>2. b_mux' = IF fresh THEN 1 - b_mux ELSE b_mux
      BY <2>1, <2>3 DEF StageB
    <3>3. txflip' = [txflip EXCEPT ![b_mux] = synctx_sysflip[b_mux][2]]
      BY <2>1, <2>3 DEF StageB
    <3>4. CASE fresh
      <4>1. synctx_sysflip[b_mux][2] = ~txflip[b_mux]
        BY <1>2, <1>4, <1>8, <2>3, <3>4
      <4> QED BY <1>2, <1>5, <1>8, <2>3, <3>1, <3>2, <3>3, <3>4, <4>1
    <3>5. CASE ~fresh
      <4>1. synctx_sysflip[b_mux][2] = txflip[b_mux]
        BY <1>4, <1>8, <2>3, <3>5
      <4>2. [txflip EXCEPT ![b_mux] = txflip[b_mux]] = txflip
        BY <1>2
      <4> QED BY <3>1, <3>2, <3>3, <3>5, <4>1, <4>2
    <3> QED BY <3>4, <3>5
  <2> QED BY <2>2, <2>3
<1> QED BY <1>6, <1>7, <1>8


(* The system clock and the transmit clock never have the same slot in hand. *)
LEMMA FilledMoves ==
  ASSUME NEW sysEdge \in BOOLEAN, NEW txEdge \in BOOLEAN, NEW in, Works(sysEdge, txEdge, in)
  PROVE  /\ fillNow(sysEdge, in) /\ takeNow(txEdge) => tokmux # b_mux
         /\ \A i \in Sides : filled(i)' <=> \/ fillNow(sysEdge, in) /\ i = tokmux
                                            \/ filled(i) /\ ~(takeNow(txEdge) /\ i = b_mux)
<1> DEFINE fill == fillNow(sysEdge, in)
           take == takeNow(txEdge)
<1>1. /\ fill => ~filled(tokmux)
      /\ sysflip' = IF fill THEN [sysflip EXCEPT ![tokmux] = ~@] ELSE sysflip
  BY FillFacts
<1>2. /\ take => filled(b_mux)
      /\ txflip' = IF take THEN [txflip EXCEPT ![b_mux] = ~@] ELSE txflip
  BY TakeFacts
<1>3. sysflip \in [Sides -> BOOLEAN] /\ txflip \in [Sides -> BOOLEAN]
  BY DEF Works, FastTypeOK
<1> HIDE DEF fill, take
<1>4. fill /\ take => tokmux # b_mux
  BY <1>1, <1>2
<1>5. ASSUME NEW i \in Sides
      PROVE  filled(i)' <=> \/ fill /\ i = tokmux
                            \/ filled(i) /\ ~(take /\ i = b_mux)
  <2>1. sysflip'[i] = IF fill /\ i = tokmux THEN ~sysflip[i] ELSE sysflip[i]
    BY <1>1, <1>3
  <2>2. txflip'[i] = IF take /\ i = b_mux THEN ~txflip[i] ELSE txflip[i]
    BY <1>2, <1>3
  <2>3. sysflip[i] \in BOOLEAN /\ txflip[i] \in BOOLEAN
    BY <1>3
  <2>4. (fill /\ i = tokmux => ~filled(i)) /\ (take /\ i = b_mux => filled(i))
    BY <1>1, <1>2
  <2> QED BY <2>1, <2>2, <2>3, <2>4 DEF filled
<1> QED BY <1>4, <1>5 DEF fill, take

(* allow_fct comes only after the other side's flags are clear. *)
LEMMA AllowedLate ==
  ASSUME NEW sysEdge \in BOOLEAN, NEW txEdge \in BOOLEAN, NEW in, Works(sysEdge, txEdge, in), NEW i \in Sides
  PROVE  allow_fct' => allow_fct \/ (sysEdge /\ txflip'[i] = txflip[i])
<1>1. sysEdge \/ allow_fct' = allow_fct
  BY SysWorks DEF sysRegs
<1>2. ~allow_fct => \A j \in Sides : ~sysflip[j] /\ ~txflip[j]
  BY DEF Works, Working, NotYet
<1>3. ~allow_fct => ~takeNow(txEdge)
  <2>1. takeNow(txEdge) => filled(b_mux) /\ b_mux \in Sides
    BY TakeFacts DEF Works, FastTypeOK
  <2> QED BY <1>2, <2>1 DEF filled, Works, FastTypeOK
<1> QED BY <1>1, <1>3, TakeFacts

(* A flag that is flipped in this step is not seen before the next. *)
LEMMA FlagsStep ==
  ASSUME NEW sysEdge \in BOOLEAN, NEW txEdge \in BOOLEAN, NEW in, Works(sysEdge, txEdge, in), ~coreRst'
  PROVE  FlagsOK'
<1> DEFINE fill == fillNow(sysEdge, in)
           take == takeNow(txEdge)
<1>1. /\ fill => /\ sysEdge /\ ~filled(tokmux)
                 /\ syncsys_txflip[tokmux] = <<txflip[tokmux], txflip[tokmux]>>
      /\ sysflip' = IF fill THEN [sysflip EXCEPT ![tokmux] = ~@] ELSE sysflip
  BY FillFacts
<1>2. /\ take => /\ txEdge /\ filled(b_mux)
                 /\ synctx_sysflip[b_mux] = <<sysflip[b_mux], sysflip[b_mux]>>
      /\ txflip' = IF take THEN [txflip EXCEPT ![b_mux] = ~@] ELSE txflip
  BY TakeFacts
<1>3. /\ sysflip \in [Sides -> BOOLEAN] /\ txflip \in [Sides -> BOOLEAN]
      /\ sysflip' \in [Sides -> BOOLEAN] /\ txflip' \in [Sides -> BOOLEAN] /\ txenreg' \in BOOLEAN
      /\ synctx_sysflip \in [Sides -> BOOLEAN \X BOOLEAN] /\ syncsys_txflip \in [Sides -> BOOLEAN \X BOOLEAN]
      /\ synctx_sysflip' \in [Sides -> BOOLEAN \X BOOLEAN] /\ syncsys_txflip' \in [Sides -> BOOLEAN \X BOOLEAN]
      /\ allow_fct \in BOOLEAN /\ allow_fct' \in BOOLEAN
  BY DEF Works, FastTypeOK
<1>4. FlagsOK /\ ~coreRst /\ FastTypeOK
  BY DEF Works, Working
<1>5. \A i \in Sides :
        /\ synctx_sysflip'[i] \in Synchronised(synctx_sysflip[i], txEdge, sysflip[i], sysflip'[i])
        /\ syncsys_txflip'[i] \in Synchronised(syncsys_txflip[i], sysEdge, txflip[i], txflip'[i])
  BY <1>3, <1>4, SyncTypes DEF Works, FastStep
<1> HIDE DEF fill, take
<1> SUFFICES ASSUME NEW i \in Sides
             PROVE  IF sysflip'[i] # txflip'[i]
                    THEN /\ synctx_sysflip'[i][2] = sysflip'[i] => synctx_sysflip'[i][1] = sysflip'[i]
                         /\ syncsys_txflip'[i] = <<txflip'[i], txflip'[i]>>
                    ELSE /\ synctx_sysflip'[i] = <<sysflip'[i], sysflip'[i]>>
                         /\ allow_fct' /\ syncsys_txflip'[i][2] = txflip'[i] => syncsys_txflip'[i][1] = txflip'[i]
  BY DEF FlagsOK, filled
<1> DEFINE fillI == fill /\ i = tokmux
           takeI == take /\ i = b_mux
<1>6. IF sysflip[i] # txflip[i]
      THEN /\ synctx_sysflip[i][2] = sysflip[i] => synctx_sysflip[i][1] = sysflip[i]
           /\ syncsys_txflip[i] = <<txflip[i], txflip[i]>>
      ELSE /\ synctx_sysflip[i] = <<sysflip[i], sysflip[i]>>
           /\ allow_fct /\ syncsys_txflip[i][2] = txflip[i] => syncsys_txflip[i][1] = txflip[i]
  BY <1>4 DEF FlagsOK, filled
<1>7. sysflip'[i] = (IF fillI THEN ~sysflip[i] ELSE sysflip[i]) /\ txflip'[i] = (IF takeI THEN ~txflip[i] ELSE txflip[i])
  BY <1>1, <1>2, <1>3
<1>8. fillI => sysEdge /\ sysflip[i] = txflip[i] /\ syncsys_txflip[i] = <<txflip[i], txflip[i]>>
  BY <1>1 DEF filled
<1>9. takeI => txEdge /\ sysflip[i] # txflip[i] /\ synctx_sysflip[i] = <<sysflip[i], sysflip[i]>>
  BY <1>2 DEF filled
<1>10. /\ sysflip[i] \in BOOLEAN /\ txflip[i] \in BOOLEAN /\ sysflip'[i] \in BOOLEAN /\ txflip'[i] \in BOOLEAN
       /\ synctx_sysflip[i] \in BOOLEAN \X BOOLEAN /\ syncsys_txflip[i] \in BOOLEAN \X BOOLEAN
       /\ synctx_sysflip'[i] \in BOOLEAN \X BOOLEAN /\ syncsys_txflip'[i] \in BOOLEAN \X BOOLEAN
       /\ fillI \in BOOLEAN /\ takeI \in BOOLEAN
  BY <1>3
<1>11. IF txEdge THEN synctx_sysflip'[i][2] = synctx_sysflip[i][1] /\ synctx_sysflip'[i][1] \in {sysflip[i], sysflip'[i]}
       ELSE synctx_sysflip'[i] = synctx_sysflip[i]
  <2>1. synctx_sysflip'[i] \in Synchronised(synctx_sysflip[i], txEdge, sysflip[i], sysflip'[i])
    BY <1>5
  <2>2. synctx_sysflip[i] \in BOOLEAN \X BOOLEAN /\ sysflip[i] \in BOOLEAN /\ sysflip'[i] \in BOOLEAN
    BY <1>10
  <2> QED BY <1>4, <2>1, <2>2, SynchsClocked
<1>12. IF sysEdge THEN syncsys_txflip'[i][2] = syncsys_txflip[i][1] /\ syncsys_txflip'[i][1] \in {txflip[i], txflip'[i]}
       ELSE syncsys_txflip'[i] = syncsys_txflip[i]
  <2>1. syncsys_txflip'[i] \in Synchronised(syncsys_txflip[i], sysEdge, txflip[i], txflip'[i])
    BY <1>5
  <2>2. syncsys_txflip[i] \in BOOLEAN \X BOOLEAN /\ txflip[i] \in BOOLEAN /\ txflip'[i] \in BOOLEAN
    BY <1>10
  <2> QED BY <1>4, <2>1, <2>2, SynchsClocked
<1>13. allow_fct' => allow_fct \/ (sysEdge /\ txflip'[i] = txflip[i])
  BY AllowedLate
<1> HIDE DEF fillI, takeI
<1> DEFINE s == sysflip[i]
           t == txflip[i]
           f == synctx_sysflip[i]
           g == syncsys_txflip[i]
           s2 == sysflip'[i]
           t2 == txflip'[i]
           f2 == synctx_sysflip'[i]
           g2 == syncsys_txflip'[i]
           allow2 == allow_fct'
<1>14. /\ s \in BOOLEAN /\ t \in BOOLEAN /\ s2 \in BOOLEAN /\ t2 \in BOOLEAN /\ allow2 \in BOOLEAN /\ allow_fct \in BOOLEAN
       /\ f \in BOOLEAN \X BOOLEAN /\ g \in BOOLEAN \X BOOLEAN /\ f2 \in BOOLEAN \X BOOLEAN /\ g2 \in BOOLEAN \X BOOLEAN
       /\ fillI \in BOOLEAN /\ takeI \in BOOLEAN
  BY <1>3, <1>10
<1>15. IF s # t THEN (f[2] = s => f[1] = s) /\ g = <<t, t>>
       ELSE f = <<s, s>> /\ (allow_fct /\ g[2] = t => g[1] = t)
  BY <1>6
<1>16. (fillI => sysEdge /\ s = t /\ g = <<t, t>>) /\ (takeI => txEdge /\ s # t /\ f = <<s, s>>)
  BY <1>8, <1>9
<1>17. s2 = (IF fillI THEN ~s ELSE s) /\ t2 = (IF takeI THEN ~t ELSE t)
  BY <1>7
<1>18. /\ IF txEdge THEN f2[2] = f[1] /\ f2[1] \in {s, s2} ELSE f2 = f
       /\ IF sysEdge THEN g2[2] = g[1] /\ g2[1] \in {t, t2} ELSE g2 = g
       /\ allow2 => allow_fct \/ (sysEdge /\ t2 = t)
  BY <1>11, <1>13, <1>12
<1>19. (IF s2 # t2 THEN (f2[2] = s2 => f2[1] = s2) /\ g2 = <<t2, t2>>
        ELSE f2 = <<s2, s2>> /\ (allow2 /\ g2[2] = t2 => g2[1] = t2))
  <2> HIDE DEF s, t, f, g, s2, t2, f2, g2, allow2
  <2>1. f2 = <<f2[1], f2[2]>> /\ g2 = <<g2[1], g2[2]>>
    BY <1>14
  <2>2. CASE fillI
    BY <1>14, <1>15, <1>16, <1>17, <1>18, <2>1, <2>2
  <2>3. CASE takeI
    BY <1>14, <1>15, <1>16, <1>17, <1>18, <2>1, <2>3
  <2>4. CASE ~fillI /\ ~takeI /\ s # t
    BY <1>14, <1>15, <1>16, <1>17, <1>18, <2>1, <2>4
  <2>5. CASE ~fillI /\ ~takeI /\ s = t
    BY <1>14, <1>15, <1>16, <1>17, <1>18, <2>1, <2>5
  <2> QED BY <2>2, <2>3, <2>4, <2>5
<1> QED BY <1>19

LEMMA FillProper ==
  ASSUME NEW sysEdge \in BOOLEAN, NEW txEdge \in BOOLEAN, NEW in, Works(sysEdge, txEdge, in), fillNow(sysEdge, in)
  PROVE  Proper(token(in))
<1>1. timeFirst \/ takesFct(in) \/ takesChar
  BY DEF fillNow, fills
<1>2. token(in) \in TokenRecords /\ in \in XmitInput
  BY TokenOK DEF Works, InputOK
<1>3. pend_tick \in Times \cup {None} /\ pend_char \in Data \cup Ends \cup {None} /\ pend_fct \in BOOLEAN
  BY DEF Works, FastTypeOK
<1>4. CASE timeFirst
  <2>1. pend_tick \in Times /\ pend_tick # None
    BY <1>3, <1>4 DEF timeFirst
  <2>2. token(in).tick /\ ~token(in).fct /\ ~token(in).piggy /\ token(in).char = pend_tick
    BY <1>4 DEF token, Empty
  <2> QED BY <1>2, <2>1, <2>2 DEF Proper
<1>5. CASE ~timeFirst
  <2>1. /\ ~token(in).tick
        /\ token(in).fct <=> takesFct(in)
        /\ token(in).piggy <=> takesFct(in) /\ takesChar
        /\ token(in).char = IF takesChar THEN pend_char ELSE None
    BY <1>5 DEF token
  <2>2. takesChar => pend_char \in Data \cup Ends /\ pend_char # None
    BY <1>3 DEF takesChar
  <2> QED BY <1>1, <1>2, <1>5, <2>1, <2>2 DEF Proper
<1> QED BY <1>4, <1>5

(* What the slots hold after a step, and what stage B takes from them: never *)
(* a token that is being put there at the same time.                        *)
LEMMA SlotMoves ==
  ASSUME NEW sysEdge \in BOOLEAN, NEW txEdge \in BOOLEAN, NEW in, Works(sysEdge, txEdge, in)
  PROVE  /\ \A i \in Sides : slot'[i] = IF fillNow(sysEdge, in) /\ i = tokmux THEN token(in)
                                        ELSE IF takeNow(txEdge) /\ i = b_mux THEN Empty ELSE slot[i]
         /\ takeNow(txEdge) => b_valid' /\ b_token' = slot[b_mux]
<1> DEFINE F == IF sysEdge THEN Filled(in) ELSE slot
           fill == fillNow(sysEdge, in)
           take == takeNow(txEdge)
<1>1. slot \in [Sides -> TokenRecords] /\ tokmux \in Sides /\ b_mux \in Sides
  BY DEF Works, FastTypeOK
<1>2. F = IF fill THEN [slot EXCEPT ![tokmux] = token(in)] ELSE slot
  BY DEF Works, Working, Filled, fillNow
<1>3. slot' = IF take THEN [F EXCEPT ![b_mux] = Empty] ELSE F
  BY DEF Works, FastStep, Slots, takeNow
<1>4. fill /\ take => tokmux # b_mux
  BY FilledMoves
<1>5. txEdge => TxClock(F)
  BY DEF Works, FastStep
<1>6. take => b_valid' /\ b_token' \in {slot[b_mux], F[b_mux]}
  BY <1>5 DEF takeNow, takes, TxClock, TxEnabled, TxDisabled, StageB
<1> HIDE DEF F, fill, take
<1>7. \A i \in Sides : F[i] = IF fill /\ i = tokmux THEN token(in) ELSE slot[i]
  BY <1>1, <1>2
<1>8. DOMAIN F = Sides
  BY <1>1, <1>2
<1>9. \A i \in Sides : slot'[i] = IF fill /\ i = tokmux THEN token(in) ELSE IF take /\ i = b_mux THEN Empty ELSE slot[i]
  BY <1>3, <1>4, <1>7, <1>8
<1>10. take => b_token' = slot[b_mux]
  BY <1>1, <1>4, <1>6, <1>7
<1> QED BY <1>6, <1>9, <1>10 DEF fill, take

LEMMA SlotsStep ==
  ASSUME NEW sysEdge \in BOOLEAN, NEW txEdge \in BOOLEAN, NEW in, Works(sysEdge, txEdge, in)
  PROVE  SlotsOK'
<1> DEFINE fill == fillNow(sysEdge, in)
           take == takeNow(txEdge)
<1>1. /\ fill /\ take => tokmux # b_mux
      /\ \A i \in Sides : filled(i)' <=> (fill /\ i = tokmux) \/ (filled(i) /\ ~(take /\ i = b_mux))
  BY FilledMoves
<1>2. /\ fill => ~filled(tokmux)
      /\ tokmux' = IF fill THEN 1 - tokmux ELSE tokmux
  BY FillFacts
<1>3. /\ take => filled(b_mux)
      /\ b_mux' = IF take THEN 1 - b_mux ELSE b_mux
  BY TakeFacts
<1>4. \A i \in Sides : slot'[i] = IF fill /\ i = tokmux THEN token(in) ELSE IF take /\ i = b_mux THEN Empty ELSE slot[i]
  BY SlotMoves
<1>5. fill => Proper(token(in))
  BY FillProper
<1>6. SlotsOK /\ tokmux \in Sides /\ b_mux \in Sides /\ tokmux' \in Sides /\ b_mux' \in Sides
  BY DEF Works, Working, FastTypeOK
<1> DEFINE new == [i \in Sides |-> sysflip'[i] # txflip'[i]]
<1>7. \A i \in Sides : filled(i)' <=> new[i]
  BY DEF filled
<1>8. \A i \in Sides : new[i] <=> (fill /\ i = tokmux) \/ (filled(i) /\ ~(take /\ i = b_mux))
  BY <1>1, <1>7
<1> HIDE DEF fill, take, new
<1>9. \A i \in Sides : IF new[i] THEN Proper(slot'[i]) ELSE slot'[i] = Empty
  BY <1>1, <1>2, <1>3, <1>4, <1>5, <1>6, <1>8 DEF SlotsOK
<1>10. IF tokmux' = b_mux' THEN new[0] <=> new[1] ELSE new[b_mux'] /\ ~new[tokmux']
  <2>1. IF tokmux = b_mux THEN filled(0) <=> filled(1) ELSE filled(b_mux) /\ ~filled(tokmux)
    BY <1>6 DEF SlotsOK
  <2>2. /\ new[0] <=> (fill /\ tokmux = 0) \/ (filled(0) /\ ~(take /\ b_mux = 0))
        /\ new[1] <=> (fill /\ tokmux = 1) \/ (filled(1) /\ ~(take /\ b_mux = 1))
    BY <1>8, TheSides
  <2>3. (b_mux = 0 \/ b_mux = 1) /\ (tokmux = 0 \/ tokmux = 1)
    BY <1>6, TheSides
  <2>4. /\ tokmux' = IF fill THEN (IF tokmux = 0 THEN 1 ELSE 0) ELSE tokmux
        /\ b_mux' = IF take THEN (IF b_mux = 0 THEN 1 ELSE 0) ELSE b_mux
    BY <1>2, <1>3, <2>3
  <2>5. CASE b_mux = 0 /\ tokmux = 0
    BY <1>1, <1>2, <1>3, <2>1, <2>2, <2>4, <2>5
  <2>6. CASE b_mux = 1 /\ tokmux = 1
    BY <1>1, <1>2, <1>3, <2>1, <2>2, <2>4, <2>6
  <2>7. CASE b_mux = 0 /\ tokmux = 1
    BY <1>1, <1>2, <1>3, <2>1, <2>2, <2>4, <2>7
  <2>8. CASE b_mux = 1 /\ tokmux = 0
    BY <1>1, <1>2, <1>3, <2>1, <2>2, <2>4, <2>8
  <2> QED BY <2>3, <2>5, <2>6, <2>7, <2>8
<1>11. \A i \in Sides : IF sysflip'[i] # txflip'[i] THEN Proper(slot'[i]) ELSE slot'[i] = Empty
  BY <1>9 DEF new
<1>12. /\ tokmux' = b_mux' => (sysflip'[0] # txflip'[0] <=> sysflip'[1] # txflip'[1])
       /\ tokmux' # b_mux' => /\ sysflip'[b_mux'] # txflip'[b_mux']
                              /\ ~(sysflip'[tokmux'] # txflip'[tokmux'])
  BY <1>6, <1>10, TheSides DEF new
<1> QED BY <1>11, <1>12 DEF SlotsOK, filled, Proper

LEMMA NotYetStep ==
  ASSUME NEW sysEdge \in BOOLEAN, NEW txEdge \in BOOLEAN, NEW in, Works(sysEdge, txEdge, in)
  PROVE  NotYet'
<1>1. NotYet /\ FastTypeOK /\ FastTypeOK' /\ phase \in {"off", "null", "fct", "run"}
  BY DEF Works, Working, FastTypeOK
<1>2. ~allow_fct => txflip' = txflip
  <2>1. takeNow(txEdge) => filled(b_mux) /\ b_mux \in Sides
    BY TakeFacts DEF Works, FastTypeOK
  <2>2. ~allow_fct => ~takeNow(txEdge)
    BY <1>1, <2>1 DEF NotYet, filled, FastTypeOK
  <2> QED BY <2>2, TakeFacts
<1>3. CASE sysEdge
  <2>1. SysEnabled(in) /\ phase # "off" /\ LinkMoves /\ ~coreRst
    BY <1>3, SysWorks DEF Works, Working, FastStep, txen
  <2>2. allow_fct' = (phase # "null") /\ allow_char' = (phase = "run" /\ sent_fct)
    BY <2>1 DEF SysEnabled, Allowed
  <2>3. sent_fct => sent_fct'
    BY <2>1 DEF SysEnabled, Pending
  <2>4. allow_char' => allow_fct' /\ sent_fct'
    BY <1>1, <2>2, <2>3 DEF FastTypeOK
  <2>5. phase' = "null" => ~allow_fct'
    BY <1>1, <2>1, <2>2 DEF LinkMoves
  <2>6. ASSUME ~allow_fct'
        PROVE  /\ ~pend_fct' /\ pend_char' = None /\ ~sent_fct'
               /\ \A i \in Sides : ~sysflip'[i] /\ ~txflip'[i]
    <3>1. phase = "null" /\ ~allow_fct /\ ~allow_char /\ ~pend_fct /\ pend_char = None /\ ~sent_fct
      BY <1>1, <2>2, <2>6 DEF NotYet
    <3>2. ~timeFirst /\ ~takesFct(in) /\ ~takesChar /\ ~txack(in) /\ ~fills(in)
      BY <3>1 DEF timeFirst, takesFct, takesChar, txack, fills
    <3>3. ~pend_fct' /\ ~sent_fct'
      BY <2>1, <3>1, <3>2 DEF SysEnabled, Pending
    <3>4. pend_char' = None
      BY <2>1, <3>1, <3>2 DEF SysEnabled, Pending
    <3>5. sysflip' = sysflip /\ txflip' = txflip
      BY <1>2, <2>1, <3>1, <3>2 DEF SysEnabled, FlipFlag
    <3> QED BY <1>1, <3>1, <3>3, <3>4, <3>5 DEF NotYet
  <2> QED BY <2>4, <2>5, <2>6 DEF NotYet
<1>4. CASE ~sysEdge
  <2>1. UNCHANGED <<sysRegs, phase>>
    BY <1>4 DEF Works, FastStep, envVars
  <2> QED BY <1>1, <1>2, <2>1 DEF NotYet, sysRegs
<1> QED BY <1>3, <1>4

(***************************************************************************)
(* The pipeline.                                                           *)
(***************************************************************************)
twoCodes == startsWithEsc \/ b_token.piggy

(* A transmit clock, by whether the transmitter is enabled. *)
LEMMA TxWorks ==
  ASSUME NEW sysEdge \in BOOLEAN, NEW txEdge \in BOOLEAN, NEW in, Works(sysEdge, txEdge, in)
  PROVE  \/ ~txEdge /\ UNCHANGED txRegs
         \/ txEdge /\ ~enabled /\ TxDisabled /\ TxClear
         \/ /\ txEdge /\ enabled
            /\ b_update' = (loads /\ ~c_busy)
            /\ c_update' = (bitclken /\ e_count = 3)
            /\ b_update \/ UNCHANGED <<b_valid, b_token, b_mux, txflip>>
            /\ b_update => /\ b_valid' = takeNow(txEdge)
                           /\ b_token' = IF takeNow(txEdge) THEN slot[b_mux] ELSE Empty
            /\ StageC /\ StageD /\ StageE
<1> DEFINE F == IF sysEdge THEN Filled(in) ELSE slot
<1>1. IF txEdge THEN TxClock(F) ELSE UNCHANGED txRegs
  BY DEF Works, FastStep
<1> HIDE DEF F
<1>2. ~enabled => TxClear
  BY DEF Works, Working, Enabling
<1>3. takeNow(txEdge) => b_token' = slot[b_mux]
  BY SlotMoves
<1>4. takeNow(txEdge) <=> txEdge /\ enabled /\ b_update /\ fresh
  BY DEF takeNow, takes
<1>5. CASE ~txEdge
  BY <1>1, <1>5
<1>6. CASE txEdge /\ ~enabled
  BY <1>1, <1>2, <1>6 DEF TxClock, TxEnabled
<1>7. CASE txEdge /\ enabled
  <2>1. TxEnabled(F)
    BY <1>1, <1>7 DEF TxClock, TxDisabled
  <2>2. b_update \/ UNCHANGED <<b_valid, b_token, b_mux, txflip>>
    BY <2>1 DEF TxEnabled, StageB
  <2>3. b_update => b_valid' = takeNow(txEdge) /\ b_token' = IF takeNow(txEdge) THEN slot[b_mux] ELSE Empty
    <3>1. b_update => b_valid' = fresh /\ (~fresh => b_token' = Empty)
      BY <2>1 DEF TxEnabled, StageB
    <3>2. b_update => (takeNow(txEdge) <=> fresh)
      BY <1>4, <1>7
    <3>3. fresh \in BOOLEAN /\ takeNow(txEdge) \in BOOLEAN
      BY DEF fresh, takeNow, takes, enabled, Works, FastTypeOK
    <3> QED BY <1>3, <3>1, <3>2, <3>3
  <2> QED BY <1>7, <2>1, <2>2, <2>3 DEF TxEnabled
<1> QED BY <1>5, <1>6, <1>7

LEMMA EnablingStep ==
  ASSUME NEW sysEdge \in BOOLEAN, NEW txEdge \in BOOLEAN, NEW in, Works(sysEdge, txEdge, in), ~coreRst'
  PROVE  Enabling'
<1>1. FastTypeOK /\ FastTypeOK' /\ Enabling /\ PipeOK /\ ~coreRst
  BY DEF Works, Working
<1>2. txenreg \in BOOLEAN /\ txenreg' \in BOOLEAN /\ synctx_txen \in BOOLEAN \X BOOLEAN /\ synctx_txen' \in BOOLEAN \X BOOLEAN
  BY <1>1 DEF FastTypeOK
<1>3. txenreg => txenreg'
  <2>1. CASE sysEdge
    BY <1>2, <2>1, SysWorks DEF SysEnabled, Latch, Works
  <2>2. CASE ~sysEdge
    BY <2>2, SysWorks DEF sysRegs
  <2> QED BY <2>1, <2>2
<1>4. IF txEdge THEN synctx_txen'[2] = synctx_txen[1] /\ synctx_txen'[1] \in {txenreg, txenreg'}
      ELSE synctx_txen' = synctx_txen
  <2>1. synctx_txen' \in Synchronised(synctx_txen, txEdge, txenreg, txenreg')
    BY DEF Works, FastStep, SyncTx
  <2> QED BY <1>1, <1>2, <2>1, Synchs
<1>5. /\ synctx_txen[2] => synctx_txen[1]
      /\ synctx_txen[1] => txenreg
  BY <1>1 DEF Enabling, enabled
<1>6. /\ synctx_txen'[2] => synctx_txen'[1]
      /\ synctx_txen'[1] => txenreg'
  BY <1>2, <1>3, <1>4, <1>5
<1>7. ~enabled => ~txEdge \/ (TxDisabled /\ TxClear)
  BY TxWorks
<1>8. ASSUME ~synctx_txen'[2]
      PROVE  TxClear'
  <2>1. ~enabled /\ TxClear
    BY <1>1, <1>4, <1>5, <1>8 DEF Enabling, enabled
  <2>2. CASE txEdge
    BY <1>7, <2>1, <2>2 DEF TxDisabled, TxClear
  <2>3. CASE ~txEdge
    BY <2>1, <2>3, TxWorks DEF txRegs, TxClear
  <2> QED BY <2>2, <2>3
<1>9. ASSUME synctx_txen'[2], e_count' <= 1 \/ b_update'
      PROVE  b_txflip' = txflip'[b_mux']
  <2>1. CASE ~txEdge
    <3>1. UNCHANGED txRegs /\ enabled
      BY <1>4, <1>9, <2>1, TxWorks DEF enabled
    <3> QED BY <1>1, <1>9, <3>1 DEF txRegs, Enabling
  <2>2. CASE txEdge
    <3>1. b_txflip' = txflip[b_mux]
      BY <2>2 DEF Works, FastStep, TxClock
    <3>2. CASE ~enabled
      BY <1>7, <2>2, <3>1, <3>2 DEF TxDisabled, TxClear
    <3>3. CASE enabled
      <4>1. /\ b_update \/ UNCHANGED <<b_mux, txflip>>
            /\ b_update' = (loads /\ ~c_busy) /\ StageE
        BY <2>2, <3>3, TxWorks
      <4>2. ~b_update
        <5>1. ASSUME b_update PROVE FALSE
          <6>1. e_count >= 3 /\ e_count \in Nat
            BY <1>1, <5>1 DEF PipeOK, FastTypeOK
          <6>2. ~loads
            BY <6>1 DEF loads
          <6>3. e_count' = e_count - 1 \/ e_count' = e_count
            BY <4>1, <6>2 DEF StageE
          <6>4. ~b_update'
            BY <4>1, <6>2
          <6>5. e_count' <= 1
            BY <1>9, <6>4
          <6> QED BY <6>1, <6>3, <6>5
        <5> QED BY <5>1
      <4> QED BY <3>1, <4>1, <4>2
    <3> QED BY <3>2, <3>3
  <2> QED BY <2>1, <2>2
<1> QED BY <1>6, <1>8, <1>9 DEF Enabling, enabled

(* The stages in one transmit clock, without the words of the code. *)
LEMMA PipeMoves ==
  ASSUME NEW sysEdge \in BOOLEAN, NEW txEdge \in BOOLEAN, NEW in, Works(sysEdge, txEdge, in), txEdge, enabled
  PROVE  /\ c_update => ~b_update /\ e_count = 2
         /\ b_update => ~loads
         /\ b_update' = (loads /\ ~c_busy)
         /\ loads => e_count' >= 3 /\ ~c_update'
         /\ c_update' => e_count' = 2 /\ ~b_update'
         /\ pending \in BOOLEAN /\ pending' \in BOOLEAN
         /\ loads => pending /\ ~pending'
         /\ c_update => ~pending /\ pending'
         /\ ~c_update /\ ~loads => pending' = pending
         /\ b_update => ~pending /\ ~pending'
         /\ e_count' = 0 => ~c_update
<1>1. /\ e_count \in Nat /\ e_count' \in Nat /\ bitclken \in BOOLEAN
      /\ b_update \in BOOLEAN /\ c_update \in BOOLEAN /\ b_update' \in BOOLEAN /\ c_update' \in BOOLEAN
  BY DEF Works, FastTypeOK
<1>2. /\ b_update => e_count >= 3 /\ ~c_update
      /\ c_update => e_count = 2
  BY DEF Works, Working, PipeOK
<1>3. /\ b_update' = (loads /\ ~c_busy)
      /\ c_update' = (bitclken /\ e_count = 3)
      /\ StageE
  BY TxWorks
<1>4. loads <=> bitclken /\ e_count = 0
  BY DEF loads
<1>5. CASE loads
  <2>1. bitclken /\ e_count = 0 /\ ~b_update /\ ~c_update
    BY <1>2, <1>4, <1>5
  <2>2. e_count' >= 3
    BY <1>3, <1>5, LongBitsAssumption DEF StageE
  <2>3. ~c_update'
    <3>1. ~(e_count = 3)
      BY <2>1
    <3> QED BY <1>3, <3>1
  <2>4. pending /\ ~pending'
    BY <1>1, <2>1, <2>2 DEF pending
  <2>5. pending \in BOOLEAN /\ pending' \in BOOLEAN
    BY DEF pending
  <2> QED BY <1>3, <1>5, <2>1, <2>2, <2>3, <2>4, <2>5
<1>6. CASE ~loads /\ bitclken
  <2>1. e_count # 0 /\ e_count' = e_count - 1
    BY <1>3, <1>4, <1>6 DEF StageE
  <2>2. ~b_update'
    BY <1>3, <1>6
  <2>3. c_update' <=> e_count = 3
    BY <1>3, <1>6
  <2>4. c_update' => e_count' = 2
    BY <2>1, <2>3
  <2>5. pending' <=> e_count <= 2
    BY <1>1, <2>1, <2>3 DEF pending
  <2>6. pending <=> e_count <= 2 /\ ~c_update
    BY DEF pending
  <2>7. b_update => ~(e_count <= 2)
    BY <1>1, <1>2
  <2>8. c_update => e_count <= 2 /\ e_count' = 1
    BY <1>2, <2>1
  <2>9. pending \in BOOLEAN /\ pending' \in BOOLEAN
    BY DEF pending
  <2>10. b_update => ~pending /\ ~pending'
    BY <2>5, <2>6, <2>7
  <2>11. c_update => ~pending /\ pending' /\ ~b_update /\ e_count = 2 /\ e_count' # 0
    BY <1>2, <2>5, <2>6, <2>8
  <2>12. ~c_update => pending' = pending
    BY <2>5, <2>6, <2>9
  <2> QED BY <1>3, <1>6, <2>2, <2>4, <2>9, <2>10, <2>11, <2>12
<1>7. CASE ~bitclken
  <2>1. ~loads /\ e_count' = e_count
    BY <1>3, <1>4, <1>7 DEF StageE
  <2>2. ~b_update' /\ ~c_update'
    BY <1>3, <1>7, <2>1
  <2>3. pending' <=> e_count <= 2
    BY <2>1, <2>2 DEF pending
  <2>4. pending <=> e_count <= 2 /\ ~c_update
    BY DEF pending
  <2>5. b_update => ~(e_count <= 2)
    BY <1>1, <1>2
  <2>6. c_update => e_count <= 2 /\ e_count' # 0
    BY <1>2, <2>1
  <2>7. pending \in BOOLEAN /\ pending' \in BOOLEAN
    BY DEF pending
  <2>8. b_update => ~pending /\ ~pending'
    BY <2>3, <2>4, <2>5
  <2>9. c_update => ~pending /\ pending' /\ ~b_update /\ e_count = 2 /\ e_count' # 0
    BY <1>2, <2>3, <2>4, <2>6
  <2>10. ~c_update => pending' = pending
    BY <2>3, <2>4, <2>7
  <2> QED BY <1>3, <2>1, <2>2, <2>7, <2>8, <2>9, <2>10
<1> QED BY <1>1, <1>5, <1>6, <1>7

LEMMA PipeTypes ==
  ASSUME FastTypeOK
  PROVE  /\ b_update \in BOOLEAN /\ b_valid \in BOOLEAN /\ c_update \in BOOLEAN /\ c_busy \in BOOLEAN
         /\ c_esc \in BOOLEAN /\ c_fct \in BOOLEAN /\ pending \in BOOLEAN /\ loads \in BOOLEAN /\ half \in BOOLEAN
         /\ startsWithEsc \in BOOLEAN /\ twoCodes \in BOOLEAN
         /\ b_token.tick \in BOOLEAN /\ b_token.fct \in BOOLEAN /\ b_token.piggy \in BOOLEAN
<1>1. b_token \in TokenRecords /\ b_valid \in BOOLEAN
  BY DEF FastTypeOK
<1>2. b_token.tick \in BOOLEAN /\ b_token.fct \in BOOLEAN /\ b_token.piggy \in BOOLEAN
  BY <1>1 DEF TokenRecords
<1> QED BY <1>2 DEF FastTypeOK, pending, loads, half, startsWithEsc, twoCodes

(* What stage B holds, as far as the later stages are concerned. *)
LEMMA TokenShape ==
  ASSUME IF b_valid THEN Proper(b_token) ELSE b_token = Empty
  PROVE  /\ b_token.piggy => b_token.fct
         /\ b_valid /\ b_token.tick => ~b_token.fct /\ ~b_token.piggy
         /\ ~b_valid => ~b_token.fct /\ ~b_token.piggy /\ ~b_token.tick /\ b_token.char = None
<1>1. CASE b_valid
  BY <1>1 DEF Proper
<1>2. CASE ~b_valid
  BY <1>2 DEF Empty
<1> QED BY <1>1, <1>2

(* The stages keep in step with each other. *)
LEMMA PipeStep ==
  ASSUME NEW sysEdge \in BOOLEAN, NEW txEdge \in BOOLEAN, NEW in, Works(sysEdge, txEdge, in)
  PROVE  PipeOK'
<1>1. FastTypeOK /\ FastTypeOK' /\ PipeOK /\ SlotsOK
  BY DEF Works, Working
<1>2. CASE ~txEdge
  <2>1. UNCHANGED txRegs
    BY <1>2, TxWorks
  <2> QED BY <1>1, <2>1 DEF txRegs, PipeOK, pending, startsWithEsc, Proper
<1>3. CASE txEdge /\ ~enabled
  <2>1. TxDisabled
    BY <1>3, TxWorks
  <2>2. /\ ~b_update' /\ ~c_update' /\ ~b_valid' /\ b_token' = Empty /\ c_busy' /\ c_esc' /\ c_fct'
        /\ d_code' = "ESC"
    BY <2>1 DEF TxDisabled
  <2> QED BY <2>2 DEF PipeOK, startsWithEsc
<1>4. CASE txEdge /\ enabled
  <2>1. /\ b_update' = (loads /\ ~c_busy)
        /\ b_update \/ UNCHANGED <<b_valid, b_token, b_mux, txflip>>
        /\ b_update => /\ b_valid' = takeNow(txEdge)
                       /\ b_token' = IF takeNow(txEdge) THEN slot[b_mux] ELSE Empty
        /\ StageC /\ StageD
    BY <1>4, TxWorks
  <2>2. /\ c_update => ~b_update /\ e_count = 2
        /\ b_update => ~loads
        /\ loads => e_count' >= 3 /\ ~c_update'
        /\ c_update' => e_count' = 2 /\ ~b_update'
        /\ pending \in BOOLEAN /\ pending' \in BOOLEAN
        /\ loads => pending /\ ~pending'
        /\ c_update => ~pending /\ pending'
        /\ ~c_update /\ ~loads => pending' = pending
        /\ b_update => ~pending /\ ~pending'
        /\ e_count' = 0 => ~c_update
    BY <1>4, PipeMoves
  <2>3. /\ b_update \in BOOLEAN /\ b_valid \in BOOLEAN /\ c_update \in BOOLEAN /\ c_busy \in BOOLEAN
        /\ c_esc \in BOOLEAN /\ c_fct \in BOOLEAN /\ loads \in BOOLEAN
        /\ b_token.tick \in BOOLEAN /\ b_token.fct \in BOOLEAN /\ b_token.piggy \in BOOLEAN
    BY <1>1, PipeTypes
  <2>4. /\ b_token.piggy => b_token.fct
        /\ b_valid /\ b_token.tick => ~b_token.fct /\ ~b_token.piggy
        /\ ~b_valid => ~b_token.fct /\ ~b_token.piggy /\ ~b_token.tick /\ b_token.char = None
    BY <1>1, TokenShape DEF PipeOK
  <2>5. /\ b_update => ~c_busy
        /\ c_busy => /\ startsWithEsc \/ b_token.piggy
                     /\ c_esc <=> startsWithEsc
                     /\ ~c_esc => c_fct
        /\ ~c_busy => ~c_esc
        /\ ~c_busy /\ pending => /\ c_fct <=> (~b_valid \/ (b_token.fct /\ ~b_token.piggy))
                                 /\ c_char = b_token.char
    BY <1>1 DEF PipeOK
  <2>6. /\ startsWithEsc <=> b_token.tick \/ ~b_valid
        /\ startsWithEsc' <=> b_token'.tick \/ ~b_valid'
    BY DEF startsWithEsc
  <2>7. /\ c_update => /\ c_esc' = (startsWithEsc /\ ~c_esc)
                       /\ c_fct' = ((b_token.fct /\ ~c_busy) \/ ~b_valid)
                       /\ c_busy' = ((startsWithEsc \/ b_token.piggy) /\ ~c_busy)
                       /\ c_char' = b_token.char
        /\ ~c_update => c_esc' = c_esc /\ c_fct' = c_fct /\ c_busy' = c_busy /\ c_char' = c_char
    BY <2>1, <2>3 DEF StageC, startsWithEsc
  <2>8. ~b_update => b_token' = b_token /\ b_valid' = b_valid /\ startsWithEsc' = startsWithEsc
    BY <2>1 DEF startsWithEsc
  <2>9. b_update => c_busy' = c_busy
    BY <2>2, <2>7
  <2>10. b_update' => e_count' >= 3 /\ ~c_busy' /\ ~c_update'
    BY <2>1, <2>2, <2>7, PipeMoves, <1>4
  <2>11. c_update' => e_count' = 2
    BY <2>2
  <2>12. IF b_valid' THEN Proper(b_token') ELSE b_token' = Empty
    <3>1. takeNow(txEdge) => filled(b_mux) /\ b_mux \in Sides
      BY <1>1, TakeFacts DEF FastTypeOK
    <3>2. takeNow(txEdge) => Proper(slot[b_mux])
      BY <1>1, <3>1 DEF SlotsOK
    <3>3. CASE b_update
      <4>1. CASE takeNow(txEdge)
        BY <2>1, <3>2, <3>3, <4>1
      <4>2. CASE ~takeNow(txEdge)
        BY <2>1, <3>3, <4>2
      <4> QED BY <4>1, <4>2
    <3>4. CASE ~b_update
      BY <1>1, <2>8, <3>4 DEF PipeOK
    <3> QED BY <3>3, <3>4
  <2>13. c_busy' => /\ startsWithEsc' \/ b_token'.piggy
                    /\ c_esc' <=> startsWithEsc'
                    /\ ~c_esc' => c_fct'
    <3>1. CASE c_update
      BY <2>2, <2>3, <2>4, <2>5, <2>6, <2>7, <2>8, <3>1
    <3>2. CASE ~c_update
      <4>1. c_esc' = c_esc /\ c_fct' = c_fct /\ c_busy' = c_busy
        BY <2>7, <3>2
      <4>2. c_busy => b_token' = b_token /\ startsWithEsc' = startsWithEsc
        BY <2>5, <2>8
      <4> QED BY <2>5, <4>1, <4>2
    <3> QED BY <3>1, <3>2
  <2>14. ~c_busy' => ~c_esc'
    <3>1. CASE c_update
      BY <2>3, <2>5, <2>7, <3>1
    <3>2. CASE ~c_update
      BY <2>5, <2>7, <3>2
    <3> QED BY <3>1, <3>2
  <2>15. ~c_busy' /\ pending' => /\ c_fct' <=> (~b_valid' \/ (b_token'.fct /\ ~b_token'.piggy))
                                 /\ c_char' = b_token'.char
    <3>1. CASE c_update
      <4>1. b_token' = b_token /\ b_valid' = b_valid /\ c_char' = b_token.char
        BY <2>2, <2>7, <2>8, <3>1
      <4>2. ~c_busy' => (c_fct' <=> (~b_valid \/ (b_token.fct /\ ~b_token.piggy)))
        BY <2>3, <2>4, <2>5, <2>6, <2>7, <3>1
      <4> QED BY <4>1, <4>2
    <3>2. CASE ~c_update
      <4>1. pending' => pending /\ ~b_update
        BY <2>2, <3>2
      <4> QED BY <2>5, <2>7, <2>8, <3>2, <4>1
    <3> QED BY <3>1, <3>2
  <2>16. e_count' = 0 => d_code' = IF c_esc' THEN "ESC" ELSE IF c_fct' THEN "FCT" ELSE c_char'
    <3>1. d_code' = IF c_esc THEN "ESC" ELSE IF c_fct THEN "FCT" ELSE c_char
      BY <2>1 DEF StageD
    <3> QED BY <2>2, <2>7, <3>1
  <2> QED BY <2>10, <2>11, <2>12, <2>13, <2>14, <2>15, <2>16 DEF PipeOK
<1> QED BY <1>2, <1>3, <1>4

(***************************************************************************)
(* What is sent.                                                           *)
(***************************************************************************)
Words == /\ None \notin Data \cup Ends \cup Times
         /\ "ESC" \notin Data \cup Ends \cup Times /\ "FCT" \notin Data \cup Ends \cup Times
         /\ None # "ESC" /\ None # "FCT"
         /\ \A c \in Times : c \notin Data \cup Ends

LEMMA AllWords == Words
BY CodesAssumption DEF Words, None

Chars == Data \cup Ends \cup Times \cup {None}

LEMMA OfIsSeq ==
  ASSUME NEW tok \in TokenRecords, NEW kind
  PROVE  Of(kind, tok) \in Seq(Chars)
<1>1. tok.char \in Chars
  BY DEF TokenRecords, Chars
<1>2. <<tok.char>> \in Seq(Chars) /\ <<>> \in Seq(Chars)
  BY <1>1
<1> QED BY <1>2 DEF Of

LEMMA InSlotsIsSeq ==
  ASSUME FastTypeOK, NEW kind
  PROVE  /\ Of(kind, slot[b_mux]) \in Seq(Chars) /\ Of(kind, slot[1 - b_mux]) \in Seq(Chars)
         /\ Of(kind, b_token) \in Seq(Chars) /\ InSlots(kind) \in Seq(Chars)
<1>1. slot[b_mux] \in TokenRecords /\ slot[1 - b_mux] \in TokenRecords /\ b_token \in TokenRecords
  BY TheSides DEF FastTypeOK
<1>2. Of(kind, slot[b_mux]) \in Seq(Chars) /\ Of(kind, slot[1 - b_mux]) \in Seq(Chars) /\ Of(kind, b_token) \in Seq(Chars)
  BY <1>1, OfIsSeq
<1> QED BY <1>2, ConcatProperties DEF InSlots

(* A code that is sent is one of six. *)
SendsEsc   == c_busy /\ startsWithEsc /\ d_code = "ESC" /\ ~escaped /\ ~half
SendsAhead == /\ c_busy /\ ~startsWithEsc /\ b_token.piggy /\ b_token.fct /\ d_code = "FCT" /\ ~escaped
              /\ FctUnsent /\ ~half
SendsNull  == ~c_busy /\ ~b_valid /\ d_code = "FCT" /\ escaped /\ b_token = Empty
SendsTime  == /\ ~c_busy /\ b_valid /\ b_token.tick /\ b_token.char \in Times /\ d_code = b_token.char /\ escaped
              /\ ~b_token.fct
SendsFct   == /\ ~c_busy /\ b_valid /\ ~b_token.tick /\ b_token.fct /\ ~b_token.piggy /\ b_token.char = None
              /\ d_code = "FCT" /\ ~escaped /\ FctUnsent
SendsChar  == /\ ~c_busy /\ b_valid /\ ~b_token.tick /\ b_token.char \in Data \cup Ends /\ d_code = b_token.char
              /\ ~escaped /\ ~FctUnsent

LEMMA SendKinds ==
  ASSUME FastTypeOK, PipeOK, DueOK, loads
  PROVE  /\ ~b_update
         /\ SendsEsc \/ SendsAhead \/ SendsNull \/ SendsTime \/ SendsFct \/ SendsChar
<1>1. e_count = 0 /\ ~b_update /\ ~c_update /\ pending
  BY DEF loads, PipeOK, pending
<1>2. /\ b_update \in BOOLEAN /\ b_valid \in BOOLEAN /\ c_update \in BOOLEAN /\ c_busy \in BOOLEAN
      /\ c_esc \in BOOLEAN /\ c_fct \in BOOLEAN /\ half \in BOOLEAN /\ escaped \in BOOLEAN
      /\ b_token.tick \in BOOLEAN /\ b_token.fct \in BOOLEAN /\ b_token.piggy \in BOOLEAN
  BY PipeTypes DEF FastTypeOK
<1>3. /\ b_token.piggy => b_token.fct
      /\ b_valid /\ b_token.tick => ~b_token.fct /\ ~b_token.piggy
      /\ ~b_valid => ~b_token.fct /\ ~b_token.piggy /\ ~b_token.tick /\ b_token.char = None
  BY TokenShape DEF PipeOK
<1>4. half <=> ~c_busy
  BY <1>1, <1>2 DEF half
<1>5. escaped <=> startsWithEsc /\ half
  BY DEF DueOK
<1>6. startsWithEsc <=> b_token.tick \/ ~b_valid
  BY DEF startsWithEsc
<1>7. d_code = IF c_esc THEN "ESC" ELSE IF c_fct THEN "FCT" ELSE c_char
  BY <1>1 DEF PipeOK
<1>8. FctUnsent <=> b_token.fct /\ ~(b_token.piggy /\ half)
  BY <1>1 DEF FctUnsent
<1>9. CASE c_busy
  <2>1. /\ startsWithEsc \/ b_token.piggy
        /\ c_esc <=> startsWithEsc
        /\ ~c_esc => c_fct
    BY <1>9 DEF PipeOK
  <2>2. CASE startsWithEsc
    BY <1>1, <1>4, <1>5, <1>7, <1>9, <2>1, <2>2 DEF SendsEsc
  <2>3. CASE ~startsWithEsc
    BY <1>1, <1>3, <1>4, <1>5, <1>7, <1>8, <1>9, <2>1, <2>3 DEF SendsAhead
  <2> QED BY <2>2, <2>3
<1>10. CASE ~c_busy
  <2>1. /\ ~c_esc
        /\ c_fct <=> (~b_valid \/ (b_token.fct /\ ~b_token.piggy))
        /\ c_char = b_token.char
    BY <1>1, <1>10 DEF PipeOK
  <2>2. CASE ~b_valid
    <3>1. b_token = Empty
      BY <2>2 DEF PipeOK
    <3> QED BY <1>1, <1>4, <1>5, <1>6, <1>7, <1>10, <2>1, <2>2, <3>1 DEF SendsNull
  <2>3. ASSUME b_valid PROVE Proper(b_token)
    BY <2>3 DEF PipeOK
  <2>4. CASE b_valid /\ b_token.tick
    <3>1. b_token.char \in Times
      BY <2>3, <2>4 DEF Proper
    <3> QED BY <1>1, <1>3, <1>4, <1>5, <1>6, <1>7, <1>10, <2>1, <2>4, <3>1 DEF SendsTime
  <2>5. CASE b_valid /\ ~b_token.tick /\ b_token.fct /\ ~b_token.piggy
    <3>1. b_token.char = None
      BY <2>3, <2>5 DEF Proper
    <3> QED BY <1>1, <1>4, <1>5, <1>6, <1>7, <1>8, <1>10, <2>1, <2>5, <3>1 DEF SendsFct
  <2>6. CASE b_valid /\ ~b_token.tick /\ (b_token.fct => b_token.piggy)
    <3>1. b_token.char \in Data \cup Ends
      BY <1>3, <2>3, <2>6 DEF Proper
    <3>2. ~c_fct /\ d_code = b_token.char
      BY <1>7, <2>1, <2>6
    <3>3. ~FctUnsent /\ ~escaped
      BY <1>4, <1>5, <1>6, <1>8, <1>10, <2>6
    <3> QED BY <1>1, <1>10, <2>6, <3>1, <3>2, <3>3 DEF SendsChar
  <2> QED BY <1>2, <2>2, <2>4, <2>5, <2>6
<1> QED BY <1>2, <1>9, <1>10

(* Each of the six is what SentAsAccepted allows. *)
LEMMA InvIsAsAccepted ==
  ASSUME FastInv
  PROVE  SentAsAccepted
<1>1. FewDue
  BY DEF FastInv
<1>2. ASSUME sends, txen, ~coreRst
      PROVE  \/ d_code = "ESC" /\ ~escaped
             \/ d_code = "FCT" /\ (escaped \/ dueFcts > 0)
             \/ d_code \in Times /\ escaped /\ fctSent /\ dueTimes # <<>> /\ d_code = Head(dueTimes)
             \/ isChar(d_code) /\ ~escaped /\ fctSent /\ dueChars # <<>> /\ d_code = Head(dueChars)
  <2>1. loads /\ enabled /\ phase # "off"
    BY <1>2 DEF sends, txen
  <2>2. Working
    <3>1. Down[2] = FALSE
      BY DEF Down
    <3>2. synctx_txen # Down
      BY <2>1, <3>1 DEF enabled
    <3> QED BY <1>2, <2>1, <3>2 DEF FastInv, Resetting, Resting, Starting, AllDown
  <2>3. FastTypeOK /\ PipeOK /\ DueOK /\ FctFirst
    BY <2>2 DEF FastInv, Working
  <2>4. /\ ~b_update
        /\ SendsEsc \/ SendsAhead \/ SendsNull \/ SendsTime \/ SendsFct \/ SendsChar
    BY <2>1, <2>3, SendKinds
  <2>5. FctUnsent => dueFcts > 0
    <3>1. slot[b_mux].fct \in BOOLEAN /\ slot[1 - b_mux].fct \in BOOLEAN
      BY <2>3, TheSides DEF FastTypeOK, TokenRecords
    <3> QED BY <2>3, <3>1 DEF DueOK, One
  <2>6. b_token.char # None /\ ~FctUnsent => fctSent
    BY <2>3, <2>4 DEF FctFirst, FctAhead
  <2>7. b_token.char # None /\ b_token.tick => dueTimes # <<>> /\ Head(dueTimes) = b_token.char
    <3>1. ASSUME b_token.char # None, b_token.tick
          PROVE  dueTimes # <<>> /\ Head(dueTimes) = b_token.char
      <4>1. dueTimes = <<b_token.char>> \o InSlots("time")
        BY <2>3, <2>4, <3>1 DEF DueOK, Unsent, Of
      <4>2. InSlots("time") \in Seq(Chars)
        BY <2>3, InSlotsIsSeq
      <4> QED BY <4>1, <4>2
    <3> QED BY <3>1
  <2>8. b_token.char # None /\ ~b_token.tick => dueChars # <<>> /\ Head(dueChars) = b_token.char
    <3>1. ASSUME b_token.char # None, ~b_token.tick
          PROVE  dueChars # <<>> /\ Head(dueChars) = b_token.char
      <4> DEFINE P == IF pend_char = None THEN <<>> ELSE <<pend_char>>
      <4>1. dueChars = <<b_token.char>> \o InSlots("char") \o P
        BY <2>3, <2>4, <3>1 DEF DueOK, Unsent, Of
      <4>2. InSlots("char") \in Seq(Chars)
        BY <2>3, InSlotsIsSeq
      <4>3. b_token.char \in Chars /\ pend_char \in Chars
        BY <2>3 DEF FastTypeOK, TokenRecords, Chars
      <4>4. P \in Seq(Chars)
        BY <4>3
      <4> HIDE DEF P
      <4> QED BY <4>1, <4>2, <4>3, <4>4
    <3> QED BY <3>1
  <2>9. CASE SendsEsc
    BY <2>9 DEF SendsEsc
  <2>10. CASE SendsAhead \/ SendsFct \/ SendsNull
    BY <2>5, <2>10 DEF SendsAhead, SendsFct, SendsNull
  <2>11. CASE SendsTime
    BY <2>6, <2>7, <2>11, AllWords DEF SendsTime, Words, FctUnsent
  <2>12. CASE SendsChar
    BY <2>6, <2>8, <2>12, AllWords DEF SendsChar, Words, isChar
  <2> QED BY <2>4, <2>9, <2>10, <2>11, <2>12
<1> QED BY <1>1, <1>2 DEF SentAsAccepted, FewDue

(* When the first of two codes has been sent, and when the last one has. *)
LEMMA HalfMoves ==
  ASSUME NEW sysEdge \in BOOLEAN, NEW txEdge \in BOOLEAN, NEW in, Works(sysEdge, txEdge, in), txEdge, enabled
  PROVE  /\ b_update => ~half' /\ ~b_update' /\ ~half /\ ~loads
         /\ ~b_update => b_token' = b_token /\ b_valid' = b_valid /\ startsWithEsc' = startsWithEsc
         /\ ~b_update /\ ~loads => ~b_update' /\ (twoCodes => half' = half)
         /\ loads /\ c_busy => ~b_update' /\ ~half /\ half'
         /\ loads /\ ~c_busy => b_update' /\ ~half'
<1>1. /\ b_update' = (loads /\ ~c_busy)
      /\ b_update \/ UNCHANGED <<b_valid, b_token, b_mux, txflip>>
      /\ StageC
  BY TxWorks
<1>2. /\ c_update => ~b_update /\ e_count = 2
      /\ b_update => ~loads
      /\ loads => ~c_update'
      /\ pending \in BOOLEAN /\ pending' \in BOOLEAN
      /\ loads => pending /\ ~pending'
      /\ c_update => ~pending /\ pending'
      /\ ~c_update /\ ~loads => pending' = pending
      /\ b_update => ~pending /\ ~pending'
  BY PipeMoves
<1>3. FastTypeOK /\ PipeOK
  BY DEF Works, Working
<1>4. /\ b_update \in BOOLEAN /\ c_update \in BOOLEAN /\ c_busy \in BOOLEAN /\ loads \in BOOLEAN
      /\ half \in BOOLEAN /\ startsWithEsc \in BOOLEAN /\ twoCodes \in BOOLEAN
  BY <1>3, PipeTypes
<1>5. /\ c_update => c_busy' = (twoCodes /\ ~c_busy)
      /\ ~c_update => c_busy' = c_busy
  BY <1>1 DEF StageC, twoCodes, startsWithEsc
<1>6. /\ b_update => ~c_busy
      /\ c_busy => twoCodes
  BY <1>3 DEF PipeOK, twoCodes
<1>7. c_busy' \in BOOLEAN /\ half' \in BOOLEAN /\ b_update' \in BOOLEAN
  BY <1>1, <1>4, <1>5 DEF half, Works, FastTypeOK
<1>8. /\ half <=> ~b_update /\ (c_busy <=> ~pending)
      /\ half' <=> ~b_update' /\ (c_busy' <=> ~pending')
  <2>1. half' = (~b_update' /\ c_busy' # pending')
    BY DEF half
  <2> QED BY <1>2, <1>4, <1>7, <2>1 DEF half
<1>9. ~b_update => b_token' = b_token /\ b_valid' = b_valid /\ startsWithEsc' = startsWithEsc
  BY <1>1 DEF startsWithEsc
<1>10. loads => ~c_update
  BY <1>2
<1>11. b_update => ~half' /\ ~b_update' /\ ~half /\ ~loads
  BY <1>1, <1>2, <1>4, <1>5, <1>6, <1>8
<1>12. ~b_update /\ ~loads => ~b_update' /\ (twoCodes => half' = half)
  <2>1. ~loads => ~b_update'
    BY <1>1
  <2>2. CASE c_update
    BY <1>2, <1>4, <1>5, <1>6, <1>8, <1>7, <2>1, <2>2
  <2>3. CASE ~c_update
    BY <1>2, <1>4, <1>5, <1>8, <1>7, <2>1, <2>3
  <2> QED BY <2>2, <2>3
<1>13. loads /\ c_busy => ~b_update' /\ ~half /\ half'
  BY <1>1, <1>2, <1>4, <1>5, <1>8, <1>7, <1>10
<1>14. loads /\ ~c_busy => b_update' /\ ~half'
  BY <1>1, <1>8
<1> QED BY <1>9, <1>11, <1>12, <1>13, <1>14

sentPlain(txEdge) == txEdge /\ sends /\ ~escaped
fctGone(txEdge)   == sentPlain(txEdge) /\ d_code = "FCT"
charGone(txEdge)  == sentPlain(txEdge) /\ isChar(d_code)
timeGone(txEdge)  == txEdge /\ sends /\ d_code \in Times

acked(sysEdge, in) == sysEdge /\ txack(in)
timed(sysEdge)     == sysEdge /\ timeFirst /\ needtoken

(* The history, in terms of what is accepted and what is sent. *)
LEMMA HistoryMoves ==
  ASSUME NEW sysEdge \in BOOLEAN, NEW txEdge \in BOOLEAN, NEW in, Works(sysEdge, txEdge, in)
  PROVE  /\ dueFcts' = (IF fctGone(txEdge) /\ dueFcts > 0 THEN dueFcts - 1 ELSE dueFcts) + One(sysEdge /\ fctack(in))
         /\ dueChars' = LET less == IF charGone(txEdge) /\ dueChars # <<>> THEN Tail(dueChars) ELSE dueChars
                        IN  IF acked(sysEdge, in) THEN Append(less, in.txwrite) ELSE less
         /\ dueTimes' = LET less == IF timeGone(txEdge) /\ dueTimes # <<>> THEN Tail(dueTimes) ELSE dueTimes
                        IN  IF timed(sysEdge) THEN Append(less, pend_tick) ELSE less
         /\ escaped' = (IF txEdge /\ sends THEN d_code = "ESC" ELSE escaped)
         /\ fctSent' = (fctSent \/ fctGone(txEdge))
<1>1. History(sysEdge, txEdge, in) /\ ~(sysEdge /\ (coreRst \/ ~txen))
  BY DEF Works, Working, FastStep
<1> QED BY <1>1 DEF History, One, fctGone, charGone, timeGone, sentPlain, acked, timed

(* Stage B and what it still has to send, over one step. *)
LEMMA StageBMoves ==
  ASSUME NEW sysEdge \in BOOLEAN, NEW txEdge \in BOOLEAN, NEW in, Works(sysEdge, txEdge, in)
  PROVE  /\ escaped' <=> startsWithEsc' /\ half'
         /\ takeNow(txEdge) => /\ ~sends /\ b_update /\ ~b_update' /\ ~half'
                               /\ b_token' = slot[b_mux]
         /\ ~takeNow(txEdge) =>
              \/ ~(txEdge /\ sends) /\ ~b_update /\ ~b_update' /\ b_token' = b_token /\ (b_token.piggy => half' = half)
              \/ ~(txEdge /\ sends) /\ b_update /\ (b_update' \/ b_token' = Empty)
              \/ txEdge /\ sends /\ ~b_update /\ ~b_update' /\ b_token' = b_token /\ half' /\ (SendsEsc \/ SendsAhead)
              \/ txEdge /\ sends /\ ~b_update /\ b_update' /\ (SendsNull \/ SendsTime \/ SendsFct \/ SendsChar)
<1>1. FastTypeOK /\ PipeOK /\ DueOK
  BY DEF Works, Working
<1>2. escaped' = (IF txEdge /\ sends THEN d_code = "ESC" ELSE escaped)
  BY HistoryMoves
<1>3. escaped <=> startsWithEsc /\ half
  BY <1>1 DEF DueOK
<1>4. takeNow(txEdge) => txEdge /\ enabled /\ b_update /\ b_token' = slot[b_mux]
  BY TakeFacts, SlotMoves
<1>5. escaped \in BOOLEAN /\ half \in BOOLEAN /\ startsWithEsc \in BOOLEAN /\ loads \in BOOLEAN
  BY <1>1, PipeTypes DEF FastTypeOK
<1>6. CASE ~txEdge
  <2>1. UNCHANGED txRegs
    BY <1>6, TxWorks
  <2>2. b_update' = b_update /\ b_token' = b_token /\ half' = half /\ startsWithEsc' = startsWithEsc
    BY <2>1 DEF txRegs, half, pending, startsWithEsc
  <2>3. escaped' = escaped /\ ~takeNow(txEdge)
    BY <1>2, <1>4, <1>6
  <2> QED BY <1>3, <1>5, <1>6, <2>2, <2>3
<1>7. CASE txEdge /\ ~enabled
  <2>1. TxDisabled /\ TxClear /\ ~sends /\ ~takeNow(txEdge)
    BY <1>4, <1>7, TxWorks DEF sends
  <2>2. ~b_update /\ ~b_update' /\ b_token = Empty /\ b_token' = Empty /\ Empty.piggy = FALSE
    BY <2>1 DEF TxDisabled, TxClear, Empty
  <2>3. ~half /\ ~half'
    <3>1. e_count = 0 /\ e_count' = 0 /\ ~c_update /\ ~c_update' /\ c_busy = TRUE /\ c_busy' = TRUE
      BY <1>1, <2>1 DEF TxDisabled, TxClear, FastTypeOK
    <3>2. pending = TRUE /\ pending' = TRUE
      BY <3>1 DEF pending
    <3> QED BY <3>1, <3>2 DEF half
  <2>4. ~escaped'
    BY <1>2, <1>3, <1>5, <2>1, <2>3
  <2> QED BY <2>1, <2>2, <2>3, <2>4
<1>8. CASE txEdge /\ enabled
  <2>1. /\ b_update => ~half' /\ ~b_update' /\ ~half /\ ~loads
        /\ ~b_update => b_token' = b_token /\ b_valid' = b_valid /\ startsWithEsc' = startsWithEsc
        /\ ~b_update /\ ~loads => ~b_update' /\ (twoCodes => half' = half)
        /\ loads /\ c_busy => ~b_update' /\ ~half /\ half'
        /\ loads /\ ~c_busy => b_update' /\ ~half'
    BY <1>8, HalfMoves
  <2>2. sends <=> loads
    BY <1>5, <1>8 DEF sends
  <2>3. CASE b_update
    <3>1. ~sends /\ ~half' /\ ~b_update' /\ ~escaped'
      BY <1>2, <1>3, <2>1, <2>2, <2>3
    <3>2. ~takeNow(txEdge) => b_token' = Empty
      BY <1>8, <2>3, TxWorks
    <3> QED BY <1>4, <2>3, <3>1, <3>2
  <2>4. CASE ~b_update /\ ~loads
    <3>1. ~takeNow(txEdge) /\ ~sends /\ escaped' = escaped
      BY <1>2, <1>4, <2>2, <2>4
    <3>2. startsWithEsc => half' = half
      BY <2>1, <2>4 DEF twoCodes
    <3>3. b_token.piggy => half' = half
      BY <2>1, <2>4 DEF twoCodes
    <3> QED BY <1>3, <2>1, <2>4, <3>1, <3>2, <3>3
  <2>5. CASE loads
    <3>1. /\ ~b_update
          /\ SendsEsc \/ SendsAhead \/ SendsNull \/ SendsTime \/ SendsFct \/ SendsChar
      BY <1>1, <2>5, SendKinds
    <3>2. ~takeNow(txEdge) /\ sends /\ escaped' = (d_code = "ESC")
      BY <1>2, <1>4, <1>8, <2>2, <2>5, <3>1
    <3>3. CASE c_busy
      <4>1. (SendsEsc \/ SendsAhead) /\ ~b_update' /\ half'
        BY <2>1, <2>5, <3>1, <3>3 DEF SendsNull, SendsTime, SendsFct, SendsChar
      <4>2. escaped' <=> startsWithEsc
        BY <3>2, <4>1 DEF SendsEsc, SendsAhead
      <4>3. startsWithEsc' = startsWithEsc /\ b_token' = b_token
        BY <2>1, <3>1
      <4>4. escaped' <=> startsWithEsc' /\ half'
        BY <1>5, <4>1, <4>2, <4>3
      <4> QED BY <1>8, <3>1, <3>2, <4>1, <4>3, <4>4
    <3>4. CASE ~c_busy
      <4>1. (SendsNull \/ SendsTime \/ SendsFct \/ SendsChar) /\ b_update' /\ ~half'
        BY <2>1, <2>5, <3>1, <3>4 DEF SendsEsc, SendsAhead
      <4>2. ~escaped'
        BY <3>2, <4>1, AllWords DEF Words, SendsNull, SendsTime, SendsFct, SendsChar
      <4> QED BY <1>8, <3>1, <3>2, <4>1, <4>2
    <3> QED BY <3>3, <3>4
  <2> QED BY <1>5, <2>3, <2>4, <2>5
<1> QED BY <1>6, <1>7, <1>8

(***************************************************************************)
(* The queue of what was accepted: stage B, the slots, what waits.         *)
(***************************************************************************)
LEMMA TailConcat ==
  ASSUME NEW S, NEW s \in Seq(S), NEW t \in Seq(S), s # <<>>
  PROVE  Tail(s \o t) = Tail(s) \o t /\ s \o t # <<>>
<1> DEFINE u == s \o t
           v == Tail(s) \o t
<1>1. Len(s) >= 1 /\ Tail(s) \in Seq(S) /\ Len(Tail(s)) = Len(s) - 1
  OBVIOUS
<1>2. u \in Seq(S) /\ Len(u) = Len(s) + Len(t)
  OBVIOUS
<1>3. v \in Seq(S) /\ Len(v) = Len(s) - 1 + Len(t)
  BY <1>1
<1>4. u # <<>>
  BY <1>1, <1>2
<1>5. Tail(u) \in Seq(S) /\ Len(Tail(u)) = Len(v)
  BY <1>1, <1>2, <1>3, <1>4
<1>6. \A i \in 1..Len(v) : Tail(u)[i] = v[i]
  <2> SUFFICES ASSUME NEW i \in 1..Len(v) PROVE Tail(u)[i] = v[i]
    OBVIOUS
  <2>1. Tail(u)[i] = u[i + 1]
    BY <1>2, <1>3, <1>4, <1>5
  <2>2. CASE i <= Len(s) - 1
    BY <1>1, <1>3, <2>1, <2>2
  <2>3. CASE i > Len(s) - 1
    BY <1>1, <1>3, <2>1, <2>3
  <2> QED BY <1>1, <1>3, <2>2, <2>3
<1>7. Tail(u) = v
  BY <1>3, <1>5, <1>6, SeqEqual
<1> QED BY <1>4, <1>7

(* Filling and taking a slot, with the slots in the order they are taken. *)
LEMMA SlotCases ==
  ASSUME NEW sysEdge \in BOOLEAN, NEW txEdge \in BOOLEAN, NEW in, Works(sysEdge, txEdge, in)
  PROVE  LET front == slot'[b_mux']
             back  == slot'[1 - b_mux']
             fill  == fillNow(sysEdge, in)
             take  == takeNow(txEdge)
         IN \/ ~take /\ ~fill /\ front = slot[b_mux] /\ back = slot[1 - b_mux]
            \/ take /\ ~fill /\ front = slot[1 - b_mux] /\ back = Empty
            \/ ~take /\ fill /\ slot[b_mux] = Empty /\ slot[1 - b_mux] = Empty /\ front = token(in) /\ back = Empty
            \/ ~take /\ fill /\ slot[1 - b_mux] = Empty /\ front = slot[b_mux] /\ back = token(in)
            \/ take /\ fill /\ slot[1 - b_mux] = Empty /\ front = token(in) /\ back = Empty
<1> DEFINE fill == fillNow(sysEdge, in)
           take == takeNow(txEdge)
<1>1. b_mux \in Sides /\ tokmux \in Sides /\ 1 - b_mux \in Sides /\ SlotsOK
  BY TheSides DEF Works, Working, FastTypeOK
<1>2. (fill => ~filled(tokmux)) /\ (take => filled(b_mux)) /\ (fill /\ take => tokmux # b_mux)
  BY FillFacts, TakeFacts, FilledMoves
<1>3. b_mux' = IF take THEN 1 - b_mux ELSE b_mux
  BY TakeFacts
<1>4. \A i \in Sides : slot'[i] = IF fill /\ i = tokmux THEN token(in) ELSE IF take /\ i = b_mux THEN Empty ELSE slot[i]
  BY SlotMoves
<1> HIDE DEF fill, take
<1>5. fill => slot[tokmux] = Empty
  BY <1>1, <1>2 DEF SlotsOK
<1>6. fill /\ tokmux = b_mux => slot[1 - b_mux] = Empty
  <2>1. fill /\ tokmux = b_mux => \A i \in Sides : ~filled(i)
    BY <1>1, <1>2, TheSides DEF SlotsOK
  <2> QED BY <1>1, <2>1 DEF SlotsOK
<1>7. (tokmux = b_mux \/ tokmux = 1 - b_mux) /\ 1 - b_mux # b_mux /\ 1 - (1 - b_mux) = b_mux
  BY <1>1, TheSides
<1>8. CASE take
  <2>1. b_mux' = 1 - b_mux /\ 1 - b_mux' = b_mux
    BY <1>3, <1>7, <1>8
  <2>2. slot'[b_mux] = Empty
    BY <1>1, <1>2, <1>4, <1>8
  <2>3. slot'[1 - b_mux] = IF fill THEN token(in) ELSE slot[1 - b_mux]
    BY <1>1, <1>2, <1>4, <1>7, <1>8
  <2>4. fill => slot[1 - b_mux] = Empty
    BY <1>2, <1>5, <1>7, <1>8
  <2> QED BY <1>8, <2>1, <2>2, <2>3, <2>4 DEF fill, take
<1>9. CASE ~take
  <2>1. b_mux' = b_mux
    BY <1>3, <1>9
  <2>2. slot'[b_mux] = IF fill /\ tokmux = b_mux THEN token(in) ELSE slot[b_mux]
    BY <1>1, <1>4, <1>9
  <2>3. slot'[1 - b_mux] = IF fill /\ tokmux # b_mux THEN token(in) ELSE slot[1 - b_mux]
    BY <1>1, <1>4, <1>7, <1>9
  <2> QED BY <1>5, <1>6, <1>7, <1>9, <2>1, <2>2, <2>3 DEF fill, take
<1> QED BY <1>8, <1>9

goneOf(kind, txEdge) == IF kind = "char" THEN charGone(txEdge) ELSE timeGone(txEdge)

(* A code of stage B is sent once, and then stage B takes the next token. *)
LEMMA UnsentMoves ==
  ASSUME NEW sysEdge \in BOOLEAN, NEW txEdge \in BOOLEAN, NEW in, Works(sysEdge, txEdge, in), NEW kind \in Kinds
  PROVE  /\ takeNow(txEdge) => /\ ~goneOf(kind, txEdge) /\ Unsent(kind) = <<>>
                               /\ Unsent(kind)' = Of(kind, slot[b_mux])
         /\ ~takeNow(txEdge) => IF goneOf(kind, txEdge) THEN Unsent(kind) # <<>> /\ Unsent(kind)' = Tail(Unsent(kind))
                                ELSE Unsent(kind)' = Unsent(kind)
<1> DEFINE take == takeNow(txEdge)
           S == txEdge /\ sends
<1>1. /\ take => /\ ~sends /\ b_update /\ ~b_update'
                 /\ b_token' = slot[b_mux]
      /\ ~take =>
           \/ ~S /\ ~b_update /\ ~b_update' /\ b_token' = b_token
           \/ ~S /\ b_update /\ (b_update' \/ b_token' = Empty)
           \/ S /\ ~b_update /\ ~b_update' /\ b_token' = b_token /\ (SendsEsc \/ SendsAhead)
           \/ S /\ ~b_update /\ b_update' /\ (SendsNull \/ SendsTime \/ SendsFct \/ SendsChar)
  BY StageBMoves
<1>2. /\ charGone(txEdge) <=> S /\ ~escaped /\ isChar(d_code)
      /\ timeGone(txEdge) <=> S /\ d_code \in Times
  BY DEF charGone, timeGone, sentPlain
<1>3. goneOf(kind, txEdge) <=> S /\ IF kind = "char" THEN ~escaped /\ isChar(d_code) ELSE d_code \in Times
  BY <1>2 DEF goneOf
<1> HIDE DEF take, S
<1>4. Of(kind, Empty) = <<>>
  BY DEF Of, Empty
<1>5. (Unsent(kind) = IF b_update THEN <<>> ELSE Of(kind, b_token)) /\ Unsent(kind)' = IF b_update' THEN <<>> ELSE Of(kind, b_token')
  BY DEF Unsent, Of
<1>6. ASSUME take
      PROVE  /\ ~goneOf(kind, txEdge) /\ Unsent(kind) = <<>>
             /\ Unsent(kind)' = Of(kind, slot[b_mux])
  BY <1>1, <1>3, <1>5, <1>6 DEF S
<1>7. ASSUME ~take
      PROVE  IF goneOf(kind, txEdge) THEN Unsent(kind) # <<>> /\ Unsent(kind)' = Tail(Unsent(kind))
             ELSE Unsent(kind)' = Unsent(kind)
  <2>1. CASE ~S /\ ~b_update /\ ~b_update' /\ b_token' = b_token
    BY <1>3, <1>5, <2>1
  <2>2. CASE ~S /\ b_update /\ (b_update' \/ b_token' = Empty)
    BY <1>3, <1>4, <1>5, <2>2
  <2>3. CASE S /\ ~b_update /\ ~b_update' /\ b_token' = b_token /\ (SendsEsc \/ SendsAhead)
    <3>1. ~goneOf(kind, txEdge)
      BY <1>3, <2>3, AllWords DEF SendsEsc, SendsAhead, Words, isChar
    <3> QED BY <1>5, <2>3, <3>1
  <2>4. CASE S /\ ~b_update /\ b_update' /\ (SendsNull \/ SendsTime \/ SendsFct \/ SendsChar)
    <3>1. Unsent(kind) = Of(kind, b_token) /\ Unsent(kind)' = <<>>
      BY <1>5, <2>4
    <3>2. CASE SendsNull \/ SendsFct
      <4>1. ~goneOf(kind, txEdge)
        BY <1>3, <3>2, AllWords DEF SendsNull, SendsFct, Words, isChar
      <4>2. b_token.char = None
        BY <3>2 DEF SendsNull, SendsFct, Empty
      <4> QED BY <3>1, <4>1, <4>2 DEF Of
    <3>3. CASE SendsTime
      <4>1. b_token.tick /\ b_token.char = d_code /\ d_code \in Times /\ d_code # None /\ escaped
        BY <3>3, AllWords DEF SendsTime, Words
      <4>2. goneOf(kind, txEdge) <=> kind = "time"
        BY <1>3, <2>4, <4>1 DEF Kinds
      <4>3. Of(kind, b_token) = IF kind = "time" THEN <<d_code>> ELSE <<>>
        BY <4>1 DEF Of
      <4>4. <<d_code>> # <<>> /\ Tail(<<d_code>>) = <<>>
        OBVIOUS
      <4> QED BY <3>1, <4>2, <4>3, <4>4
    <3>4. CASE SendsChar
      <4>1. ~b_token.tick /\ b_token.char = d_code /\ isChar(d_code) /\ d_code \notin Times /\ d_code # None /\ ~escaped
        BY <3>4, AllWords DEF SendsChar, Words, isChar
      <4>2. goneOf(kind, txEdge) <=> kind = "char"
        BY <1>3, <2>4, <4>1
      <4>3. Of(kind, b_token) = IF kind = "char" THEN <<d_code>> ELSE <<>>
        BY <4>1 DEF Of, Kinds
      <4>4. <<d_code>> # <<>> /\ Tail(<<d_code>>) = <<>>
        OBVIOUS
      <4> QED BY <3>1, <4>2, <4>3, <4>4
    <3> QED BY <2>4, <3>2, <3>3, <3>4
  <2> QED BY <1>1, <1>7, <2>1, <2>2, <2>3, <2>4
<1> QED BY <1>6, <1>7 DEF take

(* Stage B and the slots are a queue: what is sent leaves at its head, what *)
(* is filled enters at its end, also in the same step.                      *)
LEMMA QueueMoves ==
  ASSUME NEW sysEdge \in BOOLEAN, NEW txEdge \in BOOLEAN, NEW in, Works(sysEdge, txEdge, in), NEW kind \in Kinds
  PROVE  LET before == Unsent(kind) \o InSlots(kind)
             gone   == goneOf(kind, txEdge)
         IN /\ gone => before # <<>>
            /\ Unsent(kind)' \o InSlots(kind)' =
                 (IF gone THEN Tail(before) ELSE before)
                   \o (IF fillNow(sysEdge, in) THEN Of(kind, token(in)) ELSE <<>>)
<1> DEFINE u  == Unsent(kind)
           u2 == Unsent(kind)'
           a  == Of(kind, slot[b_mux])
           b  == Of(kind, slot[1 - b_mux])
           a2 == Of(kind, slot'[b_mux'])
           b2 == Of(kind, slot'[1 - b_mux'])
           t  == Of(kind, token(in))
           fill == fillNow(sysEdge, in)
           take == takeNow(txEdge)
           gone == goneOf(kind, txEdge)
           r  == IF gone THEN Tail(u) ELSE u
           e  == <<>>
<1>1. InSlots(kind) = a \o b /\ InSlots(kind)' = a2 \o b2
  BY DEF InSlots, Of
<1>2. /\ take => ~gone /\ u = e /\ u2 = a
      /\ ~take => IF gone THEN u # e /\ u2 = Tail(u) ELSE u2 = u
  BY UnsentMoves
<1>3. Of(kind, Empty) = e
  BY DEF Of, Empty
<1>4. \/ ~take /\ ~fill /\ a2 = a /\ b2 = b
      \/ take /\ ~fill /\ a2 = b /\ b2 = e
      \/ ~take /\ fill /\ a = e /\ b = e /\ a2 = t /\ b2 = e
      \/ ~take /\ fill /\ b = e /\ a2 = a /\ b2 = t
      \/ take /\ fill /\ b = e /\ a2 = t /\ b2 = e
  <2> HIDE DEF fill, take, e
  <2> QED BY <1>3, SlotCases DEF fill, take
<1>5. u \in Seq(Chars) /\ a \in Seq(Chars) /\ b \in Seq(Chars) /\ e \in Seq(Chars)
  <2>1. a \in Seq(Chars) /\ b \in Seq(Chars) /\ Of(kind, b_token) \in Seq(Chars)
    BY InSlotsIsSeq DEF Works
  <2>2. e \in Seq(Chars)
    OBVIOUS
  <2> QED BY <2>1, <2>2 DEF Unsent
<1>6. t \in Seq(Chars)
  BY TokenOK, OfIsSeq DEF Works, InputOK
<1>7. \A s \in Seq(Chars) : s \o e = s /\ e \o s = s
  BY ConcatEmptySeq
<1> HIDE DEF u, u2, a, b, a2, b2, t, fill, take, gone, e
<1>8. a \o b \in Seq(Chars) /\ a \o t \in Seq(Chars)
  BY <1>5, <1>6, ConcatProperties
<1>9. gone => u # e
  BY <1>2
<1>10. /\ gone => u \o (a \o b) # e
       /\ (IF gone THEN Tail(u \o (a \o b)) ELSE u \o (a \o b)) = r \o (a \o b)
       /\ r \in Seq(Chars)
  <2> DEFINE c == a \o b
  <2>1. c \in Seq(Chars)
    BY <1>8
  <2> HIDE DEF c
  <2>2. CASE gone
    <3>1. u # <<>>
      BY <1>9, <2>2 DEF e
    <3>2. Tail(u \o c) = Tail(u) \o c /\ u \o c # <<>> /\ Tail(u) \in Seq(Chars)
      BY <1>5, <2>1, <3>1, TailConcat
    <3> QED BY <2>2, <3>2 DEF c, e
  <2>3. CASE ~gone
    BY <1>5, <2>3 DEF c
  <2> QED BY <2>2, <2>3
<1>11. r \in Seq(Chars)
  BY <1>10
<1>12. r \o (a \o b) \in Seq(Chars) /\ (r \o a) \o t = r \o (a \o t)
  <2> HIDE DEF r
  <2>1. r \o (a \o b) \in Seq(Chars)
    BY <1>8, <1>11, ConcatProperties
  <2>2. (r \o a) \o t = r \o (a \o t)
    <3>1. r \in Seq(Chars) /\ a \in Seq(Chars) /\ t \in Seq(Chars)
      BY <1>5, <1>6, <1>11
    <3> QED BY <3>1, ConcatAssociative
  <2> QED BY <2>1, <2>2
<1>13. ~take => u2 = r
  BY <1>2
<1>14. take => r = e /\ u2 = a
  BY <1>2
<1> HIDE DEF r
<1>15. u2 \o (a2 \o b2) = (r \o (a \o b)) \o (IF fill THEN t ELSE e)
  <2>1. CASE ~take /\ ~fill /\ a2 = a /\ b2 = b
    BY <1>7, <1>12, <1>13, <2>1
  <2>2. CASE take /\ ~fill /\ a2 = b /\ b2 = e
    BY <1>5, <1>7, <1>8, <1>14, <2>2
  <2>3. CASE ~take /\ fill /\ a = e /\ b = e /\ a2 = t /\ b2 = e
    BY <1>5, <1>6, <1>7, <1>10, <1>13, <2>3
  <2>4. CASE ~take /\ fill /\ b = e /\ a2 = a /\ b2 = t
    BY <1>5, <1>7, <1>12, <1>13, <2>4
  <2>5. CASE take /\ fill /\ b = e /\ a2 = t /\ b2 = e
    BY <1>5, <1>6, <1>7, <1>14, <2>5
  <2> QED BY <1>4, <2>1, <2>2, <2>3, <2>4, <2>5
<1>16. /\ gone => u \o InSlots(kind) # e
       /\ u2 \o InSlots(kind)' = (IF gone THEN Tail(u \o InSlots(kind)) ELSE u \o InSlots(kind)) \o (IF fill THEN t ELSE e)
  BY <1>1, <1>10, <1>15
<1> QED BY <1>16 DEF u, u2, t, fill, gone, e

Waits(c) == IF c = None THEN <<>> ELSE <<c>>

(* What is put into a slot is what waited for it. *)
LEMMA TokenIs ==
  ASSUME NEW in
  PROVE  /\ Of("char", token(in)) = IF takesChar THEN <<pend_char>> ELSE <<>>
         /\ pend_tick \in Times \cup {None} => Of("time", token(in)) = IF timeFirst THEN <<pend_tick>> ELSE <<>>
         /\ token(in).fct \in BOOLEAN => (token(in).fct <=> takesFct(in))
<1>1. CASE timeFirst
  <2>1. token(in).tick = TRUE /\ token(in).char = pend_tick /\ token(in).fct = FALSE
    BY <1>1 DEF token, Empty
  <2>2. ~takesChar /\ ~takesFct(in) /\ pend_tick # None
    BY <1>1 DEF takesChar, takesFct, timeFirst
  <2> QED BY <1>1, <2>1, <2>2 DEF Of
<1>2. CASE ~timeFirst
  <2>1. token(in).tick = FALSE /\ token(in).char = (IF takesChar THEN pend_char ELSE None) /\ token(in).fct = takesFct(in)
    BY <1>2 DEF token
  <2>2. takesChar => pend_char # None
    BY DEF takesChar
  <2> QED BY <1>2, <2>1, <2>2 DEF Of
<1> QED BY <1>1, <1>2

(* What waits for a slot moves into it when it is filled. *)
LEMMA WaitMoves ==
  ASSUME NEW sysEdge \in BOOLEAN, NEW txEdge \in BOOLEAN, NEW in, Works(sysEdge, txEdge, in)
  PROVE  /\ (IF fillNow(sysEdge, in) THEN Of("char", token(in)) ELSE <<>>) \o Waits(pend_char')
              = Waits(pend_char) \o (IF acked(sysEdge, in) THEN <<in.txwrite>> ELSE <<>>)
         /\ (IF fillNow(sysEdge, in) THEN Of("time", token(in)) ELSE <<>>)
              = (IF timed(sysEdge) THEN <<pend_tick>> ELSE <<>>)
         /\ acked(sysEdge, in) => in.txwrite \in Data \cup Ends
         /\ timed(sysEdge) => pend_tick \in Times
<1> DEFINE fill == fillNow(sysEdge, in)
           ack  == acked(sysEdge, in)
<1>1. /\ pend_char \in Data \cup Ends \cup {None} /\ pend_char' \in Data \cup Ends \cup {None}
      /\ pend_tick \in Times \cup {None} /\ in.txwrite \in Data \cup Ends \cup {None}
  BY DEF Works, FastTypeOK, InputOK, XmitInput
<1>2. fill <=> sysEdge /\ needtoken /\ (timeFirst \/ takesFct(in) \/ takesChar)
  BY DEF fillNow, fills
<1>3. Of("char", token(in)) = IF takesChar THEN <<pend_char>> ELSE <<>>
  BY TokenIs
<1>4. Of("time", token(in)) = IF timeFirst THEN <<pend_tick>> ELSE <<>>
  BY <1>1, TokenIs
<1>5. ack <=> sysEdge /\ in.txwrite # None /\ allow_char /\ pend_char = None
  BY DEF acked, txack
<1>6. ack => in.txwrite \in Data \cup Ends /\ in.txwrite # None
  BY <1>1, <1>5
<1>7. timed(sysEdge) <=> sysEdge /\ timeFirst /\ needtoken
  BY DEF timed
<1>8. timed(sysEdge) => pend_tick \in Times
  BY <1>1, <1>7 DEF timeFirst
<1>9. (IF fill THEN Of("time", token(in)) ELSE <<>>) = (IF timed(sysEdge) THEN <<pend_tick>> ELSE <<>>)
  BY <1>2, <1>4, <1>7
<1>10. takesChar => pend_char # None
  BY DEF takesChar
<1>11. \A x : <<>> \o <<x>> = <<x>> /\ <<x>> \o <<>> = <<x>> /\ <<>> \o <<>> = <<>>
  OBVIOUS
<1>12. pend_char' = IF ack THEN in.txwrite ELSE IF sysEdge /\ needtoken /\ takesChar THEN None ELSE pend_char
  <2>1. CASE sysEdge
    <3>1. SysEnabled(in)
      BY <2>1, SysWorks
    <3> QED BY <2>1, <3>1 DEF SysEnabled, Pending, acked
  <2>2. CASE ~sysEdge
    BY <1>5, <2>2, SysWorks DEF sysRegs
  <2> QED BY <2>1, <2>2
<1> HIDE DEF fill, ack
<1>13. (IF fill THEN Of("char", token(in)) ELSE <<>>) \o Waits(pend_char')
         = Waits(pend_char) \o (IF ack THEN <<in.txwrite>> ELSE <<>>)
  <2>1. CASE ack
    <3>1. ~takesChar /\ pend_char = None /\ pend_char' = in.txwrite /\ in.txwrite # None
      BY <1>5, <1>6, <1>10, <1>12, <2>1
    <3>2. (IF fill THEN Of("char", token(in)) ELSE <<>>) = <<>>
      BY <1>3, <3>1
    <3>3. Waits(pend_char) = <<>> /\ Waits(pend_char') = <<in.txwrite>>
      BY <3>1 DEF Waits
    <3> QED BY <1>11, <2>1, <3>2, <3>3
  <2>2. CASE ~ack /\ sysEdge /\ needtoken /\ takesChar
    <3>1. fill /\ Of("char", token(in)) = <<pend_char>> /\ pend_char # None /\ pend_char' = None
      BY <1>2, <1>3, <1>10, <1>12, <2>2
    <3>2. Waits(pend_char) = <<pend_char>> /\ Waits(pend_char') = <<>>
      BY <3>1 DEF Waits
    <3> QED BY <1>11, <2>2, <3>1, <3>2
  <2>3. CASE ~ack /\ ~(sysEdge /\ needtoken /\ takesChar)
    <3>1. pend_char' = pend_char
      BY <1>12, <2>3
    <3>2. (IF fill THEN Of("char", token(in)) ELSE <<>>) = <<>>
      BY <1>2, <1>3, <2>3
    <3>3. Waits(pend_char) = <<>> \/ Waits(pend_char) = <<pend_char>>
      BY DEF Waits
    <3> QED BY <1>11, <2>3, <3>1, <3>2, <3>3
  <2> QED BY <2>1, <2>2, <2>3
<1> QED BY <1>6, <1>8, <1>9, <1>13 DEF fill, ack

(* So the N-Chars that are due are those of the queue, in order. *)
LEMMA CharsStep ==
  ASSUME NEW sysEdge \in BOOLEAN, NEW txEdge \in BOOLEAN, NEW in, Works(sysEdge, txEdge, in)
  PROVE  dueChars' = (Unsent("char")' \o InSlots("char")') \o Waits(pend_char')
<1> DEFINE before == Unsent("char") \o InSlots("char")
           after  == Unsent("char")' \o InSlots("char")'
           gone   == charGone(txEdge)
           taken  == IF fillNow(sysEdge, in) THEN Of("char", token(in)) ELSE <<>>
           more   == IF acked(sysEdge, in) THEN <<in.txwrite>> ELSE <<>>
           p      == Waits(pend_char)
           p2     == Waits(pend_char')
<1>1. FastTypeOK /\ DueOK /\ "char" \in Kinds
  BY DEF Works, Working, Kinds
<1>2. /\ gone => before # <<>>
      /\ after = (IF gone THEN Tail(before) ELSE before) \o taken
  <2>1. goneOf("char", txEdge) = charGone(txEdge)
    BY DEF goneOf
  <2> QED BY <1>1, <2>1, QueueMoves
<1>3. taken \o p2 = p \o more
  BY WaitMoves
<1>4. dueChars = before \o p
  BY <1>1 DEF DueOK, Waits
<1>5. dueChars' = LET less == IF gone /\ dueChars # <<>> THEN Tail(dueChars) ELSE dueChars
                  IN  IF acked(sysEdge, in) THEN Append(less, in.txwrite) ELSE less
  BY HistoryMoves
<1>6. before \in Seq(Chars)
  <2>1. Unsent("char") \in Seq(Chars) /\ InSlots("char") \in Seq(Chars)
    BY <1>1, InSlotsIsSeq DEF Unsent
  <2> QED BY <2>1, ConcatProperties
<1>7. p \in Seq(Chars) /\ p2 \in Seq(Chars)
  <2>1. pend_char \in Chars /\ pend_char' \in Chars
    BY DEF Works, FastTypeOK, Chars
  <2> QED BY <2>1 DEF Waits
<1>8. taken \in Seq(Chars)
  <2>1. token(in) \in TokenRecords
    BY TokenOK DEF Works, InputOK
  <2> QED BY <2>1, OfIsSeq
<1>9. acked(sysEdge, in) => in.txwrite \in Chars
  BY WaitMoves DEF Chars
<1>10. more \in Seq(Chars)
  BY <1>9
<1> DEFINE less == IF gone /\ before \o p # <<>> THEN Tail(before \o p) ELSE before \o p
<1>11. less \in Seq(Chars)
  <2>1. before \o p \in Seq(Chars)
    BY <1>6, <1>7, ConcatProperties
  <2> HIDE DEF before, p
  <2> QED BY <2>1
<1>12. dueChars' = less \o more
  <2>1. dueChars' = IF acked(sysEdge, in) THEN Append(less, in.txwrite) ELSE less
    BY <1>4, <1>5
  <2> HIDE DEF less
  <2>2. CASE acked(sysEdge, in)
    BY <1>9, <1>11, <2>1, <2>2, AppendIsConcat
  <2>3. CASE ~acked(sysEdge, in)
    BY <1>11, <2>1, <2>3, ConcatEmptySeq
  <2> QED BY <2>2, <2>3
<1> DEFINE r == IF gone THEN Tail(before) ELSE before
<1> HIDE DEF before, after, gone, taken, more, p, p2
<1>13. gone => before # <<>>
  BY <1>2
<1>14. r \in Seq(Chars)
  BY <1>6, <1>13
<1>15. less = r \o p
  <2>1. CASE gone
    BY <1>6, <1>7, <1>13, <2>1, TailConcat
  <2>2. CASE ~gone
    BY <2>2
  <2> QED BY <2>1, <2>2
<1> HIDE DEF r, less
<1>16. (r \o p) \o more = r \o (p \o more)
  BY <1>7, <1>10, <1>14, ConcatAssociative
<1>17. (r \o taken) \o p2 = r \o (taken \o p2)
  BY <1>7, <1>8, <1>14, ConcatAssociative
<1>18. dueChars' = after \o p2
  BY <1>2, <1>3, <1>12, <1>15, <1>16, <1>17 DEF r
<1> QED BY <1>18 DEF after, p2

(* And so are the Time-Codes. *)
LEMMA TimesStep ==
  ASSUME NEW sysEdge \in BOOLEAN, NEW txEdge \in BOOLEAN, NEW in, Works(sysEdge, txEdge, in)
  PROVE  dueTimes' = Unsent("time")' \o InSlots("time")'
<1> DEFINE before == Unsent("time") \o InSlots("time")
           gone   == timeGone(txEdge)
           more   == IF timed(sysEdge) THEN <<pend_tick>> ELSE <<>>
           less   == IF gone /\ dueTimes # <<>> THEN Tail(dueTimes) ELSE dueTimes
<1>1. FastTypeOK /\ DueOK /\ "time" \in Kinds /\ "time" # "char"
  BY DEF Works, Working, Kinds
<1>2. dueTimes = before /\ dueTimes \in Seq(Times)
  BY <1>1 DEF DueOK, FastTypeOK
<1>3. /\ gone => before # <<>>
      /\ Unsent("time")' \o InSlots("time")' = (IF gone THEN Tail(before) ELSE before) \o more
  <2>1. goneOf("time", txEdge) = timeGone(txEdge)
    BY <1>1 DEF goneOf
  <2>2. (IF fillNow(sysEdge, in) THEN Of("time", token(in)) ELSE <<>>) = more
    BY WaitMoves
  <2>3. /\ goneOf("time", txEdge) => before # <<>>
        /\ Unsent("time")' \o InSlots("time")' =
             (IF goneOf("time", txEdge) THEN Tail(before) ELSE before)
               \o (IF fillNow(sysEdge, in) THEN Of("time", token(in)) ELSE <<>>)
    BY <1>1, QueueMoves
  <2> HIDE DEF before, more
  <2> QED BY <2>1, <2>2, <2>3
<1>4. Unsent("time")' \o InSlots("time")' = less \o more
  BY <1>2, <1>3
<1>5. dueTimes' = IF timed(sysEdge) THEN Append(less, pend_tick) ELSE less
  BY HistoryMoves
<1>6. less \in Seq(Times)
  BY <1>2
<1>7. timed(sysEdge) => pend_tick \in Times
  BY WaitMoves
<1> HIDE DEF less
<1>8. CASE timed(sysEdge)
  BY <1>4, <1>5, <1>6, <1>7, <1>8, AppendIsConcat
<1>9. CASE ~timed(sysEdge)
  BY <1>4, <1>5, <1>6, <1>9, ConcatEmptySeq
<1> QED BY <1>8, <1>9

(* The FCTs are counted along the same way. *)
LEMMA FctUnsentMoves ==
  ASSUME NEW sysEdge \in BOOLEAN, NEW txEdge \in BOOLEAN, NEW in, Works(sysEdge, txEdge, in)
  PROVE  /\ FctUnsent \in BOOLEAN /\ FctUnsent' \in BOOLEAN /\ fctGone(txEdge) \in BOOLEAN
         /\ takeNow(txEdge) => ~fctGone(txEdge) /\ ~FctUnsent /\ FctUnsent' = slot[b_mux].fct
         /\ ~takeNow(txEdge) => IF fctGone(txEdge) THEN FctUnsent /\ ~FctUnsent' ELSE FctUnsent' = FctUnsent
<1> DEFINE take == takeNow(txEdge)
           S == txEdge /\ sends
<1>1. /\ take => /\ ~sends /\ b_update /\ ~b_update' /\ ~half'
                 /\ b_token' = slot[b_mux]
      /\ ~take =>
           \/ ~S /\ ~b_update /\ ~b_update' /\ b_token' = b_token /\ (b_token.piggy => half' = half)
           \/ ~S /\ b_update /\ (b_update' \/ b_token' = Empty)
           \/ S /\ ~b_update /\ ~b_update' /\ b_token' = b_token /\ half' /\ (SendsEsc \/ SendsAhead)
           \/ S /\ ~b_update /\ b_update' /\ (SendsNull \/ SendsTime \/ SendsFct \/ SendsChar)
  BY StageBMoves
<1>2. fctGone(txEdge) <=> S /\ ~escaped /\ d_code = "FCT"
  BY DEF fctGone, sentPlain
<1>3. /\ FctUnsent <=> b_token.fct /\ ~b_update /\ ~(b_token.piggy /\ half)
      /\ FctUnsent' <=> b_token'.fct /\ ~b_update' /\ ~(b_token'.piggy /\ half')
  BY DEF FctUnsent
<1>4. FctUnsent \in BOOLEAN /\ FctUnsent' \in BOOLEAN /\ fctGone(txEdge) \in BOOLEAN
  BY PipeTypes DEF FctUnsent, fctGone, sentPlain, Works, FastTypeOK, TokenRecords
<1>5. slot[b_mux].fct \in BOOLEAN
  BY DEF Works, FastTypeOK, TokenRecords
<1>6. Empty.fct = FALSE
  BY DEF Empty
<1>7. startsWithEsc => ~b_token.fct
  BY TokenShape DEF Works, Working, PipeOK, startsWithEsc
<1> HIDE DEF take, S
<1>8. ASSUME take PROVE ~fctGone(txEdge) /\ ~FctUnsent /\ FctUnsent' = slot[b_mux].fct
  <2>1. ~fctGone(txEdge) /\ ~FctUnsent
    BY <1>1, <1>2, <1>3, <1>8 DEF S
  <2>2. FctUnsent' <=> slot[b_mux].fct
    BY <1>1, <1>3, <1>8
  <2> QED BY <1>4, <1>5, <2>1, <2>2
<1>9. ASSUME ~take PROVE IF fctGone(txEdge) THEN FctUnsent /\ ~FctUnsent' ELSE FctUnsent' = FctUnsent
  <2>1. CASE ~S /\ ~b_update /\ ~b_update' /\ b_token' = b_token /\ (b_token.piggy => half' = half)
    <3>1. b_token'.fct = b_token.fct /\ b_token'.piggy = b_token.piggy
      BY <2>1
    <3>2. FctUnsent' <=> FctUnsent
      BY <1>3, <2>1, <3>1
    <3> QED BY <1>2, <1>4, <2>1, <3>2
  <2>2. CASE ~S /\ b_update /\ (b_update' \/ b_token' = Empty)
    <3>1. ~FctUnsent /\ ~FctUnsent'
      BY <1>3, <1>6, <2>2
    <3> QED BY <1>2, <1>4, <2>2, <3>1
  <2>3. CASE S /\ ~b_update /\ ~b_update' /\ b_token' = b_token /\ half' /\ SendsEsc
    <3>1. ~FctUnsent /\ ~FctUnsent'
      BY <1>3, <1>7, <2>3 DEF SendsEsc
    <3>2. ~fctGone(txEdge)
      BY <1>2, <2>3, AllWords DEF SendsEsc, Words
    <3> QED BY <1>4, <3>1, <3>2
  <2>4. CASE S /\ ~b_update /\ ~b_update' /\ b_token' = b_token /\ half' /\ SendsAhead
    <3>1. FctUnsent /\ ~FctUnsent'
      BY <1>3, <2>4 DEF SendsAhead
    <3>2. fctGone(txEdge)
      BY <1>2, <2>4 DEF SendsAhead
    <3> QED BY <3>1, <3>2
  <2>5. CASE S /\ b_update' /\ SendsNull
    <3>1. ~FctUnsent /\ ~FctUnsent'
      BY <1>3, <1>6, <2>5 DEF SendsNull
    <3>2. ~fctGone(txEdge)
      BY <1>2, <2>5 DEF SendsNull
    <3> QED BY <1>4, <3>1, <3>2
  <2>6. CASE S /\ b_update' /\ SendsTime
    <3>1. ~FctUnsent /\ ~FctUnsent'
      BY <1>3, <2>6 DEF SendsTime
    <3>2. ~fctGone(txEdge)
      BY <1>2, <2>6 DEF SendsTime
    <3> QED BY <1>4, <3>1, <3>2
  <2>7. CASE S /\ b_update' /\ SendsFct
    <3>1. FctUnsent /\ ~FctUnsent'
      BY <1>3, <2>7 DEF SendsFct
    <3>2. fctGone(txEdge)
      BY <1>2, <2>7 DEF SendsFct
    <3> QED BY <3>1, <3>2
  <2>8. CASE S /\ b_update' /\ SendsChar
    <3>1. ~FctUnsent /\ ~FctUnsent'
      BY <1>3, <2>8 DEF SendsChar
    <3>2. ~fctGone(txEdge)
      BY <1>2, <2>8, AllWords DEF SendsChar, Words
    <3> QED BY <1>4, <3>1, <3>2
  <2> QED BY <1>1, <1>9, <2>1, <2>2, <2>3, <2>4, <2>5, <2>6, <2>7, <2>8
<1> QED BY <1>4, <1>8, <1>9 DEF take

LEMMA FctWaitMoves ==
  ASSUME NEW sysEdge \in BOOLEAN, NEW txEdge \in BOOLEAN, NEW in, Works(sysEdge, txEdge, in)
  PROVE  /\ token(in).fct \in BOOLEAN /\ pend_fct \in BOOLEAN /\ pend_fct' \in BOOLEAN
         /\ One(pend_fct') + One(fillNow(sysEdge, in) /\ token(in).fct) = One(pend_fct) + One(sysEdge /\ fctack(in))
<1>1. token(in) \in TokenRecords /\ in \in XmitInput
  BY TokenOK DEF Works, InputOK
<1>2. token(in).fct \in BOOLEAN
  BY <1>1 DEF TokenRecords
<1>3. token(in).fct <=> takesFct(in)
  BY <1>2, TokenIs
<1>4. pend_fct \in BOOLEAN /\ pend_fct' \in BOOLEAN /\ in.fct_in \in BOOLEAN /\ allow_fct \in BOOLEAN
  BY <1>1 DEF Works, FastTypeOK, XmitInput
<1>5. fillNow(sysEdge, in) /\ token(in).fct <=> sysEdge /\ needtoken /\ takesFct(in)
  BY <1>3 DEF fillNow, fills
<1>6. sysEdge /\ fctack(in) <=> sysEdge /\ in.fct_in /\ allow_fct /\ ~pend_fct
  BY <1>4 DEF fctack
<1>7. takesFct(in) => allow_fct /\ (in.fct_in \/ pend_fct)
  BY DEF takesFct
<1>8. sysEdge => (pend_fct' <=> (pend_fct \/ (in.fct_in /\ allow_fct)) /\ ~(needtoken /\ takesFct(in)))
  BY SysWorks DEF SysEnabled, Pending
<1>9. ~sysEdge => pend_fct' = pend_fct
  BY SysWorks DEF sysRegs
<1>10. \/ pend_fct' = pend_fct /\ ~(fillNow(sysEdge, in) /\ token(in).fct) /\ ~(sysEdge /\ fctack(in))
       \/ ~pend_fct' /\ pend_fct /\ (fillNow(sysEdge, in) /\ token(in).fct) /\ ~(sysEdge /\ fctack(in))
       \/ ~pend_fct' /\ ~pend_fct /\ (fillNow(sysEdge, in) /\ token(in).fct) /\ sysEdge /\ fctack(in)
       \/ pend_fct' /\ ~pend_fct /\ ~(fillNow(sysEdge, in) /\ token(in).fct) /\ sysEdge /\ fctack(in)
  <2>1. CASE ~sysEdge
    BY <1>5, <1>9, <2>1
  <2>2. CASE sysEdge /\ needtoken /\ takesFct(in)
    BY <1>4, <1>5, <1>6, <1>7, <1>8, <2>2
  <2>3. CASE sysEdge /\ ~(needtoken /\ takesFct(in))
    BY <1>4, <1>5, <1>6, <1>8, <2>3
  <2> QED BY <2>1, <2>2, <2>3
<1> DEFINE w == fillNow(sysEdge, in) /\ token(in).fct
           k == sysEdge /\ fctack(in)
<1> HIDE DEF w, k
<1>11. One(pend_fct') + One(w) = One(pend_fct) + One(k)
  BY <1>4, <1>10 DEF One, w, k
<1> QED BY <1>2, <1>4, <1>11 DEF w, k

LEMMA FctsStep ==
  ASSUME NEW sysEdge \in BOOLEAN, NEW txEdge \in BOOLEAN, NEW in, Works(sysEdge, txEdge, in)
  PROVE  dueFcts' = One(FctUnsent') + One(slot'[b_mux'].fct) + One(slot'[1 - b_mux'].fct) + One(pend_fct')
<1> DEFINE gone == fctGone(txEdge)
           take == takeNow(txEdge)
           fill == fillNow(sysEdge, in)
           f == slot[b_mux].fct
           b == slot[1 - b_mux].fct
           f2 == slot'[b_mux'].fct
           b2 == slot'[1 - b_mux'].fct
           t == token(in).fct
           k == sysEdge /\ fctack(in)
           u == FctUnsent
           u2 == FctUnsent'
           p == pend_fct
           p2 == pend_fct'
<1>1. FastTypeOK /\ FastTypeOK' /\ DueOK
  BY DEF Works, Working
<1>2. f \in BOOLEAN /\ b \in BOOLEAN
  BY <1>1, TheSides DEF FastTypeOK, TokenRecords
<1>3. dueFcts = One(u) + One(f) + One(b) + One(p)
  BY <1>1 DEF DueOK
<1>4. dueFcts' = (IF gone /\ dueFcts > 0 THEN dueFcts - 1 ELSE dueFcts) + One(k)
  BY HistoryMoves
<1>5. /\ u \in BOOLEAN /\ u2 \in BOOLEAN /\ gone \in BOOLEAN
      /\ take => ~gone /\ ~u /\ u2 = f
      /\ ~take => IF gone THEN u /\ ~u2 ELSE u2 = u
  BY FctUnsentMoves
<1>6. /\ t \in BOOLEAN /\ p \in BOOLEAN /\ p2 \in BOOLEAN
      /\ One(p2) + One(fill /\ t) = One(p) + One(k)
  BY FctWaitMoves
<1>7. Empty.fct = FALSE
  BY DEF Empty
<1>8. \/ ~take /\ ~fill /\ f2 = f /\ b2 = b
      \/ take /\ ~fill /\ f2 = b /\ b2 = FALSE
      \/ ~take /\ fill /\ f = FALSE /\ b = FALSE /\ f2 = t /\ b2 = FALSE
      \/ ~take /\ fill /\ b = FALSE /\ f2 = f /\ b2 = t
      \/ take /\ fill /\ b = FALSE /\ f2 = t /\ b2 = FALSE
  <2> HIDE DEF fill, take
  <2> QED BY <1>7, SlotCases DEF fill, take
<1>9. k \in BOOLEAN /\ fill \in BOOLEAN /\ take \in BOOLEAN
  BY <1>1 DEF fctack, fillNow, fills, takeNow, takes, Works, InputOK, XmitInput, FastTypeOK, enabled
<1> HIDE DEF gone, take, fill, f, b, f2, b2, t, k, u, u2, p, p2
<1>10. One(u2) + One(f2) + One(b2) + One(gone) = One(u) + One(f) + One(b) + One(fill /\ t)
  <2>1. CASE take
    BY <1>2, <1>5, <1>6, <1>8, <1>9, <2>1 DEF One
  <2>2. CASE ~take
    BY <1>2, <1>5, <1>6, <1>8, <1>9, <2>2 DEF One
  <2> QED BY <2>1, <2>2
<1>11. (IF gone /\ dueFcts > 0 THEN dueFcts - 1 ELSE dueFcts) = dueFcts - One(gone)
  <2>1. dueFcts \in Nat
    BY <1>1 DEF FastTypeOK
  <2>2. gone => dueFcts > 0
    BY <1>2, <1>3, <1>5, <1>6, <1>9 DEF One
  <2> QED BY <1>5, <2>1, <2>2 DEF One
<1>12. /\ One(u) \in Int /\ One(f) \in Int /\ One(b) \in Int /\ One(p) \in Int /\ One(u2) \in Int /\ One(f2) \in Int
       /\ One(b2) \in Int /\ One(p2) \in Int /\ One(gone) \in Int /\ One(k) \in Int /\ One(fill /\ t) \in Int
  BY DEF One
<1>13. dueFcts' = dueFcts - One(gone) + One(k)
  BY <1>4, <1>11
<1>14. dueFcts' = One(u2) + One(f2) + One(b2) + One(p2)
  <2> DEFINE nu == One(u)
             nf == One(f)
             nb == One(b)
             np == One(p)
             nu2 == One(u2)
             nf2 == One(f2)
             nb2 == One(b2)
             np2 == One(p2)
             ng == One(gone)
             nk == One(k)
             nt == One(fill /\ t)
  <2>1. /\ nu \in Int /\ nf \in Int /\ nb \in Int /\ np \in Int /\ nu2 \in Int /\ nf2 \in Int
        /\ nb2 \in Int /\ np2 \in Int /\ ng \in Int /\ nk \in Int /\ nt \in Int
    BY <1>12
  <2>2. dueFcts = nu + nf + nb + np
    BY <1>3
  <2>3. dueFcts' = dueFcts - ng + nk
    BY <1>13
  <2>4. np2 + nt = np + nk
    BY <1>6
  <2>5. nu2 + nf2 + nb2 + ng = nu + nf + nb + nt
    BY <1>10
  <2> HIDE DEF nu, nf, nb, np, nu2, nf2, nb2, np2, ng, nk, nt
  <2>6. dueFcts' = nu2 + nf2 + nb2 + np2
    BY <2>1, <2>2, <2>3, <2>4, <2>5
  <2> QED BY <2>6 DEF nu2, nf2, nb2, np2
<1> QED BY <1>14 DEF u2, f2, b2, p2

LEMMA DueStep ==
  ASSUME NEW sysEdge \in BOOLEAN, NEW txEdge \in BOOLEAN, NEW in, Works(sysEdge, txEdge, in)
  PROVE  DueOK'
<1>1. dueChars' = (Unsent("char")' \o InSlots("char")') \o Waits(pend_char')
  BY CharsStep
<1>2. dueTimes' = Unsent("time")' \o InSlots("time")'
  BY TimesStep
<1>3. dueFcts' = One(FctUnsent') + One(slot'[b_mux'].fct) + One(slot'[1 - b_mux'].fct) + One(pend_fct')
  BY FctsStep
<1>4. escaped' <=> startsWithEsc' /\ half'
  BY StageBMoves
<1> QED BY <1>1, <1>2, <1>3, <1>4 DEF DueOK, Waits, One

(* There is room for a few tokens only. *)
LEMMA FewAreDue ==
  ASSUME FastTypeOK, DueOK
  PROVE  FewDue
<1>1. dueFcts <= 4
  <2>1. dueFcts = One(FctUnsent) + One(slot[b_mux].fct) + One(slot[1 - b_mux].fct) + One(pend_fct)
    BY DEF DueOK
  <2> QED BY <2>1 DEF One
<1>2. \A kind \in Kinds : Unsent(kind) \in Seq(Chars) /\ Len(Unsent(kind)) <= 1 /\ InSlots(kind) \in Seq(Chars) /\ Len(InSlots(kind)) <= 2
  <2> SUFFICES ASSUME NEW kind \in Kinds
               PROVE  Unsent(kind) \in Seq(Chars) /\ Len(Unsent(kind)) <= 1 /\ InSlots(kind) \in Seq(Chars) /\ Len(InSlots(kind)) <= 2
    OBVIOUS
  <2> DEFINE a == Of(kind, slot[b_mux])
             b == Of(kind, slot[1 - b_mux])
             c == Of(kind, b_token)
  <2>1. a \in Seq(Chars) /\ b \in Seq(Chars) /\ c \in Seq(Chars)
    BY InSlotsIsSeq
  <2>2. Len(a) <= 1 /\ Len(b) <= 1 /\ Len(c) <= 1
    BY DEF Of
  <2>3. InSlots(kind) = a \o b /\ Unsent(kind) = IF b_update THEN <<>> ELSE c
    BY DEF InSlots, Unsent
  <2> HIDE DEF a, b, c
  <2>4. a \o b \in Seq(Chars) /\ Len(a \o b) <= 2
    BY <2>1, <2>2
  <2>5. <<>> \in Seq(Chars) /\ Len(<<>>) <= 1
    OBVIOUS
  <2> QED BY <2>1, <2>2, <2>3, <2>4, <2>5
<1>3. Len(dueTimes) <= 3
  <2> DEFINE u == Unsent("time")
             i == InSlots("time")
  <2>1. u \in Seq(Chars) /\ Len(u) <= 1 /\ i \in Seq(Chars) /\ Len(i) <= 2
    BY <1>2 DEF Kinds
  <2>2. dueTimes = u \o i
    BY DEF DueOK
  <2> HIDE DEF u, i
  <2> QED BY <2>1, <2>2
<1>4. Len(dueChars) <= 4
  <2> DEFINE u == Unsent("char")
             i == InSlots("char")
             p == Waits(pend_char)
  <2>1. u \in Seq(Chars) /\ Len(u) <= 1 /\ i \in Seq(Chars) /\ Len(i) <= 2
    BY <1>2 DEF Kinds
  <2>2. dueChars = (u \o i) \o p
    BY DEF DueOK, Waits
  <2>3. p \in Seq(Chars) /\ Len(p) <= 1
    <3>1. pend_char \in Chars
      BY DEF FastTypeOK, Chars
    <3> QED BY <3>1 DEF Waits
  <2> HIDE DEF u, i, p
  <2>4. u \o i \in Seq(Chars) /\ Len(u \o i) <= 3
    BY <2>1
  <2> DEFINE v == u \o i
  <2> HIDE DEF v
  <2>5. Len(v \o p) <= 4
    BY <2>3, <2>4 DEF v
  <2> QED BY <2>2, <2>5 DEF v
<1> QED BY <1>1, <1>3, <1>4 DEF FewDue

(* What is ahead of a token stays ahead of it. *)
LEMMA FctFirstStep ==
  ASSUME NEW sysEdge \in BOOLEAN, NEW txEdge \in BOOLEAN, NEW in, Works(sysEdge, txEdge, in)
  PROVE  FctFirst'
<1> DEFINE gone == fctGone(txEdge)
           take == takeNow(txEdge)
           fill == fillNow(sysEdge, in)
           front == slot[b_mux]
           back  == slot[1 - b_mux]
           front2 == slot'[b_mux']
           back2  == slot'[1 - b_mux']
           t == token(in)
           u == FctUnsent
           u2 == FctUnsent'
<1>1. FastTypeOK /\ FastTypeOK' /\ FctFirst /\ NotYet
  BY DEF Works, Working
<1>2. /\ ~b_update /\ b_token.char # None => fctSent \/ u
      /\ front.char # None => fctSent \/ u \/ front.fct
      /\ back.char # None => fctSent \/ u \/ front.fct \/ back.fct
      /\ sent_fct => fctSent \/ u \/ front.fct \/ back.fct
  BY <1>1 DEF FctFirst, FctAhead
<1>3. fctSent' <=> fctSent \/ gone
  BY HistoryMoves
<1>4. /\ take => ~gone /\ ~u /\ u2 = front.fct
      /\ ~take => IF gone THEN u /\ ~u2 ELSE u2 = u
  BY FctUnsentMoves
<1>5. \/ ~take /\ ~fill /\ front2 = front /\ back2 = back
      \/ take /\ ~fill /\ front2 = back /\ back2 = Empty
      \/ ~take /\ fill /\ front = Empty /\ back = Empty /\ front2 = t /\ back2 = Empty
      \/ ~take /\ fill /\ back = Empty /\ front2 = front /\ back2 = t
      \/ take /\ fill /\ back = Empty /\ front2 = t /\ back2 = Empty
  <2> HIDE DEF fill, take
  <2> QED BY SlotCases DEF fill, take
<1>6. Empty.char = None /\ Empty.fct = FALSE
  BY DEF Empty
<1>7. fill /\ t.char # None => sent_fct
  <2>1. CASE timeFirst
    BY <1>1, <2>1 DEF timeFirst, NotYet
  <2>2. CASE ~timeFirst
    <3>1. t.char # None => takesChar
      BY <2>2 DEF token
    <3> QED BY <1>1, <3>1 DEF takesChar, NotYet
  <2> QED BY <2>1, <2>2
<1>8. sent_fct' => sent_fct \/ (fill /\ t.fct)
  <2>1. token(in).fct <=> takesFct(in)
    BY FctWaitMoves, TokenIs
  <2>2. CASE sysEdge
    BY <2>1, <2>2, SysWorks DEF SysEnabled, Pending, fillNow, fills
  <2>3. CASE ~sysEdge
    BY <2>3, SysWorks DEF sysRegs
  <2> QED BY <2>2, <2>3
<1>9. /\ take => b_token' = front
      /\ ~take => b_update' \/ b_token' = Empty \/ (~b_update /\ b_token' = b_token)
  BY StageBMoves
<1>10. /\ front.fct \in BOOLEAN /\ back.fct \in BOOLEAN /\ t.fct \in BOOLEAN /\ u \in BOOLEAN /\ u2 \in BOOLEAN /\ gone \in BOOLEAN
  BY <1>1, TheSides, FctUnsentMoves, FctWaitMoves DEF FastTypeOK, TokenRecords
<1> HIDE DEF gone, take, fill, front, back, front2, back2, t, u, u2
<1>11. ~b_update' /\ b_token'.char # None => fctSent' \/ u2
  <2>1. CASE take
    BY <1>2, <1>3, <1>4, <1>9, <1>10, <2>1
  <2>2. CASE ~take
    BY <1>2, <1>3, <1>4, <1>6, <1>9, <1>10, <2>2
  <2> QED BY <2>1, <2>2
<1>12. fctSent \/ u \/ front.fct \/ back.fct => fctSent' \/ u2 \/ front2.fct \/ back2.fct
  BY <1>3, <1>4, <1>5, <1>6, <1>10
<1>13. front2.char # None => fctSent' \/ u2 \/ front2.fct
  <2>1. CASE ~take /\ front2 = front
    BY <1>2, <1>3, <1>4, <1>10, <2>1
  <2>2. CASE take /\ front2 = back
    BY <1>2, <1>3, <1>4, <1>10, <2>2
  <2>3. CASE ~take /\ fill /\ front = Empty /\ back = Empty /\ front2 = t
    BY <1>2, <1>3, <1>4, <1>6, <1>7, <1>10, <2>3
  <2>4. CASE take /\ fill /\ back = Empty /\ front2 = t
    BY <1>2, <1>3, <1>4, <1>6, <1>7, <1>10, <2>4
  <2> QED BY <1>5, <2>1, <2>2, <2>3, <2>4
<1>14. back2.char # None => fctSent' \/ u2 \/ front2.fct \/ back2.fct
  <2>1. CASE back2 = Empty
    BY <1>6, <2>1
  <2>2. CASE back2 # Empty
    <3>1. back2.char # None => back.char # None \/ sent_fct
      BY <1>5, <1>7, <2>2
    <3> QED BY <1>2, <1>12, <3>1
  <2> QED BY <2>1, <2>2
<1>15. sent_fct' => fctSent' \/ u2 \/ front2.fct \/ back2.fct
  <2>1. fill /\ t.fct => front2.fct \/ back2.fct
    BY <1>5
  <2> QED BY <1>2, <1>8, <1>12, <2>1
<1>16. /\ ~b_update' /\ b_token'.char # None => fctSent' \/ FctUnsent'
       /\ slot'[b_mux'].char # None => fctSent' \/ FctUnsent' \/ slot'[b_mux'].fct
       /\ slot'[1 - b_mux'].char # None => fctSent' \/ FctUnsent' \/ slot'[b_mux'].fct \/ slot'[1 - b_mux'].fct
       /\ sent_fct' => fctSent' \/ FctUnsent' \/ slot'[b_mux'].fct \/ slot'[1 - b_mux'].fct
  BY <1>11, <1>13, <1>14, <1>15 DEF u2, front2, back2
<1> QED BY <1>16 DEF FctFirst, FctAhead

(***************************************************************************)
(* From one connection to the next.                                        *)
(***************************************************************************)
LEMMA FewIsInvariant == FastTypeOK /\ DueOK => FewDue
BY FewAreDue

LEMMA NothingIsFew == NothingDue => FewDue
BY DEF NothingDue, FewDue

(* A connection begins: everything is clear, and the enable signal may come. *)
SysFresh ==
  /\ \A i \in Sides : ~sysflip[i] /\ slot[i] = Empty
  /\ tokmux = 0
  /\ ~pend_fct /\ pend_char = None /\ ~allow_fct /\ ~allow_char /\ ~sent_fct

Fresh ==
  /\ FastTypeOK /\ ~coreRst
  /\ phase = "off" => rested = 1
  /\ TxClear /\ SysFresh /\ NothingDue /\ ~escaped
  /\ \A i \in Sides : synctx_sysflip[i] = Down
  /\ ~enabled /\ (synctx_txen[1] => txenreg)

LEMMA FreshIsWorking == Fresh => Working
<1> SUFFICES ASSUME Fresh PROVE Working
  OBVIOUS
<1>1. /\ FastTypeOK /\ ~coreRst /\ TxClear /\ SysFresh /\ NothingDue /\ ~escaped /\ ~enabled
      /\ phase = "off" => rested = 1
      /\ synctx_txen[1] => txenreg
      /\ \A i \in Sides : synctx_sysflip[i] = Down
  BY DEF Fresh
<1>2. b_mux = 0 /\ tokmux = 0 /\ 1 - b_mux = 1 /\ 0 \in Sides /\ 1 \in Sides
  BY <1>1 DEF TxClear, SysFresh, Sides
<1>3. \A i \in Sides : sysflip[i] = FALSE /\ txflip[i] = FALSE /\ ~filled(i) /\ slot[i] = Empty
  BY <1>1 DEF TxClear, SysFresh, filled, FastTypeOK
<1>4. Empty.char = None /\ Empty.fct = FALSE /\ Empty.tick = FALSE /\ Empty.piggy = FALSE
  BY DEF Empty
<1>5. FlagsOK
  BY <1>1, <1>3 DEF FlagsOK, Down, SysFresh
<1>6. SlotsOK
  BY <1>2, <1>3 DEF SlotsOK
<1>7. NotYet
  BY <1>1, <1>3 DEF NotYet, SysFresh
<1>8. Enabling
  BY <1>1 DEF Enabling
<1>9. /\ ~b_update /\ ~b_valid /\ b_token = Empty /\ ~c_update /\ c_busy = TRUE /\ c_esc = TRUE /\ c_fct = TRUE
      /\ d_code = "ESC" /\ e_count = 0
  BY <1>1 DEF TxClear, FastTypeOK
<1>10. PipeOK
  BY <1>9 DEF PipeOK, startsWithEsc
<1>11. ~half
  <2>1. pending = TRUE
    BY <1>9 DEF pending
  <2> QED BY <1>9, <2>1 DEF half
<1>12. DueOK
  <2>1. \A kind : Unsent(kind) = <<>> /\ InSlots(kind) = <<>>
    <3>1. \A kind : Of(kind, Empty) = <<>>
      BY <1>4 DEF Of
    <3>2. slot[b_mux] = Empty /\ slot[1 - b_mux] = Empty
      BY <1>2, <1>3
    <3>3. <<>> \o <<>> = <<>>
      OBVIOUS
    <3> QED BY <1>9, <3>1, <3>2, <3>3 DEF Unsent, InSlots
  <2>2. ~FctUnsent /\ ~slot[b_mux].fct /\ ~slot[1 - b_mux].fct /\ ~pend_fct
    BY <1>1, <1>2, <1>3, <1>4, <1>9 DEF FctUnsent, SysFresh
  <2>3. dueFcts = One(FctUnsent) + One(slot[b_mux].fct) + One(slot[1 - b_mux].fct) + One(pend_fct)
    BY <1>1, <2>2 DEF One, NothingDue
  <2>4. dueChars = <<>> /\ dueTimes = <<>> /\ pend_char = None
    BY <1>1 DEF NothingDue, SysFresh
  <2>5. dueChars = Unsent("char") \o InSlots("char") \o (IF pend_char = None THEN <<>> ELSE <<pend_char>>)
    BY <2>1, <2>4
  <2>6. dueTimes = Unsent("time") \o InSlots("time")
    BY <2>1, <2>4
  <2>7. escaped <=> startsWithEsc /\ half
    BY <1>1, <1>11
  <2> QED BY <2>3, <2>5, <2>6, <2>7 DEF DueOK
<1>13. FctFirst
  BY <1>1, <1>2, <1>3, <1>4, <1>9 DEF FctFirst, SysFresh
<1> QED BY <1>1, <1>5, <1>6, <1>7, <1>8, <1>10, <1>12, <1>13 DEF Working

(* A reset puts every synchroniser down. *)
LEMMA ResetIsDown ==
  ASSUME FastTypeOK, FastTypeOK', NEW sysEdge \in BOOLEAN, NEW txEdge \in BOOLEAN, NEW in,
         FastStep(sysEdge, txEdge, in), coreRst \/ coreRst'
  PROVE  synctx_txen' = Down /\ \A i \in Sides : synctx_sysflip'[i] = Down
<1>1. /\ synctx_txen' \in Synchronised(synctx_txen, txEdge, txenreg, txenreg')
      /\ \A i \in Sides : synctx_sysflip'[i] \in Synchronised(synctx_sysflip[i], txEdge, sysflip[i], sysflip'[i])
  BY SyncTypes DEF FastStep, FastTypeOK
<1> QED BY <1>1 DEF Synchronised

(* A system clock that clears everything. *)
LEMMA ClearingStep ==
  ASSUME FastTypeOK, FastTypeOK', NEW txEdge \in BOOLEAN, NEW in,
         FastStep(TRUE, txEdge, in), coreRst \/ ~txen
  PROVE  SysClear' /\ NothingDue' /\ ~escaped' /\ ~fctSent' /\ last' # "other"
<1>1. /\ SysDisabled \/ SysReset
      /\ Slots(TRUE, txEdge, in) /\ History(TRUE, txEdge, in) /\ last' # "other"
  BY DEF FastStep, SysEnabled, InPace
<1>2. /\ sysflip' = [i \in Sides |-> FALSE] /\ tokmux' = 0
      /\ pend_fct' = FALSE /\ pend_char' = None
      /\ allow_fct' = FALSE /\ allow_char' = FALSE /\ sent_fct' = FALSE
  BY <1>1 DEF SysDisabled, SysReset
<1>3. txenreg' = FALSE
  BY <1>1 DEF SysDisabled, SysReset, Latch
<1>4. \A i \in Sides : slot'[i] = Empty
  <2>1. slot' = IF txEdge /\ takes THEN [[i \in Sides |-> Empty] EXCEPT ![b_mux] = Empty] ELSE [i \in Sides |-> Empty]
    BY <1>1 DEF Slots, Filled
  <2> QED BY <2>1
<1>5. NothingDue' /\ ~escaped' /\ ~fctSent'
  BY <1>1 DEF History, NothingDue
<1> QED BY <1>1, <1>2, <1>3, <1>4, <1>5 DEF SysClear

(* Nothing is due, and nothing more is accepted. *)
LEMMA StaysNothing ==
  ASSUME FastTypeOK, NEW sysEdge \in BOOLEAN, NEW txEdge \in BOOLEAN, NEW in, InputOK(sysEdge, in),
         FastStep(sysEdge, txEdge, in), ~(sysEdge /\ (coreRst \/ ~txen)),
         NothingDue, ~allow_fct, ~allow_char
  PROVE  NothingDue' /\ (~sends => escaped' = escaped /\ fctSent' = fctSent)
<1>1. History(sysEdge, txEdge, in)
  BY DEF FastStep
<1>2. ~fctack(in) /\ ~txack(in) /\ ~timeFirst
  BY DEF fctack, txack, timeFirst
<1>3. dueFcts' = 0
  BY <1>1, <1>2 DEF History, NothingDue
<1>4. dueChars' = <<>>
  BY <1>1, <1>2 DEF History, NothingDue
<1>5. dueTimes' = <<>>
  BY <1>1, <1>2 DEF History, NothingDue
<1>6. ~sends => escaped' = escaped /\ fctSent' = fctSent
  BY <1>1 DEF History, FastTypeOK
<1> QED BY <1>3, <1>4, <1>5, <1>6 DEF NothingDue

(***************************************************************************)
(* Where each of the four leads.                                           *)
(***************************************************************************)
LEMMA FromWorking ==
  ASSUME FastTypeOK, FastTypeOK', Working, NEW sysEdge \in BOOLEAN, NEW txEdge \in BOOLEAN, NEW in,
         InputOK(sysEdge, in), FastStep(sysEdge, txEdge, in)
  PROVE  FewDue' /\ (Working' \/ Resetting' \/ Resting')
<1>1. ~coreRst /\ (phase = "off" => rested = 1)
  BY DEF Working
<1>2. coreRst' => Resetting'
  <2>1. coreRst' => synctx_txen' = Down /\ \A i \in Sides : synctx_sysflip'[i] = Down
    BY ResetIsDown
  <2> QED BY <2>1 DEF Resetting, AllDown, Down
<1>3. CASE sysEdge /\ ~txen
  <2>1. FastStep(TRUE, txEdge, in) /\ phase = "off" /\ rested = 1
    BY <1>1, <1>3 DEF txen
  <2>2. SysClear' /\ NothingDue' /\ last' # "other"
    BY <1>3, <2>1, ClearingStep
  <2>3. LinkMoves
    BY <2>1 DEF FastStep
  <2>4. ~coreRst' => phase' = "off" /\ rested' = 2
    <3>1. rested # Rest
      BY <2>1, RestAssumption
    <3> QED BY <1>1, <2>1, <2>3, <3>1 DEF LinkMoves
  <2>5. ~coreRst' => Resting'
    <3>1. ~coreRst' => Falling(synctx_txen)' /\ \A i \in Sides : Falling(synctx_sysflip[i])'
      BY <2>2, <2>4 DEF Falling
    <3> QED BY <2>2, <2>4, <3>1 DEF Resting
  <2>6. FewDue'
    BY <2>2, NothingIsFew, PTL
  <2> QED BY <1>2, <2>5, <2>6
<1>4. CASE ~(sysEdge /\ ~txen)
  <2>1. Works(sysEdge, txEdge, in)
    BY <1>4 DEF Works
  <2>2. SlotsOK' /\ NotYet' /\ PipeOK' /\ DueOK' /\ FctFirst'
    BY <2>1, SlotsStep, NotYetStep, PipeStep, DueStep, FctFirstStep
  <2>3. FewDue'
    BY <2>2, FewIsInvariant, PTL
  <2>4. ~coreRst' => FlagsOK' /\ Enabling'
    BY <2>1, FlagsStep, EnablingStep
  <2>5. phase' = "off" => rested' = 1 \/ coreRst'
    <3>1. CASE sysEdge
      <4>1. LinkMoves /\ phase # "off" /\ rested = 0
        BY <1>4, <3>1 DEF FastStep, FastTypeOK, txen
      <4>2. rested # Rest
        BY <4>1, RestAssumption
      <4>3. ~coreRst /\ phase' = "off" => rested' = rested + 1
        BY <4>1, <4>2 DEF LinkMoves
      <4> QED BY <1>1, <4>1, <4>3
    <3>2. CASE ~sysEdge
      BY <1>1, <3>2 DEF FastStep, envVars
    <3> QED BY <3>1, <3>2
  <2>6. ~coreRst' => Working'
    BY <2>2, <2>4, <2>5 DEF Working
  <2> QED BY <1>2, <2>3, <2>6
<1> QED BY <1>3, <1>4

LEMMA LowIsDown ==
  ASSUME NEW ff \in BOOLEAN \X BOOLEAN
  PROVE  /\ ff[1] \in BOOLEAN /\ ff[2] \in BOOLEAN
         /\ ff = Down <=> ff[1] = FALSE /\ ff[2] = FALSE
<1>1. ff[1] \in BOOLEAN /\ ff[2] \in BOOLEAN /\ ff = <<ff[1], ff[2]>>
  OBVIOUS
<1>2. ff[1] = FALSE /\ ff[2] = FALSE => ff = Down
  BY <1>1 DEF Down
<1>3. Down[1] = FALSE /\ Down[2] = FALSE
  BY DEF Down
<1> QED BY <1>1, <1>2, <1>3

(* The flops of a signal that stays down. *)
LEMMA StaysLow ==
  ASSUME NEW ff \in BOOLEAN \X BOOLEAN, NEW c \in BOOLEAN, NEW ff2 \in Synchronised(ff, c, FALSE, FALSE)
  PROVE  /\ ff = Down => ff2 = Down
         /\ ~ff[1] => ~ff2[1]
         /\ c => ~ff2[1] /\ (ff2[2] => ff[1])
         /\ ~ff[1] /\ ~ff[2] => ~ff2[1] /\ ~ff2[2]
<1>1. /\ ff2 \in BOOLEAN \X BOOLEAN
      /\ coreRst \/ coreRst' => ff2 = Down
      /\ ~coreRst /\ ~coreRst' => IF c THEN ff2[2] = ff[1] /\ ff2[1] \in {FALSE, FALSE} ELSE ff2 = ff
  <2>1. FALSE \in BOOLEAN
    OBVIOUS
  <2>2. Synchronised(ff, c, FALSE, FALSE) \subseteq BOOLEAN \X BOOLEAN
    BY <2>1, SynchsType, Zenon
  <2>3. coreRst \/ coreRst' => ff2 = Down
    BY DEF Synchronised
  <2>4. ASSUME ~coreRst, ~coreRst'
        PROVE  IF c THEN ff2[2] = ff[1] /\ ff2[1] \in {FALSE, FALSE} ELSE ff2 = ff
    <3>1. Synchronised(ff, c, FALSE, FALSE) = IF c THEN Clocked(ff, {FALSE, FALSE}) ELSE {ff}
      BY <2>4 DEF Synchronised
    <3>2. CASE c
      <4>1. ff2 \in Clocked(ff, {FALSE, FALSE})
        BY <3>1, <3>2
      <4>2. PICK seen \in {FALSE, FALSE} : ff2 = <<seen, ff[1]>>
        BY <4>1 DEF Clocked
      <4> QED BY <3>2, <4>2
    <3>3. CASE ~c
      BY <3>1, <3>3
    <3> QED BY <3>2, <3>3
  <2> QED BY <2>2, <2>3, <2>4
<1>2. /\ ff[1] \in BOOLEAN /\ ff[2] \in BOOLEAN /\ ff2[1] \in BOOLEAN /\ ff2[2] \in BOOLEAN
      /\ ff = Down <=> ff[1] = FALSE /\ ff[2] = FALSE
      /\ ff2 = Down <=> ff2[1] = FALSE /\ ff2[2] = FALSE
  BY <1>1, LowIsDown
<1>3. CASE coreRst \/ coreRst'
  BY <1>1, <1>2, <1>3
<1>4. CASE ~coreRst /\ ~coreRst' /\ c
  <2>1. ff2[2] = ff[1] /\ ff2[1] = FALSE
    BY <1>1, <1>4
  <2> QED BY <1>1, <1>2, <2>1
<1>5. CASE ~coreRst /\ ~coreRst' /\ ~c
  <2>1. ff2 = ff
    BY <1>1, <1>5
  <2> QED BY <1>1, <1>2, <1>5, <2>1
<1> QED BY <1>3, <1>4, <1>5

(* A transmitter that rests is clear when it starts: the flops have had the *)
(* clocks they need.                                                        *)
LEMMA FromResting ==
  ASSUME FastTypeOK, FastTypeOK', Resting, NEW sysEdge \in BOOLEAN, NEW txEdge \in BOOLEAN, NEW in,
         InputOK(sysEdge, in), FastStep(sysEdge, txEdge, in)
  PROVE  NothingDue' /\ (Resetting' \/ Resting' \/ Starting')
<1>1. ~coreRst /\ phase = "off" /\ ~txen /\ SysClear /\ NothingDue
  BY DEF Resting, txen
<1>2. coreRst' => Resetting'
  <2>1. coreRst' => synctx_txen' = Down /\ \A i \in Sides : synctx_sysflip'[i] = Down
    BY ResetIsDown
  <2> QED BY <2>1 DEF Resetting, AllDown, Down
<1>3. SysClear' /\ NothingDue' /\ (sysEdge => ~escaped' /\ ~fctSent' /\ last' # "other")
  <2>1. CASE sysEdge
    <3>1. FastStep(TRUE, txEdge, in)
      BY <2>1
    <3> QED BY <1>1, <2>1, <3>1, ClearingStep
  <2>2. CASE ~sysEdge
    <3>1. UNCHANGED sysRegs /\ slot' = IF txEdge /\ takes THEN [slot EXCEPT ![b_mux] = Empty] ELSE slot
      BY <2>2 DEF FastStep, Slots
    <3>2. \A i \in Sides : slot'[i] = Empty
      BY <1>1, <3>1 DEF SysClear, FastTypeOK
    <3>3. SysClear'
      BY <1>1, <3>1, <3>2 DEF SysClear, sysRegs
    <3>4. NothingDue'
      BY <1>1, <2>2, StaysNothing DEF SysClear
    <3> QED BY <2>2, <3>3, <3>4
  <2> QED BY <2>1, <2>2
<1>4. /\ \A i \in Sides : sysflip[i] = FALSE /\ sysflip'[i] = FALSE
      /\ txenreg = FALSE /\ txenreg' = FALSE
  BY <1>1, <1>3 DEF SysClear, FastTypeOK
<1>5. /\ synctx_txen' \in Synchronised(synctx_txen, txEdge, FALSE, FALSE)
      /\ \A i \in Sides : synctx_sysflip'[i] \in Synchronised(synctx_sysflip[i], txEdge, FALSE, FALSE)
  <2>1. /\ synctx_txen' \in Synchronised(synctx_txen, txEdge, txenreg, txenreg')
        /\ \A i \in Sides : synctx_sysflip'[i] \in Synchronised(synctx_sysflip[i], txEdge, sysflip[i], sysflip'[i])
    BY SyncTypes DEF FastStep, FastTypeOK
  <2> QED BY <1>4, <2>1
<1>6. /\ synctx_txen \in BOOLEAN \X BOOLEAN /\ synctx_txen' \in BOOLEAN \X BOOLEAN
      /\ \A i \in Sides : synctx_sysflip[i] \in BOOLEAN \X BOOLEAN /\ synctx_sysflip'[i] \in BOOLEAN \X BOOLEAN
  BY DEF FastTypeOK
<1>7. rested \in 0..Rest /\ Rest \in Nat /\ Rest >= 3
  BY RestAssumption DEF FastTypeOK
<1>8. InPace(sysEdge, txEdge) /\ last \in {"sys", "other", "both"}
  BY DEF FastStep, FastTypeOK
<1>9. CASE sysEdge
  <2>1. LinkMoves /\ last' # "other" /\ (last = "other" \/ txEdge)
    BY <1>8, <1>9 DEF FastStep, InPace
  <2>2. \/ phase' = "off" /\ rested' = (IF rested = Rest THEN Rest ELSE rested + 1)
        \/ phase' = "null" /\ rested = Rest /\ rested' = 0
    BY <1>1, <2>1 DEF LinkMoves
  <2>3. ASSUME NEW ff \in BOOLEAN \X BOOLEAN, NEW ff2 \in BOOLEAN \X BOOLEAN,
               ff2 \in Synchronised(ff, txEdge, FALSE, FALSE), Falling(ff)
        PROVE  /\ rested < 2 => ff2 = Down
               /\ rested >= 2 => ~ff2[1]
               /\ rested > 2 => ff2 = Down
    <3>1. /\ rested < 2 => ff = Down
          /\ rested = 2 /\ last = "other" => ~ff[1]
          /\ rested > 2 => ~ff[1] /\ (last = "other" => ~ff[2])
      BY <2>3 DEF Falling
    <3>2. /\ ~ff[1] => ~ff2[1]
          /\ txEdge => ~ff2[1] /\ (ff2[2] => ff[1])
          /\ ~ff[1] /\ ~ff[2] => ~ff2[1] /\ ~ff2[2]
      BY <2>3, StaysLow
    <3>3. ff = Down => ~ff[1] /\ ~ff[2]
      BY LowIsDown
    <3>4. ~ff2[1] /\ ~ff2[2] => ff2 = Down
      BY LowIsDown
    <3>5. rested >= 2 => rested = 2 \/ rested > 2
      BY <1>7
    <3> QED BY <2>1, <3>1, <3>4, <3>5, <3>2, <3>3
  <2>4. CASE phase' = "off" /\ rested' = (IF rested = Rest THEN Rest ELSE rested + 1)
    <3>1. /\ rested' < 2 => rested < 2
          /\ rested' > 2 => rested >= 2
      BY <1>7, <2>4
    <3>2. Falling(synctx_txen)
      BY DEF Resting
    <3>3. (rested' < 2 => synctx_txen' = Down) /\ (rested' > 2 => ~synctx_txen'[1])
      BY <1>5, <1>6, <2>3, <3>1, <3>2
    <3>4. \A i \in Sides : (rested' < 2 => synctx_sysflip'[i] = Down) /\ (rested' > 2 => ~synctx_sysflip'[i][1])
      <4> SUFFICES ASSUME NEW i \in Sides
                   PROVE (rested' < 2 => synctx_sysflip'[i] = Down) /\ (rested' > 2 => ~synctx_sysflip'[i][1])
        OBVIOUS
      <4>1. Falling(synctx_sysflip[i])
        BY DEF Resting
      <4> QED BY <1>5, <1>6, <2>3, <3>1, <4>1
    <3>5. Falling(synctx_txen)' /\ \A i \in Sides : Falling(synctx_sysflip[i])'
      BY <2>1, <3>3, <3>4 DEF Falling, Down
    <3> QED BY <1>2, <1>3, <2>4, <3>5 DEF Resting
  <2>5. CASE phase' = "null" /\ rested = Rest /\ rested' = 0
    <3>1. rested > 2
      BY <1>7, <2>5
    <3>2. synctx_txen' = Down
      BY <1>5, <1>6, <2>3, <3>1 DEF Resting
    <3>3. \A i \in Sides : synctx_sysflip'[i] = Down
      <4> SUFFICES ASSUME NEW i \in Sides PROVE synctx_sysflip'[i] = Down
        OBVIOUS
      <4>1. Falling(synctx_sysflip[i])
        BY DEF Resting
      <4> QED BY <1>5, <1>6, <2>3, <3>1, <4>1
    <3> QED BY <1>2, <1>3, <1>9, <2>5, <3>2, <3>3 DEF Starting, AllDown, Down
  <2> QED BY <1>3, <2>2, <2>4, <2>5
<1>10. CASE ~sysEdge
  <2>1. txEdge /\ last' = "other" /\ phase' = phase /\ rested' = rested /\ coreRst' = coreRst
    BY <1>8, <1>10 DEF InPace, FastStep, AnyReset, envVars
  <2>2. ASSUME NEW ff \in BOOLEAN \X BOOLEAN, NEW ff2 \in Synchronised(ff, txEdge, FALSE, FALSE), Falling(ff)
        PROVE  /\ rested < 2 => ff2 = Down
               /\ ~ff2[1]
               /\ rested > 2 => ~ff2[2]
    BY <2>1, <2>2, StaysLow DEF Falling
  <2>3. (rested' < 2 => synctx_txen' = Down) /\ ~synctx_txen'[1] /\ (rested' > 2 => ~synctx_txen'[2])
    BY <1>5, <1>6, <2>1, <2>2 DEF Resting
  <2>4. \A i \in Sides : (rested' < 2 => synctx_sysflip'[i] = Down) /\ ~synctx_sysflip'[i][1] /\ (rested' > 2 => ~synctx_sysflip'[i][2])
    <3> SUFFICES ASSUME NEW i \in Sides
                 PROVE (rested' < 2 => synctx_sysflip'[i] = Down) /\ ~synctx_sysflip'[i][1] /\ (rested' > 2 => ~synctx_sysflip'[i][2])
      OBVIOUS
    <3>1. Falling(synctx_sysflip[i])
      BY DEF Resting
    <3> QED BY <1>5, <1>6, <2>1, <2>2, <3>1
  <2>5. Falling(synctx_txen)' /\ \A i \in Sides : Falling(synctx_sysflip[i])'
    BY <2>3, <2>4 DEF Falling, Down
  <2> QED BY <1>1, <1>3, <2>1, <2>5 DEF Resting
<1> QED BY <1>9, <1>10

LEMMA FromResetting ==
  ASSUME FastTypeOK, FastTypeOK', FewDue, Resetting, NEW sysEdge \in BOOLEAN, NEW txEdge \in BOOLEAN, NEW in,
         InputOK(sysEdge, in), FastStep(sysEdge, txEdge, in)
  PROVE  FewDue' /\ (Resetting' \/ Resting')
<1>1. coreRst /\ synctx_txen' = Down /\ \A i \in Sides : synctx_sysflip'[i] = Down
  BY ResetIsDown DEF Resetting
<1>2. coreRst' => Resetting'
  BY <1>1 DEF Resetting, AllDown, Down
<1>3. CASE sysEdge
  <2>1. FastStep(TRUE, txEdge, in)
    BY <1>3
  <2>2. SysClear' /\ NothingDue' /\ last' # "other"
    BY <1>1, <2>1, ClearingStep
  <2>3. FewDue'
    BY <2>2, NothingIsFew, PTL
  <2>4. phase' = "off" /\ rested' = 0
    BY <1>1, <2>1 DEF FastStep, LinkMoves
  <2>5. Falling(synctx_txen)' /\ \A i \in Sides : Falling(synctx_sysflip[i])'
    <3>1. rested' < 2 /\ rested' # 2 /\ ~(rested' > 2)
      BY <2>4
    <3> QED BY <1>1, <3>1 DEF Falling, Down
  <2> QED BY <1>2, <2>2, <2>3, <2>4, <2>5 DEF Resting
<1>4. CASE ~sysEdge
  <2>1. coreRst'
    BY <1>1, <1>4 DEF FastStep, AnyReset
  <2>2. History(sysEdge, txEdge, in)
    BY DEF FastStep
  <2>3. dueFcts \in Nat /\ dueChars \in Seq(Data \cup Ends) /\ dueTimes \in Seq(Times)
    BY DEF FastTypeOK
  <2>4. dueFcts' = dueFcts \/ dueFcts' = dueFcts - 1
    BY <1>4, <2>2, <2>3 DEF History
  <2>5. dueChars' = dueChars \/ (dueChars # <<>> /\ dueChars' = Tail(dueChars))
    BY <1>4, <2>2 DEF History
  <2>6. dueTimes' = dueTimes \/ (dueTimes # <<>> /\ dueTimes' = Tail(dueTimes))
    BY <1>4, <2>2 DEF History
  <2>7. Len(dueChars') <= Len(dueChars) /\ Len(dueChars') \in Nat
    BY <2>3, <2>5
  <2>8. Len(dueTimes') <= Len(dueTimes) /\ Len(dueTimes') \in Nat
    BY <2>3, <2>6
  <2>9. FewDue'
    BY <2>3, <2>4, <2>7, <2>8 DEF FewDue
  <2> QED BY <1>2, <2>1, <2>9
<1> QED BY <1>3, <1>4

(* The first transmit clock after the start finds the enable signal down. *)
LEMMA FromStarting ==
  ASSUME FastTypeOK, FastTypeOK', Starting, NEW sysEdge \in BOOLEAN, NEW txEdge \in BOOLEAN, NEW in,
         InputOK(sysEdge, in), FastStep(sysEdge, txEdge, in)
  PROVE  NothingDue' /\ (Resetting' \/ Starting' \/ Fresh')
<1>1. /\ ~coreRst /\ phase = "null" /\ txen /\ SysClear /\ NothingDue /\ ~escaped /\ ~fctSent /\ AllDown
      /\ last = "other" => TxClear
  BY DEF Starting, txen
<1>2. coreRst' => Resetting'
  <2>1. coreRst' => synctx_txen' = Down /\ \A i \in Sides : synctx_sysflip'[i] = Down
    BY ResetIsDown
  <2> QED BY <2>1 DEF Resetting, AllDown, Down
<1>3. ~enabled /\ ~sends /\ ~takes
  <2>1. synctx_txen = <<FALSE, FALSE>>
    BY <1>1 DEF AllDown, Down
  <2>2. ~enabled
    BY <2>1 DEF enabled
  <2> QED BY <2>2 DEF sends, takes
<1>4. NothingDue' /\ ~escaped' /\ ~fctSent'
  <2>1. ~allow_fct /\ ~allow_char
    BY <1>1 DEF SysClear
  <2> QED BY <1>1, <1>3, <2>1, StaysNothing
<1>5. InPace(sysEdge, txEdge) /\ last \in {"sys", "other", "both"} /\ Slots(sysEdge, txEdge, in)
  BY DEF FastStep, FastTypeOK
<1>6. txEdge => TxClear'
  <2>1. txEdge => TxDisabled
    BY <1>3 DEF FastStep, TxClock, TxEnabled
  <2> QED BY <2>1 DEF TxDisabled, TxClear
<1>7. /\ synctx_txen' \in Synchronised(synctx_txen, txEdge, txenreg, txenreg')
      /\ \A i \in Sides : synctx_sysflip'[i] \in Synchronised(synctx_sysflip[i], txEdge, sysflip[i], sysflip'[i])
  BY SyncTypes DEF FastStep, FastTypeOK
<1>8. /\ synctx_txen \in BOOLEAN \X BOOLEAN /\ synctx_txen' \in BOOLEAN \X BOOLEAN
      /\ \A i \in Sides : synctx_sysflip[i] \in BOOLEAN \X BOOLEAN /\ synctx_sysflip'[i] \in BOOLEAN \X BOOLEAN
      /\ synctx_txen = Down /\ \A i \in Sides : synctx_sysflip[i] = Down
      /\ txenreg = FALSE /\ txenreg' \in BOOLEAN
  BY <1>1 DEF FastTypeOK, AllDown, SysClear
<1>9. \A i \in Sides : sysflip[i] = FALSE /\ slot[i] = Empty
  BY <1>1 DEF SysClear, FastTypeOK
<1>10. CASE sysEdge
  <2>1. SysEnabled(in) /\ LinkMoves
    BY <1>1, <1>10 DEF FastStep, SysDisabled, SysReset
  <2>2. ~timeFirst /\ ~takesFct(in) /\ ~takesChar /\ ~txack(in) /\ ~fills(in)
    BY <1>1 DEF SysClear, timeFirst, takesFct, takesChar, txack, fills
  <2>3. sysflip' = sysflip /\ tokmux' = tokmux
    BY <2>1, <2>2 DEF SysEnabled, FlipFlag
  <2>4. ~pend_fct' /\ pend_char' = None /\ ~sent_fct'
    BY <1>1, <2>1, <2>2 DEF SysEnabled, Pending, SysClear
  <2>5. ~allow_fct' /\ ~allow_char'
    BY <1>1, <2>1 DEF SysEnabled, Allowed
  <2>6. \A i \in Sides : slot'[i] = Empty
    BY <1>1, <1>3, <1>5, <1>9, <1>10, <2>2 DEF Slots, Filled
  <2>7. SysFresh'
    BY <1>1, <1>9, <2>3, <2>4, <2>5, <2>6 DEF SysFresh, SysClear
  <2>8. TxClear'
    <3>1. CASE txEdge
      BY <1>6, <3>1
    <3>2. CASE ~txEdge
      <4>1. last = "other" /\ UNCHANGED txRegs
        BY <1>5, <1>10, <3>2 DEF InPace, FastStep
      <4> QED BY <1>1, <4>1 DEF txRegs, TxClear
    <3> QED BY <3>1, <3>2
  <2>9. \A i \in Sides : synctx_sysflip'[i] = Down
    <3> SUFFICES ASSUME NEW i \in Sides PROVE synctx_sysflip'[i] = Down
      OBVIOUS
    <3>1. synctx_sysflip'[i] \in Synchronised(synctx_sysflip[i], txEdge, FALSE, FALSE)
      BY <1>7, <1>9, <2>3
    <3> QED BY <1>8, <3>1, StaysLow
  <2>10. ~coreRst' => ~enabled' /\ (synctx_txen'[1] => txenreg')
    <3>1. ~coreRst /\ ~coreRst' => IF txEdge THEN synctx_txen'[2] = synctx_txen[1] /\ synctx_txen'[1] \in {txenreg, txenreg'}
                                   ELSE synctx_txen' = synctx_txen
      <4>1. synctx_txen' \in Synchronised(synctx_txen, txEdge, txenreg, txenreg')
        BY <1>7
      <4>2. synctx_txen \in BOOLEAN \X BOOLEAN /\ txenreg \in BOOLEAN /\ txenreg' \in BOOLEAN
        BY <1>8
      <4> QED BY <4>1, <4>2, Synchs
    <3>2. synctx_txen[1] = FALSE /\ synctx_txen[2] = FALSE
      BY <1>8, LowIsDown
    <3> QED BY <1>1, <1>8, <3>1, <3>2 DEF enabled
  <2>11. ~coreRst' /\ phase' = "off" => rested' = 1
    <3>1. rested = 0 /\ rested # Rest
      BY <1>1, RestAssumption DEF FastTypeOK
    <3> QED BY <1>1, <2>1, <3>1 DEF LinkMoves
  <2>12. ~coreRst' => Fresh'
    BY <1>4, <2>7, <2>8, <2>9, <2>10, <2>11 DEF Fresh, Down
  <2> QED BY <1>2, <1>4, <2>12
<1>11. CASE ~sysEdge
  <2>1. txEdge /\ UNCHANGED <<sysRegs, envVars>> /\ coreRst' = coreRst
    BY <1>5, <1>11 DEF InPace, FastStep, AnyReset
  <2>2. \A i \in Sides : slot'[i] = Empty
    BY <1>3, <1>5, <1>9, <1>11 DEF Slots
  <2>3. SysClear' /\ phase' = "null"
    BY <1>1, <2>1, <2>2 DEF SysClear, sysRegs, envVars
  <2>4. synctx_txen' = Down
    <3>1. synctx_txen' \in Synchronised(synctx_txen, txEdge, FALSE, FALSE)
      BY <1>7, <1>8, <2>1 DEF sysRegs
    <3> QED BY <1>8, <3>1, StaysLow
  <2>5. \A i \in Sides : synctx_sysflip'[i] = Down
    <3> SUFFICES ASSUME NEW i \in Sides PROVE synctx_sysflip'[i] = Down
      OBVIOUS
    <3>1. synctx_sysflip'[i] \in Synchronised(synctx_sysflip[i], txEdge, FALSE, FALSE)
      BY <1>7, <1>9, <2>1 DEF sysRegs
    <3> QED BY <1>8, <3>1, StaysLow
  <2>6. Starting'
    BY <1>1, <1>4, <1>6, <2>1, <2>3, <2>4, <2>5 DEF Starting, AllDown, Down
  <2> QED BY <1>4, <2>6
<1> QED BY <1>10, <1>11

LEMMA FastInvInit == Unclocked /\ FastInit => FastInv
<1> SUFFICES ASSUME Unclocked, FastInit PROVE FastInv
  OBVIOUS
<1>1. FastTypeOK
  <2>1. \A i \in Sides : Down \in BOOLEAN \X BOOLEAN
    BY DEF Down
  <2>2. <<>> \in Seq(Data \cup Ends) /\ <<>> \in Seq(Times) /\ 0 \in 0..Rest /\ 0 \in Nat
    BY RestAssumption
  <2>3. /\ last \in {"sys", "other", "both"} /\ coreRst \in BOOLEAN /\ phase = "off" /\ rested = 0
        /\ txenreg \in BOOLEAN /\ sysflip \in [Sides -> BOOLEAN] /\ tokmux \in Sides
    BY DEF Unclocked, FastInit, Sides
  <2>4. slot \in [Sides -> TokenRecords] /\ b_token \in TokenRecords
    BY EmptyOK DEF FastInit
  <2>5. /\ pend_fct \in BOOLEAN /\ pend_char \in Data \cup Ends \cup {None} /\ pend_tick \in Times \cup {None}
        /\ allow_fct \in BOOLEAN /\ allow_char \in BOOLEAN /\ sent_fct \in BOOLEAN
    BY DEF FastInit
  <2>6. /\ bitclken \in BOOLEAN /\ txflip \in [Sides -> BOOLEAN] /\ b_update \in BOOLEAN /\ b_mux \in Sides
        /\ b_txflip \in BOOLEAN /\ b_valid \in BOOLEAN
        /\ c_update \in BOOLEAN /\ c_busy \in BOOLEAN /\ c_esc \in BOOLEAN /\ c_fct \in BOOLEAN
    BY DEF FastInit, Sides
  <2>7. /\ synctx_sysflip \in [Sides -> BOOLEAN \X BOOLEAN] /\ synctx_txen \in BOOLEAN \X BOOLEAN
        /\ syncsys_txflip \in [Sides -> BOOLEAN \X BOOLEAN]
    BY <2>1 DEF FastInit, Sides
  <2>8. e_count = 0 /\ dueFcts = 0 /\ dueChars = <<>> /\ dueTimes = <<>> /\ escaped = FALSE /\ fctSent = FALSE
    BY DEF FastInit
  <2> QED BY <2>2, <2>3, <2>4, <2>5, <2>6, <2>7, <2>8 DEF FastTypeOK
<1>2. NothingDue /\ SysClear
  BY DEF FastInit, NothingDue, SysClear
<1>3. Resting
  BY <1>2 DEF Unclocked, FastInit, Resting, Falling
<1> QED BY <1>1, <1>2, <1>3, NothingIsFew DEF FastInv

(* Every step keeps the invariant. *)
LEMMA FastInvStep == FastInv /\ [FastNext]_<<last, coreRst, fastVars>> => FastInv'
<1> SUFFICES ASSUME FastInv, [FastNext]_<<last, coreRst, fastVars>> PROVE FastInv'
  OBVIOUS
<1>1. FastTypeOK /\ FewDue /\ (Working \/ Resetting \/ Resting \/ Starting)
  BY DEF FastInv
<1>2. CASE FastNext
  <2>1. PICK sysEdge \in BOOLEAN, txEdge \in BOOLEAN : \E in : InputOK(sysEdge, in) /\ FastStep(sysEdge, txEdge, in)
    BY <1>2, FastNextIsStep
  <2>2. PICK in : InputOK(sysEdge, in) /\ FastStep(sysEdge, txEdge, in)
    BY <2>1
  <2>3. FastTypeOK'
    BY <1>1, <2>2, FastTypeStep
  <2>4. NothingDue' => FewDue'
    BY NothingIsFew, PTL
  <2>5. Fresh' => Working'
    BY FreshIsWorking, PTL
  <2>6. CASE Working
    BY <1>1, <2>2, <2>3, <2>6, FromWorking DEF FastInv
  <2>7. CASE Resetting
    BY <1>1, <2>2, <2>3, <2>7, FromResetting DEF FastInv
  <2>8. CASE Resting
    BY <1>1, <2>2, <2>3, <2>4, <2>8, FromResting DEF FastInv
  <2>9. CASE Starting
    BY <1>1, <2>2, <2>3, <2>4, <2>5, <2>9, FromStarting DEF FastInv
  <2> QED BY <1>1, <2>6, <2>7, <2>8, <2>9
<1>3. CASE UNCHANGED <<last, coreRst, fastVars>>
  <2>1. FastTypeOK' /\ FewDue'
    BY <1>1, <1>3 DEF fastVars, envVars, sysRegs, txRegs, txSyncs, history, FastTypeOK, FewDue
  <2>2. Resetting => Resetting'
    BY <1>3 DEF fastVars, txSyncs, Resetting, AllDown, Down
  <2>3. Resting => Resting'
    BY <1>3 DEF fastVars, envVars, sysRegs, txSyncs, history, Resting, SysClear, NothingDue, Falling, Empty, Down
  <2>4. Starting => Starting'
    BY <1>3 DEF fastVars, envVars, sysRegs, txRegs, txSyncs, history, Starting, SysClear, NothingDue, AllDown, TxClear,
                Empty, Down
  <2>5. FlagsOK => FlagsOK'
    BY <1>3 DEF fastVars, sysRegs, txRegs, txSyncs, FlagsOK, filled
  <2>6. SlotsOK => SlotsOK'
    BY <1>3 DEF fastVars, sysRegs, txRegs, SlotsOK, filled, Proper, Empty
  <2>7. NotYet => NotYet'
    BY <1>3 DEF fastVars, envVars, sysRegs, txRegs, NotYet
  <2>8. Enabling => Enabling'
    BY <1>3 DEF fastVars, sysRegs, txRegs, txSyncs, Enabling, enabled, TxClear, Empty
  <2>9. PipeOK => PipeOK'
    BY <1>3 DEF fastVars, txRegs, PipeOK, pending, startsWithEsc, Proper, Empty
  <2>10. DueOK => DueOK'
    BY <1>3 DEF fastVars, sysRegs, txRegs, history, DueOK, Unsent, InSlots, Of, FctUnsent, One, half, pending, startsWithEsc
  <2>11. FctFirst => FctFirst'
    BY <1>3 DEF fastVars, sysRegs, txRegs, history, FctFirst, FctAhead, FctUnsent, half, pending
  <2>12. Working => Working'
    BY <1>3, <2>5, <2>6, <2>7, <2>8, <2>9, <2>10, <2>11 DEF fastVars, envVars, Working
  <2> QED BY <1>1, <2>1, <2>2, <2>3, <2>4, <2>12 DEF FastInv
<1> QED BY <1>2, <1>3

(***************************************************************************)
(* Every code that is sent has its reason, for every set of codes, length  *)
(* of a code, way of dividing the transmit clock and rest of at least      *)
(* three clocks, however the edges of the two clocks fall: what the link   *)
(* asked for is sent once, in order, in the connection that accepted it,   *)
(* an FCT goes ahead of the first N-Char, and a Time-Code follows its ESC. *)
(***************************************************************************)
THEOREM TokensAreSent == FastSpec => []SentAsAccepted
<1>1. FastInv => SentAsAccepted
  BY InvIsAsAccepted
<1> QED BY <1>1, FastInvInit, FastInvStep, PTL DEF FastSpec
=============================================================================
