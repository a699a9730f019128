------------------------------ MODULE FastXmit ------------------------------
(***************************************************************************)
(* The transmitter with its own clock (spwxmit_fast): requests are turned  *)
(* into tokens in the system clock's domain, tokens cross to the transmit  *)
(* clock through two slots whose flags are flipped when a slot is filled   *)
(* and when it is emptied, and a pipeline of stages B to E turns them into *)
(* the codes that are shifted out.                                         *)
(*                                                                         *)
(* When both clocks have an edge at once, each synchroniser and each slot  *)
(* may be seen as it was or as it becomes.  The division of the transmit   *)
(* clock is not modelled here (TxDivider is): BitDue says when a bit is    *)
(* due, and the enable signal crosses when the divider is next loaded.     *)
(* The last stage, which shifts the code out with its parity, is left out, *)
(* and so is what a token that is not valid holds: it decides nothing.     *)
(***************************************************************************)
EXTENDS TwoClocks, Naturals, Sequences

CONSTANTS
  Data,     \* what ten-bit N-Chars carry
  Ends,     \* EOP and EEP, of four bits
  Times,    \* Time-Codes
  LongBits, \* bits of a ten-bit code after its first one (9 in the code)
  BitDue,   \* whether a bit is due in a transmit clock: {TRUE} if it is not divided
  Rest      \* the system clocks for which a disabled transmitter stays so

(* No code is of two kinds. *)
ASSUME CodesAssumption ==
  /\ (Data \cup Ends) \cap Times = {}
  /\ {"ESC", "FCT", "none"} \cap (Data \cup Ends \cup Times) = {}

(* Stage C is loaded when three bits are left, so a code has four at least. *)
ASSUME LongBitsAssumption == LongBits \in Nat /\ LongBits >= 3

(* The flops need three system clocks to fall.  The link gives three periods *)
(* of its timer, of two clocks at least (ExchangeOfSilence of MCSpwLink).    *)
ASSUME RestAssumption == Rest \in Nat /\ Rest >= 3

ASSUME BitDueAssumption == BitDue \subseteq BOOLEAN

Codes == {"ESC", "FCT"} \cup Data \cup Ends \cup Times

VARIABLES
  \* environment
  phase,       \* the link: "off", "null" (Started), "fct" (Connecting) or "run"
  rested,      \* system clocks spent in "off", up to Rest
  \* registers of the system clock
  txenreg, sysflip, slot, tokmux,
  pend_fct, pend_char, pend_tick, allow_fct, allow_char, sent_fct,
  \* registers of the transmit clock
  bitclken, txflip, b_update, b_mux, b_txflip, b_valid, b_token,
  c_update, c_busy, c_esc, c_fct, c_char, d_code, e_count,
  \* synchronisers: <<first flop, second flop>>
  synctx_sysflip, synctx_txen, syncsys_txflip,
  \* history of the connection
  dueFcts,     \* FCTs acknowledged and not yet sent
  dueChars,    \* N-Chars acknowledged and not yet sent
  dueTimes,    \* Time-Codes put into a slot and not yet sent
  escaped,     \* the last code sent was ESC
  fctSent      \* an FCT has been sent

envVars  == <<phase, rested>>
sysRegs  == <<txenreg, sysflip, tokmux,
              pend_fct, pend_char, pend_tick, allow_fct, allow_char, sent_fct>>
txRegs   == <<bitclken, txflip, b_update, b_mux, b_txflip, b_valid, b_token,
              c_update, c_busy, c_esc, c_fct, c_char, d_code, e_count>>
txSyncs  == <<synctx_sysflip, synctx_txen>>
history  == <<dueFcts, dueChars, dueTimes, escaped, fctSent>>
fastVars == <<envVars, sysRegs, slot, txRegs, txSyncs, syncsys_txflip, history>>

None  == "none"
Empty == [tick |-> FALSE, fct |-> FALSE, piggy |-> FALSE, char |-> None]
Sides == {0, 1}

(***************************************************************************)
(* Tokens, in the system clock's domain.                                   *)
(***************************************************************************)
XmitInput == [fct_in : BOOLEAN, tick : Times \cup {None}, txwrite : Data \cup Ends \cup {None}]

txen == phase # "off"

NoInput == [fct_in |-> FALSE, tick |-> None, txwrite |-> None]

fctack(in) == in.fct_in /\ allow_fct /\ pend_fct = FALSE
txack(in)  == in.txwrite # None /\ allow_char /\ pend_char = None

needtoken == sysflip[tokmux] = syncsys_txflip[tokmux][2]

(* The link and the user may ask in any clock.  An FCT or an N-Char that is *)
(* not acknowledged changes nothing and stays offered, and is left out.  A  *)
(* Time-Code is taken whenever it comes, and replaces one that waits.       *)
Heard(in) ==
  /\ txen /\ ~coreRst
  /\ in.fct_in => fctack(in)
  /\ in.txwrite # None => txack(in)

timeFirst == allow_char /\ pend_tick # None
takesFct(in) == ~timeFirst /\ allow_fct /\ (in.fct_in \/ pend_fct)
takesChar == ~timeFirst /\ allow_char /\ pend_char # None

token(in) ==
  IF timeFirst THEN [Empty EXCEPT !.tick = TRUE, !.char = pend_tick]
  ELSE [tick |-> FALSE, fct |-> takesFct(in), piggy |-> takesFct(in) /\ takesChar,
        char |-> IF takesChar THEN pend_char ELSE None]

fills(in) == needtoken /\ (timeFirst \/ takesFct(in) \/ takesChar)

FlipFlag(in) ==
  IF fills(in)
  THEN sysflip' = [sysflip EXCEPT ![tokmux] = ~@] /\ tokmux' = 1 - tokmux
  ELSE UNCHANGED <<sysflip, tokmux>>

Pending(in) ==
  /\ pend_fct' = ((pend_fct \/ (in.fct_in /\ allow_fct)) /\ ~(needtoken /\ takesFct(in)))
  /\ pend_char' = IF txack(in) THEN in.txwrite
                  ELSE IF needtoken /\ takesChar THEN None ELSE pend_char
  /\ pend_tick' = IF in.tick # None THEN in.tick
                  ELSE IF needtoken /\ timeFirst THEN None ELSE pend_tick
  /\ sent_fct' = (sent_fct \/ (needtoken /\ takesFct(in)))

Allowed ==
  /\ allow_fct' = (phase # "null")
  /\ allow_char' = (phase = "run" /\ sent_fct)

(* The transmitter is enabled when the divider is next latched. *)
Latch == txenreg' \in IF txen THEN {TRUE, txenreg} ELSE {FALSE}

SysEnabled(in) ==
  /\ ~coreRst /\ txen
  /\ FlipFlag(in) /\ Pending(in) /\ Allowed /\ Latch

(* Fault: the token flags are left as they are while the transmitter is disabled. *)
SysDisabledKeepFlags ==
  /\ ~coreRst /\ ~txen
  /\ UNCHANGED sysflip /\ tokmux' = 0
  /\ pend_fct' = FALSE /\ pend_char' = None /\ pend_tick' = None
  /\ allow_fct' = FALSE /\ allow_char' = FALSE /\ sent_fct' = FALSE
  /\ Latch

SysDisabled ==
  /\ ~coreRst /\ ~txen
  /\ sysflip' = [i \in Sides |-> FALSE] /\ tokmux' = 0
  /\ pend_fct' = FALSE /\ pend_char' = None /\ pend_tick' = None
  /\ allow_fct' = FALSE /\ allow_char' = FALSE /\ sent_fct' = FALSE
  /\ Latch

SysReset ==
  /\ coreRst
  /\ sysflip' = [i \in Sides |-> FALSE] /\ tokmux' = 0
  /\ pend_fct' = FALSE /\ pend_char' = None /\ pend_tick' = None
  /\ allow_fct' = FALSE /\ allow_char' = FALSE /\ sent_fct' = FALSE
  /\ txenreg' = FALSE

(***************************************************************************)
(* Stages B to E, in the transmit clock's domain.  A token of more than    *)
(* one code (a Time-Code, an FCT with an N-Char behind it, NULL for want   *)
(* of a token) keeps stage C busy for a second code.                       *)
(***************************************************************************)
enabled == synctx_txen[2]

loads == bitclken /\ e_count = 0

fresh == synctx_sysflip[b_mux][2] # b_txflip

(* The slots as the system clock leaves them.  A slot that was filled for an *)
(* earlier connection, or that has been taken, holds nothing of account:     *)
(* were it taken again, a code would be sent that is none.                   *)
Filled(in) ==
  IF coreRst \/ ~txen THEN [i \in Sides |-> Empty]
  ELSE IF txen /\ fills(in) THEN [slot EXCEPT ![tokmux] = token(in)]
  ELSE slot

takes == enabled /\ b_update /\ fresh

Slots(sysEdge, txEdge, in) ==
  LET filled == IF sysEdge THEN Filled(in) ELSE slot
  IN slot' = IF txEdge /\ takes THEN [filled EXCEPT ![b_mux] = Empty] ELSE filled

StageB(filled) ==
  IF b_update
  THEN /\ b_valid' = fresh
       /\ b_token' \in IF fresh THEN {slot[b_mux], filled[b_mux]} ELSE {Empty}
       /\ b_mux' = IF fresh THEN 1 - b_mux ELSE b_mux
       /\ txflip' = [txflip EXCEPT ![b_mux] = synctx_sysflip[b_mux][2]]
  ELSE UNCHANGED <<b_valid, b_token, b_mux, txflip>>

StageC ==
  IF c_update
  THEN /\ c_esc' = ((b_token.tick \/ ~b_valid) /\ ~c_esc)
       /\ c_fct' = ((b_token.fct /\ ~c_busy) \/ ~b_valid)
       /\ c_busy' = ((b_token.tick \/ ~b_valid \/ b_token.piggy) /\ ~c_busy)
       /\ c_char' = b_token.char
  ELSE UNCHANGED <<c_esc, c_fct, c_busy, c_char>>

StageD == d_code' = IF c_esc THEN "ESC" ELSE IF c_fct THEN "FCT" ELSE c_char

StageE ==
  e_count' = IF loads THEN IF d_code \in Data \cup Times THEN LongBits ELSE 3
             ELSE IF bitclken THEN e_count - 1 ELSE e_count

TxEnabled(filled) ==
  /\ enabled
  /\ b_update' = (loads /\ ~c_busy)
  /\ c_update' = (bitclken /\ e_count = 3)
  /\ StageB(filled) /\ StageC /\ StageD /\ StageE

(* The first NULL is prepared while the transmitter is disabled. *)
TxDisabled ==
  /\ ~enabled
  /\ txflip' = [i \in Sides |-> FALSE] /\ b_mux' = 0
  /\ b_update' = FALSE /\ b_valid' = FALSE
  /\ b_token' = Empty
  /\ c_update' = FALSE /\ c_busy' = TRUE /\ c_esc' = TRUE /\ c_fct' = TRUE
  /\ c_char' = IF c_update THEN b_token.char ELSE c_char
  /\ d_code' = "ESC" /\ e_count' = 0

TxClock(filled) ==
  /\ TxEnabled(filled) \/ TxDisabled
  /\ b_txflip' = txflip[b_mux]
  /\ bitclken' \in BitDue

(***************************************************************************)
(* The two domains.                                                        *)
(***************************************************************************)
SyncTx(txEdge) ==
  /\ \E ff0 \in Synchronised(synctx_sysflip[0], txEdge, sysflip[0], sysflip'[0]),
        ff1 \in Synchronised(synctx_sysflip[1], txEdge, sysflip[1], sysflip'[1]) :
       synctx_sysflip' = [i \in Sides |-> IF i = 0 THEN ff0 ELSE ff1]
  /\ synctx_txen' \in Synchronised(synctx_txen, txEdge, txenreg, txenreg')

SyncSys(sysEdge) ==
  \E ff0 \in Synchronised(syncsys_txflip[0], sysEdge, txflip[0], txflip'[0]),
     ff1 \in Synchronised(syncsys_txflip[1], sysEdge, txflip[1], txflip'[1]) :
    syncsys_txflip' = [i \in Sides |-> IF i = 0 THEN ff0 ELSE ff1]

(* The link goes through its states; it stays disabled for Rest clocks. *)
LinkMoves ==
  /\ phase' \in IF coreRst THEN {"off"} ELSE
                 CASE phase = "off"  -> IF rested = Rest THEN {"off", "null"} ELSE {"off"}
                   [] phase = "null" -> {"null", "fct", "off"}
                   [] phase = "fct"  -> {"fct", "run", "off"}
                   [] phase = "run"  -> {"run", "off"}
  /\ rested' = IF coreRst \/ phase' # "off" THEN 0 ELSE IF rested = Rest THEN Rest ELSE rested + 1

isChar(code) == code \in Data \cup Ends
sends == loads /\ enabled

History(sysEdge, txEdge, in) ==
  LET sent(code) == txEdge /\ sends /\ d_code = code
      sentPlain  == txEdge /\ sends /\ ~escaped
      gone(q, yes) == IF yes /\ q # <<>> THEN Tail(q) ELSE q
      acked(yes) == IF yes THEN 1 ELSE 0
      lessFcts   == IF sentPlain /\ d_code = "FCT" /\ dueFcts > 0 THEN dueFcts - 1 ELSE dueFcts
      lessChars  == gone(dueChars, sentPlain /\ isChar(d_code))
      lessTimes  == gone(dueTimes, txEdge /\ sends /\ d_code \in Times)
  IN IF sysEdge /\ (coreRst \/ ~txen)
     THEN dueFcts' = 0 /\ dueChars' = <<>> /\ dueTimes' = <<>> /\ escaped' = FALSE /\ fctSent' = FALSE
     ELSE /\ dueFcts' = lessFcts + acked(sysEdge /\ fctack(in))
          /\ dueChars' = IF sysEdge /\ txack(in) THEN Append(lessChars, in.txwrite) ELSE lessChars
          /\ dueTimes' = IF sysEdge /\ timeFirst /\ needtoken THEN Append(lessTimes, pend_tick) ELSE lessTimes
          /\ escaped' = IF txEdge /\ sends THEN d_code = "ESC" ELSE escaped
          /\ fctSent' = (fctSent \/ (sentPlain /\ d_code = "FCT"))

FastNext ==
  \E sysEdge \in BOOLEAN, txEdge \in BOOLEAN :
    \E in \in {NoInput} \cup {asked \in XmitInput : sysEdge /\ Heard(asked)} :
      /\ InPace(sysEdge, txEdge)
      /\ IF sysEdge THEN SysEnabled(in) \/ SysDisabled \/ SysReset ELSE UNCHANGED sysRegs
      /\ IF txEdge THEN TxClock(IF sysEdge THEN Filled(in) ELSE slot) ELSE UNCHANGED txRegs
      /\ Slots(sysEdge, txEdge, in)
      /\ History(sysEdge, txEdge, in)
      /\ IF sysEdge THEN LinkMoves ELSE UNCHANGED envVars
      /\ AnyReset(sysEdge)
      /\ SyncTx(txEdge) /\ SyncSys(sysEdge)

FastInit ==
  /\ phase = "off" /\ rested = 0
  /\ txenreg = FALSE
  /\ sysflip = [i \in Sides |-> FALSE] /\ slot = [i \in Sides |-> Empty] /\ tokmux = 0
  /\ pend_fct = FALSE /\ pend_char = None /\ pend_tick = None
  /\ allow_fct = FALSE /\ allow_char = FALSE /\ sent_fct = FALSE
  /\ bitclken = FALSE /\ txflip = [i \in Sides |-> FALSE]
  /\ b_update = FALSE /\ b_mux = 0 /\ b_txflip = FALSE /\ b_valid = FALSE /\ b_token = Empty
  /\ c_update = FALSE /\ c_busy = TRUE /\ c_esc = TRUE /\ c_fct = TRUE /\ c_char = None
  /\ d_code = "ESC" /\ e_count = 0
  /\ synctx_sysflip = [i \in Sides |-> Down] /\ synctx_txen = Down
  /\ syncsys_txflip = [i \in Sides |-> Down]
  /\ dueFcts = 0 /\ dueChars = <<>> /\ dueTimes = <<>> /\ escaped = FALSE /\ fctSent = FALSE

FastSpec == Unclocked /\ FastInit /\ [][FastNext]_<<last, coreRst, fastVars>>

(***************************************************************************)
(* Every code that is sent has its reason: an FCT or an N-Char was         *)
(* acknowledged and has not been sent yet, in order, a Time-Code follows   *)
(* an ESC and is the next of those put into a slot, each the one asked for *)
(* last, or it is half of a NULL.  So no token is lost, sent twice, sent   *)
(* late into the next connection, or torn between the clocks, and little   *)
(* ever waits.  While the link is being disabled, what is left of its last *)
(* codes is of no account.                                                 *)
(***************************************************************************)
SentAsAccepted ==
  /\ Len(dueChars) <= 4 /\ dueFcts <= 4 /\ Len(dueTimes) <= 3
  /\ sends /\ txen /\ ~coreRst =>
       \/ d_code = "ESC" /\ ~escaped
       \/ d_code = "FCT" /\ (escaped \/ dueFcts > 0)
       \/ d_code \in Times /\ escaped /\ fctSent /\ dueTimes # <<>> /\ d_code = Head(dueTimes)
       \/ isChar(d_code) /\ ~escaped /\ fctSent /\ dueChars # <<>> /\ d_code = Head(dueChars)
=============================================================================
