------------------------------ MODULE SpwLink ------------------------------
(***************************************************************************)
(* The SpaceWire link controller (spwlink): the six-state link interface   *)
(* machine of ECSS-E-ST-50-12C, the credit it holds (txCredit), the credit *)
(* it has granted (rxCredit) and the timer that paces the handshake.       *)
(*                                                                         *)
(* Operators marked as faults are the mistakes that the checks of this       *)
(* project are tried against; no specification uses them.                  *)
(*                                                                         *)
(* One step is one clock edge.  The combinational inputs of that clock     *)
(* period are the record `in`; what they may be is Possible, which stands  *)
(* for the receiver and the transmitter connected to the controller.       *)
(*                                                                         *)
(* The code's numbers 8, 48 and 2^6 appear as FctChars, CreditLimit and    *)
(* CreditMod, so that a model checker can use a smaller FctChars.          *)
(***************************************************************************)
EXTENDS Naturals

CONSTANTS
  FctChars,   \* N-Chars one FCT stands for (8 in the code)
  ResetTime,  \* reload value of the timer: a period is ResetTime + 1 clocks
  Rooms       \* the values of rxroom that the controller by itself is offered

ASSUME FctCharsAssumption  == FctChars \in Nat \ {0}
ASSUME ResetTimeAssumption == ResetTime \in Nat \ {0}

CreditMod   == 8 * FctChars   \* the counters are six bits wide: 64 for FctChars = 8
CreditLimit == 6 * FctChars   \* 48: the most credit to which one more FCT may be added
MaxCredit   == 7 * FctChars   \* 56: the most credit the protocol allows
MaxRoom     == CreditMod - 1  \* rxroom is six bits wide too

ASSUME RoomsAssumption == Rooms \subseteq 0..MaxRoom

State == {"ErrorReset", "ErrorWait", "Ready", "Started", "Connecting", "Run"}

NChar == {"data", "eop", "eep"}               \* the characters that use credit
Got   == {"none", "fct", "tick"} \cup NChar   \* what the receiver decoded last clock

VARIABLES
  state,      \* the state of the link interface
  txCredit,   \* N-Chars we may still send
  rxCredit,   \* N-Chars the other side may still send
  errcred,    \* a credit error was seen
  timercnt,   \* clocks left in the timer period
  timerdone,  \* a full period has passed since the timer was restarted
  xmitFctIn   \* request to the transmitter: send an FCT

linkVars == <<state, txCredit, rxCredit, errcred, timercnt, timerdone, xmitFctIn>>

(***************************************************************************)
(* Inputs of one clock period.                                             *)
(***************************************************************************)
AllInput ==
  [autostart : BOOLEAN, linkstart : BOOLEAN, linkdis : BOOLEAN,  \* user pins
   gotnull : BOOLEAN,  \* a NULL was received since the receiver was enabled
   got     : Got,      \* at most one character is decoded in a clock period
   recverr : BOOLEAN,  \* disconnect, parity or escape error
   fctack  : BOOLEAN,  \* the transmitter takes an FCT
   txack   : BOOLEAN]  \* the transmitter takes an N-Char

(* The receiver decodes no character before the first NULL. *)
LinkInput == {in \in AllInput : in.got # "none" => in.gotnull}

rxen   == state # "ErrorReset"                         \* receiver enabled
txen   == state \in {"Started", "Connecting", "Run"}   \* transmitter enabled
stnull == state = "Started"                            \* only NULLs
stfct  == state = "Connecting"                         \* only NULLs and FCTs

(***************************************************************************)
(* What the transmitter can acknowledge: an FCT only when one is requested  *)
(* and an N-Char only when `offer` (the FIFO has one) and there is credit, *)
(* and neither before the state that allows it.                            *)
(***************************************************************************)
Possible(in, offer) ==
  /\ in.fctack => xmitFctIn /\ txen /\ ~stnull
  /\ in.txack  => offer /\ txCredit # 0 /\ txen /\ ~stnull /\ ~stfct

rxchar(in) == in.got \in NChar

early(in) == in.got # "none"     \* an FCT, a Time-Code or an N-Char

(***************************************************************************)
(* The timer.                                                              *)
(***************************************************************************)
RestartTimer ==
  /\ timercnt' = ResetTime
  /\ timerdone' = FALSE

RunTimer ==
  \/ /\ timercnt = 0
     /\ timercnt' = ResetTime
     /\ timerdone' = TRUE
  \/ /\ timercnt > 0
     /\ timercnt' = timercnt - 1
     /\ UNCHANGED timerdone

OnePeriod  == timercnt = 0                 \* fault: the second period is forgotten

TwoPeriods == timercnt = 0 /\ timerdone   \* the second period is over

NeverTimeout == FALSE   \* fault: a handshake is never given up

handshakeTimeout == TwoPeriods

(***************************************************************************)
(* Flow control.  The registers hold a value modulo CreditMod; the request *)
(* for an FCT looks at the credit after this clock's fctack and before     *)
(* this clock's N-Char.                                                    *)
(***************************************************************************)
Wrap(n) == IF n >= CreditMod THEN n - CreditMod ELSE n

Dec(n)  == IF n = 0 THEN CreditMod - 1 ELSE n - 1

(* Fault: the credit to send survives ErrorReset. *)
ClearRxOnly ==
  UNCHANGED txCredit /\ rxCredit' = 0 /\ errcred' = FALSE /\ xmitFctIn' = FALSE

(* Fault: the credit granted survives ErrorReset. *)
ClearTxOnly ==
  txCredit' = 0 /\ UNCHANGED rxCredit /\ errcred' = FALSE /\ xmitFctIn' = FALSE

ClearCredit ==
  /\ txCredit' = 0
  /\ rxCredit' = 0
  /\ errcred' = FALSE
  /\ xmitFctIn' = FALSE

(* Fault: an FCT that arrives while an N-Char is sent is not counted. *)
EarnOrSpend(in) ==
  IF in.got = "fct" /\ ~in.txack THEN Wrap(txCredit + FctChars) ELSE txCredit

earned(in)  == IF in.got = "fct" THEN Wrap(txCredit + FctChars) ELSE txCredit
granted(in) == IF in.fctack THEN Wrap(rxCredit + FctChars) ELSE rxCredit

(* Faults: one FCT too many; the FCT itself needs no room; the credit is the *)
(* one of before this clock's fctack. *)
AskBeyondLimit(in, room) == granted(in) <= MaxCredit /\ granted(in) + FctChars <= room
AskWithoutRoom(in, room) == granted(in) <= CreditLimit /\ granted(in) <= room
AskFromStale(in, room)   == rxCredit <= CreditLimit /\ rxCredit + FctChars <= room

mayAsk(in, room) == granted(in) <= CreditLimit /\ granted(in) + FctChars <= room

CountCredit(in, room) ==
  /\ txCredit' = IF in.txack THEN Dec(earned(in)) ELSE earned(in)
  /\ rxCredit' = IF rxchar(in) THEN Dec(granted(in)) ELSE granted(in)
  /\ xmitFctIn' = mayAsk(in, room)
  /\ errcred' = \/ errcred
                \/ in.got = "fct" /\ txCredit > CreditLimit
                \/ rxchar(in) /\ rxCredit = 0

(***************************************************************************)
(* The state machine, one action per state.                                *)
(***************************************************************************)
Move(s) == state' = s /\ RestartTimer
Stay    == UNCHANGED state /\ RunTimer

ErrorReset ==
  /\ state = "ErrorReset"
  /\ \/ timercnt = 0 /\ Move("ErrorWait")
     \/ timercnt > 0 /\ Stay
  /\ ClearCredit

ErrorWait(in, room) ==
  LET fail == in.recverr \/ early(in)
  IN /\ state = "ErrorWait"
     /\ \/ fail /\ Move("ErrorReset")
        \/ ~fail /\ TwoPeriods /\ Move("Ready")
        \/ ~fail /\ ~TwoPeriods /\ Stay
     /\ CountCredit(in, room)

(* Fault: the link starts although it has no room for one FCT. *)
StartWithoutRoom(in) == ~in.linkdis /\ (in.linkstart \/ (in.autostart /\ in.gotnull))

start(in) ==
  /\ ~in.linkdis
  /\ xmitFctIn
  /\ in.linkstart \/ (in.autostart /\ in.gotnull)

Ready(in, room) ==
  LET fail == in.recverr \/ early(in)
  IN /\ state = "Ready"
     /\ \/ fail /\ Move("ErrorReset")
        \/ ~fail /\ start(in) /\ Move("Started")
        \/ ~fail /\ ~start(in) /\ Stay
     /\ CountCredit(in, room)

Started(in, room) ==
  LET fail == in.recverr \/ early(in) \/ handshakeTimeout
  IN /\ state = "Started"
     /\ \/ fail /\ Move("ErrorReset")
        \/ ~fail /\ in.gotnull /\ Move("Connecting")
        \/ ~fail /\ ~in.gotnull /\ Stay
     /\ CountCredit(in, room)

Connecting(in, room) ==
  LET fail == in.recverr \/ in.got = "tick" \/ rxchar(in) \/ handshakeTimeout
  IN /\ state = "Connecting"
     /\ \/ fail /\ Move("ErrorReset")
        \/ ~fail /\ in.got = "fct" /\ state' = "Run" /\ RunTimer
        \/ ~fail /\ in.got # "fct" /\ Stay
     /\ CountCredit(in, room)

DisconnectIgnored(in) == errcred \/ in.linkdis   \* fault

runFails(in) == in.recverr \/ errcred \/ in.linkdis

Run(in, room) ==
  /\ state = "Run"
  /\ \/ runFails(in) /\ Move("ErrorReset")
     \/ ~runFails(in) /\ Stay
  /\ CountCredit(in, room)

LinkReset ==
  /\ state' = "ErrorReset"
  /\ RestartTimer
  /\ ClearCredit

LinkClock(in, room) ==
  \/ ErrorReset
  \/ ErrorWait(in, room)
  \/ Ready(in, room)
  \/ Started(in, room)
  \/ Connecting(in, room)
  \/ Run(in, room)

(***************************************************************************)
(* What the controller tells the rest of the core in this clock period.    *)
(***************************************************************************)
running        == state = "Run"
LinkRxchar(in) == rxchar(in) /\ running
LinkTick(in)   == in.got = "tick" /\ running

LinkInit ==
  /\ state = "ErrorReset"
  /\ txCredit = 0
  /\ rxCredit = 0
  /\ errcred = FALSE
  /\ timercnt = ResetTime
  /\ timerdone = FALSE
  /\ xmitFctIn = FALSE

(***************************************************************************)
(* The controller by itself: any room in the receive FIFO, any receiver    *)
(* (a remote that breaks every rule included) and any transmitter.         *)
(***************************************************************************)
LinkNext ==
  \/ \E in \in LinkInput, room \in Rooms :
       Possible(in, TRUE) /\ LinkClock(in, room)
  \/ LinkReset

LinkSpec == LinkInit /\ [][LinkNext]_linkVars

LinkTypeOK ==
  /\ state \in State
  /\ txCredit \in 0..(CreditMod - 1)
  /\ rxCredit \in 0..(CreditMod - 1)
  /\ errcred \in BOOLEAN
  /\ timercnt \in 0..ResetTime
  /\ timerdone \in BOOLEAN
  /\ xmitFctIn \in BOOLEAN

(***************************************************************************)
(* Credit stays within the protocol's limit of seven FCTs as long as no    *)
(* credit error was seen, and an FCT is requested only when the limit      *)
(* still holds after it: the six-bit counters wrap only on a credit error. *)
(* (The request computed in one clock is acted on in the next one, when    *)
(* the counter it was computed from may already have moved.)               *)
(***************************************************************************)
CreditWithinLimit ==
  ~errcred => /\ txCredit <= MaxCredit
              /\ rxCredit <= MaxCredit
              /\ xmitFctIn => rxCredit <= CreditLimit

(***************************************************************************)
(* Nothing is left over from an earlier connection: before the handshake   *)
(* reaches its FCTs no credit is held or granted in either direction, and  *)
(* until it reaches Run no credit was earned and no credit error is        *)
(* pending, even though characters the state does not allow are counted.   *)
(***************************************************************************)
NothingLeftOver ==
  /\ state \in {"ErrorWait", "Ready", "Started"} => rxCredit = 0
  /\ state \in {"ErrorWait", "Ready", "Started", "Connecting"} =>
       txCredit = 0 /\ ~errcred

(***************************************************************************)
(* A link that has started shaking hands does not stay half-connected: the *)
(* timer ends Started and Connecting whatever the other side does.         *)
(***************************************************************************)
HandshakeEnds ==
  state \in {"Started", "Connecting"} ~> state \in {"Run", "ErrorReset"}
=============================================================================
