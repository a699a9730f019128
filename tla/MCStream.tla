------------------------------ MODULE MCStream ------------------------------
(***************************************************************************)
(* Model checking of the core with its FIFOs.  The receive side is checked *)
(* against RxPackets; the transmit side with history variables that follow *)
(* the packets on the user's side and on the link.                         *)
(***************************************************************************)
EXTENDS SpwStream

VARIABLES
  userMid,   \* the last character that left the transmit FIFO was a data byte
  linkMid,   \* the last N-Char sent in this connection was a data byte
  excused,   \* linkdis was asserted since the link failed in mid-packet
  shut,      \* the link last left Run through linkdis and nothing else
  stored     \* the last character stored in the receive FIFO

history == <<userMid, linkMid, excused, shut, stored>>
mcVars  == <<streamVars, history>>

HistoryInit ==
  /\ userMid = FALSE /\ linkMid = FALSE /\ excused = FALSE /\ shut = FALSE
  /\ stored = "none"

HistoryClock(in) ==
  LET mid  == IF txLeave(in) THEN Head(txq) = "data" ELSE userMid
      down == state' # "Run"
  IN /\ userMid' = mid
     /\ linkMid' = (~down /\ IF in.txack THEN Head(txq) = "data" ELSE linkMid)
     /\ excused' = (mid /\ (excused \/ in.linkdis))
     /\ shut' = IF running /\ down THEN in.linkdis /\ ~in.recverr /\ ~errcred
                ELSE shut /\ down
     /\ stored' = CASE ~rxStore(in) -> stored
                   [] rxStore(in) /\ rxeep -> "eep"
                   [] OTHER -> in.got

HistoryReset ==
  /\ userMid' = FALSE /\ linkMid' = FALSE /\ excused' = FALSE /\ shut' = FALSE
  /\ stored' = "none"

MCInit == StreamInit /\ HistoryInit

MCNext ==
  \E in \in StreamInput, user \in UserInput :
    \/ StreamClock(in, user) /\ HistoryClock(in)
    \/ StreamReset(in, user) /\ HistoryReset

MCSpec == MCInit /\ [][MCNext]_mcVars

(* The system clock does not stop. *)
MCClockSpec == MCSpec /\ WF_mcVars(MCNext)

(* And the user who waits for the end of a packet keeps reading. *)
MCReaderSpec ==
  /\ MCClockSpec
  /\ WF_mcVars(\E in \in StreamInput, user \in UserInput :
       user.rxread /\ StreamClock(in, user) /\ HistoryClock(in))

(***************************************************************************)
(* The other side sees only whole packets of the user's: on a running link *)
(* a packet is open on the link exactly when one is open at the read end   *)
(* of the transmit FIFO, so a packet that an earlier failure cut is never  *)
(* continued as if it were a new one, and no packet is lost whole.  The    *)
(* exception is the rest of a packet that is being discarded, or that the  *)
(* user chose to keep by asserting linkdis.                                *)
(***************************************************************************)
PacketsAligned == (running /\ ~txdiscard /\ ~excused) => (userMid <=> linkMid)

(***************************************************************************)
(* Nothing is discarded but the rest of a packet that was cut: discarding  *)
(* stops at the terminator.                                                *)
(***************************************************************************)
DiscardOnlyRest == txdiscard => userMid

(***************************************************************************)
(* Data are not discarded when the link was shut down through linkdis.     *)
(***************************************************************************)
NoDiscardAfterDisable == shut => ~txdiscard

(***************************************************************************)
(* A packet that a link error cut ends with an EEP: once the link is down  *)
(* and no EEP is waiting, what the FIFO received last is a terminator.     *)
(***************************************************************************)
CutPacketEnds == (~running /\ ~rxpacket /\ ~rxeep) => stored # "data"

(***************************************************************************)
(* The receive side implements the packet stream.                          *)
(***************************************************************************)
Packets == INSTANCE RxPackets WITH
  stream <- rxq \o (IF rxeep \/ (rxpacket /\ ~running) THEN <<"eep">> ELSE <<>>),
  open   <- rxpacket /\ running

ImplementsPackets == Packets!Spec
=============================================================================
