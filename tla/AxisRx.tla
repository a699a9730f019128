------------------------------- MODULE AxisRx -------------------------------
(***************************************************************************)
(* The receive bridge (spw_axis_rx) behind the receive FIFO, as the AXI    *)
(* top connects them: a one-deep output register that the bus reset        *)
(* clears and the soft reset, which empties the FIFO, does not.            *)
(*                                                                         *)
(* One step is one clock edge; what the consumer and the resets drive in   *)
(* the clock period are variables, so that properties can speak of them.   *)
(***************************************************************************)
EXTENDS StreamFifo

VARIABLES
  beatValid,  \* the register holds a beat (m_axis_tvalid)
  beat,       \* the beat
  tready,     \* the consumer takes the beat in this clock period
  rst,        \* the bus reset
  softRst,    \* the soft reset, CONTROL[0]
  due         \* history: characters written to the FIFO and not yet taken from the bridge

axisVars == <<ringVars, beatValid, beat, tready, rst, softRst, due>>

AxisInit ==
  /\ FifoInit
  /\ beatValid = FALSE /\ beat = Nothing
  /\ tready \in BOOLEAN /\ rst \in BOOLEAN /\ softRst = FALSE
  /\ due = <<>>

tvalid == beatValid /\ ~rst

(* Fault: the FIFO is read whenever it has a character. *)
ReadAlways == rvalid /\ ~rst

rxread == rvalid /\ (~beatValid \/ tready) /\ ~rst

Load ==
  /\ beatValid' = (rxread \/ (beatValid /\ ~tready))
  /\ beat' = IF rxread THEN rdata ELSE beat

untaken == IF beatValid /\ tready THEN Tail(due) ELSE due

AxisClock(char) ==
  /\ ~rst /\ ~softRst
  /\ FifoClock(char, rxread)
  /\ Load
  /\ due' = IF stores(char) THEN Append(untaken, char) ELSE untaken

(* The core is in reset, the bridge is not. *)
SoftReset(char) ==
  /\ ~rst /\ softRst
  /\ FifoReset(char, rxread)
  /\ Load
  /\ due' = IF beatValid' THEN <<Head(untaken)>> ELSE <<>>

BusReset(char) ==
  /\ rst
  /\ FifoReset(char, rxread)
  /\ beatValid' = FALSE
  /\ UNCHANGED beat
  /\ due' = <<>>

AxisNext ==
  /\ tready' \in BOOLEAN /\ rst' \in BOOLEAN /\ softRst' \in BOOLEAN
  /\ \E char \in Chars \cup {Nothing} : AxisClock(char) \/ SoftReset(char) \/ BusReset(char)

AxisSpec == AxisInit /\ [][AxisNext]_axisVars

(***************************************************************************)
(* The consumer gets every character that was written, in order and once,  *)
(* whatever its pauses; a soft reset loses what is in the FIFO and nothing *)
(* of what the bridge has taken over.                                      *)
(***************************************************************************)
StreamInOrder ==
  /\ beatValid => due # <<>> /\ beat = Head(due)
  /\ Len(due) = held + (IF beatValid THEN 1 ELSE 0)

(***************************************************************************)
(* A beat that is shown stays until it is taken: neither the consumer's    *)
(* pause nor a soft reset withdraws or changes it.                         *)
(***************************************************************************)
BeatStays ==
  [][tvalid /\ ~tready => beatValid' /\ beat' = beat]_axisVars
=============================================================================
