----------------------------- MODULE RxPackets -----------------------------
(***************************************************************************)
(* What the receive side promises its user: a stream of packets in which   *)
(* every packet that a link failure cut short ends with an EEP, directly   *)
(* after its last character and before anything a later connection sends,  *)
(* and nothing else is added, lost or reordered.                           *)
(***************************************************************************)
EXTENDS Sequences

CONSTANT NChar     \* data characters and the packet terminators "eop", "eep"

VARIABLES
  stream,   \* what the user will read, in order
  open      \* the link is up and its current packet has no terminator yet

vars == <<stream, open>>

Ends(c) == c # "data"

Init == stream = <<>> /\ open = FALSE

(***************************************************************************)
(* In one clock a character may arrive, the link may fail after it, and    *)
(* the user may read the oldest character.                                 *)
(***************************************************************************)
Clock(arrived, fails, reads) ==
  LET body == IF arrived = <<>> THEN open ELSE ~Ends(arrived[1])
      all  == stream \o arrived \o (IF fails /\ body THEN <<"eep">> ELSE <<>>)
  IN /\ open' = (body /\ ~fails)
     /\ reads => stream # <<>>
     /\ stream' = IF reads THEN Tail(all) ELSE all

(* A hardware reset empties everything. *)
Clear == stream' = <<>> /\ open' = FALSE

Next ==
  \/ \E arrived \in {<<>>} \cup {<<c>> : c \in NChar}, fails, reads \in BOOLEAN :
       Clock(arrived, fails, reads)
  \/ Clear

Spec == Init /\ [][Next]_vars
=============================================================================
