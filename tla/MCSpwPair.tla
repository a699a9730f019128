----------------------------- MODULE MCSpwPair -----------------------------
(* Two link controllers with a short timer, for model checking.            *)
EXTENDS SpwPair

AllTroubles == Trouble
=============================================================================
