----------------------------- MODULE MCSpwLine -----------------------------
(* Values for the constants of SpwLine that a .cfg file cannot write.      *)
EXTENDS SpwLine

OneWord  == {<<1, 0>>}
TwoWords == {<<0, 1>>, <<1, 1>>}
=============================================================================
