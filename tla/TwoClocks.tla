----------------------------- MODULE TwoClocks -----------------------------
(***************************************************************************)
(* Two clock domains.  A step is an edge of the system clock, of the other *)
(* clock, or of both at once.  The other clock is at least as fast as the  *)
(* system clock, as the fast front ends demand; otherwise the two have no  *)
(* relation.  The reset is a signal of the system clock's domain.          *)
(***************************************************************************)
VARIABLES
  last,     \* the last edge: "sys", "other" or "both"
  coreRst   \* the reset is up

(* From one edge of the system clock to the next there is one of the other clock. *)
InPace(sysEdge, otherEdge) ==
  /\ sysEdge \/ otherEdge
  /\ sysEdge => last = "other" \/ (last = "both" /\ otherEdge)
  /\ last' = IF sysEdge /\ otherEdge THEN "both" ELSE IF sysEdge THEN "sys" ELSE "other"

AnyReset(sysEdge) == coreRst' \in IF sysEdge THEN BOOLEAN ELSE {coreRst}

Unclocked == last = "other" /\ coreRst = FALSE

(***************************************************************************)
(* The synchroniser syncdff, as <<first flop, second flop>>.  A flop that  *)
(* is clocked while its input changes takes the old or the new value; the  *)
(* reset is asynchronous, and what ends it comes after the clock's edge.   *)
(***************************************************************************)
Down == <<FALSE, FALSE>>

Clocked(ff, inputs) == {<<seen, ff[1]>> : seen \in inputs}

Synchronised(ff, clocked, old, new) ==
  IF coreRst \/ coreRst' THEN {Down} ELSE IF clocked THEN Clocked(ff, {old, new}) ELSE {ff}
=============================================================================
