---------------------------- MODULE MCTwoClocks ----------------------------
(***************************************************************************)
(* Small instances of what stands between two clocks.  In each behaviour   *)
(* one of them runs and the others stand still.                            *)
(***************************************************************************)
EXTENDS FastXmit, TxDivider, FrontActivity, TLC

VARIABLE part

(* What the activity counter does not share with the buffer of the front end. *)
bufferOnly == <<tailptr, inbvalid_r, splitbit, splitinx, splitvalid, b_at, c_bit, c_xor1, d_shift, d_count,
                bufdata, bufwrite, headptr, bufmem, bufdout, syncsys_headptr, aligned, next>>
activityOnly == <<bitcnt, syncsys_bitcnt, bitcntp, inact_r, quiet, unshown>>

(* Time-Codes are told apart, but which is which decides nothing. *)
TimesAlike == Permutations(Times)

Is(p) == part = p /\ UNCHANGED part

Init ==
  /\ part \in {"xmit", "divider", "front", "activity"}
  /\ Unclocked /\ FastInit /\ DividerInit /\ FrontInit /\ ActivityInit
  /\ part = "activity" => RXCHUNK = 1
  /\ part \notin {"front", "activity"} => RXCHUNK = 1

Next ==
  \/ Is("xmit") /\ UNCHANGED <<dividerVars, frontVars, activityOnly>> /\ FastNext
  \/ Is("divider") /\ UNCHANGED <<fastVars, frontVars, activityOnly>> /\ DividerNext
  \/ Is("front") /\ UNCHANGED <<coreRst, fastVars, dividerVars, activityOnly>> /\ FrontNext
  \/ Is("activity") /\ UNCHANGED <<coreRst, fastVars, dividerVars, bufferOnly>> /\ ActivityNext

Spec == Init /\ [][Next]_<<part, last, coreRst, fastVars, dividerVars, frontVars, activityVars>>
=============================================================================
