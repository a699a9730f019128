------------------------------ MODULE MCParts ------------------------------
(***************************************************************************)
(* Small instances of the smaller parts: the receive bridge behind its     *)
(* FIFO, and the tools around the core.  In each behaviour one of them     *)
(* runs and the others stand still.                                        *)
(***************************************************************************)
EXTENDS AxisRx, BuildFlow, WaveCompare, SynthTotals

VARIABLE part

(* Two signals; one has a second name, and the dumps give them other codes. *)
TwoSignals == <<"spw_do", "nreceived">>

TwoDumps ==
  [vhdl    |-> <<<<"#", "spw_do">>, <<"#", "impl.spw_do">>, <<"%", "nreceived">>>>,
   verilog |-> <<<<"!", "nreceived">>, <<"%", "spw_do">>, <<"#", "spw_do">>>>]

TwoScales == [vhdl |-> 1, verilog |-> 2]

ThreeForms == {<<"0">>, <<"1">>, <<"0", "1">>}

FewChanges == [vhdl |-> 3, verilog |-> 1]

ThreeModules == <<"spwstream", "spwrecv", "syncdff">>

ThreeWires == [spwstream |-> 1, spwrecv |-> 2, syncdff |-> 3]

Is(p) == part = p /\ UNCHANGED part

Init ==
  /\ part \in {"bridge", "build", "waves", "synth"}
  /\ AxisInit /\ BuildInit /\ WaveInit
  /\ part # "bridge" => ~tready /\ ~rst
  /\ IF part = "synth" THEN SynthInit
     ELSE cells = [m \in Known |-> <<>>] /\ totals = <<>> /\ escaped = [f \in {"stats", "design"} |-> {}]

Next ==
  \/ Is("bridge") /\ AxisNext /\ UNCHANGED <<buildVars, waveVars, synthVars>>
  \/ Is("build") /\ BuildNext /\ UNCHANGED <<axisVars, waveVars, synthVars>>
  \/ Is("waves") /\ WaveNext /\ UNCHANGED <<axisVars, buildVars, synthVars>>
  \/ Is("synth") /\ yosys_stats /\ UNCHANGED <<axisVars, buildVars, waveVars>>

Spec == Init /\ [][Next]_<<part, axisVars, buildVars, waveVars, synthVars>>
=============================================================================
