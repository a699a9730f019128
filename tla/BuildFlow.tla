----------------------------- MODULE BuildFlow -----------------------------
(***************************************************************************)
(* The builds of the two examples: examples/arty_a7100t/build.py with      *)
(* Vivado, examples/de25_nano/build.py with Quartus, called directly or    *)
(* through build.py of the repository, one after the other in one tree.    *)
(*                                                                         *)
(* The tools are external: they write their outputs one by one, may fail   *)
(* or be killed between any two, and may report success without an image.  *)
(***************************************************************************)
EXTENDS Naturals, Sequences

CONSTANTS
  Hdl,      \* verilog, vhdl
  Div,      \* values of --divcnt
  NoDiv,    \* --divcnt is not given, SPW_TXDIVCNT is not set
  MaxRuns   \* bound: builds in one tree

ASSUME BuildAssumption == NoDiv \notin Div /\ MaxRuns \in Nat

Options == [fast : BOOLEAN, ext : BOOLEAN, div : Div \cup {NoDiv}]

(* What a command line asks for. *)
Arty(hdl, opt, dry) == [board |-> "arty", hdl |-> hdl, opt |-> opt, dry |-> dry]
De25(hdl, flow, program, dry) ==
  [board |-> "de25", hdl |-> hdl, flow |-> flow, program |-> program, dry |-> dry]

De25Args == {De25(h, f, p, d) : h \in Hdl, f \in {"full", "synth"}, p \in BOOLEAN, d \in BOOLEAN}

ArtyArgs == {Arty(h, o, d) : h \in Hdl, o \in Options, d \in BOOLEAN}

Direct == {a \in ArtyArgs : ~a.dry} \cup De25Args

(***************************************************************************)
(* build.py passes on what it is given and the exit code that it gets; the *)
(* dry run of Vivado it does by itself.                                    *)
(***************************************************************************)
cmd_vivado == {a \in ArtyArgs : ~a.opt.ext /\ a.opt.div = NoDiv}

cmd_quartus == De25Args

Args == Direct \cup cmd_vivado \cup cmd_quartus

VARIABLES
  pc,       \* where the script stands
  args,     \* its command line
  shell,    \* SPW_FAST, SPW_EXTLOOP and SPW_TXDIVCNT as the user's shell sets them
  files,    \* what each output file holds: nothing, or which build wrote it
  left,     \* the outputs that the tool still writes
  rc,       \* exit code of the last command
  printed,  \* reports that it printed
  board,    \* the image the board was programmed with
  runs      \* commands so far

buildVars == <<pc, args, shell, files, left, rc, printed, board, runs>>

Absent == <<>>

(* The name of a bitstream: a part for every option that is not the default. *)
suffix(opt) ==
  (IF opt.fast THEN {<<"_fast">>} ELSE {}) \cup (IF opt.ext THEN {<<"_ext">>} ELSE {})
    \cup (IF opt.div # NoDiv THEN {<<"_div", opt.div>>} ELSE {})

bit(hdl, opt) == <<"bit", hdl, suffix(opt)>>

Report(hdl, kind) == <<kind, hdl, {}>>
sof(hdl)          == Report(hdl, "sof")

AllFiles == {bit(h, o) : h \in Hdl, o \in Options}
           \cup {Report(h, k) : h \in Hdl, k \in {"sof", "syn", "fit", "sta"}}

(* The environment of Vivado: the script sets variables, it unsets none. *)
env ==
  [fast |-> args.opt.fast \/ shell.fast, ext |-> args.opt.ext \/ shell.ext,
   div |-> IF args.opt.div # NoDiv THEN args.opt.div ELSE shell.div]

(* What is removed before the tool runs. *)
stale ==
  IF args.board = "arty" THEN {bit(args.hdl, args.opt)}
  ELSE {Report(args.hdl, k) : k \in {"sof", "syn", "fit", "sta"}}

(* What the tool writes when all goes well, and what it builds. *)
outputs ==
  IF args.board = "arty" THEN <<bit(args.hdl, env)>>
  ELSE IF args.flow = "synth" THEN <<Report(args.hdl, "syn")>>
  ELSE <<Report(args.hdl, "syn"), Report(args.hdl, "fit"), Report(args.hdl, "sta"), sof(args.hdl)>>

built ==
  IF args.board = "arty" THEN [hdl |-> args.hdl, opt |-> env, run |-> runs]
  ELSE [hdl |-> args.hdl, run |-> runs]

Exit(code) == pc' = "idle" /\ rc' = code /\ left' = <<>> /\ shell' = Absent
Goes(next) == pc' = next /\ UNCHANGED <<rc, shell>>

contradicts == args.board = "de25" /\ args.program /\ args.flow # "full"

(* A command is given, in whatever shell. *)
Call ==
  /\ pc = "idle" /\ runs < MaxRuns
  /\ args' \in Args /\ shell' \in Options
  /\ pc' = "check" /\ rc' = 1 /\ printed' = {} /\ runs' = runs + 1
  /\ UNCHANGED <<files, left, board>>

(* A tool or a source is not there, or the options contradict one another. *)
NotReady ==
  /\ pc = "check"
  /\ Exit(1)
  /\ UNCHANGED <<args, files, printed, board, runs>>

DryRun ==
  /\ pc = "check" /\ args.dry /\ ~contradicts
  /\ Exit(0)
  /\ UNCHANGED <<args, files, printed, board, runs>>

Launch ==
  /\ pc = "check" /\ ~args.dry /\ ~contradicts
  /\ files' = [f \in DOMAIN files |-> IF f \in stale THEN Absent ELSE files[f]]
  /\ left' = outputs
  /\ Goes("tool")
  /\ UNCHANGED <<args, printed, board, runs>>

ToolWrites ==
  /\ pc = "tool" /\ left # <<>>
  /\ files' = [files EXCEPT ![Head(left)] = built]
  /\ left' = Tail(left)
  /\ Goes("tool")
  /\ UNCHANGED <<args, printed, board, runs>>

ToolFails ==
  /\ pc = "tool"
  /\ Exit(2)
  /\ UNCHANGED <<args, files, printed, board, runs>>

reports ==
  {files[f] : f \in {Report(args.hdl, k) : k \in {"fit", "sta"}}} \ {Absent}

image == IF args.board = "arty" THEN bit(args.hdl, args.opt) ELSE sof(args.hdl)

(* Fault: success is believed without a look at the file. *)
BelieveTool == IF args.board = "de25" /\ args.program THEN Goes("program") /\ left' = <<>> ELSE Exit(0)

(* Success needs the image; a synthesis has none. *)
Conclude ==
  IF args.board = "de25" /\ args.flow = "synth" THEN Exit(0)
  ELSE IF files[image] = Absent THEN Exit(4)
  ELSE IF args.board = "de25" /\ args.program THEN Goes("program") /\ left' = <<>>
  ELSE Exit(0)

(* The tool reports success, perhaps with the last output missing. *)
ToolSucceeds ==
  /\ pc = "tool" /\ Len(left) <= 1
  /\ printed' = IF args.board = "de25" THEN reports ELSE {}
  /\ Conclude
  /\ UNCHANGED <<args, files, board, runs>>

(* quartus_pgm programs the board, or fails before or after it has. *)
Program ==
  /\ pc = "program"
  /\ \/ board' = files[sof(args.hdl)] /\ Exit(0)
     \/ board' \in {board, files[sof(args.hdl)]} /\ Exit(3)
  /\ UNCHANGED <<args, files, printed, runs>>

(* Script and tool are killed. *)
Killed ==
  /\ pc # "idle"
  /\ Exit(1)
  /\ UNCHANGED <<args, files, printed, board, runs>>

BuildNext ==
  \/ Call \/ NotReady \/ DryRun \/ Launch \/ ToolWrites \/ ToolFails \/ ToolSucceeds
  \/ Program \/ Killed

BuildInit ==
  /\ pc = "idle" /\ args = Absent /\ shell = Absent
  /\ files = [f \in AllFiles |-> Absent] /\ left = <<>>
  /\ rc = 1 /\ printed = {} /\ board = Absent /\ runs = 0

BuildSpec == BuildInit /\ [][BuildNext]_buildVars

(***************************************************************************)
(* A build that exits with 0 leaves the image it was asked for: of this    *)
(* HDL and exactly these options, written in this run, whatever earlier    *)
(* builds left behind, however they ended and whatever the shell sets; a   *)
(* board it programmed holds that image; and the reports it printed are    *)
(* its own (a synthesis, which writes no fit and no timing report, prints  *)
(* none of an earlier build).                                              *)
(***************************************************************************)
asked ==
  IF args.board = "arty" THEN [hdl |-> args.hdl, opt |-> args.opt, run |-> runs]
  ELSE [hdl |-> args.hdl, run |-> runs]

SuccessIsFresh ==
  pc = "idle" /\ rc = 0 /\ ~args.dry =>
    /\ printed \subseteq {asked}
    /\ args.board = "arty" \/ args.flow = "full" => files[image] = asked
    /\ args.board = "de25" /\ args.program => board = asked
=============================================================================
