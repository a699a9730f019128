---------------------------- MODULE WaveCompare ----------------------------
(***************************************************************************)
(* scripts/compare_vhdl_verilog_waveforms.py: two value change dumps, one  *)
(* of the VHDL and one of the Verilog simulation, are read line by line    *)
(* and compared signal by signal.                                          *)
(*                                                                         *)
(* A dump is a header and changes; a change is written as a bit or as a    *)
(* vector with or without its leading zeros, and may repeat the value that *)
(* the signal has.  Codes are the short names that a dump gives signals.   *)
(***************************************************************************)
EXTENDS Integers, Sequences, FiniteSets

CONSTANTS
  SIGNALS,    \* the compared signals, in order
  Declared,   \* per dump, the $var lines: <<code, signal or another net>>
  Scale,      \* per dump, picoseconds to a unit of its time
  Times,      \* units of time at which something may change
  Forms,      \* ways to write a value: sequences of "0", "1" and "x"
  StartPs,    \* start_ps
  MaxChanges  \* bound: changes, per dump

Sides == {"vhdl", "verilog"}
Signals == {SIGNALS[i] : i \in DOMAIN SIGNALS}

ASSUME WaveAssumption ==
  /\ \A s \in Sides : Signals \subseteq {Declared[s][i][2] : i \in DOMAIN Declared[s]}
  /\ StartPs \in Nat /\ Times \subseteq Nat

VARIABLES
  reading,    \* the dump that is read, or "compare"
  state,      \* value of each signal as of the last line (state)
  now,        \* time of the last line (current_time)
  samples,    \* the changes of each signal so far
  verdict,    \* what the comparison says
  written     \* history: what the dump wrote of each signal, and when

waveVars == <<reading, state, now, samples, verdict, written>>

First(S) == CHOOSE i \in S : \A j \in S : i <= j
Last(S)  == CHOOSE i \in S : \A j \in S : i >= j

Codes(s) == {Declared[s][i][1] : i \in DOMAIN Declared[s]}

(* The code of a signal: of the codes that name it, the one declared first. *)
codeOf(s, name) ==
  LET naming == {c \in Codes(s) : \E i \in DOMAIN Declared[s] : Declared[s][i] = <<c, name>>}
      born(c) == First({i \in DOMAIN Declared[s] : Declared[s][i][1] = c})
  IN CHOOSE c \in naming : \A d \in naming : born(c) <= born(d)

(* The signal that a code stands for: of those that share it, the last. *)
target_codes(s, code) ==
  SIGNALS[Last({i \in DOMAIN SIGNALS : codeOf(s, SIGNALS[i]) = code})]

wanted(s) == {codeOf(s, n) : n \in Signals}

(* A vector without its leading zeros, "0" when nothing is left. *)
canonical(form) ==
  LET ones == {i \in DOMAIN form : form[i] # "0"}
  IN IF ones = {} THEN <<"0">> ELSE SubSeq(form, First(ones), Len(form))

emit(s, name, form) ==
  LET value == canonical(form)
  IN IF state[name] = value THEN UNCHANGED <<state, samples>>
     ELSE /\ state' = [state EXCEPT ![name] = value]
          /\ samples' = [samples EXCEPT ![s][name] = Append(@, <<now', value>>)]

lines == Cardinality({<<n, i>> \in Signals \X (1..MaxChanges[reading]) : i \in DOMAIN written[reading][n]})

(* A change in the dump that is read, at the same time as the last or later. *)
ReadChange ==
  /\ reading \in Sides /\ lines < MaxChanges[reading]
  /\ \E t \in Times, code \in Codes(reading), form \in Forms :
       /\ now' = t * Scale[reading] /\ now' >= now
       /\ IF code \in wanted(reading)
          THEN LET name == target_codes(reading, code)
               IN /\ emit(reading, name, form)
                  /\ written' = [written EXCEPT ![reading][name] = Append(@, <<now', form>>)]
          ELSE UNCHANGED <<state, samples, written>>
  /\ UNCHANGED <<reading, verdict>>

EndOfDump ==
  /\ reading \in Sides
  /\ reading' = IF reading = "vhdl" THEN "verilog" ELSE "compare"
  /\ now' = 0 /\ state' = [n \in Signals |-> <<"x">>]
  /\ UNCHANGED <<samples, verdict, written>>

(* Fault: a change holds only after its own time. *)
ValueBefore(changes, t) ==
  LET past == {i \in DOMAIN changes : changes[i][1] < t}
  IN IF past = {} THEN <<"x">> ELSE changes[Last(past)][2]

value_at(changes, t) ==
  LET past == {i \in DOMAIN changes : changes[i][1] <= t}
  IN IF past = {} THEN <<"x">> ELSE changes[Last(past)][2]

changeTimes(s) == UNION {{samples[s][n][i][1] : i \in DOMAIN samples[s][n]} : n \in Signals}

endPs == First({Last(changeTimes(s)) : s \in Sides})

sampleTimes(n) ==
  {t \in UNION {{samples[s][n][i][1] : i \in DOMAIN samples[s][n]} : s \in Sides} :
     StartPs <= t /\ t <= endPs}

diffs(n) == {t \in sampleTimes(n) : value_at(samples["vhdl"][n], t) # value_at(samples["verilog"][n], t)}

NoVerdict == [end |-> "none", differ |-> {}]

(* A dump without any change makes max() raise; else the first difference of each signal. *)
Compare ==
  /\ reading = "compare" /\ verdict = NoVerdict
  /\ verdict' = IF \E s \in Sides : changeTimes(s) = {} THEN [NoVerdict EXCEPT !.end = "raised"]
                ELSE [end |-> "compared",
                      differ |-> {<<n, First(diffs(n))>> : n \in {m \in Signals : diffs(m) # {}}}]
  /\ UNCHANGED <<reading, state, now, samples, written>>

WaveInit ==
  /\ reading = "vhdl" /\ now = 0 /\ verdict = NoVerdict
  /\ state = [n \in Signals |-> <<"x">>]
  /\ samples = [s \in Sides |-> [n \in Signals |-> <<>>]]
  /\ written = [s \in Sides |-> [n \in Signals |-> <<>>]]

WaveNext == ReadChange \/ EndOfDump \/ Compare

WaveSpec == WaveInit /\ [][WaveNext]_waveVars

(***************************************************************************)
(* The reference: what a signal is at a time, from what was written last.  *)
(***************************************************************************)
Worth(form) ==
  IF \E i \in DOMAIN form : form[i] = "x" THEN form
  ELSE [k \in 0..1 |-> Cardinality({i \in DOMAIN form : form[i] = "1" /\ i = Len(form) - k})]

Truth(s, n, t) ==
  LET past == {i \in DOMAIN written[s][n] : written[s][n][i][1] <= t}
  IN IF past = {} THEN <<"x">> ELSE Worth(written[s][n][Last(past)][2])

Before(s, n, i) == IF i = 1 THEN <<"x">> ELSE Worth(written[s][n][i - 1][2])

(* The times at which a line gave the signal another value than it had. *)
moves(s, n) ==
  {written[s][n][i][1] : i \in {j \in DOMAIN written[s][n] :
                                  Worth(written[s][n][j][2]) # Before(s, n, j)}}

window == StartPs..First({Last(UNION {moves(s, n) : n \in Signals}) : s \in Sides})

(***************************************************************************)
(* The comparison is exact: a signal is reported with the first time in    *)
(* the window at which it had changed and the simulations disagree, and    *)
(* one that is not reported agrees at every picosecond of the window from  *)
(* its first change in the window on, whatever the units of time, repeated *)
(* lines, several changes at a time and the way vectors are written.       *)
(***************************************************************************)
CompareExact ==
  verdict.end = "compared" =>
    \A n \in Signals :
      LET moved == UNION {moves(s, n) : s \in Sides}
          wrong == {t \in window : /\ Truth("vhdl", n, t) # Truth("verilog", n, t)
                                   /\ \E u \in moved : StartPs <= u /\ u <= t}
      IN {v \in verdict.differ : v[1] = n} = IF wrong = {} THEN {} ELSE {<<n, First(wrong)>>}
=============================================================================
