---------------------------- MODULE SynthTotals ----------------------------
(***************************************************************************)
(* scripts/synth_resource_compare.py: the cells of a design, summed over   *)
(* its hierarchy from the two files that Yosys writes for it.              *)
(*                                                                         *)
(* The netlist gives each module the types of its cells, the statistics    *)
(* its own wires.  Either file writes some names behind a backslash.       *)
(***************************************************************************)
EXTENDS Integers, Sequences, FiniteSets, Folds

CONSTANTS
  Modules,    \* names of modules, from the top down: a cell is of a later one or a leaf
  Leaves,     \* types of cells that are no module
  FlipFlops,  \* those with DFF in their name
  Wires,      \* wires of each module
  MaxCells    \* bound: cells of a module

ASSUME SynthAssumption == FlipFlops \subseteq Leaves /\ MaxCells \in Nat

VARIABLES
  cells,     \* the types of the cells of each module
  escaped,   \* per file, the names that it writes behind a backslash
  totals     \* what hierarchical_totals returns, <<>> before

synthVars == <<cells, escaped, totals>>

Depth == Len(Modules)
Known == {Modules[i] : i \in 1..Depth}
Types(i) == {Modules[j] : j \in (i + 1)..Depth} \cup Leaves

Written(file, name) == IF name \in escaped[file] THEN <<"\\", name>> ELSE <<name>>

lstrip(written) == written[Len(written)]

(* From the bare names to the keys of a file. *)
module_lookup(file) ==
  [n \in Known |-> CHOOSE key \in {Written(file, m) : m \in Known} : lstrip(key) = n]

stats_modules  == [key \in {Written("stats", n) : n \in Known} |-> Wires[lstrip(key)]]
design_modules == [key \in {Written("design", n) : n \in Known} |->
                     LET types == cells[lstrip(key)]
                     IN [i \in DOMAIN types |-> IF types[i] \in Known THEN Written("design", types[i])
                                                                      ELSE <<types[i]>>]]

Plus(a, b) == [wires |-> a.wires + b.wires, cells |-> a.cells + b.cells, dffs |-> a.dffs + b.dffs]

leaf(type) == [wires |-> 0, cells |-> 1, dffs |-> IF type \in FlipFlops THEN 1 ELSE 0]

(* Fault: a type counts once in a module, however many cells are of it. *)
OncePerType(types) ==
  {i \in DOMAIN types : \A j \in DOMAIN types : types[j] = types[i] => i <= j}

instances(types) == DOMAIN types

(* The totals of a module and of everything below it: walk. *)
hierarchical_totals[m \in Known] ==
  LET types   == design_modules[module_lookup("design")[m]]
      own     == [wires |-> stats_modules[module_lookup("stats")[m]], cells |-> 0, dffs |-> 0]
      part(i) == LET type == lstrip(types[i])
                 IN IF type \in DOMAIN module_lookup("design") THEN hierarchical_totals[type]
                    ELSE leaf(type)
  IN MapThenFoldSet(Plus, own, part, LAMBDA S : CHOOSE i \in S : TRUE, instances(types))

SynthInit ==
  /\ cells \in {c \in [Known -> UNION {[1..n -> Known \cup Leaves] : n \in 0..MaxCells}] :
                  \A i \in 1..Depth : \A k \in DOMAIN c[Modules[i]] : c[Modules[i]][k] \in Types(i)}
  /\ escaped \in [{"stats", "design"} -> SUBSET {Modules[Depth]}]
  /\ totals = <<>>

yosys_stats ==
  /\ totals = <<>>
  /\ totals' = hierarchical_totals[Modules[1]]
  /\ UNCHANGED <<cells, escaped>>

(* The reference: every way down from the top, cell by cell. *)
Ways[k \in 0..Depth] ==
  IF k = 0 THEN {[way |-> <<>>, type |-> Modules[1]]}
  ELSE UNION {{[way |-> Append(w.way, i), type |-> cells[w.type][i]] : i \in DOMAIN cells[w.type]}
              : w \in {v \in Ways[k - 1] : v.type \in Known}}

AllWays == UNION {Ways[k] : k \in 0..Depth}

To(S) == {w \in AllWays : w.type \in S}

(***************************************************************************)
(* The totals count every instance once for each way that leads to it: a   *)
(* module that is instantiated several times, in several modules, counts   *)
(* as often, and nothing counts under two names.                           *)
(***************************************************************************)
TotalsExact ==
  totals # <<>> =>
    /\ totals.cells = Cardinality(To(Leaves))
    /\ totals.dffs = Cardinality(To(FlipFlops))
    /\ totals.wires = MapThenFoldSet(+, 0, LAMBDA w : Wires[w.type],
                                     LAMBDA S : CHOOSE w \in S : TRUE, To(Known))
=============================================================================
