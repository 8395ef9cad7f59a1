------------------------ MODULE MCAcquisitionWorker ------------------------
(***************************************************************************)
(* Instances of AcquisitionWorker for TLC: which signals the graphs carry. *)
(***************************************************************************)
EXTENDS AcquisitionWorker

CONSTANTS g1, a, b

\* The graphs share a signal and the second one has another.
GrowingGraphs == [g \in Graphs |-> IF g = g1 THEN {a} ELSE {a, b}]

\* The graphs have no signal in common.
DisjointGraphs == [g \in Graphs |-> IF g = g1 THEN {a} ELSE {b}]

=============================================================================
