---------------------------- MODULE MCPlotSinks ----------------------------
(***************************************************************************)
(* An instance of PlotSinks for TLC: a sink, its successor of the same     *)
(* names in a reloaded graph, and a chart that may change its type.        *)
(***************************************************************************)
EXTENDS PlotSinks

CONSTANTS old, new, c1, c2

BlockName == [s \in Sinks |-> "sink"]
NameOfSignal == [s \in Sinks |-> "signal"]

\* Two sinks of different names, whose signals have no names of their own.
OwnName == [s \in Sinks |-> IF s = old THEN "sink" ELSE "other"]

AddressOf == [s \in Sinks |-> IF s = old THEN 1 ELSE 2]
KindOf == [c \in Charts |-> IF c = c1 THEN "XYChart" ELSE "YYChart"]

=============================================================================
