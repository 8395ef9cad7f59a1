----------------------------- MODULE RowHistory -----------------------------
(***************************************************************************)
(* What a chart with a history promises: it shows the last spectra it was  *)
(* given, each once and in the order of their arrival, as many as its      *)
(* depth admits.  A history that is made less deep keeps the newest ones.  *)
(* Nothing else gets lost unless what shows the rows changes: the number   *)
(* of their columns, the memory that holds them, or a reset.               *)
(***************************************************************************)
EXTENDS Naturals, Sequences

VARIABLES
  rows,    \* the spectra that are shown, the oldest first
  depth,   \* how many there may be
  shape    \* what holds them

historyVars == <<rows, depth, shape>>

LastOf(n, s) == IF Len(s) <= n THEN s ELSE SubSeq(s, Len(s) - n + 1, Len(s))

HistoryInit == rows = <<>> /\ depth \in Nat

\* A spectrum is newer than those that are shown.
Add(r) ==
  /\ \A k \in DOMAIN rows : rows[k] < r
  /\ rows' = LastOf(depth, Append(rows, r))
  /\ UNCHANGED <<depth, shape>>

Resize == rows' = LastOf(depth', rows) /\ UNCHANGED shape

Discard == shape' # shape /\ Len(rows') <= 1

HistoryNext == Resize \/ Discard \/ \E k \in DOMAIN rows' : Add(rows'[k])

HistorySpec == HistoryInit /\ [][HistoryNext]_historyVars
=============================================================================
