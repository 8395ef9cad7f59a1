--------------------------- MODULE LosslessStream ---------------------------
(***************************************************************************)
(* What a remote stream source promises to the graph: the samples it       *)
(* receives are delivered in the order of their reception, each once and   *)
(* each with its own triggers, in portions of any size.                    *)
(***************************************************************************)
EXTENDS Naturals, Sequences

VARIABLES
  pending,    \* the samples that were received and not delivered
  delivered   \* the samples that were delivered

streamVars == <<pending, delivered>>

Count == Len(pending) + Len(delivered)

StreamInit == pending = <<>> /\ delivered = <<>>

\* Samples are appended; they are numbered, whatever triggers they have.
AcceptSamples ==
  /\ Len(pending) <= Len(pending')
  /\ pending = SubSeq(pending', 1, Len(pending))
  /\ \A k \in 1..(Len(pending') - Len(pending)) :
       pending'[Len(pending) + k].sample = Count + k
  /\ UNCHANGED delivered

\* The first n samples are delivered.
Deliver(n) ==
  /\ delivered' = delivered \o SubSeq(pending, 1, n)
  /\ pending' = SubSeq(pending, n + 1, Len(pending))

StreamNext == AcceptSamples \/ \E n \in 1..Len(pending) : Deliver(n)

StreamSpec == StreamInit /\ [][StreamNext]_streamVars
=============================================================================
