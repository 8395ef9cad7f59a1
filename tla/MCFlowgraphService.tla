------------------------- MODULE MCFlowgraphService -------------------------
(***************************************************************************)
(* Instances of FlowgraphService for TLC: which sinks the graphs have.     *)
(***************************************************************************)
EXTENDS FlowgraphService, TLC

CONSTANTS g1, g2, g3

\* Entries are a name and a quantity, of which the DNS knows the name.
MCEntries  == {"a", "b"} \X {"U", "I"}
MCDnsEntry == [e \in MCEntries |-> e[1]]

\* The sinks of the last graph differ for the service only, not for the DNS.
MCSinkEntries ==
  (g1 :> SetToBag({<<"a", "U">>}))
    @@ (g2 :> SetToBag({<<"a", "I">>, <<"b", "I">>}))
    @@ (g3 :> SetToBag({<<"a", "U">>, <<"a", "I">>}))
=============================================================================
