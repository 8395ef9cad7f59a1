----------------------- MODULE FlowgraphServiceProofs -----------------------
(***************************************************************************)
(* Proofs about FlowgraphService, for any flow graphs and entries and any  *)
(* number of requests: the layout that is handed out belongs to the graph  *)
(* it is handed out with or to the one about to replace it, and the DNS    *)
(* has the signals that were published last.                               *)
(***************************************************************************)
EXTENDS FlowgraphService, TLAPS

\* The stored graph is the one that is pending; if none is, it has been taken; and
\* if that is done with, it is the scheduler's.
StoredIsLast ==
  /\ pending \in Graphs \cup {None} /\ taken \in Graphs \cup {None}
  /\ pending # None => stored = pending
  /\ pending = None /\ taken # None => stored = taken
  /\ pending = None /\ taken = None => stored = graph

\* Where the notify thread has a taken graph, and where the scheduler has it too.
TakenOnItsWay ==
  /\ wpc \in {"begin", "teardown", "reset", "publish", "create", "exchange",
              "ports", "connect", "start"}
  /\ wpc = "begin" => taken = None
  /\ wpc \in {"publish", "create", "exchange", "ports", "connect", "start"}
       => taken # None
  /\ wpc \in {"ports", "connect", "start"} => graph = taken

GraphInv == StoredIsLast /\ TakenOnItsWay

LEMMA GraphInvInductive ==
  /\ Init => GraphInv
  /\ GraphInv /\ [Next]_vars => GraphInv'
<1> USE ServiceAssumption DEF GraphInv, StoredIsLast, TakenOnItsWay
<1>1. Init => GraphInv
  BY DEF Init
<1>2. ASSUME GraphInv, UNCHANGED <<pending, stored, taken, wpc, graph>>
      PROVE  GraphInv'
  BY <1>2
<1>3. ASSUME GraphInv, Next
      PROVE  GraphInv'
  <2> USE <1>3 DEF notifyVars, signalVars, requestVars
  <2>1. CASE \E g \in Graphs \cup {Invalid} : ReplaceGraphGRC(g)
    BY <2>1 DEF ReplaceGraphGRC
  <2>2. CASE Get \/ SendMessage \/ FlowgraphWorker
    BY <2>2, <1>2
       DEF Get, SendMessage, FlowgraphWorker, WriteMessage, WithGraph, Serialise
  <2>3. CASE SetUpdateSignalEntriesCallback \/ SignalInfoChanged
    BY <2>3, <1>2 DEF SetUpdateSignalEntriesCallback, SignalInfoChanged
  <2>4. CASE TakePending
    BY <2>4 DEF TakePending
  <2>5. CASE GraphEnded \/ PublishNothing \/ ResetPorts \/ PublishTaken
    BY <2>5 DEF GraphEnded, PublishNothing, ResetPorts, PublishTaken
  <2>6. CASE CreateScheduler \/ ExchangeGraph
    BY <2>6 DEF CreateScheduler, ExchangeGraph
  <2>7. CASE CreatePorts \/ ConnectPorts \/ StartScheduler
    BY <2>7 DEF CreatePorts, ConnectPorts, StartScheduler
  <2> QED
    BY <2>1, <2>2, <2>3, <2>4, <2>5, <2>6, <2>7 DEF Next, Clients, NotifyThread
<1> QED
  BY <1>1, <1>2, <1>3 DEF vars, requestVars, notifyVars

\* However the requests fall between the steps of the notify thread, the layout
\* that goes out belongs to the graph that runs or to one on its way.
THEOREM LayoutBelongsToAGraph == Spec => []StoredGraphRunsOrWill
<1>1. GraphInv => StoredGraphRunsOrWill
  BY DEF GraphInv, StoredIsLast, StoredGraphRunsOrWill
<1> QED BY <1>1, GraphInvInductive, PTL DEF Spec

-----------------------------------------------------------------------------
(* The signals at the DNS.                                                 *)

\* The entries of the sinks are bags, and what is registered is what was given.
BagsInv == IsABag(entries) /\ IsABag(registered) /\ given = registered

LEMMA BagDifference ==
  ASSUME NEW B, NEW C, IsABag(B), IsABag(C)
  PROVE  /\ IsABag(B (-) C)
         /\ \A e : e \in BagToSet(B (-) C) <=>
              e \in BagToSet(B) /\ (e \in BagToSet(C) => B[e] > C[e])
BY DEF IsABag, BagToSet, (-)

LEMMA BagSum ==
  ASSUME NEW B, NEW C, IsABag(B), IsABag(C)
  PROVE  IsABag(B (+) C)
BY DEF IsABag, (+)

LEMMA BagOfOne == ASSUME NEW e PROVE IsABag(SetToBag({e}))
BY DEF IsABag, SetToBag

LEMMA NoSignals == IsABag(EmptyBag) /\ BagToSet(EmptyBag) = {}
BY DEF IsABag, EmptyBag, SetToBag, BagToSet

\* Publishing exchanges what the DNS has for the signals that are there now.
LEMMA PublishedIsThere ==
  ASSUME NEW signals, IsABag(signals), BagsInv, UpdateDns(signals)
  PROVE  /\ dns \subseteq DnsEntries(registered) => dns' \subseteq DnsEntries(signals)
         /\ ~Twins(registered) /\ DnsEntries(registered) \subseteq dns
              => DnsEntries(signals) \subseteq dns'
<1> DEFINE went == registered (-) signals
           came == signals (-) registered
<1>1. \A e : e \in BagToSet(went) <=>
        e \in BagToSet(registered)
        /\ (e \in BagToSet(signals) => registered[e] > signals[e])
  BY BagDifference, Zenon DEF BagsInv
<1>2. \A e : e \in BagToSet(came) <=>
        e \in BagToSet(signals)
        /\ (e \in BagToSet(registered) => signals[e] > registered[e])
  BY BagDifference, Zenon DEF BagsInv
<1>3. dns' = (dns \ DnsEntries(went)) \cup DnsEntries(came)
  BY DEF UpdateDns
<1>4. /\ \A e \in BagToSet(registered) : registered[e] \in Nat
      /\ \A e \in BagToSet(signals) : signals[e] \in Nat /\ signals[e] > 0
  BY DEF BagsInv, IsABag, BagToSet
<1> HIDE DEF went, came
<1>5. ASSUME dns \subseteq DnsEntries(registered)
      PROVE  dns' \subseteq DnsEntries(signals)
  <2> SUFFICES ASSUME NEW x \in dns', x \notin DnsEntries(came)
               PROVE  x \in DnsEntries(signals)
    BY <1>2 DEF DnsEntries
  <2>1. PICK e \in BagToSet(registered) : x = DnsEntry[e]
    BY <1>3, <1>5 DEF DnsEntries
  <2>2. e \notin BagToSet(went)
    BY <1>3, <2>1 DEF DnsEntries
  <2> QED BY <1>1, <2>1, <2>2 DEF DnsEntries
<1>6. ASSUME ~Twins(registered), DnsEntries(registered) \subseteq dns
      PROVE  DnsEntries(signals) \subseteq dns'
  <2> SUFFICES ASSUME NEW e \in BagToSet(signals), e \notin BagToSet(came)
               PROVE  DnsEntry[e] \in dns'
    BY <1>3 DEF DnsEntries
  <2>1. e \in BagToSet(registered) /\ ~(signals[e] > registered[e])
    BY <1>2
  <2>2. DnsEntry[e] \in dns
    BY <1>6, <2>1 DEF DnsEntries
  <2>3. ASSUME NEW f \in BagToSet(went), DnsEntry[f] = DnsEntry[e]
        PROVE  FALSE
    <3>1. f \in BagToSet(registered)
      BY <1>1, <2>3
    <3>2. f = e /\ ~(registered[e] > 1)
      BY <1>6, <2>1, <2>3, <3>1 DEF Twins
    <3>3. registered[e] > signals[e]
      BY <1>1, <2>3, <3>2
    <3> QED BY <1>4, <2>1, <3>2, <3>3
  <2> QED BY <1>3, <2>2, <2>3 DEF DnsEntries
<1> QED BY <1>5, <1>6

\* A step publishes nothing, or it publishes a bag of entries.
LEMMA StepPublishes ==
  ASSUME GraphInv, BagsInv, [Next]_vars
  PROVE  /\ IsABag(entries')
         /\ \/ UNCHANGED <<dns, registered, given>>
            \/ /\ UpdateDns(entries') /\ registered' = entries'
               /\ given' = entries'
<1> USE DEF BagsInv
<1>1. CASE UNCHANGED <<entries, dns, registered, given>>
  BY <1>1
<1>2. CASE SignalInfoChanged
  <2>1. PICK old \in BagToSet(entries), new \in Entries :
          /\ entries' = (entries (-) SetToBag({old})) (+) SetToBag({new})
          /\ Publish(entries')
    BY <1>2 DEF SignalInfoChanged
  <2>2. IsABag(entries (-) SetToBag({old}))
    BY BagDifference, BagOfOne
  <2>3. IsABag(entries')
    BY <2>1, <2>2, BagSum, BagOfOne
  <2> QED BY <2>1, <2>3 DEF Publish
<1>3. CASE PublishNothing
  BY <1>3, NoSignals DEF PublishNothing, Publish
<1>4. CASE PublishTaken
  BY <1>4, ServiceAssumption DEF PublishTaken, Publish, GraphInv, StoredIsLast, TakenOnItsWay
<1> QED
  <2> USE DEF signalVars
  <2>1. CASE UNCHANGED vars
    BY <1>1, <2>1 DEF vars
  <2>2. CASE Clients \/ FlowgraphWorker \/ SetUpdateSignalEntriesCallback
    BY <1>1, <2>2
       DEF Clients, Get, SendMessage, ReplaceGraphGRC, FlowgraphWorker,
           WriteMessage, WithGraph, Serialise, SetUpdateSignalEntriesCallback
  <2>3. CASE NotifyThread \/ GraphEnded
    BY <1>1, <1>3, <1>4, <2>3
       DEF NotifyThread, GraphEnded, TakePending, ResetPorts, CreateScheduler,
           ExchangeGraph, CreatePorts, ConnectPorts, StartScheduler
  <2> QED BY <1>2, <2>1, <2>2, <2>3 DEF Next

\* The DNS is not left with a signal that is gone, whatever the requests and the
\* changes of the sinks were.
THEOREM DnsForgets == Spec => []DnsHasNothingElse
<1> DEFINE Inv == GraphInv /\ BagsInv /\ DnsHasNothingElse
<1>1. Init => Inv
  BY GraphInvInductive, NoSignals DEF Init, BagsInv, DnsHasNothingElse
<1>2. ASSUME Inv, [Next]_vars PROVE Inv'
  <2>1. GraphInv'
    BY <1>2, GraphInvInductive
  <2>2. BagsInv'
    BY <1>2, StepPublishes DEF BagsInv
  <2>3. DnsHasNothingElse'
    <3>1. CASE UNCHANGED <<dns, registered, given>>
      BY <1>2, <3>1 DEF DnsHasNothingElse, DnsEntries
    <3>2. CASE UpdateDns(entries') /\ given' = entries'
      <4>1. dns \subseteq DnsEntries(registered)
        BY <1>2 DEF BagsInv, DnsHasNothingElse
      <4>2. dns' \subseteq DnsEntries(entries')
        BY <1>2, <3>2, <4>1, StepPublishes, PublishedIsThere
      <4> QED BY <3>2, <4>2 DEF DnsHasNothingElse, DnsEntries
    <3> QED BY <1>2, <3>1, <3>2, StepPublishes
  <2> QED BY <2>1, <2>2, <2>3
<1> QED BY <1>1, <1>2, PTL DEF Spec

\* The DNS lacks no signal as long as no two of a graph are one to it.
THEOREM DnsKeepsUp == Spec => DnsLacksNothing
<1> DEFINE Inv == GraphInv /\ BagsInv
           Kept == (\A B \in {registered, registered'} : ~Twins(B))
                     => (DnsEntries(given) \subseteq dns
                           => DnsEntries(given') \subseteq dns')
<1>1. Init => Inv
  BY GraphInvInductive, NoSignals DEF Init, BagsInv
<1>2. ASSUME Inv, [Next]_vars PROVE Inv'
  BY <1>2, GraphInvInductive, StepPublishes DEF BagsInv
<1>3. ASSUME Inv, [Next]_vars PROVE Kept
  <2>1. CASE UNCHANGED <<dns, registered, given>>
    BY <2>1
  <2>2. CASE UpdateDns(entries') /\ given' = entries'
    <3>1. ~Twins(registered) /\ DnsEntries(registered) \subseteq dns
            => DnsEntries(entries') \subseteq dns'
      BY <1>3, <2>2, StepPublishes, PublishedIsThere
    <3> QED BY <1>3, <2>2, <3>1 DEF BagsInv
  <2> QED BY <1>3, <2>1, <2>2, StepPublishes
<1> QED BY <1>1, <1>2, <1>3, PTL DEF Spec, DnsLacksNothing

\* Both together: the DNS follows the signals of the service.
THEOREM DnsIsCurrent == Spec => DnsFollows
<1> QED BY DnsForgets, DnsKeepsUp, PTL DEF DnsFollows
=============================================================================
