-------------------------- MODULE FlowgraphService --------------------------
(***************************************************************************)
(* The service's flow graph worker beside the acquisition worker: requests *)
(* for the flow graph are answered on one thread, while the acquisition    *)
(* worker's notify thread replaces the scheduler and tells the DNS which   *)
(* signals there are.                                                      *)
(*                                                                         *)
(* AcquisitionWorker has the whole loop of the notify thread; here it is   *)
(* reduced to what the flow graph worker and the DNS see of it, and the    *)
(* exchange of the scheduler is split into the steps that the flow graph   *)
(* worker can meet: they are not all under _graphChangeMutex.              *)
(*                                                                         *)
(* A flow graph stands for its text and for its layout.  A scheduler is    *)
(* known by the number of schedulers before it, and so are its ports.      *)
(* Using an object that is gone ends a behaviour (crashed).                *)
(***************************************************************************)
EXTENDS Naturals, FiniteSets, Bags

CONSTANTS
  Graphs,       \* the flow graphs, each of which is requested once
  InitialGraph, \* the one the service starts with
  Invalid,      \* a text that is no flow graph
  None,
  Entries,      \* signal entries: name, unit, rate and more
  SinkEntries,  \* per graph, the bag of its sinks' entries
  DnsEntry,     \* per entry, what the DNS is told: name, unit, rate
  MaxRequests,  \* bound on the requests that only read or send a message
  MaxChanges    \* bound on the changes of a sink's settings

ASSUME ServiceAssumption ==
  /\ InitialGraph \in Graphs /\ Invalid \notin Graphs
  /\ None \notin Graphs \cup {Invalid}
  /\ \A g \in Graphs : IsABag(SinkEntries[g]) /\ BagToSet(SinkEntries[g]) \subseteq Entries
  /\ MaxRequests \in Nat /\ MaxChanges \in Nat

VARIABLES
  fgPc, request,     \* the flow graph worker and the request it handles
  accepted, requests,  \* the graphs requested, and the other requests
  stored,            \* _flowgraph
  held,              \* the scheduler, and its graph, in the body of withGraph
  reply,             \* the flow graph of the last answer or notification
  told,              \* what the subscribers were told last
  heldPort,          \* the port a message is about to be written to
  messages,          \* how many messages reached a scheduler
  pending,           \* _pendingFlowGraph
  wpc, taken,        \* the notify thread and the graph it has taken
  scheduler, graph,  \* the number of _scheduler, and its graph
  running,           \* the scheduler's thread is joinable
  port,              \* _messagesToScheduler: the scheduler it was made for
  connected,
  callbackSet,       \* main has set the callback for the signals
  entries,           \* signalEntryBySink, as a bag
  given,             \* what the callback was last given
  changes,
  registered, dns    \* registeredSignals, and the entries at the DNS

requestVars == <<fgPc, request, accepted, requests, stored, held, reply, told,
                 heldPort, messages>>
notifyVars  == <<wpc, taken, scheduler, graph, running, port, connected>>
signalVars  == <<callbackSet, entries, given, changes, registered, dns>>
vars == <<requestVars, pending, notifyVars, signalVars>>

Layout(l, g) == [layout |-> l, graph |-> g]
Nothing == Layout(None, None)

\* The constructors have run: the initial graph is scheduled, and the notify
\* thread may run already.
Init ==
  /\ fgPc = "idle" /\ request = None
  /\ accepted = {InitialGraph} /\ requests = 0
  /\ stored = InitialGraph /\ pending = InitialGraph
  /\ held = 0 /\ heldPort = 0 /\ reply = Nothing /\ told = Nothing
  /\ messages = 0
  /\ wpc = "begin" /\ taken = None
  /\ scheduler = 0 /\ graph = None /\ running = FALSE
  /\ port = 0 /\ connected = FALSE
  /\ callbackSet = FALSE
  /\ entries = EmptyBag /\ given = EmptyBag /\ changes = 0
  /\ registered = EmptyBag /\ dns = {}

\* _graphChangeMutex; only withGraph holds it for more than a step.
MutexFree == fgPc # "serialise"

Crashed == fgPc = "crashed"

-----------------------------------------------------------------------------
(* The flow graph worker.  A request that it cannot parse is answered with *)
(* an error and changes nothing.                                           *)

Get ==
  /\ fgPc = "idle" /\ requests < MaxRequests
  /\ requests' = requests + 1
  /\ request' = "Get" /\ fgPc' = "withGraph"
  /\ UNCHANGED <<accepted, stored, held, reply, told, heldPort, messages,
                 pending, notifyVars, signalVars>>

\* Mutant of ReplaceGraphGRC: the layout is stored before the text is parsed.
ReplaceUnparsed(g) ==
  /\ fgPc = "idle" /\ MutexFree
  /\ g \notin accepted
  /\ accepted' = accepted \cup {g}
  /\ stored' = g
  /\ IF g = Invalid THEN UNCHANGED <<pending, reply, request, fgPc>>
     ELSE /\ pending' = g /\ reply' = Layout(g, g)
          /\ request' = "Replace" /\ fgPc' = "withGraph"
  /\ UNCHANGED <<requests, held, told, heldPort, messages, notifyVars,
                 signalVars>>

\* The answer is the graph of the request.
ReplaceGraphGRC(g) ==
  /\ fgPc = "idle" /\ MutexFree
  /\ g \notin accepted
  /\ accepted' = accepted \cup {g}
  /\ IF g = Invalid THEN UNCHANGED <<stored, pending, reply, request, fgPc>>
     ELSE /\ stored' = g /\ pending' = g /\ reply' = Layout(g, g)
          /\ request' = "Replace" /\ fgPc' = "withGraph"
  /\ UNCHANGED <<requests, held, told, heldPort, messages, notifyVars,
                 signalVars>>

\* Any other message is for the scheduler: its port is looked up.
SendMessage ==
  /\ fgPc = "idle" /\ requests < MaxRequests
  /\ requests' = requests + 1
  /\ request' = "Message"
  /\ heldPort' = port
  /\ fgPc' = IF port = 0 THEN "crashed" ELSE "write"
  /\ UNCHANGED <<accepted, stored, held, reply, told, messages, pending,
                 notifyVars, signalVars>>

\* A port that is not connected yet has no readers.
WriteMessage ==
  /\ fgPc = "write"
  /\ fgPc' = IF port # heldPort THEN "crashed" ELSE "idle"
  /\ messages' = IF port = heldPort /\ connected THEN messages + 1 ELSE messages
  /\ UNCHANGED <<request, accepted, requests, stored, held, reply, told,
                 heldPort, pending, notifyVars, signalVars>>

\* handleGetRequest takes the mutex and looks at the scheduler.
WithGraph ==
  /\ fgPc = "withGraph"
  /\ held' = scheduler
  /\ fgPc' = "serialise"
  /\ UNCHANGED <<request, accepted, requests, stored, reply, told, heldPort,
                 messages, pending, notifyVars, signalVars>>

\* The graph is written out; the scheduler may have been replaced.  The answer to
\* a replacement has been made already, this one is for the subscribers.
Serialise ==
  /\ fgPc = "serialise"
  /\ IF held # scheduler THEN fgPc' = "crashed" /\ UNCHANGED <<reply, told>>
     ELSE /\ fgPc' = "idle"
          /\ IF request = "Get"
             THEN reply' = Layout(stored, graph) /\ UNCHANGED told
             ELSE told' = Layout(stored, graph) /\ UNCHANGED reply
  /\ UNCHANGED <<request, accepted, requests, stored, held, heldPort, messages,
                 pending, notifyVars, signalVars>>

FlowgraphWorker == WriteMessage \/ WithGraph \/ Serialise

-----------------------------------------------------------------------------
(* main's callback: the DNS is told what went and then what came.          *)

SetUpdateSignalEntriesCallback ==
  /\ ~callbackSet
  /\ callbackSet' = TRUE
  /\ UNCHANGED <<requestVars, pending, notifyVars, entries, given, changes,
                 registered, dns>>

DnsEntries(B) == {DnsEntry[e] : e \in BagToSet(B)}

\* Mutant of UpdateDns: what came is registered first.
RegisterFirst(signals) ==
  dns' = (dns \cup DnsEntries(signals (-) registered))
           \ DnsEntries(registered (-) signals)

UpdateDns(signals) ==
  dns' = (dns \ DnsEntries(registered (-) signals))
           \cup DnsEntries(signals (-) registered)

\* The callback is given the entries.  Its requests to the DNS are answered before
\* it returns, and nobody but this thread looks at its state.
Publish(signals) ==
  IF callbackSet
  THEN UpdateDns(signals) /\ registered' = signals /\ given' = signals
  ELSE UNCHANGED <<dns, registered, given>>

-----------------------------------------------------------------------------
(* The notify thread.                                                      *)

\* The graph that is pending is taken, and the scheduler that runs is torn down.
TakePending ==
  /\ wpc = "begin" /\ MutexFree
  /\ pending # None
  /\ taken' = pending /\ pending' = None
  /\ wpc' = IF running THEN "teardown" ELSE "publish"
  /\ UNCHANGED <<requestVars, scheduler, graph, running, port, connected,
                 signalVars>>

\* The scheduler has said that it is stopped.
GraphEnded ==
  /\ wpc = "begin" /\ running
  /\ wpc' = "teardown"
  /\ UNCHANGED <<requestVars, pending, taken, scheduler, graph, running, port,
                 connected, signalVars>>

\* A sink's settings have changed, and with them its entry.
SignalInfoChanged ==
  /\ wpc = "begin" /\ running
  /\ changes < MaxChanges /\ changes' = changes + 1
  /\ \E old \in BagToSet(entries), new \in Entries :
       /\ new # old
       /\ entries' = (entries (-) SetToBag({old})) (+) SetToBag({new})
       /\ Publish(entries')
  /\ UNCHANGED <<requestVars, pending, notifyVars, callbackSet>>

PublishNothing ==
  /\ wpc = "teardown"
  /\ Publish(EmptyBag)
  /\ entries' = EmptyBag
  /\ wpc' = "reset"
  /\ UNCHANGED <<requestVars, pending, taken, scheduler, graph, running, port,
                 connected, callbackSet, changes>>

\* Mutant of ResetPorts: the taken graph is forgotten.
ResetPortsAndGraph ==
  /\ wpc = "reset"
  /\ port' = 0 /\ connected' = FALSE /\ running' = FALSE
  /\ taken' = None /\ wpc' = "begin"
  /\ UNCHANGED <<requestVars, pending, scheduler, graph, signalVars>>

\* The ports are destroyed and the scheduler's thread is joined.
ResetPorts ==
  /\ wpc = "reset"
  /\ port' = 0 /\ connected' = FALSE /\ running' = FALSE
  /\ wpc' = IF taken = None THEN "begin" ELSE "publish"
  /\ UNCHANGED <<requestVars, pending, taken, scheduler, graph, signalVars>>

PublishTaken ==
  /\ wpc = "publish"
  /\ entries' = SinkEntries[taken]
  /\ Publish(entries')
  /\ wpc' = "create"
  /\ UNCHANGED <<requestVars, pending, taken, scheduler, graph, running, port,
                 connected, callbackSet, changes>>

\* A scheduler replaces the old one, its graph is empty; the mutex is not taken.
CreateScheduler ==
  /\ wpc = "create"
  /\ scheduler' = scheduler + 1
  /\ graph' = None
  /\ wpc' = "exchange"
  /\ UNCHANGED <<requestVars, pending, taken, running, port, connected,
                 signalVars>>

ExchangeGraph ==
  /\ wpc = "exchange"
  /\ graph' = taken
  /\ wpc' = "ports"
  /\ UNCHANGED <<requestVars, pending, taken, scheduler, running, port,
                 connected, signalVars>>

CreatePorts ==
  /\ wpc = "ports"
  /\ port' = scheduler
  /\ wpc' = "connect"
  /\ UNCHANGED <<requestVars, pending, taken, scheduler, graph, running,
                 connected, signalVars>>

ConnectPorts ==
  /\ wpc = "connect"
  /\ connected' = TRUE
  /\ wpc' = "start"
  /\ UNCHANGED <<requestVars, pending, taken, scheduler, graph, running, port,
                 signalVars>>

StartScheduler ==
  /\ wpc = "start" /\ MutexFree
  /\ running' = TRUE
  /\ taken' = None
  /\ wpc' = "begin"
  /\ UNCHANGED <<requestVars, pending, scheduler, graph, port, connected,
                 signalVars>>

NotifyThread ==
  \/ TakePending \/ PublishNothing \/ ResetPorts \/ PublishTaken
  \/ CreateScheduler \/ ExchangeGraph \/ CreatePorts \/ ConnectPorts
  \/ StartScheduler

-----------------------------------------------------------------------------
Clients ==
  \/ Get \/ SendMessage
  \/ \E g \in Graphs \cup {Invalid} : ReplaceGraphGRC(g)

Next ==
  \/ Clients
  \/ FlowgraphWorker
  \/ SetUpdateSignalEntriesCallback
  \/ ~Crashed /\ (NotifyThread \/ GraphEnded \/ SignalInfoChanged)

Spec == Init /\ [][Next]_vars

\* Both workers' threads go on; nobody needs to ask, and no graph needs to end.
FairSpec ==
  /\ Spec
  /\ WF_vars(~Crashed /\ NotifyThread)
  /\ WF_vars(FlowgraphWorker)

-----------------------------------------------------------------------------
(* Properties.                                                             *)

\* A layout is never combined with a graph that will not take its place: while
\* the graph is written out for a client, the stored layout belongs to it or to
\* the graph that is about to replace it.
StoredGraphRunsOrWill ==
  fgPc = "serialise" /\ held = scheduler =>
    stored \in {graph, pending, taken}

\* Two entries of which the DNS can keep but one.
Twins(B) ==
  \E e, f \in BagToSet(B) :
    DnsEntry[e] = DnsEntry[f] /\ (e # f \/ B[e] > 1)

\* The DNS knows the signals that were published last, and no others: an entry
\* that changed in a field the DNS does not have stays registered, and nothing
\* remains of an earlier graph.
DnsHasNothingElse == dns \subseteq DnsEntries(given)

\* As long as no graph has two sinks that are one to the DNS, it lacks nothing.
DnsLacksNothing ==
  [][(\A B \in {registered, registered'} : ~Twins(B))
       => (DnsEntries(given) \subseteq dns => DnsEntries(given') \subseteq dns')]_vars

\* The DNS follows the service: it forgets what went and lacks nothing of what came.
DnsFollows == []DnsHasNothingElse /\ DnsLacksNothing

\* An accepted flow graph runs, unless a later one takes its place or the service
\* crashes; and the subscribers are told its layout.
AcceptedGraphRuns ==
  \A g \in Graphs :
    stored = g ~> Crashed \/ stored # g
                  \/ (graph = g /\ (g # InitialGraph => told.layout = g))
=============================================================================
