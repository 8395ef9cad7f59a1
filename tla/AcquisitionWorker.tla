------------------------- MODULE AcquisitionWorker -------------------------
(***************************************************************************)
(* The service's acquisition worker: its notify thread runs one flow graph *)
(* at a time on a scheduler thread, replaces it when a new one is          *)
(* scheduled, publishes the signals of the graph's sinks, and forwards the *)
(* samples that the pollers collect to the subscribers.                    *)
(*                                                                         *)
(*   - the notify thread is the loop of init(): wpc is its control point   *)
(*   - the scheduler thread, the sinks, the sink registry and the pollers  *)
(*     belong to a library.  A sink of a scheduled graph is in the registry *)
(*     as soon as the graph is built; the registry returns the oldest sink *)
(*     that carries the signal; a sink that stops has published all its    *)
(*     samples and finishes its pollers; whether a poller that is attached *)
(*     to a stopped sink is finished is left open                          *)
(*   - clients subscribe and unsubscribe at any time.                      *)
(*                                                                         *)
(* A sample is its index in its sink's run; a sink's settings are a        *)
(* version number.  A subscription is a signal: streaming and data set     *)
(* subscriptions differ in what process() is asked for only.               *)
(***************************************************************************)
EXTENDS Naturals, Sequences

CONSTANTS
  Graphs,       \* the flow graphs that are scheduled, each once
  Signals,      \* signal names
  Sinks,        \* per graph, the signals its sinks carry
  None,         \* no graph, no signal or no entry
  MaxSamples,   \* bound on the samples a sink gets
  MaxSettings,  \* bound on the changes of a sink's settings
  MaxChanges    \* bound on the changes of the subscriptions

ASSUME AcquisitionAssumption ==
  /\ Sinks \in [Graphs -> SUBSET Signals]
  /\ None \notin Graphs \cup Signals \cup Nat
  /\ MaxSamples \in Nat /\ MaxSettings \in Nat /\ MaxChanges \in Nat

VARIABLES
  scheduled, latest,  \* the graphs scheduled so far, and the last of them
  pending,            \* _pendingFlowGraph
  stopRequested,      \* the stop token of the notify thread
  subscribed, changes,  \* the active subscriptions
  graph,              \* the graph of _scheduler
  thread,             \* the scheduler thread; "none" when not joinable
  stopped,            \* the sinks of graph that are stopped
  produced, settings, \* per signal, of the sinks of graph
  listening,          \* the scheduler has handled the Subscribe messages
  ports,              \* the message ports exist
  toScheduler, fromScheduler,  \* messages on the ports
  wpc, aboutToFinish, taken, stopScheduler, schedulerFinished,
  entries,            \* signalEntryBySink
  published,          \* the entries last given to the callback
  pollers,            \* streamingPollers and dataSetPollers
  round, todo, current, wasFinished, pollersFinished

clientVars    == <<scheduled, latest, pending, stopRequested, subscribed,
                   changes>>
schedulerVars == <<graph, thread, stopped, produced, settings, listening,
                   toScheduler>>
loopVars  == <<aboutToFinish, taken, stopScheduler, schedulerFinished>>
roundVars == <<round, todo, current, wasFinished, pollersFinished>>
entryVars == <<entries, published>>
vars == <<clientVars, schedulerVars, ports, fromScheduler, wpc, loopVars,
          entryVars, pollers, roundVars>>

-----------------------------------------------------------------------------
NoPoller   == [kind |-> "none"]   \* not in the map
NullPoller == [kind |-> "null"]   \* in the map, but there was no such sink
Attached(g, n, f) == [kind |-> "attached", of |-> g, read |-> n, finished |-> f]

AttachedPoller == [kind : {"attached"}, of : Graphs, read : 0..MaxSamples,
                   finished : BOOLEAN]
Poller == {NoPoller, NullPoller} \cup AttachedPoller

IsAttached(p) == p.kind = "attached"

NoEntries   == [x \in Signals |-> None]
Entries     == [Signals -> (0..MaxSettings) \cup {None}]
EntriesOf(g, version) ==
  [x \in Signals |-> IF x \in Sinks[g] THEN version[x] ELSE None]

SignalsOf(g) == IF g = None THEN {} ELSE Sinks[g]

\* Messages from the scheduler: its state, or the settings of some sinks.
StoppedMessage == [kind |-> "stopped"]
SettingMessage(S) == [kind |-> "setting", values |-> [x \in S |-> settings[x]]]

WorkerPcs == {"begin", "drain", "round", "handle", "process", "teardown",
              "join", "publish", "replace", "start", "done"}

-----------------------------------------------------------------------------
Init ==
  /\ scheduled = {} /\ latest = None /\ pending = None
  /\ stopRequested = FALSE
  /\ subscribed = {} /\ changes = 0
  /\ graph = None /\ thread = "none" /\ stopped = {}
  /\ produced = [x \in Signals |-> 0]
  /\ settings = [x \in Signals |-> 0]
  /\ listening = FALSE /\ ports = FALSE
  /\ toScheduler = <<>> /\ fromScheduler = <<>>
  /\ wpc = "begin"
  /\ aboutToFinish = FALSE /\ taken = None
  /\ stopScheduler = FALSE /\ schedulerFinished = FALSE
  /\ entries = NoEntries /\ published = NoEntries
  /\ pollers = [x \in Signals |-> NoPoller]
  /\ round = {} /\ todo = {} /\ current = None
  /\ wasFinished = FALSE /\ pollersFinished = TRUE

-----------------------------------------------------------------------------
(* The callers: the flow graph worker, the clients, the destructor.        *)

\* The last graph scheduled before the notify thread looks replaces the others.
ScheduleGraphChange(g) ==
  /\ ~stopRequested
  /\ g \notin scheduled
  /\ scheduled' = scheduled \cup {g}
  /\ latest' = g
  /\ pending' = g
  /\ UNCHANGED <<stopRequested, subscribed, changes, schedulerVars, ports,
                 fromScheduler, wpc, loopVars, entryVars, pollers, roundVars>>

RequestStop ==
  /\ ~stopRequested
  /\ stopRequested' = TRUE
  /\ UNCHANGED <<scheduled, latest, pending, subscribed, changes,
                 schedulerVars, ports, fromScheduler, wpc, loopVars, entryVars,
                 pollers, roundVars>>

ChangeSubscription(x) ==
  /\ changes < MaxChanges
  /\ changes' = changes + 1
  /\ subscribed' = IF x \in subscribed THEN subscribed \ {x}
                                       ELSE subscribed \cup {x}
  /\ UNCHANGED <<scheduled, latest, pending, stopRequested, schedulerVars,
                 ports, fromScheduler, wpc, loopVars, entryVars, pollers,
                 roundVars>>

-----------------------------------------------------------------------------
(* The scheduler thread (library).                                         *)

\* What the scheduler sends is kept while the worker's port exists.
Emit(m) == fromScheduler' = IF ports /\ listening
                            THEN Append(fromScheduler, m)
                            ELSE fromScheduler

\* The scheduler handles the first message of its port.
HandleMessage ==
  /\ thread = "running"
  /\ toScheduler # <<>>
  /\ toScheduler' = Tail(toScheduler)
  /\ CASE Head(toScheduler) = "subscribe" ->
            listening' = TRUE /\ UNCHANGED <<thread, fromScheduler>>
       [] Head(toScheduler) = "get" ->
            /\ fromScheduler' = IF ports
                                THEN Append(fromScheduler,
                                            SettingMessage(Sinks[graph]))
                                ELSE fromScheduler
            /\ UNCHANGED <<listening, thread>>
       [] Head(toScheduler) = "stop" ->
            thread' = "stopping" /\ UNCHANGED <<listening, fromScheduler>>
  /\ UNCHANGED <<clientVars, graph, stopped, produced, settings, ports, wpc,
                 loopVars, entryVars, pollers, roundVars>>

\* A sink gets a sample; the ones in flight arrive before it is stopped.
Produce(x) ==
  /\ thread \in {"running", "stopping"}
  /\ x \in Sinks[graph] \ stopped
  /\ produced[x] < MaxSamples
  /\ produced' = [produced EXCEPT ![x] = @ + 1]
  /\ UNCHANGED <<clientVars, graph, thread, stopped, settings, listening,
                 toScheduler, ports, fromScheduler, wpc, loopVars, entryVars,
                 pollers, roundVars>>

\* Metadata that arrives with the samples changes a sink's settings.
ChangeSettings(x) ==
  /\ thread = "running"
  /\ x \in Sinks[graph]
  /\ settings[x] < MaxSettings
  /\ settings' = [settings EXCEPT ![x] = @ + 1]
  /\ Emit([kind |-> "setting", values |-> [y \in {x} |-> settings[x] + 1]])
  /\ UNCHANGED <<clientVars, graph, thread, stopped, produced, listening,
                 toScheduler, ports, wpc, loopVars, entryVars, pollers,
                 roundVars>>

\* The sources of the graph are exhausted.
GraphEnds ==
  /\ thread = "running"
  /\ thread' = "stopping"
  /\ UNCHANGED <<clientVars, graph, stopped, produced, settings, listening,
                 toScheduler, ports, fromScheduler, wpc, loopVars, entryVars,
                 pollers, roundVars>>

StopSink(x) ==
  /\ thread = "stopping"
  /\ x \in Sinks[graph] \ stopped
  /\ stopped' = stopped \cup {x}
  /\ pollers' = [pollers EXCEPT ![x] =
                   IF IsAttached(@) /\ @.of = graph
                   THEN [@ EXCEPT !.finished = TRUE] ELSE @]
  /\ UNCHANGED <<clientVars, graph, thread, produced, settings, listening,
                 toScheduler, ports, fromScheduler, wpc, loopVars, entryVars,
                 roundVars>>

SchedulerStops ==
  /\ thread = "stopping"
  /\ stopped = Sinks[graph]
  /\ thread' = "stopped"
  /\ Emit(StoppedMessage)
  /\ UNCHANGED <<clientVars, graph, stopped, produced, settings, listening,
                 toScheduler, ports, wpc, loopVars, entryVars, pollers,
                 roundVars>>

-----------------------------------------------------------------------------
(* The loop of the notify thread.                                          *)

\* Where the loop goes on when nothing has to be torn down any more.
AfterTeardown(about, g) ==
  IF about THEN "done" ELSE IF g # None THEN "publish" ELSE "begin"

\* Mutant of Begin: only a pending graph stops the scheduler.
BeginIgnoringStop ==
  /\ wpc = "begin"
  /\ aboutToFinish' = stopRequested
  /\ taken' = pending
  /\ pending' = None
  /\ stopScheduler' = (thread # "none" /\ pending # None)
  /\ schedulerFinished' = FALSE
  /\ toScheduler' = IF stopScheduler' THEN Append(toScheduler, "stop")
                                      ELSE toScheduler
  /\ wpc' = IF thread # "none" THEN "drain"
            ELSE AfterTeardown(stopRequested, pending)
  /\ UNCHANGED <<scheduled, latest, stopRequested, subscribed, changes, graph,
                 thread, stopped, produced, settings, listening, ports,
                 fromScheduler, entryVars, pollers, roundVars>>

\* The top of the loop: the stop token is read and the pending graph taken; a
\* scheduler that has to go is asked to stop.
Begin ==
  /\ wpc = "begin"
  /\ aboutToFinish' = stopRequested
  /\ taken' = pending
  /\ pending' = None
  /\ stopScheduler' = (thread # "none" /\ (stopRequested \/ pending # None))
  /\ schedulerFinished' = FALSE
  /\ toScheduler' = IF stopScheduler' THEN Append(toScheduler, "stop")
                                      ELSE toScheduler
  /\ wpc' = IF thread # "none" THEN "drain"
            ELSE AfterTeardown(stopRequested, pending)
  /\ UNCHANGED <<scheduled, latest, stopRequested, subscribed, changes, graph,
                 thread, stopped, produced, settings, listening, ports,
                 fromScheduler, entryVars, pollers, roundVars>>

\* The settings messages that concern signal x, by position.
About(x) == {i \in DOMAIN fromScheduler :
               fromScheduler[i].kind = "setting"
                 /\ x \in DOMAIN fromScheduler[i].values}

\* The value of the last of them wins.
Updated(x) ==
  IF About(x) = {} \/ entries[x] = None THEN entries[x]
  ELSE LET i == CHOOSE i \in About(x) : \A j \in About(x) : j <= i
       IN fromScheduler[i].values[x]

\* All messages are read; the entries are published when one of them changed.
DrainMessages ==
  /\ wpc = "drain"
  /\ schedulerFinished' = \E i \in DOMAIN fromScheduler :
                            fromScheduler[i] = StoppedMessage
  /\ entries' = [x \in Signals |-> Updated(x)]
  /\ published' = IF entries' # entries THEN entries' ELSE published
  /\ fromScheduler' = <<>>
  /\ wpc' = "round"
  /\ UNCHANGED <<clientVars, schedulerVars, ports, aboutToFinish, taken,
                 stopScheduler, pollers, roundVars>>

\* handleSubscriptions looks at the subscriptions of the moment.
StartRound ==
  /\ wpc = "round"
  /\ round' = subscribed
  /\ todo' = subscribed
  /\ pollersFinished' = TRUE
  /\ wpc' = "handle"
  /\ UNCHANGED <<clientVars, schedulerVars, ports, fromScheduler, loopVars,
                 entryVars, pollers, current, wasFinished>>

\* The registry's answer to a query for signal x: the oldest sink.
SinkOwner(x) ==
  CASE x \in SignalsOf(graph) -> graph
    [] x \notin SignalsOf(graph) /\ x \in SignalsOf(taken) -> taken
    [] x \notin SignalsOf(graph) \cup SignalsOf(taken)
         /\ x \in SignalsOf(pending) -> pending
    [] OTHER -> None

\* The pollers that getStreamingPoller and getDataSetPoller can put in the map.
NewPollers(x) ==
  LET g == SinkOwner(x)
  IN CASE g = None  -> {NullPoller}
       [] g = graph /\ g # None ->
            {Attached(g, produced[x], f) :
               f \in IF x \in stopped THEN BOOLEAN ELSE {FALSE}}
       [] OTHER     -> {Attached(g, 0, FALSE)}

\* One subscription: its poller is looked up or created, and whether it is
\* finished is read before its samples are.
HandleSubscription(x) ==
  /\ wpc = "handle"
  /\ x \in todo
  /\ todo' = todo \ {x}
  /\ \E p \in IF pollers[x] = NoPoller THEN NewPollers(x) ELSE {pollers[x]} :
       /\ pollers' = [pollers EXCEPT ![x] = p]
       /\ IF IsAttached(p)
          THEN wasFinished' = p.finished /\ current' = x /\ wpc' = "process"
          ELSE UNCHANGED <<wasFinished, current, wpc>>
  /\ UNCHANGED <<clientVars, schedulerVars, ports, fromScheduler, loopVars,
                 entryVars, round, pollersFinished>>

\* The samples of the poller are sent to the subscriber: all of them, or none as
\* long as the poller is not finished and has fewer than minRequiredSamples.
ProcessPoller ==
  /\ wpc = "process"
  /\ LET p == pollers[current]
     IN \E n \in {p.read, produced[current]} :
          /\ p.of # graph => n = p.read
          /\ p.of = graph /\ p.finished => n = produced[current]
          /\ pollers' = [pollers EXCEPT ![current].read = n]
  /\ pollersFinished' = (pollersFinished /\ wasFinished)
  /\ current' = None
  /\ wpc' = "handle"
  /\ UNCHANGED <<clientVars, schedulerVars, ports, fromScheduler, loopVars,
                 entryVars, round, todo, wasFinished>>

\* Mutant of EndRound: a stopping scheduler is not flushed.
EndRoundUnflushed ==
  /\ wpc = "handle"
  /\ todo = {}
  /\ wpc' = IF stopScheduler \/ schedulerFinished THEN "teardown"
            ELSE AfterTeardown(aboutToFinish, taken)
  /\ UNCHANGED <<clientVars, schedulerVars, ports, fromScheduler, loopVars,
                 entryVars, pollers, roundVars>>

\* The subscriptions are handled again until all pollers are finished, when
\* the scheduler was asked to stop.
EndRound ==
  /\ wpc = "handle"
  /\ todo = {}
  /\ wpc' = IF stopScheduler /\ ~pollersFinished THEN "round"
            ELSE IF stopScheduler \/ schedulerFinished THEN "teardown"
            ELSE AfterTeardown(aboutToFinish, taken)
  /\ UNCHANGED <<clientVars, schedulerVars, ports, fromScheduler, loopVars,
                 entryVars, pollers, roundVars>>

\* Mutants of Teardown: the pollers, or the ports and what is on them, are kept.
TeardownKeepingPollers ==
  /\ wpc = "teardown"
  /\ published' = NoEntries
  /\ entries' = NoEntries
  /\ ports' = FALSE
  /\ fromScheduler' = <<>>
  /\ wpc' = "join"
  /\ UNCHANGED <<clientVars, schedulerVars, loopVars, pollers, roundVars>>

TeardownKeepingPorts ==
  /\ wpc = "teardown"
  /\ published' = NoEntries
  /\ entries' = NoEntries
  /\ pollers' = [x \in Signals |-> NoPoller]
  /\ wpc' = "join"
  /\ UNCHANGED <<clientVars, schedulerVars, ports, fromScheduler, loopVars,
                 roundVars>>

\* What belongs to the graph is forgotten; messages already sent to its
\* scheduler stay with the scheduler.
Teardown ==
  /\ wpc = "teardown"
  /\ published' = NoEntries
  /\ entries' = NoEntries
  /\ pollers' = [x \in Signals |-> NoPoller]
  /\ ports' = FALSE
  /\ fromScheduler' = <<>>
  /\ wpc' = "join"
  /\ UNCHANGED <<clientVars, schedulerVars, loopVars, roundVars>>

\* Mutant of JoinScheduler: the loop starts over without the taken graph.
JoinDroppingGraph ==
  /\ wpc = "join"
  /\ thread = "stopped"
  /\ thread' = "none"
  /\ wpc' = AfterTeardown(aboutToFinish, None)
  /\ UNCHANGED <<clientVars, graph, stopped, produced, settings, listening,
                 toScheduler, ports, fromScheduler, loopVars, entryVars,
                 pollers, roundVars>>

JoinScheduler ==
  /\ wpc = "join"
  /\ thread = "stopped"
  /\ thread' = "none"
  /\ wpc' = AfterTeardown(aboutToFinish, taken)
  /\ UNCHANGED <<clientVars, graph, stopped, produced, settings, listening,
                 toScheduler, ports, fromScheduler, loopVars, entryVars,
                 pollers, roundVars>>

\* The sinks of the taken graph are published before it runs.
PublishEntries ==
  /\ wpc = "publish"
  /\ entries' = EntriesOf(taken, [x \in Signals |-> 0])
  /\ published' = entries'
  /\ wpc' = "replace"
  /\ UNCHANGED <<clientVars, schedulerVars, ports, fromScheduler, loopVars,
                 pollers, roundVars>>

\* Mutant of ReplaceScheduler: the settings are requested before they are
\* subscribed to.
ReplaceGettingFirst ==
  /\ wpc = "replace"
  /\ graph' = taken
  /\ taken' = None
  /\ stopped' = {}
  /\ produced' = [x \in Signals |-> 0]
  /\ settings' = [x \in Signals |-> 0]
  /\ listening' = FALSE
  /\ ports' = TRUE
  /\ toScheduler' = <<"get", "subscribe">>
  /\ wpc' = "start"
  /\ UNCHANGED <<clientVars, thread, fromScheduler, aboutToFinish,
                 stopScheduler, schedulerFinished, entryVars, pollers,
                 roundVars>>

\* A new scheduler with new ports; its first messages are the subscriptions and
\* the request of all sinks' settings.
ReplaceScheduler ==
  /\ wpc = "replace"
  /\ graph' = taken
  /\ taken' = None
  /\ stopped' = {}
  /\ produced' = [x \in Signals |-> 0]
  /\ settings' = [x \in Signals |-> 0]
  /\ listening' = FALSE
  /\ ports' = TRUE
  /\ toScheduler' = <<"subscribe", "get">>
  /\ wpc' = "start"
  /\ UNCHANGED <<clientVars, thread, fromScheduler, aboutToFinish,
                 stopScheduler, schedulerFinished, entryVars, pollers,
                 roundVars>>

StartScheduler ==
  /\ wpc = "start"
  /\ thread' = "running"
  /\ wpc' = "begin"
  /\ UNCHANGED <<clientVars, graph, stopped, produced, settings, listening,
                 toScheduler, ports, fromScheduler, loopVars, entryVars,
                 pollers, roundVars>>

-----------------------------------------------------------------------------
Callers ==
  \/ \E g \in Graphs : ScheduleGraphChange(g)
  \/ RequestStop
  \/ \E x \in Signals : ChangeSubscription(x)

Graph ==
  \/ \E x \in Signals : Produce(x) \/ ChangeSettings(x)
  \/ GraphEnds

Scheduler ==
  \/ HandleMessage
  \/ \E x \in Signals : StopSink(x)
  \/ SchedulerStops

Worker ==
  \/ Begin
  \/ DrainMessages
  \/ StartRound
  \/ \E x \in todo : HandleSubscription(x)
  \/ ProcessPoller
  \/ EndRound
  \/ Teardown
  \/ JoinScheduler
  \/ PublishEntries
  \/ ReplaceScheduler
  \/ StartScheduler

\* The notify thread has ended.
Done == wpc = "done" /\ UNCHANGED vars

Next == Callers \/ Graph \/ Scheduler \/ Worker \/ Done

Spec == Init /\ [][Next]_vars

\* The notify thread is not starved and the scheduler handles its messages and
\* stops its blocks.  No graph has to produce or to end, and nobody has to call.
Fairness == WF_vars(Worker) /\ WF_vars(Scheduler)

FairSpec == Spec /\ Fairness

-----------------------------------------------------------------------------
(* Properties.                                                             *)

\* When the worker drops a graph's pollers, the samples of every signal that was
\* subscribed to in its last round have been sent, up to the last one the sink
\* got: neither a change of the graph, nor its end, nor the stop of the service
\* cuts off the tail of a stream.
TailDelivered ==
  wpc = "teardown" =>
    \A x \in round :
      IsAttached(pollers[x]) /\ pollers[x].of = graph
        => x \in stopped /\ pollers[x].read = produced[x]

\* Once the messages are handled, the published entries are the sinks of the
\* running graph with their settings of the moment, whenever these changed; and
\* nothing is published while no graph runs.
PublishedIsCurrent ==
  wpc = "begin" =>
    IF thread = "none" THEN published = NoEntries
    ELSE (listening /\ toScheduler = <<>> /\ fromScheduler = <<>>)
           => published = EntriesOf(graph, settings)

\* The worker gives a scheduler up only when that scheduler was asked to stop or
\* has said so itself: no message of an earlier graph ends a later one.
OnlyStoppedIsDropped ==
  wpc \in {"teardown", "join"} =>
    thread = "stopped" \/ (stopScheduler /\ \/ thread = "stopping"
                                            \/ \E i \in DOMAIN toScheduler :
                                                 toScheduler[i] = "stop")

\* A cached poller belongs to the running graph's sink, and a signal is cached
\* as missing only if the running graph does not have it.
PollersAreCurrent ==
  \A x \in Signals :
    pollers[x] # NoPoller =>
      /\ thread # "none"
      /\ x \in Sinks[graph] => /\ IsAttached(pollers[x])
                               /\ pollers[x].of = graph
                               /\ pollers[x].read <= produced[x]

\* A subscribed poller that nobody will finish: it was attached after its sink
\* had stopped, or to a sink of a graph that does not run yet.
Orphan ==
  \E x \in round : /\ IsAttached(pollers[x]) /\ ~pollers[x].finished
                   /\ pollers[x].of # graph \/ x \in stopped

\* A scheduled graph eventually runs, unless a later one takes its place, the
\* service stops, or an orphan keeps the worker flushing.
ScheduledGraphRuns ==
  \A g \in Graphs :
    pending = g ~> \/ graph = g /\ thread # "none"
                   \/ latest # g \/ stopRequested \/ Orphan

\* The destructor's join returns, with no scheduler thread left that the notify
\* thread would have to wait for, unless an orphan keeps the worker flushing.
ShutdownCompletes ==
  stopRequested ~> \/ wpc = "done" /\ thread = "none"
                   \/ Orphan
=============================================================================
