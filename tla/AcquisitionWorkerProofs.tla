---------------------- MODULE AcquisitionWorkerProofs ----------------------
(***************************************************************************)
(* Proofs about AcquisitionWorker, for any flow graphs, sinks, samples and *)
(* subscriptions: what the worker publishes, caches and gives up.          *)
(***************************************************************************)
EXTENDS AcquisitionWorker, WellFoundedInduction, TLAPS

Messages ==
  {StoppedMessage}
    \cup [kind : {"setting"}, values : UNION {[S -> 0..MaxSettings] : S \in SUBSET Signals}]

\* The types that the arguments below need.
Types ==
  /\ {pending, graph, taken} \subseteq Graphs \cup {None}
  /\ thread \in {"none", "running", "stopping", "stopped"}
  /\ stopped \subseteq SignalsOf(graph)
  /\ produced \in [Signals -> 0..MaxSamples]
  /\ settings \in [Signals -> 0..MaxSettings]
  /\ toScheduler \in Seq({"subscribe", "get", "stop"})
  /\ fromScheduler \in Seq(Messages)
  /\ wpc \in WorkerPcs
  /\ pollers \in [Signals -> Poller]
  /\ subscribed \subseteq Signals /\ round \subseteq Signals /\ todo \subseteq round
  /\ current \in round \cup {None}
  /\ current = None <=> wpc # "process"
  /\ wpc = "process" => IsAttached(pollers[current])

LEMMA Adding ==
  /\ \A S, s : s \in Seq(S) => \A m \in S : Append(s, m) \in Seq(S)
  /\ \A S, s : s \in Seq(S) /\ s # <<>> => Head(s) \in S /\ Tail(s) \in Seq(S)
OBVIOUS

\* What the scheduler sends are messages.
LEMMA Settings ==
  ASSUME Types
  PROVE  /\ StoppedMessage \in Messages
         /\ graph # None => SettingMessage(Sinks[graph]) \in Messages
         /\ \A x \in Signals : settings[x] < MaxSettings =>
              [kind |-> "setting", values |-> [y \in {x} |-> settings[x] + 1]]
                \in Messages
<1> USE AcquisitionAssumption DEF Types
<1>1. \A S \in SUBSET Signals : \A f \in [S -> 0..MaxSettings] :
        [kind |-> "setting", values |-> f] \in Messages
  BY DEF Messages
<1>2. StoppedMessage \in Messages
  BY DEF Messages
<1>3. ASSUME graph # None
      PROVE  SettingMessage(Sinks[graph]) \in Messages
  <2>1. Sinks[graph] \in SUBSET Signals
    BY <1>3
  <2>2. [x \in Sinks[graph] |-> settings[x]] \in [Sinks[graph] -> 0..MaxSettings]
    BY <2>1
  <2> QED BY <1>1, <2>1, <2>2 DEF SettingMessage
<1>4. ASSUME NEW x \in Signals, settings[x] < MaxSettings
      PROVE  [kind |-> "setting", values |-> [y \in {x} |-> settings[x] + 1]]
               \in Messages
  <2>1. {x} \in SUBSET Signals
    BY <1>4
  <2>2. [y \in {x} |-> settings[x] + 1] \in [{x} -> 0..MaxSettings]
    BY <1>4
  <2> QED BY <1>1, <2>1, <2>2
<1> QED BY <1>2, <1>3, <1>4

\* The three messages of the scheduler's port.
LEMMA Handling ==
  ASSUME Types, HandleMessage
  PROVE  /\ toScheduler # <<>> /\ toScheduler' = Tail(toScheduler)
         /\ thread = "running"
         /\ UNCHANGED <<clientVars, graph, stopped, produced, settings, ports, wpc,
                        loopVars, entryVars, pollers, roundVars>>
         /\ \/ /\ Head(toScheduler) = "subscribe" /\ listening' = TRUE
               /\ UNCHANGED <<thread, fromScheduler>>
            \/ /\ Head(toScheduler) = "get"
               /\ fromScheduler' = IF ports THEN Append(fromScheduler, SettingMessage(Sinks[graph]))
                                   ELSE fromScheduler
               /\ UNCHANGED <<listening, thread>>
            \/ /\ Head(toScheduler) = "stop" /\ thread' = "stopping"
               /\ UNCHANGED <<listening, fromScheduler>>
<1>1. toScheduler # <<>>
  BY DEF HandleMessage
<1>2. Head(toScheduler) \in {"subscribe", "get", "stop"}
  BY <1>1, Adding DEF Types
<1> QED BY <1>1, <1>2 DEF HandleMessage

\* Pollers stay pollers when they are finished or read.
LEMMA PollerChanges ==
  ASSUME NEW p \in Poller, IsAttached(p)
  PROVE  /\ p \in AttachedPoller
         /\ p.of \in Graphs /\ p.read \in 0..MaxSamples
         /\ LET q == [p EXCEPT !.finished = TRUE]
            IN q \in AttachedPoller /\ q.of = p.of /\ q.read = p.read /\ q.finished
         /\ \A n \in 0..MaxSamples :
              LET q == [p EXCEPT !.read = n]
              IN q \in AttachedPoller /\ q.of = p.of /\ q.read = n
                 /\ q.finished = p.finished
<1>1. p \in AttachedPoller
  <2>1. NoPoller.kind # "attached" /\ NullPoller.kind # "attached"
    BY DEF NoPoller, NullPoller
  <2> QED BY <2>1 DEF Poller, IsAttached
<1> QED BY <1>1 DEF AttachedPoller

LEMMA Attaching ==
  /\ \A g \in Graphs, n \in 0..MaxSamples, f \in BOOLEAN :
       LET p == Attached(g, n, f)
       IN p \in AttachedPoller /\ p.of = g /\ p.read = n /\ p.finished = f
  /\ \A p \in AttachedPoller : IsAttached(p) /\ p \in Poller /\ p # NoPoller
  /\ ~IsAttached(NoPoller) /\ ~IsAttached(NullPoller)
<1>1. ~IsAttached(NoPoller) /\ ~IsAttached(NullPoller)
  BY DEF IsAttached, NoPoller, NullPoller
<1>2. ASSUME NEW p \in AttachedPoller
      PROVE  IsAttached(p) /\ p \in Poller /\ p # NoPoller
  <2>1. IsAttached(p) /\ p \in Poller
    BY DEF IsAttached, Poller, AttachedPoller
  <2> QED BY <1>1, <2>1
<1>3. ASSUME NEW g \in Graphs, NEW n \in 0..MaxSamples, NEW f \in BOOLEAN
      PROVE  LET p == Attached(g, n, f)
             IN p \in AttachedPoller /\ p.of = g /\ p.read = n /\ p.finished = f
  BY DEF Attached, AttachedPoller
<1> QED BY <1>1, <1>2, <1>3

\* The poller that is made for a signal is one of the running graph's sink, if that
\* graph has it.
LEMMA Creating ==
  ASSUME Types, graph # None, NEW x \in Signals, NEW p \in NewPollers(x)
  PROVE  /\ p \in Poller /\ p # NoPoller
         /\ IsAttached(p) => p \in AttachedPoller
         /\ IsAttached(p) /\ p.of = graph => x \in Sinks[graph]
         /\ x \in Sinks[graph] =>
              /\ IsAttached(p) /\ p.of = graph /\ p.read = produced[x]
              /\ p.finished => x \in stopped
<1> DEFINE g == SinkOwner(x)
<1>1. g \in Graphs \cup {None}
  BY DEF SinkOwner, SignalsOf, Types
<1>2. /\ x \in Sinks[graph] => g = graph
      /\ g = graph => x \in Sinks[graph]
  BY DEF SinkOwner, SignalsOf
<1>3. NullPoller \in Poller /\ NullPoller # NoPoller
  <2>1. NullPoller.kind # NoPoller.kind
    BY DEF NullPoller, NoPoller
  <2> QED BY <2>1 DEF Poller
<1>4. CASE g = None
  <2>1. p = NullPoller
    BY <1>4 DEF NewPollers
  <2> QED BY <1>2, <1>3, <1>4, <2>1, Attaching
<1>5. CASE g = graph
  <2>1. PICK f \in IF x \in stopped THEN BOOLEAN ELSE {FALSE} :
          p = Attached(g, produced[x], f)
    BY <1>5 DEF NewPollers
  <2>2. produced[x] \in 0..MaxSamples
    BY DEF Types
  <2>3. g \in Graphs /\ f \in BOOLEAN
    BY <1>1, <1>5
  <2>4. p \in AttachedPoller /\ p.of = g /\ p.read = produced[x] /\ p.finished = f
    BY <2>1, <2>2, <2>3, Attaching
  <2>5. f => x \in stopped
    BY <2>1
  <2> HIDE DEF g
  <2> QED BY <1>2, <1>5, <2>4, <2>5, Attaching
<1>6. CASE g # None /\ g # graph
  <2>1. p = Attached(g, 0, FALSE)
    BY <1>6 DEF NewPollers
  <2>2. 0 \in 0..MaxSamples
    BY AcquisitionAssumption
  <2>3. p \in AttachedPoller /\ p.of = g
    BY <1>1, <1>6, <2>1, <2>2, Attaching
  <2> HIDE DEF g
  <2> QED BY <1>2, <1>6, <2>3, Attaching
<1> QED BY <1>4, <1>5, <1>6

LEMMA EmitKeepsType ==
  ASSUME Types, NEW m \in Messages, Emit(m)
  PROVE  fromScheduler' \in Seq(Messages)
BY Adding DEF Emit, Types
-----------------------------------------------------------------------------
(* Where the notify thread and the scheduler thread are.                   *)

Flushing == {"drain", "round", "handle", "process"}
Leaving  == {"teardown", "join"}

StopIsComing ==
  \/ thread \in {"stopping", "stopped"}
  \/ \E i \in 1..Len(toScheduler) : toScheduler[i] = "stop"

Control ==
  /\ wpc \in {"publish", "replace", "start", "done"} => thread = "none"
  /\ wpc \in Flushing \cup Leaving => thread # "none"
  /\ wpc \in {"publish", "replace"} => taken # None
  /\ thread # "none" \/ wpc = "start" => graph # None
  /\ wpc \in Flushing /\ ~stopScheduler => ~aboutToFinish /\ taken = None
  /\ thread = "stopped" => stopped = Sinks[graph]

\* The ports are there for as long as the scheduler is used, and messages are lost
\* with them.
PortsInv ==
  /\ (thread # "none" /\ wpc # "join") \/ wpc = "start" => ports
  /\ wpc = "join" => ~ports
  /\ thread = "none" \/ wpc = "join" => fromScheduler = <<>>

\* Messages tell the truth, and requests are not lost.
StopInv ==
  /\ \A i \in 1..Len(fromScheduler) :
       fromScheduler[i] = StoppedMessage => thread = "stopped"
  /\ stopScheduler /\ wpc \in Flushing \cup Leaving => StopIsComing
  /\ schedulerFinished /\ wpc \in {"round", "handle", "process"} \cup Leaving
       => thread = "stopped"
  /\ wpc \in Leaving => stopScheduler \/ schedulerFinished

LEMMA ControlInductive ==
  /\ Init => Control
  /\ Types /\ Control /\ [Next]_vars => Control'
<1> USE DEF Control, Flushing, Leaving
<1>1. Init => Control
  BY DEF Init
<1>2. ASSUME Control,
             UNCHANGED <<wpc, thread, taken, graph, stopScheduler, aboutToFinish,
                         stopped>>
      PROVE  Control'
  BY <1>2
<1>3. ASSUME Types, Control, Next PROVE Control'
  <2> USE <1>3
  <2>1. CASE Callers \/ (\E x \in Signals : Produce(x) \/ ChangeSettings(x)) \/ Done
    BY <2>1, <1>2
       DEF Callers, ScheduleGraphChange, RequestStop, ChangeSubscription, Produce,
           ChangeSettings, Done, vars, clientVars, schedulerVars, loopVars
  <2>2. CASE GraphEnds \/ SchedulerStops
    BY <2>2 DEF GraphEnds, SchedulerStops, loopVars
  <2>9. CASE HandleMessage
    <3>1. /\ thread = "running" /\ thread' \in {"running", "stopping"}
          /\ UNCHANGED <<wpc, taken, graph, stopScheduler, aboutToFinish, stopped>>
      BY <2>9, Handling DEF loopVars
    <3> QED BY <3>1
  <2>3. ASSUME NEW x \in Signals, StopSink(x) PROVE Control'
    BY <2>3 DEF StopSink, loopVars
  <2>4. CASE Begin
    <3>1. CASE thread # "none"
      BY <2>4, <3>1 DEF Begin
    <3>2. CASE thread = "none"
      BY <2>4, <3>2 DEF Begin, AfterTeardown
    <3> QED BY <3>1, <3>2
  <2>5. CASE DrainMessages \/ StartRound \/ ProcessPoller
             \/ \E x \in todo : HandleSubscription(x)
    <3>1. /\ wpc \in Flushing /\ wpc' \in Flushing
          /\ UNCHANGED <<thread, taken, graph, stopScheduler, aboutToFinish, stopped>>
      BY <2>5 DEF DrainMessages, StartRound, ProcessPoller, HandleSubscription,
                  schedulerVars, loopVars
    <3> QED BY <3>1
  <2>6. CASE EndRound
    BY <2>6 DEF EndRound, AfterTeardown, schedulerVars, loopVars
  <2>7. CASE Teardown \/ JoinScheduler
    BY <2>7 DEF Teardown, JoinScheduler, AfterTeardown, schedulerVars, loopVars
  <2>8. CASE PublishEntries \/ ReplaceScheduler \/ StartScheduler
    BY <2>8 DEF PublishEntries, ReplaceScheduler, StartScheduler, schedulerVars,
                loopVars
  <2> QED
    BY <2>1, <2>2, <2>3, <2>4, <2>5, <2>6, <2>7, <2>8, <2>9
       DEF Next, Graph, Scheduler, Worker
<1> QED
  BY <1>1, <1>2, <1>3 DEF vars, schedulerVars, loopVars

LEMMA TypesInductive ==
  /\ Init => Types
  /\ Types /\ Control /\ [Next]_vars => Types'
<1> USE AcquisitionAssumption DEF Types
<1>1. Init => Types
  BY DEF Init, SignalsOf, WorkerPcs, Poller
<1>2. ASSUME Types, UNCHANGED <<schedulerVars, fromScheduler, pending, taken, wpc,
                                pollers, subscribed, roundVars>>
      PROVE  Types'
  BY <1>2 DEF schedulerVars, roundVars
<1>3. ASSUME Types, Control, Next PROVE Types'
  <2> USE <1>3
  <2>1. CASE Callers
    BY <2>1 DEF Callers, ScheduleGraphChange, RequestStop, ChangeSubscription,
                schedulerVars, loopVars, roundVars
  <2>2. ASSUME NEW x \in Signals, Produce(x) PROVE Types'
    BY <2>2 DEF Produce, clientVars, loopVars, roundVars
  <2>3. ASSUME NEW x \in Signals, ChangeSettings(x) PROVE Types'
    <3>1. fromScheduler' \in Seq(Messages)
      BY <2>3, Settings, EmitKeepsType DEF ChangeSettings
    <3> QED BY <2>3, <3>1 DEF ChangeSettings, clientVars, loopVars, roundVars
  <2>4. CASE GraphEnds
    BY <2>4 DEF GraphEnds, clientVars, loopVars, roundVars
  <2>5. CASE HandleMessage
    <3> HIDE DEF Types
    <3>1. /\ toScheduler # <<>> /\ toScheduler' = Tail(toScheduler)
          /\ thread = "running"
          /\ \/ fromScheduler' = fromScheduler
             \/ fromScheduler' = Append(fromScheduler, SettingMessage(Sinks[graph]))
      BY <2>5, Handling
    <3>2. SettingMessage(Sinks[graph]) \in Messages
      BY <3>1, Settings DEF Control
    <3> USE DEF Types
    <3>3. fromScheduler' \in Seq(Messages)
      <4>1. fromScheduler \in Seq(Messages)
        OBVIOUS
      <4>2. Append(fromScheduler, SettingMessage(Sinks[graph])) \in Seq(Messages)
        BY <3>2, <4>1, Adding
      <4> QED BY <3>1, <4>1, <4>2
    <3>4. toScheduler' \in Seq({"subscribe", "get", "stop"})
      BY <3>1, Adding
    <3>5. /\ thread' \in {"running", "stopping"}
          /\ UNCHANGED <<clientVars, graph, stopped, produced, settings, wpc,
                         loopVars, pollers, roundVars>>
      <4> HIDE DEF Types
      <4> QED BY <2>5, Handling
    <3> QED BY <3>3, <3>4, <3>5 DEF clientVars, loopVars, roundVars
  <2>6. ASSUME NEW x \in Signals, StopSink(x) PROVE Types'
    <3>1. /\ pollers' \in [Signals -> Poller]
          /\ \A y \in Signals : IsAttached(pollers[y]) => IsAttached(pollers'[y])
      <4>1. pollers' = [pollers EXCEPT ![x] =
                          IF IsAttached(@) /\ @.of = graph
                          THEN [@ EXCEPT !.finished = TRUE] ELSE @]
        BY <2>6 DEF StopSink
      <4>2. pollers[x] \in Poller
        OBVIOUS
      <4>3. ASSUME IsAttached(pollers[x])
            PROVE  /\ [pollers[x] EXCEPT !.finished = TRUE] \in Poller
                   /\ IsAttached([pollers[x] EXCEPT !.finished = TRUE])
        <5>1. [pollers[x] EXCEPT !.finished = TRUE] \in AttachedPoller
          BY <4>2, <4>3, PollerChanges
        <5> QED BY <5>1, Attaching
      <4> HIDE DEF Poller, IsAttached
      <4> QED BY <4>1, <4>3
    <3>2. stopped' \subseteq SignalsOf(graph)
      BY <2>6 DEF StopSink, Control, SignalsOf
    <3> QED BY <2>6, <3>1, <3>2 DEF StopSink, clientVars, loopVars, roundVars
  <2>7. CASE SchedulerStops
    <3>1. fromScheduler' \in Seq(Messages)
      BY <2>7, Settings, EmitKeepsType DEF SchedulerStops
    <3> QED BY <2>7, <3>1 DEF SchedulerStops, clientVars, loopVars, roundVars
  <2>8. CASE Begin
    <3>1. toScheduler' \in Seq({"subscribe", "get", "stop"})
      BY <2>8, Adding DEF Begin
    <3>2. wpc' \in WorkerPcs /\ wpc' # "process"
      BY <2>8 DEF Begin, AfterTeardown, WorkerPcs
    <3> QED BY <2>8, <3>1, <3>2 DEF Begin, roundVars
  <2>9. CASE DrainMessages
    <3>1. fromScheduler' \in Seq(Messages) /\ wpc' \in WorkerPcs
      BY <2>9 DEF DrainMessages, WorkerPcs
    <3> QED BY <2>9, <3>1 DEF DrainMessages, clientVars, schedulerVars, roundVars
  <2>15. CASE StartRound
    BY <2>15 DEF StartRound, WorkerPcs, clientVars, schedulerVars, loopVars
  <2>10. ASSUME NEW x \in todo, HandleSubscription(x) PROVE Types'
    <3>1. graph # None /\ x \in round /\ x \in Signals
      BY <2>10 DEF HandleSubscription, Control, Flushing
    <3>2. PICK p \in IF pollers[x] = NoPoller THEN NewPollers(x) ELSE {pollers[x]} :
            /\ pollers' = [pollers EXCEPT ![x] = p]
            /\ \/ IsAttached(p) /\ current' = x /\ wpc' = "process"
               \/ UNCHANGED <<current, wpc>>
      BY <2>10 DEF HandleSubscription
    <3>3. p \in Poller
      <4> HIDE DEF Types
      <4>1. CASE pollers[x] = NoPoller
        BY <1>3, <3>1, <3>2, <4>1, Creating
      <4>2. CASE pollers[x] # NoPoller
        BY <3>1, <3>2, <4>2 DEF Types
      <4> QED BY <4>1, <4>2
    <3>4. wpc = "handle"
      BY <2>10 DEF HandleSubscription
    <3>5. pollers' \in [Signals -> Poller]
      BY <3>2, <3>3
    <3>6. current' = x /\ IsAttached(p) => IsAttached(pollers'[current'])
      BY <3>1, <3>2
    <3>7. x # None
      BY <3>1
    <3> QED
      BY <2>10, <3>1, <3>2, <3>4, <3>5, <3>6, <3>7
         DEF HandleSubscription, WorkerPcs, clientVars, schedulerVars, loopVars
  <2>11. CASE ProcessPoller
    <3>1. /\ current \in Signals /\ IsAttached(pollers[current])
          /\ pollers[current] \in Poller
      BY <2>11, Attaching DEF ProcessPoller
    <3>2. PICK n \in {pollers[current].read, produced[current]} :
            pollers' = [pollers EXCEPT ![current].read = n]
      BY <2>11 DEF ProcessPoller
    <3>3. n \in 0..MaxSamples
      <4>1. produced[current] \in 0..MaxSamples
        BY <3>1
      <4>2. pollers[current].read \in 0..MaxSamples
        <5> HIDE DEF Types
        <5> QED BY <3>1, PollerChanges
      <4> QED BY <3>2, <4>1, <4>2
    <3>4. [pollers[current] EXCEPT !.read = n] \in Poller
      BY <3>1, <3>3, PollerChanges, Attaching
    <3>5. pollers' \in [Signals -> Poller]
      BY <3>1, <3>2, <3>4
    <3> QED
      BY <2>11, <3>5
         DEF ProcessPoller, WorkerPcs, clientVars, schedulerVars, loopVars
  <2>12. CASE EndRound \/ Teardown \/ JoinScheduler
    <3>1. wpc' \in WorkerPcs /\ wpc' # "process" /\ wpc # "process"
      BY <2>12 DEF EndRound, Teardown, JoinScheduler, AfterTeardown, WorkerPcs
    <3>2. fromScheduler' \in Seq(Messages)
      <4>1. CASE Teardown
        BY <4>1 DEF Teardown
      <4>2. CASE EndRound \/ JoinScheduler
        <5>1. fromScheduler' = fromScheduler
          BY <4>2 DEF EndRound, JoinScheduler
        <5> QED BY <5>1
      <4> QED BY <2>12, <4>1, <4>2
    <3>3. pollers' \in [Signals -> Poller]
      BY <2>12 DEF EndRound, Teardown, JoinScheduler, Poller
    <3>4. thread' \in {"none", "running", "stopping", "stopped"}
      BY <2>12 DEF EndRound, Teardown, JoinScheduler, schedulerVars
    <3> QED
      BY <2>12, <3>1, <3>2, <3>3, <3>4
         DEF EndRound, Teardown, JoinScheduler, clientVars, schedulerVars,
             loopVars, roundVars
  <2>13. CASE PublishEntries \/ StartScheduler
    BY <2>13 DEF PublishEntries, StartScheduler, WorkerPcs, clientVars,
                 schedulerVars, loopVars, roundVars
  <2>16. CASE ReplaceScheduler
    <3>1. toScheduler' \in Seq({"subscribe", "get", "stop"})
      BY <2>16 DEF ReplaceScheduler
    <3> QED
      BY <2>16, <3>1 DEF ReplaceScheduler, WorkerPcs, SignalsOf, clientVars, roundVars
  <2>14. CASE Done
    BY <2>14, <1>2 DEF Done, vars, clientVars, loopVars
  <2> QED
    BY <2>1, <2>2, <2>3, <2>4, <2>5, <2>6, <2>7, <2>8, <2>9, <2>10, <2>11, <2>12,
       <2>13, <2>14, <2>15, <2>16 DEF Next, Graph, Scheduler, Worker
<1> QED
  BY <1>1, <1>2, <1>3 DEF vars, clientVars, loopVars
-----------------------------------------------------------------------------
(* Messages.                                                               *)

\* The messages of the ports are kept in order.
LEMMA Appending ==
  ASSUME NEW S, NEW s \in Seq(S), NEW m \in S
  PROVE  /\ Len(Append(s, m)) = Len(s) + 1
         /\ \A i \in 1..Len(s) : Append(s, m)[i] = s[i]
         /\ Append(s, m)[Len(s) + 1] = m
         /\ \A i \in 1..Len(Append(s, m)) : i \in 1..Len(s) \/ i = Len(s) + 1
         /\ DOMAIN s = 1..Len(s)
OBVIOUS

LEMMA Dropping ==
  ASSUME NEW S, NEW s \in Seq(S), s # <<>>
  PROVE  /\ Head(s) = s[1]
         /\ Len(Tail(s)) = Len(s) - 1 /\ Len(s) >= 1
         /\ \A i \in 1..Len(s) : i = 1 \/ (i - 1 \in 1..Len(Tail(s)) /\ Tail(s)[i - 1] = s[i])
         /\ \A i \in 1..Len(Tail(s)) : i + 1 \in 1..Len(s) /\ Tail(s)[i] = s[i + 1]
OBVIOUS

\* No settings are taken for the end of the scheduler.
LEMMA KindsDiffer ==
  \A v : [kind |-> "setting", values |-> v] # StoppedMessage
<1> SUFFICES ASSUME NEW v PROVE [kind |-> "setting", values |-> v] # StoppedMessage
  OBVIOUS
<1>1. [kind |-> "setting", values |-> v].kind # StoppedMessage.kind
  BY DEF StoppedMessage
<1> QED BY <1>1

LEMMA PortsInductive ==
  /\ Init => PortsInv
  /\ Types /\ Control /\ PortsInv /\ [Next]_vars => PortsInv'
<1> USE DEF PortsInv
<1>1. Init => PortsInv
  BY DEF Init
<1>2. ASSUME PortsInv, UNCHANGED <<wpc, thread, ports, fromScheduler>>
      PROVE  PortsInv'
  BY <1>2
<1>3. ASSUME Types, Control, PortsInv, Next PROVE PortsInv'
  <2> USE <1>3
  <2>1. CASE Callers \/ (\E x \in Signals : Produce(x) \/ StopSink(x)) \/ Done
    BY <2>1, <1>2
       DEF Callers, ScheduleGraphChange, RequestStop, ChangeSubscription, Produce,
           StopSink, Done, vars, clientVars, schedulerVars
  <2>2. CASE GraphEnds \/ SchedulerStops \/ \E x \in Signals : ChangeSettings(x)
    <3>1. /\ thread \in {"running", "stopping"} /\ thread' # "none"
          /\ UNCHANGED <<wpc, ports>>
          /\ ~ports => fromScheduler' = fromScheduler
      BY <2>2 DEF GraphEnds, SchedulerStops, ChangeSettings, Emit
    <3> QED BY <3>1
  <2>3. CASE HandleMessage
    <3>1. /\ thread = "running" /\ thread' # "none"
          /\ UNCHANGED <<wpc, ports>>
          /\ ~ports => fromScheduler' = fromScheduler
      BY <2>3, Handling DEF loopVars
    <3> QED BY <3>1
  <2>4. CASE Begin
    BY <2>4 DEF Begin, AfterTeardown
  <2>5. CASE DrainMessages \/ StartRound \/ ProcessPoller
             \/ \E x \in todo : HandleSubscription(x)
    <3>1. /\ wpc \in Flushing /\ wpc' \in Flushing
          /\ UNCHANGED <<thread, ports>>
          /\ fromScheduler' = fromScheduler \/ fromScheduler' = <<>>
      BY <2>5 DEF DrainMessages, StartRound, ProcessPoller, HandleSubscription,
                  schedulerVars, Flushing
    <3> QED BY <3>1 DEF Flushing
  <2>6. CASE EndRound
    BY <2>6 DEF EndRound, AfterTeardown, schedulerVars, Control, Flushing
  <2>7. CASE Teardown \/ JoinScheduler
    BY <2>7 DEF Teardown, JoinScheduler, AfterTeardown, schedulerVars
  <2>8. CASE PublishEntries \/ ReplaceScheduler \/ StartScheduler
    BY <2>8 DEF PublishEntries, ReplaceScheduler, StartScheduler, schedulerVars, Control
  <2> QED
    BY <2>1, <2>2, <2>3, <2>4, <2>5, <2>6, <2>7, <2>8
       DEF Next, Graph, Scheduler, Worker
<1> QED
  BY <1>1, <1>2, <1>3 DEF vars, schedulerVars

LEMMA StopInductive ==
  /\ Init => StopInv
  /\ Types /\ Control /\ PortsInv /\ StopInv /\ [Next]_vars => StopInv'
<1>1. Init => StopInv
  BY DEF Init, StopInv, Flushing, Leaving
<1>2. ASSUME StopInv, UNCHANGED <<wpc, thread, fromScheduler, toScheduler,
                                  stopScheduler, schedulerFinished>>
      PROVE  StopInv'
  BY <1>2 DEF StopInv, StopIsComing
<1>3. ASSUME Types, Control, PortsInv, StopInv, Next PROVE StopInv'
  <2> USE <1>3
  <2>a. /\ fromScheduler \in Seq(Messages)
        /\ toScheduler \in Seq({"subscribe", "get", "stop"})
    BY DEF Types
  <2>1. CASE Callers \/ (\E x \in Signals : Produce(x) \/ StopSink(x)) \/ Done
    BY <2>1, <1>2
       DEF Callers, ScheduleGraphChange, RequestStop, ChangeSubscription, Produce,
           StopSink, Done, vars, clientVars, schedulerVars, loopVars
  <2>2. ASSUME NEW x \in Signals, ChangeSettings(x) PROVE StopInv'
    <3> DEFINE m == [kind |-> "setting", values |-> [y \in {x} |-> settings[x] + 1]]
    <3>1. m \in Messages /\ m # StoppedMessage
      BY <2>2, Settings, KindsDiffer DEF ChangeSettings
    <3>2. /\ fromScheduler' = fromScheduler \/ fromScheduler' = Append(fromScheduler, m)
          /\ UNCHANGED <<wpc, thread, toScheduler, stopScheduler, schedulerFinished>>
      BY <2>2 DEF ChangeSettings, Emit, loopVars
    <3> HIDE DEF m
    <3>3. \A i \in 1..Len(fromScheduler') :
            fromScheduler'[i] = StoppedMessage => thread' = "stopped"
      BY <2>a, <3>1, <3>2, Appending DEF StopInv
    <3> QED BY <3>2, <3>3 DEF StopInv, StopIsComing
  <2>3. CASE GraphEnds
    BY <2>3 DEF GraphEnds, StopInv, StopIsComing, loopVars
  <2>4. CASE SchedulerStops
    <3>1. /\ thread' = "stopped"
          /\ UNCHANGED <<wpc, toScheduler, stopScheduler, schedulerFinished>>
      BY <2>4 DEF SchedulerStops, loopVars
    <3> QED BY <3>1 DEF StopInv, StopIsComing
  <2>5. CASE HandleMessage
    <3>1. /\ toScheduler # <<>> /\ toScheduler' = Tail(toScheduler)
          /\ thread = "running"
          /\ UNCHANGED <<wpc, stopScheduler, schedulerFinished>>
          /\ \/ Head(toScheduler) # "stop" /\ thread' = thread
             \/ thread' = "stopping"
          /\ \/ fromScheduler' = fromScheduler
             \/ fromScheduler' = Append(fromScheduler, SettingMessage(Sinks[graph]))
      BY <2>5, Handling DEF loopVars
    <3>2. /\ SettingMessage(Sinks[graph]) \in Messages
          /\ SettingMessage(Sinks[graph]) # StoppedMessage
      BY <3>1, Settings, KindsDiffer DEF Control, SettingMessage
    <3>3. \A i \in 1..Len(fromScheduler') : fromScheduler'[i] # StoppedMessage
      <4> DEFINE m == SettingMessage(Sinks[graph])
      <4>1. \A i \in 1..Len(fromScheduler) : fromScheduler[i] # StoppedMessage
        BY <3>1 DEF StopInv
      <4>2. m \in Messages /\ m # StoppedMessage
        BY <3>2
      <4>3. fromScheduler' = fromScheduler \/ fromScheduler' = Append(fromScheduler, m)
        BY <3>1
      <4> HIDE DEF m
      <4> QED BY <2>a, <4>1, <4>2, <4>3, Appending
    <3>4. StopIsComing => StopIsComing'
      <4> SUFFICES ASSUME StopIsComing, thread' = thread, Head(toScheduler) # "stop"
                   PROVE  StopIsComing'
        BY <3>1 DEF StopIsComing
      <4>1. PICK i \in 1..Len(toScheduler) : toScheduler[i] = "stop"
        BY <3>1 DEF StopIsComing
      <4>2. i - 1 \in 1..Len(toScheduler') /\ toScheduler'[i - 1] = "stop"
        BY <2>a, <3>1, <4>1, Dropping
      <4> QED BY <4>2 DEF StopIsComing
    <3> QED BY <3>1, <3>3, <3>4 DEF StopInv, Leaving
  <2>6. CASE Begin
    <3>1. /\ UNCHANGED <<thread, fromScheduler>>
          /\ wpc' \in {"drain", "begin", "publish", "done"}
          /\ stopScheduler' => toScheduler' = Append(toScheduler, "stop")
      BY <2>6 DEF Begin, AfterTeardown
    <3>2. stopScheduler' => \E i \in 1..Len(toScheduler') : toScheduler'[i] = "stop"
      <4> SUFFICES ASSUME stopScheduler' PROVE \E i \in 1..Len(toScheduler') : toScheduler'[i] = "stop"
        OBVIOUS
      <4>1. /\ Len(toScheduler) + 1 \in 1..Len(toScheduler')
            /\ toScheduler'[Len(toScheduler) + 1] = "stop"
        BY <2>a, <3>1, Appending
      <4> QED BY <4>1
    <3> QED BY <3>1, <3>2 DEF StopInv, StopIsComing, Leaving
  <2>7. CASE DrainMessages
    <3>1. /\ fromScheduler' = <<>> /\ wpc' = "round" /\ wpc = "drain"
          /\ UNCHANGED <<thread, toScheduler, stopScheduler>>
          /\ schedulerFinished' => \E i \in DOMAIN fromScheduler : fromScheduler[i] = StoppedMessage
      BY <2>7 DEF DrainMessages, schedulerVars
    <3>2. schedulerFinished' => thread = "stopped"
      BY <2>a, <3>1 DEF StopInv
    <3> QED BY <3>1, <3>2 DEF StopInv, StopIsComing, Flushing, Leaving
  <2>8. CASE StartRound \/ ProcessPoller \/ \E x \in todo : HandleSubscription(x)
    <3>1. /\ wpc \in {"round", "handle", "process"} /\ wpc' \in {"handle", "process"}
          /\ UNCHANGED <<thread, fromScheduler, toScheduler, stopScheduler,
                         schedulerFinished>>
      BY <2>8 DEF StartRound, ProcessPoller, HandleSubscription, schedulerVars, loopVars
    <3> QED BY <3>1 DEF StopInv, StopIsComing, Flushing, Leaving
  <2>9. CASE EndRound
    <3>1. /\ wpc = "handle"
          /\ wpc' \in {"round", "teardown", "begin", "publish", "done"}
          /\ wpc' = "teardown" => stopScheduler \/ schedulerFinished
          /\ UNCHANGED <<thread, fromScheduler, toScheduler, stopScheduler,
                         schedulerFinished>>
      BY <2>9 DEF EndRound, AfterTeardown, schedulerVars, loopVars
    <3> QED BY <3>1 DEF StopInv, StopIsComing, Flushing, Leaving
  <2>10. CASE Teardown
    <3>1. /\ wpc = "teardown" /\ wpc' = "join" /\ fromScheduler' = <<>>
          /\ UNCHANGED <<thread, toScheduler, stopScheduler, schedulerFinished>>
      BY <2>10 DEF Teardown, schedulerVars, loopVars
    <3> QED BY <3>1 DEF StopInv, StopIsComing, Flushing, Leaving
  <2>11. CASE JoinScheduler
    <3>1. /\ wpc = "join" /\ wpc' \in {"begin", "publish", "done"}
          /\ fromScheduler' = <<>>
      BY <2>11 DEF JoinScheduler, AfterTeardown, PortsInv
    <3> QED BY <3>1 DEF StopInv, Flushing, Leaving
  <2>12. CASE PublishEntries \/ ReplaceScheduler \/ StartScheduler
    <3>1. /\ wpc' \in {"replace", "start", "begin"} /\ wpc \in {"publish", "replace", "start"}
          /\ fromScheduler' = fromScheduler
      BY <2>12 DEF PublishEntries, ReplaceScheduler, StartScheduler
    <3>2. fromScheduler' = <<>>
      BY <3>1 DEF PortsInv, Control
    <3> QED BY <3>1, <3>2 DEF StopInv, Flushing, Leaving
  <2> QED
    BY <2>1, <2>2, <2>3, <2>4, <2>5, <2>6, <2>7, <2>8, <2>9, <2>10, <2>11, <2>12
       DEF Next, Graph, Scheduler, Worker
<1> QED
  BY <1>1, <1>2, <1>3 DEF vars, schedulerVars, loopVars

\* The conjunction that every step keeps.
Working == Types /\ Control /\ PortsInv /\ StopInv

LEMMA WorkingHolds == Spec => []Working
<1>1. Init => Working
  BY TypesInductive, ControlInductive, PortsInductive, StopInductive DEF Working
<1>2. Working /\ [Next]_vars => Working'
  BY TypesInductive, ControlInductive, PortsInductive, StopInductive DEF Working
<1> QED BY <1>1, <1>2, PTL DEF Spec

\* Type correctness of the notify thread and its scheduler (GnuRadioAcquisitionWorker.hpp):
\* the ports hold known messages only, and a poller is read only if it exists.
THEOREM AcquisitionTypes == Spec => []Types
<1>1. Working => Types
  BY DEF Working
<1> QED BY <1>1, WorkingHolds, PTL

\* OnlyStoppedIsDropped, for any graphs and any clients: the loop of init() tears a
\* scheduler down only after that scheduler has stopped or while its stop request is
\* on the way to it.
THEOREM StoppedBeforeDropped == Spec => []OnlyStoppedIsDropped
<1>1. Working => OnlyStoppedIsDropped
  <2> SUFFICES ASSUME Working, wpc \in {"teardown", "join"}
               PROVE  \/ thread = "stopped"
                      \/ stopScheduler /\ \/ thread = "stopping"
                                          \/ \E i \in DOMAIN toScheduler : toScheduler[i] = "stop"
    BY DEF OnlyStoppedIsDropped
  <2>1. DOMAIN toScheduler = 1..Len(toScheduler)
    BY DEF Working, Types
  <2> QED BY <2>1 DEF Working, StopInv, StopIsComing, Leaving
<1> QED BY <1>1, WorkingHolds, PTL
-----------------------------------------------------------------------------
(* The pollers and the rounds.                                             *)

\* Signal x has a poller of the running graph.
Reading(x) == IsAttached(pollers[x]) /\ pollers[x].of = graph

\* A poller goes with its graph; it finishes when its sink has stopped, and it has
\* nothing left to read if it was made after that.
Cached(x) ==
  pollers[x] # NoPoller =>
    /\ thread # "none" /\ wpc # "join"
    /\ x \in Sinks[graph] => Reading(x)
    /\ Reading(x) => /\ x \in Sinks[graph]
                     /\ pollers[x].read <= produced[x]
                     /\ pollers[x].finished => x \in stopped
                     /\ x \in stopped => pollers[x].finished \/ pollers[x].read = produced[x]

CachedInv == \A x \in Signals : Cached(x)

\* All samples that the sink of x will ever have are sent.
Sent(x) == Reading(x) => x \in stopped /\ pollers[x].read = produced[x]

\* What the round has behind it has been sent, if no other round may follow.
RoundInv ==
  /\ wpc \in {"handle", "process"} /\ (pollersFinished \/ schedulerFinished) =>
       \A x \in round \ todo : x # current => Sent(x)
  /\ wpc = "process" /\ wasFinished => pollers[current].finished
  /\ wpc = "teardown" => \A x \in round : Sent(x)

\* Without a scheduler, or with one that is only waited for, nothing is cached.
LEMMA NothingCached ==
  ASSUME CachedInv, thread = "none" \/ wpc = "join"
  PROVE  \A x \in Signals : pollers[x] = NoPoller
BY DEF CachedInv, Cached

LEMMA CachedInductive ==
  /\ Init => CachedInv
  /\ Working /\ CachedInv /\ [Next]_vars => CachedInv'
<1>1. Init => CachedInv
  BY DEF Init, CachedInv, Cached
<1>2. ASSUME CachedInv, UNCHANGED <<pollers, graph, stopped, produced>>,
             thread # "none" => thread' # "none", wpc # "join" => wpc' # "join"
      PROVE  CachedInv'
  BY <1>2 DEF CachedInv, Cached, Reading, IsAttached
<1>3. ASSUME \A x \in Signals : pollers'[x] = NoPoller PROVE CachedInv'
  BY <1>3 DEF CachedInv, Cached
<1>4. ASSUME Working, CachedInv, Next PROVE CachedInv'
  <2> USE <1>4
  <2>a. Types /\ Control
    BY DEF Working
  <2>b. ASSUME NEW y \in Signals, IsAttached(pollers[y])
        PROVE  /\ pollers[y] \in AttachedPoller
               /\ pollers[y].read \in Nat /\ pollers[y] # NoPoller
    <3>1. pollers[y] \in Poller
      BY <2>a DEF Types
    <3>2. pollers[y] \in AttachedPoller /\ pollers[y].read \in 0..MaxSamples
      BY <2>b, <3>1, PollerChanges
    <3> QED BY <3>2, Attaching
  <2>c. \A y \in Signals : produced[y] \in Nat
    BY <2>a DEF Types
  <2>1. CASE Callers \/ (\E x \in Signals : ChangeSettings(x)) \/ GraphEnds
             \/ SchedulerStops \/ Done
    BY <2>1, <1>2
       DEF Callers, ScheduleGraphChange, RequestStop, ChangeSubscription,
           ChangeSettings, GraphEnds, SchedulerStops, Done, vars, clientVars,
           schedulerVars
  <2>2. CASE HandleMessage
    <3>1. /\ UNCHANGED <<pollers, graph, stopped, produced, wpc>>
          /\ thread' # "none"
      BY <2>a, <2>2, Handling
    <3> QED BY <1>2, <3>1
  <2>3. CASE Begin \/ DrainMessages \/ StartRound \/ EndRound
    BY <2>3, <1>2 DEF Begin, DrainMessages, StartRound, EndRound, AfterTeardown,
                      schedulerVars
  <2>4. CASE Teardown
    BY <2>4, <1>3 DEF Teardown
  <2>5. CASE JoinScheduler
    BY <2>5, <1>3, NothingCached DEF JoinScheduler
  <2>6. CASE PublishEntries \/ ReplaceScheduler \/ StartScheduler
    <3>1. pollers' = pollers /\ thread = "none"
      BY <2>6, <2>a DEF PublishEntries, ReplaceScheduler, StartScheduler, Control
    <3> QED BY <1>3, <3>1, NothingCached
  <2>7. ASSUME NEW x \in Signals, Produce(x) PROVE CachedInv'
    <3>1. /\ x \notin stopped /\ produced' = [produced EXCEPT ![x] = @ + 1]
          /\ UNCHANGED <<pollers, graph, stopped, thread, wpc>>
      BY <2>7 DEF Produce
    <3>2. /\ \A y \in Signals : y # x => produced'[y] = produced[y]
          /\ produced'[x] = produced[x] + 1
      BY <2>a, <3>1 DEF Types
    <3> SUFFICES ASSUME NEW y \in Signals, pollers[y] # NoPoller PROVE Cached(y)'
      BY <3>1 DEF CachedInv, Cached
    <3>3. Cached(y)
      BY DEF CachedInv
    <3>4. Reading(y) => pollers[y].read <= produced'[y]
      BY <2>b, <2>c, <3>2, <3>3 DEF Cached, Reading
    <3>5. Reading(y)' <=> Reading(y)
      BY <3>1 DEF Reading
    <3> QED BY <3>1, <3>2, <3>3, <3>4, <3>5 DEF Cached
  <2>8. ASSUME NEW x \in Signals, StopSink(x) PROVE CachedInv'
    <3>1. /\ x \in Sinks[graph] /\ stopped' = stopped \cup {x}
          /\ UNCHANGED <<graph, produced, thread, wpc>>
          /\ pollers' = [pollers EXCEPT ![x] =
                           IF IsAttached(@) /\ @.of = graph
                           THEN [@ EXCEPT !.finished = TRUE] ELSE @]
      BY <2>8 DEF StopSink
    <3>2. \A y \in Signals : y # x => pollers'[y] = pollers[y]
      BY <2>a, <3>1 DEF Types
    <3>3. ASSUME NEW y \in Signals, y # x PROVE Cached(y)'
      <4>1. Cached(y) /\ pollers'[y] = pollers[y] /\ (y \in stopped' <=> y \in stopped)
        BY <3>1, <3>2, <3>3 DEF CachedInv
      <4> QED BY <3>1, <4>1 DEF Cached, Reading
    <3>4. CASE Reading(x)
      <4>1. pollers'[x] = [pollers[x] EXCEPT !.finished = TRUE]
        BY <2>a, <3>1, <3>4 DEF Types, Reading
      <4>2. pollers[x] \in Poller
        BY <2>a DEF Types
      <4>3. /\ pollers'[x] \in AttachedPoller /\ pollers'[x].of = pollers[x].of
            /\ pollers'[x].read = pollers[x].read /\ pollers'[x].finished
        BY <3>4, <4>1, <4>2, PollerChanges DEF Reading
      <4>4. IsAttached(pollers'[x]) /\ pollers[x] # NoPoller
        BY <2>b, <3>4, <4>3, Attaching DEF Reading
      <4>5. Cached(x)
        BY DEF CachedInv
      <4> QED BY <3>1, <3>3, <3>4, <4>3, <4>4, <4>5 DEF CachedInv, Cached, Reading
    <3>5. CASE ~Reading(x)
      <4>1. pollers'[x] = pollers[x]
        BY <2>a, <3>1, <3>5 DEF Types, Reading
      <4>2. Cached(x)'
        BY <3>1, <3>5, <4>1 DEF CachedInv, Cached, Reading
      <4> QED BY <3>3, <4>2 DEF CachedInv
    <3> QED BY <3>4, <3>5
  <2>9. ASSUME NEW x \in todo, HandleSubscription(x) PROVE CachedInv'
    <3>1. x \in Signals /\ wpc = "handle"
      BY <2>a, <2>9 DEF HandleSubscription, Types
    <3>2. graph # None /\ thread # "none"
      BY <2>a, <3>1 DEF Control, Flushing
    <3>3. /\ UNCHANGED <<graph, produced, thread, stopped>> /\ wpc' # "join"
      BY <2>9, <3>1 DEF HandleSubscription, schedulerVars
    <3>4. PICK p \in IF pollers[x] = NoPoller THEN NewPollers(x) ELSE {pollers[x]} :
            pollers' = [pollers EXCEPT ![x] = p]
      BY <2>9 DEF HandleSubscription
    <3>5. /\ pollers'[x] = p
          /\ \A y \in Signals : y # x => pollers'[y] = pollers[y]
      BY <2>a, <3>1, <3>4 DEF Types
    <3>6. ASSUME NEW y \in Signals, pollers'[y] = pollers[y] PROVE Cached(y)'
      BY <3>1, <3>3, <3>6 DEF CachedInv, Cached, Reading
    <3>7. Cached(x)'
      <4>1. CASE pollers[x] = NoPoller
        <5>1. /\ IsAttached(p) => p \in AttachedPoller
              /\ IsAttached(p) /\ p.of = graph => x \in Sinks[graph]
              /\ x \in Sinks[graph] =>
                   /\ IsAttached(p) /\ p.of = graph /\ p.read = produced[x]
                   /\ p.finished => x \in stopped
          BY <2>a, <3>1, <3>2, <3>4, <4>1, Creating
        <5>2. p.read = produced[x] => p.read <= produced[x]
          BY <2>c, <3>1
        <5> QED BY <3>2, <3>3, <3>5, <5>1, <5>2 DEF Cached, Reading
      <4>2. CASE pollers[x] # NoPoller
        BY <3>1, <3>4, <3>5, <3>6, <4>2
      <4> QED BY <4>1, <4>2
    <3> QED BY <3>5, <3>6, <3>7 DEF CachedInv
  <2>10. CASE ProcessPoller
    <3>0. PICK x \in Signals : x = current
      BY <2>10, <2>a DEF ProcessPoller, Types
    <3>1. /\ IsAttached(pollers[x]) /\ wpc = "process"
          /\ pollers[x] \in Poller
      BY <2>10, <2>a, <3>0 DEF ProcessPoller, Types
    <3>2. /\ UNCHANGED <<graph, produced, thread, stopped>> /\ wpc' # "join"
      BY <2>10 DEF ProcessPoller, schedulerVars
    <3>3. PICK n \in {pollers[x].read, produced[x]} :
            /\ pollers[x].of # graph => n = pollers[x].read
            /\ pollers' = [pollers EXCEPT ![x].read = n]
      BY <2>10, <3>0 DEF ProcessPoller
    <3>4. /\ pollers'[x] = [pollers[x] EXCEPT !.read = n]
          /\ \A y \in Signals : y # x => pollers'[y] = pollers[y]
      BY <2>a, <3>1, <3>3 DEF Types
    <3>5. n \in 0..MaxSamples
      <4>1. produced[x] \in 0..MaxSamples
        BY <2>a, <3>1 DEF Types
      <4>2. pollers[x].read \in 0..MaxSamples
        BY <3>1, PollerChanges
      <4> QED BY <3>3, <4>1, <4>2
    <3>6. /\ pollers'[x] \in AttachedPoller /\ pollers'[x].of = pollers[x].of
          /\ pollers'[x].read = n
          /\ pollers'[x].finished = pollers[x].finished
      <4>1. \A m \in 0..MaxSamples :
              LET q == [pollers[x] EXCEPT !.read = m]
              IN q \in AttachedPoller /\ q.of = pollers[x].of /\ q.read = m
                 /\ q.finished = pollers[x].finished
        BY <3>1, PollerChanges
      <4>2. LET q == [pollers[x] EXCEPT !.read = n]
            IN q \in AttachedPoller /\ q.of = pollers[x].of /\ q.read = n
               /\ q.finished = pollers[x].finished
        BY <3>5, <4>1
      <4> QED BY <3>4, <4>2
    <3>7. ASSUME NEW y \in Signals, y # x PROVE Cached(y)'
      <4>1. pollers'[y] = pollers[y]
        BY <3>4, <3>7
      <4> QED BY <3>1, <3>2, <4>1 DEF CachedInv, Cached, Reading
    <3>8. Cached(x)'
      <4>1. Cached(x) /\ pollers[x] # NoPoller
        BY <2>b, <3>1 DEF CachedInv
      <4>2. IsAttached(pollers'[x])
        BY <3>6, Attaching
      <4>3. Reading(x)' <=> Reading(x)
        BY <3>1, <3>2, <3>6, <4>2 DEF Reading
      <4>4. n = produced[x] => n <= produced[x]
        BY <2>c, <3>1
      <4> HIDE DEF IsAttached
      <4> QED BY <3>1, <3>2, <3>3, <3>6, <4>1, <4>3, <4>4 DEF Cached
    <3>9. \A y \in Signals : Cached(y)'
      BY <3>7, <3>8
    <3> QED BY <3>9 DEF CachedInv
  <2> QED
    BY <2>1, <2>2, <2>3, <2>4, <2>5, <2>6, <2>7, <2>8, <2>9, <2>10
       DEF Next, Graph, Scheduler, Worker
<1>5. ASSUME CachedInv, UNCHANGED vars PROVE CachedInv'
  BY <1>2, <1>5 DEF vars, schedulerVars
<1> QED BY <1>1, <1>4, <1>5
\* PollersAreCurrent, for any graphs: getStreamingPoller and getDataSetPoller never
\* hand a later graph the poller of an earlier one, nor remember a signal as missing.
THEOREM PollersGoWithTheirGraph == Spec => []PollersAreCurrent
<1>1. CachedInv => PollersAreCurrent
  BY DEF CachedInv, Cached, Reading, PollersAreCurrent
<1>2. Init => CachedInv
  BY CachedInductive
<1>3. Working /\ CachedInv /\ [Next]_vars => CachedInv'
  BY CachedInductive
<1> QED BY <1>1, <1>2, <1>3, WorkingHolds, PTL DEF Spec

\* What is sent stays sent: a stopped sink gets no samples.
LEMMA SentStaysSent ==
  ASSUME Working, NEW x \in Signals, Sent(x),
         \/ UNCHANGED <<pollers, graph, stopped, produced>>
         \/ \E y \in Signals : Produce(y) \/ StopSink(y)
  PROVE  Sent(x)'
<1>a. pollers \in [Signals -> Poller] /\ produced \in [Signals -> 0..MaxSamples]
  BY DEF Working, Types
<1>1. CASE UNCHANGED <<pollers, graph, stopped, produced>>
  BY <1>1 DEF Sent, Reading
<1>2. ASSUME NEW y \in Signals, Produce(y) PROVE Sent(x)'
  <2>1. /\ y \notin stopped /\ UNCHANGED <<pollers, graph, stopped>>
        /\ x # y => produced'[x] = produced[x]
    BY <1>2, <1>a DEF Produce
  <2> QED BY <2>1 DEF Sent, Reading
<1>3. ASSUME NEW y \in Signals, StopSink(y) PROVE Sent(x)'
  <2>1. /\ UNCHANGED <<graph, produced>> /\ stopped \subseteq stopped'
        /\ \/ pollers'[x] = pollers[x]
           \/ Reading(x) /\ pollers'[x] = [pollers[x] EXCEPT !.finished = TRUE]
    BY <1>3, <1>a DEF StopSink, Reading
  <2>2. CASE pollers'[x] = pollers[x]
    BY <2>1, <2>2 DEF Sent, Reading
  <2>3. CASE Reading(x) /\ pollers'[x] = [pollers[x] EXCEPT !.finished = TRUE]
    <3>1. pollers[x] \in Poller
      BY <1>a
    <3>2. pollers'[x].of = pollers[x].of /\ pollers'[x].read = pollers[x].read
      BY <2>3, <3>1, PollerChanges DEF Reading
    <3> QED BY <2>1, <2>3, <3>2 DEF Sent
  <2> QED BY <2>1, <2>2, <2>3
<1> QED BY <1>1, <1>2, <1>3

LEMMA RoundInductive ==
  /\ Init => RoundInv
  /\ Working /\ CachedInv /\ RoundInv /\ [Next]_vars => RoundInv'
<1>1. Init => RoundInv
  BY DEF Init, RoundInv
<1>2. ASSUME Working, CachedInv, RoundInv,
             UNCHANGED <<wpc, round, todo, current, wasFinished, pollersFinished,
                         schedulerFinished>>,
             \/ UNCHANGED <<pollers, graph, stopped, produced>>
             \/ \E y \in Signals : Produce(y) \/ StopSink(y)
      PROVE  RoundInv'
  <2>1. round \subseteq Signals /\ pollers \in [Signals -> Poller]
        /\ current \in round \cup {None}
        /\ (wpc = "process" => current \in round /\ IsAttached(pollers[current]))
    BY <1>2 DEF Working, Types
  <2>2. \A x \in round : Sent(x) => Sent(x)'
    BY <1>2, <2>1, SentStaysSent
  <2>3. ASSUME wpc = "process", pollers[current].finished PROVE pollers'[current].finished
    <3>1. CASE \E y \in Signals : StopSink(y)
      <4>1. PICK y \in Signals : StopSink(y)
        BY <3>1
      <4>2. \/ pollers'[current] = pollers[current]
            \/ pollers'[current] = [pollers[current] EXCEPT !.finished = TRUE]
        BY <2>1, <2>3, <4>1 DEF StopSink
      <4>3. pollers[current] \in Poller
        BY <2>1, <2>3
      <4>4. [pollers[current] EXCEPT !.finished = TRUE].finished
        BY <2>1, <2>3, <4>3, PollerChanges
      <4> QED BY <2>3, <4>2, <4>4
    <3>2. CASE pollers' = pollers
      BY <2>3, <3>2
    <3> QED BY <1>2, <3>1, <3>2 DEF Produce
  <2> QED BY <1>2, <2>2, <2>3 DEF RoundInv
<1>3. ASSUME wpc' \notin {"handle", "process", "teardown"} PROVE RoundInv'
  BY <1>3 DEF RoundInv
<1>4. ASSUME Working, CachedInv, RoundInv, Next PROVE RoundInv'
  <2> USE <1>4
  <2>a. /\ Types /\ Control /\ StopInv
        /\ round \subseteq Signals /\ todo \subseteq round
        /\ current = None <=> wpc # "process"
        /\ pollers \in [Signals -> Poller]
    BY DEF Working, Types
  <2>1. CASE Callers \/ (\E x \in Signals : ChangeSettings(x)) \/ GraphEnds
             \/ SchedulerStops \/ Done
    BY <2>1, <1>2
       DEF Callers, ScheduleGraphChange, RequestStop, ChangeSubscription,
           ChangeSettings, GraphEnds, SchedulerStops, Done, vars, clientVars,
           schedulerVars, loopVars, roundVars
  <2>2. CASE HandleMessage
    <3>1. UNCHANGED <<pollers, graph, stopped, produced, wpc, loopVars, roundVars>>
      BY <2>a, <2>2, Handling
    <3> QED BY <1>2, <3>1 DEF loopVars, roundVars
  <2>3. CASE \E x \in Signals : Produce(x) \/ StopSink(x)
    <3>1. UNCHANGED <<wpc, loopVars, roundVars>>
      BY <2>3 DEF Produce, StopSink
    <3> QED BY <1>2, <2>3, <3>1 DEF loopVars, roundVars
  <2>4. CASE \/ Begin \/ DrainMessages \/ Teardown \/ JoinScheduler
             \/ PublishEntries \/ ReplaceScheduler \/ StartScheduler
    BY <2>4, <1>3
       DEF Begin, DrainMessages, Teardown, JoinScheduler, PublishEntries,
           ReplaceScheduler, StartScheduler, AfterTeardown
  <2>5. CASE StartRound
    BY <2>5 DEF StartRound, RoundInv
  <2>6. ASSUME NEW x \in todo, HandleSubscription(x) PROVE RoundInv'
    <3>1. /\ x \in Signals /\ x \in round /\ wpc = "handle"
          /\ todo' = todo \ {x} /\ round' = round
          /\ UNCHANGED <<graph, stopped, produced, schedulerFinished, pollersFinished>>
      BY <2>a, <2>6 DEF HandleSubscription, schedulerVars, loopVars
    <3>2. PICK p \in IF pollers[x] = NoPoller THEN NewPollers(x) ELSE {pollers[x]} :
            /\ pollers' = [pollers EXCEPT ![x] = p]
            /\ IF IsAttached(p)
               THEN wasFinished' = p.finished /\ current' = x /\ wpc' = "process"
               ELSE UNCHANGED <<wasFinished, current, wpc>>
      BY <2>6 DEF HandleSubscription
    <3>3. pollers'[x] = p /\ \A y \in Signals : y # x => pollers'[y] = pollers[y]
      BY <2>a, <3>1, <3>2
    <3>4. \A y \in Signals : y # x /\ Sent(y) => Sent(y)'
      BY <3>1, <3>3 DEF Sent, Reading
    <3>5. CASE IsAttached(p)
      <4>1. wasFinished' = p.finished /\ current' = x /\ wpc' = "process"
        BY <3>2, <3>5
      <4>2. wpc' = "process" /\ wasFinished' => pollers'[current'].finished
        BY <3>3, <4>1
      <4>3. current = None /\ None \notin Signals
        BY <2>a, <3>1, AcquisitionAssumption
      <4>4. ASSUME pollersFinished \/ schedulerFinished,
                   NEW y \in round' \ todo', y # current'
            PROVE  Sent(y)'
        <5>1. y \in round \ todo /\ y # current /\ y \in Signals /\ y # x
          BY <2>a, <3>1, <4>1, <4>3, <4>4
        <5> QED BY <3>1, <3>4, <4>4, <5>1 DEF RoundInv
      <4> QED BY <3>1, <4>1, <4>2, <4>4 DEF RoundInv
    <3>6. CASE ~IsAttached(p)
      <4>1. UNCHANGED <<wasFinished, current, wpc>>
        BY <3>2, <3>6
      <4>2. Sent(x)'
        BY <3>3, <3>6 DEF Sent, Reading
      <4>3. ASSUME pollersFinished \/ schedulerFinished,
                   NEW y \in round' \ todo', y # current'
            PROVE  Sent(y)'
        <5>1. CASE y = x
          BY <4>2, <5>1
        <5>2. CASE y # x
          <6>1. y \in round \ todo /\ y # current /\ y \in Signals
            BY <2>a, <3>1, <4>1, <4>3, <5>2
          <6> QED BY <3>1, <3>4, <4>3, <5>2, <6>1 DEF RoundInv
        <5> QED BY <5>1, <5>2
      <4> QED BY <3>1, <4>1, <4>3 DEF RoundInv
    <3> QED BY <3>5, <3>6
  <2>7. CASE ProcessPoller
    <3>0. PICK x \in Signals : x = current
      BY <2>7, <2>a DEF ProcessPoller, Types
    <3>1. /\ IsAttached(pollers[x]) /\ wpc = "process" /\ x \in round
          /\ pollers[x] \in Poller
      BY <2>7, <2>a, <3>0 DEF ProcessPoller, Types
    <3>2. /\ UNCHANGED <<graph, produced, stopped, schedulerFinished, round, todo>>
          /\ wpc' = "handle" /\ current' = None
          /\ pollersFinished' = (pollersFinished /\ wasFinished)
      BY <2>7 DEF ProcessPoller, schedulerVars, loopVars
    <3>3. PICK n \in {pollers[x].read, produced[x]} :
            /\ pollers[x].of = graph /\ pollers[x].finished => n = produced[x]
            /\ pollers' = [pollers EXCEPT ![x].read = n]
      BY <2>7, <3>0 DEF ProcessPoller
    <3>4. /\ pollers'[x] = [pollers[x] EXCEPT !.read = n]
          /\ \A y \in Signals : y # x => pollers'[y] = pollers[y]
      BY <2>a, <3>3
    <3>5. \A y \in Signals : y # x /\ Sent(y) => Sent(y)'
      BY <3>2, <3>4 DEF Sent, Reading
    <3>6. ASSUME pollersFinished' \/ schedulerFinished' PROVE Sent(x)'
      <4>1. pollers'[x].of = pollers[x].of /\ pollers'[x].read = n
        <5>1. produced[x] \in 0..MaxSamples
          BY <2>a DEF Types
        <5>2. pollers[x].read \in 0..MaxSamples
          BY <3>1, PollerChanges
        <5>3. n \in 0..MaxSamples
          BY <3>3, <5>1, <5>2
        <5>4. LET q == [pollers[x] EXCEPT !.read = n] IN q.of = pollers[x].of /\ q.read = n
          BY <3>1, <5>3, PollerChanges
        <5> QED BY <3>4, <5>4
      <4>2. SUFFICES ASSUME Reading(x)'
                     PROVE  x \in stopped /\ n = produced[x]
        BY <3>2, <4>1 DEF Sent
      <4>3. Reading(x) /\ pollers[x] # NoPoller
        BY <3>1, <3>2, <4>1, <4>2, Attaching DEF Reading
      <4>4. /\ x \in Sinks[graph]
            /\ pollers[x].finished => x \in stopped
            /\ x \in stopped => pollers[x].finished \/ pollers[x].read = produced[x]
        BY <4>3 DEF CachedInv, Cached
      <4>5. CASE wasFinished
        <5>1. pollers[x].finished
          BY <3>0, <3>1, <4>5 DEF RoundInv
        <5> QED BY <3>3, <4>3, <4>4, <5>1 DEF Reading
      <4>6. CASE schedulerFinished
        <5>1. thread = "stopped"
          BY <2>a, <3>1, <4>6 DEF StopInv
        <5>2. x \in stopped
          BY <2>a, <4>4, <5>1 DEF Control
        <5> QED BY <3>3, <4>3, <4>4, <5>2 DEF Reading
      <4> QED BY <3>2, <3>6, <4>5, <4>6
    <3>7. ASSUME pollersFinished' \/ schedulerFinished',
                 NEW y \in round' \ todo', y # current'
          PROVE  Sent(y)'
      <4>1. CASE y = x
        BY <3>6, <3>7, <4>1
      <4>2. CASE y # x
        <5>1. /\ y \in round \ todo /\ y # current /\ y \in Signals
              /\ pollersFinished \/ schedulerFinished
          BY <2>a, <3>0, <3>2, <3>7, <4>2
        <5> QED BY <3>1, <3>5, <4>2, <5>1 DEF RoundInv
      <4> QED BY <4>1, <4>2
    <3> QED BY <3>2, <3>7 DEF RoundInv
  <2>8. CASE EndRound
    <3>1. /\ wpc = "handle" /\ todo = {} /\ current = None
          /\ wpc' \in {"round", "teardown", "begin", "publish", "done"}
          /\ wpc' = "teardown" => pollersFinished \/ schedulerFinished
          /\ UNCHANGED <<pollers, graph, stopped, produced, round>>
      BY <2>a, <2>8 DEF EndRound, AfterTeardown, schedulerVars, roundVars
    <3>2. \A y \in round : Sent(y)' <=> Sent(y)
      BY <3>1 DEF Sent, Reading
    <3>3. \A y \in round : y # None
      BY <2>a, AcquisitionAssumption
    <3> QED BY <3>1, <3>2, <3>3 DEF RoundInv
  <2> QED
    BY <2>1, <2>2, <2>3, <2>4, <2>5, <2>6, <2>7, <2>8
       DEF Next, Graph, Scheduler, Worker
<1>5. ASSUME Working, CachedInv, RoundInv, UNCHANGED vars PROVE RoundInv'
  BY <1>2, <1>5 DEF vars, schedulerVars, loopVars, roundVars
<1> QED BY <1>1, <1>4, <1>5

\* TailDelivered, for any number of samples, sinks and subscriptions: the notify
\* thread flushes the pollers of a scheduler before it drops them.
THEOREM EverySampleIsSent == Spec => []TailDelivered
<1> DEFINE IInv == CachedInv /\ RoundInv
<1>1. Init => IInv
  BY CachedInductive, RoundInductive
<1>2. Working /\ IInv /\ [Next]_vars => IInv'
  BY CachedInductive, RoundInductive
<1>3. RoundInv => TailDelivered
  BY DEF RoundInv, Sent, Reading, TailDelivered
<1> QED BY <1>1, <1>2, <1>3, WorkingHolds, PTL DEF Spec
-----------------------------------------------------------------------------
(* The published entries.                                                  *)

\* A graph has its scheduler, which has not been given up.
Running == (thread # "none" /\ wpc # "join") \/ wpc = "start"

\* The request of all settings is on its way.
Asked == \E i \in 1..Len(toScheduler) : toScheduler[i] = "get"

\* What the worker will take for the settings of x's sink is what they are.
UpToDate(x) ==
  IF About(x) = {} THEN entries[x] = settings[x]
  ELSE \E i \in About(x) : /\ \A j \in About(x) : j <= i
                           /\ fromScheduler[i].values[x] = settings[x]

\* A change that nobody told is one that the answer to the request will tell.
EntryInv ==
  /\ published = entries /\ entries \in [Signals -> Nat \cup {None}]
  /\ wpc = "replace" => entries = EntriesOf(taken, [x \in Signals |-> 0])
  /\ ~Running /\ wpc # "replace" => entries = NoEntries
  /\ Running => \A x \in Signals : x \in Sinks[graph] <=> entries[x] # None
  /\ Running /\ ~listening => /\ Len(toScheduler) >= 2
                              /\ toScheduler[1] = "subscribe"
                              /\ toScheduler[2] = "get"
  /\ Running /\ listening /\ ~Asked => \A x \in Sinks[graph] : UpToDate(x)

\* A new message about some signals is the last one about these.
LEMMA Telling ==
  ASSUME Types, NEW S, NEW v, NEW x,
         DOMAIN v = S,
         [kind |-> "setting", values |-> v] \in Messages,
         fromScheduler' = Append(fromScheduler, [kind |-> "setting", values |-> v]),
         IF x \in S THEN v[x] = settings'[x]
         ELSE UpToDate(x) /\ UNCHANGED <<entries[x], settings[x]>>
  PROVE  UpToDate(x)'
<1> DEFINE m == [kind |-> "setting", values |-> v]
           n == Len(fromScheduler) + 1
<1>1. /\ fromScheduler \in Seq(Messages) /\ m \in Messages
      /\ fromScheduler' = Append(fromScheduler, m)
      /\ m.kind = "setting" /\ m.values = v
  BY DEF Types
<1> HIDE DEF m
<1>2. /\ DOMAIN fromScheduler = 1..Len(fromScheduler) /\ n \in Nat
      /\ DOMAIN fromScheduler' = 1..n
      /\ \A i \in 1..Len(fromScheduler) : fromScheduler'[i] = fromScheduler[i] /\ i < n
      /\ fromScheduler'[n] = m
      /\ \A i \in 1..n : i \in 1..Len(fromScheduler) \/ i = n
  BY <1>1, Appending
<1> HIDE DEF n
<1>3. CASE x \in S
  <2>1. n \in About(x)' /\ \A j \in About(x)' : j <= n
    BY <1>1, <1>2, <1>3 DEF About
  <2>2. fromScheduler'[n].values[x] = settings'[x]
    BY <1>1, <1>2, <1>3
  <2> QED BY <2>1, <2>2 DEF UpToDate
<1>4. CASE x \notin S
  <2>1. About(x)' = About(x)
    BY <1>1, <1>2, <1>4 DEF About
  <2>2. \A i \in About(x) : fromScheduler'[i] = fromScheduler[i]
    BY <1>2 DEF About
  <2> QED BY <1>4, <2>1, <2>2 DEF UpToDate
<1> QED BY <1>3, <1>4

\* The end of a scheduler is not about settings.
LEMMA Ending ==
  ASSUME Types, NEW x, UpToDate(x), fromScheduler' = Append(fromScheduler, StoppedMessage),
         UNCHANGED <<entries, settings>>
  PROVE  UpToDate(x)'
<1> DEFINE n == Len(fromScheduler) + 1
<1>1. /\ fromScheduler \in Seq(Messages) /\ StoppedMessage \in Messages
      /\ StoppedMessage.kind # "setting"
  BY DEF Types, Messages, StoppedMessage
<1>2. /\ DOMAIN fromScheduler = 1..Len(fromScheduler) /\ n \in Nat
      /\ DOMAIN fromScheduler' = 1..n
      /\ \A i \in 1..Len(fromScheduler) : fromScheduler'[i] = fromScheduler[i]
      /\ fromScheduler'[n] = StoppedMessage
      /\ \A i \in 1..n : i \in 1..Len(fromScheduler) \/ i = n
      /\ \A i \in 1..Len(fromScheduler) : i \in 1..n
  BY <1>1, Appending
<1> HIDE DEF n
<1>3. About(x)' = About(x) /\ \A i \in About(x) : fromScheduler'[i] = fromScheduler[i]
  BY <1>1, <1>2 DEF About
<1> QED BY <1>3 DEF UpToDate

Before == {ss \in Nat \X Nat : ss[1] < ss[2]}

\* Among finitely many positions one is the last.
LEMMA LastPosition ==
  ASSUME NEW n \in Nat, NEW S \in SUBSET (1..n), S # {}
  PROVE  \E i \in S : \A j \in S : j <= i
<1> DEFINE T == {n - i : i \in S}
<1>1. IsWellFoundedOn(Before, Nat)
  BY NatLessThanWellFounded, Zenon DEF OpToRel, Before
<1>2. T \subseteq Nat /\ T # {}
  <2>1. \A i \in S : i \in Nat /\ n - i \in Nat
    BY SMT
  <2>2. \E i \in S : n - i \in T
    BY Zenon
  <2> QED BY <2>1, <2>2, Zenon
<1>3. PICK d \in T : \A e \in T : ~(<<e, d>> \in Before)
  <2> HIDE DEF T
  <2> QED BY <1>1, <1>2, WFMin, Zenon
<1>4. \A e \in T : ~(e < d)
  BY <1>2, <1>3 DEF Before
<1>5. PICK i \in S : d = n - i
  OBVIOUS
<1>6. ASSUME NEW j \in S PROVE j <= i
  <2>1. n - j \in T
    OBVIOUS
  <2>2. ~(n - j < n - i)
    BY <1>4, <1>5, <2>1
  <2> QED BY <2>2
<1> QED BY <1>6

\* The messages keep the signals that have entries, and leave their last settings.
LEMMA Draining ==
  ASSUME Types, entries \in [Signals -> Nat \cup {None}], NEW x \in Signals
  PROVE  /\ Updated(x) \in Nat \cup {None}
         /\ Updated(x) = None <=> entries[x] = None
         /\ entries[x] # None /\ UpToDate(x) => Updated(x) = settings[x]
<1>1. ASSUME NEW i \in About(x) PROVE fromScheduler[i].values[x] \in Nat
  <2>1. /\ fromScheduler[i] \in Messages
        /\ fromScheduler[i].kind = "setting" /\ x \in DOMAIN fromScheduler[i].values
    BY <1>1 DEF Types, About
  <2> DEFINE m == fromScheduler[i]
  <2>2. m # StoppedMessage
    BY <2>1 DEF StoppedMessage
  <2>3. PICK S \in SUBSET Signals : m.values \in [S -> 0..MaxSettings]
    BY <2>1, <2>2 DEF Messages
  <2> HIDE DEF m
  <2> QED BY <2>1, <2>3, AcquisitionAssumption DEF m
<1>2. CASE About(x) = {} \/ entries[x] = None
  BY <1>2 DEF Updated, UpToDate
<1>3. CASE About(x) # {} /\ entries[x] # None
  <2>1. About(x) \subseteq 1..Len(fromScheduler) /\ Len(fromScheduler) \in Nat
    BY DEF About, Types
  <2>2. PICK i \in About(x) : \A j \in About(x) : j <= i
    BY <1>3, <2>1, LastPosition
  <2>3. \A k \in About(x) : (\A j \in About(x) : j <= k) => k = i
    BY <2>1, <2>2
  <2>4. (CHOOSE k \in About(x) : \A j \in About(x) : j <= k) = i
    BY <2>2, <2>3
  <2>5. Updated(x) = fromScheduler[i].values[x]
    BY <1>3, <2>4 DEF Updated
  <2>6. UpToDate(x) => fromScheduler[i].values[x] = settings[x]
    BY <1>3, <2>3 DEF UpToDate
  <2>7. Updated(x) \in Nat
    BY <1>1, <2>5
  <2> QED BY <1>3, <2>5, <2>6, <2>7, AcquisitionAssumption
<1> QED BY <1>2, <1>3
LEMMA Silence ==
  ASSUME UNCHANGED <<fromScheduler, entries, settings>>, NEW x
  PROVE  UpToDate(x)' <=> UpToDate(x)
BY DEF UpToDate, About

LEMMA EntryInductive ==
  /\ Init => EntryInv
  /\ Working /\ EntryInv /\ [Next]_vars => EntryInv'
<1> USE AcquisitionAssumption
<1>1. Init => EntryInv
  BY DEF Init, EntryInv, Running, NoEntries
<1>2. ASSUME EntryInv,
             UNCHANGED <<entries, published, fromScheduler, toScheduler, listening,
                         settings, graph>>,
             Running' <=> Running, wpc' = "replace" <=> wpc = "replace",
             wpc = "replace" => taken' = taken
      PROVE  EntryInv'
  <2>1. \A x \in Signals : UpToDate(x)' <=> UpToDate(x)
    BY <1>2, Silence
  <2>2. Asked' <=> Asked
    BY <1>2 DEF Asked
  <2>3. Running /\ listening /\ ~Asked => \A x \in Sinks[graph]' : UpToDate(x)'
    BY <1>2, Silence DEF EntryInv
  <2> QED BY <1>2, <2>2, <2>3 DEF EntryInv
<1>3. ASSUME Working, EntryInv, Next PROVE EntryInv'
  <2> USE <1>3
  <2>a. /\ Types /\ Control /\ PortsInv
        /\ fromScheduler \in Seq(Messages)
        /\ toScheduler \in Seq({"subscribe", "get", "stop"})
        /\ Running => graph \in Graphs
    BY DEF Working, Types, Control, Running
  <2>b. wpc = "replace" => ~Running
    BY <2>a DEF Control, Running
  <2>1. CASE Callers \/ (\E x \in Signals : Produce(x) \/ StopSink(x)) \/ GraphEnds \/ Done
    <3>1. /\ UNCHANGED <<entries, published, fromScheduler, toScheduler, listening,
                         settings, graph, wpc, taken>>
          /\ thread' = "none" <=> thread = "none"
      BY <2>1 DEF Callers, ScheduleGraphChange, RequestStop, ChangeSubscription,
                  Produce, StopSink, GraphEnds, Done, vars, clientVars, schedulerVars,
                  entryVars, loopVars
    <3> QED BY <1>2, <3>1 DEF Running
  <2>2. ASSUME NEW x \in Signals, ChangeSettings(x) PROVE EntryInv'
    <3> DEFINE v == [y \in {x} |-> settings[x] + 1]
    <3>1. /\ thread = "running" /\ x \in Sinks[graph]
          /\ settings' = [settings EXCEPT ![x] = @ + 1]
          /\ ports /\ listening => fromScheduler' = Append(fromScheduler, [kind |-> "setting", values |-> v])
          /\ UNCHANGED <<wpc, thread, entries, published, toScheduler, listening, graph, taken>>
      BY <2>2 DEF ChangeSettings, Emit, entryVars, loopVars
    <3>2. [kind |-> "setting", values |-> v] \in Messages
      BY <2>2, <2>a, Settings DEF ChangeSettings
    <3>3. DOMAIN v = {x} /\ v[x] = settings[x] + 1 /\ settings'[x] = settings[x] + 1
          /\ \A y \in Signals : y # x => settings'[y] = settings[y]
      BY <2>a, <3>1 DEF Types
    <3> HIDE DEF v
    <3>4. ASSUME Running, listening, ~Asked, NEW y \in Sinks[graph] PROVE UpToDate(y)'
      <4>1. ports /\ y \in Signals
        BY <2>a, <3>1, <3>4 DEF PortsInv, Running
      <4>2. IF y \in {x} THEN v[y] = settings'[y]
            ELSE UpToDate(y) /\ UNCHANGED <<entries[y], settings[y]>>
        BY <3>1, <3>3, <3>4, <4>1 DEF EntryInv
      <4> QED BY <2>a, <3>1, <3>2, <3>3, <3>4, <4>1, <4>2, Telling
    <3>5. (Running' <=> Running) /\ (Asked' <=> Asked)
      BY <3>1 DEF Running, Asked
    <3> QED BY <2>b, <3>1, <3>4, <3>5 DEF EntryInv, Running
  <2>3. CASE SchedulerStops
    <3>1. /\ UNCHANGED <<wpc, entries, published, toScheduler, listening, graph, taken, settings>>
          /\ thread' # "none" /\ thread # "none"
          /\ \/ fromScheduler' = fromScheduler
             \/ fromScheduler' = Append(fromScheduler, StoppedMessage)
      BY <2>3 DEF SchedulerStops, Emit, entryVars, loopVars
    <3>2. (Running' <=> Running) /\ (Asked' <=> Asked)
      BY <3>1 DEF Running, Asked
    <3>3. \A x : UpToDate(x) => UpToDate(x)'
      BY <2>a, <3>1, Silence, Ending
    <3> QED BY <2>b, <3>1, <3>2, <3>3 DEF EntryInv, Running
  <2>4. CASE HandleMessage
    <3>1. /\ toScheduler # <<>> /\ toScheduler' = Tail(toScheduler)
          /\ thread = "running" /\ thread' \in {"running", "stopping"}
          /\ UNCHANGED <<wpc, entries, published, graph, taken, settings>>
          /\ \/ Head(toScheduler) = "subscribe" /\ listening' /\ UNCHANGED fromScheduler
             \/ /\ Head(toScheduler) = "get" /\ listening' = listening
                /\ ports => fromScheduler' = Append(fromScheduler, SettingMessage(Sinks[graph]))
             \/ Head(toScheduler) = "stop" /\ UNCHANGED <<listening, fromScheduler>>
      BY <2>4, <2>a, Handling DEF entryVars, loopVars
    <3>2. (Running' <=> Running) /\ (wpc # "replace") /\ wpc' # "replace"
      BY <2>b, <3>1, <2>a DEF Running, Control
    <3>3. ASSUME Running PROVE Running /\ ports /\ graph \in Graphs
      BY <2>a, <3>1, <3>3 DEF PortsInv, Running
    <3>4. ASSUME Asked, Head(toScheduler) # "get" PROVE Asked'
      <4>1. PICK i \in 1..Len(toScheduler) : toScheduler[i] = "get"
        BY <3>4 DEF Asked
      <4>2. i - 1 \in 1..Len(toScheduler') /\ toScheduler'[i - 1] = "get"
        BY <2>a, <3>1, <3>4, <4>1, Dropping
      <4> QED BY <4>2 DEF Asked
    <3>5. ASSUME Running, ~listening
          PROVE  Head(toScheduler) = "subscribe" /\ Asked /\ listening'
      <4>1. /\ Len(toScheduler) >= 2 /\ Len(toScheduler) \in Nat
            /\ toScheduler[1] = "subscribe" /\ toScheduler[2] = "get"
        BY <2>a, <3>5 DEF EntryInv
      <4>2. Head(toScheduler) = "subscribe"
        BY <2>a, <3>1, <4>1, Dropping
      <4> QED BY <3>1, <4>1, <4>2 DEF Asked
    <3>6. ASSUME Running, listening', ~Asked', NEW x \in Sinks[graph] PROVE UpToDate(x)'
      <4>1. CASE Head(toScheduler) = "get"
        <5> DEFINE v == [y \in Sinks[graph] |-> settings[y]]
        <5>1. /\ fromScheduler' = Append(fromScheduler, [kind |-> "setting", values |-> v])
              /\ DOMAIN v = Sinks[graph] /\ v[x] = settings'[x]
          BY <3>1, <3>3, <3>6, <4>1 DEF SettingMessage
        <5>2. [kind |-> "setting", values |-> v] \in Messages
          BY <2>a, <3>3, <3>6, Settings DEF SettingMessage
        <5> HIDE DEF v
        <5> QED BY <2>a, <3>6, <5>1, <5>2, Telling
      <4>2. CASE Head(toScheduler) # "get"
        <5>1. ~Asked /\ listening /\ UNCHANGED <<fromScheduler, entries, settings>>
          BY <3>1, <3>4, <3>5, <3>6, <4>2
        <5> QED BY <3>6, <5>1, Silence DEF EntryInv
      <4> QED BY <4>1, <4>2
    <3> QED BY <3>1, <3>2, <3>5, <3>6 DEF EntryInv
  <2>5. CASE Begin
    <3>1. /\ UNCHANGED <<thread, entries, published, graph, settings, listening, fromScheduler>>
          /\ wpc = "begin" /\ wpc' \in {"drain", "begin", "publish", "done"}
          /\ toScheduler' = toScheduler \/ toScheduler' = Append(toScheduler, "stop")
      BY <2>5 DEF Begin, AfterTeardown, entryVars
    <3>2. /\ \A i \in 1..Len(toScheduler) : toScheduler'[i] = toScheduler[i]
          /\ Len(toScheduler') >= Len(toScheduler) /\ 1..Len(toScheduler) \subseteq 1..Len(toScheduler')
      BY <2>a, <3>1, Appending
    <3>3. Asked => Asked'
      BY <3>2 DEF Asked
    <3>4. Running' <=> Running
      BY <3>1 DEF Running
    <3>5. Len(toScheduler) >= 2 =>
            /\ Len(toScheduler') >= 2 /\ toScheduler'[1] = toScheduler[1]
            /\ toScheduler'[2] = toScheduler[2]
      BY <2>a, <3>1, Appending
    <3> QED BY <3>1, <3>3, <3>4, <3>5, Silence DEF EntryInv
  <2>6. CASE DrainMessages
    <3>1. /\ entries' = [x \in Signals |-> Updated(x)]
          /\ published' = IF entries' # entries THEN entries' ELSE published
          /\ fromScheduler' = <<>> /\ wpc = "drain" /\ wpc' = "round"
          /\ UNCHANGED <<thread, graph, settings, listening, toScheduler>>
      BY <2>6 DEF DrainMessages, schedulerVars
    <3>2. Running /\ Running' /\ graph \in Graphs /\ (Asked' <=> Asked)
      BY <2>a, <3>1 DEF Running, Control, Flushing, Asked
    <3>3. published' = entries' /\ entries' \in [Signals -> Nat \cup {None}]
      BY <2>a, <3>1, Draining DEF EntryInv
    <3>4. \A x \in Signals : x \in Sinks[graph] <=> entries'[x] # None
      BY <2>a, <3>1, <3>2, Draining DEF EntryInv
    <3>5. ASSUME listening, ~Asked, NEW x \in Sinks[graph] PROVE UpToDate(x)'
      <4>1. UpToDate(x) /\ x \in Signals /\ entries[x] # None
        BY <3>2, <3>5 DEF EntryInv
      <4>2. entries'[x] = settings'[x]
        BY <2>a, <3>1, <4>1, Draining DEF EntryInv
      <4>3. About(x)' = {}
        BY <3>1 DEF About
      <4> QED BY <4>2, <4>3 DEF UpToDate
    <3> QED BY <3>1, <3>2, <3>3, <3>4, <3>5 DEF EntryInv
  <2>7. CASE StartRound \/ ProcessPoller \/ (\E x \in todo : HandleSubscription(x)) \/ EndRound
    <3>1. /\ UNCHANGED <<entries, published, fromScheduler, toScheduler, listening,
                         settings, graph, thread, taken>>
          /\ wpc \in {"round", "handle", "process"}
          /\ wpc' \in {"round", "handle", "process", "teardown", "begin", "publish", "done"}
      BY <2>7 DEF StartRound, ProcessPoller, HandleSubscription, EndRound, AfterTeardown,
                  schedulerVars, entryVars, loopVars
    <3>2. Running' <=> Running
      BY <3>1 DEF Running
    <3> QED BY <1>2, <3>1, <3>2
  <2>8. CASE Teardown
    <3>1. /\ wpc' = "join" /\ entries' = NoEntries /\ published' = NoEntries
      BY <2>8 DEF Teardown
    <3>2. ~Running' /\ NoEntries \in [Signals -> Nat \cup {None}]
      BY <3>1 DEF Running, NoEntries
    <3> QED BY <3>1, <3>2 DEF EntryInv
  <2>9. CASE JoinScheduler
    <3>1. /\ wpc = "join" /\ thread' = "none" /\ wpc' \in {"begin", "publish", "done"}
          /\ UNCHANGED <<entries, published, taken>>
      BY <2>9 DEF JoinScheduler, AfterTeardown, entryVars, loopVars
    <3>2. ~Running /\ ~Running'
      BY <3>1 DEF Running
    <3> QED BY <3>1, <3>2 DEF EntryInv
  <2>10. CASE PublishEntries
    <3>1. /\ wpc = "publish" /\ wpc' = "replace" /\ published' = entries'
          /\ entries' = EntriesOf(taken, [x \in Signals |-> 0])
          /\ UNCHANGED <<thread, taken>>
      BY <2>10 DEF PublishEntries, schedulerVars, loopVars
    <3>2. ~Running'
      BY <2>a, <3>1 DEF Running, Control
    <3>3. EntriesOf(taken, [x \in Signals |-> 0]) \in [Signals -> Nat \cup {None}]
      BY DEF EntriesOf
    <3> QED BY <3>1, <3>2, <3>3 DEF EntryInv
  <2>11. CASE ReplaceScheduler
    <3>1. /\ wpc = "replace" /\ wpc' = "start" /\ graph' = taken /\ listening' = FALSE
          /\ toScheduler' = <<"subscribe", "get">>
          /\ UNCHANGED <<entries, published>>
      BY <2>11 DEF ReplaceScheduler, entryVars
    <3>2. entries = EntriesOf(taken, [x \in Signals |-> 0])
      BY <3>1 DEF EntryInv
    <3>3. \A x \in Signals : x \in Sinks[taken] <=> entries[x] # None
      BY <3>2 DEF EntriesOf
    <3>4. /\ Running' /\ ~listening' /\ Len(toScheduler') = 2
          /\ toScheduler'[1] = "subscribe" /\ toScheduler'[2] = "get"
      BY <3>1 DEF Running
    <3>5. \A x \in Signals : x \in Sinks[graph]' <=> entries'[x] # None
      BY <3>1, <3>3
    <3> QED BY <3>1, <3>4, <3>5 DEF EntryInv
  <2>12. CASE StartScheduler
    <3>1. /\ wpc = "start" /\ wpc' = "begin" /\ thread' = "running"
          /\ UNCHANGED <<entries, published, fromScheduler, toScheduler, listening,
                         settings, graph, taken>>
      BY <2>12 DEF StartScheduler, entryVars, loopVars
    <3>2. Running /\ Running'
      BY <3>1 DEF Running
    <3> QED BY <1>2, <3>1, <3>2
  <2> QED
    BY <2>1, <2>2, <2>3, <2>4, <2>5, <2>6, <2>7, <2>8, <2>9, <2>10, <2>11, <2>12
       DEF Next, Graph, Scheduler, Worker
<1>4. ASSUME EntryInv, UNCHANGED vars PROVE EntryInv'
  <2>1. Running' <=> Running
    BY <1>4 DEF vars, schedulerVars, Running
  <2> QED BY <1>2, <1>4, <2>1 DEF vars, schedulerVars, entryVars, loopVars
<1> QED BY <1>1, <1>3, <1>4

\* PublishedIsCurrent, for any graphs and any changes of settings: between two rounds
\* the callback of setUpdateSignalEntriesCallback has last been given the sinks of the
\* running graph with their settings of the moment, for no change falls between the
\* worker's subscription and its request, nor is it overtaken on the ports.
THEOREM PublishedEntriesAreCurrent == Spec => []PublishedIsCurrent
<1>1. Working /\ EntryInv => PublishedIsCurrent
  <2> SUFFICES ASSUME Working, EntryInv, wpc = "begin"
               PROVE  IF thread = "none" THEN published = NoEntries
                      ELSE (listening /\ toScheduler = <<>> /\ fromScheduler = <<>>)
                             => published = EntriesOf(graph, settings)
    BY DEF PublishedIsCurrent
  <2>1. thread = "none" => published = NoEntries
    BY DEF EntryInv, Running
  <2>2. ASSUME thread # "none", listening, toScheduler = <<>>, fromScheduler = <<>>
        PROVE  published = EntriesOf(graph, settings)
    <3>1. Running /\ ~Asked
      BY <2>2 DEF Running, Asked
    <3>2. graph \in Graphs
      BY <2>2 DEF Working, Types, Control
    <3>3. ASSUME NEW x \in Sinks[graph] PROVE entries[x] = settings[x]
      <4>1. About(x) = {}
        BY <2>2 DEF About
      <4> QED BY <2>2, <3>1, <4>1 DEF EntryInv, UpToDate
    <3>4. \A x \in Signals :
            entries[x] = IF x \in Sinks[graph] THEN settings[x] ELSE None
      BY <3>1, <3>3 DEF EntryInv
    <3>5. published = [x \in Signals |-> entries[x]]
      BY DEF EntryInv
    <3> QED BY <3>4, <3>5 DEF EntriesOf
  <2> QED BY <2>1, <2>2
<1>2. Init => EntryInv
  BY EntryInductive
<1>3. Working /\ EntryInv /\ [Next]_vars => EntryInv'
  BY EntryInductive
<1> QED BY <1>1, <1>2, <1>3, WorkingHolds, PTL DEF Spec

=============================================================================
