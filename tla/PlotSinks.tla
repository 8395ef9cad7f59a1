----------------------------- MODULE PlotSinks -----------------------------
(***************************************************************************)
(* The plot sinks of the UI: sink blocks that the graph's thread creates,  *)
(* feeds, configures and destroys, the registry and the adapters through   *)
(* which the UI finds and reads them, and the charts the UI thread draws.  *)
(*                                                                         *)
(* A sink block and its adapter are one element of Sinks.  The adapter     *)
(* outlives the block; it refers to it until the block's destructor has    *)
(* invalidated it.  A call of the adapter loads the pointer and then uses  *)
(* it, which are two steps here, as the block's mutex is not held by the   *)
(* destructor.  What the block does under its own mutex is one step.       *)
(*                                                                         *)
(* A frame is a sequence of scripts (todo), each of them some calls:       *)
(* requests of capacity, guards taken and given back, reads, and the       *)
(* interaction with the mouse, in which a signal can be dropped on the     *)
(* chart.  ub ends a behaviour: a destroyed block was used, or the UI      *)
(* thread locked a mutex that it holds.                                    *)
(***************************************************************************)
EXTENDS Naturals, FiniteSetsExt, SequencesExt, Selections

CONSTANTS
  Sinks,        \* the sink blocks, each constructed at most once
  Name,         \* per sink, its block's name
  SignalName,   \* per sink, its signal's name
  Address,      \* per sink, the address of its adapter
  Charts,       \* the charts, each created at most once
  Kind,         \* per chart, "XYChart" or "YYChart"
  FirstChart,   \* the chart that is there from the start
  Default,      \* the default of required_size
  DefaultHistory, \* the default of n_history
  Sizes,        \* values of required_size and n_history
  MaxEvents     \* bound on the changes of settings and of charts

ASSUME SinkAssumption ==
  /\ Address \in [Sinks -> Nat]
  /\ Kind \in [Charts -> {"XYChart", "YYChart"}]
  /\ IsFiniteSet(Charts) /\ FirstChart \in Charts
  /\ Default \in Nat /\ DefaultHistory \in Nat /\ Sizes \subseteq Nat
  /\ MaxEvents \in Nat

VARIABLES
  phase,        \* per sink, where its block is in its life
  required,     \* required_size
  capacity,     \* the capacity of _xValues and _yValues
  size,         \* the number of samples in them
  requests,     \* _capacityRequests: per chart the capacity, 0 for none
  registry,     \* the registered sinks
  window,       \* per chart, "new", "open" or "closed"
  dataSinks,    \* data_sinks: the names of the signals of a chart
  signalSinks,  \* _signalSinks: the adapters a chart holds
  history,      \* n_history
  drawing,      \* the chart the UI thread is working for
  todo,         \* the calls of the UI thread still to come, in scripts
  loaded,       \* the block pointer loaded by the current call
  counted,      \* per sink, the samples the UI has counted under the guard
  uiLocks,      \* the data mutexes the UI thread holds
  ub,           \* undefined behaviour: "none", "dangling" or "relock"
  events        \* changes so far

sinkVars  == <<phase, required, capacity, size, requests, registry>>
chartVars == <<window, dataSinks, signalSinks, history>>
frameVars == <<drawing, todo, loaded, counted, uiLocks>>
vars == <<sinkVars, chartVars, frameVars, ub, events>>

-----------------------------------------------------------------------------
Phases ==
  {"unborn", "running", "applying", "invalidated", "unregistered", "destroyed"}

\* The adapter's pointer to its block.
BlockPtr(s) == phase[s] \in {"running", "applying"}

\* The sink has this name; an invalidated adapter knows its block's name only.
Answers(s, n) == n = Name[s] \/ (BlockPtr(s) /\ n = SignalName[s])

Names == {Name[s] : s \in Sinks} \union {SignalName[s] : s \in Sinks}

Min2(x, y) == IF x < y THEN x ELSE y

Call(what, s) == [call |-> what, sink |-> s]

Init ==
  /\ phase = [s \in Sinks |-> "unborn"]
  /\ required = [s \in Sinks |-> Default]
  /\ capacity = [s \in Sinks |-> Default]
  /\ size = [s \in Sinks |-> 0]
  /\ requests = [s \in Sinks |-> [c \in Charts |-> 0]]
  /\ registry = {}
  /\ window = [c \in Charts |-> IF c = FirstChart THEN "open" ELSE "new"]
  /\ dataSinks = [c \in Charts |-> <<>>]
  /\ signalSinks = [c \in Charts |-> <<>>]
  /\ history = [c \in Charts |-> DefaultHistory]
  /\ drawing = FirstChart /\ todo = <<>> /\ loaded = "no"
  /\ counted = [s \in Sinks |-> 0] /\ uiLocks = {}
  /\ ub = "none" /\ events = 0

CountEvent == events < MaxEvents /\ events' = events + 1

-----------------------------------------------------------------------------
(* The block, on the thread of its graph.                                  *)

\* The buffers of s get the capacity n, and keep the samples that fit.
Resize(s, n) ==
  /\ capacity' = [capacity EXCEPT ![s] = n]
  /\ size' = [size EXCEPT ![s] = Min2(@, n)]

\* The block is created and its initial settings are applied.  Nobody sees it
\* before settingsChanged has registered its adapter.
Construct(s, n) ==
  /\ ub = "none" /\ phase[s] = "unborn"
  /\ phase' = [phase EXCEPT ![s] = "running"]
  /\ required' = [required EXCEPT ![s] = n]
  /\ Resize(s, n)
  /\ registry' = registry \union {s}
  /\ UNCHANGED <<requests, chartVars, frameVars, ub, events>>

\* A setting is assigned before settingsChanged is called, and without the lock.
ApplySettings(s, n) ==
  /\ ub = "none" /\ phase[s] = "running"
  /\ CountEvent
  /\ phase' = [phase EXCEPT ![s] = "applying"]
  /\ required' = [required EXCEPT ![s] = n]
  /\ UNCHANGED <<capacity, size, requests, registry, chartVars, frameVars, ub>>

\* A mutant: the buffers are resized without the lock.
SettingsChangedUnlocked(s) ==
  /\ ub = "none" /\ phase[s] = "applying"
  /\ phase' = [phase EXCEPT ![s] = "running"]
  /\ Resize(s, required[s])
  /\ UNCHANGED <<required, requests, registry, chartVars, frameVars, ub, events>>

\* settingsChanged: the buffers are resized under the data mutex.
SettingsChanged(s) ==
  /\ ub = "none" /\ phase[s] = "applying"
  /\ s \notin uiLocks
  /\ phase' = [phase EXCEPT ![s] = "running"]
  /\ Resize(s, required[s])
  /\ UNCHANGED <<required, requests, registry, chartVars, frameVars, ub, events>>

ProcessBulk(s) ==
  /\ ub = "none" /\ phase[s] = "running"
  /\ s \notin uiLocks
  /\ size' = [size EXCEPT ![s] = Min2(capacity[s], @ + 1)]
  /\ UNCHANGED <<phase, required, capacity, requests, registry, chartVars,
                 frameVars, ub, events>>

\* The destructor: the adapter is invalidated, then unregistered, and only
\* then the members go.
Invalidate(s) ==
  /\ ub = "none" /\ phase[s] = "running"
  /\ phase' = [phase EXCEPT ![s] = "invalidated"]
  /\ UNCHANGED <<required, capacity, size, requests, registry, chartVars,
                 frameVars, ub, events>>

\* A mutant: the block is looked up by a name that is not its unique name.
UnregisterOther(s) ==
  /\ ub = "none" /\ phase[s] = "invalidated"
  /\ phase' = [phase EXCEPT ![s] = "unregistered"]
  /\ UNCHANGED <<required, capacity, size, requests, registry, chartVars,
                 frameVars, ub, events>>

Unregister(s) ==
  /\ ub = "none" /\ phase[s] = "invalidated"
  /\ phase' = [phase EXCEPT ![s] = "unregistered"]
  /\ registry' = registry \ {s}
  /\ UNCHANGED <<required, capacity, size, requests, chartVars, frameVars,
                 ub, events>>

Destroy(s) ==
  /\ ub = "none" /\ phase[s] = "unregistered"
  /\ phase' = [phase EXCEPT ![s] = "destroyed"]
  /\ UNCHANGED <<required, capacity, size, requests, registry, chartVars,
                 frameVars, ub, events>>

-----------------------------------------------------------------------------
(* The sinks of a chart, on the UI thread.                                 *)

\* findSink: any registered sink of this name.
Found(n) == {s \in registry : Answers(s, n)}

\* The places of the sinks whose names a chart has.
Wanted(held, names) == {i \in DOMAIN held : \E n \in ToSet(names) : Answers(held[i], n)}

\* A mutant: findSink's result is added without a test for null.
SyncSinksWithNull(held, names) ==
  LET kept     == Selected(held, Wanted(held, names))
      sought   == Selected(names, {i \in DOMAIN names :
                                     \A s \in ToSet(kept) : ~Answers(s, names[i])})
      found(n) == IF Found(n) = {} THEN {"null"} ELSE Found(n)
  IN {kept \o added : added \in {a \in [DOMAIN sought -> registry \union {"null"}] :
                                    \A i \in DOMAIN a : a[i] \in found(sought[i])}}

\* syncSinksFromNames: what a chart that holds the given sinks may hold
\* afterwards.  Names that no kept sink answers to are looked up one by one.
SyncSinksFromNames(held, names) ==
  LET kept       == Selected(held, Wanted(held, names))
      missing(n) == /\ \A s \in ToSet(kept) : ~Answers(s, n)
                    /\ Found(n) # {}
      sought     == Selected(names, {i \in DOMAIN names : missing(names[i])})
  IN {kept \o added : added \in {a \in [DOMAIN sought -> registry] :
                                    \A i \in DOMAIN a : a[i] \in Found(sought[i])}}

\* A mutant: only the numbers are compared.
SyncSinksIfCounted(held, names) ==
  IF Len(held) = Len(names) THEN {held} ELSE SyncSinksFromNames(held, names)

\* syncSinksIfNeeded.
SyncSinksIfNeeded(held, names) ==
  IF /\ Len(held) = Len(names)
     /\ \A i \in DOMAIN held : Answers(held[i], names[i])
  THEN {held}
  ELSE SyncSinksFromNames(held, names)

\* updateAllSinksCapacity, and the loop in onDataSinksChanged.
RequestsFor(held) == [i \in DOMAIN held |-> Call("request", held[i])]

Interact == <<[call |-> "interact"]>>
Draw1 == <<[call |-> "draw"]>>

\* Some calls, then scripts.
Script(calls, scripts) == IF calls = <<>> THEN scripts ELSE <<calls>> \o scripts

Guarded(s) == <<Call("lock", s), Call("size", s), Call("read", s), Call("unlock", s)>>

\* Two signals are guarded together, in the order of their addresses.
Paired(x, y, atEnd) ==
  LET first  == IF Address[x] < Address[y] THEN x ELSE y
      second == IF Address[x] < Address[y] THEN y ELSE x
  IN <<Call("lock", first), Call("lock", second), Call("size", x),
       Call("size", y), Call("read", x), Call("read", y)>>
     \o atEnd \o <<Call("unlock", second), Call("unlock", first)>>

\* draw(): an XYChart guards one sink after the other.  A YYChart with one or two
\* keeps its guards to the end of the frame; with more, it pairs the first with
\* each of the others, and a sink that is there twice is guarded once.
DrawScript(kind, held) ==
  LET x == held[1]
      pair(i) == IF held[i + 1] = x THEN Guarded(x) ELSE Paired(x, held[i + 1], <<>>)
  IN CASE held = <<>> -> <<Interact>>
       [] held # <<>> /\ kind = "XYChart" ->
            [i \in DOMAIN held |-> Guarded(held[i])] \o <<Interact>>
       [] Len(held) = 1 /\ kind = "YYChart" ->
            <<<<Call("lock", x), Call("size", x), Call("read", x)>> \o Interact
                \o <<Call("unlock", x)>>>>
       [] Len(held) = 2 /\ kind = "YYChart" -> <<Paired(x, held[2], Interact)>>
       [] Len(held) > 2 /\ kind = "YYChart" ->
            <<<<Call("lock", x), Call("probe", x), Call("unlock", x)>>, Guarded(x)>>
              \o [i \in 1..(Len(held) - 1) |-> pair(i)] \o <<Interact>>

Idle == ub = "none" /\ todo = <<>>

\* A frame of c begins, or goes on after a signal has been removed.
FrameOf(c) ==
  /\ ub = "none" /\ window[c] = "open"
  /\ todo = <<>> \/ (todo = <<Draw1>> /\ drawing = c)

\* A mutant: the capacity is not asked for again.
DrawWithoutRefresh(c, refresh) ==
  /\ FrameOf(c)
  /\ \E held \in SyncSinksIfNeeded(signalSinks[c], dataSinks[c]) :
       /\ signalSinks' = [signalSinks EXCEPT ![c] = held]
       /\ todo' = DrawScript(Kind[c], held)
  /\ drawing' = c
  /\ UNCHANGED <<sinkVars, window, dataSinks, history, loaded, counted, uiLocks,
                 ub, events>>

\* draw() of one chart; the periodic refresh is due or it is not.
Draw(c, refresh) ==
  /\ FrameOf(c)
  /\ \E held \in SyncSinksIfNeeded(signalSinks[c], dataSinks[c]) :
       /\ signalSinks' = [signalSinks EXCEPT ![c] = held]
       /\ todo' = Script(IF refresh THEN RequestsFor(held) ELSE <<>>,
                         DrawScript(Kind[c], held))
  /\ drawing' = c
  /\ UNCHANGED <<sinkVars, window, dataSinks, history, loaded, counted, uiLocks,
                 ub, events>>

\* onDataSinksChanged: the chart d has the given names now, and had held.
OnDataSinksChanged(d, names, held) ==
  /\ dataSinks' = [dataSinks EXCEPT ![d] = names]
  /\ \E synced \in SyncSinksFromNames(held, names) :
       /\ signalSinks' = [signalSinks EXCEPT ![d] = synced]
       /\ todo' = Script(RequestsFor(synced), <<>>)
  /\ drawing' = d

\* The dashboard adds the name of a signal to a chart.
AddName(c, n) ==
  /\ Idle /\ window[c] = "open" /\ CountEvent
  /\ n \notin ToSet(dataSinks[c])
  /\ OnDataSinksChanged(c, Append(dataSinks[c], n), signalSinks[c])
  /\ UNCHANGED <<sinkVars, window, history, loaded, counted, uiLocks, ub>>

\* transmuteUIWindow: a new chart of another type takes over the names.
Transmute(c, d) ==
  /\ Idle /\ window[c] = "open" /\ window[d] = "new" /\ Kind[d] # Kind[c]
  /\ CountEvent
  /\ window' = [window EXCEPT ![c] = "closed", ![d] = "open"]
  /\ OnDataSinksChanged(d, dataSinks[c], <<>>)
  /\ UNCHANGED <<sinkVars, history, loaded, counted, uiLocks, ub>>

\* A signal that was dragged from the chart c is removed when c is drawn next.
RemoveSink(c, n) ==
  LET held == signalSinks[c]
      answering == Selected(held, {i \in DOMAIN held : Answers(held[i], n)})
      gone == {n} \union (IF answering = <<>> THEN {} ELSE {Name[answering[1]]})
      names == Selected(dataSinks[c], {i \in DOMAIN dataSinks[c] : dataSinks[c][i] \notin gone})
  IN /\ Idle /\ window[c] = "open" /\ CountEvent
     /\ dataSinks' = [dataSinks EXCEPT ![c] = names]
     /\ \E synced \in SyncSinksFromNames(held, names) :
          /\ todo' = Script(RequestsFor(synced), <<Draw1>>)
          /\ signalSinks' = [signalSinks EXCEPT ![c] =
                               Selected(synced, {i \in DOMAIN synced : ~Answers(synced[i], n)})]
     /\ drawing' = c
     /\ UNCHANGED <<sinkVars, window, history, loaded, counted, uiLocks, ub>>

\* The user changes n_history of a chart.
SetHistory(c, n) ==
  /\ Idle /\ window[c] = "open" /\ CountEvent
  /\ n # history[c]
  /\ history' = [history EXCEPT ![c] = n]
  /\ todo' = Script(RequestsFor(signalSinks[c]), <<>>)
  /\ drawing' = c
  /\ UNCHANGED <<sinkVars, window, dataSinks, signalSinks, loaded, counted,
                 uiLocks, ub>>

-----------------------------------------------------------------------------
(* The calls of the UI thread.                                             *)

Next1 == todo[1][1]
Pending(what) == ub = "none" /\ todo # <<>> /\ Next1.call = what
Done == todo' = Script(Tail(todo[1]), Tail(todo))

\* dataGuard(): waits for the block, which never keeps its mutex for a step;
\* a mutex is not to be locked twice by one thread.
Lock ==
  /\ Pending("lock")
  /\ IF Next1.sink \in uiLocks
     THEN ub' = "relock" /\ UNCHANGED <<uiLocks, todo>>
     ELSE uiLocks' = uiLocks \union {Next1.sink} /\ Done /\ UNCHANGED ub
  /\ UNCHANGED <<sinkVars, chartVars, drawing, loaded, counted, events>>

Unlock ==
  /\ Pending("unlock")
  /\ uiLocks' = uiLocks \ {Next1.sink}
  /\ counted' = [counted EXCEPT ![Next1.sink] = 0]
  /\ Done
  /\ UNCHANGED <<sinkVars, chartVars, drawing, loaded, ub, events>>

\* handleCommonInteractions: a registered signal is dropped on the chart, or not.
Ignore ==
  /\ Pending("interact")
  /\ Done
  /\ UNCHANGED <<sinkVars, chartVars, drawing, loaded, counted, uiLocks, ub, events>>

\* onSinkAddedFromDnd: the block's name is added and the sinks are synchronised,
\* then the sink itself is added if it is not there.
Drop(s) ==
  LET c     == drawing
      isNew == Name[s] \notin ToSet(dataSinks[c])
      names == IF isNew THEN Append(dataSinks[c], Name[s]) ELSE dataSinks[c]
  IN /\ Pending("interact") /\ s \in registry /\ CountEvent
     /\ dataSinks' = [dataSinks EXCEPT ![c] = names]
     /\ \E synced \in IF isNew THEN SyncSinksFromNames(signalSinks[c], names)
                                 ELSE {signalSinks[c]} :
          LET added == IF s \in ToSet(synced) THEN <<>> ELSE <<s>>
          IN /\ signalSinks' = [signalSinks EXCEPT ![c] = synced \o added]
             /\ todo' = Script((IF isNew THEN RequestsFor(synced) ELSE <<>>)
                                 \o RequestsFor(added) \o Tail(todo[1]), Tail(todo))
     /\ UNCHANGED <<sinkVars, window, history, drawing, loaded, counted,
                    uiLocks, ub>>

\* Every call of the adapter begins with blockPtr().
AdapterCall == \E what \in {"request", "size", "read", "probe"} : Pending(what)

LoadBlock ==
  /\ AdapterCall /\ loaded = "no"
  /\ loaded' = IF BlockPtr(Next1.sink) THEN "block" ELSE "null"
  /\ UNCHANGED <<sinkVars, chartVars, drawing, todo, counted, uiLocks, ub, events>>

\* Without a block, a request has no effect and there is nothing to read.
NoBlock ==
  /\ AdapterCall /\ ~Pending("probe") /\ loaded = "null"
  /\ loaded' = "no" /\ Done
  /\ UNCHANGED <<sinkVars, chartVars, drawing, counted, uiLocks, ub, events>>

\* A reader returns early when a chart's signals have no data in common.
NothingToRead == Pending("read") /\ \E s \in uiLocks : counted[s] = 0

Dangle ==
  /\ AdapterCall /\ loaded = "block" /\ ~NothingToRead
  /\ phase[Next1.sink] = "destroyed"
  /\ ub' = "dangling"
  /\ UNCHANGED <<sinkVars, chartVars, frameVars, events>>

\* The call can be executed: the block is there, if only just.
Usable == loaded = "block" /\ phase[Next1.sink] # "destroyed"

\* The size a block gets from requests r.
Demanded(r) == Max({Default} \union {r[c] : c \in Charts})

\* A mutant: the size is raised without the buffers, as on expiry.
RequestCapacityOnly ==
  LET s == Next1.sink
      r == [requests[s] EXCEPT ![drawing] = history[drawing]]
  IN /\ Pending("request") /\ Usable
     /\ IF s \in uiLocks
        THEN ub' = "relock" /\ UNCHANGED <<requests, required, todo, loaded>>
        ELSE /\ requests' = [requests EXCEPT ![s] = r]
             /\ required' = [required EXCEPT ![s] = Demanded(r)]
             /\ loaded' = "no" /\ Done
             /\ UNCHANGED ub
     /\ UNCHANGED <<phase, capacity, size, registry, chartVars, drawing, counted,
                    uiLocks, events>>

RequestCapacity ==
  LET s == Next1.sink
      r == [requests[s] EXCEPT ![drawing] = history[drawing]]
  IN /\ Pending("request") /\ Usable
     /\ IF s \in uiLocks
        THEN ub' = "relock" /\ UNCHANGED <<sinkVars, todo, loaded>>
        ELSE /\ requests' = [requests EXCEPT ![s] = r]
             /\ IF Demanded(r) # required[s]
                THEN /\ required' = [required EXCEPT ![s] = Demanded(r)]
                     /\ Resize(s, Demanded(r))
                ELSE UNCHANGED <<required, capacity, size>>
             /\ loaded' = "no" /\ Done
             /\ UNCHANGED <<phase, registry, ub>>
     /\ UNCHANGED <<chartVars, drawing, counted, uiLocks, events>>

CountSamples ==
  /\ Pending("size") /\ Usable
  /\ counted' = [counted EXCEPT ![Next1.sink] = size[Next1.sink]]
  /\ loaded' = "no" /\ Done
  /\ UNCHANGED <<sinkVars, chartVars, drawing, uiLocks, ub, events>>

\* drawMultiCorrelation ends here, under the guard, if its first signal is empty.
Probe ==
  /\ Pending("probe")
  /\ loaded = "null" \/ Usable
  /\ IF loaded = "null" \/ size[Next1.sink] = 0
     THEN todo' = <<Interact \o <<Call("unlock", Next1.sink)>>>>
     ELSE Done
  /\ loaded' = "no"
  /\ UNCHANGED <<sinkVars, chartVars, drawing, counted, uiLocks, ub, events>>

ReadSamples ==
  /\ Pending("read") /\ loaded = "block"
  /\ NothingToRead \/ Usable
  /\ loaded' = "no" /\ Done
  /\ UNCHANGED <<sinkVars, chartVars, drawing, counted, uiLocks, ub, events>>

-----------------------------------------------------------------------------
BlockStep(s) ==
  SettingsChanged(s) \/ Unregister(s) \/ Destroy(s)

UICall ==
  \/ Lock \/ Unlock \/ Ignore \/ LoadBlock \/ NoBlock \/ Dangle
  \/ RequestCapacity \/ CountSamples \/ Probe \/ ReadSamples

GraphStep(s) ==
  \/ \E n \in Sizes : Construct(s, n) \/ ApplySettings(s, n)
  \/ ProcessBulk(s) \/ Invalidate(s) \/ BlockStep(s)

ChartStep(c) ==
  \/ \E refresh \in BOOLEAN : Draw(c, refresh)
  \/ \E n \in Names : AddName(c, n) \/ RemoveSink(c, n)
  \/ \E d \in Charts : Transmute(c, d)
  \/ \E n \in Sizes : SetHistory(c, n)

Next ==
  \/ \E s \in Sinks : GraphStep(s) \/ Drop(s)
  \/ \E c \in Charts : ChartStep(c)
  \/ UICall

Spec == Init /\ [][Next]_vars

\* The thread of a graph goes on, the UI thread goes through its frames, and a
\* chart's refresh is due again and again.
Fairness ==
  /\ \A s \in Sinks : WF_vars(BlockStep(s))
  /\ WF_vars(UICall)
  /\ \A c \in Charts : SF_vars(Draw(c, TRUE))

FairSpec == Spec /\ Fairness

-----------------------------------------------------------------------------
(* Properties.                                                             *)

TypeOK ==
  /\ phase \in [Sinks -> Phases]
  /\ required \in [Sinks -> Nat] /\ capacity \in [Sinks -> Nat]
  /\ size \in [Sinks -> Nat]
  /\ requests \in [Sinks -> [Charts -> Nat]]
  /\ registry \subseteq Sinks
  /\ window \in [Charts -> {"new", "open", "closed"}]
  /\ history \in [Charts -> Nat]
  /\ drawing \in Charts /\ loaded \in {"no", "null", "block"}
  /\ counted \in [Sinks -> Nat] /\ uiLocks \subseteq Sinks
  /\ ub \in {"none", "dangling", "relock"} /\ events \in 0..MaxEvents
  /\ \A c \in Charts : ToSet(signalSinks[c]) \subseteq Sinks

\* What the UI has counted under a sink's guard can be read under it: no block
\* resizes its buffers while a chart draws them (ImPlotSink.hpp:158-165, 350-366).
ReadsStayInside == \A s \in uiLocks : counted[s] <= size[s]

\* A lookup in the registry, which calls the sinks it finds, never finds one
\* whose destructor has finished (ImPlotSink.hpp:141-146).
RegisteredIsAlive == \A s \in registry : phase[s] # "destroyed"

\* Once its settings have been applied, the buffers of a sink have the capacity
\* that bufferCapacity() reports, whatever requests came in between.
SettledBuffersFit ==
  \A s \in Sinks : phase[s] = "running" => capacity[s] = required[s]

\* In the end every open chart has the capacity it asks for at every sink it
\* holds: a setting that made it smaller is overruled by the next refresh.
RequestIsServed ==
  <>[](ub = "none" =>
         \A c \in Charts : window[c] = "open" =>
           \A s \in ToSet(signalSinks[c]) :
             phase[s] = "running" => capacity[s] >= history[c])

\* In the end an open chart holds, for each of its names, a sink that answers to
\* it, if there is one; it may be the adapter of a block of the same name that
\* is gone, which syncSinksIfNeeded cannot tell (Chart.hpp:1198-1209).
NamedSinkIsHeld ==
  <>[](ub = "none" =>
         \A c \in Charts : window[c] = "open" =>
           \A n \in ToSet(dataSinks[c]) :
             (\E s \in registry : phase[s] = "running" /\ Answers(s, n))
               => \E s \in ToSet(signalSinks[c]) : Answers(s, n))

\* The guards are taken so as "to prevent ABBA deadlock" (YYChart.hpp:191): the
\* UI thread never waits for a mutex that will not be unlocked.
NeverRelocks == ub # "relock"

=============================================================================
