--------------------------- MODULE RemoteSignals ----------------------------
(***************************************************************************)
(* Adding remote signals to the dashboard that is shown.  The UI thread    *)
(* asks the scheduler for a remote source per signal, and leaves a         *)
(* callback with the RemoteSourceManager; the source tells the manager     *)
(* when its settings are applied, on the scheduler's thread; the callback  *)
(* asks for a sink, and the registration of the sink for its edge and      *)
(* chart.                                                                  *)
(*                                                                         *)
(* A signal stands for its URI and its name, and the source that is made   *)
(* for it bears its number: a source block lies at some address, and the   *)
(* parts of which it is made lie in it at fixed offsets.  The manager's    *)
(* maps are used by both threads without a lock; their accesses are steps. *)
(***************************************************************************)
EXTENDS Naturals, Sequences

CONSTANTS
  Signals,     \* what the selector offers
  Offset,      \* of the RemoteSourceCommon in a RemoteStreamSource: it comes
               \* after the members of RemoteSourceBase, so that it is not 0
  MaxSources   \* bound on the sources that are made

VARIABLES
  addingRemoteSignals, waitingForSink,  \* of the page; signals, and the signals
                                        \* with their sources
  selected,        \* the signal for which addSelectedRemoteSignal runs
  toScheduler,     \* messages
  knownSources, addingCallbacks,        \* of the manager; sources, and signals
  sinks, edges,    \* of the graph: sinks' signals, and <<source, signal>>
  charted,         \* the signals that have a chart
  sources          \* how many sources were made

signalsVars == <<addingRemoteSignals, waitingForSink, selected, toScheduler,
                 knownSources, addingCallbacks, sinks, edges, charted, sources>>

Nothing == [signal |-> "none"]

SignalsInit ==
  /\ addingRemoteSignals = {} /\ waitingForSink = {} /\ selected = Nothing
  /\ toScheduler = <<>>
  /\ knownSources = {} /\ addingCallbacks = {}
  /\ sinks = {} /\ edges = {} /\ charted = {} /\ sources = 0

-----------------------------------------------------------------------------
\* The addresses of a source block, and of the part of it that applies its
\* settings, in units of which a block has more than Offset.
Raw(source)    == source * (Offset + 1)
Common(source) == Raw(source) + Offset

\* addSelectedRemoteSignal, until Dashboard::addRemoteSignal has sent the message;
\* then it sets the callback.
AddSelectedRemoteSignal(s) ==
  /\ selected = Nothing
  /\ sources + Len(toScheduler) < MaxSources
  /\ selected' = [signal |-> s]
  /\ addingRemoteSignals' = addingRemoteSignals \cup {s}
  /\ toScheduler' = Append(toScheduler, [emplace |-> "source", signal |-> s])
  /\ UNCHANGED <<waitingForSink, knownSources, addingCallbacks, sinks, edges,
                 charted, sources>>

SetRemoteSourceAddedCallback ==
  /\ selected # Nothing
  /\ addingCallbacks' = addingCallbacks \cup {selected.signal}
  /\ selected' = Nothing
  /\ UNCHANGED <<addingRemoteSignals, waitingForSink, toScheduler, knownSources,
                 sinks, edges, charted, sources>>

-----------------------------------------------------------------------------
(* The scheduler's thread.                                                 *)

\* The callback for s, given the source.
SourceAdded(s, source) ==
  /\ waitingForSink' = waitingForSink \cup {[signal |-> s, source |-> source]}
  /\ addingRemoteSignals' = addingRemoteSignals \ {s}
  /\ toScheduler' = Append(Tail(toScheduler), [emplace |-> "sink", signal |-> s])

\* The constructor registers the source, and its first settings are applied:
\* notifyOfRemoteSource calls the callback, if there is one, for a known source
\* at the given address, and forgets the callback.
EmplaceSource(s) ==
  LET source == sources + 1
      known  == knownSources \cup {source}
  IN /\ sources' = source
     /\ knownSources' = known
     /\ IF s \in addingCallbacks /\ \E k \in known : Raw(k) = Common(source)
        THEN SourceAdded(s, source)
        ELSE /\ toScheduler' = Tail(toScheduler)
             /\ UNCHANGED <<waitingForSink, addingRemoteSignals>>
     /\ addingCallbacks' = addingCallbacks \ {s}
     /\ UNCHANGED <<sinks, edges, charted>>

\* The sink registers, which the page hears of: if a source waits for a sink with
\* the name of its signal, it gets an edge and a chart.
EmplaceSink(s) ==
  /\ sinks' = sinks \cup {s}
  /\ IF \E w \in waitingForSink : w.signal = s
     THEN \E w \in waitingForSink :
            /\ w.signal = s
            /\ waitingForSink' = waitingForSink \ {w}
            /\ toScheduler' = Append(Tail(toScheduler),
                 [emplace |-> "edge", signal |-> s, source |-> w.source])
            /\ charted' = charted \cup {s}
     ELSE /\ toScheduler' = Tail(toScheduler)
          /\ UNCHANGED <<waitingForSink, charted>>
  /\ UNCHANGED <<addingRemoteSignals, knownSources, addingCallbacks, edges, sources>>

EmplaceEdge(m) ==
  /\ edges' = edges \cup {<<m.source, m.signal>>}
  /\ toScheduler' = Tail(toScheduler)
  /\ UNCHANGED <<addingRemoteSignals, waitingForSink, knownSources,
                 addingCallbacks, sinks, charted, sources>>

HandleEmplace ==
  /\ toScheduler # <<>>
  /\ LET m == Head(toScheduler)
     IN \/ m.emplace = "source" /\ EmplaceSource(m.signal)
        \/ m.emplace = "sink" /\ EmplaceSink(m.signal)
        \/ m.emplace = "edge" /\ EmplaceEdge(m)
  /\ UNCHANGED selected

-----------------------------------------------------------------------------
SignalsNext ==
  \/ \E s \in Signals : AddSelectedRemoteSignal(s)
  \/ SetRemoteSourceAddedCallback
  \/ HandleEmplace

\* The UI thread finishes what it has begun, and the scheduler handles messages.
SignalsSpec ==
  /\ SignalsInit /\ [][SignalsNext]_signalsVars
  /\ WF_signalsVars(SetRemoteSourceAddedCallback)
  /\ WF_signalsVars(HandleEmplace)

-----------------------------------------------------------------------------
\* A signal that the user adds is shown in the end: the "'plus' button in the
\* global legend, adds a new signal to the dashboard".
AddedSignalIsShown ==
  \A s \in Signals :
    selected = [signal |-> s] ~> /\ s \in charted
                                 /\ \E e \in edges : e[2] = s
=============================================================================
