----------------------------- MODULE FramePacer -----------------------------
(***************************************************************************)
(* The UI's main loop and its pacing: worker threads that have new data    *)
(* request a frame, which wakes the loop from its sleep by an SDL event;   *)
(* frames are drawn at most once per minimum and at least once per maximum *)
(* period; functions posted to the event loop run on the main thread.      *)
(*                                                                         *)
(* Time is counted in ticks and passes while the loop sleeps or draws; a   *)
(* frame takes a tick at most.  Pending SDL events are a set: equal events *)
(* are drained together and have the same effect.                          *)
(***************************************************************************)
EXTENDS Naturals

CONSTANTS
  Workers,     \* the threads that produce data
  UI,          \* the main thread
  MinPeriod,   \* _minPeriod
  MaxPeriod    \* _maxPeriod

ASSUME PacerAssumption ==
  /\ UI \notin Workers
  /\ MinPeriod \in Nat \ {0} /\ MaxPeriod \in Nat /\ MinPeriod < MaxPeriod

VARIABLES
  dirty,      \* _dirty
  since,      \* the time since _lastRender, MaxPeriod if longer
  requesting, \* where a thread is in requestFrame
  sdlEvents,  \* the kinds of SDL events that are pending
  loopPc, sleepLeft,  \* where the main loop is, and the rest of its sleep
  hasInput,   \* hasInputEvent
  isRunning,  \* app.isRunning
  undrawn, age,      \* the workers whose data is not drawn yet, and since when
  active, activeAge  \* whether _activeCallbacks has an entry, and since when

requestVars == <<dirty, requesting, sdlEvents>>
loopVars    == <<sleepLeft, hasInput, isRunning>>
dataVars    == <<undrawn, age>>
activeVars  == <<active, activeAge>>
pacerVars   == <<requestVars, since, loopPc, loopVars, dataVars, activeVars>>

Threads == Workers \cup {UI}

PacerInit ==
  /\ dirty = TRUE
  /\ since = MaxPeriod
  /\ requesting = [t \in Threads |-> "no"]
  /\ sdlEvents = {}
  /\ loopPc = "wait" /\ sleepLeft = 0
  /\ hasInput = FALSE /\ isRunning = TRUE
  /\ undrawn = {} /\ age = 0
  /\ active = FALSE /\ activeAge = 0

-----------------------------------------------------------------------------
(* requestFrame, on any thread.                                            *)

\* Mutant: the event is pushed before the flag is set.
PushThenMark(t) ==
  \/ /\ requesting[t] = "exchange"
     /\ requesting' = [requesting EXCEPT ![t] = IF dirty THEN "no" ELSE "push"]
     /\ sdlEvents' = IF dirty THEN sdlEvents ELSE sdlEvents \cup {"frame"}
     /\ UNCHANGED dirty
  \/ /\ requesting[t] = "push"
     /\ dirty' = TRUE
     /\ requesting' = [requesting EXCEPT ![t] = "no"]
     /\ UNCHANGED sdlEvents

\* The thread that sets the flag pushes an event.
RequestFrame(t) ==
  \/ /\ requesting[t] = "exchange"
     /\ dirty' = TRUE
     /\ requesting' = [requesting EXCEPT ![t] = IF dirty THEN "no" ELSE "push"]
     /\ UNCHANGED sdlEvents
  \/ /\ requesting[t] = "push"
     /\ sdlEvents' = sdlEvents \cup {"frame"}
     /\ requesting' = [requesting EXCEPT ![t] = "no"]
     /\ UNCHANGED dirty

\* A worker has data to be drawn, and requests a frame.
DataArrives(w) ==
  /\ requesting[w] = "no"
  /\ undrawn' = undrawn \cup {w}
  /\ requesting' = [requesting EXCEPT ![w] = "exchange"]
  /\ UNCHANGED <<dirty, sdlEvents, since, loopPc, loopVars, age, activeVars>>

RequestByWorker(w) ==
  /\ RequestFrame(w)
  /\ UNCHANGED <<since, loopPc, loopVars, dataVars, activeVars>>

\* executeLater: the loop is not woken.
ExecuteLater ==
  /\ isRunning
  /\ active' = TRUE
  /\ UNCHANGED <<requestVars, since, loopPc, loopVars, dataVars, activeAge>>

\* The user moves the mouse, presses a key, or closes the window.
UserEvent(e) ==
  /\ sdlEvents' = sdlEvents \cup {e}
  /\ UNCHANGED <<dirty, requesting, since, loopPc, loopVars, dataVars,
                 activeVars>>

-----------------------------------------------------------------------------
(* The main loop.                                                          *)

\* How long the loop sleeps: getWaitTimeoutMs.
WaitTimeout ==
  LET period == IF dirty THEN MinPeriod ELSE MaxPeriod
  IN IF period > since THEN period - since ELSE 0

BeginWait ==
  /\ loopPc = "wait"
  /\ IF isRunning THEN loopPc' = "sleep" /\ sleepLeft' = WaitTimeout
                  ELSE loopPc' = "ended" /\ sleepLeft' = 0
  /\ UNCHANGED <<requestVars, since, hasInput, isRunning, dataVars, activeVars>>

\* SDL_WaitEventTimeout leaves the event in the queue.
WakeUp ==
  /\ loopPc = "sleep"
  /\ sleepLeft = 0 \/ sdlEvents # {}
  /\ loopPc' = "poll"
  /\ sleepLeft' = 0
  /\ UNCHANGED <<requestVars, since, hasInput, isRunning, dataVars, activeVars>>

\* SDL_PollEvent in processEventsWithPacer: a request to quit ends it at once,
\* without the callbacks and without a request for the input before it.
PollEvent ==
  /\ loopPc = "poll"
  /\ \/ \E e \in sdlEvents :
          /\ sdlEvents' = sdlEvents \ {e}
          /\ \/ e = "quit" /\ isRunning' = FALSE /\ hasInput' = FALSE
                /\ loopPc' = "should"
             \/ e = "input" /\ hasInput' = TRUE
                /\ UNCHANGED <<loopPc, isRunning>>
             \/ e = "frame" /\ UNCHANGED <<loopPc, isRunning, hasInput>>
     \/ /\ sdlEvents = {}
        /\ loopPc' = "callbacks"
        /\ UNCHANGED <<sdlEvents, isRunning, hasInput>>
  /\ UNCHANGED <<dirty, requesting, since, sleepLeft, dataVars, activeVars>>

\* fireCallbacks; then the input of this round requests a frame.
FireCallbacks ==
  /\ loopPc = "callbacks"
  /\ active' = FALSE /\ activeAge' = 0
  /\ requesting' = [requesting EXCEPT
                      ![UI] = IF hasInput THEN "exchange" ELSE "no"]
  /\ hasInput' = FALSE
  /\ loopPc' = "request"
  /\ UNCHANGED <<dirty, sdlEvents, since, sleepLeft, isRunning, dataVars>>

RequestOwnFrame ==
  /\ loopPc = "request"
  /\ IF requesting[UI] = "no" THEN loopPc' = "should" /\ UNCHANGED requestVars
     ELSE RequestFrame(UI) /\ UNCHANGED loopPc
  /\ UNCHANGED <<since, loopVars, dataVars, activeVars>>

ShouldRender == since >= MaxPeriod \/ (dirty /\ since >= MinPeriod)

Decide ==
  /\ loopPc = "should"
  /\ loopPc' = IF ShouldRender THEN "draw" ELSE "wait"
  /\ UNCHANGED <<requestVars, since, loopVars, dataVars, activeVars>>

\* renderFrameOnly shows the data there is when it begins.
DrawFrame ==
  /\ loopPc = "draw"
  /\ undrawn' = {} /\ age' = 0
  /\ loopPc' = "drawn"
  /\ UNCHANGED <<requestVars, since, loopVars, activeVars>>

\* rendered() clears the flag, also of a request made since the frame began.
Rendered ==
  /\ loopPc \in {"drawn", "late"}
  /\ since' = 0
  /\ dirty' = FALSE
  /\ loopPc' = "wait"
  /\ UNCHANGED <<requesting, sdlEvents, loopVars, dataVars, activeVars>>

-----------------------------------------------------------------------------
AtMost(x, limit) == IF x < limit THEN x ELSE limit

\* Time passes while the loop sleeps, and once during a frame.
PacerTick ==
  /\ \/ loopPc = "sleep" /\ sleepLeft > 0 /\ sdlEvents = {}
        /\ sleepLeft' = sleepLeft - 1 /\ UNCHANGED loopPc
     \/ loopPc = "drawn" /\ loopPc' = "late" /\ UNCHANGED sleepLeft
  /\ since' = AtMost(since + 1, MaxPeriod)
  /\ age' = IF undrawn = {} THEN 0 ELSE AtMost(age + 1, MaxPeriod + 2)
  /\ activeAge' = IF active THEN AtMost(activeAge + 1, MaxPeriod + 2) ELSE 0
  /\ UNCHANGED <<requestVars, hasInput, isRunning, undrawn, active>>

\* The loop has ended; other threads may still produce data.
LoopEnded == loopPc = "ended" /\ UNCHANGED pacerVars

PacerNext ==
  \/ \E w \in Workers : DataArrives(w) \/ RequestByWorker(w)
  \/ ExecuteLater
  \/ \E e \in {"input", "quit"} : UserEvent(e)
  \/ BeginWait \/ WakeUp \/ PollEvent \/ FireCallbacks \/ RequestOwnFrame
  \/ Decide \/ DrawFrame \/ Rendered
  \/ PacerTick
  \/ LoopEnded

PacerSpec == PacerInit /\ [][PacerNext]_pacerVars

-----------------------------------------------------------------------------
(* Properties.                                                             *)

PacerTypeOK ==
  /\ dirty \in BOOLEAN /\ hasInput \in BOOLEAN /\ isRunning \in BOOLEAN
  /\ since \in 0..MaxPeriod /\ sleepLeft \in 0..MaxPeriod
  /\ requesting \in [Threads -> {"no", "exchange", "push"}]
  /\ sdlEvents \subseteq {"frame", "input", "quit"}
  /\ loopPc \in {"wait", "sleep", "poll", "callbacks", "request", "should",
                 "draw", "drawn", "late", "ended"}
  /\ undrawn \subseteq Workers
  /\ active \in BOOLEAN

\* No request is slept through: when the loop sleeps beyond the minimum period
\* although a frame is requested, the event that wakes it is pending, or the
\* thread that set the flag is about to push it.
RequestWakesLoop ==
  loopPc = "sleep" /\ dirty /\ sleepLeft > 0 /\ since + sleepLeft > MinPeriod =>
    sdlEvents # {} \/ \E w \in Workers : requesting[w] = "push"

\* Data waits for a frame, and a posted function for its call, no longer than
\* the maximum period and a frame: also when rendered() drops the request that
\* announced it, and although executeLater wakes nobody.  The last frame, after
\* a request to quit, is drawn without calling the functions.
WaitsOnePeriodAtMost ==
  /\ age <= MaxPeriod + 1
  /\ isRunning => activeAge <= MaxPeriod + 1

\* What is requested is drawn, and what is posted is called, in time.
PacerIsOnTime == RequestWakesLoop /\ WaitsOnePeriodAtMost
=============================================================================
