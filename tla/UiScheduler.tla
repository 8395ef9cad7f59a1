---------------------------- MODULE UiScheduler ----------------------------
(***************************************************************************)
(* A scheduler of the UI, from its construction to its destruction: the    *)
(* thread in which it runs its graph, the task of the IO pool that requests *)
(* a frame whenever the graph has made progress, the messages by which the *)
(* UI thread stops, pauses and resumes it and replaces its graph, and the  *)
(* restart after such a replacement.                                       *)
(*                                                                         *)
(* The scheduler itself belongs to a library: changeStateTo(RUNNING) runs  *)
(* its main loop and returns when the state is no longer active; messages  *)
(* are handled in that loop; a new graph stops it and reports the state it *)
(* was in.  The transient states between RUNNING and PAUSED are left out,  *)
(* and so is the exchange of the graph by setGraph.                        *)
(*                                                                         *)
(* A task that uses the scheduler after its destruction ends a behaviour   *)
(* (misused), and so does an exception that leaves a thread (terminated).  *)
(***************************************************************************)
EXTENDS Naturals, Sequences, FiniteSets

CONSTANTS
  Tasks,        \* the tasks given to the pool, one per start of the thread
  MaxRequests,  \* bound on the messages to the scheduler
  MaxProgress   \* bound on the graph's progress

ASSUME UiSchedulerAssumption ==
  MaxRequests \in Nat /\ MaxProgress \in Nat \ {0}

VARIABLES
  state,            \* _scheduler.state()
  thread, toState,  \* where _thread is, and the state it was started for
  task, oldProgress,  \* per task, where it is and its local variable
  uiUpdateRunning, uiUpdateShutdown,
  progress,         \* the graph's progress
  drawnFor,         \* the latest progress a frame was requested for, or the
                    \* one the task began with
  toScheduler, fromScheduler, requests,  \* messages, and how many were sent
  uiPc,             \* where the UI thread is
  misused, terminated

taskVars     == <<task, oldProgress, uiUpdateRunning, drawnFor, misused>>
threadVars   == <<thread, toState, terminated>>
messageVars  == <<toScheduler, fromScheduler, requests>>
schedulerVars == <<taskVars, threadVars, messageVars, state, uiUpdateShutdown,
                   progress, uiPc>>

Active == {"RUNNING", "PAUSED"}   \* lifecycle::isActive

\* The steps of a task between its test of the flag and its end.
Looping == {"test", "update", "wait", "end"}

SchedulerInit ==
  /\ state = "IDLE"
  /\ thread = "none" /\ toState = "RUNNING"
  /\ task = [t \in Tasks |-> "unused"] /\ oldProgress = [t \in Tasks |-> 0]
  /\ uiUpdateRunning = FALSE /\ uiUpdateShutdown = FALSE
  /\ progress = 0 /\ drawnFor = 0
  /\ toScheduler = <<>> /\ fromScheduler = <<>> /\ requests = 0
  /\ uiPc = "start"
  /\ misused = FALSE /\ terminated = FALSE

Alive == uiPc # "destroyed" /\ ~misused /\ ~terminated

-----------------------------------------------------------------------------
(* The UI thread: startThread, in the constructor and after a reply.       *)

\* What startThread does until it joins the old thread.
QueueTask ==
  /\ uiPc = "start"
  /\ \E t \in Tasks :
       task[t] = "unused" /\ task' = [task EXCEPT ![t] = "queued"]
  /\ uiPc' = "joinOld"
  /\ UNCHANGED <<oldProgress, uiUpdateRunning, drawnFor, misused, threadVars,
                 messageVars, state, uiUpdateShutdown, progress>>

\* The thread is started for RUNNING or PAUSED; other states are ignored.
SpawnThread ==
  /\ uiPc = "joinOld"
  /\ thread \in {"none", "ended"}
  /\ thread' = IF toState \in Active THEN "initialise" ELSE "none"
  /\ uiPc' = "idle"
  /\ UNCHANGED <<taskVars, toState, terminated, messageVars, state,
                 uiUpdateShutdown, progress>>

\* handleMessages: the reply to a new graph restarts the thread, unless the
\* scheduler has that state or is not stopped.
HandleReply ==
  /\ uiPc = "idle" /\ fromScheduler # <<>>
  /\ fromScheduler' = Tail(fromScheduler)
  /\ IF state # Head(fromScheduler) /\ state \in {"STOPPED", "IDLE"}
     THEN toState' = Head(fromScheduler) /\ uiPc' = "start"
     ELSE UNCHANGED <<toState, uiPc>>
  /\ UNCHANGED <<taskVars, thread, terminated, toScheduler, requests, state,
                 uiUpdateShutdown, progress>>

\* The restarts still to come, one for each new graph.
Restarts ==
  LET isGraph(m) == m = "GRC"
  IN Len(SelectSeq(toScheduler, isGraph)) + Len(fromScheduler)

\* start, stop, pause and resume, and a new graph from the flow graph page; the
\* number of tasks bounds that of the new graphs.
SendRequest(m) ==
  /\ uiPc = "idle" /\ requests < MaxRequests
  /\ m = "GRC" => Cardinality({t \in Tasks : task[t] = "unused"}) > Restarts
  /\ requests' = requests + 1
  /\ toScheduler' = Append(toScheduler, m)
  /\ UNCHANGED <<taskVars, threadVars, fromScheduler, state, uiUpdateShutdown,
                 progress, uiPc>>

-----------------------------------------------------------------------------
(* The UI thread: the destructor.                                          *)

\* App::closeDashboard sends a request to stop before it destroys the
\* dashboard and its scheduler; App::loadDashboard waits for STOPPED first.
CloseScheduler ==
  /\ uiPc = "idle"
  /\ uiPc' = "shutdown"
  /\ toScheduler' = IF state = "STOPPED" THEN toScheduler
                    ELSE Append(toScheduler, "REQUESTED_STOP")
  /\ UNCHANGED <<taskVars, threadVars, fromScheduler, requests, state,
                 uiUpdateShutdown, progress>>

AnnounceShutdown ==
  /\ uiPc = "shutdown"
  /\ uiUpdateShutdown' = TRUE
  /\ uiPc' = "stop"
  /\ UNCHANGED <<taskVars, threadVars, messageVars, state, progress>>

StopIfActive ==
  /\ uiPc = "stop"
  /\ state' = IF state \in Active THEN "REQUESTED_STOP" ELSE state
  /\ uiPc' = "wake"
  /\ UNCHANGED <<taskVars, threadVars, messageVars, uiUpdateShutdown, progress>>

\* Mutant of WakeWaiting: the progress is left as it is.
WakeNobody ==
  /\ uiPc = "wake"
  /\ uiPc' = "join"
  /\ UNCHANGED <<taskVars, threadVars, messageVars, state, uiUpdateShutdown,
                 progress>>

WakeWaiting ==
  /\ uiPc = "wake"
  /\ progress' = progress + 1
  /\ uiPc' = "join"
  /\ UNCHANGED <<taskVars, threadVars, messageVars, state, uiUpdateShutdown>>

JoinThread ==
  /\ uiPc = "join"
  /\ thread \in {"none", "ended"}
  /\ uiPc' = "await"
  /\ UNCHANGED <<taskVars, threadVars, messageVars, state, uiUpdateShutdown,
                 progress>>

\* _uiUpdateRunning.wait(true); then the members are destroyed.
AwaitTask ==
  /\ uiPc = "await"
  /\ ~uiUpdateRunning
  /\ uiPc' = "destroyed"
  /\ UNCHANGED <<taskVars, threadVars, messageVars, state, uiUpdateShutdown,
                 progress>>

UiThread ==
  \/ QueueTask \/ SpawnThread \/ HandleReply
  \/ AnnounceShutdown \/ StopIfActive \/ WakeWaiting \/ JoinThread \/ AwaitTask

-----------------------------------------------------------------------------
(* The task of the IO pool.  Nothing it touches may be destroyed.          *)

GoTo(t, p) == task' = [task EXCEPT ![t] = p]

TestRunning(t) ==
  /\ task[t] = "queued"
  /\ GoTo(t, IF uiUpdateRunning THEN "done" ELSE "enter")
  /\ UNCHANGED <<oldProgress, uiUpdateRunning, drawnFor>>

EnterLoop(t) ==
  /\ task[t] = "enter"
  /\ uiUpdateRunning' = TRUE
  /\ oldProgress' = [oldProgress EXCEPT ![t] = progress]
  /\ drawnFor' = progress
  /\ GoTo(t, "test")

TestLoop(t) ==
  /\ task[t] = "test"
  /\ GoTo(t, IF ~uiUpdateRunning \/ uiUpdateShutdown THEN "end"
             ELSE IF state \in Active THEN "update" ELSE "test")
  /\ UNCHANGED <<oldProgress, uiUpdateRunning, drawnFor>>

\* A frame is requested if there was progress since the last turn.
Update(t) ==
  /\ task[t] = "update"
  /\ drawnFor' = IF progress # oldProgress[t] THEN progress ELSE drawnFor
  /\ oldProgress' = [oldProgress EXCEPT ![t] = progress]
  /\ GoTo(t, IF progress # oldProgress[t] THEN "test" ELSE "wait")
  /\ UNCHANGED uiUpdateRunning

\* Mutant of AwaitProgress: the progress is read again after the wait.
AwaitAndReread(t) ==
  /\ task[t] = "wait"
  /\ progress # oldProgress[t]
  /\ oldProgress' = [oldProgress EXCEPT ![t] = progress]
  /\ GoTo(t, "test")
  /\ UNCHANGED <<uiUpdateRunning, drawnFor>>

\* progress().wait(oldProgress)
AwaitProgress(t) ==
  /\ task[t] = "wait"
  /\ progress # oldProgress[t]
  /\ GoTo(t, "test")
  /\ UNCHANGED <<oldProgress, uiUpdateRunning, drawnFor>>

\* The flag is cleared first, and its waiters are notified then.
EndTask(t) ==
  /\ \/ task[t] = "end" /\ uiUpdateRunning' = FALSE /\ GoTo(t, "notify")
     \/ task[t] = "notify" /\ GoTo(t, "done") /\ UNCHANGED uiUpdateRunning
  /\ UNCHANGED <<oldProgress, drawnFor>>

PoolTask(t) ==
  /\ ~misused /\ ~terminated
  /\ IF uiPc = "destroyed" /\ task[t] \notin {"unused", "done"}
     THEN /\ misused' = TRUE
          /\ UNCHANGED <<task, oldProgress, uiUpdateRunning, drawnFor>>
     ELSE /\ \/ TestRunning(t) \/ EnterLoop(t) \/ TestLoop(t) \/ Update(t)
             \/ AwaitProgress(t) \/ EndTask(t)
          /\ UNCHANGED misused
  /\ UNCHANGED <<threadVars, messageVars, state, uiUpdateShutdown, progress,
                 uiPc>>

-----------------------------------------------------------------------------
(* The scheduler's thread.                                                 *)

Initialise ==
  /\ thread = "initialise"
  /\ state' = "INITIALISED"
  /\ thread' = "run"
  /\ UNCHANGED <<taskVars, toState, terminated, messageVars, uiUpdateShutdown,
                 progress, uiPc>>

Run ==
  /\ thread = "run"
  /\ state' = "RUNNING"
  /\ thread' = "loop"
  /\ UNCHANGED <<taskVars, toState, terminated, messageVars, uiUpdateShutdown,
                 progress, uiPc>>

\* The main loop handles a message.
HandleRequest ==
  /\ thread = "loop" /\ state \in Active /\ toScheduler # <<>>
  /\ LET m == Head(toScheduler)
     IN /\ state' = CASE m = "GRC" -> "STOPPED"
                      [] m = "REQUESTED_PAUSE" -> "PAUSED"
                      [] OTHER -> m
        /\ fromScheduler' = IF m = "GRC" THEN Append(fromScheduler, state)
                            ELSE fromScheduler
  /\ toScheduler' = Tail(toScheduler)
  /\ UNCHANGED <<taskVars, threadVars, requests, uiUpdateShutdown, progress,
                 uiPc>>

\* The graph makes progress; wherever a task has read the progress, the bound
\* leaves room for one more change, the destructor's.
Process ==
  /\ thread = "loop" /\ state = "RUNNING"
  /\ progress < MaxProgress
  /\ progress' = progress + 1
  /\ UNCHANGED <<taskVars, threadVars, messageVars, state, uiUpdateShutdown,
                 uiPc>>

\* The main loop returns.  A thread that was started for PAUSED changes the
\* state only now, which the state it finds does not allow.
LeaveLoop ==
  /\ thread = "loop" /\ state \notin Active
  /\ state' = "STOPPED"
  /\ thread' = "ended"
  /\ terminated' = (toState = "PAUSED")
  /\ UNCHANGED <<taskVars, toState, messageVars, uiUpdateShutdown, progress,
                 uiPc>>

SchedulerThread == Initialise \/ Run \/ HandleRequest \/ LeaveLoop

-----------------------------------------------------------------------------
\* The scheduler and its tasks are gone, or the behaviour has ended.
Over ==
  /\ ~Alive
  /\ misused \/ terminated \/ \A t \in Tasks : task[t] \in {"unused", "done"}
  /\ UNCHANGED schedulerVars

SchedulerNext ==
  \/ Alive /\ (UiThread \/ CloseScheduler)
  \/ \E m \in {"RUNNING", "REQUESTED_STOP", "REQUESTED_PAUSE", "GRC"} :
       Alive /\ SendRequest(m)
  \/ \E t \in Tasks : PoolTask(t)
  \/ Alive /\ (SchedulerThread \/ Process)
  \/ Over

SchedulerSpec == SchedulerInit /\ [][SchedulerNext]_schedulerVars

\* Threads that have something to do go on; nobody needs to send or to close,
\* and the graph needs to make no progress.
SchedulerFairness ==
  /\ WF_schedulerVars(Alive /\ UiThread)
  /\ WF_schedulerVars(Alive /\ SchedulerThread)
  /\ \A t \in Tasks : WF_schedulerVars(PoolTask(t))

FairSchedulerSpec == SchedulerSpec /\ SchedulerFairness

-----------------------------------------------------------------------------
(* Properties.                                                             *)

UiSchedulerTypeOK ==
  /\ state \in {"IDLE", "INITIALISED", "REQUESTED_STOP", "STOPPED"} \cup Active
  /\ thread \in {"none", "initialise", "run", "loop", "ended"}
  /\ toState \in Active
  /\ task \in [Tasks -> {"unused", "queued", "enter", "notify", "done"}
                          \cup Looping]
  /\ oldProgress \in [Tasks -> 0..(MaxProgress + 1)]
  /\ progress \in 0..(MaxProgress + 1) /\ drawnFor \in 0..progress
  /\ {fromScheduler[k] : k \in DOMAIN fromScheduler} \subseteq Active
  /\ requests \in 0..MaxRequests

\* The scheduler is not destroyed under a task that has set _uiUpdateRunning
\* and has not left its loop, unless a second task passed the test of the flag
\* before it was set, and cleared it.
LoopingTaskIsAwaited ==
  uiPc = "destroyed" =>
    \A t \in Tasks : task[t] \in Looping =>
      \E u \in Tasks \ {t} : task[u] # "unused"

\* A restart after a new graph was overlooked: the state was still STOPPED when
\* the scheduler was closed, and nothing stops the thread that runs now.
MissedRestart ==
  /\ uiPc = "join" /\ thread = "loop" /\ state \in Active
  /\ \E t, u \in Tasks : t # u /\ task[t] # "unused" /\ task[u] # "unused"

\* A scheduler that is closed is destroyed, unless a restart was overlooked: its
\* first thread ends although it may not have begun to run when the destructor
\* looks at the state, and no task waits for progress that never comes.
DestructionCompletes ==
  uiPc = "shutdown" ~> uiPc = "destroyed" \/ terminated \/ MissedRestart

\* The destructor returns, and not under a task that it has to wait for.
DestructionIsSafe == []LoopingTaskIsAwaited /\ DestructionCompletes

\* After a new graph was set, a scheduler that was running runs again.
RunsAgain ==
  fromScheduler # <<>> /\ Head(fromScheduler) = "RUNNING" ~>
    state = "RUNNING" \/ uiPc \notin {"idle", "start", "joinOld"} \/ ~Alive

\* Progress of a running graph reaches the screen: a frame is requested for it
\* unless the scheduler is paused, stopped or closed meanwhile.
ProgressIsDrawn ==
  \A p \in 1..MaxProgress :
    progress >= p /\ state = "RUNNING" /\ uiUpdateRunning /\ Alive ~>
      drawnFor >= p \/ state # "RUNNING" \/ uiPc # "idle"

\* A scheduler that is not closed gets on: it runs again what ran, and shows what it
\* made.
GraphGetsOn == RunsAgain /\ ProgressIsDrawn
=============================================================================
