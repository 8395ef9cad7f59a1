------------------------- MODULE RemoteSubscription -------------------------
(***************************************************************************)
(* The life of the UI's remote subscriptions: the manager that maps a URI  *)
(* to one shared subscription, the handles that the remote source blocks   *)
(* hold, and the two kinds of thread that touch them.                      *)
(*                                                                         *)
(*   - a block thread per source: the scheduler thread that runs the       *)
(*     block's start, stop, settingsChanged and processBulk, one at a time *)
(*   - the REST client's worker thread, which delivers one message at a    *)
(*     time to every callback registered on the message's URI.             *)
(*                                                                         *)
(* The manager's shared mutex needs no variable.  Every critical section   *)
(* under the exclusive lock is one step, so the lock is observable only    *)
(* while the client thread iterates over the callbacks: ClientHoldsLock.   *)
(*                                                                         *)
(* A message that carries data touches the block's queue only and belongs  *)
(* to that component: the messages here are the errors that make a source  *)
(* release its subscription and reconnect.                                 *)
(*                                                                         *)
(* Undefined behaviour ends the modelled behaviour: `ub' records that a    *)
(* null or dangling handle was dereferenced, or that two threads wrote the *)
(* two words of one handle at the same time, and no step follows.          *)
(***************************************************************************)
EXTENDS Naturals, FiniteSets

CONSTANTS
  Sources,       \* the remote source blocks
  Uris,          \* the topics a source can be pointed at
  None,          \* an empty remote_uri; no topic or no source
  UriChoices,    \* the topics each source is pointed at by its settings
  PromptClient,  \* TRUE: a callback ends before the timer it armed expires
  MaxEvents      \* bound on settings changes, starts, stops and errors

ASSUME SubscriptionAssumption ==
  /\ None \notin Uris \cup Sources
  /\ UriChoices \in [Sources -> SUBSET Uris]
  /\ PromptClient \in BOOLEAN
  /\ MaxEvents \in Nat

VARIABLES
  subscriptions,  \* per URI, the mapped subscription object, or 0
  callbacks,      \* the registered user callbacks of all subscriptions
  lastSub,        \* objects allocated so far
  lastId,         \* callback ids handed out so far
  connected,      \* per URI, whether the REST client is subscribed to it
  remote_uri,     \* per source, its setting
  running,        \* per source, whether the scheduler processes the block
  handle,         \* per source, its _subscription
  fresh,          \* per source, the handle subscribe returned, until assigned
  timer,          \* per source, its _reconnect
  pc, restart,    \* per source, where its block thread is
  clientPc, clientUri, todo, caller, queued,  \* the client thread
  ub,             \* undefined behaviour was reached
  events          \* environment events so far

managerVars == <<subscriptions, callbacks, lastSub, lastId, connected>>
sourceVars  == <<remote_uri, running, handle, fresh, timer, pc, restart>>
clientVars  == <<clientPc, clientUri, todo, caller, queued>>
vars == <<managerVars, sourceVars, clientVars, ub, events>>

-----------------------------------------------------------------------------
Handle   == [sub : Nat, id : Nat]
NoHandle == [sub |-> 0, id |-> 0]
Callback == [sub : Nat, id : Nat, source : Sources]

\* A handle converts to true.
IsSet(h) == h.sub # 0

\* The handle that designates a registered callback.
HandleOf(c) == [sub |-> c.sub, id |-> c.id]

CallbacksOf(o) == {c \in callbacks : c.sub = o}

\* The objects the manager owns: every other pointer is null or dangling.
Mapped == {subscriptions[u] : u \in Uris} \ {0}

UriOf(o) == CHOOSE u \in Uris : subscriptions[u] = o

\* The client thread holds the manager's mutex in shared mode.
ClientHoldsLock == clientPc \in {"iterate", "moveSub", "moveId"}

BlockPcs  == {"idle", "reset", "resetLocked", "start", "subscribe",
              "assign", "assignId", "reconnect", "reconnectLocked"}
ClientPcs == {"idle", "enter", "iterate", "moveSub", "moveId", "release"}

-----------------------------------------------------------------------------
Init ==
  /\ subscriptions = [u \in Uris |-> 0]
  /\ callbacks = {}
  /\ lastSub = 0
  /\ lastId = 0
  /\ connected = [u \in Uris |-> FALSE]
  /\ remote_uri = [s \in Sources |-> None]
  /\ running = [s \in Sources |-> FALSE]
  /\ handle = [s \in Sources |-> NoHandle]
  /\ fresh = [s \in Sources |-> NoHandle]
  /\ timer = [s \in Sources |-> "off"]
  /\ pc = [s \in Sources |-> "idle"]
  /\ restart = [s \in Sources |-> FALSE]
  /\ clientPc = "idle"
  /\ clientUri = None
  /\ todo = {}
  /\ caller = None
  /\ queued = {}
  /\ ub = FALSE
  /\ events = 0

\* Moves the block thread of s.
Goto(s, to) == pc' = [pc EXCEPT ![s] = to]

\* An event of the environment: bounded, and only while the program is defined.
Event ==
  /\ ~ub
  /\ events < MaxEvents
  /\ events' = events + 1

\* A step of a thread.
Thread == ~ub /\ UNCHANGED events

-----------------------------------------------------------------------------
(* What the manager does under its exclusive lock.                         *)

\* Mutant of Unregister: the entry of an unused subscription is not erased.
UnregisterKeepingEntry(h) ==
  /\ callbacks' = {c \in callbacks : HandleOf(c) # h}
  /\ UNCHANGED <<subscriptions, connected, lastSub, lastId>>

\* reset() after the lock: the callback goes, and with the last callback the
\* subscription, whose destructor unsubscribes.
Unregister(h) ==
  LET rest == {c \in callbacks : HandleOf(c) # h}
      last == \A c \in rest : c.sub # h.sub
      gone == {u \in Uris : last /\ subscriptions[u] = h.sub}
  IN /\ callbacks' = rest
     /\ subscriptions' = [u \in Uris |-> IF u \in gone THEN 0
                                         ELSE subscriptions[u]]
     /\ connected' = [u \in Uris |-> u \notin gone /\ connected[u]]
     /\ UNCHANGED <<lastSub, lastId>>

\* subscribe(): a subscriber of a mapped URI joins it, and only the first one
\* allocates the subscription and starts it.
Register(s, u) ==
  LET new == subscriptions[u] = 0
      o   == IF new THEN lastSub + 1 ELSE subscriptions[u]
  IN /\ callbacks' = callbacks \cup
                       {[sub |-> o, id |-> lastId, source |-> s]}
     /\ fresh' = [fresh EXCEPT ![s] = [sub |-> o, id |-> lastId]]
     /\ lastId' = lastId + 1
     /\ lastSub' = IF new THEN lastSub + 1 ELSE lastSub
     /\ subscriptions' = [subscriptions EXCEPT ![u] = o]
     /\ connected' = [connected EXCEPT ![u] = new \/ @]

-----------------------------------------------------------------------------
(* The entry points of a source, called by its block thread when idle.     *)

\* settingsChanged: an empty URI leaves the subscription as it is.
SettingsChanged(s, u) ==
  /\ Event
  /\ pc[s] = "idle"
  /\ remote_uri' = [remote_uri EXCEPT ![s] = u]
  /\ IF u = None
     THEN UNCHANGED <<pc, restart>>
     ELSE Goto(s, "reset") /\ restart' = [restart EXCEPT ![s] = TRUE]
  /\ UNCHANGED <<managerVars, running, handle, fresh, timer, clientVars, ub>>

Start(s) ==
  /\ Event
  /\ pc[s] = "idle"
  /\ ~running[s]
  /\ running' = [running EXCEPT ![s] = TRUE]
  /\ IF remote_uri[s] = None THEN UNCHANGED pc ELSE Goto(s, "start")
  /\ UNCHANGED <<managerVars, remote_uri, handle, fresh, timer, restart,
                 clientVars, ub>>

Stop(s) ==
  /\ Event
  /\ pc[s] = "idle"
  /\ running[s]
  /\ running' = [running EXCEPT ![s] = FALSE]
  /\ Goto(s, "reset")
  /\ restart' = [restart EXCEPT ![s] = FALSE]
  /\ UNCHANGED <<managerVars, remote_uri, handle, fresh, timer, clientVars,
                 ub>>

\* Mutant of MaybeReconnect: a source without a handle is not started again.
MaybeReconnectOnlyHandle(s) ==
  /\ Thread
  /\ pc[s] = "idle" /\ running[s] /\ remote_uri[s] # None
  /\ timer[s] = "due"
  /\ timer' = [timer EXCEPT ![s] = "off"]
  /\ Goto(s, IF IsSet(handle[s]) THEN "reconnect" ELSE "idle")
  /\ UNCHANGED <<managerVars, remote_uri, running, handle, fresh, restart,
                 clientVars, ub>>

\* processBulk's maybeReconnect: the timer is taken by compare-and-exchange,
\* and the handle is looked at only afterwards.
MaybeReconnect(s) ==
  /\ Thread
  /\ pc[s] = "idle"
  /\ running[s]
  /\ remote_uri[s] # None
  /\ timer[s] = "due"
  /\ timer' = [timer EXCEPT ![s] = "off"]
  /\ Goto(s, IF IsSet(handle[s]) THEN "reconnect" ELSE "start")
  /\ UNCHANGED <<managerVars, remote_uri, running, handle, fresh, restart,
                 clientVars, ub>>

-----------------------------------------------------------------------------
(* RemoteSubscriptionHandle::reset on the block thread.                    *)

AfterReset(s) == IF restart[s] THEN "start" ELSE "idle"

\* The check is made before the lock is taken.
ResetCheck(s) ==
  /\ Thread
  /\ pc[s] = "reset"
  /\ Goto(s, IF IsSet(handle[s]) THEN "resetLocked" ELSE AfterReset(s))
  /\ UNCHANGED <<managerVars, remote_uri, running, handle, fresh, timer,
                 restart, clientVars, ub>>

\* What is done under the lock; by itself it is the mutant of ResetLocked that
\* forgets to take the lock.
ResetBody(s) ==
  /\ Thread
  /\ pc[s] = "resetLocked"
  /\ IF handle[s].sub \in Mapped
     THEN /\ Unregister(handle[s])
          /\ handle' = [handle EXCEPT ![s] = NoHandle]
          /\ Goto(s, AfterReset(s))
          /\ UNCHANGED ub
     ELSE /\ ub' = TRUE
          /\ UNCHANGED <<managerVars, handle, pc>>
  /\ UNCHANGED <<remote_uri, running, fresh, timer, restart, clientVars>>

ResetLocked(s) == ~ClientHoldsLock /\ ResetBody(s)

-----------------------------------------------------------------------------
(* startSubscription.                                                      *)

\* Mutant of StartCheck: a source that is subscribed subscribes again.
StartUnchecked(s) ==
  /\ Thread
  /\ pc[s] = "start"
  /\ Goto(s, "subscribe")
  /\ UNCHANGED <<managerVars, remote_uri, running, handle, fresh, timer,
                 restart, clientVars, ub>>

StartCheck(s) ==
  /\ Thread
  /\ pc[s] = "start"
  /\ Goto(s, IF IsSet(handle[s]) THEN "idle" ELSE "subscribe")
  /\ UNCHANGED <<managerVars, remote_uri, running, handle, fresh, timer,
                 restart, clientVars, ub>>

Subscribe(s) ==
  /\ Thread
  /\ pc[s] = "subscribe"
  /\ ~ClientHoldsLock
  /\ Register(s, remote_uri[s])
  /\ Goto(s, "assign")
  /\ UNCHANGED <<remote_uri, running, handle, timer, restart, clientVars, ub>>

\* The two words of _subscription are stored one after the other, outside the
\* lock; the client thread may be moving the same handle.
AssignSubscription(s) ==
  /\ Thread
  /\ pc[s] = "assign"
  /\ handle' = [handle EXCEPT ![s] = fresh[s]]
  /\ fresh' = [fresh EXCEPT ![s] = NoHandle]
  /\ ub' = (clientPc = "moveId" /\ caller = s)
  /\ Goto(s, "assignId")
  /\ UNCHANGED <<managerVars, remote_uri, running, timer, restart, clientVars>>

AssignId(s) ==
  /\ Thread
  /\ pc[s] = "assignId"
  /\ Goto(s, "idle")
  /\ UNCHANGED <<managerVars, remote_uri, running, handle, fresh, timer,
                 restart, clientVars, ub>>

-----------------------------------------------------------------------------
(* RemoteSubscriptionHandle::reconnect.                                    *)

ReconnectCheck(s) ==
  /\ Thread
  /\ pc[s] = "reconnect"
  /\ Goto(s, IF IsSet(handle[s]) THEN "reconnectLocked" ELSE "idle")
  /\ UNCHANGED <<managerVars, remote_uri, running, handle, fresh, timer,
                 restart, clientVars, ub>>

\* Mutant of ReconnectLocked: start() comes before disconnect().
ReconnectSwapped(s) ==
  /\ Thread
  /\ pc[s] = "reconnectLocked"
  /\ handle[s].sub \in Mapped
  /\ connected' = [connected EXCEPT ![UriOf(handle[s].sub)] = FALSE]
  /\ Goto(s, "idle")
  /\ UNCHANGED <<subscriptions, callbacks, lastSub, lastId, remote_uri,
                 running, handle, fresh, timer, restart, clientVars, ub>>

\* The lock is shared: the client thread may be iterating.
ReconnectLocked(s) ==
  /\ Thread
  /\ pc[s] = "reconnectLocked"
  /\ IF handle[s].sub \in Mapped
     THEN /\ connected' = [connected EXCEPT ![UriOf(handle[s].sub)] = TRUE]
          /\ Goto(s, "idle")
          /\ UNCHANGED ub
     ELSE /\ ub' = TRUE
          /\ UNCHANGED <<connected, pc>>
  /\ UNCHANGED <<subscriptions, callbacks, lastSub, lastId, remote_uri,
                 running, handle, fresh, timer, restart, clientVars>>

-----------------------------------------------------------------------------
(* The client thread.                                                      *)

\* The REST client reports an error on a topic it is subscribed to, and keeps
\* the subscription or gives it up.
Error(u) ==
  /\ Event
  /\ clientPc = "idle"
  /\ connected[u]
  /\ \E kept \in BOOLEAN : connected' = [connected EXCEPT ![u] = kept]
  /\ clientPc' = "enter"
  /\ clientUri' = u
  /\ UNCHANGED <<subscriptions, callbacks, lastSub, lastId, sourceVars, todo,
                 caller, queued, ub>>

\* The callback takes the shared lock and looks the URI up.
ClientEnter ==
  /\ Thread
  /\ clientPc = "enter"
  /\ IF subscriptions[clientUri] = 0
     THEN clientPc' = "idle" /\ clientUri' = None /\ UNCHANGED todo
     ELSE /\ clientPc' = "iterate"
          /\ todo' = CallbacksOf(subscriptions[clientUri])
          /\ UNCHANGED clientUri
  /\ UNCHANGED <<managerVars, sourceVars, caller, queued, ub>>

\* copyRestResponseDataIntoQueue of one source: first the timer is armed.
ClientArmTimer(c) ==
  /\ Thread
  /\ clientPc = "iterate"
  /\ c \in todo
  /\ todo' = todo \ {c}
  /\ caller' = c.source
  /\ timer' = [timer EXCEPT ![c.source] = "armed"]
  /\ clientPc' = "moveSub"
  /\ UNCHANGED <<managerVars, remote_uri, running, handle, fresh, pc, restart,
                 clientUri, queued, ub>>

\* Mutant of ClientMoveSubscription: null handles are queued as well.
ClientQueueAnyHandle ==
  /\ Thread
  /\ clientPc = "moveSub"
  /\ queued' = queued \cup {handle[caller]}
  /\ handle' = [handle EXCEPT ![caller] = NoHandle]
  /\ ub' = (pc[caller] = "assignId")
  /\ clientPc' = "moveId"
  /\ UNCHANGED <<managerVars, remote_uri, running, fresh, timer, pc, restart,
                 clientUri, todo, caller>>

\* Then the source's handle is moved out, to be destroyed after the loop.
ClientMoveSubscription ==
  /\ Thread
  /\ clientPc = "moveSub"
  /\ queued' = IF IsSet(handle[caller]) THEN queued \cup {handle[caller]}
                                        ELSE queued
  /\ handle' = [handle EXCEPT ![caller] = NoHandle]
  /\ ub' = (pc[caller] = "assignId")
  /\ clientPc' = "moveId"
  /\ UNCHANGED <<managerVars, remote_uri, running, fresh, timer, pc, restart,
                 clientUri, todo, caller>>

ClientMoveId ==
  /\ Thread
  /\ clientPc = "moveId"
  /\ clientPc' = "iterate"
  /\ caller' = None
  /\ UNCHANGED <<managerVars, sourceVars, clientUri, todo, queued, ub>>

ClientUnlock ==
  /\ Thread
  /\ clientPc = "iterate"
  /\ todo = {}
  /\ clientPc' = IF queued = {} THEN "idle" ELSE "release"
  /\ clientUri' = None
  /\ UNCHANGED <<managerVars, sourceVars, todo, caller, queued, ub>>

\* queuedUnsubscriptions.clear() resets one handle after the other.
ClientRelease(h) ==
  /\ Thread
  /\ clientPc = "release"
  /\ h \in queued
  /\ IF h.sub \in Mapped
     THEN Unregister(h) /\ UNCHANGED ub
     ELSE ub' = TRUE /\ UNCHANGED managerVars
  /\ queued' = queued \ {h}
  /\ clientPc' = IF queued = {h} THEN "idle" ELSE "release"
  /\ UNCHANGED <<sourceVars, clientUri, todo, caller>>

-----------------------------------------------------------------------------
\* The reconnect timeout of s elapses.
TimerExpires(s) ==
  /\ Thread
  /\ timer[s] = "armed"
  /\ PromptClient => clientPc = "idle"
  /\ timer' = [timer EXCEPT ![s] = "due"]
  /\ UNCHANGED <<managerVars, remote_uri, running, handle, fresh, pc, restart,
                 clientVars, ub>>

\* Nothing is left to do: the threads wait for the environment.
Quiet ==
  \/ ub
  \/ /\ clientPc = "idle"
     /\ \A s \in Sources :
          /\ pc[s] = "idle"
          /\ timer[s] # "armed"
          /\ timer[s] = "due" => ~running[s] \/ remote_uri[s] = None

Rest == Quiet /\ UNCHANGED vars

BlockStep(s) ==
  \/ MaybeReconnect(s)
  \/ ResetCheck(s)
  \/ ResetLocked(s)
  \/ StartCheck(s)
  \/ Subscribe(s)
  \/ AssignSubscription(s)
  \/ AssignId(s)
  \/ ReconnectCheck(s)
  \/ ReconnectLocked(s)

ClientStep ==
  \/ ClientEnter
  \/ \E c \in todo : ClientArmTimer(c)
  \/ ClientMoveSubscription
  \/ ClientMoveId
  \/ ClientUnlock
  \/ \E h \in queued : ClientRelease(h)

Environment ==
  \/ \E s \in Sources, u \in Uris \cup {None} :
       u \in UriChoices[s] \cup {None} /\ SettingsChanged(s, u)
  \/ \E s \in Sources : Start(s) \/ Stop(s)
  \/ \E u \in Uris : Error(u)

Next ==
  \/ Environment
  \/ \E s \in Sources : BlockStep(s) \/ TimerExpires(s)
  \/ ClientStep
  \/ Rest

Spec == Init /\ [][Next]_vars

\* The scheduler keeps processing its blocks, the client thread keeps running
\* and time passes; nobody has to change a setting or to fail.
Fairness ==
  /\ \A s \in Sources : WF_vars(BlockStep(s)) /\ WF_vars(TimerExpires(s))
  /\ WF_vars(ClientStep)

FairSpec == Spec /\ Fairness
-----------------------------------------------------------------------------
(* Properties.                                                             *)

\* Types.  The client queues only handles that convert to true, and holds a
\* topic and a calling source exactly while it needs them.
TypeOK ==
  /\ subscriptions \in [Uris -> Nat]
  /\ callbacks \subseteq Callback
  /\ lastSub \in Nat /\ lastId \in Nat /\ events \in Nat
  /\ connected \in [Uris -> BOOLEAN]
  /\ remote_uri \in [Sources -> Uris \cup {None}]
  /\ running \in [Sources -> BOOLEAN]
  /\ handle \in [Sources -> Handle]
  /\ fresh \in [Sources -> Handle]
  /\ timer \in [Sources -> {"off", "armed", "due"}]
  /\ pc \in [Sources -> BlockPcs]
  /\ restart \in [Sources -> BOOLEAN]
  /\ clientPc \in ClientPcs
  /\ clientUri \in Uris \cup {None}
  /\ clientUri = None <=> clientPc \in {"idle", "release"}
  /\ todo \subseteq Callback
  /\ caller \in Sources \cup {None}
  /\ caller = None <=> clientPc \notin {"moveSub", "moveId"}
  /\ queued \subseteq {h \in Handle : IsSet(h)}
  /\ ub \in BOOLEAN

\* The manager's map and its callbacks agree: a subscription is mapped as long
\* as somebody is subscribed, and nothing is registered on a destroyed one
\* (the erasure in reset, the emplacement in subscribe).
MappedWhileUsed ==
  /\ \A u \in Uris : subscriptions[u] # 0 => CallbacksOf(subscriptions[u]) # {}
  /\ \A c \in callbacks : c.sub \in Mapped

\* Every handle that somebody holds, in a source, on its way to a source or in
\* the client's queue, designates a callback that is still registered; every
\* registered callback is designated by exactly one of them.  So no handle
\* dangles, no callback is removed twice and none is leaked, although a move
\* assignment overwrites the handle it assigns to without resetting it.
OneOwner ==
  /\ \A s \in Sources : \A h \in {handle[s], fresh[s]} :
       IsSet(h) => \E c \in callbacks : HandleOf(c) = h /\ c.source = s
  /\ queued \subseteq {HandleOf(c) : c \in callbacks}
  /\ \A c \in callbacks :
       LET inHandle == handle[c.source] = HandleOf(c)
           inFresh  == fresh[c.source] = HandleOf(c)
           inQueue  == HandleOf(c) \in queued
       IN \/ inHandle /\ ~inFresh /\ ~inQueue
          \/ inFresh /\ ~inHandle /\ ~inQueue
          \/ inQueue /\ ~inHandle /\ ~inFresh

\* While the client thread calls the callbacks of a subscription, none of those
\* it still has to call is removed and the subscription is not destroyed: what
\* the shared lock is for ("mutual exclusion between subscribing/unsubscribing
\* (writing), and the rest client worker thread calling the callback").
IterationIsStable ==
  ClientHoldsLock =>
    /\ subscriptions[clientUri] # 0
    /\ todo \subseteq CallbacksOf(subscriptions[clientUri])

\* The topic s is subscribed to is one the REST client listens to.
Served(s) ==
  \E u \in Uris : /\ connected[u]
                  /\ IsSet(handle[s]) /\ handle[s].sub = subscriptions[u]

\* When the threads are idle and no reconnect is pending, a source that holds a
\* subscription gets its data: an error, a restart or a change of topic in
\* between never leaves a source subscribed to a silent topic.
SettledSourceIsServed ==
  (~ub /\ clientPc = "idle" /\ \A s \in Sources : pc[s] = "idle"
                                                  /\ timer[s] = "off")
     => \A s \in Sources : IsSet(handle[s]) => Served(s)

\* A source whose subscription failed is subscribed again, unless it is stopped
\* or its topic is cleared: "Error in subscription ... Re-subscribing".
ErrorIsRecovered ==
  \A s \in Sources :
    timer[s] # "off" ~>
      (ub \/ ~running[s] \/ remote_uri[s] = None
          \/ (timer[s] = "off" /\ Served(s)))
=============================================================================
