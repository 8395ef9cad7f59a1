---------------------- MODULE RemoteSubscriptionProofs ----------------------
(***************************************************************************)
(* Proofs about RemoteSubscription, for any number of sources and topics   *)
(* and without the bound on events: the shared lock protects the client    *)
(* thread's iteration and every handle designates exactly one registered   *)
(* callback, so that no handle ever dangles.  And about RemoteStream, the  *)
(* queue a subscription fills: its samples are those of a lossless stream, *)
(* for acquisitions and output spans of any size, and so are its triggers  *)
(* as long as no updates are skipped.                                      *)
(***************************************************************************)
EXTENDS RemoteSubscription, RemoteStream, SelectionLemmas, TLAPS

\* Object numbers and callback ids are never reused, and no two topics share a
\* subscription.
Allocation ==
  /\ \A c \in callbacks : c.sub # 0 /\ c.sub <= lastSub /\ c.id < lastId
  /\ \A c, d \in callbacks : c.id = d.id => c = d
  /\ \A u \in Uris : subscriptions[u] <= lastSub
  /\ \A u, v \in Uris :
       subscriptions[u] # 0 /\ subscriptions[u] = subscriptions[v] => u = v

\* What a block thread knows at its control points: a subscriber's own handle
\* is null until it assigns, and it subscribes to a topic.
BlockControl ==
  \A s \in Sources :
    /\ IsSet(fresh[s]) <=> pc[s] = "assign"
    /\ pc[s] \in {"subscribe", "assign"} => ~IsSet(handle[s])
    /\ pc[s] \in {"start", "subscribe"} => remote_uri[s] # None
    /\ pc[s] \in {"reset", "resetLocked"} /\ restart[s]
          => remote_uri[s] # None

IInv ==
  /\ TypeOK
  /\ Allocation
  /\ BlockControl
  /\ MappedWhileUsed
  /\ OneOwner
  /\ IterationIsStable

-----------------------------------------------------------------------------
(* The algebra of handles: all that the proofs need to know of the records. *)

\* The handle a move leaves behind converts to false, and a handle is typed.
LEMMA NullHandle == ~IsSet(NoHandle) /\ NoHandle \in Handle
BY DEF IsSet, NoHandle, Handle

\* The handle subscribe returns for a registered callback converts to true.
LEMMA HandleOfCallback ==
  ASSUME TypeOK, Allocation, NEW c \in callbacks
  PROVE  HandleOf(c) \in Handle /\ IsSet(HandleOf(c))
BY DEF TypeOK, Allocation, Callback, HandleOf, Handle, IsSet

\* A handle designates at most one callback: ids are not reused.
LEMMA HandleIdentifies ==
  ASSUME Allocation,
         NEW c \in callbacks, NEW d \in callbacks, HandleOf(c) = HandleOf(d)
  PROVE  c = d
<1>1. c.id = d.id
  BY DEF HandleOf
<1> QED BY <1>1 DEF Allocation

\* A handle that somebody holds designates a callback that is registered.
LEMMA HeldHandle ==
  ASSUME OneOwner, NEW s \in Sources, IsSet(handle[s])
  PROVE  \E c \in callbacks : HandleOf(c) = handle[s] /\ c.source = s
BY DEF OneOwner

-----------------------------------------------------------------------------
(* What the manager's critical sections do.                                *)

\* reset() removes the one callback its handle designates, and leaves the map
\* and the callbacks in agreement.
LEMMA UnregisterOne ==
  ASSUME TypeOK, Allocation, MappedWhileUsed,
         NEW c \in callbacks, Unregister(HandleOf(c))
  PROVE  /\ callbacks' = callbacks \ {c}
         /\ subscriptions' \in [Uris -> Nat]
         /\ connected' \in [Uris -> BOOLEAN]
         /\ lastSub' = lastSub /\ lastId' = lastId
         /\ Allocation'
         /\ MappedWhileUsed'
<1> DEFINE h    == HandleOf(c)
           rest == {d \in callbacks : HandleOf(d) # h}
           last == \A d \in rest : d.sub # h.sub
           gone == {u \in Uris : last /\ subscriptions[u] = h.sub}
<1>1. /\ callbacks' = rest
      /\ subscriptions' = [u \in Uris |-> IF u \in gone THEN 0
                                          ELSE subscriptions[u]]
      /\ connected' = [u \in Uris |-> u \notin gone /\ connected[u]]
      /\ UNCHANGED <<lastSub, lastId>>
  BY DEF Unregister
<1>2. callbacks' = callbacks \ {c}
  BY <1>1, HandleIdentifies
<1>3. /\ subscriptions' \in [Uris -> Nat]
      /\ connected' \in [Uris -> BOOLEAN]
  BY <1>1 DEF TypeOK
<1>4. Allocation'
  BY <1>1, <1>2 DEF Allocation, TypeOK
<1>5. MappedWhileUsed'
  <2>1. ASSUME NEW u \in Uris, subscriptions'[u] # 0
        PROVE  \E d \in callbacks' : d.sub = subscriptions'[u]
    <3>1. subscriptions'[u] = subscriptions[u] /\ u \notin gone
      BY <1>1, <2>1
    <3>2. PICK d \in callbacks : d.sub = subscriptions[u]
      BY <2>1, <3>1 DEF MappedWhileUsed, CallbacksOf
    <3>3. CASE last
      <4>1. d.sub # h.sub
        BY <3>1, <3>2, <3>3
      <4> QED BY <4>1, <3>1, <3>2, <1>2 DEF HandleOf
    <3>4. CASE ~last
      <4>1. PICK e \in rest : e.sub = h.sub
        BY <3>4
      <4>2. CASE d = c
        BY <4>1, <4>2, <3>1, <3>2, <1>1 DEF HandleOf
      <4> QED BY <4>2, <3>1, <3>2, <1>2
    <3> QED BY <3>3, <3>4
  <2>2. ASSUME NEW d \in callbacks'
        PROVE  \E u \in Uris : subscriptions'[u] = d.sub /\ d.sub # 0
    <3>1. d \in rest
      BY <1>1
    <3>2. PICK u \in Uris : subscriptions[u] = d.sub /\ d.sub # 0
      BY <3>1 DEF MappedWhileUsed, Mapped
    <3>3. u \notin gone
      BY <3>1, <3>2
    <3> QED BY <3>2, <3>3, <1>1
  <2> QED BY <2>1, <2>2 DEF MappedWhileUsed, Mapped, CallbacksOf
<1> HIDE DEF h, rest, last, gone
<1> QED BY <1>1, <1>2, <1>3, <1>4, <1>5

\* subscribe() registers one callback, under a new id, on a subscription that
\* is mapped afterwards, and leaves the others alone.
LEMMA RegisterOne ==
  ASSUME TypeOK, Allocation, MappedWhileUsed,
         NEW s \in Sources, NEW u \in Uris, Register(s, u)
  PROVE  /\ \E c \in Callback :
              /\ callbacks' = callbacks \cup {c}
              /\ c \notin callbacks
              /\ c.source = s
              /\ fresh' = [fresh EXCEPT ![s] = HandleOf(c)]
              /\ \A d \in callbacks : HandleOf(d) # HandleOf(c)
              /\ \A v \in Uris : subscriptions[v] # 0
                                  => subscriptions'[v] = subscriptions[v]
         /\ subscriptions' \in [Uris -> Nat]
         /\ connected' \in [Uris -> BOOLEAN]
         /\ lastSub' \in Nat /\ lastId' \in Nat
         /\ Allocation'
         /\ MappedWhileUsed'
<1> DEFINE new == subscriptions[u] = 0
           o   == IF new THEN lastSub + 1 ELSE subscriptions[u]
           c   == [sub |-> o, id |-> lastId, source |-> s]
<1>1. /\ callbacks' = callbacks \cup {c}
      /\ fresh' = [fresh EXCEPT ![s] = [sub |-> o, id |-> lastId]]
      /\ lastId' = lastId + 1
      /\ lastSub' = IF new THEN lastSub + 1 ELSE lastSub
      /\ subscriptions' = [subscriptions EXCEPT ![u] = o]
      /\ connected' = [connected EXCEPT ![u] = new \/ @]
  BY DEF Register
<1>2. o \in Nat /\ o # 0 /\ o <= lastSub' /\ lastSub <= lastSub'
  BY <1>1 DEF TypeOK, Allocation
<1>3. c \in Callback /\ c.sub = o /\ c.id = lastId /\ c.source = s
  BY <1>2 DEF TypeOK, Callback
<1>4. HandleOf(c) = [sub |-> o, id |-> lastId]
  BY DEF HandleOf
<1>5. \A d \in callbacks : d.id < lastId /\ d.id \in Nat
  BY DEF Allocation, TypeOK, Callback
<1>6. \A d \in callbacks : HandleOf(d) # HandleOf(c)
  <2> SUFFICES ASSUME NEW d \in callbacks, HandleOf(d) = HandleOf(c)
               PROVE  FALSE
    OBVIOUS
  <2>1. d.id = c.id
    BY DEF HandleOf
  <2> QED BY <2>1, <1>3, <1>5 DEF TypeOK
<1>7. \A v \in Uris : subscriptions'[v] = IF v = u THEN o ELSE subscriptions[v]
  BY <1>1 DEF TypeOK
<1>8. /\ subscriptions' \in [Uris -> Nat]
      /\ connected' \in [Uris -> BOOLEAN]
      /\ lastSub' \in Nat /\ lastId' \in Nat
  BY <1>1, <1>2 DEF TypeOK
<1> HIDE DEF c, o, new
<1>9. Allocation'
  <2>1. \A d \in callbacks' : d.sub # 0 /\ d.sub <= lastSub' /\ d.id < lastId'
    <3> SUFFICES ASSUME NEW d \in callbacks'
                 PROVE  d.sub # 0 /\ d.sub <= lastSub' /\ d.id < lastId'
      OBVIOUS
    <3>1. CASE d = c
      BY <3>1, <1>1, <1>2, <1>3 DEF TypeOK
    <3>2. CASE d \in callbacks
      <4>1. d.sub \in Nat /\ d.id \in Nat /\ d.sub # 0 /\ d.sub <= lastSub
            /\ d.id < lastId
        BY <3>2 DEF Allocation, TypeOK, Callback
      <4> QED BY <4>1, <1>1, <1>2, <1>8 DEF TypeOK
    <3> QED BY <3>1, <3>2, <1>1
  <2>2. \A d, e \in callbacks' : d.id = e.id => d = e
    BY <1>1, <1>3, <1>5 DEF Allocation, TypeOK
  <2>3. \A v \in Uris : subscriptions'[v] <= lastSub'
    <3> SUFFICES ASSUME NEW v \in Uris PROVE subscriptions'[v] <= lastSub'
      OBVIOUS
    <3>1. subscriptions[v] \in Nat /\ subscriptions[v] <= lastSub
      BY DEF TypeOK, Allocation
    <3> QED BY <3>1, <1>2, <1>7, <1>8 DEF TypeOK
  <2>4. \A v, w \in Uris : subscriptions'[v] # 0
                            /\ subscriptions'[v] = subscriptions'[w] => v = w
    <3>1. \A v \in Uris \ {u} : subscriptions[v] # o \/ subscriptions[v] = 0
      <4>1. CASE new
        BY <4>1 DEF o, TypeOK, Allocation
      <4>2. CASE ~new
        BY <4>2 DEF o, new, Allocation
      <4> QED BY <4>1, <4>2
    <3> QED BY <3>1, <1>2, <1>7 DEF Allocation
  <2> QED BY <2>1, <2>2, <2>3, <2>4 DEF Allocation
<1>10. \A v \in Uris : subscriptions[v] # 0
                         => subscriptions'[v] = subscriptions[v]
  BY <1>7 DEF o, new
<1>11. MappedWhileUsed'
  <2>1. \A v \in Uris : subscriptions'[v] # 0
                          => \E d \in callbacks' : d.sub = subscriptions'[v]
    BY <1>1, <1>3, <1>7 DEF MappedWhileUsed, CallbacksOf
  <2>2. \A d \in callbacks' :
          d.sub # 0 /\ \E v \in Uris : subscriptions'[v] = d.sub
    BY <1>1, <1>2, <1>3, <1>7, <1>10 DEF MappedWhileUsed, Mapped
  <2> QED BY <2>1, <2>2 DEF MappedWhileUsed, Mapped, CallbacksOf
<1>12. c \notin callbacks
  BY <1>6
<1>13. fresh' = [fresh EXCEPT ![s] = HandleOf(c)]
  BY <1>1, <1>4
<1> QED BY <1>1, <1>3, <1>6, <1>8, <1>9, <1>10, <1>11, <1>12, <1>13

-----------------------------------------------------------------------------
(* Who holds the handle of a callback.                                     *)

\* A critical section of reset() gives up the only handle of its callback:
\* every other holder designates another one, which stays.
LEMMA OwnerAfterReset ==
  ASSUME TypeOK, Allocation, BlockControl, OneOwner,
         NEW s \in Sources, pc[s] = "resetLocked",
         NEW c \in callbacks, HandleOf(c) = handle[s], c.source = s,
         callbacks' = callbacks \ {c},
         handle' = [handle EXCEPT ![s] = NoHandle],
         UNCHANGED <<fresh, queued>>
  PROVE  OneOwner'
<1>1. handle \in [Sources -> Handle]
  BY DEF TypeOK
<1>2. IsSet(HandleOf(c))
  BY HandleOfCallback
<1>3. HandleOf(c) \notin queued /\ fresh[s] # HandleOf(c)
  BY DEF OneOwner
<1>4. ASSUME NEW t \in Sources, NEW h \in {handle'[t], fresh'[t]}, IsSet(h)
      PROVE  \E d \in callbacks' : HandleOf(d) = h /\ d.source = t
  <2>1. ~IsSet(fresh[s])
    BY DEF BlockControl
  <2>2. t # s /\ h \in {handle[t], fresh[t]}
    BY <1>1, <1>4, <2>1, NullHandle
  <2>3. PICK d \in callbacks : HandleOf(d) = h /\ d.source = t
    BY <1>4, <2>2 DEF OneOwner
  <2> QED BY <2>2, <2>3
<1>5. queued' \subseteq {HandleOf(d) : d \in callbacks'}
  BY <1>3 DEF OneOwner
<1>6. ASSUME NEW d \in callbacks'
      PROVE  handle'[d.source] = HandleOf(d) <=> handle[d.source] = HandleOf(d)
  <2>1. d \in callbacks /\ d # c /\ d.source \in Sources
    BY DEF TypeOK, Callback
  <2>2. HandleOf(d) # HandleOf(c) /\ IsSet(HandleOf(d))
    BY <2>1, HandleIdentifies, HandleOfCallback
  <2> QED BY <1>1, <2>1, <2>2, NullHandle
<1> QED BY <1>4, <1>5, <1>6 DEF OneOwner

\* The client's release of a queued handle, likewise.
LEMMA OwnerAfterRelease ==
  ASSUME TypeOK, Allocation, OneOwner,
         NEW c \in callbacks, HandleOf(c) \in queued,
         callbacks' = callbacks \ {c},
         queued' = queued \ {HandleOf(c)},
         UNCHANGED <<fresh, handle>>
  PROVE  OneOwner'
<1>1. handle[c.source] # HandleOf(c) /\ fresh[c.source] # HandleOf(c)
  BY DEF OneOwner
<1>2. ASSUME NEW t \in Sources, NEW h \in {handle[t], fresh[t]}, IsSet(h)
      PROVE  \E d \in callbacks' : HandleOf(d) = h /\ d.source = t
  <2>1. PICK d \in callbacks : HandleOf(d) = h /\ d.source = t
    BY <1>2 DEF OneOwner
  <2> QED BY <2>1, <1>1
<1>3. queued' \subseteq {HandleOf(d) : d \in callbacks'}
  BY DEF OneOwner
<1>4. \A d \in callbacks' : HandleOf(d) \in queued' <=> HandleOf(d) \in queued
  BY HandleIdentifies
<1> QED BY <1>2, <1>3, <1>4 DEF OneOwner

\* The handle of a new callback is held by the source that subscribes.
LEMMA OwnerAfterSubscribe ==
  ASSUME TypeOK, Allocation, BlockControl, OneOwner,
         NEW s \in Sources, pc[s] = "subscribe",
         NEW c \in Callback, c.source = s, IsSet(HandleOf(c)),
         callbacks' = callbacks \cup {c},
         \A d \in callbacks : HandleOf(d) # HandleOf(c),
         fresh' = [fresh EXCEPT ![s] = HandleOf(c)],
         UNCHANGED <<handle, queued>>
  PROVE  OneOwner'
<1>1. fresh \in [Sources -> Handle] /\ handle \in [Sources -> Handle]
  BY DEF TypeOK
<1>2. ~IsSet(handle[s]) /\ ~IsSet(fresh[s])
  BY DEF BlockControl
<1>3. ASSUME NEW t \in Sources, NEW h \in {handle'[t], fresh'[t]}, IsSet(h)
      PROVE  \E d \in callbacks' : HandleOf(d) = h /\ d.source = t
  <2>1. CASE t = s
    BY <1>1, <1>2, <1>3, <2>1
  <2>2. CASE t # s
    BY <1>1, <1>3, <2>2 DEF OneOwner
  <2> QED BY <2>1, <2>2
<1>4. queued' \subseteq {HandleOf(d) : d \in callbacks'}
  BY DEF OneOwner
<1>5. HandleOf(c) \notin queued
  BY DEF OneOwner
<1>6. ASSUME NEW d \in callbacks
      PROVE  fresh'[d.source] = HandleOf(d) <=> fresh[d.source] = HandleOf(d)
  <2>1. d.source \in Sources /\ IsSet(HandleOf(d))
    BY HandleOfCallback DEF TypeOK, Callback
  <2> QED BY <1>1, <1>2, <2>1
<1>7. fresh'[c.source] = HandleOf(c) /\ handle'[c.source] # HandleOf(c)
  BY <1>1, <1>2
<1> QED BY <1>3, <1>4, <1>5, <1>6, <1>7 DEF OneOwner

\* The assignment of the returned handle overwrites a null handle.
LEMMA OwnerAfterAssign ==
  ASSUME TypeOK, Allocation, BlockControl, OneOwner,
         NEW s \in Sources, pc[s] = "assign",
         handle' = [handle EXCEPT ![s] = fresh[s]],
         fresh' = [fresh EXCEPT ![s] = NoHandle],
         UNCHANGED <<callbacks, queued>>
  PROVE  OneOwner'
<1>1. fresh \in [Sources -> Handle] /\ handle \in [Sources -> Handle]
  BY DEF TypeOK
<1>2. ~IsSet(handle[s])
  BY DEF BlockControl
<1>3. ASSUME NEW t \in Sources, NEW h \in {handle'[t], fresh'[t]}, IsSet(h)
      PROVE  \E d \in callbacks' : HandleOf(d) = h /\ d.source = t
  <2>1. h \in {handle[t], fresh[t]}
    BY <1>1, <1>3, NullHandle
  <2> QED BY <1>3, <2>1 DEF OneOwner
<1>4. ASSUME NEW d \in callbacks
      PROVE  \/ /\ handle'[d.source] = handle[d.source]
                /\ fresh'[d.source] = fresh[d.source]
             \/ /\ handle'[d.source] = fresh[d.source]
                /\ handle[d.source] # HandleOf(d)
                /\ fresh'[d.source] # HandleOf(d)
  <2>1. d.source \in Sources /\ IsSet(HandleOf(d))
    BY HandleOfCallback DEF TypeOK, Callback
  <2> QED BY <1>1, <1>2, <2>1, NullHandle
<1>5. queued' \subseteq {HandleOf(d) : d \in callbacks'}
  BY DEF OneOwner
<1> QED BY <1>3, <1>4, <1>5 DEF OneOwner

\* The client's move takes the handle from its source to the queue.
LEMMA OwnerAfterMove ==
  ASSUME TypeOK, Allocation, OneOwner, NEW s \in Sources,
         handle' = [handle EXCEPT ![s] = NoHandle],
         queued' = IF IsSet(handle[s]) THEN queued \cup {handle[s]} ELSE queued,
         UNCHANGED <<callbacks, fresh>>
  PROVE  OneOwner'
<1>1. handle \in [Sources -> Handle]
  BY DEF TypeOK
<1>2. ASSUME NEW t \in Sources, NEW h \in {handle'[t], fresh'[t]}, IsSet(h)
      PROVE  \E d \in callbacks' : HandleOf(d) = h /\ d.source = t
  <2>1. h \in {handle[t], fresh[t]}
    BY <1>1, <1>2, NullHandle
  <2> QED BY <1>2, <2>1 DEF OneOwner
<1>3. queued' \subseteq {HandleOf(d) : d \in callbacks'}
  BY DEF OneOwner
<1>4. ASSUME NEW d \in callbacks
      PROVE  \/ /\ handle'[d.source] = handle[d.source]
                /\ HandleOf(d) \in queued' <=> HandleOf(d) \in queued
             \/ /\ handle[d.source] = HandleOf(d)
                /\ handle'[d.source] # HandleOf(d)
                /\ HandleOf(d) \in queued'
             \/ /\ handle[d.source] # HandleOf(d)
                /\ handle'[d.source] # HandleOf(d)
                /\ HandleOf(d) \in queued' <=> HandleOf(d) \in queued
  <2>1. d.source \in Sources /\ IsSet(HandleOf(d))
    BY HandleOfCallback DEF TypeOK, Callback
  <2>2. CASE d.source = s
    BY <1>1, <2>1, <2>2, NullHandle
  <2>3. CASE d.source # s
    <3>1. HandleOf(d) # handle[s] \/ ~IsSet(handle[s])
      <4>1. SUFFICES ASSUME HandleOf(d) = handle[s], IsSet(handle[s])
                     PROVE  FALSE
        OBVIOUS
      <4>2. PICK c \in callbacks : HandleOf(c) = handle[s] /\ c.source = s
        BY <4>1, HeldHandle
      <4> QED BY <4>1, <4>2, <2>3, HandleIdentifies
    <3> QED BY <1>1, <2>1, <2>3, <3>1
  <2> QED BY <2>2, <2>3
<1> QED BY <1>2, <1>3, <1>4 DEF OneOwner

-----------------------------------------------------------------------------
(* Steps that leave part of the state alone.                               *)

\* MappedWhileUsed depends on the manager's maps and counters only.
LEMMA ManagerFrame ==
  ASSUME Allocation, MappedWhileUsed,
         UNCHANGED <<subscriptions, callbacks, lastSub, lastId>>
  PROVE  Allocation' /\ MappedWhileUsed'
BY DEF Allocation, MappedWhileUsed, Mapped, CallbacksOf

\* OneOwner depends on the callbacks and the holders of handles only.
LEMMA OwnerFrame ==
  ASSUME OneOwner, UNCHANGED <<callbacks, handle, fresh, queued>>
  PROVE  OneOwner'
BY DEF OneOwner

\* IterationIsStable depends on the client's iteration and the maps only.
LEMMA IterationFrame ==
  ASSUME IterationIsStable,
         UNCHANGED <<subscriptions, callbacks, clientPc, clientUri, todo>>
  PROVE  IterationIsStable'
BY DEF IterationIsStable, ClientHoldsLock, CallbacksOf

\* The exclusive lock is taken only when the client does not iterate.
LEMMA IterationOutside ==
  ASSUME ~ClientHoldsLock, UNCHANGED clientPc
  PROVE  IterationIsStable'
BY DEF IterationIsStable, ClientHoldsLock

-----------------------------------------------------------------------------
(* The inductive invariant.                                                *)

\* The invariant holds initially: nothing is subscribed and every thread is idle.
LEMMA InitInvariant == Init => IInv
<1> SUFFICES ASSUME Init PROVE IInv
  OBVIOUS
<1>1. TypeOK
  BY SubscriptionAssumption
     DEF Init, TypeOK, BlockPcs, ClientPcs, NoHandle, Handle
<1>2. Allocation /\ MappedWhileUsed
  BY DEF Init, Allocation, MappedWhileUsed
<1>3. BlockControl
  BY DEF Init, BlockControl, IsSet, NoHandle
<1>4. OneOwner /\ IterationIsStable
  BY DEF Init, OneOwner, IsSet, NoHandle, IterationIsStable, ClientHoldsLock
<1> QED BY <1>1, <1>2, <1>3, <1>4 DEF IInv

\* The environment: settings, starts and stops of a source, errors.
LEMMA EnvironmentInvariant == IInv /\ Environment => IInv'
<1> SUFFICES ASSUME IInv, Environment PROVE IInv'
  OBVIOUS
<1> USE DEF IInv
<1>1. ASSUME NEW s \in Sources, NEW u \in Uris \cup {None}, SettingsChanged(s, u)
      PROVE  IInv'
  <2> USE <1>1 DEF SettingsChanged, managerVars, clientVars, Event, Goto
  <2>1. TypeOK'
    <3>1. CASE u = None
      BY <3>1 DEF TypeOK, BlockPcs
    <3>2. CASE u # None
      <4>1. /\ pc' \in [Sources -> BlockPcs] /\ restart' \in [Sources -> BOOLEAN]
            /\ remote_uri' \in [Sources -> Uris \cup {None}]
        BY <3>2 DEF TypeOK, BlockPcs
      <4> QED BY <4>1 DEF TypeOK
    <3> QED BY <3>1, <3>2
  <2>2. BlockControl'
    BY DEF BlockControl, TypeOK
  <2> QED BY <2>1, <2>2, ManagerFrame, OwnerFrame, IterationFrame
<1>2. ASSUME NEW s \in Sources, Start(s) PROVE IInv'
  <2> USE <1>2 DEF Start, managerVars, clientVars, Event, Goto
  <2>1. TypeOK'
    BY DEF TypeOK, BlockPcs
  <2>2. BlockControl'
    BY DEF BlockControl, TypeOK
  <2> QED BY <2>1, <2>2, ManagerFrame, OwnerFrame, IterationFrame
<1>3. ASSUME NEW s \in Sources, Stop(s) PROVE IInv'
  <2> USE <1>3 DEF Stop, managerVars, clientVars, Event, Goto
  <2>1. TypeOK'
    BY DEF TypeOK, BlockPcs
  <2>2. BlockControl'
    BY DEF BlockControl, TypeOK
  <2> QED BY <2>1, <2>2, ManagerFrame, OwnerFrame, IterationFrame
<1>4. ASSUME NEW u \in Uris, Error(u) PROVE IInv'
  <2> USE <1>4 DEF Error, sourceVars, Event
  <2>1. TypeOK'
    BY SubscriptionAssumption DEF TypeOK, ClientPcs
  <2>2. BlockControl'
    BY DEF BlockControl
  <2>3. IterationIsStable'
    BY DEF IterationIsStable, ClientHoldsLock
  <2> QED BY <2>1, <2>2, <2>3, ManagerFrame, OwnerFrame
<1> QED BY <1>1, <1>2, <1>3, <1>4, SubscriptionAssumption DEF Environment

\* The steps of a block thread.
LEMMA BlockInvariant ==
  ASSUME IInv, NEW s \in Sources, BlockStep(s)
  PROVE  IInv'
<1> USE DEF IInv
<1>1. CASE MaybeReconnect(s)
  <2> USE <1>1 DEF MaybeReconnect, managerVars, clientVars, Thread, Goto
  <2>1. TypeOK'
    BY DEF TypeOK, BlockPcs
  <2>2. BlockControl'
    BY DEF BlockControl, TypeOK
  <2> QED BY <2>1, <2>2, ManagerFrame, OwnerFrame, IterationFrame
<1>2. CASE ResetCheck(s)
  <2> USE <1>2 DEF ResetCheck, managerVars, clientVars, Thread, Goto, AfterReset
  <2>1. TypeOK'
    BY DEF TypeOK, BlockPcs
  <2>2. BlockControl'
    BY DEF BlockControl, TypeOK
  <2> QED BY <2>1, <2>2, ManagerFrame, OwnerFrame, IterationFrame
<1>3. CASE ResetLocked(s)
  <2> USE <1>3 DEF ResetLocked, ResetBody, Thread, Goto
  <2>1. CASE handle[s].sub \in Mapped
    <3>1. IsSet(handle[s])
      BY <2>1 DEF Mapped, IsSet
    <3>2. PICK c \in callbacks : HandleOf(c) = handle[s] /\ c.source = s
      BY <3>1, HeldHandle
    <3>3. Unregister(HandleOf(c)) /\ handle' = [handle EXCEPT ![s] = NoHandle]
          /\ pc' = [pc EXCEPT ![s] = AfterReset(s)] /\ ub' = ub
      BY <2>1, <3>2
    <3>4. /\ callbacks' = callbacks \ {c}
          /\ subscriptions' \in [Uris -> Nat] /\ connected' \in [Uris -> BOOLEAN]
          /\ lastSub' = lastSub /\ lastId' = lastId
          /\ Allocation' /\ MappedWhileUsed'
      BY <3>3, UnregisterOne
    <3>5. TypeOK'
      BY <3>3, <3>4, NullHandle DEF TypeOK, BlockPcs, clientVars, AfterReset
    <3>6. BlockControl'
      BY <3>3, NullHandle DEF BlockControl, TypeOK, AfterReset
    <3>7. OneOwner'
      BY <3>2, <3>3, <3>4, OwnerAfterReset DEF clientVars
    <3>8. IterationIsStable'
      BY IterationOutside DEF clientVars
    <3> QED BY <3>4, <3>5, <3>6, <3>7, <3>8
  <2>2. CASE handle[s].sub \notin Mapped
    <3> USE <2>2 DEF managerVars, clientVars
    <3>1. TypeOK'
      BY DEF TypeOK
    <3>2. BlockControl'
      BY DEF BlockControl
    <3> QED BY <3>1, <3>2, ManagerFrame, OwnerFrame, IterationFrame
  <2> QED BY <2>1, <2>2
<1>4. CASE StartCheck(s)
  <2> USE <1>4 DEF StartCheck, managerVars, clientVars, Thread, Goto
  <2>1. TypeOK'
    BY DEF TypeOK, BlockPcs
  <2>2. BlockControl'
    BY DEF BlockControl, TypeOK
  <2> QED BY <2>1, <2>2, ManagerFrame, OwnerFrame, IterationFrame
<1>5. CASE Subscribe(s)
  <2> USE <1>5 DEF Subscribe, Thread, Goto
  <2>1. remote_uri[s] \in Uris
    BY DEF BlockControl, TypeOK
  <2>2. PICK c \in Callback :
          /\ callbacks' = callbacks \cup {c} /\ c \notin callbacks
          /\ c.source = s /\ fresh' = [fresh EXCEPT ![s] = HandleOf(c)]
          /\ \A d \in callbacks : HandleOf(d) # HandleOf(c)
    BY <2>1, RegisterOne
  <2>3. /\ subscriptions' \in [Uris -> Nat] /\ connected' \in [Uris -> BOOLEAN]
        /\ lastSub' \in Nat /\ lastId' \in Nat
        /\ Allocation' /\ MappedWhileUsed'
    BY <2>1, RegisterOne
  <2>4. IsSet(HandleOf(c)) /\ HandleOf(c) \in Handle
    BY <2>2, <2>3 DEF Allocation, HandleOf, IsSet, Callback, Handle
  <2>5. TypeOK'
    BY <2>2, <2>3, <2>4 DEF TypeOK, BlockPcs, clientVars
  <2>6. BlockControl'
    BY <2>2, <2>4 DEF BlockControl, TypeOK
  <2>7. OneOwner'
    BY <2>2, <2>4, OwnerAfterSubscribe DEF clientVars
  <2>8. IterationIsStable'
    BY IterationOutside DEF clientVars
  <2> QED BY <2>3, <2>5, <2>6, <2>7, <2>8
<1>6. CASE AssignSubscription(s)
  <2> USE <1>6 DEF AssignSubscription, managerVars, clientVars, Thread, Goto
  <2>1. TypeOK'
    BY NullHandle DEF TypeOK, BlockPcs
  <2>2. BlockControl'
    BY NullHandle DEF BlockControl, TypeOK
  <2>3. OneOwner'
    BY OwnerAfterAssign
  <2> QED BY <2>1, <2>2, <2>3, ManagerFrame, IterationFrame
<1>7. CASE AssignId(s)
  <2> USE <1>7 DEF AssignId, managerVars, clientVars, Thread, Goto
  <2>1. TypeOK'
    BY DEF TypeOK, BlockPcs
  <2>2. BlockControl'
    BY DEF BlockControl, TypeOK
  <2> QED BY <2>1, <2>2, ManagerFrame, OwnerFrame, IterationFrame
<1>8. CASE ReconnectCheck(s)
  <2> USE <1>8 DEF ReconnectCheck, managerVars, clientVars, Thread, Goto
  <2>1. TypeOK'
    BY DEF TypeOK, BlockPcs
  <2>2. BlockControl'
    BY DEF BlockControl, TypeOK
  <2> QED BY <2>1, <2>2, ManagerFrame, OwnerFrame, IterationFrame
<1>9. CASE ReconnectLocked(s)
  <2> USE <1>9 DEF ReconnectLocked, clientVars, Thread, Goto
  <2>1. TypeOK'
    BY DEF TypeOK, BlockPcs
  <2>2. BlockControl'
    BY DEF BlockControl, TypeOK
  <2> QED BY <2>1, <2>2, ManagerFrame, OwnerFrame, IterationFrame
<1> QED BY <1>1, <1>2, <1>3, <1>4, <1>5, <1>6, <1>7, <1>8, <1>9 DEF BlockStep

\* The steps of the client thread.
LEMMA ClientInvariant == IInv /\ ClientStep => IInv'
<1> SUFFICES ASSUME IInv, ClientStep PROVE IInv'
  OBVIOUS
<1> USE DEF IInv
<1>1. CASE ClientEnter
  <2> USE <1>1 DEF ClientEnter, managerVars, sourceVars, Thread
  <2>1. TypeOK'
    BY DEF TypeOK, ClientPcs, CallbacksOf
  <2>2. BlockControl'
    BY DEF BlockControl
  <2>3. IterationIsStable'
    BY DEF IterationIsStable, ClientHoldsLock, CallbacksOf
  <2> QED BY <2>1, <2>2, <2>3, ManagerFrame, OwnerFrame
<1>2. ASSUME NEW c \in todo, ClientArmTimer(c) PROVE IInv'
  <2> USE <1>2 DEF ClientArmTimer, managerVars, Thread
  <2>1. c \in Callback /\ c.source \in Sources
    BY DEF TypeOK, Callback
  <2>2. TypeOK'
    BY <2>1, SubscriptionAssumption DEF TypeOK, ClientPcs
  <2>3. BlockControl'
    BY DEF BlockControl
  <2>4. IterationIsStable'
    BY DEF IterationIsStable, ClientHoldsLock, CallbacksOf
  <2> QED BY <2>2, <2>3, <2>4, ManagerFrame, OwnerFrame
<1>3. CASE ClientMoveSubscription
  <2> USE <1>3 DEF ClientMoveSubscription, managerVars, Thread
  <2>1. caller \in Sources
    BY DEF TypeOK
  <2>2. TypeOK'
    BY <2>1, NullHandle DEF TypeOK, ClientPcs
  <2>3. BlockControl'
    BY <2>1, NullHandle DEF BlockControl, TypeOK
  <2>4. OneOwner'
    BY <2>1, OwnerAfterMove
  <2>5. IterationIsStable'
    BY DEF IterationIsStable, ClientHoldsLock, CallbacksOf
  <2> QED BY <2>2, <2>3, <2>4, <2>5, ManagerFrame
<1>4. CASE ClientMoveId
  <2> USE <1>4 DEF ClientMoveId, managerVars, sourceVars, Thread
  <2>1. TypeOK'
    BY DEF TypeOK, ClientPcs
  <2>2. BlockControl'
    BY DEF BlockControl
  <2>3. IterationIsStable'
    BY DEF IterationIsStable, ClientHoldsLock, CallbacksOf
  <2> QED BY <2>1, <2>2, <2>3, ManagerFrame, OwnerFrame
<1>5. CASE ClientUnlock
  <2> USE <1>5 DEF ClientUnlock, managerVars, sourceVars, Thread
  <2>1. TypeOK'
    BY DEF TypeOK, ClientPcs
  <2>2. BlockControl'
    BY DEF BlockControl
  <2>3. IterationIsStable'
    BY DEF IterationIsStable, ClientHoldsLock
  <2> QED BY <2>1, <2>2, <2>3, ManagerFrame, OwnerFrame
<1>6. ASSUME NEW h \in queued, ClientRelease(h) PROVE IInv'
  <2> USE <1>6 DEF ClientRelease, sourceVars, Thread
  <2>1. PICK c \in callbacks : HandleOf(c) = h
    BY DEF OneOwner
  <2>2. h.sub \in Mapped
    BY <2>1 DEF MappedWhileUsed, HandleOf
  <2>3. Unregister(HandleOf(c)) /\ ub' = ub
    BY <2>1, <2>2
  <2>4. /\ callbacks' = callbacks \ {c}
        /\ subscriptions' \in [Uris -> Nat] /\ connected' \in [Uris -> BOOLEAN]
        /\ lastSub' = lastSub /\ lastId' = lastId
        /\ Allocation' /\ MappedWhileUsed'
    BY <2>3, UnregisterOne
  <2>5. TypeOK'
    BY <2>3, <2>4 DEF TypeOK, ClientPcs
  <2>6. BlockControl'
    BY DEF BlockControl
  <2>7. OneOwner'
    BY <2>1, <2>4, OwnerAfterRelease
  <2>8. IterationIsStable'
    BY DEF IterationIsStable, ClientHoldsLock
  <2> QED BY <2>4, <2>5, <2>6, <2>7, <2>8
<1> QED BY <1>1, <1>2, <1>3, <1>4, <1>5, <1>6 DEF ClientStep

\* Every step preserves the inductive invariant.
LEMMA NextInvariant == IInv /\ [Next]_vars => IInv'
<1> SUFFICES ASSUME IInv, [Next]_vars PROVE IInv'
  OBVIOUS
<1>1. CASE Environment
  BY <1>1, EnvironmentInvariant
<1>2. ASSUME NEW s \in Sources, BlockStep(s) PROVE IInv'
  BY <1>2, BlockInvariant
<1>3. ASSUME NEW s \in Sources, TimerExpires(s) PROVE IInv'
  <2> USE <1>3 DEF IInv, TimerExpires, managerVars, clientVars, Thread
  <2>1. TypeOK'
    BY DEF TypeOK
  <2>2. BlockControl'
    BY DEF BlockControl
  <2> QED BY <2>1, <2>2, ManagerFrame, OwnerFrame, IterationFrame
<1>4. CASE ClientStep
  BY <1>4, ClientInvariant
<1>5. CASE UNCHANGED vars
  <2> USE <1>5 DEF IInv, vars, managerVars, sourceVars, clientVars
  <2>1. TypeOK'
    BY DEF TypeOK
  <2>2. BlockControl'
    BY DEF BlockControl
  <2> QED BY <2>1, <2>2, ManagerFrame, OwnerFrame, IterationFrame
<1> QED BY <1>1, <1>2, <1>3, <1>4, <1>5 DEF Next, Rest

-----------------------------------------------------------------------------
(* The theorems.                                                           *)

\* The inductive invariant holds throughout: types, allocation, control points of
\* the block threads, mapped subscriptions, owned handles and the iteration.
THEOREM Invariant == Spec => []IInv
BY InitInvariant, NextInvariant, PTL DEF Spec

\* Type correctness: in particular the client never queues a null handle, and
\* holds a topic and a calling source exactly while it needs them.
THEOREM TypeCorrect == Spec => []TypeOK
<1>1. IInv => TypeOK
  BY DEF IInv
<1> QED BY <1>1, Invariant, PTL

\* A subscription is mapped exactly as long as it has a callback: reset erases
\* the last one's entry and subscribe never registers on a destroyed object.
THEOREM SubscriptionsAreMapped == Spec => []MappedWhileUsed
<1>1. IInv => MappedWhileUsed
  BY DEF IInv
<1> QED BY <1>1, Invariant, PTL

\* Registered callbacks and the handles in sources, in flight and in the
\* client's queue correspond one to one, whatever the threads interleave.
THEOREM HandlesAreOwned == Spec => []OneOwner
<1>1. IInv => OneOwner
  BY DEF IInv
<1> QED BY <1>1, Invariant, PTL

\* The shared lock keeps the subscription and the callbacks the client thread
\* iterates over.
THEOREM IterationIsProtected == Spec => []IterationIsStable
<1>1. IInv => IterationIsStable
  BY DEF IInv
<1> QED BY <1>1, Invariant, PTL

-----------------------------------------------------------------------------
(* Sources that get their data.                                            *)

\* No topic is subscribed to by two sources.
Unshared ==
  \A s, t \in Sources : s # t => UriChoices[s] \cap UriChoices[t] = {}

\* The REST client listens to the topic of c, or a reconnect of c's source is on its
\* way: its block thread does it, its timer is set, or the client will set it.
Covered(c) ==
  \/ \E u \in Uris : connected[u] /\ subscriptions[u] = c.sub
  \/ timer[c.source] # "off"
  \/ pc[c.source] \in {"reconnect", "reconnectLocked"}
  \/ clientPc = "enter" /\ subscriptions[clientUri] = c.sub
  \/ c \in todo

\* A source joins a subscription that has gone silent only while its timer is set:
\* the callback that keeps the subscription is its own one, in the client's queue.
ServedInv ==
  /\ \A s \in Sources : remote_uri[s] \in UriChoices[s] \cup {None}
  /\ \A c \in callbacks, u \in Uris : subscriptions[u] = c.sub => u \in UriChoices[c.source]
  /\ queued # {} => ClientHoldsLock \/ clientPc = "release"
  /\ todo # {} => ClientHoldsLock
  /\ \A c \in callbacks : HandleOf(c) \in queued => timer[c.source] = "armed"
  /\ clientPc = "moveSub" => timer[caller] = "armed"
  /\ \A c \in callbacks : HandleOf(c) \notin queued => Covered(c)
\* Steps that keep the callbacks, the client where it is, and every reconnect that
\* somebody needs on its way.
LEMMA ServedFrame ==
  ASSUME TypeOK, ServedInv,
         UNCHANGED <<subscriptions, callbacks, queued, clientPc, clientUri, caller, todo>>,
         \A s \in Sources : remote_uri'[s] \in UriChoices[s] \cup {None},
         \A u \in Uris : connected[u] => connected'[u],
         \A s \in Sources : timer[s] = "armed" /\ timer'[s] # "armed" => clientPc = "idle",
         \A c \in callbacks :
           HandleOf(c) \notin queued
             /\ (timer[c.source] # "off" \/ pc[c.source] \in {"reconnect", "reconnectLocked"})
                => Covered(c)'
  PROVE  ServedInv'
<1>1. \A c \in callbacks : c.source \in Sources
  BY DEF TypeOK, Callback
<1>2. ASSUME NEW c \in callbacks, HandleOf(c) \notin queued PROVE Covered(c)'
  BY <1>2 DEF ServedInv, Covered
<1>3. ASSUME NEW c \in callbacks, HandleOf(c) \in queued PROVE timer'[c.source] = "armed"
  <2>1. clientPc # "idle" /\ timer[c.source] = "armed"
    BY <1>3 DEF ServedInv, ClientHoldsLock
  <2> QED BY <1>1, <2>1
<1>4. ASSUME clientPc = "moveSub" PROVE timer'[caller] = "armed"
  <2>1. caller \in Sources
    BY <1>4 DEF TypeOK
  <2> QED BY <1>4, <2>1 DEF ServedInv
<1> QED BY <1>2, <1>3, <1>4 DEF ServedInv, ClientHoldsLock

\* A callback that is not queued is designated by its source, at rest or in flight.
LEMMA HeldCallback ==
  ASSUME OneOwner, NEW c \in callbacks, HandleOf(c) \notin queued
  PROVE  handle[c.source] = HandleOf(c) \/ fresh[c.source] = HandleOf(c)
BY DEF OneOwner

\* What is left on a subscription keeps it, and its connection.
LEMMA UnregisterKeeps ==
  ASSUME TypeOK, NEW h, Unregister(h), NEW d \in callbacks', d.sub # 0, NEW u \in Uris
  PROVE  /\ subscriptions'[u] = d.sub <=> subscriptions[u] = d.sub
         /\ subscriptions[u] = d.sub => connected'[u] = connected[u]
<1> DEFINE rest == {c \in callbacks : HandleOf(c) # h}
           last == \A c \in rest : c.sub # h.sub
           gone == {v \in Uris : last /\ subscriptions[v] = h.sub}
<1>1. /\ callbacks' = rest
      /\ subscriptions'[u] = IF u \in gone THEN 0 ELSE subscriptions[u]
      /\ connected'[u] = (u \notin gone /\ connected[u])
  BY DEF Unregister
<1>2. u \in gone => subscriptions[u] # d.sub
  BY <1>1
<1>3. connected[u] \in BOOLEAN
  BY DEF TypeOK
<1> HIDE DEF gone
<1> QED BY <1>1, <1>2, <1>3

\* The environment and time.
LEMMA ServedOutside ==
  ASSUME PromptClient, IInv, ServedInv,
         Environment \/ (\E s \in Sources : TimerExpires(s)) \/ UNCHANGED vars
  PROVE  ServedInv'
<1> USE SubscriptionAssumption
<1>a. /\ TypeOK /\ pc \in [Sources -> BlockPcs] /\ timer \in [Sources -> {"off", "armed", "due"}]
      /\ remote_uri \in [Sources -> Uris \cup {None}]
      /\ \A c \in callbacks : c.source \in Sources
  BY DEF IInv, TypeOK, Callback
<1>b. \A s \in Sources : remote_uri[s] \in UriChoices[s] \cup {None}
  BY DEF ServedInv
<1>1. ASSUME NEW s \in Sources, NEW u \in UriChoices[s] \cup {None},
             SettingsChanged(s, u) \/ Start(s) \/ Stop(s)
      PROVE  ServedInv'
  <2>1. /\ UNCHANGED <<subscriptions, connected, callbacks, queued, clientPc, clientUri,
                       caller, todo, timer>>
        /\ pc[s] = "idle" /\ \A t \in Sources : t # s => pc'[t] = pc[t]
        /\ remote_uri' = remote_uri \/ remote_uri' = [remote_uri EXCEPT ![s] = u]
    BY <1>1, <1>a DEF SettingsChanged, Start, Stop, Goto, managerVars, clientVars
  <2>2. \A t \in Sources : remote_uri'[t] \in UriChoices[t] \cup {None}
    BY <1>a, <1>b, <2>1
  <2>3. ASSUME NEW c \in callbacks, HandleOf(c) \notin queued,
               timer[c.source] # "off" \/ pc[c.source] \in {"reconnect", "reconnectLocked"}
        PROVE  Covered(c)'
    BY <1>a, <2>1, <2>3 DEF Covered
  <2> QED BY <1>a, <2>1, <2>2, <2>3, ServedFrame
<1>2. ASSUME NEW u \in Uris, Error(u) PROVE ServedInv'
  <2>1. /\ UNCHANGED <<subscriptions, callbacks, timer, pc, remote_uri, todo, caller, queued>>
        /\ \A v \in Uris : v # u => connected'[v] = connected[v]
        /\ clientPc = "idle" /\ clientPc' = "enter" /\ clientUri' = u
    BY <1>2 DEF Error, sourceVars, IInv, TypeOK
  <2>2. queued = {}
    BY <2>1 DEF ServedInv, ClientHoldsLock
  <2>3. ASSUME NEW c \in callbacks PROVE Covered(c)'
    <3>1. Covered(c)
      BY <2>2 DEF ServedInv
    <3> QED BY <2>1, <3>1 DEF Covered
  <2> QED BY <1>b, <2>1, <2>2, <2>3 DEF ServedInv, ClientHoldsLock
<1>3. ASSUME NEW s \in Sources, TimerExpires(s) PROVE ServedInv'
  <2>1. /\ UNCHANGED <<subscriptions, connected, callbacks, queued, clientPc, clientUri,
                       caller, todo, remote_uri, pc>>
        /\ clientPc = "idle" /\ timer' = [timer EXCEPT ![s] = "due"]
    BY <1>3 DEF TimerExpires, managerVars, clientVars
  <2>2. ASSUME NEW c \in callbacks, HandleOf(c) \notin queued,
               timer[c.source] # "off" \/ pc[c.source] \in {"reconnect", "reconnectLocked"}
        PROVE  Covered(c)'
    <3>1. timer'[c.source] = timer[c.source] \/ timer'[c.source] = "due"
      BY <1>a, <2>1
    <3> QED BY <2>1, <2>2, <3>1 DEF Covered
  <2> QED BY <1>a, <1>b, <2>1, <2>2, ServedFrame
<1>4. CASE UNCHANGED vars
  <2>1. UNCHANGED <<subscriptions, connected, callbacks, queued, clientPc, clientUri,
                    caller, todo, remote_uri, pc, timer>>
    BY <1>4 DEF vars, managerVars, sourceVars, clientVars
  <2>2. \A c \in callbacks :
          timer[c.source] # "off" \/ pc[c.source] \in {"reconnect", "reconnectLocked"}
            => Covered(c)'
    BY <2>1 DEF Covered
  <2> QED BY <1>a, <1>b, <2>1, <2>2, ServedFrame
<1> QED BY <1>1, <1>2, <1>3, <1>4 DEF Environment

\* The block threads.
LEMMA ServedByBlock ==
  ASSUME Unshared, IInv, ServedInv, NEW s \in Sources, BlockStep(s)
  PROVE  ServedInv'
<1> USE SubscriptionAssumption
<1>a. /\ TypeOK /\ Allocation /\ BlockControl /\ MappedWhileUsed /\ OneOwner
      /\ pc \in [Sources -> BlockPcs] /\ timer \in [Sources -> {"off", "armed", "due"}]
      /\ remote_uri \in [Sources -> Uris \cup {None}]
      /\ \A c \in callbacks : c.source \in Sources
  BY DEF IInv, TypeOK, Callback
<1>b. \A t \in Sources : remote_uri[t] \in UriChoices[t] \cup {None}
  BY DEF ServedInv
<1>1. CASE ResetCheck(s) \/ StartCheck(s) \/ AssignSubscription(s) \/ AssignId(s)
  <2>1. /\ UNCHANGED <<subscriptions, connected, callbacks, queued, clientPc, clientUri,
                       caller, todo, remote_uri, timer>>
        /\ pc[s] \in {"reset", "start", "assign", "assignId"}
        /\ \A t \in Sources : t # s => pc'[t] = pc[t]
    BY <1>1, <1>a DEF ResetCheck, StartCheck, AssignSubscription, AssignId, Goto,
                      managerVars, clientVars
  <2>2. ASSUME NEW c \in callbacks, HandleOf(c) \notin queued,
               timer[c.source] # "off" \/ pc[c.source] \in {"reconnect", "reconnectLocked"}
        PROVE  Covered(c)'
    BY <1>a, <2>1, <2>2 DEF Covered
  <2> QED BY <1>a, <1>b, <2>1, <2>2, ServedFrame
<1>2. CASE MaybeReconnect(s) \/ ReconnectCheck(s)
  <2>1. /\ UNCHANGED <<subscriptions, connected, callbacks, queued, clientPc, clientUri,
                       caller, todo, remote_uri>>
        /\ \A t \in Sources : t # s => pc'[t] = pc[t] /\ timer'[t] = timer[t]
        /\ timer'[s] = timer[s] \/ timer[s] = "due"
        /\ pc[s] \in {"idle", "reconnect"}
        /\ IsSet(handle[s]) => pc'[s] \in {"reconnect", "reconnectLocked"}
    BY <1>2, <1>a DEF MaybeReconnect, ReconnectCheck, Goto, managerVars, clientVars
  <2>2. ASSUME NEW c \in callbacks, HandleOf(c) \notin queued,
               timer[c.source] # "off" \/ pc[c.source] \in {"reconnect", "reconnectLocked"}
        PROVE  Covered(c)'
    <3>1. CASE c.source = s
      <4>1. IsSet(HandleOf(c)) /\ ~IsSet(fresh[s])
        BY <1>a, <2>1, HandleOfCallback DEF BlockControl
      <4>2. IsSet(handle[s])
        BY <1>a, <2>2, <3>1, <4>1, HeldCallback
      <4> QED BY <2>1, <3>1, <4>2 DEF Covered
    <3>2. CASE c.source # s
      BY <1>a, <2>1, <2>2, <3>2 DEF Covered
    <3> QED BY <3>1, <3>2
  <2> QED BY <1>a, <1>b, <2>1, <2>2, ServedFrame
<1>3. CASE ReconnectLocked(s)
  <2>1. /\ UNCHANGED <<subscriptions, callbacks, queued, clientPc, clientUri, caller,
                       todo, remote_uri, timer>>
        /\ pc[s] = "reconnectLocked" /\ \A t \in Sources : t # s => pc'[t] = pc[t]
        /\ \/ /\ handle[s].sub \in Mapped
              /\ connected' = [connected EXCEPT ![UriOf(handle[s].sub)] = TRUE]
           \/ UNCHANGED <<connected, pc>>
    BY <1>3, <1>a DEF ReconnectLocked, Goto, clientVars
  <2>2. \A u \in Uris : connected[u] => connected'[u]
    BY <1>a, <2>1 DEF TypeOK
  <2>3. ASSUME NEW c \in callbacks, HandleOf(c) \notin queued,
               timer[c.source] # "off" \/ pc[c.source] \in {"reconnect", "reconnectLocked"}
        PROVE  Covered(c)'
    <3>1. CASE c.source = s /\ pc' # pc
      <4>1. IsSet(HandleOf(c)) /\ ~IsSet(fresh[s])
        BY <1>a, <2>1, HandleOfCallback DEF BlockControl
      <4>2. handle[s] = HandleOf(c)
        BY <1>a, <2>3, <3>1, <4>1, HeldCallback
      <4>3. handle[s].sub = c.sub
        BY <4>2 DEF HandleOf
      <4>4. c.sub \in Mapped
        BY <1>a DEF MappedWhileUsed
      <4>5. UriOf(c.sub) \in Uris /\ subscriptions[UriOf(c.sub)] = c.sub
        BY <4>4 DEF Mapped, UriOf
      <4>6. connected'[UriOf(c.sub)]
        BY <1>a, <2>1, <3>1, <4>3, <4>5 DEF TypeOK
      <4> QED BY <2>1, <4>5, <4>6 DEF Covered
    <3>2. CASE c.source # s \/ pc' = pc
      BY <1>a, <2>1, <2>3, <3>2 DEF Covered
    <3> QED BY <3>1, <3>2
  <2> QED BY <1>a, <1>b, <2>1, <2>2, <2>3, ServedFrame
<1>4. CASE ResetLocked(s)
  <2>1. CASE handle[s].sub \in Mapped
    <3>1. IsSet(handle[s])
      BY <2>1 DEF Mapped, IsSet
    <3>2. PICK d \in callbacks : HandleOf(d) = handle[s] /\ d.source = s
      BY <1>a, <3>1, HeldHandle
    <3>3. /\ UNCHANGED <<queued, clientPc, clientUri, caller, todo, remote_uri, timer>>
          /\ pc[s] = "resetLocked" /\ \A t \in Sources : t # s => pc'[t] = pc[t]
          /\ Unregister(HandleOf(d)) /\ ~ClientHoldsLock
      BY <1>4, <1>a, <2>1, <3>2 DEF ResetLocked, ResetBody, Goto, clientVars
    <3>4. callbacks' = callbacks \ {d}
      BY <1>a, <3>3, UnregisterOne
    <3>5. \A c \in callbacks' : \A u \in Uris :
            /\ c \in callbacks /\ c.sub # 0
            /\ subscriptions'[u] = c.sub <=> subscriptions[u] = c.sub
            /\ subscriptions[u] = c.sub => connected'[u] = connected[u]
      BY <1>a, <3>3, <3>4, UnregisterKeeps DEF Allocation
    <3>6. ASSUME NEW c \in callbacks', HandleOf(c) \notin queued PROVE Covered(c)'
      <4>1. Covered(c) /\ c \in callbacks
        BY <3>4, <3>6 DEF ServedInv
      <4>2. clientPc = "enter" => clientUri \in Uris
        BY <1>a DEF TypeOK
      <4> QED BY <1>a, <3>3, <3>5, <4>1, <4>2 DEF Covered
    <3> QED BY <1>b, <3>3, <3>4, <3>5, <3>6 DEF ServedInv, ClientHoldsLock
  <2>2. CASE handle[s].sub \notin Mapped
    <3>1. UNCHANGED <<subscriptions, connected, callbacks, queued, clientPc, clientUri,
                      caller, todo, remote_uri, timer, pc>>
      BY <1>4, <2>2 DEF ResetLocked, ResetBody, managerVars, clientVars
    <3>2. \A c \in callbacks :
            timer[c.source] # "off" \/ pc[c.source] \in {"reconnect", "reconnectLocked"}
              => Covered(c)'
      BY <3>1 DEF Covered
    <3> QED BY <1>a, <1>b, <3>1, <3>2, ServedFrame
  <2> QED BY <2>1, <2>2
<1>5. CASE Subscribe(s)
  <2> DEFINE u == remote_uri[s]
  <2>1. /\ u \in Uris /\ u \in UriChoices[s] /\ ~IsSet(handle[s]) /\ ~IsSet(fresh[s])
        /\ UNCHANGED <<queued, clientPc, clientUri, caller, todo, remote_uri, timer>>
        /\ pc[s] = "subscribe" /\ \A t \in Sources : t # s => pc'[t] = pc[t]
        /\ Register(s, u) /\ ~ClientHoldsLock
    BY <1>5, <1>a, <1>b DEF Subscribe, Goto, clientVars, BlockControl
  <2> HIDE DEF u
  <2>2. PICK c \in Callback :
          /\ callbacks' = callbacks \cup {c} /\ c \notin callbacks
          /\ c.source = s /\ fresh' = [fresh EXCEPT ![s] = HandleOf(c)]
          /\ \A d \in callbacks : HandleOf(d) # HandleOf(c)
          /\ \A v \in Uris : subscriptions[v] # 0 => subscriptions'[v] = subscriptions[v]
    BY <1>a, <2>1, RegisterOne
  <2>3. Allocation' /\ MappedWhileUsed'
    BY <1>a, <2>1, RegisterOne
  <2>4. /\ \A v \in Uris : v # u => subscriptions'[v] = subscriptions[v]
                                    /\ connected'[v] = connected[v]
        /\ connected[u] => connected'[u]
        /\ subscriptions[u] = 0 => connected'[u]
        /\ \A v \in Uris : connected[v] => connected'[v]
    BY <1>a, <2>1 DEF Register, TypeOK
  <2>5. subscriptions'[u] = c.sub
    <3>1. /\ subscriptions' = [subscriptions EXCEPT ![u] =
                                 IF subscriptions[u] = 0 THEN lastSub + 1 ELSE subscriptions[u]]
          /\ fresh' = [fresh EXCEPT ![s] =
                         [sub |-> IF subscriptions[u] = 0 THEN lastSub + 1 ELSE subscriptions[u],
                          id |-> lastId]]
      BY <2>1 DEF Register
    <3>2. fresh'[s].sub = subscriptions'[u]
      BY <1>a, <2>1, <3>1 DEF TypeOK
    <3>3. fresh'[s] = HandleOf(c)
      BY <1>a, <2>2 DEF TypeOK
    <3> QED BY <3>2, <3>3 DEF HandleOf
  <2>6. ASSUME NEW d \in callbacks, NEW v \in Uris, subscriptions'[v] = d.sub
        PROVE  subscriptions[v] = d.sub
    <3>1. d.sub # 0 /\ d.sub \in Mapped
      BY <1>a DEF Allocation, MappedWhileUsed
    <3>2. PICK w \in Uris : subscriptions[w] = d.sub
      BY <3>1 DEF Mapped
    <3>3. subscriptions'[w] = d.sub
      BY <2>2, <3>1, <3>2
    <3>4. w = v
      BY <2>3, <2>6, <3>1, <3>3 DEF Allocation
    <3> QED BY <3>2, <3>4
  <2>7. ASSUME NEW d \in callbacks', NEW v \in Uris, subscriptions'[v] = d.sub
        PROVE  v \in UriChoices[d.source]
    <3>1. CASE d \in callbacks
      BY <2>6, <2>7, <3>1 DEF ServedInv
    <3>2. CASE d = c
      <4>1. d.sub # 0
        BY <2>3 DEF Allocation
      <4>2. v = u
        BY <2>1, <2>3, <2>5, <2>7, <3>2, <4>1 DEF Allocation
      <4> QED BY <2>1, <2>2, <3>2, <4>2
    <3> QED BY <2>2, <3>1, <3>2
  <2>8. HandleOf(c) \notin queued
    BY <1>a, <2>2 DEF OneOwner
  <2>9. Covered(c)'
    <3>1. CASE subscriptions[u] = 0
      BY <2>1, <2>4, <2>5, <3>1 DEF Covered
    <3>2. CASE subscriptions[u] # 0
      <4>1. PICK d \in callbacks : d.sub = subscriptions[u]
        BY <1>a, <2>1, <3>2 DEF MappedWhileUsed, CallbacksOf
      <4>2. u \in UriChoices[d.source] /\ d.source \in Sources
        BY <1>a, <2>1, <4>1 DEF ServedInv
      <4>3. d.source = s
        BY <2>1, <4>2 DEF Unshared
      <4>4. IsSet(HandleOf(d))
        BY <1>a, HandleOfCallback
      <4>5. HandleOf(d) \in queued
        BY <1>a, <2>1, <4>3, <4>4, HeldCallback
      <4>6. timer[s] = "armed"
        BY <4>3, <4>5 DEF ServedInv
      <4> QED BY <2>1, <2>2, <4>6 DEF Covered
    <3> QED BY <3>1, <3>2
  <2>10. ASSUME NEW d \in callbacks, HandleOf(d) \notin queued PROVE Covered(d)'
    <3>1. Covered(d) /\ d.sub # 0
      BY <1>a, <2>10 DEF ServedInv, Allocation
    <3>2. clientPc = "enter" => clientUri \in Uris
      BY <1>a DEF TypeOK
    <3> QED BY <1>a, <2>1, <2>2, <2>4, <3>1, <3>2 DEF Covered
  <2>11. ASSUME NEW d \in callbacks', HandleOf(d) \in queued PROVE timer'[d.source] = "armed"
    BY <2>1, <2>2, <2>8, <2>11 DEF ServedInv
  <2> QED
    BY <1>b, <2>1, <2>2, <2>7, <2>9, <2>10, <2>11 DEF ServedInv, ClientHoldsLock
<1> QED BY <1>1, <1>2, <1>3, <1>4, <1>5 DEF BlockStep

\* The client thread.
LEMMA ServedByClient ==
  ASSUME IInv, ServedInv, ClientStep
  PROVE  ServedInv'
<1> USE SubscriptionAssumption
<1>a. /\ TypeOK /\ Allocation /\ MappedWhileUsed /\ OneOwner /\ IterationIsStable
      /\ timer \in [Sources -> {"off", "armed", "due"}]
      /\ handle \in [Sources -> Handle]
      /\ \A c \in callbacks : c.source \in Sources
  BY DEF IInv, TypeOK, Callback
<1>1. CASE ClientEnter
  <2>1. /\ UNCHANGED <<subscriptions, connected, callbacks, queued, caller, remote_uri,
                       timer, pc>>
        /\ clientPc = "enter" /\ clientPc' \in {"idle", "iterate"} /\ clientUri \in Uris
        /\ subscriptions[clientUri] # 0 => todo' = CallbacksOf(subscriptions[clientUri])
        /\ subscriptions[clientUri] = 0 => todo' = todo
        /\ subscriptions[clientUri] # 0 => clientPc' = "iterate"
    BY <1>1, <1>a DEF ClientEnter, managerVars, sourceVars, TypeOK
  <2>2. queued = {} /\ todo = {}
    BY <2>1 DEF ServedInv, ClientHoldsLock
  <2>3. ASSUME NEW c \in callbacks PROVE Covered(c)'
    <3>1. Covered(c) /\ c.sub # 0
      BY <1>a, <2>2 DEF ServedInv, Allocation
    <3>2. CASE subscriptions[clientUri] = c.sub
      <4>1. c \in todo'
        BY <2>1, <3>1, <3>2 DEF CallbacksOf
      <4> QED BY <4>1 DEF Covered
    <3> QED BY <2>1, <2>2, <3>1, <3>2 DEF Covered
  <2>4. todo' # {} => ClientHoldsLock'
    BY <2>1, <2>2 DEF ClientHoldsLock
  <2> QED BY <2>1, <2>2, <2>3, <2>4 DEF ServedInv
<1>2. ASSUME NEW d \in todo, ClientArmTimer(d) PROVE ServedInv'
  <2>1. /\ UNCHANGED <<subscriptions, connected, callbacks, queued, remote_uri, pc, clientUri>>
        /\ clientPc = "iterate" /\ clientPc' = "moveSub" /\ caller' = d.source
        /\ todo' = todo \ {d} /\ timer' = [timer EXCEPT ![d.source] = "armed"]
    BY <1>2 DEF ClientArmTimer, managerVars
  <2>2. d \in callbacks
    BY <1>a, <2>1 DEF IterationIsStable, ClientHoldsLock, CallbacksOf
  <2>3. /\ \A s \in Sources : timer'[s] = timer[s] \/ timer'[s] = "armed"
        /\ timer'[d.source] = "armed"
    BY <1>a, <2>1, <2>2
  <2>4. ASSUME NEW c \in callbacks, HandleOf(c) \notin queued PROVE Covered(c)'
    <3>1. Covered(c)
      BY <2>4 DEF ServedInv
    <3> QED BY <1>a, <2>1, <2>3, <3>1 DEF Covered
  <2> QED BY <1>a, <2>1, <2>3, <2>4 DEF ServedInv, ClientHoldsLock
<1>3. CASE ClientMoveSubscription
  <2>1. /\ UNCHANGED <<subscriptions, connected, callbacks, remote_uri, timer, pc, clientUri,
                       todo, caller>>
        /\ clientPc = "moveSub" /\ clientPc' = "moveId" /\ caller \in Sources
        /\ queued' = IF IsSet(handle[caller]) THEN queued \cup {handle[caller]} ELSE queued
    BY <1>3, <1>a DEF ClientMoveSubscription, managerVars, TypeOK
  <2>2. ASSUME NEW c \in callbacks, HandleOf(c) \in queued' PROVE timer'[c.source] = "armed"
    <3>1. CASE HandleOf(c) \in queued
      BY <2>1, <3>1 DEF ServedInv
    <3>2. CASE IsSet(handle[caller]) /\ HandleOf(c) = handle[caller]
      <4>1. PICK d \in callbacks : HandleOf(d) = handle[caller] /\ d.source = caller
        BY <1>a, <2>1, <3>2, HeldHandle
      <4>2. c = d
        BY <1>a, <3>2, <4>1, HandleIdentifies
      <4> QED BY <2>1, <4>1, <4>2 DEF ServedInv
    <3> QED BY <2>1, <2>2, <3>1, <3>2
  <2>3. ASSUME NEW c \in callbacks, HandleOf(c) \notin queued' PROVE Covered(c)'
    <3>1. HandleOf(c) \notin queued
      BY <2>1, <2>3
    <3>2. Covered(c)
      BY <3>1 DEF ServedInv
    <3> QED BY <2>1, <3>2 DEF Covered
  <2> QED BY <2>1, <2>2, <2>3 DEF ServedInv, ClientHoldsLock
<1>4. CASE ClientMoveId \/ ClientUnlock
  <2>1. /\ UNCHANGED <<subscriptions, connected, callbacks, remote_uri, timer, pc, todo, queued>>
        /\ clientPc \in {"moveId", "iterate"} /\ clientPc' \in {"iterate", "idle", "release"}
        /\ clientPc' = "idle" => queued = {}
        /\ clientPc' # "iterate" => todo = {}
    BY <1>4 DEF ClientMoveId, ClientUnlock, managerVars, sourceVars
  <2>2. ASSUME NEW c \in callbacks, HandleOf(c) \notin queued PROVE Covered(c)'
    <3>1. Covered(c)
      BY <2>2 DEF ServedInv
    <3> QED BY <2>1, <3>1 DEF Covered
  <2> QED BY <2>1, <2>2 DEF ServedInv, ClientHoldsLock
<1>5. ASSUME NEW h \in queued, ClientRelease(h) PROVE ServedInv'
  <2>1. PICK d \in callbacks : HandleOf(d) = h
    BY <1>a DEF OneOwner
  <2>2. h.sub \in Mapped
    BY <1>a, <2>1 DEF MappedWhileUsed, HandleOf
  <2>3. /\ UNCHANGED <<remote_uri, timer, pc, todo, caller>>
        /\ Unregister(h) /\ queued' = queued \ {h}
        /\ clientPc = "release" /\ clientPc' = IF queued = {h} THEN "idle" ELSE "release"
    BY <1>5, <2>2 DEF ClientRelease, sourceVars
  <2>4. callbacks' = callbacks \ {d}
    BY <1>a, <2>1, <2>3, UnregisterOne
  <2>5. \A c \in callbacks' : \A u \in Uris :
          /\ c \in callbacks /\ c.sub # 0
          /\ subscriptions'[u] = c.sub <=> subscriptions[u] = c.sub
          /\ subscriptions[u] = c.sub => connected'[u] = connected[u]
    BY <1>a, <2>3, <2>4, UnregisterKeeps DEF Allocation
  <2>6. ASSUME NEW c \in callbacks' PROVE HandleOf(c) \in queued' <=> HandleOf(c) \in queued
    <3>1. HandleOf(c) # h
      BY <1>a, <2>1, <2>4, HandleIdentifies
    <3> QED BY <2>3, <3>1
  <2>7. ASSUME NEW c \in callbacks', HandleOf(c) \notin queued PROVE Covered(c)'
    <3>1. Covered(c)
      BY <2>4, <2>7 DEF ServedInv
    <3> QED BY <2>3, <2>5, <3>1 DEF Covered
  <2> QED BY <2>3, <2>4, <2>5, <2>6, <2>7 DEF ServedInv, ClientHoldsLock
<1> QED BY <1>1, <1>2, <1>3, <1>4, <1>5 DEF ClientStep

LEMMA ServedInitially == Init => ServedInv
BY DEF Init, ServedInv

\* SettledSourceIsServed, for any sources and any number of errors and changes: what a
\* client thread leaves to a source's timer, the timer's source makes good, provided
\* that no two sources share a topic and that a callback ends before the timer it set
\* runs out.  (Without either, a source may join the subscription of a callback that
\* has seen its error and is released a moment later.)
THEOREM SourcesAreServed ==
  ASSUME PromptClient, Unshared
  PROVE  Spec => []SettledSourceIsServed
<1>1. IInv /\ ServedInv => SettledSourceIsServed
  <2> SUFFICES ASSUME IInv, ServedInv, clientPc = "idle",
                      \A s \in Sources : pc[s] = "idle" /\ timer[s] = "off",
                      NEW s \in Sources, IsSet(handle[s])
               PROVE  Served(s)
    BY DEF SettledSourceIsServed
  <2>1. PICK c \in callbacks : HandleOf(c) = handle[s] /\ c.source = s
    BY HeldHandle DEF IInv
  <2>2. queued = {} /\ todo = {}
    BY DEF ServedInv, ClientHoldsLock
  <2>3. Covered(c) /\ c.sub = handle[s].sub
    BY <2>1, <2>2 DEF ServedInv, HandleOf
  <2>4. \E u \in Uris : connected[u] /\ subscriptions[u] = c.sub
    BY <2>1, <2>2, <2>3 DEF Covered
  <2> QED BY <2>3, <2>4 DEF Served
<1>2. IInv /\ ServedInv /\ [Next]_vars => ServedInv'
  BY ServedOutside, ServedByBlock, ServedByClient DEF Next, Rest
<1> QED BY <1>1, <1>2, ServedInitially, Invariant, PTL DEF Spec

-----------------------------------------------------------------------------
(* RemoteStream: the samples.                                              *)

QueuedAcquisitions ==
  [first : Nat, n : Nat, read : Nat, triggers : Seq([index : Nat, name : Nat]), yaml : Seq(Nat)]

\* A sample and the triggers it was received with.
TriggersOf(s) == {t \in DOMAIN sampleOf : sampleOf[t] = s}
Entry(s) ==
  Sample(s, [j \in DOMAIN Ascending(TriggersOf(s)) |->
               <<Ascending(TriggersOf(s))[j], Ascending(TriggersOf(s))[j]>>])

\* The samples alone, whatever becomes of their triggers.
Samples == INSTANCE LosslessStream WITH
  pending <- [k \in DOMAIN Queued |-> [sample |-> Queued[k].sample]],
  delivered <- [k \in DOMAIN Written |-> [sample |-> Written[k].sample]]

\* Acquisitions follow each other without a gap, from what was written to what was
\* received; only the first one may have been read, and not to its end.
Contiguous ==
  /\ \A k \in 1..Len(queue) :
       /\ queue[k].first + queue[k].n <= received + 1
       /\ queue[k].read # 0 => k = 1 /\ queue[k].read < queue[k].n
       /\ k > 1 => queue[k].first = queue[k - 1].first + queue[k - 1].n
  /\ queue = <<>> => Len(out) = received
  /\ queue # <<>> =>
       /\ queue[1].first + queue[1].read = Len(out) + 1
       /\ queue[Len(queue)].first + queue[Len(queue)].n = received + 1

StreamInv ==
  /\ queue \in Seq(QueuedAcquisitions) /\ received \in Nat /\ sampleOf \in Seq(Nat)
  /\ size \in Nat /\ written \in Nat
  /\ out \in Seq(Nat) /\ \A k \in 1..Len(out) : out[k] = k
  /\ Contiguous

\* The acquisitions in the queue have the samples that were received and not written.
LEMMA LeftNumbers ==
  ASSUME StreamInv
  PROVE  /\ Len(out) <= received
         /\ UNION {(queue[k].first + queue[k].read)..(queue[k].first + queue[k].n - 1) :
                     k \in DOMAIN queue} = (Len(out) + 1)..received
<1> DEFINE N == Len(queue)
           from(k) == queue[k].first + queue[k].read
           to(k) == queue[k].first + queue[k].n
           m == Len(out)
<1>1. N \in Nat /\ m \in Nat /\ received \in Nat /\ DOMAIN queue = 1..N
  BY DEF StreamInv
<1>2. ASSUME NEW k \in 1..N
      PROVE  /\ queue[k].first \in Nat /\ queue[k].n \in Nat /\ queue[k].read \in Nat
             /\ queue[k].read <= queue[k].n
             /\ from(k) \in Nat /\ to(k) \in Nat /\ from(k) <= to(k) /\ to(k) <= received + 1
             /\ k > 1 => from(k) = to(k - 1)
             /\ k = 1 => from(k) = m + 1
             /\ k = N => to(k) = received + 1
  <2>1. queue[k] \in QueuedAcquisitions /\ queue # <<>>
    BY DEF StreamInv
  <2>2. queue[k].first \in Nat /\ queue[k].n \in Nat /\ queue[k].read \in Nat
    BY <2>1 DEF QueuedAcquisitions
  <2>3. /\ to(k) <= received + 1
        /\ queue[k].read # 0 => k = 1 /\ queue[k].read < queue[k].n
        /\ k > 1 => queue[k].first = to(k - 1)
        /\ k = 1 => from(k) = m + 1
        /\ k = N => to(k) = received + 1
    BY <2>1 DEF StreamInv, Contiguous
  <2>4. k > 1 => queue[k].read = 0
    BY <2>3
  <2>5. queue[k].read <= queue[k].n
    BY <2>2, <2>3
  <2>6. /\ from(k) \in Nat /\ to(k) \in Nat /\ from(k) <= to(k)
        /\ k > 1 => from(k) = queue[k].first
    <3> DEFINE a == queue[k].first  b == queue[k].n  c == queue[k].read
    <3>1. a \in Nat /\ b \in Nat /\ c \in Nat /\ c <= b /\ (k > 1 => c = 0)
      BY <2>2, <2>4, <2>5
    <3>2. from(k) = a + c /\ to(k) = a + b
      OBVIOUS
    <3> HIDE DEF a, b, c, from, to
    <3> QED BY <3>1, <3>2 DEF a
  <2> HIDE DEF from, to
  <2> QED BY <2>2, <2>3, <2>5, <2>6
<1>3. N = 0 => m = received
  BY DEF StreamInv, Contiguous
<1>4. N # 0 => 1 \in 1..N /\ N \in 1..N
  BY <1>1
<1> HIDE DEF N, from, to, m
<1>5. m <= received
  BY <1>1, <1>2, <1>3, <1>4
<1>6. ASSUME NEW k \in 1..N PROVE m + 1 <= from(k)
  <2> DEFINE K == {l \in 1..N : from(l) < m + 1}
  <2> SUFFICES ASSUME K # {} PROVE FALSE
    <3>1. k \notin K => m + 1 <= from(k)
      BY <1>1, <1>2
    <3> HIDE DEF K
    <3> QED BY <3>1
  <2>1. PICK l \in K : \A i \in K : l <= i
    <3>1. K \in SUBSET Nat
      BY <1>1
    <3> HIDE DEF K
    <3> QED BY <3>1, Least
  <2>2. l \in 1..N /\ from(l) < m + 1 /\ l # 1
    BY <1>1, <1>2
  <2>3. l - 1 \in 1..N /\ l - 1 \notin K
    BY <1>1, <2>1, <2>2
  <2>4. from(l - 1) >= m + 1 /\ from(l - 1) <= to(l - 1) /\ from(l) = to(l - 1)
    BY <1>1, <1>2, <2>2, <2>3
  <2> QED BY <1>1, <1>2, <2>2, <2>3, <2>4
<1>7. ASSUME NEW x \in (m + 1)..received
      PROVE  \E k \in 1..N : x \in from(k)..(to(k) - 1)
  <2> DEFINE K == {l \in 1..N : x < to(l)}
  <2>0. N # 0
    BY <1>1, <1>3
  <2>1. PICK l \in K : \A i \in K : l <= i
    <3>1. K \in SUBSET Nat
      BY <1>1
    <3>2. N \in K
      BY <1>1, <1>2, <1>4, <2>0
    <3> HIDE DEF K
    <3> QED BY <3>1, <3>2, Least
  <2>2. l \in 1..N /\ x < to(l)
    OBVIOUS
  <2>3. from(l) <= x
    <3>1. CASE l = 1
      BY <1>1, <1>2, <2>2, <3>1
    <3>2. CASE l # 1
      <4>1. l - 1 \in 1..N /\ l - 1 \notin K
        BY <1>1, <2>1, <2>2, <3>2
      <4>2. to(l - 1) <= x /\ from(l) = to(l - 1)
        BY <1>1, <1>2, <2>2, <3>2, <4>1
      <4> QED BY <4>2
    <3> QED BY <3>1, <3>2
  <2>4. x \in from(l)..(to(l) - 1)
    BY <1>1, <1>2, <2>2, <2>3
  <2> QED BY <2>2, <2>4
<1>8. UNION {from(k)..(to(k) - 1) : k \in 1..N} = (m + 1)..received
  <2>1. ASSUME NEW k \in 1..N, NEW x \in from(k)..(to(k) - 1)
        PROVE  x \in (m + 1)..received
    BY <1>1, <1>2, <1>6
  <2> QED BY <1>7, <2>1
<1>9. UNION {(queue[k].first + queue[k].read)..(queue[k].first + queue[k].n - 1) :
               k \in 1..N} = (m + 1)..received
  <2>1. \A k \in 1..N : from(k)..(to(k) - 1)
                          = (queue[k].first + queue[k].read)..(queue[k].first + queue[k].n - 1)
    <3>1. ASSUME NEW a \in Nat, NEW b \in Nat PROVE (a + b) - 1 = a + b - 1
      OBVIOUS
    <3> QED BY <1>2, <3>1 DEF from, to
  <2> QED BY <1>8, <2>1
<1> QED BY <1>1, <1>5, <1>9 DEF m

\* The samples that are left are those that were received and not written.
LEMMA LeftSamples ==
  StreamInv =>
    /\ Len(out) <= received
    /\ Queued = [k \in 1..(received - Len(out)) |-> Entry(Len(out) + k)]
<1> SUFFICES ASSUME StreamInv
             PROVE  /\ Len(out) <= received
                    /\ Queued = [k \in 1..(received - Len(out)) |-> Entry(Len(out) + k)]
  OBVIOUS
<1> DEFINE samples == Ascending((Len(out) + 1)..received)
           m == Len(out)
           p == received - m
<1>1. Len(out) <= received /\ Len(out) \in Nat /\ received \in Nat
  BY LeftNumbers DEF StreamInv
<1>2. Queued = [k \in DOMAIN samples |-> Entry(samples[k])]
  BY LeftNumbers, Zenon DEF Queued, Entry, TriggersOf
<1>3. DOMAIN samples = 1..p /\ \A k \in 1..p : samples[k] = m + k
  <2>1. ((m + 1)..received) \in SUBSET (1..received)
    BY <1>1
  <2>2. /\ Cardinality((m + 1)..received) = received + 1 - (m + 1)
        /\ \A k \in 1..(received + 1 - (m + 1)) : samples[k] = (m + 1) + k - 1
    <3>1. m + 1 \in Nat /\ 1 <= m + 1 /\ m + 1 <= received + 1
      BY <1>1
    <3> HIDE DEF m
    <3> QED BY <1>1, <3>1, AscendingRange DEF m
  <2>3. samples \in [1..Cardinality((m + 1)..received) -> (m + 1)..received]
    BY <1>1, <2>1, AscendingOrder
  <2>4. received + 1 - (m + 1) = p /\ \A k \in 1..p : (m + 1) + k - 1 = m + k
    BY <1>1
  <2> HIDE DEF samples, m, p
  <2> QED BY <2>2, <2>3, <2>4
<1> HIDE DEF samples, p, m
<1>4. Queued = [k \in 1..p |-> Entry(m + k)]
  BY <1>2, <1>3
<1> QED BY <1>1, <1>4 DEF m, p

LEMMA WrittenSamples ==
  StreamInv =>
    /\ DOMAIN Written = 1..Len(out)
    /\ \A k \in 1..Len(out) : Written[k].sample = k
<1> SUFFICES ASSUME StreamInv PROVE /\ DOMAIN Written = 1..Len(out)
                                    /\ \A k \in 1..Len(out) : Written[k].sample = k
  OBVIOUS
<1>1. DOMAIN out = 1..Len(out) /\ \A k \in 1..Len(out) : out[k] = k
  BY DEF StreamInv
<1> QED BY <1>1 DEF Written, Sample

\* The part of a sequence from after a to b.
LEMMA PartOf ==
  ASSUME NEW S, NEW s \in Seq(S), NEW a \in Nat, NEW b \in Nat, a <= b, b <= Len(s)
  PROVE  /\ SubSeq(s, a + 1, b) \in Seq(S) /\ Len(SubSeq(s, a + 1, b)) = b - a
         /\ \A k \in 1..b - a : SubSeq(s, a + 1, b)[k] = s[a + k]
<1>1. ASSUME NEW i \in a + 1..b PROVE s[i] \in S
  BY <1>1, ElementOfSeq
<1>2. /\ SubSeq(s, a + 1, b) \in Seq(S)
      /\ Len(SubSeq(s, a + 1, b)) = IF a + 1 <= b THEN b - (a + 1) + 1 ELSE 0
      /\ \A k \in 1..b - (a + 1) + 1 : SubSeq(s, a + 1, b)[k] = s[a + 1 + k - 1]
  BY <1>1, SubSeqProperties
<1>3. /\ (IF a + 1 <= b THEN b - (a + 1) + 1 ELSE 0) = b - a /\ b - (a + 1) + 1 = b - a
      /\ \A k \in 1..b - a : a + 1 + k - 1 = a + k
  OBVIOUS
<1> QED BY <1>2, <1>3

\* What was there is the beginning of what it becomes by appending.
LEMMA Appended ==
  ASSUME NEW S, NEW q \in Seq(S), NEW r \in Seq(S), Len(q) <= Len(r),
         \A k \in 1..Len(q) : r[k] = q[k]
  PROVE  q = SubSeq(r, 1, Len(q))
<1>1. 0 \in Nat /\ Len(q) \in Nat /\ 0 <= Len(q) /\ 0 + 1 = 1 /\ Len(q) - 0 = Len(q)
  OBVIOUS
<1> DEFINE u == SubSeq(r, 1, Len(q))
<1>2. /\ SubSeq(r, 0 + 1, Len(q)) \in Seq(S)
      /\ Len(SubSeq(r, 0 + 1, Len(q))) = Len(q) - 0
      /\ \A k \in 1..Len(q) - 0 : SubSeq(r, 0 + 1, Len(q))[k] = r[0 + k]
  BY <1>1, PartOf
<1>3. u \in Seq(S) /\ Len(u) = Len(q) /\ \A k \in 1..Len(q) : u[k] = r[k]
  <2>1. \A k \in 1..Len(q) : 0 + k = k
    OBVIOUS
  <2> QED BY <1>1, <1>2, <2>1
<1> HIDE DEF u
<1>4. u = q
  BY <1>3, SeqEqual
<1> QED BY <1>4 DEF u

\* The first n elements of q are moved to the end of w, and the others are left.
IsMove(S, q, r, w, v, n) ==
  /\ q \in Seq(S) /\ r \in Seq(S) /\ w \in Seq(S) /\ v \in Seq(S)
  /\ n \in 1..Len(q) /\ Len(r) = Len(q) - n /\ Len(v) = Len(w) + n
  /\ \A k \in 1..Len(r) : r[k] = q[n + k]
  /\ \A k \in 1..Len(w) : v[k] = w[k]
  /\ \A k \in 1..n : v[Len(w) + k] = q[k]

LEMMA Moved ==
  ASSUME NEW S, NEW q, NEW r, NEW w, NEW v, NEW n, IsMove(S, q, r, w, v, n)
  PROVE  r = SubSeq(q, n + 1, Len(q)) /\ v = w \o SubSeq(q, 1, n)
<1> USE DEF IsMove
<1> DEFINE t == SubSeq(q, n + 1, Len(q))  s == SubSeq(q, 1, n)
<1>1. n \in Nat /\ n <= Len(q) /\ Len(q) \in Nat /\ Len(w) \in Nat
  OBVIOUS
<1>2. t \in Seq(S) /\ Len(t) = Len(q) - n /\ \A k \in 1..Len(q) - n : t[k] = q[n + k]
  BY <1>1, PartOf
<1>3. s \in Seq(S) /\ Len(s) = n /\ \A k \in 1..n : s[k] = q[k]
  <2>1. 0 \in Nat /\ 0 <= n
    BY <1>1
  <2>2. /\ SubSeq(q, 0 + 1, n) \in Seq(S) /\ Len(SubSeq(q, 0 + 1, n)) = n - 0
        /\ \A k \in 1..n - 0 : SubSeq(q, 0 + 1, n)[k] = q[0 + k]
    BY <1>1, <2>1, PartOf
  <2>3. 0 + 1 = 1 /\ n - 0 = n /\ \A k \in 1..n : 0 + k = k
    BY <1>1
  <2> QED BY <2>2, <2>3
<1> HIDE DEF t, s
<1>4. r = t
  BY <1>2, SeqEqual
<1>5. /\ w \o s \in Seq(S) /\ Len(w \o s) = Len(w) + n
      /\ \A k \in 1..Len(w) + n : (w \o s)[k] = IF k <= Len(w) THEN w[k] ELSE s[k - Len(w)]
  BY <1>3, ConcatProperties
<1>6. ASSUME NEW k \in 1..Len(w) + n PROVE (w \o s)[k] = v[k]
  <2>1. CASE k <= Len(w)
    BY <1>1, <1>5, <2>1
  <2>2. CASE ~(k <= Len(w))
    <3>1. k - Len(w) \in 1..n /\ Len(w) + (k - Len(w)) = k
      BY <1>1, <2>2
    <3>2. (w \o s)[k] = s[k - Len(w)]
      BY <1>5, <2>2
    <3>3. v[Len(w) + (k - Len(w))] = q[k - Len(w)] /\ s[k - Len(w)] = q[k - Len(w)]
      BY <1>3, <3>1
    <3> QED BY <3>1, <3>2, <3>3
  <2> QED BY <2>1, <2>2
<1> DEFINE u == w \o s
<1> HIDE DEF u
<1>7. v = u
  BY <1>5, <1>6, SeqEqual DEF u
<1> QED BY <1>4, <1>7 DEF t, s, u

\* The samples alone, of what is left and of what is written.
NumbersLeft == [k \in DOMAIN Queued |-> [sample |-> Queued[k].sample]]
NumbersWritten == [k \in DOMAIN Written |-> [sample |-> Written[k].sample]]

NumbersOnly ==
  /\ received \in Nat /\ Len(out) \in Nat /\ Len(out) <= received
  /\ NumbersLeft \in Seq([sample : Nat]) /\ Len(NumbersLeft) = received - Len(out)
  /\ \A k \in 1..received - Len(out) : NumbersLeft[k] = [sample |-> Len(out) + k]
  /\ NumbersWritten \in Seq([sample : Nat]) /\ Len(NumbersWritten) = Len(out)
  /\ \A k \in 1..Len(out) : NumbersWritten[k] = [sample |-> k]

LEMMA SamplesAreNumbered ==
  StreamInv => NumbersOnly
<1> SUFFICES ASSUME StreamInv PROVE NumbersOnly
  OBVIOUS
<1> DEFINE m == Len(out)  p == received - m
<1>1. m \in Nat /\ p \in Nat /\ received \in Nat /\ m <= received
  BY LeftSamples DEF StreamInv
<1>2. DOMAIN Queued = 1..p /\ \A k \in 1..p : Queued[k].sample = m + k
  BY LeftSamples DEF Entry, Sample
<1>3. DOMAIN Written = 1..m /\ \A k \in 1..m : Written[k].sample = k
  BY WrittenSamples
<1> DEFINE q == NumbersLeft  w == NumbersWritten
<1> HIDE DEF m, p
<1>4. q = [k \in 1..p |-> [sample |-> m + k]] /\ w = [k \in 1..m |-> [sample |-> k]]
  BY <1>2, <1>3 DEF NumbersLeft, NumbersWritten
<1> HIDE DEF q, w
<1>5. \A k \in 1..p : [sample |-> m + k] \in [sample : Nat]
  BY <1>1
<1>6. \A k \in 1..m : [sample |-> k] \in [sample : Nat]
  BY <1>1
<1>7. q \in Seq([sample : Nat]) /\ Len(q) = p /\ \A k \in 1..p : q[k] = [sample |-> m + k]
  BY <1>1, <1>4, <1>5
<1>8. w \in Seq([sample : Nat]) /\ Len(w) = m /\ \A k \in 1..m : w[k] = [sample |-> k]
  BY <1>1, <1>4, <1>6
<1> QED BY <1>1, <1>7, <1>8 DEF m, p, q, w, NumbersOnly

LEMMA StreamInitially ==
  StreamInit => StreamInv /\ Samples!StreamInit
<1> SUFFICES ASSUME StreamInit PROVE StreamInv /\ Samples!StreamInit
  OBVIOUS
<1>1. StreamInv
  BY DEF StreamInit, StreamInv, Contiguous
<1>2. Len(out) = 0 /\ received = 0
  BY DEF StreamInit
<1>3. NumbersLeft = <<>> /\ NumbersWritten = <<>>
  <2>1. NumbersOnly
    BY <1>1, SamplesAreNumbered
  <2>2. /\ NumbersLeft \in Seq([sample : Nat]) /\ Len(NumbersLeft) = 0
        /\ NumbersWritten \in Seq([sample : Nat]) /\ Len(NumbersWritten) = 0
    BY <1>2, <2>1 DEF NumbersOnly
  <2> QED BY <2>2, EmptySeq
<1> QED BY <1>1, <1>3 DEF Samples!StreamInit, NumbersLeft, NumbersWritten

\* What the client thread appends.
LEMMA Enqueues ==
  ASSUME StreamInv, NEW n \in Nat, NEW indices \in Seq(Nat), NEW warning \in BOOLEAN,
         Enqueue(n, indices, warning)
  PROVE  StreamInv' /\ received' = received + n /\ UNCHANGED out
<1> USE DEF StreamInv
<1> DEFINE known == Len(sampleOf)
           triggers == [k \in 1..Len(indices) |-> [index |-> indices[k], name |-> known + k]]
           yaml == [k \in 1..Len(indices) |-> known + k]
           skipped == IF warning THEN <<[index |-> 0, name |-> known + Len(indices) + 1]>>
                      ELSE <<>>
           d == Acquisition(received + 1, n, skipped \o triggers, yaml)
<1>1. /\ queue' = Append(queue, d) /\ received' = received + n
      /\ UNCHANGED <<bulkPc, size, written, out, tags>>
  BY DEF Enqueue
<1>2. d \in QueuedAcquisitions
  <2>1. known \in Nat /\ Len(indices) \in Nat
    OBVIOUS
  <2>2. triggers \in Seq([index : Nat, name : Nat])
    BY <2>1
  <2>3. yaml \in Seq(Nat)
    BY <2>1
  <2>4. skipped \in Seq([index : Nat, name : Nat])
    <3> DEFINE mark == [index |-> 0, name |-> known + Len(indices) + 1]
    <3>1. mark \in [index : Nat, name : Nat]
      BY <2>1
    <3> HIDE DEF mark
    <3>2. <<mark>> \in Seq([index : Nat, name : Nat])
      BY <3>1
    <3>3. <<>> \in Seq([index : Nat, name : Nat])
      OBVIOUS
    <3>4. skipped = <<mark>> \/ skipped = <<>>
      BY DEF mark
    <3> HIDE DEF skipped
    <3> QED BY <3>2, <3>3, <3>4
  <2> HIDE DEF triggers, yaml, skipped
  <2>5. skipped \o triggers \in Seq([index : Nat, name : Nat])
    BY <2>2, <2>4
  <2> QED BY <2>3, <2>5 DEF QueuedAcquisitions, Acquisition
<1>3. sampleOf' \in Seq(Nat)
  <2>1. [k \in 1..Len(indices) |-> received + 1 + indices[k]] \in Seq(Nat)
    OBVIOUS
  <2>2. (IF warning THEN <<received + 1>> ELSE <<>>) \in Seq(Nat)
    OBVIOUS
  <2> DEFINE a == [k \in 1..Len(indices) |-> received + 1 + indices[k]]
             b == IF warning THEN <<received + 1>> ELSE <<>>
  <2>3. sampleOf' = sampleOf \o a \o b
    BY DEF Enqueue
  <2> HIDE DEF a, b
  <2>4. sampleOf \o a \in Seq(Nat)
    BY <2>1 DEF a
  <2> QED BY <2>2, <2>3, <2>4 DEF b
<1>4. d.first = received + 1 /\ d.n = n /\ d.read = 0
  BY DEF Acquisition
<1> HIDE DEF d
<1>5. /\ Len(queue') = Len(queue) + 1 /\ queue'[Len(queue) + 1] = d
      /\ \A k \in 1..Len(queue) : queue'[k] = queue[k]
      /\ queue' \in Seq(QueuedAcquisitions) /\ queue' # <<>>
  BY <1>1, <1>2
<1>6. \A k \in 1..Len(queue) : queue[k] \in QueuedAcquisitions
  OBVIOUS
<1>7. Contiguous'
  <2>1. ASSUME NEW k \in 1..Len(queue')
        PROVE  /\ queue'[k].first + queue'[k].n <= received' + 1
               /\ queue'[k].read # 0 => k = 1 /\ queue'[k].read < queue'[k].n
               /\ k > 1 => queue'[k].first = queue'[k - 1].first + queue'[k - 1].n
    <3>1. CASE k \in 1..Len(queue)
      <4>1. k > 1 => k - 1 \in 1..Len(queue)
        BY <3>1
      <4>2. queue[k].first \in Nat /\ queue[k].n \in Nat
        BY <1>6, <3>1 DEF QueuedAcquisitions
      <4>3. /\ queue[k].first + queue[k].n <= received + 1
            /\ queue[k].read # 0 => k = 1 /\ queue[k].read < queue[k].n
            /\ k > 1 => queue[k].first = queue[k - 1].first + queue[k - 1].n
        BY <3>1 DEF Contiguous
      <4>4. queue'[k] = queue[k] /\ (k > 1 => queue'[k - 1] = queue[k - 1])
        BY <1>5, <3>1, <4>1
      <4>5. received \in Nat
        OBVIOUS
      <4> DEFINE a == queue[k].first  b == queue[k].n
      <4>6. received' = received + n /\ a \in Nat /\ b \in Nat /\ a + b <= received + 1
        BY <1>1, <4>2, <4>3
      <4> HIDE DEF StreamInv, a, b
      <4>7. a + b <= received' + 1
        BY <4>5, <4>6
      <4> QED BY <4>3, <4>4, <4>7 DEF a, b
    <3>2. CASE k = Len(queue) + 1
      <4>1. k > 1 => queue # <<>> /\ Len(queue) \in 1..Len(queue) /\ k - 1 = Len(queue)
        BY <3>2
      <4>2. queue'[k] = d /\ (k > 1 => queue'[k - 1] = queue[Len(queue)])
        BY <1>5, <3>2, <4>1
      <4>3. k > 1 => queue[Len(queue)].first + queue[Len(queue)].n = received + 1
        BY <4>1 DEF Contiguous
      <4> QED BY <1>1, <1>4, <4>2, <4>3
    <3> QED BY <1>5, <3>1, <3>2
  <2>2. queue'[1].first + queue'[1].read = Len(out) + 1
    <3>1. CASE queue = <<>>
      BY <1>1, <1>4, <1>5, <3>1 DEF Contiguous
    <3>2. CASE queue # <<>>
      <4>1. 1 \in 1..Len(queue)
        BY <3>2
      <4>2. queue'[1] = queue[1]
        BY <1>5, <4>1
      <4>3. queue[1].first + queue[1].read = Len(out) + 1
        BY <3>2 DEF Contiguous
      <4> QED BY <4>2, <4>3
    <3> QED BY <3>1, <3>2
  <2>3. queue'[Len(queue')] = d
    BY <1>5
  <2>4. queue'[Len(queue')].first + queue'[Len(queue')].n = received' + 1
    BY <1>1, <1>4, <2>3
  <2>5. queue' # <<>> /\ out' = out
    BY <1>1, <1>5
  <2> HIDE DEF StreamInv
  <2> QED BY <2>1, <2>2, <2>4, <2>5 DEF Contiguous
<1> QED BY <1>1, <1>3, <1>5, <1>7

\* What is received is pending.
LEMMA ReceivedIsAccepted ==
  ASSUME StreamInv, StreamInv', NEW n \in Nat, received' = received + n, UNCHANGED out
  PROVE  Samples!AcceptSamples
<1> DEFINE m == Len(out)  p == received - m
           q == NumbersLeft  r == NumbersLeft'  w == NumbersWritten  v == NumbersWritten'
           S == [sample : Nat]
<1>1. /\ m \in Nat /\ p \in Nat /\ q \in Seq(S) /\ Len(q) = p
      /\ \A k \in 1..p : q[k] = [sample |-> m + k]
      /\ w \in Seq(S) /\ Len(w) = m /\ \A k \in 1..m : w[k] = [sample |-> k]
  BY SamplesAreNumbered DEF NumbersOnly
<1>2. /\ r \in Seq(S) /\ Len(r) = p + n
      /\ \A k \in 1..p + n : r[k] = [sample |-> m + k]
      /\ v \in Seq(S) /\ Len(v) = m /\ \A k \in 1..m : v[k] = [sample |-> k]
  <2>1. received' - Len(out') = p + n /\ Len(out') = m
    BY <1>1 DEF StreamInv
  <2>2. NumbersOnly'
    BY SamplesAreNumbered, PTL
  <2>3. /\ r \in Seq(S) /\ Len(r) = received' - Len(out')
        /\ \A k \in 1..received' - Len(out') : r[k] = [sample |-> Len(out') + k]
        /\ v \in Seq(S) /\ Len(v) = Len(out')
        /\ \A k \in 1..Len(out') : v[k] = [sample |-> k]
    BY <2>2 DEF NumbersOnly
  <2> HIDE DEF r, v, m, p, S
  <2> QED BY <2>1, <2>3
<1> HIDE DEF m, p, q, r, w, v, S
<1>3. q = SubSeq(r, 1, Len(q)) /\ Len(q) <= Len(r)
  <2>1. Len(q) <= Len(r) /\ \A k \in 1..Len(q) : r[k] = q[k]
    BY <1>1, <1>2
  <2> QED BY <1>1, <1>2, <2>1, Appended
<1>4. v = w
  BY <1>1, <1>2, SeqEqual
<1>5. ASSUME NEW k \in 1..Len(r) - Len(q) PROVE r[Len(q) + k].sample = (Len(q) + Len(w)) + k
  <2>1. p + k \in 1..p + n /\ m + (p + k) = p + m + k
    BY <1>1, <1>2, <1>5
  <2> QED BY <1>1, <1>2, <2>1
<1> QED BY <1>3, <1>4, <1>5
        DEF Samples!AcceptSamples, Samples!Count, NumbersLeft, NumbersWritten, q, r, w, v

\* What a turn of the loop writes are the next samples, and at least one.
LEMMA ChunkIsDelivered ==
  ASSUME StreamInv, CopyChunk
  PROVE  /\ StreamInv'
         /\ \E n \in 1..received - Len(out) :
              out' = out \o [k \in 1..n |-> Len(out) + k] /\ UNCHANGED received
<1> DEFINE d == Head(queue)
           n == ChunkSize(d)
<1>1. /\ queue # <<>> /\ d.n # 0 /\ WriteChunk(d, n) /\ written < size
      /\ queue' = IF d.read + n = d.n THEN Tail(queue)
                  ELSE <<[d EXCEPT !.read = @ + n]>> \o Tail(queue)
  BY DEF CopyChunk
<1>2. /\ queue \in Seq(QueuedAcquisitions) /\ received \in Nat /\ size \in Nat /\ written \in Nat
      /\ out \in Seq(Nat) /\ sampleOf \in Seq(Nat) /\ Len(out) \in Nat
      /\ \A k \in 1..Len(out) : out[k] = k
  BY DEF StreamInv
<1>3. /\ d = queue[1] /\ d \in QueuedAcquisitions /\ Len(queue) >= 1
  BY <1>1, <1>2
<1>4. /\ d.first \in Nat /\ d.n \in Nat /\ d.read \in Nat
  BY <1>3 DEF QueuedAcquisitions
<1>5. /\ d.first + d.n <= received + 1 /\ d.first + d.read = Len(out) + 1
      /\ d.read # 0 => d.read < d.n
  <2>1. 1 \in 1..Len(queue)
    BY <1>2, <1>3
  <2> QED BY <1>1, <1>3, <2>1 DEF StreamInv, Contiguous
<1>6. d.read < d.n
  BY <1>1, <1>4, <1>5
<1>7. n \in 1..(d.n - d.read)
  <2>1. n = Min2(size - written, d.n - d.read)
    BY DEF ChunkSize
  <2> QED BY <1>1, <1>2, <1>4, <1>6, <2>1 DEF Min2
<1> HIDE DEF n
<1>8. n \in 1..received - Len(out)
  BY <1>2, <1>4, <1>5, <1>7
<1>9. out' = out \o [k \in 1..n |-> Len(out) + k]
  <2>1. \A k \in 1..n : d.first + d.read + k - 1 = Len(out) + k
    BY <1>2, <1>4, <1>5
  <2>2. out' = out \o [k \in 1..n |-> d.first + d.read + k - 1]
    BY <1>1 DEF WriteChunk
  <2> HIDE DEF d
  <2>3. [k \in 1..n |-> d.first + d.read + k - 1] = [k \in 1..n |-> Len(out) + k]
    BY <2>1
  <2> QED BY <2>2, <2>3
<1>10. /\ out' \in Seq(Nat) /\ Len(out') = Len(out) + n
       /\ \A k \in 1..Len(out') : out'[k] = k
  <2> DEFINE chunk == [k \in 1..n |-> Len(out) + k]
  <2>1. chunk \in Seq(Nat) /\ Len(chunk) = n
    BY <1>2, <1>7
  <2>2. \A k \in 1..n : chunk[k] = Len(out) + k
    OBVIOUS
  <2> HIDE DEF chunk
  <2>3. /\ out \o chunk \in Seq(Nat) /\ Len(out \o chunk) = Len(out) + n
        /\ \A k \in 1..Len(out) + n :
             (out \o chunk)[k] = IF k <= Len(out) THEN out[k] ELSE chunk[k - Len(out)]
    BY <1>2, <2>1, ConcatProperties
  <2>4. out' = out \o chunk
    BY <1>9 DEF chunk
  <2>5. ASSUME NEW k \in 1..Len(out) + n PROVE (out \o chunk)[k] = k
    <3>1. CASE k <= Len(out)
      BY <1>2, <2>3, <3>1
    <3>2. CASE ~(k <= Len(out))
      <4>1. k - Len(out) \in 1..n /\ (out \o chunk)[k] = chunk[k - Len(out)]
        BY <1>2, <1>7, <2>3, <3>2
      <4> QED BY <1>2, <2>2, <4>1
    <3> QED BY <3>1, <3>2
  <2> QED BY <2>3, <2>4, <2>5
<1>11. UNCHANGED <<received, size, sampleOf>> /\ written' = written + n
  BY <1>1 DEF WriteChunk
<1> DEFINE t == Tail(queue)
<1>12. /\ t \in Seq(QueuedAcquisitions) /\ Len(t) = Len(queue) - 1
       /\ \A k \in 1..Len(t) : t[k] = queue[k + 1]
  BY <1>1, <1>2
<1>13. \A k \in 1..Len(queue) :
         /\ queue[k] \in QueuedAcquisitions
         /\ queue[k].first + queue[k].n <= received + 1
         /\ queue[k].read # 0 => k = 1 /\ queue[k].read < queue[k].n
         /\ k > 1 => queue[k].first = queue[k - 1].first + queue[k - 1].n
  BY <1>2 DEF StreamInv, Contiguous
<1>14. queue[Len(queue)].first + queue[Len(queue)].n = received + 1
  BY <1>1 DEF StreamInv, Contiguous
<1>17. /\ Len(out') = Len(out) + n /\ Len(out) \in Nat /\ n \in Nat /\ received \in Nat
       /\ d.first + d.n = Len(out) + 1 - d.read + d.n
  <2>1. Len(out') = Len(out) + n /\ Len(out) \in Nat /\ received \in Nat
    BY <1>2, <1>10
  <2>2. n \in Nat
    BY <1>4, <1>7
  <2> HIDE DEF d
  <2>3. d.first + d.n = Len(out) + 1 - d.read + d.n
    BY <1>4, <1>5, <2>1
  <2> QED BY <2>1, <2>2, <2>3
<1>15. CASE d.read + n = d.n
  <2>1. queue' = t
    BY <1>1, <1>15
  <2> HIDE DEF t, d
  <2>2. ASSUME NEW k \in 1..Len(t)
        PROVE  /\ t[k].first + t[k].n <= received + 1 /\ t[k].read = 0
               /\ k > 1 => t[k].first = t[k - 1].first + t[k - 1].n
               /\ k = 1 => t[k].first = d.first + d.n
    <3>1. k + 1 \in 1..Len(queue) /\ k + 1 # 1 /\ k + 1 > 1 /\ t[k] = queue[k + 1]
      BY <1>2, <1>12
    <3>2. k > 1 => k - 1 \in 1..Len(t) /\ t[k - 1] = queue[k] /\ k + 1 - 1 = k
      BY <1>2, <1>12
    <3>3. k = 1 => queue[k + 1 - 1] = d
      BY <1>3
    <3> QED BY <1>13, <3>1, <3>2, <3>3
  <2>3. d.first + d.n = Len(out') + 1
    BY <1>4, <1>15, <1>17
  <2>4. t = <<>> => Len(out') = received
    <3>1. ASSUME t = <<>> PROVE Len(queue) = 1
      BY <1>2, <1>12, <3>1
    <3>2. t = <<>> => d.first + d.n = received + 1
      BY <1>3, <1>14, <3>1
    <3> QED BY <1>17, <2>3, <3>2
  <2>5. t # <<>> => /\ t[1].first + t[1].read = Len(out') + 1
                    /\ t[Len(t)].first + t[Len(t)].n = received + 1
    <3> SUFFICES ASSUME t # <<>> PROVE /\ t[1].first + t[1].read = Len(out') + 1
                                       /\ t[Len(t)].first + t[Len(t)].n = received + 1
      OBVIOUS
    <3>1. 1 \in 1..Len(t) /\ Len(t) \in 1..Len(t) /\ Len(t) + 1 = Len(queue)
      BY <1>2, <1>12
    <3>2. t[1].read = 0 /\ t[1].first = d.first + d.n /\ t[Len(t)] = queue[Len(queue)]
      BY <1>12, <2>2, <3>1
    <3>3. Len(out') + 1 + 0 = Len(out') + 1
      BY <1>10
    <3> QED BY <1>14, <2>3, <3>2, <3>3
  <2>6. Contiguous'
    BY <1>11, <2>1, <2>2, <2>4, <2>5 DEF Contiguous
  <2>7. StreamInv'
    BY <1>2, <1>7, <1>10, <1>11, <1>12, <2>1, <2>6 DEF StreamInv
  <2> QED BY <1>8, <1>9, <1>11, <2>7
<1>16. CASE d.read + n # d.n
  <2> DEFINE c == [d EXCEPT !.read = @ + n]
  <2>1. queue' = <<c>> \o t
    BY <1>1, <1>16
  <2>2. /\ c \in QueuedAcquisitions /\ c.first = d.first /\ c.n = d.n /\ c.read = d.read + n
    <3>1. d.read + n \in Nat
      BY <1>4, <1>17
    <3> HIDE DEF d
    <3> QED BY <1>3, <3>1 DEF QueuedAcquisitions
  <2> HIDE DEF c, d, t
  <2>3. <<c>> \in Seq(QueuedAcquisitions) /\ Len(<<c>>) = 1 /\ <<c>>[1] = c
    BY <2>2
  <2>4. /\ queue' \in Seq(QueuedAcquisitions) /\ Len(queue') = Len(queue)
        /\ \A k \in 1..Len(queue) : queue'[k] = IF k = 1 THEN c ELSE queue[k]
    <3>1. /\ <<c>> \o t \in Seq(QueuedAcquisitions) /\ Len(<<c>> \o t) = 1 + Len(t)
          /\ \A k \in 1..1 + Len(t) :
               (<<c>> \o t)[k] = IF k <= 1 THEN <<c>>[k] ELSE t[k - 1]
      BY <1>12, <2>3, ConcatProperties
    <3>2. 1 + Len(t) = Len(queue)
      BY <1>2, <1>12
    <3>3. ASSUME NEW k \in 1..Len(queue)
          PROVE  (<<c>> \o t)[k] = IF k = 1 THEN c ELSE queue[k]
      <4>1. CASE k = 1
        BY <2>3, <3>1, <3>2, <4>1
      <4>2. CASE k # 1
        <5>1. ~(k <= 1) /\ k - 1 \in 1..Len(t) /\ k - 1 + 1 = k
          BY <3>2, <1>12, <4>2
        <5> QED BY <1>12, <3>1, <3>2, <4>2, <5>1
      <4> QED BY <4>1, <4>2
    <3> QED BY <2>1, <3>1, <3>2, <3>3
  <2>5. c.read < c.n
    BY <1>4, <1>7, <1>16, <2>2
  <2>6. ASSUME NEW k \in 1..Len(queue')
        PROVE  /\ queue'[k].first + queue'[k].n <= received + 1
               /\ queue'[k].read # 0 => k = 1 /\ queue'[k].read < queue'[k].n
               /\ k > 1 => queue'[k].first = queue'[k - 1].first + queue'[k - 1].n
    <3>1. k \in 1..Len(queue)
      BY <2>4
    <3>2. CASE k = 1
      BY <1>5, <2>2, <2>4, <2>5, <3>1, <3>2
    <3>3. CASE k # 1
      <4>1. k > 1 /\ k - 1 \in 1..Len(queue) /\ queue'[k] = queue[k]
        BY <2>4, <3>1, <3>3
      <4>2. queue'[k - 1].first = queue[k - 1].first /\ queue'[k - 1].n = queue[k - 1].n
        BY <1>3, <2>2, <2>4, <4>1
      <4> QED BY <1>13, <3>1, <4>1, <4>2
    <3> QED BY <3>2, <3>3
  <2>7. queue' # <<>> /\ queue'[1].first + queue'[1].read = Len(out') + 1
    <3>1. 1 \in 1..Len(queue)
      BY <1>2, <1>3
    <3>2. queue'[1] = c
      BY <2>4, <3>1
    <3>3. queue' # <<>>
      BY <2>4, <3>1
    <3>4. d.first + (d.read + n) = Len(out') + 1
      <4> DEFINE a == d.first  b == d.read  l == Len(out)
      <4>1. a \in Nat /\ b \in Nat /\ l \in Nat /\ n \in Nat /\ a + b = l + 1
        BY <1>4, <1>5, <1>17
      <4>2. Len(out') = l + n
        BY <1>17
      <4> HIDE DEF a, b, l
      <4>3. a + (b + n) = (l + n) + 1
        BY <4>1
      <4> QED BY <4>2, <4>3 DEF a, b
    <3> QED BY <2>2, <3>2, <3>3, <3>4
  <2>8. queue'[Len(queue')].first + queue'[Len(queue')].n = received + 1
    <3>1. Len(queue) \in 1..Len(queue)
      BY <1>2, <1>3
    <3>2. \/ queue'[Len(queue')] = queue[Len(queue)]
          \/ queue'[Len(queue')] = c /\ queue[Len(queue)] = d
      BY <1>3, <2>4, <3>1
    <3> QED BY <1>14, <2>2, <3>2
  <2>9. Contiguous'
    BY <1>11, <2>6, <2>7, <2>8 DEF Contiguous
  <2>10. StreamInv'
    BY <1>2, <1>7, <1>10, <1>11, <2>4, <2>9 DEF StreamInv
  <2> QED BY <1>8, <1>9, <1>11, <2>10
<1> QED BY <1>15, <1>16

\* Where a turn of the loop leads to, in lengths.
LEMMA ChunkLengths ==
  ASSUME StreamInv, StreamInv', NEW n \in 1..received - Len(out),
         out' = out \o [k \in 1..n |-> Len(out) + k], UNCHANGED received
  PROVE  Len(out') = Len(out) + n /\ received' - Len(out') = (received - Len(out)) - n
<1>1. out \in Seq(Nat) /\ Len(out) \in Nat /\ received \in Nat
  BY DEF StreamInv
<1>2. [k \in 1..n |-> Len(out) + k] \in Seq(Nat) /\ Len([k \in 1..n |-> Len(out) + k]) = n
  BY <1>1
<1>3. Len(out') = Len(out) + n
  BY <1>1, <1>2
<1> QED BY <1>1, <1>3

LEMMA ChunkImplementsDeliver ==
  ASSUME StreamInv, StreamInv', NEW n \in 1..received - Len(out),
         out' = out \o [k \in 1..n |-> Len(out) + k], UNCHANGED received
  PROVE  \E i \in 1..Len(NumbersLeft) : Samples!Deliver(i)
<1> DEFINE m == Len(out)  p == received - m
           q == NumbersLeft  r == NumbersLeft'  w == NumbersWritten  v == NumbersWritten'
           S == [sample : Nat]
<1>1. /\ m \in Nat /\ p \in Nat /\ n \in 1..p /\ q \in Seq(S) /\ Len(q) = p
      /\ \A k \in 1..p : q[k] = [sample |-> m + k]
      /\ w \in Seq(S) /\ Len(w) = m /\ \A k \in 1..m : w[k] = [sample |-> k]
  BY SamplesAreNumbered DEF NumbersOnly
<1>2. /\ r \in Seq(S) /\ Len(r) = p - n
      /\ \A k \in 1..p - n : r[k] = [sample |-> (m + n) + k]
      /\ v \in Seq(S) /\ Len(v) = m + n /\ \A k \in 1..m + n : v[k] = [sample |-> k]
  <2>1. received' - Len(out') = p - n /\ Len(out') = m + n
    BY ChunkLengths
  <2>2. NumbersOnly'
    BY SamplesAreNumbered, PTL
  <2>3. /\ r \in Seq(S) /\ Len(r) = received' - Len(out')
        /\ \A k \in 1..received' - Len(out') : r[k] = [sample |-> Len(out') + k]
        /\ v \in Seq(S) /\ Len(v) = Len(out')
        /\ \A k \in 1..Len(out') : v[k] = [sample |-> k]
    BY <2>2 DEF NumbersOnly
  <2> HIDE DEF r, v, m, p, S
  <2> QED BY <2>1, <2>3
<1> HIDE DEF m, p, q, r, w, v, S
<1>3. /\ \A k \in 1..Len(r) : r[k] = q[n + k]
      /\ \A k \in 1..Len(w) : v[k] = w[k]
      /\ \A k \in 1..n : v[Len(w) + k] = q[k]
  <2>1. ASSUME NEW k \in 1..p - n PROVE r[k] = q[n + k]
    <3>1. n + k \in 1..p /\ (m + n) + k = m + (n + k)
      BY <1>1, <2>1
    <3> QED BY <1>1, <1>2, <3>1
  <2>2. ASSUME NEW k \in 1..m PROVE v[k] = w[k]
    BY <1>1, <1>2, <2>2
  <2>3. ASSUME NEW k \in 1..n PROVE v[m + k] = q[k]
    <3>1. m + k \in 1..m + n /\ k \in 1..p
      BY <1>1, <2>3
    <3> QED BY <1>1, <1>2, <3>1
  <2> QED BY <1>1, <1>2, <2>1, <2>2, <2>3
<1>4. /\ q \in Seq(S) /\ r \in Seq(S) /\ w \in Seq(S) /\ v \in Seq(S)
      /\ n \in 1..Len(q) /\ Len(r) = Len(q) - n /\ Len(v) = Len(w) + n
  BY <1>1, <1>2
<1>5. r = SubSeq(q, n + 1, Len(q)) /\ v = w \o SubSeq(q, 1, n)
  <2>1. IsMove(S, q, r, w, v, n)
    BY <1>3, <1>4 DEF IsMove
  <2> QED BY <2>1, Moved
<1> QED BY <1>4, <1>5 DEF Samples!Deliver, NumbersLeft, NumbersWritten, q, r, w, v

LEMMA StreamStep ==
  ASSUME StreamInv, [StreamNext]_streamVars
  PROVE  StreamInv' /\ [Samples!StreamNext]_Samples!streamVars
<1>1. ASSUME NEW n \in Nat, NEW indices \in Seq(Nat), NEW warning \in BOOLEAN,
             Enqueue(n, indices, warning)
      PROVE  StreamInv' /\ Samples!AcceptSamples
  BY <1>1, Enqueues, ReceivedIsAccepted
<1>2. CASE \E n \in 0..MaxSize : \E indices \in TriggerIndices(n), w \in BOOLEAN :
             Receive(n, indices, w)
  <2>1. PICK n \in 0..MaxSize : \E indices \in TriggerIndices(n), w \in BOOLEAN :
               Receive(n, indices, w)
    BY <1>2
  <2>2. PICK indices \in TriggerIndices(n), w \in BOOLEAN : Receive(n, indices, w)
    BY <2>1
  <2>3. n \in Nat
    BY StreamAssumption
  <2>4. indices \in Seq(Nat)
    <3>1. PICK k \in 0..MaxTriggers : indices \in [1..k -> 0..(n - 1)]
      BY DEF TriggerIndices
    <3>2. k \in Nat /\ 0..(n - 1) \subseteq Nat
      BY <2>3, StreamAssumption
    <3> QED BY <3>1, <3>2
  <2>5. Enqueue(n, indices, w)
    BY <2>2 DEF Receive
  <2> QED BY <1>1, <2>3, <2>4, <2>5 DEF Samples!StreamNext
<1>3. CASE Interrupt
  <2>1. Enqueue(1, <<0>>, FALSE)
    BY <1>3 DEF Interrupt
  <2>2. <<0>> \in Seq(Nat) /\ 1 \in Nat /\ FALSE \in BOOLEAN
    OBVIOUS
  <2> QED BY <1>1, <2>1, <2>2 DEF Samples!StreamNext
<1>4. ASSUME UNCHANGED <<queue, out, tags, received, sampleOf>>,
             size' \in Nat, written' \in Nat
      PROVE  StreamInv' /\ UNCHANGED Samples!streamVars
  <2>1. StreamInv'
    BY <1>4 DEF StreamInv, Contiguous
  <2>2. Queued' = Queued /\ Written' = Written
    BY <1>4 DEF Queued, Written
  <2> QED BY <2>1, <2>2 DEF Samples!streamVars
<1>5. size \in Nat /\ written \in Nat
  BY DEF StreamInv
<1>6. CASE \E n \in 1..MaxOutput : ProcessBulk(n)
  <2>1. MaxOutput \in Nat
    BY StreamAssumption
  <2> QED BY <1>4, <1>6, <2>1 DEF ProcessBulk
<1>7. CASE SkipEmpty
  BY <1>4, <1>5, <1>7 DEF SkipEmpty, streamVars
<1>8. CASE CopyChunk
  <2>1. PICK n \in 1..received - Len(out) :
          out' = out \o [k \in 1..n |-> Len(out) + k] /\ UNCHANGED received
    BY <1>8, ChunkIsDelivered
  <2>2. StreamInv'
    BY <1>8, ChunkIsDelivered
  <2>3. \E i \in 1..Len(NumbersLeft) : Samples!Deliver(i)
    BY <2>1, <2>2, ChunkImplementsDeliver
  <2> QED BY <2>2, <2>3 DEF Samples!StreamNext, NumbersLeft
<1>9. CASE Publish
  BY <1>4, <1>9 DEF Publish
<1>10. CASE Done \/ UNCHANGED streamVars
  BY <1>4, <1>5, <1>10 DEF Done, streamVars
<1> QED BY <1>2, <1>3, <1>6, <1>7, <1>8, <1>9, <1>10 DEF StreamNext, SourceBlock

\* No sample is lost, repeated or overtaken between the client thread, which
\* appends acquisitions of any size to the queue, and the output of processBulk,
\* whose spans end anywhere within them: the queue implements the lossless stream
\* of the samples.
THEOREM SamplesAreLossless == StreamSpec => Samples!StreamSpec
<1>1. StreamInit => StreamInv /\ Samples!StreamInit
  BY StreamInitially
<1>2. StreamInv /\ [StreamNext]_streamVars
        => StreamInv' /\ [Samples!StreamNext]_Samples!streamVars
  BY StreamStep
<1> QED BY <1>1, <1>2, PTL DEF StreamSpec, Samples!StreamSpec

-----------------------------------------------------------------------------
(* RemoteStream: the triggers, without the warning of skipped updates.     *)

\* Of the triggers of the samples s, d has those from after b on: those of its own
\* samples, with their maps.
MarkedFrom(d, b, s) ==
  /\ b + Len(d.triggers) <= Len(s) /\ Len(d.yaml) = Len(d.triggers)
  /\ \A i \in 1..Len(d.triggers) :
       /\ d.triggers[i].index + d.first = s[b + i]
       /\ d.triggers[i].name = b + i /\ d.yaml[i] = b + i
  /\ \A t \in 1..Len(s) :
       d.first <= s[t] /\ s[t] < d.first + d.n
         => t \in b + 1..b + Len(d.triggers)

InTime(s) == \A t, u \in 1..Len(s) : t <= u => s[t] <= s[u]

\* The triggers are in the order of their samples; the acquisitions in the queue
\* have those that are not published, and published are those of the samples that
\* were written.
MarksInv ==
  /\ \A t \in 1..Len(sampleOf) : sampleOf[t] \in 1..received
  /\ InTime(sampleOf)
  /\ \A k \in 1..Len(queue) : \E b \in Nat : MarkedFrom(queue[k], b, sampleOf)
  /\ tags \in Seq([at : Nat, name : Nat, yaml : Nat]) /\ Len(tags) <= Len(sampleOf)
  /\ \A t \in 1..Len(tags) : tags[t] = [at |-> sampleOf[t], name |-> t, yaml |-> t]
  /\ \A t \in 1..Len(sampleOf) : t <= Len(tags) <=> sampleOf[t] <= Len(out)

Unbroken(K) == \A i, j \in K : \A k \in i..j : k \in K

\* A set of numbers that leaves out none between two of its own is a range.
LEMMA OneRange ==
  ASSUME NEW n \in Nat, NEW K \in SUBSET (1..n), K # {},
         Unbroken(K)
  PROVE  \E x, y \in 1..n : x <= y /\ K = x..y
<1> USE DEF Unbroken
<1>1. PICK low \in K : \A k \in K : low <= k
  <2>1. K \in SUBSET Nat
    OBVIOUS
  <2> QED BY <2>1, Least
<1>2. Max(K) \in K /\ \A k \in K : k <= Max(K)
  <2>1. IsFiniteSet(1..n) /\ K \in SUBSET Nat
    BY FS_Interval
  <2>2. IsFiniteSet(K)
    BY <2>1, FS_Subset
  <2> QED BY <2>1, <2>2, Greatest
<1> DEFINE top == Max(K)
<1>3. top \in K /\ \A k \in K : k <= top
  BY <1>2
<1> HIDE DEF top
<1>4. low \in 1..n /\ top \in low..n
  BY <1>1, <1>3
<1>5. K = low..top
  <2>1. ASSUME NEW k \in K PROVE k \in low..top
    BY <1>1, <1>3
  <2> QED BY <1>3, <2>1
<1>6. low \in 1..n /\ top \in 1..n /\ low <= top
  BY <1>4
<1> QED BY <1>5, <1>6

\* The elements of a concatenation.
LEMMA Joined ==
  ASSUME NEW S, NEW a \in Seq(S), NEW b \in Seq(S)
  PROVE  /\ a \o b \in Seq(S) /\ Len(a \o b) = Len(a) + Len(b)
         /\ \A k \in 1..Len(a) : (a \o b)[k] = a[k]
         /\ \A k \in 1..Len(b) : (a \o b)[Len(a) + k] = b[k]
<1>1. /\ a \o b \in Seq(S) /\ Len(a \o b) = Len(a) + Len(b)
      /\ \A k \in 1..Len(a) + Len(b) :
           (a \o b)[k] = IF k <= Len(a) THEN a[k] ELSE b[k - Len(a)]
  BY ConcatProperties
<1>2. ASSUME NEW k \in 1..Len(a) PROVE (a \o b)[k] = a[k]
  BY <1>1
<1>3. ASSUME NEW k \in 1..Len(b) PROVE (a \o b)[Len(a) + k] = b[k]
  <2> DEFINE l == Len(a)
  <2>1. l \in Nat /\ Len(b) \in Nat
    OBVIOUS
  <2> HIDE DEF l
  <2>2. l + k \in 1..l + Len(b) /\ ~(l + k <= l) /\ (l + k) - l = k
    BY <2>1
  <2> QED BY <1>1, <2>2 DEF l
<1> QED BY <1>1, <1>2, <1>3

LEMMA MarksInitially ==
  StreamInit => MarksInv
<1> SUFFICES ASSUME StreamInit PROVE MarksInv
  OBVIOUS
<1>1. queue = <<>> /\ sampleOf = <<>> /\ tags = <<>>
  BY DEF StreamInit
<1>2. Len(queue) = 0 /\ Len(sampleOf) = 0 /\ Len(tags) = 0 /\ 1..0 = {}
      /\ tags \in Seq([at : Nat, name : Nat, yaml : Nat])
  BY <1>1
<1> QED BY <1>2 DEF MarksInv, InTime

\* The samples u of the triggers, with those at the given indices after r samples.
Extended(s, indices, r, u) ==
  /\ u \in Seq(Nat) /\ Len(u) = Len(s) + Len(indices)
  /\ \A t \in 1..Len(s) : u[t] = s[t]
  /\ \A k \in 1..Len(indices) : u[Len(s) + k] = r + 1 + indices[k]

\* What the client thread appends to the triggers.
LEMMA MarksAppended ==
  ASSUME StreamInv, NEW n \in Nat, NEW indices \in Seq(Nat), Enqueue(n, indices, FALSE)
  PROVE  Extended(sampleOf, indices, received, sampleOf')
<1> DEFINE a == [k \in 1..Len(indices) |-> received + 1 + indices[k]]
<1>1. sampleOf \in Seq(Nat) /\ received \in Nat /\ Len(indices) \in Nat
  BY DEF StreamInv
<1>2. a \in Seq(Nat) /\ Len(a) = Len(indices)
      /\ \A k \in 1..Len(indices) : a[k] = received + 1 + indices[k]
  <2>1. \A k \in 1..Len(indices) : received + 1 + indices[k] \in Nat
    BY <1>1
  <2> QED BY <1>1, <2>1
<1>3. sampleOf' = sampleOf \o a \o <<>>
  BY DEF Enqueue
<1> HIDE DEF a
<1>4. sampleOf' = sampleOf \o a
  <2>1. sampleOf \o a \in Seq(Nat)
    BY <1>1, <1>2
  <2> QED BY <1>3, <2>1, ConcatEmptySeq
<1>5. /\ sampleOf \o a \in Seq(Nat) /\ Len(sampleOf \o a) = Len(sampleOf) + Len(a)
      /\ \A k \in 1..Len(sampleOf) : (sampleOf \o a)[k] = sampleOf[k]
      /\ \A k \in 1..Len(a) : (sampleOf \o a)[Len(sampleOf) + k] = a[k]
  BY <1>1, <1>2, Joined
<1> QED BY <1>2, <1>4, <1>5 DEF Extended

\* The triggers that are appended are later ones, and in order.
LEMMA ExtendedInTime ==
  ASSUME NEW s \in Seq(Nat), NEW indices \in Seq(Nat), NEW r \in Nat, NEW u, NEW n \in Nat,
         Extended(s, indices, r, u), \A i \in 1..Len(indices) : indices[i] < n,
         InTime(s), InTime(indices), \A t \in 1..Len(s) : s[t] \in 1..r
  PROVE  InTime(u) /\ \A t \in 1..Len(u) : u[t] \in 1..r + n /\ (t <= Len(s) \/ u[t] > r)
<1>1. Len(s) \in Nat /\ Len(indices) \in Nat
  OBVIOUS
<1>0. ASSUME NEW t \in 1..Len(u)
      PROVE  \/ t \in 1..Len(s) /\ u[t] = s[t]
             \/ \E k \in 1..Len(indices) :
                  t = Len(s) + k /\ u[t] = r + 1 + indices[k] /\ indices[k] \in 0..n - 1
  <2>1. CASE t <= Len(s)
    BY <1>1, <2>1 DEF Extended
  <2>2. CASE ~(t <= Len(s))
    <3>1. t - Len(s) \in 1..Len(indices) /\ Len(s) + (t - Len(s)) = t
      BY <1>1, <2>2 DEF Extended
    <3>2. indices[t - Len(s)] \in Nat /\ indices[t - Len(s)] < n
      BY <3>1, ElementOfSeq
    <3>3. u[Len(s) + (t - Len(s))] = r + 1 + indices[t - Len(s)]
      BY <3>1 DEF Extended
    <3>4. indices[t - Len(s)] \in 0..n - 1
      BY <3>2
    <3> QED BY <3>1, <3>3, <3>4
  <2> QED BY <2>1, <2>2
<1>2. ASSUME NEW t \in 1..Len(u) PROVE u[t] \in 1..r + n /\ (t <= Len(s) \/ u[t] > r)
  <2>1. CASE t \in 1..Len(s) /\ u[t] = s[t]
    BY <1>1, <2>1
  <2>2. CASE \E k \in 1..Len(indices) : u[t] = r + 1 + indices[k] /\ indices[k] \in 0..n - 1
    <3>1. PICK x \in 0..n - 1 : u[t] = r + 1 + x
      BY <2>2
    <3> QED BY <3>1
  <2> QED BY <1>0, <2>1, <2>2
<1>3. ASSUME NEW t \in 1..Len(u), NEW v \in 1..Len(u), t <= v PROVE u[t] <= u[v]
  <2>1. CASE v <= Len(s)
    <3>1. t \in 1..Len(s) /\ v \in 1..Len(s)
      BY <1>1, <1>3, <2>1
    <3> QED BY <1>3, <3>1 DEF InTime, Extended
  <2>2. CASE t <= Len(s) /\ ~(v <= Len(s))
    <3>1. t \in 1..Len(s)
      BY <1>1, <2>2
    <3>2. u[t] = s[t] /\ s[t] \in 1..r /\ u[v] \in 1..r + n /\ u[v] > r
      BY <1>2, <2>2, <3>1 DEF Extended
    <3> QED BY <3>2
  <2>3. CASE ~(t <= Len(s)) /\ ~(v <= Len(s))
    <3>1. PICK k \in 1..Len(indices) :
            t = Len(s) + k /\ u[t] = r + 1 + indices[k] /\ indices[k] \in 0..n - 1
      BY <1>0, <1>1, <2>3
    <3>2. PICK j \in 1..Len(indices) :
            v = Len(s) + j /\ u[v] = r + 1 + indices[j] /\ indices[j] \in 0..n - 1
      BY <1>0, <1>1, <2>3
    <3>3. k <= j
      BY <1>1, <1>3, <3>1, <3>2
    <3>4. indices[k] <= indices[j]
      BY <3>3 DEF InTime
    <3>5. \A x, y \in 0..n - 1 : x <= y => r + 1 + x <= r + 1 + y
      OBVIOUS
    <3>6. r + 1 + indices[k] <= r + 1 + indices[j]
      BY <3>1, <3>2, <3>4, <3>5
    <3> QED BY <3>1, <3>2, <3>6
  <2> QED BY <2>1, <2>2, <2>3
<1> QED BY <1>2, <1>3 DEF InTime

\* What is queued keeps its triggers, as the later ones are of later samples.
LEMMA MarksStay ==
  ASSUME NEW d \in QueuedAcquisitions, NEW b \in Nat, NEW s \in Seq(Nat), NEW u \in Seq(Nat),
         NEW r \in Nat, Len(s) <= Len(u), \A t \in 1..Len(s) : u[t] = s[t],
         \A t \in 1..Len(u) : t <= Len(s) \/ u[t] > r,
         d.first + d.n <= r + 1, MarkedFrom(d, b, s)
  PROVE  MarkedFrom(d, b, u)
<1> DEFINE a == d.first  c == d.n  z == Len(d.triggers)
<1>1. /\ b + z <= Len(s) /\ Len(d.yaml) = z
      /\ \A i \in 1..z : /\ d.triggers[i].index + a = s[b + i]
                         /\ d.triggers[i].name = b + i /\ d.yaml[i] = b + i
      /\ \A t \in 1..Len(s) : a <= s[t] /\ s[t] < a + c => t \in b + 1..b + z
  BY DEF MarkedFrom
<1>2. a \in Nat /\ c \in Nat /\ z \in Nat /\ a + c <= r + 1 /\ Len(s) \in Nat /\ Len(u) \in Nat
  BY DEF QueuedAcquisitions
<1> HIDE DEF a, c, z
<1>3. \A i \in 1..z : d.triggers[i].index + a = u[b + i]
  <2>1. ASSUME NEW i \in 1..z PROVE b + i \in 1..Len(s)
    BY <1>1, <1>2
  <2> QED BY <1>1, <2>1
<1>4. ASSUME NEW t \in 1..Len(u), a <= u[t], u[t] < a + c PROVE t \in b + 1..b + z
  <2>1. u[t] \in Nat
    BY ElementOfSeq
  <2>2. ~(u[t] > r)
    BY <1>2, <1>4, <2>1
  <2>3. t \in 1..Len(s)
    BY <1>2, <2>2
  <2> QED BY <1>1, <1>4, <2>3
<1>5. b + z <= Len(u)
  BY <1>1, <1>2
<1> QED BY <1>1, <1>3, <1>4, <1>5 DEF MarkedFrom, a, c, z

\* An acquisition that is appended has the triggers that are appended.
LEMMA MarksOfNew ==
  ASSUME NEW s \in Seq(Nat), NEW indices \in Seq(Nat), NEW r \in Nat, NEW u,
         Extended(s, indices, r, u), \A t \in 1..Len(s) : s[t] \in 1..r, NEW d,
         d.first = r + 1, Len(d.triggers) = Len(indices), Len(d.yaml) = Len(indices),
         \A i \in 1..Len(indices) : /\ d.triggers[i].index = indices[i]
                                    /\ d.triggers[i].name = Len(s) + i
                                    /\ d.yaml[i] = Len(s) + i
  PROVE  MarkedFrom(d, Len(s), u)
<1>1. Len(s) \in Nat /\ Len(indices) \in Nat /\ Len(u) = Len(s) + Len(indices)
  BY DEF Extended
<1>2. ASSUME NEW i \in 1..Len(indices) PROVE d.triggers[i].index + d.first = u[Len(s) + i]
  <2>1. indices[i] \in Nat /\ u[Len(s) + i] = r + 1 + indices[i]
    BY ElementOfSeq DEF Extended
  <2> QED BY <2>1
<1>3. ASSUME NEW t \in 1..Len(u), d.first <= u[t]
      PROVE  t \in Len(s) + 1..Len(s) + Len(indices)
  <2>1. CASE t <= Len(s)
    <3>1. t \in 1..Len(s)
      BY <1>1, <2>1
    <3>2. u[t] \in 1..r
      BY <3>1 DEF Extended
    <3> QED BY <1>3, <3>2
  <2> QED BY <1>1, <2>1
<1> QED BY <1>1, <1>2, <1>3 DEF MarkedFrom

\* The marks of what is appended to the queue.
LEMMA MarksEnqueued ==
  ASSUME StreamInv, StreamInv', MarksInv, NEW n \in Nat, NEW indices \in Seq(Nat),
         \A i \in 1..Len(indices) : indices[i] < n, InTime(indices),
         Enqueue(n, indices, FALSE)
  PROVE  MarksInv'
<1> DEFINE L == Len(sampleOf)
           l == Len(indices)
           triggers == [k \in 1..l |-> [index |-> indices[k], name |-> L + k]]
           yaml == [k \in 1..l |-> L + k]
           d == Acquisition(received + 1, n, <<>> \o triggers, yaml)
<1>1. /\ queue' = Append(queue, d) /\ received' = received + n /\ UNCHANGED <<out, tags>>
  BY DEF Enqueue
<1>2. /\ L \in Nat /\ l \in Nat /\ received \in Nat /\ Len(tags) \in Nat /\ Len(out) \in Nat
      /\ Len(tags) <= L /\ Len(out) <= received /\ sampleOf \in Seq(Nat)
      /\ \A k \in 1..l : indices[k] \in Nat
  <2>1. /\ sampleOf \in Seq(Nat) /\ out \in Seq(Nat) /\ received \in Nat
        /\ Len(out) <= received
    BY LeftNumbers DEF StreamInv
  <2>2. tags \in Seq([at : Nat, name : Nat, yaml : Nat]) /\ Len(tags) <= L
    BY DEF MarksInv
  <2>3. \A k \in 1..l : indices[k] \in Nat
    BY ElementOfSeq
  <2> QED BY <2>1, <2>2, <2>3
<1>3. Extended(sampleOf, indices, received, sampleOf')
  BY MarksAppended
<1>4. sampleOf' \in Seq(Nat) /\ Len(sampleOf') = L + l /\ \A t \in 1..L : sampleOf'[t] = sampleOf[t]
  BY <1>3 DEF Extended
<1>5. /\ \A t \in 1..L : sampleOf[t] \in 1..received
      /\ InTime(sampleOf)
      /\ \A t \in 1..L : t <= Len(tags) <=> sampleOf[t] <= Len(out)
      /\ \A t \in 1..Len(tags) : tags[t] = [at |-> sampleOf[t], name |-> t, yaml |-> t]
      /\ \A k \in 1..Len(queue) : \E b \in Nat : MarkedFrom(queue[k], b, sampleOf)
      /\ tags \in Seq([at : Nat, name : Nat, yaml : Nat])
  BY DEF MarksInv
<1>6. /\ InTime(sampleOf')
      /\ \A t \in 1..L + l : sampleOf'[t] \in 1..received + n /\ (t <= L \/ sampleOf'[t] > received)
  <2> DEFINE u == sampleOf'  s == sampleOf  r == received
  <2>1. s \in Seq(Nat) /\ r \in Nat /\ Extended(s, indices, r, u) /\ InTime(s)
        /\ \A t \in 1..Len(s) : s[t] \in 1..r
    BY <1>2, <1>3, <1>5
  <2> HIDE DEF u, s, r
  <2>2. InTime(u) /\ \A t \in 1..Len(u) : u[t] \in 1..r + n /\ (t <= Len(s) \/ u[t] > r)
    BY <2>1, ExtendedInTime
  <2> QED BY <1>4, <2>2 DEF u, s, r
<1>7. /\ d.first = received + 1 /\ Len(d.triggers) = l /\ Len(d.yaml) = l
      /\ \A i \in 1..l : /\ d.triggers[i].index = indices[i]
                         /\ d.triggers[i].name = L + i /\ d.yaml[i] = L + i
  <2>1. triggers \in Seq([index : Nat, name : Nat])
    BY <1>2
  <2>2. <<>> \o triggers = triggers
    <3> HIDE DEF triggers
    <3> QED BY <2>1, ConcatEmptySeq
  <2>3. /\ Len(triggers) = l /\ Len(yaml) = l
        /\ \A i \in 1..l : triggers[i].index = indices[i] /\ triggers[i].name = L + i
                           /\ yaml[i] = L + i
    BY <1>2
  <2> HIDE DEF triggers, yaml
  <2> QED BY <2>2, <2>3 DEF Acquisition
<1>8. queue \in Seq(QueuedAcquisitions)
  BY DEF StreamInv
<1> HIDE DEF d
<1>9. /\ Len(queue') = Len(queue) + 1 /\ Len(queue) \in Nat
      /\ \A k \in 1..Len(queue) : queue'[k] = queue[k]
      /\ queue'[Len(queue) + 1] = d
  BY <1>1, <1>8
<1>10. ASSUME NEW k \in 1..Len(queue) PROVE \E b \in Nat : MarkedFrom(queue[k], b, sampleOf')
  <2> DEFINE e == queue[k]  u == sampleOf'  s == sampleOf  r == received
  <2>1. PICK b \in Nat : MarkedFrom(e, b, s)
    BY <1>5
  <2>2. e \in QueuedAcquisitions /\ e.first + e.n <= r + 1
    BY <1>8 DEF StreamInv, Contiguous
  <2>3. /\ s \in Seq(Nat) /\ u \in Seq(Nat) /\ r \in Nat /\ Len(s) <= Len(u)
        /\ \A t \in 1..Len(s) : u[t] = s[t]
        /\ \A t \in 1..Len(u) : t <= Len(s) \/ u[t] > r
    BY <1>2, <1>4, <1>6
  <2> HIDE DEF e, u, s, r
  <2>4. MarkedFrom(e, b, u)
    BY <2>1, <2>2, <2>3, MarksStay
  <2> QED BY <2>4 DEF e, u
<1>11. MarkedFrom(d, L, sampleOf')
  <2> DEFINE u == sampleOf'  s == sampleOf  r == received
  <2>1. s \in Seq(Nat) /\ r \in Nat /\ Extended(s, indices, r, u)
        /\ \A t \in 1..Len(s) : s[t] \in 1..r
    BY <1>2, <1>3, <1>5
  <2>2. /\ d.first = r + 1 /\ Len(d.triggers) = Len(indices) /\ Len(d.yaml) = Len(indices)
        /\ \A i \in 1..Len(indices) : /\ d.triggers[i].index = indices[i]
                                      /\ d.triggers[i].name = Len(s) + i
                                      /\ d.yaml[i] = Len(s) + i
    BY <1>7
  <2> HIDE DEF u, s, r
  <2>3. MarkedFrom(d, Len(s), u)
    BY <2>1, <2>2, MarksOfNew
  <2> QED BY <2>3 DEF u, s
<1>12. \A k \in 1..Len(queue') : \E b \in Nat : MarkedFrom(queue'[k], b, sampleOf')
  <2> TAKE k \in 1..Len(queue')
  <2>1. CASE k \in 1..Len(queue)
    BY <1>9, <1>10, <2>1
  <2>2. CASE k = Len(queue) + 1
    <3>1. queue'[k] = d /\ L \in Nat
      BY <1>2, <1>9, <2>2
    <3> HIDE DEF L
    <3> QED BY <1>11, <3>1
  <2> QED BY <1>9, <2>1, <2>2
<1> HIDE DEF L, l, triggers, yaml
<1>13. \A t \in 1..L + l : t <= Len(tags) <=> sampleOf'[t] <= Len(out)
  <2> TAKE t \in 1..L + l
  <2>1. CASE t <= L
    <3>1. t \in 1..L
      BY <1>2, <2>1
    <3>2. sampleOf'[t] = sampleOf[t] /\ (t <= Len(tags) <=> sampleOf[t] <= Len(out))
      BY <1>4, <1>5, <3>1
    <3> QED BY <3>2
  <2>2. CASE ~(t <= L)
    <3>1. sampleOf'[t] > received /\ sampleOf'[t] \in 1..received + n
      BY <1>6, <2>2
    <3> QED BY <1>2, <2>2, <3>1
  <2> QED BY <2>1, <2>2
<1>14. \A t \in 1..Len(tags) : tags[t] = [at |-> sampleOf'[t], name |-> t, yaml |-> t]
  <2>1. \A t \in 1..Len(tags) : t \in 1..L
    BY <1>2
  <2> QED BY <1>4, <1>5, <2>1
<1>15. Len(tags) <= L + l
  BY <1>2
<1> QED BY <1>1, <1>4, <1>5, <1>6, <1>12, <1>13, <1>14, <1>15 DEF MarksInv

\* What is published of an acquisition, when n of its samples are written after the
\* m that were, are the triggers of these samples.
DueOf(d, n) ==
  {k \in DOMAIN Zipped(d) :
     Zipped(d)[k].index >= d.read /\ Zipped(d)[k].index - d.read < n}

\* d is the acquisition the n samples after m are written from.
NextOf(d, b, s, m, n) ==
  /\ d \in QueuedAcquisitions /\ b \in Nat /\ s \in Seq(Nat) /\ m \in Nat /\ n \in Nat
  /\ MarkedFrom(d, b, s) /\ d.first + d.read = m + 1 /\ d.read + n <= d.n

\* The triggers of d are those of the samples s from after b on.
TriggersFrom(d, b, s, z) ==
  /\ b + z <= Len(s)
  /\ \A k \in 1..z : /\ Zipped(d)[k].index \in Nat
                     /\ Zipped(d)[k].index + d.first = s[b + k]
                     /\ Zipped(d)[k].name = b + k /\ Zipped(d)[k].yaml = b + k

\* Those that are due are those of the n samples.
DueTriggersOf(d, b, s, m, n, D) ==
  /\ D \subseteq 1..Len(d.triggers)
  /\ \A k \in 1..Len(d.triggers) : k \in D <=> m < s[b + k] /\ s[b + k] <= m + n
  /\ \A t \in 1..Len(s) : m < s[t] /\ s[t] <= m + n => t - b \in D /\ t = b + (t - b)

LEMMA DueTriggers ==
  ASSUME NEW d, NEW b, NEW s, NEW m, NEW n, NextOf(d, b, s, m, n)
  PROVE  /\ Len(d.triggers) \in Nat /\ TriggersFrom(d, b, s, Len(d.triggers))
         /\ DueTriggersOf(d, b, s, m, n, DueOf(d, n))
<1> SUFFICES ASSUME d \in QueuedAcquisitions, b \in Nat, s \in Seq(Nat), m \in Nat, n \in Nat,
                    MarkedFrom(d, b, s), d.first + d.read = m + 1, d.read + n <= d.n
             PROVE  /\ Len(d.triggers) \in Nat /\ TriggersFrom(d, b, s, Len(d.triggers))
                    /\ DueTriggersOf(d, b, s, m, n, DueOf(d, n))
  BY DEF NextOf
<1> DEFINE z == Len(d.triggers)  a == d.first  c == d.read
<1>1. /\ a \in Nat /\ c \in Nat /\ z \in Nat /\ d.n \in Nat /\ a + c = m + 1
      /\ \A k \in 1..z : d.triggers[k].index \in Nat
  <2>1. /\ a \in Nat /\ c \in Nat /\ d.n \in Nat
        /\ d.triggers \in Seq([index : Nat, name : Nat])
    BY DEF QueuedAcquisitions
  <2>2. z \in Nat /\ a + c = m + 1
    BY <2>1
  <2>3. ASSUME NEW k \in 1..z PROVE d.triggers[k].index \in Nat
    <3> DEFINE q == d.triggers
    <3>1. q \in Seq([index : Nat, name : Nat]) /\ k \in 1..Len(q)
      BY <2>1
    <3> HIDE DEF q
    <3>2. q[k] \in [index : Nat, name : Nat]
      BY <3>1, ElementOfSeq
    <3> QED BY <3>2 DEF q
  <2> QED BY <2>1, <2>2, <2>3
<1>2. /\ b + z <= Len(s) /\ Len(d.yaml) = z
      /\ \A i \in 1..z : /\ d.triggers[i].index + a = s[b + i]
                         /\ d.triggers[i].name = b + i /\ d.yaml[i] = b + i
      /\ \A t \in 1..Len(s) : a <= s[t] /\ s[t] < a + d.n => t \in b + 1..b + z
  BY DEF MarkedFrom
<1>3. Min2(Len(d.triggers), Len(d.yaml)) = z
  BY <1>1, <1>2 DEF Min2
<1>4. /\ DOMAIN Zipped(d) = 1..z
      /\ \A k \in 1..z : /\ Zipped(d)[k].index = d.triggers[k].index
                         /\ Zipped(d)[k].name = d.triggers[k].name
                         /\ Zipped(d)[k].yaml = d.yaml[k]
  BY <1>3 DEF Zipped
<1> HIDE DEF z, a, c
<1>5. DueOf(d, n) \subseteq 1..z
  BY <1>4 DEF DueOf
<1>6. ASSUME NEW k \in 1..z
      PROVE  k \in DueOf(d, n) <=> m < s[b + k] /\ s[b + k] <= m + n
  <2> DEFINE x == d.triggers[k].index
  <2>1. x \in Nat /\ s[b + k] = x + a
    BY <1>1, <1>2
  <2>2. k \in DueOf(d, n) <=> x >= c /\ x - c < n
    BY <1>4 DEF DueOf, c
  <2> HIDE DEF x
  <2>5. x \in Nat /\ a \in Nat /\ c \in Nat /\ m \in Nat /\ n \in Nat /\ a + c = m + 1
    BY <1>1, <2>1
  <2>3. x >= c <=> m < x + a
    BY <2>5
  <2>4. x - c < n <=> x + a <= m + n
    BY <2>5
  <2> QED BY <2>1, <2>2, <2>3, <2>4
<1>7. ASSUME NEW t \in 1..Len(s), m < s[t], s[t] <= m + n
      PROVE  t - b \in DueOf(d, n) /\ t = b + (t - b)
  <2>1. s[t] \in Nat
    BY ElementOfSeq
  <2>2. a <= s[t]
    BY <1>1, <1>7, <2>1
  <2>3. s[t] < a + d.n
    <3>1. c + n <= d.n
      BY DEF c
    <3> QED BY <1>1, <1>7, <2>1, <3>1
  <2>4. t \in b + 1..b + z
    BY <1>2, <2>2, <2>3
  <2>5. t - b \in 1..z /\ t = b + (t - b)
    BY <1>1, <2>4
  <2> QED BY <1>6, <1>7, <2>5
<1>8. TriggersFrom(d, b, s, z)
  BY <1>1, <1>2, <1>4 DEF TriggersFrom, a
<1> QED BY <1>1, <1>5, <1>6, <1>7, <1>8 DEF z, DueTriggersOf

\* They are the next ones, up to the last of these samples.
PublishedUpTo(T, s, m) ==
  T \in 0..Len(s) /\ InTime(s) /\ \A t \in 1..Len(s) : t <= T <=> s[t] <= m

\* What is due is a range of triggers, from after T on to the last of the n samples.
DueRange(d, b, s, m, n, T, x, y) ==
  /\ x <= y /\ DueOf(d, n) = x..y /\ b + x = T + 1 /\ b + y <= Len(s)
  /\ \A t \in 1..Len(s) : t <= b + y <=> s[t] <= m + n

LEMMA DueInOrder ==
  ASSUME NEW d, NEW b, NEW s, NEW m, NEW n, NEW T,
         NextOf(d, b, s, m, n), PublishedUpTo(T, s, m), DueOf(d, n) # {}
  PROVE  \E x, y \in 1..Len(d.triggers) : DueRange(d, b, s, m, n, T, x, y)
<1> SUFFICES ASSUME b \in Nat, s \in Seq(Nat), m \in Nat, n \in Nat, T \in 0..Len(s),
                    InTime(s), \A t \in 1..Len(s) : t <= T <=> s[t] <= m
             PROVE  \E x, y \in 1..Len(d.triggers) : DueRange(d, b, s, m, n, T, x, y)
  BY DEF NextOf, PublishedUpTo
<1> DEFINE D == DueOf(d, n)  z == Len(d.triggers)
<1>1. /\ D \subseteq 1..z /\ z \in Nat /\ b + z <= Len(s)
      /\ \A k \in 1..z : k \in D <=> m < s[b + k] /\ s[b + k] <= m + n
      /\ \A t \in 1..Len(s) : m < s[t] /\ s[t] <= m + n => t - b \in D /\ t = b + (t - b)
  BY DueTriggers DEF DueTriggersOf, TriggersFrom
<1> HIDE DEF D, z
<1>0. /\ m + n \in Nat
      /\ \A i, j, k \in Nat : (i <= j /\ j <= k => i <= k) /\ (i < j /\ j <= k => i < k)
  OBVIOUS
<1>2. ASSUME NEW t \in 1..Len(s) PROVE s[t] \in Nat
  BY ElementOfSeq
<1>3. ASSUME NEW k \in 1..z PROVE b + k \in 1..Len(s)
  BY <1>1
<1>4. ASSUME NEW i \in D, NEW j \in D, NEW k \in i..j PROVE k \in D
  <2>1. i \in 1..z /\ j \in 1..z /\ k \in 1..z
    BY <1>1
  <2>2. b + i \in 1..Len(s) /\ b + j \in 1..Len(s) /\ b + k \in 1..Len(s)
        /\ b + i <= b + k /\ b + k <= b + j
    BY <1>3, <2>1
  <2>3. s[b + i] <= s[b + k] /\ s[b + k] <= s[b + j]
    BY <2>2 DEF InTime
  <2>4. m < s[b + i] /\ s[b + j] <= m + n
    BY <1>1, <2>1
  <2>5. s[b + i] \in Nat /\ s[b + j] \in Nat /\ s[b + k] \in Nat
    BY <1>2, <2>2
  <2>6. m < s[b + k] /\ s[b + k] <= m + n
    BY <1>0, <2>3, <2>4, <2>5
  <2> QED BY <1>1, <2>1, <2>6
<1>5. PICK x \in 1..z, y \in 1..z : x <= y /\ D = x..y
  <2>1. D # {} /\ D \in SUBSET (1..z)
    BY <1>1 DEF D
  <2>2. z \in Nat /\ Unbroken(D)
    BY <1>1, <1>4 DEF Unbroken
  <2> QED BY <2>1, <2>2, OneRange, ZenonT(30)
<1>6. x \in D /\ y \in D /\ b + x \in 1..Len(s) /\ b + y \in 1..Len(s)
  BY <1>3, <1>5
<1>7. ASSUME NEW t \in 1..Len(s), m < s[t], s[t] <= m + n PROVE b + x <= t /\ t <= b + y
  <2>1. t - b \in x..y /\ t = b + (t - b)
    BY <1>1, <1>5, <1>7
  <2> QED BY <1>5, <2>1
<1>8. /\ m < s[b + x] /\ s[b + x] <= m + n /\ m < s[b + y] /\ s[b + y] <= m + n
      /\ s[b + x] \in Nat /\ s[b + y] \in Nat
  BY <1>1, <1>2, <1>5, <1>6
<1>9. b + x = T + 1
  <2>1. ~(b + x <= T)
    <3>1. ~(s[b + x] <= m)
      BY <1>1, <1>8
    <3> QED BY <1>1, <1>6, <3>1
  <2>2. CASE b + x > T + 1
    <3>1. T + 1 \in 1..Len(s) /\ T + 1 <= b + x /\ ~(T + 1 <= T)
      BY <1>6, <2>2
    <3>2. s[T + 1] <= s[b + x] /\ m < s[T + 1] /\ s[T + 1] \in Nat
      BY <1>2, <1>6, <3>1 DEF InTime
    <3>3. m < s[T + 1] /\ s[T + 1] <= m + n
      BY <1>0, <1>8, <3>2
    <3>4. b + x <= T + 1
      BY <1>7, <3>1, <3>3
    <3> QED BY <1>6, <2>2, <3>4
  <2> QED BY <1>6, <2>1, <2>2
<1>10. ASSUME NEW t \in 1..Len(s) PROVE t <= b + y <=> s[t] <= m + n
  <2>1. ASSUME t <= b + y PROVE s[t] <= m + n
    <3>1. s[t] <= s[b + y]
      BY <1>6, <2>1 DEF InTime
    <3> QED BY <1>0, <1>2, <1>8, <3>1
  <2>2. ASSUME s[t] <= m + n PROVE t <= b + y
    <3>1. CASE m < s[t]
      BY <1>7, <2>2, <3>1
    <3>2. CASE ~(m < s[t])
      <4>1. s[t] \in Nat /\ s[t] <= m
        BY <1>2, <3>2
      <4>2. t <= T
        BY <4>1
      <4> QED BY <1>5, <1>9, <4>2
    <3> QED BY <3>1, <3>2
  <2> QED BY <2>1, <2>2
<1>11. x \in 1..z /\ y \in 1..z /\ x <= y /\ D = x..y /\ b + y <= Len(s)
  BY <1>5, <1>6
<1> QED BY <1>9, <1>10, <1>11 DEF D, z, DueRange

\* Nothing is due: the triggers that are published stay those of the samples.
LEMMA NothingDue ==
  ASSUME NEW d, NEW b, NEW s, NEW m, NEW n, NEW T,
         NextOf(d, b, s, m, n), PublishedUpTo(T, s, m), DueOf(d, n) = {}
  PROVE  \A t \in 1..Len(s) : t <= T <=> s[t] <= m + n
<1>1. \A t \in 1..Len(s) : ~(m < s[t] /\ s[t] <= m + n)
  <2>1. DueTriggersOf(d, b, s, m, n, {})
    BY DueTriggers
  <2> QED BY <2>1 DEF DueTriggersOf
<1>2. s \in Seq(Nat) /\ m \in Nat /\ n \in Nat
  BY DEF NextOf
<1> TAKE t \in 1..Len(s)
<1>3. s[t] \in Nat /\ (t <= T <=> s[t] <= m)
  BY <1>2, ElementOfSeq DEF PublishedUpTo
<1>4. s[t] <= m <=> s[t] <= m + n
  BY <1>1, <1>2, <1>3
<1> QED BY <1>3, <1>4

LEMMA PublishesNothing ==
  ASSUME NEW d, NEW n, DueOf(d, n) = {}
  PROVE  PublishedTags(d, n) = <<>>
<1> DEFINE chosen == Selected(Zipped(d), DueOf(d, n))
           e(k) == [at   |-> Len(out) - written + 1 + written + chosen[k].index - d.read,
                    name |-> chosen[k].name, yaml |-> chosen[k].yaml]
<1>1. PublishedTags(d, n) = [k \in DOMAIN chosen |-> e(k)]
  BY DEF PublishedTags, DueOf
<1>2. DOMAIN chosen = 1..0
  <2>1. Cardinality(DueOf(d, n)) = 0
    BY FS_EmptySet
  <2> QED BY <2>1 DEF Selected
<1> HIDE DEF chosen, e
<1>3. [k \in 1..0 |-> e(k)] = <<>>
  OBVIOUS
<1> QED BY <1>1, <1>2, <1>3

\* The tags of the triggers from after T to e.
TagsOf(P, s, T, e) ==
  /\ P \in Seq([at : Nat, name : Nat, yaml : Nat]) /\ T + Len(P) = e
  /\ \A i \in 1..Len(P) : P[i] = [at |-> s[T + i], name |-> T + i, yaml |-> T + i]

LEMMA PublishesInOrder ==
  ASSUME NEW d, NEW b, NEW s, NEW n, NEW T \in Nat, written \in Nat,
         NextOf(d, b, s, Len(out), n), NEW x \in 1..Len(d.triggers),
         NEW y \in 1..Len(d.triggers), DueRange(d, b, s, Len(out), n, T, x, y)
  PROVE  TagsOf(PublishedTags(d, n), s, T, b + y)
<1> DEFINE c == y + 1 - x  z == Len(d.triggers)
<1>12. z \in Nat /\ b + z <= Len(s) /\ TriggersFrom(d, b, s, z)
  BY DueTriggers DEF TriggersFrom
<1>0. c \in Nat /\ Cardinality(x..y) = c /\ \A i \in 1..c : Ascending(x..y)[i] = x + i - 1
  <2>1. x \in Nat /\ y \in Nat /\ 1 <= x /\ x <= y + 1 /\ c \in Nat
    BY <1>12 DEF DueRange
  <2> QED BY <2>1, AscendingRange
<1> SUFFICES ASSUME Len(out) \in Nat, d.first \in Nat, d.read \in Nat,
                    d.first + d.read = Len(out) + 1, b \in Nat, s \in Seq(Nat),
                    x <= y, DueOf(d, n) = x..y, b + x = T + 1
             PROVE  TagsOf(PublishedTags(d, n), s, T, b + y)
  BY DEF NextOf, DueRange, QueuedAcquisitions
<1> DEFINE chosen == Selected(Zipped(d), DueOf(d, n))
           m == Len(out)  w == written  a == d.first  r == d.read
           e(k) == [at   |-> m - w + 1 + w + chosen[k].index - r,
                    name |-> chosen[k].name, yaml |-> chosen[k].yaml]
           P == PublishedTags(d, n)
           g(i) == [at |-> s[T + i], name |-> T + i, yaml |-> T + i]
<1>1. P = [k \in DOMAIN chosen |-> e(k)]
  BY DEF PublishedTags, DueOf
<1>2. DOMAIN chosen = 1..c /\ \A i \in 1..c : chosen[i] = Zipped(d)[x + i - 1]
  <2>1. chosen = [i \in 1..c |-> Zipped(d)[Ascending(x..y)[i]]]
    BY <1>0 DEF Selected
  <2> HIDE DEF c, chosen
  <2> QED BY <1>0, <2>1
<1>3. m \in Nat /\ w \in Nat /\ a \in Nat /\ r \in Nat /\ a + r = m + 1
  OBVIOUS
<1> HIDE DEF chosen, P, m, w, a, r
<1>4. ASSUME NEW v \in Nat PROVE m - w + 1 + w + v - r = v + a
  BY <1>3
<1>5. ASSUME NEW i \in 1..c PROVE e(i) = g(i) /\ s[T + i] \in Nat
  <2> DEFINE k == x + i - 1  v == Zipped(d)[k].index
  <2>1. k \in 1..z /\ b + k = T + i /\ T + i \in 1..Len(s)
    <3> DEFINE h == Len(s)
    <3>1. /\ z \in Nat /\ b + z <= h /\ h \in Nat /\ b \in Nat /\ T \in Nat
          /\ x \in 1..z /\ y \in 1..z /\ b + x = T + 1 /\ i \in 1..(y + 1 - x)
      BY <1>12
    <3> HIDE DEF z, h
    <3>2. k \in 1..z /\ b + k = T + i /\ T + i \in 1..h
      BY <3>1
    <3> QED BY <3>2 DEF h
  <2>2. v \in Nat /\ v + a = s[T + i] /\ Zipped(d)[k].name = T + i /\ Zipped(d)[k].yaml = T + i
    <3> HIDE DEF k
    <3> QED BY <1>12, <2>1 DEF TriggersFrom, a
  <2>3. chosen[i] = Zipped(d)[k]
    BY <1>2
  <2>4. s[T + i] \in Nat
    BY <2>1, ElementOfSeq
  <2> HIDE DEF k
  <2>5. m - w + 1 + w + v - r = s[T + i]
    BY <1>4, <2>2
  <2> QED BY <2>2, <2>3, <2>4, <2>5
<1>6. T + c = b + y
  OBVIOUS
<1>7. \A i \in 1..c : T + i \in Nat
  OBVIOUS
<1> HIDE DEF c, e
<1>8. P = [i \in 1..c |-> g(i)]
  BY <1>1, <1>2, <1>5
<1>9. \A i \in 1..c : g(i) \in [at : Nat, name : Nat, yaml : Nat]
  BY <1>5, <1>7
<1> HIDE DEF g
<1>10. P \in [1..c -> [at : Nat, name : Nat, yaml : Nat]] /\ \A i \in 1..c : P[i] = g(i)
  BY <1>8, <1>9
<1>11. P \in Seq([at : Nat, name : Nat, yaml : Nat]) /\ Len(P) = c
  <2> DEFINE R == [at : Nat, name : Nat, yaml : Nat]
  <2>1. P \in [1..c -> R] /\ c \in Nat
    BY <1>0, <1>10
  <2> HIDE DEF R
  <2>2. P \in Seq(R) /\ Len(P) = c
    BY <2>1
  <2> QED BY <2>2 DEF R
<1> QED BY <1>6, <1>10, <1>11 DEF g, P, TagsOf

\* The acquisition a turn of the loop takes from, and how much.
LEMMA NextChunk ==
  ASSUME StreamInv, CopyChunk, NEW d, d = Head(queue), NEW n, n = ChunkSize(d)
  PROVE  /\ Len(queue) \in Nat /\ 1 \in 1..Len(queue) /\ d = queue[1]
         /\ d \in QueuedAcquisitions /\ d.first + d.read = Len(out) + 1
         /\ n \in Nat \ {0} /\ d.read + n <= d.n
         /\ tags' = tags \o PublishedTags(d, n) /\ UNCHANGED <<received, sampleOf>>
         /\ \A k \in 1..Len(queue') :
              \/ \E j \in 1..Len(queue) : queue'[k] = queue[j]
              \/ /\ queue'[k].first = d.first /\ queue'[k].n = d.n
                 /\ queue'[k].triggers = d.triggers /\ queue'[k].yaml = d.yaml
<1>1. /\ queue # <<>> /\ d.n # 0 /\ WriteChunk(d, n) /\ written < size
      /\ queue' = IF d.read + n = d.n THEN Tail(queue)
                  ELSE <<[d EXCEPT !.read = @ + n]>> \o Tail(queue)
  BY DEF CopyChunk
<1>2. queue \in Seq(QueuedAcquisitions) /\ size \in Nat /\ written \in Nat
  BY DEF StreamInv
<1>3. /\ d = queue[1] /\ d \in QueuedAcquisitions /\ Len(queue) \in Nat /\ 1 \in 1..Len(queue)
  BY <1>1, <1>2
<1>4. /\ d.first \in Nat /\ d.n \in Nat /\ d.read \in Nat
  BY <1>3 DEF QueuedAcquisitions
<1>5. d.first + d.read = Len(out) + 1 /\ (d.read # 0 => d.read < d.n)
  BY <1>1, <1>3 DEF StreamInv, Contiguous
<1>6. d.read < d.n
  BY <1>1, <1>4, <1>5
<1>7. n \in Nat \ {0} /\ d.read + n <= d.n
  <2>1. n = Min2(size - written, d.n - d.read)
    BY DEF ChunkSize
  <2> DEFINE f == d.n  r == d.read
  <2>2. f \in Nat /\ r \in Nat /\ r < f /\ n = Min2(size - written, f - r)
    BY <1>4, <1>6, <2>1
  <2> HIDE DEF f, r
  <2>3. n \in Nat \ {0} /\ r + n <= f
    BY <1>1, <1>2, <2>2 DEF Min2
  <2> QED BY <2>3 DEF f, r
<1>8. tags' = tags \o PublishedTags(d, n) /\ UNCHANGED <<received, sampleOf>>
  BY <1>1 DEF WriteChunk
<1> DEFINE t == Tail(queue)  c == [d EXCEPT !.read = @ + n]
<1>9. /\ t \in Seq(QueuedAcquisitions) /\ Len(t) = Len(queue) - 1
      /\ \A k \in 1..Len(t) : t[k] = queue[k + 1]
  BY <1>1, <1>2
<1>10. /\ c \in QueuedAcquisitions /\ c.first = d.first /\ c.n = d.n
       /\ c.triggers = d.triggers /\ c.yaml = d.yaml
  <2>1. d.read + n \in Nat
    BY <1>4, <1>7
  <2> QED BY <1>3, <2>1 DEF QueuedAcquisitions
<1>11. queue' = t \/ queue' = <<c>> \o t
  BY <1>1
<1> HIDE DEF t, c
<1>12. ASSUME NEW k \in 1..Len(t) PROVE \E j \in 1..Len(queue) : t[k] = queue[j]
  <2>1. k + 1 \in 1..Len(queue)
    BY <1>3, <1>9
  <2> QED BY <1>9, <2>1
<1>13. ASSUME queue' = <<c>> \o t, NEW k \in 1..Len(queue')
       PROVE  (\E j \in 1..Len(queue) : queue'[k] = queue[j]) \/ queue'[k] = c
  <2>1. <<c>> \in Seq(QueuedAcquisitions) /\ Len(<<c>>) = 1 /\ <<c>>[1] = c
    BY <1>10
  <2>2. /\ Len(queue') = 1 + Len(t)
        /\ \A i \in 1..1 : queue'[i] = <<c>>[i]
        /\ \A i \in 1..Len(t) : queue'[1 + i] = t[i]
    BY <1>9, <1>13, <2>1, Joined
  <2>3. CASE k = 1
    BY <2>1, <2>2, <2>3
  <2>4. CASE k # 1
    <3>1. k - 1 \in 1..Len(t) /\ 1 + (k - 1) = k
      BY <1>3, <1>9, <2>2, <2>4
    <3> QED BY <1>12, <2>2, <3>1
  <2> QED BY <2>3, <2>4
<1>14. ASSUME NEW k \in 1..Len(queue')
       PROVE  \/ \E j \in 1..Len(queue) : queue'[k] = queue[j]
              \/ /\ queue'[k].first = d.first /\ queue'[k].n = d.n
                 /\ queue'[k].triggers = d.triggers /\ queue'[k].yaml = d.yaml
  <2>1. CASE queue' = t
    BY <1>12, <2>1
  <2>2. CASE queue' = <<c>> \o t
    BY <1>10, <1>13, <2>2
  <2> QED BY <1>11, <2>1, <2>2
<1> QED BY <1>3, <1>5, <1>7, <1>8, <1>14

\* The marks of what a turn of the loop leaves.
LEMMA MarksWritten ==
  ASSUME StreamInv, StreamInv', MarksInv, CopyChunk, NEW m, m = Len(out), NEW n,
         n = ChunkSize(Head(queue)), Len(out') = m + n
  PROVE  MarksInv'
<1> DEFINE d == Head(queue)  s == sampleOf  T == Len(tags)  P == PublishedTags(d, n)
           z == Len(d.triggers)  Tags == [at : Nat, name : Nat, yaml : Nat]
<1>1. /\ Len(queue) \in Nat /\ 1 \in 1..Len(queue) /\ d = queue[1]
      /\ d \in QueuedAcquisitions /\ d.first + d.read = m + 1
      /\ n \in Nat \ {0} /\ d.read + n <= d.n
      /\ tags' = tags \o P /\ UNCHANGED <<received, sampleOf>>
      /\ \A k \in 1..Len(queue') :
           \/ \E j \in 1..Len(queue) : queue'[k] = queue[j]
           \/ /\ queue'[k].first = d.first /\ queue'[k].n = d.n
              /\ queue'[k].triggers = d.triggers /\ queue'[k].yaml = d.yaml
  BY NextChunk
<1>2. /\ m \in Nat /\ s \in Seq(Nat) /\ Len(s) \in Nat /\ written \in Nat
  BY DEF StreamInv
<1>3. /\ \A t \in 1..Len(s) : s[t] \in 1..received
      /\ InTime(s)
      /\ \A k \in 1..Len(queue) : \E b \in Nat : MarkedFrom(queue[k], b, s)
      /\ tags \in Seq(Tags) /\ T \in 0..Len(s)
      /\ \A t \in 1..T : tags[t] = [at |-> s[t], name |-> t, yaml |-> t]
      /\ \A t \in 1..Len(s) : t <= T <=> s[t] <= m
  <2>1. tags \in Seq(Tags) /\ T \in Nat /\ T <= Len(s)
    BY DEF MarksInv
  <2>2. T \in 0..Len(s)
    <3> HIDE DEF T, s
    <3> QED BY <1>2, <2>1
  <2> QED BY <2>1, <2>2 DEF MarksInv
<1>4. PICK b \in Nat : MarkedFrom(d, b, s)
  BY <1>1, <1>3
<1>5. NextOf(d, b, s, m, n) /\ PublishedUpTo(T, s, m)
  BY <1>1, <1>2, <1>3, <1>4 DEF NextOf, PublishedUpTo
<1>6. T \in Nat /\ n \in Nat /\ Len(out) = m
  BY <1>1, <1>2, <1>3
<1> HIDE DEF d, s, T, P, Tags
<1>8. /\ tags' \in Seq(Tags) /\ Len(tags') <= Len(s)
      /\ \A t \in 1..Len(tags') : tags'[t] = [at |-> s[t], name |-> t, yaml |-> t]
      /\ \A t \in 1..Len(s) : t <= Len(tags') <=> s[t] <= m + n
  <2>1. CASE DueOf(d, n) = {}
    <3>1. tags' = tags
      <4>1. P = <<>>
        BY <2>1, PublishesNothing DEF P
      <4> QED BY <1>1, <1>3, <4>1, ConcatEmptySeq
    <3>2. \A t \in 1..Len(s) : t <= T <=> s[t] <= m + n
      BY <1>5, <2>1, NothingDue
    <3> QED BY <1>2, <1>3, <3>1, <3>2 DEF T
  <2>2. CASE DueOf(d, n) # {}
    <3>0. PICK x \in 1..z, y \in 1..z : DueRange(d, b, s, m, n, T, x, y)
      BY <1>5, <2>2, DueInOrder
    <3>1. b + y <= Len(s) /\ \A t \in 1..Len(s) : t <= b + y <=> s[t] <= m + n
      BY <3>0 DEF DueRange
    <3>2. /\ P \in Seq(Tags) /\ T + Len(P) = b + y
          /\ \A i \in 1..Len(P) : P[i] = [at |-> s[T + i], name |-> T + i, yaml |-> T + i]
      <4>1. TagsOf(P, s, T, b + y)
        BY <1>2, <1>5, <1>6, <3>0, PublishesInOrder DEF P
      <4> QED BY <4>1 DEF TagsOf, Tags
    <3>3. /\ tags' \in Seq(Tags) /\ Len(tags') = T + Len(P)
          /\ \A t \in 1..T : tags'[t] = tags[t]
          /\ \A i \in 1..Len(P) : tags'[T + i] = P[i]
      BY <1>1, <1>3, <3>2, Joined DEF T
    <3>4. ASSUME NEW t \in 1..T + Len(P)
          PROVE  tags'[t] = [at |-> s[t], name |-> t, yaml |-> t]
      <4>1. CASE t \in 1..T
        BY <1>3, <3>3, <4>1
      <4>2. CASE t \notin 1..T
        <5>1. Len(P) \in Nat
          BY <3>2
        <5>2. t - T \in 1..Len(P) /\ T + (t - T) = t
          BY <1>6, <4>2, <5>1
        <5>3. tags'[T + (t - T)] = P[t - T]
          BY <3>3, <5>2
        <5> QED BY <3>2, <5>2, <5>3
      <4> QED BY <4>1, <4>2
    <3> QED BY <3>1, <3>2, <3>3, <3>4
  <2> QED BY <2>1, <2>2
<1>9. \A k \in 1..Len(queue') : \E c \in Nat : MarkedFrom(queue'[k], c, s)
  <2> TAKE k \in 1..Len(queue')
  <2>1. CASE \E j \in 1..Len(queue) : queue'[k] = queue[j]
    BY <1>3, <2>1
  <2>2. CASE /\ queue'[k].first = d.first /\ queue'[k].n = d.n
             /\ queue'[k].triggers = d.triggers /\ queue'[k].yaml = d.yaml
    <3>1. MarkedFrom(queue'[k], b, s)
      BY <1>4, <2>2 DEF MarkedFrom
    <3> QED BY <3>1
  <2> QED BY <1>1, <2>1, <2>2
<1>10. s' = s /\ received' = received /\ Len(out') = m + n
  BY <1>1 DEF s
<1> QED BY <1>3, <1>8, <1>9, <1>10 DEF MarksInv, s, Tags

\* What is left and what is written are the samples with their triggers.
EntriesOnly ==
  /\ received \in Nat /\ Len(out) \in Nat /\ Len(out) <= received
  /\ Queued = [k \in 1..(received - Len(out)) |-> Entry(Len(out) + k)]
  /\ Written = [k \in 1..Len(out) |-> Entry(k)]

LEMMA SamplesHaveTriggers ==
  StreamInv /\ MarksInv => EntriesOnly
<1> SUFFICES ASSUME StreamInv, MarksInv PROVE EntriesOnly
  OBVIOUS
<1>1. /\ received \in Nat /\ Len(out) \in Nat /\ Len(out) <= received
      /\ DOMAIN out = 1..Len(out) /\ \A k \in 1..Len(out) : out[k] = k
      /\ Queued = [k \in 1..(received - Len(out)) |-> Entry(Len(out) + k)]
      /\ DOMAIN sampleOf = 1..Len(sampleOf) /\ Len(sampleOf) \in Nat
  BY LeftSamples DEF StreamInv
<1>2. /\ tags \in Seq([at : Nat, name : Nat, yaml : Nat]) /\ DOMAIN tags = 1..Len(tags)
      /\ Len(tags) \in Nat /\ Len(tags) <= Len(sampleOf)
      /\ \A t \in 1..Len(tags) : tags[t] = [at |-> sampleOf[t], name |-> t, yaml |-> t]
      /\ \A t \in 1..Len(sampleOf) : t <= Len(tags) <=> sampleOf[t] <= Len(out)
  BY DEF MarksInv
<1> DEFINE of(k) == {t \in DOMAIN tags : tags[t].at = k}
           marks(k) == Selected(tags, of(k))
<1>3. ASSUME NEW k \in 1..Len(out)
      PROVE  Written[k] = Entry(k)
  <2> DEFINE K == TriggersOf(k)  f == Ascending(K)  c == Cardinality(K)
  <2>1. of(k) = K
    <3>1. ASSUME NEW t \in 1..Len(sampleOf), sampleOf[t] = k PROVE t \in 1..Len(tags)
      BY <1>1, <1>2, <3>1
    <3>2. ASSUME NEW t \in 1..Len(tags)
          PROVE  t \in 1..Len(sampleOf) /\ tags[t].at = sampleOf[t]
      <4>1. t \in 1..Len(sampleOf)
        <5> DEFINE l == Len(tags)  h == Len(sampleOf)
        <5>1. l \in Nat /\ h \in Nat /\ l <= h /\ t \in 1..l
          BY <1>1, <1>2
        <5> HIDE DEF l, h
        <5>2. t \in 1..h
          BY <5>1
        <5> QED BY <5>2 DEF h
      <4>2. tags[t] = [at |-> sampleOf[t], name |-> t, yaml |-> t]
        BY <1>2
      <4> QED BY <4>1, <4>2
    <3> QED BY <1>1, <1>2, <3>1, <3>2 DEF TriggersOf
  <2>2. c \in Nat /\ f \in [1..c -> K]
    <3>1. K \in SUBSET (1..Len(sampleOf))
      BY <1>1 DEF TriggersOf
    <3> QED BY <1>1, <3>1, AscendingOrder
  <2>3. K \subseteq 1..Len(tags)
    BY <1>2, <2>1
  <2>4. marks(k) = [i \in 1..c |-> tags[f[i]]]
    BY <2>1 DEF Selected
  <2>5. Written[k] = Sample(k, [j \in DOMAIN marks(k) |->
                                  <<marks(k)[j].name, marks(k)[j].yaml>>])
    BY <1>1 DEF Written
  <2> HIDE DEF K, f, c, marks
  <2>6. ASSUME NEW i \in 1..c PROVE marks(k)[i].name = f[i] /\ marks(k)[i].yaml = f[i]
    <3>1. f[i] \in 1..Len(tags)
      BY <2>2, <2>3
    <3> QED BY <1>2, <2>4, <3>1
  <2>7. DOMAIN marks(k) = 1..c /\ DOMAIN f = 1..c
    BY <2>2, <2>4
  <2>8. [j \in DOMAIN marks(k) |-> <<marks(k)[j].name, marks(k)[j].yaml>>]
          = [j \in DOMAIN f |-> <<f[j], f[j]>>]
    BY <2>6, <2>7
  <2> QED BY <2>5, <2>8 DEF Entry, f, K
<1>4. Written = [k \in 1..Len(out) |-> Written[k]]
  BY <1>1 DEF Written
<1>5. [k \in 1..Len(out) |-> Written[k]] = [k \in 1..Len(out) |-> Entry(k)]
  BY <1>3
<1> QED BY <1>1, <1>4, <1>5 DEF EntriesOnly

\* A sample keeps its triggers when later ones are received.
LEMMA TriggersStay ==
  ASSUME StreamInv, StreamInv', MarksInv, NEW n \in Nat, NEW indices \in Seq(Nat),
         Enqueue(n, indices, FALSE), NEW k \in 1..received
  PROVE  Entry(k)' = Entry(k)
<1>1. Extended(sampleOf, indices, received, sampleOf')
  BY MarksAppended
<1>2. /\ sampleOf \in Seq(Nat) /\ sampleOf' \in Seq(Nat) /\ received \in Nat
      /\ DOMAIN sampleOf = 1..Len(sampleOf) /\ DOMAIN sampleOf' = 1..Len(sampleOf')
      /\ Len(sampleOf') = Len(sampleOf) + Len(indices)
      /\ Len(sampleOf) \in Nat /\ Len(indices) \in Nat
  BY <1>1 DEF StreamInv, Extended
<1>3. ASSUME NEW t \in 1..Len(sampleOf')
      PROVE  \/ t \in 1..Len(sampleOf) /\ sampleOf'[t] = sampleOf[t]
             \/ t \notin 1..Len(sampleOf) /\ sampleOf'[t] # k
  <2> DEFINE l == Len(sampleOf)
  <2>1. CASE t \in 1..l
    BY <1>1, <2>1 DEF Extended
  <2>2. CASE t \notin 1..l
    <3>1. t - l \in 1..Len(indices) /\ l + (t - l) = t
      BY <1>2, <2>2
    <3>2. sampleOf'[l + (t - l)] = received + 1 + indices[t - l] /\ indices[t - l] \in Nat
      BY <1>1, <3>1, ElementOfSeq DEF Extended
    <3> QED BY <1>2, <2>2, <3>1, <3>2
  <2> QED BY <2>1, <2>2
<1>4. TriggersOf(k)' = TriggersOf(k)
  <2>1. \A t \in 1..Len(sampleOf) : t \in 1..Len(sampleOf')
    BY <1>2
  <2> QED BY <1>2, <1>3, <2>1 DEF TriggersOf
<1> QED BY <1>4 DEF Entry

\* The samples with their triggers, one after the other.
EntryOf == [s \in Nat |-> Entry(s)]
Entries == {EntryOf[s] : s \in Nat}

Listed ==
  /\ received \in Nat /\ Len(out) \in Nat /\ Len(out) <= received
  /\ Queued \in Seq(Entries) /\ Len(Queued) = received - Len(out)
  /\ \A k \in 1..received - Len(out) : Queued[k] = EntryOf[Len(out) + k]
  /\ Written \in Seq(Entries) /\ Len(Written) = Len(out)
  /\ \A k \in 1..Len(out) : Written[k] = EntryOf[k]

LEMMA EntriesAreListed ==
  StreamInv /\ MarksInv => Listed
<1> SUFFICES ASSUME StreamInv, MarksInv PROVE Listed
  OBVIOUS
<1> DEFINE m == Len(out)  p == received - m  q == Queued  w == Written
<1>1. /\ received \in Nat /\ m \in Nat /\ m <= received
      /\ q = [k \in 1..p |-> EntryOf[m + k]] /\ w = [k \in 1..m |-> EntryOf[k]]
  <2>1. /\ received \in Nat /\ m \in Nat /\ m <= received
        /\ q = [k \in 1..p |-> Entry(m + k)] /\ w = [k \in 1..m |-> Entry(k)]
    BY SamplesHaveTriggers DEF EntriesOnly
  <2>2. \A k \in 1..p : m + k \in Nat
    BY <2>1
  <2> HIDE DEF m, p, q, w
  <2>3. \A k \in 1..p : Entry(m + k) = EntryOf[m + k]
    BY <2>2 DEF EntryOf
  <2>4. \A k \in 1..m : Entry(k) = EntryOf[k]
    BY DEF EntryOf
  <2> QED BY <2>1, <2>3, <2>4
<1>2. p \in Nat
  BY <1>1
<1> HIDE DEF m, p, q, w
<1>3. \A k \in 1..p : EntryOf[m + k] \in Entries
  <2>1. \A k \in 1..p : m + k \in Nat
    BY <1>1, <1>2
  <2> QED BY <2>1 DEF Entries
<1>4. \A k \in 1..m : EntryOf[k] \in Entries
  BY DEF Entries
<1>5. q \in Seq(Entries) /\ Len(q) = p /\ \A k \in 1..p : q[k] = EntryOf[m + k]
  BY <1>1, <1>2, <1>3
<1>6. w \in Seq(Entries) /\ Len(w) = m /\ \A k \in 1..m : w[k] = EntryOf[k]
  BY <1>1, <1>2, <1>4
<1> QED BY <1>1, <1>5, <1>6 DEF Listed, m, p, q, w

\* A sequence over a set is one over a larger set.
LEMMA Wider ==
  ASSUME NEW S, NEW T, S \subseteq T, NEW s \in Seq(S) PROVE s \in Seq(T)
<1>1. Len(s) \in Nat /\ DOMAIN s = 1..Len(s) /\ s = [i \in 1..Len(s) |-> s[i]]
  OBVIOUS
<1>2. \A i \in 1..Len(s) : s[i] \in T
  BY ElementOfSeq
<1> QED BY <1>1, <1>2

LEMMA EntriesAccepted ==
  ASSUME StreamInv, StreamInv', MarksInv, MarksInv', NEW n \in Nat,
         received' = received + n, UNCHANGED out,
         \A k \in 1..received : EntryOf'[k] = EntryOf[k]
  PROVE  Lossless!AcceptSamples
<1> DEFINE m == Len(out)  p == received - m
           q == Queued  r == Queued'  w == Written  v == Written'
           S == Entries \cup Entries'
<1>1. /\ m \in Nat /\ p \in Nat /\ q \in Seq(S) /\ Len(q) = p
      /\ \A k \in 1..p : q[k] = EntryOf[m + k]
      /\ w \in Seq(S) /\ Len(w) = m /\ \A k \in 1..m : w[k] = EntryOf[k]
  <2>1. Listed
    BY EntriesAreListed
  <2>2. q \in Seq(S) /\ w \in Seq(S)
    BY <2>1, Wider DEF Listed
  <2> HIDE DEF S
  <2> QED BY <2>1, <2>2 DEF Listed
<1>2. /\ r \in Seq(S) /\ Len(r) = p + n
      /\ \A k \in 1..p + n : r[k] = EntryOf'[m + k]
      /\ v \in Seq(S) /\ Len(v) = m /\ \A k \in 1..m : v[k] = EntryOf'[k]
  <2>1. received' - Len(out') = p + n /\ Len(out') = m
    BY <1>1 DEF StreamInv
  <2>2. Listed'
    BY EntriesAreListed, PTL
  <2>3. /\ r \in Seq(Entries') /\ Len(r) = received' - Len(out')
        /\ \A k \in 1..received' - Len(out') : r[k] = EntryOf'[Len(out') + k]
        /\ v \in Seq(Entries') /\ Len(v) = Len(out')
        /\ \A k \in 1..Len(out') : v[k] = EntryOf'[k]
    BY <2>2 DEF Listed
  <2>4. r \in Seq(S) /\ v \in Seq(S)
    BY <2>3, Wider
  <2> HIDE DEF r, v, m, p, S
  <2> QED BY <2>1, <2>3, <2>4
<1>0. received \in Nat /\ received = m + p
  BY <1>1 DEF StreamInv
<1> HIDE DEF m, p, q, r, w, v, S
<1>3. q = SubSeq(r, 1, Len(q)) /\ Len(q) <= Len(r)
  <2>1. ASSUME NEW k \in 1..Len(q) PROVE r[k] = q[k]
    <3>1. m + k \in 1..received /\ k \in 1..p /\ k \in 1..p + n
      BY <1>0, <1>1, <2>1
    <3> QED BY <1>1, <1>2, <3>1
  <2>2. Len(q) <= Len(r)
    BY <1>1, <1>2
  <2> QED BY <1>1, <1>2, <2>1, <2>2, Appended
<1>4. v = w
  <2>1. \A k \in 1..m : k \in 1..received
    BY <1>0, <1>1
  <2> QED BY <1>1, <1>2, <2>1, SeqEqual
<1>5. ASSUME NEW k \in 1..Len(r) - Len(q) PROVE r[Len(q) + k].sample = (Len(q) + Len(w)) + k
  <2>1. p + k \in 1..p + n /\ m + (p + k) = (p + m) + k
    BY <1>1, <1>2, <1>5
  <2>2. \A s \in Nat : EntryOf'[s].sample = s
    BY DEF EntryOf, Entry, Sample
  <2>3. r[p + k] = EntryOf'[m + (p + k)]
    BY <1>2, <2>1
  <2> QED BY <1>1, <2>1, <2>2, <2>3
<1> QED BY <1>3, <1>4, <1>5 DEF Lossless!AcceptSamples, Lossless!Count, q, r, w, v

LEMMA EntriesDelivered ==
  ASSUME StreamInv, StreamInv', MarksInv, MarksInv', NEW n \in 1..received - Len(out),
         out' = out \o [k \in 1..n |-> Len(out) + k], UNCHANGED <<received, sampleOf>>
  PROVE  \E i \in 1..Len(Queued) : Lossless!Deliver(i)
<1> DEFINE m == Len(out)  p == received - m
           q == Queued  r == Queued'  w == Written  v == Written'
           S == Entries
<1>1. /\ m \in Nat /\ p \in Nat /\ n \in 1..p /\ q \in Seq(S) /\ Len(q) = p
      /\ \A k \in 1..p : q[k] = EntryOf[m + k]
      /\ w \in Seq(S) /\ Len(w) = m /\ \A k \in 1..m : w[k] = EntryOf[k]
  <2>1. Listed
    BY EntriesAreListed
  <2> HIDE DEF S
  <2>2. S = Entries
    BY DEF S
  <2> QED BY <2>1, <2>2 DEF Listed
<1>2. /\ r \in Seq(S) /\ Len(r) = p - n
      /\ \A k \in 1..p - n : r[k] = EntryOf[(m + n) + k]
      /\ v \in Seq(S) /\ Len(v) = m + n /\ \A k \in 1..m + n : v[k] = EntryOf[k]
  <2>1. received' - Len(out') = p - n /\ Len(out') = m + n
    BY ChunkLengths
  <2>2. Listed'
    BY EntriesAreListed, PTL
  <2>3. Entries' = Entries /\ EntryOf' = EntryOf
    BY DEF Entries, EntryOf, Entry, TriggersOf
  <2>4. /\ r \in Seq(S) /\ Len(r) = received' - Len(out')
        /\ \A k \in 1..received' - Len(out') : r[k] = EntryOf[Len(out') + k]
        /\ v \in Seq(S) /\ Len(v) = Len(out')
        /\ \A k \in 1..Len(out') : v[k] = EntryOf[k]
    BY <2>2, <2>3 DEF Listed
  <2> HIDE DEF r, v, m, p, S
  <2> QED BY <2>1, <2>4
<1> HIDE DEF m, p, q, r, w, v, S
<1>3. /\ \A k \in 1..Len(r) : r[k] = q[n + k]
      /\ \A k \in 1..Len(w) : v[k] = w[k]
      /\ \A k \in 1..n : v[Len(w) + k] = q[k]
  <2>1. ASSUME NEW k \in 1..p - n PROVE r[k] = q[n + k]
    <3>1. n + k \in 1..p /\ (m + n) + k = m + (n + k)
      BY <1>1, <2>1
    <3> QED BY <1>1, <1>2, <3>1
  <2>2. ASSUME NEW k \in 1..m PROVE v[k] = w[k]
    <3>1. k \in 1..m + n
      BY <1>1
    <3>2. v[k] = EntryOf[k] /\ w[k] = EntryOf[k]
      BY <1>1, <1>2, <3>1
    <3> QED BY <3>2
  <2>3. ASSUME NEW k \in 1..n PROVE v[m + k] = q[k]
    <3>1. m + k \in 1..m + n /\ k \in 1..p
      BY <1>1, <2>3
    <3> QED BY <1>1, <1>2, <3>1
  <2> QED BY <1>1, <1>2, <2>1, <2>2, <2>3
<1>4. /\ q \in Seq(S) /\ r \in Seq(S) /\ w \in Seq(S) /\ v \in Seq(S)
      /\ n \in 1..Len(q) /\ Len(r) = Len(q) - n /\ Len(v) = Len(w) + n
  BY <1>1, <1>2
<1>5. r = SubSeq(q, n + 1, Len(q)) /\ v = w \o SubSeq(q, 1, n)
  <2>1. IsMove(S, q, r, w, v, n)
    BY <1>3, <1>4 DEF IsMove
  <2> QED BY <2>1, Moved
<1> QED BY <1>4, <1>5 DEF Lossless!Deliver, q, r, w, v

LEMMA ReceivedWithTriggers ==
  ASSUME StreamInv, MarksInv, NEW n \in Nat, NEW indices \in Seq(Nat),
         \A i \in 1..Len(indices) : indices[i] < n, InTime(indices),
         Enqueue(n, indices, FALSE)
  PROVE  StreamInv' /\ MarksInv' /\ Lossless!AcceptSamples
<1>1. StreamInv' /\ received' = received + n /\ UNCHANGED out
  <2>1. FALSE \in BOOLEAN
    OBVIOUS
  <2> QED BY <2>1, Enqueues
<1>2. MarksInv'
  BY <1>1, MarksEnqueued
<1>3. ASSUME NEW k \in 1..received PROVE EntryOf'[k] = EntryOf[k]
  <2>1. k \in Nat
    BY DEF StreamInv
  <2>2. Entry(k)' = Entry(k)
    BY <1>1, TriggersStay
  <2> QED BY <2>1, <2>2 DEF EntryOf
<1>4. Lossless!AcceptSamples
  BY <1>1, <1>2, <1>3, EntriesAccepted
<1> QED BY <1>1, <1>2, <1>4

LEMMA ChunkWithTriggers ==
  ASSUME StreamInv, MarksInv, CopyChunk
  PROVE  /\ StreamInv' /\ MarksInv'
         /\ \E i \in 1..Len(Queued) : Lossless!Deliver(i)
<1>1. StreamInv'
  BY ChunkIsDelivered
<1>2. PICK n \in 1..received - Len(out) :
        out' = out \o [k \in 1..n |-> Len(out) + k] /\ UNCHANGED received
  BY ChunkIsDelivered
<1>3. Len(out') = Len(out) + n
  BY <1>1, <1>2, ChunkLengths
<1>4. UNCHANGED sampleOf
  BY DEF CopyChunk, WriteChunk
<1>5. MarksInv'
  <2> DEFINE m == Len(out)  c == ChunkSize(Head(queue))
  <2>1. out' = out \o [k \in 1..c |-> Head(queue).first + Head(queue).read + k - 1]
    BY DEF CopyChunk, WriteChunk
  <2>2. Len(out') = m + c
    <3>1. /\ c \in Nat /\ out \in Seq(Nat)
          /\ Head(queue).first \in Nat /\ Head(queue).read \in Nat
          /\ Head(queue).first + Head(queue).read = m + 1
      <4>1. Head(queue) \in QueuedAcquisitions
        BY NextChunk
      <4> QED BY <4>1, NextChunk DEF QueuedAcquisitions, StreamInv
    <3> DEFINE a == Head(queue).first  b == Head(queue).read
               chunk == [k \in 1..c |-> a + b + k - 1]
    <3>2. a \in Nat /\ b \in Nat /\ m \in Nat /\ a + b = m + 1
      BY <3>1
    <3> HIDE DEF a, b, c
    <3>3. \A k \in 1..c : a + b + k - 1 \in Nat
      <4> HIDE DEF m
      <4> QED BY <3>2
    <3>4. chunk \in Seq(Nat) /\ Len(chunk) = c
      BY <3>1, <3>3
    <3> HIDE DEF chunk
    <3>5. Len(out \o chunk) = Len(out) + Len(chunk)
      BY <3>1, <3>4, ConcatProperties
    <3> QED BY <2>1, <3>4, <3>5 DEF a, b, chunk
  <2> HIDE DEF m, c
  <2> QED BY <1>1, <2>2, MarksWritten DEF m, c
<1>6. \E i \in 1..Len(Queued) : Lossless!Deliver(i)
  BY <1>1, <1>2, <1>4, <1>5, EntriesDelivered
<1> QED BY <1>1, <1>5, <1>6

LEMMA LosslessStep ==
  ASSUME ~Skips, StreamInv, MarksInv, [StreamNext]_streamVars
  PROVE  StreamInv' /\ MarksInv' /\ [Lossless!StreamNext]_Lossless!streamVars
<1>1. CASE \E n \in 0..MaxSize : \E indices \in TriggerIndices(n), w \in BOOLEAN :
             Receive(n, indices, w)
  <2>1. PICK n \in 0..MaxSize : \E indices \in TriggerIndices(n), w \in BOOLEAN :
               Receive(n, indices, w)
    BY <1>1
  <2>2. PICK indices \in TriggerIndices(n), w \in BOOLEAN : Receive(n, indices, w)
    BY <2>1
  <2>3. n \in Nat
    BY StreamAssumption
  <2>4. /\ indices \in Seq(Nat) /\ \A i \in 1..Len(indices) : indices[i] < n
        /\ InTime(indices)
    <3>1. PICK k \in 0..MaxTriggers : indices \in [1..k -> 0..(n - 1)]
      BY DEF TriggerIndices
    <3>2. k \in Nat /\ 0..(n - 1) \subseteq Nat
      BY <2>3, StreamAssumption
    <3>3. indices \in Seq(Nat) /\ Len(indices) = k /\ DOMAIN indices = 1..k
      BY <3>1, <3>2
    <3>4. \A i \in 1..k : indices[i] \in 0..(n - 1)
      BY <3>1
    <3>5. \A i, j \in 1..k : i < j => indices[i] <= indices[j]
      BY <3>3 DEF TriggerIndices
    <3>6. \A i, j \in 1..k : i <= j => indices[i] <= indices[j]
      BY <2>3, <3>2, <3>4, <3>5
    <3> QED BY <2>3, <3>3, <3>4, <3>6 DEF InTime
  <2>5. Enqueue(n, indices, FALSE)
    <3>1. w = FALSE
      BY <2>2 DEF Receive
    <3> QED BY <2>2, <3>1 DEF Receive
  <2> QED BY <2>3, <2>4, <2>5, ReceivedWithTriggers DEF Lossless!StreamNext
<1>2. CASE Interrupt
  <2>1. Enqueue(1, <<0>>, FALSE)
    BY <1>2 DEF Interrupt
  <2>2. /\ 1 \in Nat /\ <<0>> \in Seq(Nat) /\ \A i \in 1..Len(<<0>>) : <<0>>[i] < 1
        /\ InTime(<<0>>)
    BY DEF InTime
  <2> QED BY <2>1, <2>2, ReceivedWithTriggers DEF Lossless!StreamNext
<1>3. ASSUME UNCHANGED <<queue, out, tags, received, sampleOf>>,
             size' \in Nat, written' \in Nat
      PROVE  StreamInv' /\ MarksInv' /\ UNCHANGED Lossless!streamVars
  <2>1. StreamInv'
    BY <1>3 DEF StreamInv, Contiguous
  <2>2. MarksInv'
    BY <1>3 DEF MarksInv, MarkedFrom
  <2>3. Queued' = Queued /\ Written' = Written
    BY <1>3 DEF Queued, Written
  <2> QED BY <2>1, <2>2, <2>3 DEF Lossless!streamVars
<1>4. size \in Nat /\ written \in Nat
  BY DEF StreamInv
<1>5. CASE \E n \in 1..MaxOutput : ProcessBulk(n)
  <2>1. MaxOutput \in Nat
    BY StreamAssumption
  <2> QED BY <1>3, <1>5, <2>1 DEF ProcessBulk
<1>6. CASE SkipEmpty
  BY <1>3, <1>4, <1>6 DEF SkipEmpty, streamVars
<1>7. CASE CopyChunk
  BY <1>7, ChunkWithTriggers DEF Lossless!StreamNext
<1>8. CASE Publish
  BY <1>3, <1>8 DEF Publish
<1>9. CASE Done \/ UNCHANGED streamVars
  BY <1>3, <1>4, <1>9 DEF Done, streamVars
<1> QED BY <1>1, <1>2, <1>5, <1>6, <1>7, <1>8, <1>9 DEF StreamNext, SourceBlock

\* However the acquisitions and the output spans overlap, the queue implements the
\* lossless stream, triggers included: each sample is written together with all of
\* its triggers, each once, in their order and with its own YAML map.  This holds as
\* long as the client warns of no skipped updates; with the warning the maps and the
\* triggers come apart.
THEOREM StreamIsLossless ==
  ASSUME ~Skips
  PROVE  StreamSpec => ImplementsLosslessStream
<1>1. StreamInit => StreamInv /\ MarksInv /\ Lossless!StreamInit
  <2> SUFFICES ASSUME StreamInit PROVE StreamInv /\ MarksInv /\ Lossless!StreamInit
    OBVIOUS
  <2>1. StreamInv /\ MarksInv
    BY StreamInitially, MarksInitially
  <2>2. Len(out) = 0 /\ received = 0
    BY DEF StreamInit
  <2>3. Queued = <<>> /\ Written = <<>>
    <3>1. /\ Queued \in Seq(Entries) /\ Len(Queued) = 0
          /\ Written \in Seq(Entries) /\ Len(Written) = 0
      BY <2>1, <2>2, EntriesAreListed DEF Listed
    <3> QED BY <3>1, EmptySeq
  <2> QED BY <2>1, <2>3 DEF Lossless!StreamInit
<1>2. StreamInv /\ MarksInv /\ [StreamNext]_streamVars
        => StreamInv' /\ MarksInv' /\ [Lossless!StreamNext]_Lossless!streamVars
  BY LosslessStep
<1> QED BY <1>1, <1>2, PTL DEF StreamSpec, ImplementsLosslessStream, Lossless!StreamSpec

\* Without the warning of skipped updates, every trigger of a sample that is written
\* has been published, wherever the chunks end: what was not published in a turn is
\* in the next.
THEOREM TriggersArePublished ==
  ASSUME ~Skips
  PROVE  StreamSpec => []NoTriggerIsLost
<1>1. StreamInit => StreamInv /\ MarksInv
  BY StreamInitially, MarksInitially
<1>2. StreamInv /\ MarksInv /\ [StreamNext]_streamVars => StreamInv' /\ MarksInv'
  BY LosslessStep
<1>3. StreamInv /\ MarksInv => NoTriggerIsLost
  <2> SUFFICES ASSUME StreamInv, MarksInv, NEW t \in DOMAIN sampleOf, sampleOf[t] <= Len(out)
               PROVE  \E k \in DOMAIN tags : tags[k].name = t
    BY DEF NoTriggerIsLost
  <2>1. /\ t \in 1..Len(sampleOf) /\ DOMAIN tags = 1..Len(tags)
        /\ t <= Len(tags) /\ Len(tags) \in Nat
    <3>1. sampleOf \in Seq(Nat) /\ tags \in Seq([at : Nat, name : Nat, yaml : Nat])
      BY DEF StreamInv, MarksInv
    <3>2. /\ t \in 1..Len(sampleOf) /\ DOMAIN tags = 1..Len(tags) /\ Len(tags) \in Nat
      BY <3>1
    <3>3. t <= Len(tags)
      BY <3>2 DEF MarksInv
    <3> QED BY <3>2, <3>3
  <2>2. t \in DOMAIN tags
    BY <2>1
  <2>3. tags[t].name = t
    BY <2>1, <2>2 DEF MarksInv
  <2> QED BY <2>2, <2>3
<1> QED BY <1>1, <1>2, <1>3, PTL DEF StreamSpec
=============================================================================
