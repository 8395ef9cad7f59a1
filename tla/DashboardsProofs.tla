-------------------------- MODULE DashboardsProofs --------------------------
(***************************************************************************)
(* Proofs about dashboards and the windows on their page, and about        *)
(* MCUiLiveness, which composes dashboards, a scheduler and a stream.      *)
(*                                                                         *)
(* Dashboards, for any dashboards, addresses and numbers of loads: a reply *)
(* that comes late finds the dashboard that asked for it, and a dashboard  *)
(* is drawn on its own page.                                               *)
(*                                                                         *)
(* ControlWindows, for any blocks, properties and windows: a frame finds   *)
(* every property it uses, what a window binds together has one type, and  *)
(* an edit in the window reaches all of it.                                *)
(*                                                                         *)
(* ChartWindows, for any signals, charts and gestures: every chart has a   *)
(* window of its own, and shows what it showed, and supports it, except    *)
(* the signal that the user drags away from it.                            *)
(*                                                                         *)
(* UiScheduler, for any number of restarts: the scheduler is not destroyed *)
(* under the task that requests frames for its progress.                   *)
(***************************************************************************)
EXTENDS MCUiLiveness, ControlWindows, ChartWindows, SelectionLemmas, TLAPS

Objects ==
  [number : Nat, description : Description \cup {Empty}, isInUse : BOOLEAN,
   isInitialised : BOOLEAN,
   scheduler : {"none", "running", "stopping", "stopped"}]

Questions ==
  [kind : {"names"}] \cup [kind : {"open", "header"}, name : RemoteNames]
    \cup [kind : {"flowgraph"}, at : Addresses, number : Nat, name : RemoteNames]

Requests == Questions \cup [kind : {"set"}, name : RemoteNames]

Types ==
  /\ dashboard \in Addresses \cup {Nowhere}
  /\ dashboard # Nowhere => Current \in Objects
  /\ heap \in [Addresses -> Objects \cup {NoObject}]
  /\ loads \in Nat
  /\ dashboardToLoad \in Description \cup {Nowhere}
  /\ dashboards \subseteq Description
  /\ asked \subseteq Requests
  /\ posted \in Seq([request : Questions, ok : BOOLEAN])

-----------------------------------------------------------------------------
(* Loading and closing, wherever they are called.                          *)

\* What Create leaves behind.
LEMMA Created ==
  ASSUME Types, NEW desc \in Description \cup {Empty}, Create(desc)
  PROVE  /\ dashboard' \in Addresses \ {dashboard}
         /\ heap' \in [Addresses -> Objects \cup {NoObject}]
         /\ heap'[dashboard'] \in Objects
         /\ heap'[dashboard'].number = loads + 1
         /\ heap'[dashboard'].isInitialised => heap'[dashboard'].scheduler # "none"
         /\ \A a \in Addresses \ {dashboard'} : heap'[a] = NoObject
         /\ loads' = loads + 1
         /\ ~heap'[dashboard'].isInUse => asked' = asked
         /\ heap'[dashboard'].isInUse =>
              /\ ~heap'[dashboard'].isInitialised
              /\ \E r \in Requests :
                   /\ r.kind = "flowgraph" /\ r.at = dashboard'
                   /\ r.number = loads + 1 /\ asked' = asked \cup {r}
<1> USE DEF Types
<1>1. PICK a \in Addresses \ {dashboard}, o \in Loaded(Object(loads + 1, desc)) :
        /\ heap' = [b \in Addresses |-> IF b = a THEN o ELSE NoObject]
        /\ dashboard' = a
        /\ asked' = IF o.isInUse
                    THEN asked \cup {[kind |-> "flowgraph", at |-> a,
                                      number |-> o.number, name |-> desc[2]]}
                    ELSE asked
  BY DEF Create
<1>2. Object(loads + 1, desc) \in Objects
  BY DEF Object, Objects
<1>4. /\ desc[1] \in {"remote", "local", "memory"}
      /\ desc[1] = "remote" => desc[2] \in RemoteNames
  <2>1. CASE desc = Empty
    BY <2>1 DEF Empty
  <2>2. CASE desc \in Description
    BY <2>2 DEF Description
  <2> QED BY <2>1, <2>2
<1>3. /\ o \in Objects /\ o.number = loads + 1
      /\ o.isInUse => ~o.isInitialised /\ desc[1] = "remote"
      /\ o.isInitialised => o.scheduler # "none"
  <2> DEFINE new == Object(loads + 1, desc)
  <2>1. /\ new \in Objects /\ new.number = loads + 1 /\ new.isInUse = FALSE
        /\ new.isInitialised = FALSE /\ new.description = desc
    BY <1>2 DEF Object
  <2>2. o \in Loaded(new)
    BY <1>1
  <2> HIDE DEF new
  <2>3. CASE desc[1] = "memory"
    <3>1. o = new
      BY <2>1, <2>2, <2>3 DEF Loaded
    <3> QED BY <2>1, <3>1
  <2>4. CASE desc[1] = "remote"
    <3>1. o = [new EXCEPT !.isInUse = TRUE]
      BY <2>1, <2>2, <2>4 DEF Loaded
    <3>2. o \in Objects
      BY <2>1, <3>1 DEF Objects
    <3>3. o.number = new.number /\ o.isInitialised = new.isInitialised
      BY <2>1, <3>1 DEF Objects
    <3> QED BY <2>1, <2>4, <3>2, <3>3
  <2>5. CASE desc[1] = "local"
    <3>1. \/ o = [new EXCEPT !.scheduler = "running", !.isInitialised = TRUE]
          \/ o = [new EXCEPT !.scheduler = "running"]
          \/ o = new
      BY <2>1, <2>2, <2>5 DEF Loaded
    <3>2. o \in Objects
      BY <2>1, <3>1 DEF Objects
    <3>3. /\ o.number = new.number /\ o.isInUse = new.isInUse
          /\ o.isInitialised => o.scheduler # "none"
      BY <2>1, <3>1 DEF Objects
    <3> QED BY <2>1, <3>2, <3>3
  <2> QED BY <1>4, <2>3, <2>4, <2>5
<1>5. loads' = loads + 1
  BY DEF Create
<1>6. /\ heap' \in [Addresses -> Objects \cup {NoObject}] /\ heap'[dashboard'] = o
      /\ \A b \in Addresses \ {dashboard'} : heap'[b] = NoObject
  BY <1>1, <1>3
<1>7. CASE o.isInUse
  <2> DEFINE r == [kind |-> "flowgraph", at |-> a, number |-> o.number,
                   name |-> desc[2]]
  <2>1. r \in Requests /\ r.kind = "flowgraph" /\ r.at = a /\ r.number = loads + 1
    BY <1>3, <1>4, <1>7 DEF Requests, Questions
  <2>2. asked' = asked \cup {r}
    BY <1>1, <1>7
  <2> HIDE DEF r
  <2> QED BY <1>1, <1>3, <1>5, <1>6, <1>7, <2>1, <2>2
<1>8. CASE ~o.isInUse
  BY <1>1, <1>3, <1>5, <1>6, <1>8
<1> QED BY <1>7, <1>8

\* The dashboard stays, apart from its scheduler, or a new one is created; and then
\* none was in use.
Stays ==
  /\ UNCHANGED <<dashboard, loads>>
  /\ heap' \in [Addresses -> Objects \cup {NoObject}]
  /\ dashboard # Nowhere =>
       /\ heap'[dashboard] \in Objects
       /\ heap'[dashboard].number = Current.number
       /\ heap'[dashboard].isInUse = Current.isInUse
       /\ heap'[dashboard].isInitialised = Current.isInitialised

LEMMA Same ==
  ASSUME Types, UNCHANGED <<heap, dashboard, loads>>
  PROVE  Stays
BY DEF Types, Stays, Current

\* The scheduler changes, and nothing else does.
LEMMA SchedulerChanges ==
  ASSUME Types, dashboard # Nowhere, UNCHANGED <<dashboard, loads>>,
         NEW s \in {"stopping", "stopped"},
         heap' = [heap EXCEPT ![dashboard].scheduler = s]
  PROVE  Stays
<1> DEFINE o == [Current EXCEPT !.scheduler = s]
<1>1. /\ o \in Objects /\ o.number = Current.number
      /\ o.isInUse = Current.isInUse /\ o.isInitialised = Current.isInitialised
  BY DEF Types, Objects
<1>2. heap' = [heap EXCEPT ![dashboard] = o] /\ dashboard \in Addresses
  BY DEF Types, Current
<1> HIDE DEF o
<1>3. heap' \in [Addresses -> Objects \cup {NoObject}] /\ heap'[dashboard] = o
  BY <1>1, <1>2 DEF Types
<1> QED BY <1>1, <1>3 DEF Stays

LEMMA SchedulerStays ==
  ASSUME Types, SchedulerStops
  PROVE  Stays
BY SchedulerChanges DEF SchedulerStops

LEMMA Loading ==
  ASSUME Types, NEW desc, LoadDashboard(desc)
  PROVE  \/ Stays /\ UNCHANGED <<asked, unshown>>
         \/ Create(desc) /\ (dashboard # Nowhere => ~Current.isInUse)
<1>1. CASE dashboard # Nowhere /\ Refuse
  <2>1. UNCHANGED <<dashboard, loads, unshown, asked>>
    BY <1>1 DEF Refuse
  <2>2. CASE heap' = heap
    BY <2>1, <2>2, Same
  <2>3. CASE heap' = [heap EXCEPT ![dashboard].scheduler = "stopping"]
    BY <1>1, <2>1, <2>3, SchedulerChanges
  <2> QED BY <1>1, <2>1, <2>2, <2>3 DEF Refuse
<1>2. CASE Create(desc) /\ (dashboard # Nowhere => ~Current.isInUse)
  BY <1>2
<1> QED BY <1>1, <1>2 DEF LoadDashboard, Stopped

-----------------------------------------------------------------------------
(* The requests for flow graphs.                                           *)

IsFetch(r) == r.kind = "flowgraph"

\* The dashboard that asked is there, and shows that it waits.
Finds(r) ==
  /\ dashboard # Nowhere
  /\ r.at = dashboard /\ Current.number = r.number
  /\ Current.isInUse /\ ~Current.isInitialised

\* There is one such request at a time, at the service or on its way back.
FetchInv ==
  /\ \A r \in asked : IsFetch(r) => Finds(r)
  /\ \A k \in 1..Len(posted) : IsFetch(posted[k].request) => Finds(posted[k].request)
  /\ \A r, s \in asked : IsFetch(r) /\ IsFetch(s) => r = s
  /\ \A j, k \in 1..Len(posted) :
       IsFetch(posted[j].request) /\ IsFetch(posted[k].request) => j = k
  /\ \A r \in asked, k \in 1..Len(posted) :
       ~(IsFetch(r) /\ IsFetch(posted[k].request))

NoFetch ==
  /\ \A r \in asked : ~IsFetch(r)
  /\ \A k \in 1..Len(posted) : ~IsFetch(posted[k].request)

\* The replies that are left when none or the first was delivered.
Delivered == posted' = posted \/ (posted # <<>> /\ posted' = Tail(posted))

LEMMA DeliveredRest ==
  ASSUME Types, Delivered
  PROVE  /\ posted' \in Seq([request : Questions, ok : BOOLEAN])
         /\ \E d \in Nat : /\ Len(posted') = Len(posted) - d
                           /\ \A k \in 1..Len(posted') :
                                /\ k + d \in 1..Len(posted)
                                /\ posted'[k] = posted[k + d]
<1> DEFINE Rest(d) == /\ Len(posted') = Len(posted) - d
                      /\ \A k \in 1..Len(posted') :
                           /\ k + d \in 1..Len(posted)
                           /\ posted'[k] = posted[k + d]
<1>1. CASE posted' = posted
  <2>1. Rest(0)
    BY <1>1 DEF Types
  <2> QED BY <1>1, <2>1 DEF Types
<1>2. CASE posted # <<>> /\ posted' = Tail(posted)
  <2>1. Rest(1)
    BY <1>2 DEF Types
  <2> HIDE DEF Rest
  <2>2. posted' \in Seq([request : Questions, ok : BOOLEAN])
    BY <1>2 DEF Types
  <2>3. \E d \in Nat : Rest(d)
    BY <2>1
  <2> QED BY <2>2, <2>3 DEF Rest
<1> QED BY <1>1, <1>2 DEF Delivered

LEMMA FetchesKept ==
  ASSUME Types, FetchInv, Stays, Delivered,
         \A r \in asked' : IsFetch(r) => r \in asked
  PROVE  FetchInv'
<1>1. PICK d \in Nat : /\ Len(posted') = Len(posted) - d
                       /\ \A k \in 1..Len(posted') :
                            /\ k + d \in 1..Len(posted)
                            /\ posted'[k] = posted[k + d]
  BY DeliveredRest
<1>2. \A r : Finds(r) => Finds(r)'
  BY DEF Stays, Finds, Current
<1>3. Len(posted) \in Nat /\ Len(posted') \in Nat
  BY DeliveredRest DEF Types
<1> HIDE DEF Finds
<1>4. \A r \in asked' : IsFetch(r) => Finds(r)'
  BY <1>2 DEF FetchInv
<1>5. ASSUME NEW k \in 1..Len(posted'), NEW r, r = posted'[k].request, IsFetch(r)
      PROVE  Finds(r)'
  <2>1. Finds(r)
    BY <1>1, <1>5 DEF FetchInv
  <2> QED BY <1>2, <2>1
<1>6. \A r, s \in asked' : IsFetch(r) /\ IsFetch(s) => r = s
  BY DEF FetchInv
<1>7. \A j, k \in 1..Len(posted') :
        IsFetch(posted'[j].request) /\ IsFetch(posted'[k].request) => j = k
  BY <1>1, <1>3 DEF FetchInv
<1>8. \A r \in asked', k \in 1..Len(posted') :
        ~(IsFetch(r) /\ IsFetch(posted'[k].request))
  BY <1>1 DEF FetchInv
<1> USE DEF IsFetch
<1> QED BY <1>4, <1>5, <1>6, <1>7, <1>8 DEF FetchInv, Finds

\* Nobody waits: no request is under way.
LEMMA NobodyWaits ==
  ASSUME FetchInv, dashboard # Nowhere => ~Current.isInUse \/ Current.isInitialised
  PROVE  NoFetch
BY DEF FetchInv, NoFetch, Finds

LEMMA NoFetchKept ==
  ASSUME Types, NoFetch, Delivered
  PROVE  \A k \in 1..Len(posted') : ~IsFetch(posted'[k].request)
BY DeliveredRest DEF NoFetch, IsFetch

LEMMA FetchAsked ==
  ASSUME Types, FetchInv, NEW desc \in Description \cup {Empty}, Create(desc),
         dashboard # Nowhere => ~Current.isInUse, Delivered
  PROVE  FetchInv'
<1>1. NoFetch
  BY NobodyWaits
<1>2. \A k \in 1..Len(posted') : ~IsFetch(posted'[k].request)
  BY <1>1, NoFetchKept
<1>3. CASE ~heap'[dashboard'].isInUse
  BY <1>1, <1>2, <1>3, Created DEF FetchInv, NoFetch, IsFetch
<1>4. CASE heap'[dashboard'].isInUse
  <2>1. PICK r \in Requests :
          /\ r.at = dashboard' /\ r.number = loads + 1
          /\ asked' = asked \cup {r}
    BY <1>4, Created
  <2>2. Finds(r)'
    <3>1. dashboard' # Nowhere
      BY Created, DashboardsAssumption
    <3>2. Current' = heap'[dashboard']
      BY DEF Current
    <3> QED BY <1>4, <2>1, <3>1, <3>2, Created DEF Finds
  <2> HIDE DEF Finds
  <2> QED BY <1>1, <1>2, <2>1, <2>2 DEF FetchInv, NoFetch, IsFetch
<1> QED BY <1>3, <1>4

\* A flow graph that has come, whether or not it can be made.
LEMMA FetchDelivered ==
  ASSUME Types, FetchInv, posted # <<>>, IsFetch(Head(posted).request),
         posted' = Tail(posted)
  PROVE  /\ Finds(Head(posted).request)
         /\ \A r \in asked : ~IsFetch(r)
         /\ \A k \in 1..Len(posted') : ~IsFetch(posted'[k].request)
<1>1. 1 \in 1..Len(posted) /\ Head(posted) = posted[1]
  BY DEF Types
<1>2. Finds(posted[1].request) /\ \A r \in asked : ~IsFetch(r)
  BY <1>1 DEF FetchInv
<1>3. ASSUME NEW k \in 1..Len(posted') PROVE ~IsFetch(posted'[k].request)
  <2>1. k + 1 \in 1..Len(posted) /\ posted'[k] = posted[k + 1] /\ k + 1 # 1
    BY <1>3 DEF Types
  <2> QED BY <1>1, <2>1 DEF FetchInv
<1> QED BY <1>1, <1>2, <1>3

\* It is made: the dashboard can be shown.
LEMMA FetchedDashboard ==
  ASSUME Types, dashboard # Nowhere,
         heap' = [heap EXCEPT ![dashboard].isInUse = FALSE,
                              ![dashboard].isInitialised = TRUE,
                              ![dashboard].scheduler = "running"]
  PROVE  /\ heap' \in [Addresses -> Objects \cup {NoObject}]
         /\ heap'[dashboard] \in Objects
         /\ heap'[dashboard].number = Current.number
<1> DEFINE o == [Current EXCEPT !.isInUse = FALSE, !.isInitialised = TRUE,
                                !.scheduler = "running"]
<1>1. o \in Objects /\ o.number = Current.number
  BY DEF Types, Objects
<1>2. heap' = [heap EXCEPT ![dashboard] = o] /\ dashboard \in Addresses
  BY DEF Types, Current
<1> HIDE DEF o
<1> QED BY <1>1, <1>2 DEF Types

\* It is answered: the request is on its way back.
LEMMA FetchAnswered ==
  ASSUME Types, FetchInv, AnswerRequest
  PROVE  FetchInv'
<1>1. PICK r \in asked :
        /\ asked' = asked \ {r}
        /\ \/ posted' = posted
           \/ \E ok \in BOOLEAN : posted' = Append(posted, [request |-> r, ok |-> ok])
  BY DEF AnswerRequest
<1>2. \A q : Finds(q) => Finds(q)'
  BY DEF AnswerRequest, appVars, Finds, Current
<1>3. CASE posted' = posted
  <2> HIDE DEF Finds
  <2> QED BY <1>1, <1>2, <1>3 DEF FetchInv, IsFetch
<1>4. ASSUME NEW c, c.request = r, posted' = Append(posted, c)
      PROVE  FetchInv'
  <2>1. /\ Len(posted) \in Nat /\ Len(posted') = Len(posted) + 1
        /\ \A k \in 1..Len(posted) : posted'[k] = posted[k]
        /\ posted'[Len(posted) + 1] = c
    BY <1>4 DEF Types
  <2>2. \A k \in 1..Len(posted') : k \in 1..Len(posted) \/ k = Len(posted) + 1
    BY <2>1
  <2>3. \A q \in asked' : IsFetch(q) => Finds(q)'
    BY <1>1, <1>2 DEF FetchInv
  <2>4. ASSUME NEW k \in 1..Len(posted'), NEW q, q = posted'[k].request, IsFetch(q)
        PROVE  Finds(q)'
    <3>1. Finds(q)
      BY <1>4, <2>1, <2>2, <2>4 DEF FetchInv
    <3> QED BY <1>2, <3>1
  <2>5. \A q, s \in asked' : IsFetch(q) /\ IsFetch(s) => q = s
    BY <1>1 DEF FetchInv
  <2>6. \A j, k \in 1..Len(posted') :
          IsFetch(posted'[j].request) /\ IsFetch(posted'[k].request) => j = k
    BY <1>4, <2>1, <2>2 DEF FetchInv
  <2>7. \A q \in asked', k \in 1..Len(posted') :
          ~(IsFetch(q) /\ IsFetch(posted'[k].request))
    BY <1>1, <1>4, <2>1, <2>2 DEF FetchInv
  <2> USE DEF IsFetch
  <2> QED BY <2>3, <2>4, <2>5, <2>6, <2>7 DEF FetchInv, Finds
<1>5. ASSUME NEW ok \in BOOLEAN, posted' = Append(posted, [request |-> r, ok |-> ok])
      PROVE  FetchInv'
  <2> DEFINE c == [request |-> r, ok |-> ok]
  <2>1. c.request = r /\ posted' = Append(posted, c)
    BY <1>5
  <2> HIDE DEF c
  <2> QED BY <1>4, <2>1
<1> QED BY <1>1, <1>3, <1>5

-----------------------------------------------------------------------------
(* The steps.                                                              *)

Inv == Types /\ FetchInv

\* The delivery of a reply, by what was asked.
LEMMA Deliveries ==
  ASSUME Inv, FireCallback
  PROVE  /\ posted # <<>> /\ posted' = Tail(posted)
         /\ Head(posted) \in [request : Questions, ok : BOOLEAN]
         /\ \/ IsFetch(Head(posted).request) /\ Fetched(Head(posted))
            \/ /\ Stays /\ UNCHANGED <<page, loadedDashboard, unshown>>
               /\ asked' \subseteq Requests
               /\ \A r \in asked' : IsFetch(r) => r \in asked
               /\ dashboards' \subseteq Description
            \/ \E n \in RemoteNames :
                 /\ LoadDashboard(<<"remote", n>>)
                 /\ UNCHANGED <<loadedDashboard, page, dashboards>>
<1> DEFINE c == Head(posted)
           r == c.request
<1>1. posted # <<>> /\ posted' = Tail(posted)
  BY DEF FireCallback
<1>2. /\ c \in [request : Questions, ok : BOOLEAN] /\ r \in Questions
      /\ r.kind \in {"names", "open", "header", "flowgraph"}
  <2>1. c \in [request : Questions, ok : BOOLEAN]
    <3>1. \A S : posted \in Seq(S) /\ posted # <<>> => Head(posted) \in S
      OBVIOUS
    <3> QED BY <1>1, <3>1 DEF Inv, Types
  <2>2. r \in Questions
    BY <2>1
  <2>3. r.kind \in {"names", "open", "header", "flowgraph"}
    BY <2>2 DEF Requests, Questions
  <2> QED BY <2>1, <2>2, <2>3
<1>3. CASE r.kind = "flowgraph"
  <2>1. Fetched(c)
    BY <1>3 DEF FireCallback
  <2> QED BY <1>1, <1>2, <1>3, <2>1 DEF IsFetch
<1>4. CASE r.kind = "names"
  <2>1. /\ asked' = asked \/ asked' = asked \cup {[kind |-> "header", name |-> n] :
                                                    n \in RemoteNames}
        /\ UNCHANGED <<appVars, listVars>>
    BY <1>4 DEF FireCallback
  <2>2. Stays
    BY <2>1, Same DEF Inv, appVars
  <2>3. \A n \in RemoteNames :
          LET h == [kind |-> "header", name |-> n] IN h \in Requests /\ ~IsFetch(h)
    BY DEF Requests, Questions, IsFetch
  <2>4. /\ asked' \subseteq Requests
        /\ \A q \in asked' : IsFetch(q) => q \in asked
    BY <2>1, <2>3 DEF Inv, Types
  <2> QED BY <1>1, <1>2, <2>1, <2>2, <2>4 DEF Inv, Types, appVars, listVars
<1>5. CASE r.kind = "header"
  <2>1. /\ dashboards' = dashboards \/ dashboards' = dashboards \cup {<<"remote", r.name>>}
        /\ UNCHANGED <<appVars, asked>>
    BY <1>5 DEF FireCallback
  <2>2. Stays
    BY <2>1, Same DEF Inv, appVars
  <2>3. r.name \in RemoteNames
    BY <1>2, <1>5 DEF Requests, Questions
  <2> QED BY <1>1, <1>2, <2>1, <2>2, <2>3 DEF Inv, Types, appVars, Description
<1>6. CASE r.kind = "open"
  <2>1. r.name \in RemoteNames
    BY <1>2, <1>6 DEF Requests, Questions
  <2>2. /\ \/ LoadDashboard(<<"remote", r.name>>)
           \/ UNCHANGED <<heap, dashboard, loads, unshown, asked>>
        /\ UNCHANGED <<loadedDashboard, page, dashboards>>
    BY <1>6 DEF FireCallback, listVars
  <2>3. UNCHANGED <<heap, dashboard, loads, unshown, asked>> => Stays
    BY Same DEF Inv
  <2> QED BY <1>1, <1>2, <2>1, <2>2, <2>3 DEF Inv, Types
<1> HIDE DEF c, r
<1> QED BY <1>2, <1>3, <1>4, <1>5, <1>6

\* Closing is done when nobody waits.
LEMMA FetchesClosed ==
  ASSUME Types, CloseDashboard, Delivered,
         \A r \in asked' : ~IsFetch(r),
         \A k \in 1..Len(posted') : ~IsFetch(posted'[k].request)
  PROVE  FetchInv'
BY DEF FetchInv, IsFetch

LEMMA FetchInductive ==
  ASSUME Inv, [DashboardsNext]_dashboardVars
  PROVE  FetchInv'
<1> USE DEF Inv
<1>1. ASSUME NEW desc \in Description \cup {Empty}, LoadDashboard(desc), Delivered
      PROVE  FetchInv'
  BY <1>1, Loading, FetchesKept, FetchAsked
<1>2. ASSUME Stays, Delivered, \A r \in asked' : IsFetch(r) => r \in asked
      PROVE  FetchInv'
  BY <1>2, FetchesKept
<1>3. ASSUME UNCHANGED <<heap, dashboard, loads, posted>>,
             \A r \in asked' : IsFetch(r) => r \in asked
      PROVE  FetchInv'
  BY <1>2, <1>3, Same DEF Delivered
<1>4. CASE PrepareFrame \/ ShowFrame \/ EndFrame \/ SwitchMode \/ Choose
           \/ RemoveSource
  BY <1>3, <1>4
     DEF PrepareFrame, ShowFrame, EndFrame, SwitchMode, Choose, RemoveSource,
         appVars
<1>5. CASE LoadFrame
  <2>1. dashboardToLoad \in Description
    BY <1>5 DEF LoadFrame, Types
  <2> QED BY <1>1, <1>5, <2>1 DEF LoadFrame, Delivered
<1>6. CASE OpenEmpty
  BY <1>1, <1>6 DEF OpenEmpty, Delivered
<1>7. CASE Close
  <2>1. NoFetch
    BY <1>7, NobodyWaits DEF Close, Initialised
  <2> QED BY <1>7, <2>1, FetchesClosed DEF Close, Delivered, NoFetch, IsFetch
<1>8. CASE Save \/ AddSource
  <2>1. \A r \in asked' : IsFetch(r) => r \in asked
    BY <1>8 DEF Save, AddSource, IsFetch
  <2> QED BY <1>3, <1>8, <2>1 DEF Save, AddSource, appVars
<1>9. CASE AnswerRequest
  BY <1>9, FetchAnswered
<1>10. CASE FireCallback
  <2>1. Delivered
    BY <1>10, Deliveries DEF Delivered
  <2>2. CASE IsFetch(Head(posted).request) /\ Fetched(Head(posted))
    <3>1. /\ \A r \in asked' : ~IsFetch(r)
          /\ \A k \in 1..Len(posted') : ~IsFetch(posted'[k].request)
      BY <1>10, <2>2, Deliveries, FetchDelivered DEF Fetched, IsFetch
    <3> QED BY <3>1 DEF FetchInv, IsFetch
  <2>3. ASSUME NEW n \in RemoteNames, LoadDashboard(<<"remote", n>>)
        PROVE  FetchInv'
    <3>1. <<"remote", n>> \in Description
      BY DEF Description
    <3> QED BY <1>1, <2>1, <2>3, <3>1
  <2> QED BY <1>2, <1>10, <2>1, <2>2, <2>3, Deliveries
<1>11. CASE SchedulerStops
  <2>1. Stays
    BY <1>11, SchedulerStays
  <2> QED BY <1>2, <1>11, <2>1 DEF SchedulerStops, Delivered
<1>12. CASE UNCHANGED dashboardVars
  BY <1>3, <1>12 DEF dashboardVars, appVars
<1> QED
  BY <1>4, <1>5, <1>6, <1>7, <1>8, <1>9, <1>10, <1>11, <1>12
     DEF DashboardsNext, FrameStep, UserRequest

\* The types of the dashboard and of its address.
HeapTypes ==
  /\ dashboard \in Addresses \cup {Nowhere}
  /\ dashboard # Nowhere => Current \in Objects
  /\ heap \in [Addresses -> Objects \cup {NoObject}]
  /\ loads \in Nat

LEMMA HeapKept ==
  ASSUME Types, \/ Stays
                \/ CloseDashboard /\ UNCHANGED loads
                \/ \E desc \in Description \cup {Empty} : Create(desc)
  PROVE  HeapTypes'
<1>1. CASE Stays
  BY <1>1 DEF Types, HeapTypes, Stays, Current
<1>2. CASE CloseDashboard /\ UNCHANGED loads
  BY <1>2 DEF Types, HeapTypes, CloseDashboard
<1>3. ASSUME NEW desc \in Description \cup {Empty}, Create(desc)
      PROVE  HeapTypes'
  <2>1. /\ dashboard' \in Addresses /\ heap'[dashboard'] \in Objects
        /\ heap' \in [Addresses -> Objects \cup {NoObject}] /\ loads' = loads + 1
    BY <1>3, Created
  <2> QED BY <2>1 DEF Types, HeapTypes, Current
<1> QED BY <1>1, <1>2, <1>3

\* The types of the list and of the messages.
MessageTypes ==
  /\ dashboardToLoad \in Description \cup {Nowhere}
  /\ dashboards \subseteq Description
  /\ asked \subseteq Requests
  /\ posted \in Seq([request : Questions, ok : BOOLEAN])

LEMMA AskedKept ==
  ASSUME Types, NEW desc \in Description \cup {Empty}, LoadDashboard(desc)
  PROVE  HeapTypes' /\ asked' \subseteq Requests
<1>1. CASE Stays /\ UNCHANGED <<asked, unshown>>
  <2>1. HeapTypes'
    BY <1>1, HeapKept
  <2> QED BY <1>1, <2>1 DEF Types
<1>2. CASE Create(desc)
  <2>1. asked' \subseteq Requests
    BY <1>2, Created DEF Types
  <2>2. HeapTypes'
    BY <1>2, HeapKept
  <2> QED BY <2>1, <2>2
<1> QED BY <1>1, <1>2, Loading

LEMMA TypesInductive ==
  ASSUME Inv, [DashboardsNext]_dashboardVars
  PROVE  Types'
<1> USE DEF Inv
<1>1. HeapTypes' /\ MessageTypes' => Types'
  BY DEF HeapTypes, MessageTypes, Types
<1> SUFFICES HeapTypes' /\ MessageTypes'
  BY <1>1
<1> USE DEF MessageTypes
<1>2. ASSUME UNCHANGED <<heap, dashboard, loads>> PROVE HeapTypes'
  BY <1>2, Same, HeapKept
<1>3. MessageTypes
  BY DEF Types
<1>4. CASE PrepareFrame \/ ShowFrame \/ EndFrame \/ SwitchMode
  BY <1>2, <1>3, <1>4
     DEF PrepareFrame, ShowFrame, EndFrame, SwitchMode, appVars, listVars
<1>5. CASE Choose
  BY <1>2, <1>3, <1>5 DEF Choose, listVars
<1>6. CASE RemoveSource
  BY <1>2, <1>3, <1>6 DEF RemoveSource, appVars
<1>7. CASE LoadFrame
  <2>1. dashboardToLoad \in Description
    BY <1>3, <1>7 DEF LoadFrame
  <2> QED BY <1>3, <1>7, <2>1, AskedKept DEF LoadFrame, listVars
<1>8. CASE OpenEmpty
  BY <1>3, <1>8, AskedKept DEF OpenEmpty, listVars
<1>9. CASE Close
  BY <1>3, <1>9, HeapKept DEF Close, listVars
<1>10. CASE Save
  <2>1. dashboard # Nowhere /\ Current \in Objects
    BY <1>10 DEF Save, Initialised, Types
  <2>2. Current.description \in Description \cup {Empty}
    BY <2>1 DEF Objects
  <2>3. Current.description[1] = "remote" => Current.description[2] \in RemoteNames
    BY <2>2 DEF Description, Empty
  <2>4. asked' \subseteq Requests
    <3>1. \A n \in RemoteNames : [kind |-> "set", name |-> n] \in Requests
      BY DEF Requests
    <3> QED BY <1>3, <1>10, <2>3, <3>1 DEF Save
  <2> QED BY <1>2, <1>3, <1>10, <2>4 DEF Save, appVars, listVars
<1>11. CASE AddSource
  <2>1. [kind |-> "names"] \in Requests
    BY DEF Requests, Questions
  <2> QED BY <1>2, <1>3, <1>11, <2>1 DEF AddSource, appVars
<1>12. CASE AnswerRequest
  <2>1. PICK r \in asked :
          /\ asked' = asked \ {r}
          /\ \/ posted' = posted
             \/ /\ r.kind # "set"
                /\ \E ok \in BOOLEAN :
                     posted' = Append(posted, [request |-> r, ok |-> ok])
    BY <1>12 DEF AnswerRequest
  <2>2. r.kind # "set" => r \in Questions
    BY <1>3 DEF Requests
  <2>3. posted' \in Seq([request : Questions, ok : BOOLEAN])
    <3>1. \A S : posted \in Seq(S) => \A c \in S : Append(posted, c) \in Seq(S)
      OBVIOUS
    <3>2. \A ok \in BOOLEAN, q \in Questions :
            [request |-> q, ok |-> ok] \in [request : Questions, ok : BOOLEAN]
      OBVIOUS
    <3>3. CASE posted' = posted
      BY <1>3, <3>3
    <3>4. ASSUME NEW ok \in BOOLEAN, r.kind # "set",
                 posted' = Append(posted, [request |-> r, ok |-> ok])
          PROVE  posted' \in Seq([request : Questions, ok : BOOLEAN])
      <4>1. [request |-> r, ok |-> ok] \in [request : Questions, ok : BOOLEAN]
        BY <2>2, <3>2, <3>4
      <4> QED BY <1>3, <3>1, <3>4, <4>1
    <3> QED BY <2>1, <3>3, <3>4
  <2> QED BY <1>2, <1>3, <1>12, <2>1, <2>3
          DEF AnswerRequest, appVars, frameVars, listVars
<1>13. CASE FireCallback
  <2>1. posted' \in Seq([request : Questions, ok : BOOLEAN])
    BY <1>3, <1>13, Deliveries
  <2>2. UNCHANGED dashboardToLoad
    BY <1>13 DEF FireCallback, frameVars
  <2>3. CASE IsFetch(Head(posted).request) /\ Fetched(Head(posted))
    <3>1. Finds(Head(posted).request)
      BY <1>13, <2>3, Deliveries, FetchDelivered
    <3>2. HeapTypes'
      <4>1. CASE CloseDashboard /\ UNCHANGED loads
        BY <4>1, HeapKept
      <4>2. CASE ~CloseDashboard
        BY <2>3, <3>1, <4>2, FetchedDashboard
           DEF Fetched, Finds, HeapTypes, Types, Current
      <4> QED BY <2>3, <4>1, <4>2 DEF Fetched
    <3> QED BY <1>3, <2>1, <2>2, <2>3, <3>2 DEF Fetched, listVars
  <2>4. ASSUME NEW n \in RemoteNames, LoadDashboard(<<"remote", n>>),
               UNCHANGED dashboards
        PROVE  HeapTypes' /\ MessageTypes'
    <3>1. <<"remote", n>> \in Description
      BY DEF Description
    <3> QED BY <1>3, <2>1, <2>2, <2>4, <3>1, AskedKept
  <2>5. CASE Stays /\ asked' \subseteq Requests /\ dashboards' \subseteq Description
    BY <1>3, <2>1, <2>2, <2>5, HeapKept
  <2> HIDE DEF MessageTypes
  <2>6. CASE \E n \in RemoteNames :
               /\ LoadDashboard(<<"remote", n>>)
               /\ UNCHANGED <<loadedDashboard, page, dashboards>>
    BY <2>4, <2>6
  <2> QED BY <1>13, <2>3, <2>5, <2>6, Deliveries
<1>14. CASE SchedulerStops
  BY <1>3, <1>14, SchedulerStays, HeapKept DEF SchedulerStops, frameVars, listVars
<1>15. CASE UNCHANGED dashboardVars
  BY <1>2, <1>3, <1>15 DEF dashboardVars, appVars, frameVars, listVars
<1> QED
  BY <1>4, <1>5, <1>6, <1>7, <1>8, <1>9, <1>10, <1>11, <1>12, <1>13, <1>14, <1>15
     DEF DashboardsNext, FrameStep, UserRequest

LEMMA InvInitially == DashboardsInit => Inv
<1> SUFFICES ASSUME DashboardsInit PROVE Inv
  OBVIOUS
<1>1. asked \subseteq Requests /\ \A r \in asked : ~IsFetch(r)
  BY DEF DashboardsInit, Requests, Questions, IsFetch
<1>2. heap \in [Addresses -> Objects \cup {NoObject}]
  BY DEF DashboardsInit
<1>3. /\ dashboardToLoad \in Description \cup {Nowhere}
      /\ dashboards \subseteq Description
  BY DEF DashboardsInit, Description
<1>4. posted = <<>> /\ dashboard = Nowhere /\ loads = 0
  BY DEF DashboardsInit
<1> QED BY <1>1, <1>2, <1>3, <1>4 DEF Inv, Types, FetchInv

LEMMA InvMeans == Inv => CallbackFindsDashboard
<1> SUFFICES ASSUME Inv,
                    NEW r \in asked \cup {posted[k].request : k \in DOMAIN posted},
                    IsFetch(r)
             PROVE  Finds(r)
  BY DEF CallbackFindsDashboard, IsFetch, Finds
<1>1. DOMAIN posted = 1..Len(posted)
  BY DEF Inv, Types
<1> QED BY <1>1 DEF Inv, FetchInv

\* The callback of a fetch may use the pointer it holds, however long the reply
\* took and whatever the user did meanwhile.
THEOREM FetchFindsItsDashboard == DashboardsSpec => []CallbackFindsDashboard
<1>1. Inv /\ [DashboardsNext]_dashboardVars => Inv'
  BY TypesInductive, FetchInductive DEF Inv
<1> QED BY <1>1, InvMeans, InvInitially, PTL DEF DashboardsSpec
-----------------------------------------------------------------------------
(* The page.                                                               *)

\* The page is the current dashboard's, or that of one before it.
PageInv ==
  /\ page.at = loadedDashboard /\ page.number \in 0..loads
  /\ dashboard = Nowhere => page.at = Nowhere
  /\ dashboard # Nowhere =>
       /\ Current.number \in 1..loads
       /\ page.number = Current.number => page.at = dashboard
       /\ page.at = dashboard => page.number = Current.number \/ unshown
  /\ drawing /\ Initialised => page.at = dashboard

LEMMA PageKept ==
  ASSUME Types, PageInv,
         UNCHANGED <<dashboard, loads, unshown, page, loadedDashboard>>,
         dashboard # Nowhere => heap'[dashboard].number = Current.number,
         drawing' => /\ drawing
                     /\ dashboard # Nowhere =>
                          heap'[dashboard].isInitialised = Current.isInitialised
  PROVE  PageInv'
<1>1. dashboard # Nowhere => Current' = heap'[dashboard]
  BY DEF Current
<1>2. drawing' => (Initialised' => Initialised)
  BY <1>1 DEF Initialised
<1> HIDE DEF Initialised, Current
<1> QED BY <1>1, <1>2 DEF PageInv

LEMMA PageStays ==
  ASSUME Types, PageInv, Stays, UNCHANGED <<unshown, page, loadedDashboard>>,
         drawing' => drawing
  PROVE  PageInv'
BY PageKept DEF Stays

\* A dashboard that is replaced has its page, or none that could be taken for one.
LEMMA PageCreated ==
  ASSUME Types, PageInv, NEW desc \in Description \cup {Empty}, Create(desc),
         UNCHANGED <<page, loadedDashboard>>, ~drawing'
  PROVE  PageInv'
<1>1. /\ dashboard' \in Addresses \ {dashboard} /\ loads' = loads + 1
      /\ Current'.number = loads + 1
  BY Created DEF Current
<1>2. loads \in Nat /\ page.number \in 0..loads
  BY DEF Types, PageInv
<1>3. page.at = dashboard' =>
        dashboard # Nowhere /\ page.number # Current.number
  BY <1>1, DashboardsAssumption DEF PageInv
<1>4. page.at = dashboard' => unshown'
  BY <1>3 DEF Create
<1>5. dashboard' # Nowhere
  BY <1>1, DashboardsAssumption
<1> HIDE DEF Current
<1> QED BY <1>1, <1>2, <1>4, <1>5 DEF PageInv

LEMMA PageInductive ==
  ASSUME Inv, PageInv, [DashboardsNext]_dashboardVars
  PROVE  PageInv'
<1> USE DEF Inv
<1>1. ASSUME NEW desc \in Description \cup {Empty}, LoadDashboard(desc),
             UNCHANGED <<page, loadedDashboard>>, ~drawing'
      PROVE  PageInv'
  <2>1. CASE Stays /\ UNCHANGED <<asked, unshown>>
    BY <1>1, <2>1, PageStays
  <2>2. CASE Create(desc)
    BY <1>1, <2>2, PageCreated
  <2> QED BY <1>1, <2>1, <2>2, Loading
<1>2. ASSUME UNCHANGED appVars, drawing' => drawing
      PROVE  PageInv'
  BY <1>2, Same, PageStays DEF appVars
<1>3. CASE PrepareFrame \/ EndFrame \/ Save \/ RemoveSource \/ AddSource
           \/ AnswerRequest
  BY <1>2, <1>3
     DEF PrepareFrame, EndFrame, Save, RemoveSource, AddSource, AnswerRequest,
         InPage, frameVars
<1>4. CASE SwitchMode \/ Choose
  <2>1. Stays
    BY <1>4, Same DEF SwitchMode, Choose
  <2> QED BY <1>4, <2>1, PageStays DEF SwitchMode, Choose, InPage
<1>5. CASE LoadFrame
  <2>1. dashboardToLoad \in Description
    BY <1>5 DEF LoadFrame, Types
  <2> QED BY <1>1, <1>5, <2>1 DEF LoadFrame
<1>6. CASE OpenEmpty
  BY <1>1, <1>6 DEF OpenEmpty, InPage
<1>7. CASE ShowFrame
  <2>1. CASE Initialised /\ loadedDashboard # dashboard
    BY <1>7, <2>1 DEF ShowFrame, PageInv, Current, Initialised
  <2>2. CASE ~(Initialised /\ loadedDashboard # dashboard)
    <3>1. UNCHANGED <<heap, dashboard, loads, unshown, page, loadedDashboard>>
      BY <1>7, <2>2 DEF ShowFrame
    <3>2. Current' = Current /\ Initialised' = Initialised
      BY <3>1 DEF Current, Initialised
    <3> HIDE DEF Current, Initialised
    <3> QED BY <2>2, <3>1, <3>2 DEF PageInv
  <2> QED BY <2>1, <2>2
<1>8. ASSUME CloseDashboard, UNCHANGED loads
      PROVE  PageInv'
  BY <1>8 DEF CloseDashboard, NoPage, PageInv, Types, Initialised
<1>9. CASE Close
  BY <1>8, <1>9 DEF Close
<1>10. CASE FireCallback
  <2>1. ~drawing'
    BY <1>10 DEF FireCallback, frameVars
  <2>2. CASE IsFetch(Head(posted).request) /\ Fetched(Head(posted))
    <3>1. Finds(Head(posted).request)
      BY <1>10, <2>2, Deliveries, FetchDelivered
    <3>2. CASE CloseDashboard /\ UNCHANGED loads
      BY <1>8, <3>2
    <3>3. CASE ~CloseDashboard
      <4>1. /\ dashboard # Nowhere
            /\ UNCHANGED <<dashboard, loads, unshown, page, loadedDashboard>>
            /\ heap' = [heap EXCEPT ![dashboard].isInUse = FALSE,
                                    ![dashboard].isInitialised = TRUE,
                                    ![dashboard].scheduler = "running"]
        BY <2>2, <3>1, <3>3 DEF Fetched, Finds
      <4> QED BY <2>1, <4>1, FetchedDashboard, PageKept
    <3> QED BY <2>2, <3>2, <3>3 DEF Fetched
  <2>3. ASSUME NEW n \in RemoteNames, LoadDashboard(<<"remote", n>>),
               UNCHANGED <<page, loadedDashboard>>
        PROVE  PageInv'
    <3>1. <<"remote", n>> \in Description
      BY DEF Description
    <3> QED BY <1>1, <2>1, <2>3, <3>1
  <2>4. CASE Stays /\ UNCHANGED <<page, loadedDashboard, unshown>>
    BY <2>1, <2>4, PageStays
  <2> QED BY <1>10, <2>2, <2>3, <2>4, Deliveries
<1>11. CASE SchedulerStops
  BY <1>11, SchedulerStays, PageStays DEF SchedulerStops, frameVars
<1>12. CASE UNCHANGED dashboardVars
  BY <1>2, <1>12 DEF dashboardVars, frameVars
<1> QED
  BY <1>3, <1>4, <1>5, <1>6, <1>7, <1>9, <1>10, <1>11, <1>12
     DEF DashboardsNext, FrameStep, UserRequest

LEMMA PageInvMeans == Inv /\ PageInv => PageIsOfDashboard
BY DEF PageInv, PageIsOfDashboard, Initialised

\* No dashboard is drawn on the page of another that lived at its address, unless
\* one was replaced before it had a page.
THEOREM DrawnOnItsPage == DashboardsSpec => []PageIsOfDashboard
<1>1. Inv /\ PageInv /\ [DashboardsNext]_dashboardVars => Inv' /\ PageInv'
  BY TypesInductive, FetchInductive, PageInductive DEF Inv
<1>2. DashboardsInit => PageInv
  BY DEF DashboardsInit, PageInv, NoPage, Initialised
<1> QED BY <1>1, <1>2, PageInvMeans, InvInitially, PTL DEF DashboardsSpec

\* Both together: no address of a dashboard is stale where it is used.
THEOREM PointersAreCurrent == DashboardsSpec => []DashboardPointersAreCurrent
<1>1. CallbackFindsDashboard /\ PageIsOfDashboard => DashboardPointersAreCurrent
  BY DEF DashboardPointersAreCurrent
<1> QED BY <1>1, FetchFindsItsDashboard, DrawnOnItsPage, PTL

-----------------------------------------------------------------------------
(* The dashboards that are opened.                                         *)

IsOpen(r) == r.kind = "open"

\* The requests for the dashboard of the command line.
Opens == {r \in asked \cup {posted[k].request : k \in DOMAIN posted} : IsOpen(r)}

\* There is one at most, at the service or on its way back.
OpenOnce ==
  /\ \A r, s \in asked : IsOpen(r) /\ IsOpen(s) => r = s
  /\ \A j, k \in 1..Len(posted) :
       IsOpen(posted[j].request) /\ IsOpen(posted[k].request) => j = k
  /\ \A r \in asked, k \in 1..Len(posted) : ~(IsOpen(r) /\ IsOpen(posted[k].request))

\* What was chosen, and what the command line names, can still be created.
Room ==
  /\ loads + (IF Opens = {} THEN 0 ELSE 1) + (IF dashboardToLoad = Nowhere THEN 0 ELSE 1)
       <= MaxLoads
  /\ drawing => dashboardToLoad = Nowhere

LEMMA OpensAre ==
  ASSUME Types
  PROVE  Opens = {r \in asked : IsOpen(r)}
                   \cup {q \in {posted[k].request : k \in 1..Len(posted)} : IsOpen(q)}
<1>1. DOMAIN posted = 1..Len(posted)
  BY DEF Types
<1> QED BY <1>1 DEF Opens

LEMMA OpensFew ==
  ASSUME Types, Types', OpenOnce, Delivered, \A r \in asked' : IsOpen(r) => r \in asked
  PROVE  /\ OpenOnce' /\ Opens' \subseteq Opens
         /\ posted # <<>> /\ posted' = Tail(posted) /\ IsOpen(Head(posted).request) => Opens' = {}
<1>1. PICK d \in Nat : /\ Len(posted') = Len(posted) - d
                       /\ \A k \in 1..Len(posted') :
                            /\ k + d \in 1..Len(posted)
                            /\ posted'[k] = posted[k + d]
  BY DeliveredRest
<1>2. OpenOnce'
  <2>1. \A r, s \in asked' : IsOpen(r) /\ IsOpen(s) => r = s
    BY DEF OpenOnce
  <2>2. ASSUME NEW j \in 1..Len(posted'), NEW k \in 1..Len(posted'),
               IsOpen(posted'[j].request), IsOpen(posted'[k].request)
        PROVE  j = k
    <3>1. j + d = k + d
      BY <1>1, <2>2 DEF OpenOnce
    <3> QED BY <3>1
  <2>3. \A r \in asked', k \in 1..Len(posted') : ~(IsOpen(r) /\ IsOpen(posted'[k].request))
    BY <1>1 DEF OpenOnce
  <2> USE DEF IsOpen
  <2> QED BY <2>1, <2>2, <2>3 DEF OpenOnce
<1>3. Opens' = {r \in asked' : IsOpen(r)}
                 \cup {q \in {posted'[k].request : k \in 1..Len(posted')} : IsOpen(q)}
  <2>1. DOMAIN posted' = 1..Len(posted')
    BY DEF Types
  <2> QED BY <2>1 DEF Opens, IsOpen
<1>4. Opens' \subseteq Opens
  <2>1. ASSUME NEW k \in 1..Len(posted'), IsOpen(posted'[k].request)
        PROVE  posted'[k].request \in Opens
    BY <1>1, <2>1, OpensAre
  <2> QED BY <1>3, <2>1, OpensAre
<1>5. ASSUME posted # <<>>, posted' = Tail(posted), IsOpen(Head(posted).request)
      PROVE  Opens' = {}
  <2>1. 1 \in 1..Len(posted) /\ Head(posted) = posted[1]
    BY <1>5 DEF Types
  <2>2. \A r \in asked' : ~IsOpen(r)
    BY <1>5, <2>1 DEF OpenOnce
  <2>3. ASSUME NEW k \in 1..Len(posted') PROVE ~IsOpen(posted'[k].request)
    <3>1. k + 1 \in 1..Len(posted) /\ posted'[k] = posted[k + 1] /\ k + 1 # 1
      BY <1>5, <2>3 DEF Types
    <3> QED BY <1>5, <2>1, <3>1 DEF OpenOnce
  <2> QED BY <1>3, <2>2, <2>3
<1> QED BY <1>2, <1>4, <1>5

\* The reply to the command line's request is on its way.
LEMMA OpensAnswered ==
  ASSUME Types, Types', OpenOnce, AnswerRequest
  PROVE  OpenOnce' /\ Opens' \subseteq Opens
<1>1. PICK r \in asked :
        /\ asked' = asked \ {r}
        /\ \/ posted' = posted
           \/ \E ok \in BOOLEAN : posted' = Append(posted, [request |-> r, ok |-> ok])
  BY DEF AnswerRequest
<1>2. CASE posted' = posted
  BY <1>1, <1>2, OpensFew DEF Delivered
<1>3. ASSUME NEW ok \in BOOLEAN, posted' = Append(posted, [request |-> r, ok |-> ok])
      PROVE  OpenOnce' /\ Opens' \subseteq Opens
  <2>1. /\ Len(posted) \in Nat /\ Len(posted') = Len(posted) + 1
        /\ \A k \in 1..Len(posted) : posted'[k] = posted[k]
        /\ posted'[Len(posted) + 1].request = r
    BY <1>3 DEF Types
  <2>2. \A k \in 1..Len(posted') : k \in 1..Len(posted) \/ k = Len(posted) + 1
    BY <2>1
  <2>3. OpenOnce'
    <3>1. \A q, s \in asked' : IsOpen(q) /\ IsOpen(s) => q = s
      BY <1>1 DEF OpenOnce
    <3>2. \A j, k \in 1..Len(posted') :
            IsOpen(posted'[j].request) /\ IsOpen(posted'[k].request) => j = k
      BY <2>1, <2>2 DEF OpenOnce
    <3>3. \A q \in asked', k \in 1..Len(posted') : ~(IsOpen(q) /\ IsOpen(posted'[k].request))
      BY <1>1, <2>1, <2>2 DEF OpenOnce
    <3> USE DEF IsOpen
    <3> QED BY <3>1, <3>2, <3>3 DEF OpenOnce
  <2>4. Opens' = {q \in asked' : IsOpen(q)}
                   \cup {q \in {posted'[k].request : k \in 1..Len(posted')} : IsOpen(q)}
    <3>1. DOMAIN posted' = 1..Len(posted')
      BY DEF Types
    <3> QED BY <3>1 DEF Opens, IsOpen
  <2>5. ASSUME NEW k \in 1..Len(posted'), IsOpen(posted'[k].request)
        PROVE  posted'[k].request \in Opens
    <3>1. CASE k \in 1..Len(posted)
      BY <2>1, <2>5, <3>1, OpensAre
    <3>2. CASE k = Len(posted) + 1
      BY <1>1, <2>1, <2>5, <3>2, OpensAre
    <3> QED BY <2>2, <3>1, <3>2
  <2>6. {q \in asked' : IsOpen(q)} \subseteq Opens
    BY <1>1, OpensAre
  <2> QED BY <2>3, <2>4, <2>5, <2>6
<1> QED BY <1>1, <1>2, <1>3

\* What the guards count.
LEMMA OpeningIs ==
  ASSUME Types, OpenOnce
  PROVE  Opening = IF Opens = {} THEN 0 ELSE 1
<1>1. Opening = Cardinality(Opens)
  BY DEF Opening, Opens, IsOpen
<1>2. CASE Opens = {}
  BY <1>1, <1>2, FS_EmptySet
<1>3. ASSUME NEW r \in Opens PROVE Opens = {r}
  <2>1. ASSUME NEW s \in Opens PROVE s = r
    BY <1>3, <2>1, OpensAre DEF OpenOnce
  <2> QED BY <2>1
<1>4. CASE Opens # {}
  BY <1>1, <1>3, <1>4, FS_Singleton
<1> QED BY <1>2, <1>4

-----------------------------------------------------------------------------
(* The types.                                                              *)

\* The dashboard is the only object, and no fetch is under way for one that is shown.
ObjectInv ==
  /\ \A a \in Addresses : heap[a] # NoObject <=> a = dashboard
  /\ dashboard # Nowhere =>
       /\ ~(Current.isInUse /\ Current.isInitialised)
       /\ Current.isInitialised => Current.scheduler # "none"

\* What is not about the object.
AppInv ==
  /\ loadedDashboard \in Addresses \cup {Nowhere}
  /\ events \in 0..MaxEvents
  /\ prepare => dashboardToLoad # Nowhere
  /\ prepare \in BOOLEAN /\ drawing \in BOOLEAN /\ known \in BOOLEAN
  /\ notified \in BOOLEAN /\ unshown \in BOOLEAN

TypesInv == Inv /\ PageInv /\ OpenOnce /\ Room /\ ObjectInv /\ AppInv

LEMMA TypesInvMeans == TypesInv => DashboardsTypeOK
<1> SUFFICES ASSUME TypesInv PROVE DashboardsTypeOK
  OBVIOUS
<1>1. loads \in 0..MaxLoads
  BY DashboardsAssumption DEF TypesInv, Inv, Types, Room
<1>2. {dashboard, loadedDashboard, page.at} \subseteq Addresses \cup {Nowhere}
  BY DEF TypesInv, Inv, Types, AppInv, PageInv
<1> QED BY <1>1, <1>2 DEF TypesInv, Inv, Types, ObjectInv, AppInv, PageInv, DashboardsTypeOK

\* An object that is another after a step.
LEMMA ObjectSet ==
  ASSUME Types, ObjectInv, dashboard # Nowhere, UNCHANGED dashboard, NEW o \in Objects, o.number # 0,
         heap' = [heap EXCEPT ![dashboard] = o],
         ~(o.isInUse /\ o.isInitialised), o.isInitialised => o.scheduler # "none"
  PROVE  ObjectInv'
<1>1. dashboard \in Addresses /\ heap'[dashboard] = o
  BY DEF Types
<1>2. \A a \in Addresses \ {dashboard} : heap'[a] = heap[a]
  BY <1>1 DEF Types
<1>3. o # NoObject
  BY DEF NoObject
<1>4. Current' = o
  BY <1>1 DEF Current
<1> HIDE DEF Current
<1> QED BY <1>1, <1>2, <1>3, <1>4 DEF ObjectInv

LEMMA ObjectSchedulerSet ==
  ASSUME Types, ObjectInv, PageInv, dashboard # Nowhere, UNCHANGED dashboard,
         NEW s \in {"running", "stopping", "stopped"},
         heap' = [heap EXCEPT ![dashboard].scheduler = s]
  PROVE  ObjectInv'
<1> DEFINE o == [Current EXCEPT !.scheduler = s]
<1>1. /\ o \in Objects /\ o.number = Current.number /\ o.scheduler = s
      /\ o.isInUse = Current.isInUse /\ o.isInitialised = Current.isInitialised
  BY DEF Types, Objects
<1>2. heap' = [heap EXCEPT ![dashboard] = o]
  BY DEF Types, Current
<1>3. o.number # 0 /\ ~(o.isInUse /\ o.isInitialised) /\ o.scheduler # "none"
  <2>1. Current.number \in 1..loads
    BY DEF PageInv
  <2> QED BY <1>1, <2>1 DEF ObjectInv, Types
<1> HIDE DEF o
<1> QED BY <1>1, <1>2, <1>3, ObjectSet

LEMMA ObjectSame ==
  ASSUME ObjectInv, UNCHANGED <<heap, dashboard>>
  PROVE  ObjectInv'
BY DEF ObjectInv, Current

LEMMA ObjectCreated ==
  ASSUME Types, NEW desc \in Description \cup {Empty}, Create(desc)
  PROVE  ObjectInv'
<1> DEFINE o == heap'[dashboard']
<1>1. /\ dashboard' \in Addresses /\ o.number = loads + 1
      /\ \A a \in Addresses \ {dashboard'} : heap'[a] = NoObject
      /\ o.isInUse => ~o.isInitialised
      /\ o.isInitialised => o.scheduler # "none"
  BY Created
<1>2. o # NoObject
  BY <1>1 DEF NoObject, Types
<1>3. Current' = o
  BY DEF Current
<1> HIDE DEF Current, o
<1> QED BY <1>1, <1>2, <1>3 DEF ObjectInv, o

LEMMA ObjectLoaded ==
  ASSUME Types, PageInv, ObjectInv, AppInv, NEW desc \in Description \cup {Empty}, LoadDashboard(desc)
  PROVE  ObjectInv' /\ notified' \in BOOLEAN /\ unshown' \in BOOLEAN
<1>1. CASE Create(desc)
  <2>1. notified' \in BOOLEAN /\ unshown' \in BOOLEAN
    BY <1>1 DEF Create
  <2> QED BY <1>1, <2>1, ObjectCreated
<1>2. CASE dashboard # Nowhere /\ Refuse
  <2>1. UNCHANGED <<dashboard, unshown>> /\ notified' = TRUE
    BY <1>2 DEF Refuse
  <2>2. ObjectInv'
    BY <1>2, <2>1, ObjectSame, ObjectSchedulerSet DEF Refuse
  <2> QED BY <2>1, <2>2 DEF AppInv
<1> QED BY <1>1, <1>2 DEF LoadDashboard, Stopped

LEMMA ObjectClosed ==
  ASSUME Types, ObjectInv, dashboard # Nowhere, CloseDashboard
  PROVE  ObjectInv' /\ loadedDashboard' = Nowhere /\ unshown' = FALSE
<1>1. \A a \in Addresses : heap'[a] = NoObject
  BY DEF Types, ObjectInv, CloseDashboard
<1>2. Nowhere \notin Addresses
  BY DashboardsAssumption
<1> QED BY <1>1, <1>2 DEF ObjectInv, CloseDashboard

LEMMA ObjectFetched ==
  ASSUME Types, ObjectInv, PageInv, dashboard # Nowhere, UNCHANGED dashboard,
         heap' = [heap EXCEPT ![dashboard].isInUse = FALSE,
                              ![dashboard].isInitialised = TRUE,
                              ![dashboard].scheduler = "running"]
  PROVE  ObjectInv'
<1> DEFINE o == [Current EXCEPT !.isInUse = FALSE, !.isInitialised = TRUE,
                                !.scheduler = "running"]
<1>1. /\ o \in Objects /\ o.number = Current.number /\ o.scheduler = "running"
      /\ o.isInUse = FALSE
  BY DEF Types, Objects
<1>2. heap' = [heap EXCEPT ![dashboard] = o]
  BY DEF Types, Current
<1>3. o.number # 0
  <2>1. Current.number \in 1..loads /\ loads \in Nat
    BY DEF PageInv, Types
  <2> HIDE DEF o
  <2> QED BY <1>1, <2>1
<1>4. ~(o.isInUse /\ o.isInitialised) /\ o.scheduler # "none"
  BY <1>1
<1> HIDE DEF o
<1> QED BY <1>1, <1>2, <1>3, <1>4, ObjectSet

LEMMA OpensAsked ==
  ASSUME Types, NEW desc \in Description \cup {Empty}, LoadDashboard(desc)
  PROVE  loads' \in {loads, loads + 1} /\ \A r \in asked' : IsOpen(r) => r \in asked
<1>1. CASE Stays /\ UNCHANGED <<asked, unshown>>
  BY <1>1 DEF Stays
<1>2. CASE Create(desc)
  <2>1. loads' = loads + 1
    BY <1>2, Created
  <2>2. asked' = asked \/ \E r \in Requests : r.kind = "flowgraph" /\ asked' = asked \cup {r}
    BY <1>2, Created
  <2> QED BY <2>1, <2>2 DEF IsOpen
<1> QED BY <1>1, <1>2, Loading

\* Room is kept by what opens nothing, and used by what does.
LEMMA RoomKept ==
  ASSUME Types, Room, Opens' \subseteq Opens, loads' \in {loads, loads + 1},
         drawing' => dashboardToLoad' = Nowhere,
         \/ loads' = loads /\ dashboardToLoad' \in {dashboardToLoad, Nowhere}
         \/ dashboardToLoad # Nowhere /\ dashboardToLoad' = Nowhere
         \/ Opens # {} /\ Opens' = {} /\ dashboardToLoad' = dashboardToLoad
         \/ OpenOnce /\ loads + Opening < MaxLoads /\ dashboardToLoad = Nowhere
            /\ \/ loads' = loads
               \/ dashboardToLoad' = Nowhere
  PROVE  Room'
<1> DEFINE o == IF Opens = {} THEN 0 ELSE 1
           p == IF Opens' = {} THEN 0 ELSE 1
           t == IF dashboardToLoad = Nowhere THEN 0 ELSE 1
           u == IF dashboardToLoad' = Nowhere THEN 0 ELSE 1
<1>1. p <= o /\ o \in {0, 1} /\ p \in {0, 1} /\ t \in {0, 1} /\ u \in {0, 1}
  OBVIOUS
<1>2. loads \in Nat /\ MaxLoads \in Nat /\ loads + o + t <= MaxLoads
  BY DashboardsAssumption DEF Types, Room
<1>3. \/ loads' = loads /\ u <= t
      \/ t = 1 /\ u = 0
      \/ o = 1 /\ p = 0 /\ u = t
      \/ /\ loads + o < MaxLoads /\ t = 0
         /\ loads' = loads \/ u = 0
  BY OpeningIs
<1>4. loads' + p + u <= MaxLoads
  <2> HIDE DEF o, p, t, u
  <2>1. loads' = loads \/ loads' = loads + 1
    OBVIOUS
  <2>2. CASE loads' = loads
    BY <1>1, <1>2, <1>3, <2>2
  <2>3. CASE loads' = loads + 1
    BY <1>1, <1>2, <1>3, <2>3
  <2> QED BY <2>1, <2>2, <2>3
<1> QED BY <1>4 DEF Room

LEMMA TypesStep ==
  ASSUME TypesInv, [DashboardsNext]_dashboardVars
  PROVE  TypesInv'
<1>1. Inv' /\ PageInv' /\ Types /\ Types' /\ PageInv /\ OpenOnce /\ Room /\ ObjectInv /\ AppInv
  BY TypesInductive, FetchInductive, PageInductive DEF TypesInv, Inv
<1>2. loads \in Nat /\ MaxLoads \in Nat /\ MaxEvents \in Nat
  BY <1>1, DashboardsAssumption DEF Types
<1> SUFFICES OpenOnce' /\ Room' /\ ObjectInv' /\ AppInv'
  BY <1>1 DEF TypesInv
\* A step that leaves the messages alone, but for requests of other kinds.
<1>3. ASSUME UNCHANGED posted, \A r \in asked' : IsOpen(r) => r \in asked
      PROVE  OpenOnce' /\ Opens' \subseteq Opens
  BY <1>1, <1>3, OpensFew DEF Delivered
<1>4. ASSUME UNCHANGED <<heap, dashboard, loadedDashboard, loads, notified, unshown,
                         dashboardToLoad, posted>>,
             \A r \in asked' : IsOpen(r) => r \in asked,
             prepare' = prepare \/ prepare' = FALSE, drawing' = drawing \/ drawing' = FALSE,
             known' = known \/ known' \in BOOLEAN,
             UNCHANGED events \/ (events < MaxEvents /\ events' = events + 1)
      PROVE  OpenOnce' /\ Room' /\ ObjectInv' /\ AppInv'
  <2>1. drawing' => dashboardToLoad' = Nowhere
    BY <1>1, <1>4 DEF Room
  <2>2. OpenOnce' /\ Room'
    BY <1>1, <1>3, <1>4, <2>1, RoomKept
  <2>3. ObjectInv'
    BY <1>1, <1>4, ObjectSame
  <2>4. events' \in 0..MaxEvents
    BY <1>1, <1>2, <1>4 DEF AppInv
  <2>5. prepare \in BOOLEAN /\ drawing \in BOOLEAN /\ known \in BOOLEAN
    BY <1>1 DEF AppInv
  <2>6. prepare' \in BOOLEAN
    BY <1>4, <2>5
  <2>7. drawing' \in BOOLEAN
    BY <1>4, <2>5
  <2>8. known' \in BOOLEAN
    BY <1>4, <2>5
  <2>9. prepare' => prepare
    BY <1>4
  <2> QED BY <1>1, <1>4, <2>2, <2>3, <2>4, <2>6, <2>7, <2>8, <2>9 DEF AppInv
<1>13. CASE PrepareFrame
  BY <1>4, <1>13 DEF PrepareFrame, appVars, listVars
<1>14. CASE EndFrame
  BY <1>4, <1>14 DEF EndFrame, appVars, listVars
<1>15. CASE SwitchMode
  BY <1>4, <1>15 DEF SwitchMode, InPage, listVars
<1>16. CASE Save
  <2>1. /\ UNCHANGED <<appVars, dashboardToLoad, prepare, listVars, posted>>
        /\ drawing' = FALSE /\ events < MaxEvents /\ events' = events + 1
        /\ asked' = asked \/ asked' = asked \cup {[kind |-> "set", name |-> Current.description[2]]}
    BY <1>16 DEF Save, InPage
  <2>2. \A r \in asked' : IsOpen(r) => r \in asked
    BY <2>1 DEF IsOpen
  <2> QED BY <1>4, <2>1, <2>2 DEF appVars, listVars
<1>17. CASE RemoveSource
  BY <1>4, <1>17 DEF RemoveSource, InPage, appVars
<1>18. CASE AddSource
  <2>1. \A r \in asked' : IsOpen(r) => r \in asked
    BY <1>18 DEF AddSource, IsOpen
  <2> QED BY <1>4, <1>18, <2>1 DEF AddSource, InPage, appVars
<1>19. CASE UNCHANGED dashboardVars
  BY <1>4, <1>19 DEF dashboardVars, appVars, frameVars, listVars
<1>5. CASE ShowFrame
  <2>1. /\ UNCHANGED <<heap, dashboard, loads, notified, dashboardToLoad, posted, asked, prepare,
                        known, events>>
        /\ dashboardToLoad = Nowhere /\ drawing' = TRUE
        /\ \/ loadedDashboard' = dashboard /\ unshown' = FALSE
           \/ UNCHANGED <<loadedDashboard, unshown>>
    BY <1>5 DEF ShowFrame, listVars
  <2>2. OpenOnce' /\ Room'
    BY <1>1, <1>3, <2>1, RoomKept
  <2>3. AppInv'
    BY <1>1, <2>1 DEF AppInv, Types
  <2> QED BY <1>1, <2>1, <2>2, <2>3, ObjectSame
<1>6. CASE Choose
  <2>1. /\ UNCHANGED <<heap, dashboard, loadedDashboard, loads, unshown, posted, asked, known, events>>
        /\ drawing /\ drawing' = FALSE /\ loads + Opening < MaxLoads
        /\ dashboardToLoad' \in dashboards /\ prepare' = TRUE /\ notified' = FALSE
    BY <1>6 DEF Choose, listVars
  <2>2. OpenOnce' /\ Room'
    <3>1. dashboardToLoad = Nowhere
      BY <1>1, <2>1 DEF Room
    <3> QED BY <1>1, <1>3, <2>1, <3>1, RoomKept
  <2>3. dashboardToLoad' # Nowhere
    BY <1>1, <2>1, DashboardsAssumption DEF Types
  <2>4. AppInv'
    BY <1>1, <2>1, <2>3 DEF AppInv
  <2> QED BY <1>1, <2>1, <2>2, <2>4, ObjectSame
<1>7. CASE LoadFrame
  <2>1. dashboardToLoad \in Description
    BY <1>1, <1>7 DEF LoadFrame, Types
  <2>2. /\ LoadDashboard(dashboardToLoad) /\ dashboardToLoad # Nowhere
        /\ dashboardToLoad' = Nowhere /\ ~prepare
        /\ UNCHANGED <<loadedDashboard, prepare, drawing, known, posted, events>>
    BY <1>7 DEF LoadFrame, listVars
  <2>3. OpenOnce' /\ Room'
    BY <1>1, <1>3, <2>1, <2>2, OpensAsked, RoomKept
  <2>4. ObjectInv' /\ notified' \in BOOLEAN /\ unshown' \in BOOLEAN
    BY <1>1, <2>1, <2>2, ObjectLoaded
  <2> QED BY <1>1, <2>2, <2>3, <2>4 DEF AppInv
<1>8. CASE OpenEmpty
  <2>1. /\ LoadDashboard(Empty) /\ loads + Opening < MaxLoads
        /\ drawing /\ drawing' = FALSE /\ events < MaxEvents /\ events' = events + 1
        /\ UNCHANGED <<loadedDashboard, prepare, dashboardToLoad, known, posted>>
    BY <1>8 DEF OpenEmpty, InPage, listVars
  <2>2. dashboardToLoad = Nowhere
    BY <1>1, <2>1 DEF Room
  <2>3. OpenOnce' /\ Room'
    BY <1>1, <1>3, <2>1, <2>2, OpensAsked, RoomKept
  <2>4. ObjectInv' /\ notified' \in BOOLEAN /\ unshown' \in BOOLEAN
    BY <1>1, <2>1, ObjectLoaded
  <2>5. events' \in 0..MaxEvents
    BY <1>1, <1>2, <2>1 DEF AppInv
  <2> QED BY <1>1, <2>1, <2>3, <2>4, <2>5 DEF AppInv
<1>9. CASE Close
  <2>1. /\ dashboard # Nowhere /\ CloseDashboard
        /\ drawing' = FALSE /\ events < MaxEvents /\ events' = events + 1
        /\ UNCHANGED <<loads, notified, dashboardToLoad, prepare, known, asked, posted>>
    BY <1>9 DEF Close, InPage, Initialised, listVars
  <2>2. OpenOnce' /\ Room'
    BY <1>1, <1>3, <2>1, RoomKept
  <2>3. ObjectInv' /\ loadedDashboard' = Nowhere /\ unshown' = FALSE
    BY <1>1, <2>1, ObjectClosed
  <2>4. events' \in 0..MaxEvents
    BY <1>1, <1>2, <2>1 DEF AppInv
  <2> QED BY <1>1, <2>1, <2>2, <2>3, <2>4 DEF AppInv
<1>10. CASE AnswerRequest
  <2>1. UNCHANGED <<heap, dashboard, loadedDashboard, loads, notified, unshown, dashboardToLoad,
                    prepare, drawing, known, events>>
    BY <1>10 DEF AnswerRequest, appVars, frameVars, listVars
  <2>2. OpenOnce' /\ Room'
    <3>1. drawing' => dashboardToLoad' = Nowhere
      BY <1>1, <2>1 DEF Room
    <3> QED BY <1>1, <1>10, <2>1, <3>1, OpensAnswered, RoomKept
  <2>3. AppInv'
    BY <1>1, <2>1 DEF AppInv
  <2> QED BY <1>1, <2>1, <2>2, <2>3, ObjectSame
<1>11. CASE FireCallback
  <2> DEFINE c == Head(posted)
  <2>1. /\ ~drawing' /\ posted # <<>> /\ posted' = Tail(posted) /\ Delivered
        /\ UNCHANGED <<dashboardToLoad, prepare, drawing, events>>
    BY <1>11 DEF FireCallback, frameVars, Delivered
  <2>2. ASSUME \A r \in asked' : IsOpen(r) => r \in asked, loads' = loads
        PROVE  OpenOnce' /\ Room'
    BY <1>1, <2>1, <2>2, OpensFew, RoomKept
  <2>3. c \in [request : Questions, ok : BOOLEAN] /\ c.request.kind \in {"names", "open", "header", "flowgraph"}
    <3>1. c \in [request : Questions, ok : BOOLEAN]
      BY <1>1, <1>11, Deliveries DEF TypesInv
    <3> QED BY <3>1 DEF Questions
  <2>4. CASE c.request.kind = "flowgraph"
    <3>1. Fetched(c) /\ IsFetch(c.request)
      BY <1>11, <2>4 DEF FireCallback, IsFetch
    <3>2. dashboard # Nowhere /\ c.request.at = dashboard
      BY <1>1, <2>1, <3>1, FetchDelivered DEF TypesInv, Inv, Finds
    <3>3. UNCHANGED <<loads, asked, known>>
      BY <3>1 DEF Fetched, listVars
    <3>4. CASE CloseDashboard /\ notified' = TRUE
      BY <1>1, <2>1, <2>2, <3>2, <3>3, <3>4, ObjectClosed DEF AppInv
    <3>5. CASE /\ heap' = [heap EXCEPT ![dashboard].isInUse = FALSE,
                                       ![dashboard].isInitialised = TRUE,
                                       ![dashboard].scheduler = "running"]
               /\ UNCHANGED <<dashboard, loadedDashboard, page, unshown, notified>>
      BY <1>1, <2>1, <2>2, <3>2, <3>3, <3>5, ObjectFetched DEF AppInv
    <3> QED BY <3>1, <3>2, <3>4, <3>5 DEF Fetched
  <2>5. CASE c.request.kind = "names"
    <3>1. /\ asked' = asked \/ asked' = asked \cup {[kind |-> "header", name |-> n] : n \in RemoteNames}
          /\ UNCHANGED <<appVars, listVars>>
      BY <1>11, <2>5 DEF FireCallback
    <3>2. UNCHANGED <<heap, dashboard, loadedDashboard, loads, notified, unshown, known>>
      BY <3>1 DEF appVars, listVars
    <3>3. \A r \in asked' : IsOpen(r) => r \in asked
      BY <3>1 DEF IsOpen
    <3> QED BY <1>1, <2>1, <2>2, <3>2, <3>3, ObjectSame DEF AppInv
  <2>6. CASE c.request.kind = "header"
    <3>1. UNCHANGED <<appVars, known, asked>>
      <4>1. \/ c.request.kind = "header" /\ UNCHANGED <<appVars, known, asked>>
            \/ c.request.kind # "header"
        BY <1>11 DEF FireCallback
      <4> QED BY <2>6, <4>1
    <3>2. UNCHANGED <<heap, dashboard, loadedDashboard, loads, notified, unshown>>
      BY <3>1 DEF appVars
    <3> QED BY <1>1, <2>1, <2>2, <3>1, <3>2, ObjectSame DEF AppInv
  <2>7. CASE c.request.kind = "open"
    <3>1. /\ UNCHANGED <<loadedDashboard, known>>
          /\ \/ LoadDashboard(<<"remote", c.request.name>>)
             \/ UNCHANGED <<heap, dashboard, loads, notified, unshown, asked>>
      <4>1. /\ UNCHANGED <<loadedDashboard, page, mainViewMode, listVars>>
            /\ \/ LoadDashboard(<<"remote", c.request.name>>)
               \/ UNCHANGED <<heap, dashboard, loads, notified, unshown, asked>>
        BY <1>11, <2>7 DEF FireCallback
      <4> QED BY <4>1 DEF listVars
    <3>2. CASE UNCHANGED <<heap, dashboard, loads, notified, unshown, asked>>
      BY <1>1, <2>1, <2>2, <3>1, <3>2, ObjectSame DEF AppInv
    <3>3. CASE LoadDashboard(<<"remote", c.request.name>>)
      <4>1. <<"remote", c.request.name>> \in Description
        <5>1. c.request.name \in RemoteNames
          BY <2>3, <2>7 DEF Questions
        <5> QED BY <5>1 DEF Description
      <4>2. /\ loads' \in {loads, loads + 1} /\ \A r \in asked' : IsOpen(r) => r \in asked
            /\ ObjectInv' /\ notified' \in BOOLEAN /\ unshown' \in BOOLEAN
        BY <1>1, <3>3, <4>1, OpensAsked, ObjectLoaded
      <4>3. OpenOnce' /\ Opens' = {}
        BY <1>1, <2>1, <2>7, <4>2, OpensFew DEF IsOpen
      <4>4. Opens # {}
        <5>1. 1 \in 1..Len(posted) /\ c = posted[1]
          BY <1>1, <2>1 DEF Types
        <5>2. posted[1].request \in Opens
          BY <1>1, <2>7, <5>1, OpensAre DEF IsOpen
        <5> QED BY <5>2
      <4>5. Room'
        BY <1>1, <2>1, <4>2, <4>3, <4>4, RoomKept
      <4> QED BY <1>1, <2>1, <3>1, <4>2, <4>3, <4>5 DEF AppInv
    <3> QED BY <3>1, <3>2, <3>3
  <2> HIDE DEF c
  <2> QED BY <2>3, <2>4, <2>5, <2>6, <2>7
<1>12. CASE SchedulerStops
  <2>1. /\ dashboard # Nowhere /\ heap' = [heap EXCEPT ![dashboard].scheduler = "stopped"]
        /\ UNCHANGED <<dashboard, loadedDashboard, loads, notified, unshown, dashboardToLoad,
                       prepare, drawing, known, asked, posted, events>>
    BY <1>12 DEF SchedulerStops, frameVars, listVars
  <2>2. OpenOnce' /\ Room'
    <3>1. drawing' => dashboardToLoad' = Nowhere
      BY <1>1, <2>1 DEF Room
    <3> QED BY <1>1, <1>3, <2>1, <3>1, RoomKept
  <2>3. ObjectInv'
    BY <1>1, <2>1, ObjectSchedulerSet
  <2> QED BY <1>1, <2>1, <2>2, <2>3 DEF AppInv
<1> QED BY <1>5, <1>6, <1>7, <1>8, <1>9, <1>10, <1>11, <1>12, <1>13, <1>14, <1>15, <1>16,
           <1>17, <1>18, <1>19
        DEF DashboardsNext, FrameStep, UserRequest

LEMMA TypesInitially == DashboardsInit => TypesInv
<1> SUFFICES ASSUME DashboardsInit PROVE TypesInv
  OBVIOUS
<1>1. PICK named \in {{}} \cup {{[kind |-> "open", name |-> n]} : n \in RemoteNames} :
        asked = {[kind |-> "names"]} \cup named
  BY DEF DashboardsInit
<1>2. Inv /\ PageInv
  <2>1. PageInv
    BY DEF DashboardsInit, PageInv, NoPage, Initialised
  <2> QED BY <2>1, InvInitially
<1>3. \A r, s \in asked : IsOpen(r) /\ IsOpen(s) => r = s
  BY <1>1 DEF IsOpen
<1>4. OpenOnce
  BY <1>3 DEF DashboardsInit, OpenOnce
<1>5. Room
  BY DashboardsAssumption DEF DashboardsInit, Room
<1>6. ObjectInv
  BY DashboardsAssumption DEF DashboardsInit, ObjectInv
<1>7. AppInv
  <2>1. events \in 0..MaxEvents
    BY DashboardsAssumption DEF DashboardsInit
  <2>2. prepare = FALSE /\ drawing = FALSE /\ known = TRUE /\ notified = FALSE /\ unshown = FALSE
    BY DEF DashboardsInit
  <2>3. loadedDashboard = Nowhere
    BY DEF DashboardsInit
  <2> QED BY <2>1, <2>2, <2>3 DEF AppInv
<1> QED BY <1>2, <1>4, <1>5, <1>6, <1>7 DEF TypesInv

\* The types of the App and of its dashboards.
THEOREM DashboardTypeCorrect == DashboardsSpec => []DashboardsTypeOK
<1> QED BY TypesInitially, TypesStep, TypesInvMeans, PTL DEF DashboardsSpec

-----------------------------------------------------------------------------
(* ControlWindows.                                                         *)

\* Bindings to the same window are of properties of one type.
Typed(e) ==
  \A b, c \in ToSet(tree) : \A p \in DOMAIN e[b], q \in DOMAIN e[c] :
    e[b][p] = e[c][q] /\ e[b][p] # Unbound => ControlType[p] = ControlType[q]

\* Every block that is bound to the edited window was set.
AllSet ==
  \A c \in ToSet(tree) : \A q \in DOMAIN exported[c] :
    sent.window = exported[c][q] /\ sent.window # Unbound =>
      \E r \in ControlProperties : <<c, r>> \in sent.set

\* Bindings that wait for their blocks are of one type per window as well, and only
\* one property is dragged.
ControlInv ==
  /\ tree \in Seq(ControlBlocks)
  /\ DOMAIN exported = ControlBlocks
  /\ controls \subseteq Ids /\ lastUsedId \in 0..MaxWindows
  /\ \A x, y \in pending : x[3] = y[3] /\ x[3] # Unbound => ControlType[x[2]] = ControlType[y[2]]
  /\ \A x, y \in dragged : x = y
  /\ Typed(exported)
  /\ AllSet

\* The number of a window is not that of "no window".
LEMMA NumbersAreBound == Unbound \notin Ids
BY ControlAssumption DEF Ids

-----------------------------------------------------------------------------
(* The searches, when no two blocks share a name.                          *)

\* A search for a block's name finds that block.
LEMMA FirstNamed ==
  ASSUME DistinctNames, tree \in Seq(ControlBlocks), NEW b \in ControlBlocks,
         NEW K \in SUBSET Named(BlockName[b]), K # {}
  PROVE  tree[First(K)] = b /\ b \in ToSet(tree)
<1>1. K \in SUBSET Nat
  BY DEF Named
<1>2. PICK k \in K : \A l \in K : k <= l
  BY <1>1, Least
<1>3. First(K) \in K
  <2>1. First(K) \in K /\ \A l \in K : First(K) <= l
    BY <1>2, Zenon DEF First
  <2> QED BY <2>1
<1>4. First(K) \in DOMAIN tree /\ BlockName[tree[First(K)]] = BlockName[b]
  BY <1>3 DEF Named
<1>5. tree[First(K)] \in ControlBlocks
  BY <1>4
<1> QED BY <1>4, <1>5 DEF DistinctNames, ToSet

LEMMA InfoIsOfTree ==
  ASSUME tree \in Seq(ControlBlocks), NEW n, NEW p, NEW b \in Info(n, p)
  PROVE  b \in ToSet(tree) /\ b \in ControlBlocks /\ p \in BlockSettings[b]
<1>1. PICK K \in {Named(n)} \ {{}} : b = tree[First(K)] /\ p \in BlockSettings[b]
  BY DEF Info
<1>2. K \in SUBSET Nat /\ K # {} /\ K \subseteq DOMAIN tree
  BY <1>1 DEF Named
<1>3. PICK k \in K : \A l \in K : k <= l
  BY <1>2, Least
<1>4. First(K) \in K
  <2>1. First(K) \in K /\ \A l \in K : First(K) <= l
    BY <1>3, Zenon DEF First
  <2> QED BY <2>1
<1>5. First(K) \in DOMAIN tree
  BY <1>2, <1>4
<1> QED BY <1>1, <1>5 DEF ToSet

LEMMA InfoIsOwn ==
  ASSUME DistinctNames, tree \in Seq(ControlBlocks), NEW b \in ToSet(tree), NEW p
  PROVE  Info(BlockName[b], p) = IF p \in BlockSettings[b] THEN {b} ELSE {}
<1> DEFINE K == Named(BlockName[b])
<1>1. b \in ControlBlocks /\ K # {}
  BY DEF ToSet, Named
<1>2. tree[First(K)] = b
  BY <1>1, FirstNamed
<1>3. {Named(BlockName[b])} \ {{}} = {K}
  BY <1>1
<1>4. {tree[First(L)] : L \in {K}} = {b}
  BY <1>2
<1> HIDE DEF K
<1> QED BY <1>3, <1>4, Zenon DEF Info

LEMMA GatheredInTree ==
  ASSUME DistinctNames, tree \in Seq(ControlBlocks), NEW e
  PROVE  Gathered(e) = {b \in ToSet(tree) : e[b] # Nothing}
<1> DEFINE K(n) == {k \in Named(n) : e[tree[k]] # Nothing}
           Names == {m \in {BlockName[b] : b \in ControlBlocks} : K(m) # {}}
<1>1. Gathered(e) = {tree[First(K(n))] : n \in Names}
  BY DEF Gathered
<1>2. ASSUME NEW b \in ControlBlocks, K(BlockName[b]) # {}
      PROVE  tree[First(K(BlockName[b]))] = b /\ b \in ToSet(tree) /\ e[b] # Nothing
  <2>1. K(BlockName[b]) \in SUBSET Named(BlockName[b])
    OBVIOUS
  <2>2. tree[First(K(BlockName[b]))] = b /\ b \in ToSet(tree)
    BY <1>2, <2>1, FirstNamed
  <2>3. PICK k \in K(BlockName[b]) : TRUE
    BY <1>2
  <2>4. tree[k] \in ControlBlocks /\ BlockName[tree[k]] = BlockName[b] /\ e[tree[k]] # Nothing
    BY <2>3 DEF Named
  <2> QED BY <2>2, <2>4 DEF DistinctNames
<1>3. ASSUME NEW b \in ToSet(tree), e[b] # Nothing
      PROVE  b \in ControlBlocks /\ K(BlockName[b]) # {}
  BY <1>3 DEF ToSet, Named
<1>4. ASSUME NEW g \in Gathered(e) PROVE g \in ToSet(tree) /\ e[g] # Nothing
  <2> HIDE DEF K
  <2>1. PICK n \in Names : g = tree[First(K(n))]
    BY <1>1
  <2>2. PICK b \in ControlBlocks : n = BlockName[b] /\ K(BlockName[b]) # {}
    BY <2>1
  <2> QED BY <1>2, <2>1, <2>2
<1>5. ASSUME NEW b \in ToSet(tree), e[b] # Nothing PROVE b \in Gathered(e)
  <2> HIDE DEF K
  <2>1. BlockName[b] \in Names
    BY <1>3, <1>5
  <2>2. tree[First(K(BlockName[b]))] = b
    BY <1>2, <1>3, <1>5
  <2> QED BY <1>1, <2>1, <2>2
<1> QED BY <1>4, <1>5

LEMMA PairsInTree ==
  ASSUME DistinctNames, tree \in Seq(ControlBlocks), NEW e, NEW w
  PROVE  /\ \A x \in Pairs(e, w) : \E b \in ToSet(tree) : \E p \in DOMAIN e[b] :
              x = <<BlockName[b], p>> /\ e[b][p] = w
         /\ \A b \in ToSet(tree) : \A p \in DOMAIN e[b] :
              e[b][p] = w => <<BlockName[b], p>> \in Pairs(e, w)
<1>1. Gathered(e) = {b \in ToSet(tree) : e[b] # Nothing}
  BY GatheredInTree
<1>2. ASSUME NEW x \in Pairs(e, w)
      PROVE  \E b \in ToSet(tree) : \E p \in DOMAIN e[b] :
               x = <<BlockName[b], p>> /\ e[b][p] = w
  BY <1>1, <1>2 DEF Pairs
<1>3. ASSUME NEW b \in ToSet(tree), NEW p \in DOMAIN e[b], e[b][p] = w
      PROVE  <<BlockName[b], p>> \in Pairs(e, w)
  <2>1. e[b] # Nothing
    BY DEF Nothing
  <2> QED BY <1>1, <1>3, <2>1 DEF Pairs
<1> QED BY <1>2, <1>3

-----------------------------------------------------------------------------
(* Bindings.                                                               *)

\* Every binding of f is one of e, or one to no window.
Less(f, e) ==
  \A b \in ToSet(tree) : \A p \in DOMAIN f[b] :
    (p \in DOMAIN e[b] /\ f[b][p] = e[b][p]) \/ f[b][p] = Unbound

LEMMA LessIsTyped ==
  ASSUME NEW e, NEW f, Less(f, e), Typed(e)
  PROVE  Typed(f)
BY DEF Less, Typed

LEMMA LessIsTransitive ==
  ASSUME NEW e, NEW f, NEW g, Less(f, e), Less(g, f)
  PROVE  Less(g, e)
BY DEF Less

LEMMA BindsLess ==
  ASSUME NEW e, DOMAIN e = ControlBlocks, tree \in Seq(ControlBlocks)
  PROVE  /\ \A B, p : DOMAIN Unexport(e, B, p) = ControlBlocks /\ Less(Unexport(e, B, p), e)
         /\ \A b \in ControlBlocks : \A p, w :
              /\ DOMAIN Bind(e, b, p, w) = ControlBlocks
              /\ DOMAIN Bind(e, b, p, w)[b] = DOMAIN e[b] \cup {p}
              /\ Bind(e, b, p, w)[b][p] = w
              /\ \A c \in ControlBlocks : \A q \in DOMAIN Bind(e, b, p, w)[c] :
                   c # b \/ q # p => q \in DOMAIN e[c] /\ Bind(e, b, p, w)[c][q] = e[c][q]
              /\ w = Unbound => Less(Bind(e, b, p, w), e)
<1>0. ToSet(tree) \subseteq ControlBlocks
  BY DEF ToSet
<1>1. ASSUME NEW B, NEW p
      PROVE  DOMAIN Unexport(e, B, p) = ControlBlocks /\ Less(Unexport(e, B, p), e)
  BY <1>0 DEF Unexport, Less
<1>2. ASSUME NEW b \in ControlBlocks, NEW p, NEW w
      PROVE  /\ DOMAIN Bind(e, b, p, w) = ControlBlocks
             /\ DOMAIN Bind(e, b, p, w)[b] = DOMAIN e[b] \cup {p}
             /\ Bind(e, b, p, w)[b][p] = w
             /\ \A c \in ControlBlocks : \A q \in DOMAIN Bind(e, b, p, w)[c] :
                  c # b \/ q # p => q \in DOMAIN e[c] /\ Bind(e, b, p, w)[c][q] = e[c][q]
  BY DEF Bind
<1>3. ASSUME NEW b \in ControlBlocks, NEW p PROVE Less(Bind(e, b, p, Unbound), e)
  BY <1>0, <1>2 DEF Less
<1> QED BY <1>1, <1>2, <1>3

\* A binding to one more window, of the type of all that are bound to it.
LEMMA BindIsTyped ==
  ASSUME NEW e, DOMAIN e = ControlBlocks, tree \in Seq(ControlBlocks), Typed(e),
         NEW b \in ControlBlocks, NEW p, NEW w,
         \A c \in ToSet(tree) : \A q \in DOMAIN e[c] :
           e[c][q] = w => ControlType[q] = ControlType[p]
  PROVE  Typed(Bind(e, b, p, w))
<1> DEFINE f == Bind(e, b, p, w)
<1>1. ASSUME NEW c \in ToSet(tree), NEW q \in DOMAIN f[c]
      PROVE  \/ c = b /\ q = p /\ f[c][q] = w
             \/ q \in DOMAIN e[c] /\ f[c][q] = e[c][q]
  <2>1. c \in ControlBlocks
    BY DEF ToSet
  <2> QED BY <2>1, BindsLess
<1> HIDE DEF f
<1>2. Typed(f)
  <2> SUFFICES ASSUME NEW c \in ToSet(tree), NEW d \in ToSet(tree),
                      NEW q \in DOMAIN f[c], NEW r \in DOMAIN f[d],
                      f[c][q] = f[d][r], f[c][q] # Unbound
               PROVE  ControlType[q] = ControlType[r]
    BY DEF Typed
  <2>1. CASE q = p /\ f[c][q] = w
    BY <1>1, <2>1
  <2>2. CASE q \in DOMAIN e[c] /\ f[c][q] = e[c][q]
    <3>1. CASE r = p /\ f[d][r] = w
      BY <2>2, <3>1
    <3>2. CASE r \in DOMAIN e[d] /\ f[d][r] = e[d][r]
      <4>1. /\ q \in DOMAIN e[c] /\ r \in DOMAIN e[d]
            /\ e[c][q] = e[d][r] /\ e[c][q] # Unbound
        BY <2>2, <3>2
      <4> HIDE <2>2, <3>2
      <4> QED BY <4>1 DEF Typed
    <3> QED BY <1>1, <3>1, <3>2
  <2> QED BY <1>1, <2>1, <2>2
<1> QED BY <1>2 DEF f

LEMMA RefreshedIsLess ==
  ASSUME DistinctNames, tree \in Seq(ControlBlocks), DOMAIN exported = ControlBlocks
  PROVE  /\ DOMAIN Refreshed = ControlBlocks
         /\ Less(Refreshed, exported)
         /\ \A b \in ControlBlocks : DOMAIN Refreshed[b] = DOMAIN exported[b]
         /\ \A b \in ToSet(tree) : \A p \in DOMAIN Refreshed[b] :
              Refreshed[b][p] \in controls \cup {Unbound}
<1>0. ToSet(tree) \subseteq ControlBlocks
  BY DEF ToSet
<1>1. Gathered(exported) = {b \in ToSet(tree) : exported[b] # Nothing}
  BY GatheredInTree
<1>2. Refreshed = [b \in ControlBlocks |-> IF b \in Gathered(exported)
        THEN [p \in DOMAIN exported[b] |->
                IF exported[b][p] \in controls THEN exported[b][p] ELSE Unbound]
        ELSE exported[b]]
  BY DEF Refreshed
<1>3. \A b \in ControlBlocks : DOMAIN Refreshed[b] = DOMAIN exported[b]
  BY <1>2
<1>4. ASSUME NEW b \in ToSet(tree), NEW p \in DOMAIN Refreshed[b]
      PROVE  Refreshed[b][p] = IF exported[b][p] \in controls THEN exported[b][p] ELSE Unbound
  <2>1. exported[b] # Nothing
    BY <1>0, <1>3, <1>4 DEF Nothing
  <2>2. b \in Gathered(exported)
    BY <1>1, <2>1
  <2> QED BY <1>0, <1>2, <1>3, <2>2
<1> QED BY <1>0, <1>2, <1>3, <1>4 DEF Less

\* The end of a frame takes away from what the frame has set.
LEMMA EndOfPage ==
  ASSUME NEW e, NEW W, NEW R, DOMAIN e = ControlBlocks, tree \in Seq(ControlBlocks),
         EndPage(e, W, R), Typed(e)
  PROVE  /\ DOMAIN exported' = ControlBlocks /\ controls' = W \ R
         /\ Less(exported', e) /\ Typed(exported')
<1>0. ToSet(tree) \subseteq ControlBlocks
  BY DEF ToSet
<1>1. DOMAIN exported' = ControlBlocks /\ controls' = W \ R
  BY DEF EndPage
<1>2. Less(exported', e)
  <2> SUFFICES ASSUME NEW b \in ToSet(tree), NEW p \in DOMAIN exported'[b]
               PROVE  (p \in DOMAIN e[b] /\ exported'[b][p] = e[b][p]) \/ exported'[b][p] = Unbound
    BY DEF Less
  <2>1. \/ exported'[b] = e[b]
        \/ exported'[b] = [q \in DOMAIN e[b] |-> IF e[b][q] \in R THEN Unbound ELSE e[b][q]]
    BY <1>0 DEF EndPage
  <2> QED BY <2>1
<1> QED BY <1>1, <1>2, LessIsTyped

-----------------------------------------------------------------------------
(* The steps.                                                              *)

\* Whoever ends the frame with less than is bound, or with properties of a window's
\* type bound to it, and reports no edit, keeps the invariant.
LEMMA EndOfFrame ==
  ASSUME DistinctNames, ControlInv, NEW e, NEW W, NEW R, EndPage(e, W, R),
         DOMAIN e = ControlBlocks, Typed(e), W \subseteq Ids,
         \/ sent' = Quiet
         \/ Less(e, exported) /\ UNCHANGED sent,
         lastUsedId' \in 0..MaxWindows, UNCHANGED <<tree, pending>>,
         \A x, y \in dragged' : x = y
  PROVE  ControlInv'
<1> USE DEF ControlInv
<1>1. /\ DOMAIN exported' = ControlBlocks /\ controls' = W \ R
      /\ Less(exported', e) /\ Typed(exported')
  BY EndOfPage
<1>2. Typed(exported)'
  BY <1>1 DEF Typed
<1>3. AllSet'
  <2>1. CASE sent' = Quiet
    BY <2>1 DEF AllSet, Quiet
  <2>2. CASE Less(e, exported) /\ UNCHANGED sent
    <3>1. Less(exported', exported)
      BY <1>1, <2>2, LessIsTransitive
    <3> QED BY <2>2, <3>1 DEF AllSet, Less
  <2> QED BY <2>1, <2>2
<1> QED BY <1>1, <1>2, <1>3

\* A new window's number is none of a window's.
LEMMA NewWindow ==
  ASSUME ControlInv, NEW b, NEW p, BindNewWindow(b, p)
  PROVE  \E w \in Ids \ controls :
           /\ lastUsedId' = w
           /\ EndPage(Bind(Refreshed, b, p, w), controls \cup {w}, {})
<1> DEFINE top == MaxWindows + Cardinality(controls) + lastUsedId + 1
           Places == lastUsedId + 1..top
           Is(i) == i \notin controls /\ \A j \in lastUsedId + 1..i - 1 : j \in controls
           w == CHOOSE i \in Places : Is(i)
<1>1. MaxWindows \in Nat /\ lastUsedId \in 0..MaxWindows /\ controls \subseteq 1..MaxWindows
  BY ControlAssumption DEF ControlInv, Ids
<1>2. Cardinality(controls) \in Nat
  <2>1. IsFiniteSet(1..MaxWindows)
    BY <1>1, FS_Interval
  <2>2. IsFiniteSet(controls)
    BY <1>1, <2>1, FS_Subset
  <2> QED BY <2>2, FS_CardinalityType
<1>3. \E i \in Places : Is(i)
  <2> DEFINE Free == {i \in Places : i \notin controls}
  <2>1. Places \subseteq Nat /\ top \in Places /\ top \notin controls
    BY <1>1, <1>2
  <2>2. Free \in SUBSET Nat /\ Free # {}
    BY <2>1
  <2>3. PICK k \in Free : \A l \in Free : k <= l
    <3> HIDE DEF Free
    <3> QED BY <2>2, Least
  <2>4. ASSUME NEW j \in lastUsedId + 1..k - 1 PROVE j \in controls
    <3>1. j \in Places /\ ~(k <= j)
      BY <1>1, <1>2, <2>1, <2>3, <2>4
    <3> QED BY <2>3, <3>1
  <2> QED BY <2>3, <2>4
<1>4. w \in Places /\ Is(w)
  <2> HIDE DEF Places, Is
  <2> QED BY <1>3, Zenon DEF w
<1>5. w <= MaxWindows /\ lastUsedId' = w
      /\ EndPage(Bind(Refreshed, b, p, w), controls \cup {w}, {})
  BY DEF BindNewWindow
<1> HIDE DEF w
<1>6. w \in Ids
  BY <1>1, <1>2, <1>4, <1>5 DEF Ids
<1> QED BY <1>4, <1>5, <1>6

LEMMA ControlInitially ==
  DistinctNames /\ ControlInit => ControlInv
<1> SUFFICES ASSUME DistinctNames, ControlInit PROVE ControlInv
  OBVIOUS
<1> USE DEF ControlInit
<1>1. tree = <<>> /\ ToSet(tree) = {}
  BY DEF ToSet
<1>2. \A x, y \in pending : x[3] = y[3] /\ x[3] # Unbound => ControlType[x[2]] = ControlType[y[2]]
  OBVIOUS
<1> QED BY <1>1, <1>2, ControlAssumption DEF ControlInv, Typed, AllSet

\* The blocks that come and go between frames.
LEMMA ControlBetweenFrames ==
  ASSUME DistinctNames, ControlInv,
         AppendBlock \/ DropBlock \/ ApplyExportedProperties \/ RefreshMetaInformation
  PROVE  ControlInv'
<1> USE DEF ControlInv
<1>1. ToSet(tree) \subseteq ControlBlocks
  BY DEF ToSet
<1>q. sent' = Quiet => AllSet'
  BY DEF AllSet, Quiet
<1>t. ASSUME DOMAIN exported' = ControlBlocks,
             \A b \in ToSet(tree') : \A p \in DOMAIN exported'[b] :
               b \in ToSet(tree) /\ p \in DOMAIN exported[b] /\ exported'[b][p] = exported[b][p]
      PROVE  Typed(exported)'
  BY <1>t DEF Typed
<1>2. CASE AppendBlock
  <2>1. PICK b \in ControlBlocks \ ToSet(tree) :
          tree' = Append(tree, b) /\ exported' = [exported EXCEPT ![b] = Nothing]
    BY <1>2 DEF AppendBlock
  <2>2. tree' \in Seq(ControlBlocks) /\ ToSet(tree') = ToSet(tree) \cup {b}
    BY <2>1 DEF ToSet
  <2>3. DOMAIN exported' = ControlBlocks /\ DOMAIN exported'[b] = {}
        /\ \A c \in ToSet(tree) : exported'[c] = exported[c]
    BY <1>1, <2>1 DEF Nothing
  <2>4. Typed(exported)'
    BY <1>t, <2>2, <2>3
  <2> QED BY <1>2, <1>q, <2>2, <2>3, <2>4 DEF AppendBlock
<1>3. CASE DropBlock
  <2>1. PICK k \in DOMAIN tree :
          tree' = RemoveAt(tree, k) /\ exported' = [exported EXCEPT ![tree[k]] = Nothing]
    BY <1>3 DEF DropBlock
  <2>2. tree' \in Seq(ControlBlocks) /\ ToSet(tree') \subseteq ToSet(tree)
    <3> DEFINE s == SubSeq(tree, 1, k - 1)
               t == SubSeq(tree, k + 1, Len(tree))
    <3>1. /\ s \in Seq(ControlBlocks) /\ Len(s) = k - 1
          /\ \A i \in 1..k - 1 : s[i] = tree[i]
      BY <2>1, SubSeqProperties
    <3>2. /\ t \in Seq(ControlBlocks) /\ Len(t) = Len(tree) - k
          /\ \A i \in 1..Len(tree) - k : t[i] = tree[k + i]
      BY <2>1, SubSeqProperties
    <3>3. tree' = s \o t
      BY <2>1 DEF RemoveAt
    <3> HIDE DEF s, t
    <3>4. s \o t \in Seq(ControlBlocks) /\ Len(s \o t) = Len(s) + Len(t)
          /\ \A i \in 1..Len(s) + Len(t) :
               (s \o t)[i] = IF i <= Len(s) THEN s[i] ELSE t[i - Len(s)]
      BY <3>1, <3>2, ConcatProperties
    <3>5. ASSUME NEW i \in DOMAIN tree' PROVE tree'[i] \in ToSet(tree)
      <4>1. CASE i <= k - 1
        <5>1. i \in 1..k - 1 /\ tree'[i] = tree[i] /\ i \in DOMAIN tree
          BY <3>1, <3>2, <3>3, <3>4, <3>5, <4>1
        <5> QED BY <5>1 DEF ToSet
      <4>2. CASE ~(i <= k - 1)
        <5>1. i - (k - 1) \in 1..Len(tree) - k /\ tree'[i] = t[i - (k - 1)]
          <6>1. i \in 1..Len(s) + Len(t)
            BY <3>3, <3>4, <3>5
          <6>2. (s \o t)[i] = t[i - (k - 1)]
            BY <3>1, <3>4, <4>2, <6>1
          <6>3. i - (k - 1) \in 1..Len(tree) - k
            BY <3>1, <3>2, <4>2, <6>1
          <6> QED BY <3>3, <6>2, <6>3
        <5>2. k + (i - (k - 1)) \in DOMAIN tree /\ tree'[i] = tree[k + (i - (k - 1))]
          BY <3>2, <5>1
        <5> QED BY <5>2 DEF ToSet
      <4> QED BY <4>1, <4>2
    <3> QED BY <3>3, <3>4, <3>5 DEF ToSet
  <2>3. DOMAIN exported' = ControlBlocks /\ DOMAIN exported'[tree[k]] = {}
        /\ \A c \in ToSet(tree) : c # tree[k] => exported'[c] = exported[c]
    BY <1>1, <2>1 DEF Nothing
  <2>4. Typed(exported)'
    BY <1>t, <2>2, <2>3
  <2> QED BY <1>3, <1>q, <2>2, <2>3, <2>4 DEF DropBlock
<1>4. CASE ApplyExportedProperties
  <2> DEFINE Heads(B, order) == {b \in B : \A k \in DOMAIN order :
                     BlockName[order[k]] = BlockName[b] =>
                       \E l \in 1..k : order[l] = b}
             Of(B, order, b) ==
               {x \in pending : x[1] = BlockName[b] /\ b \in Heads(B, order)}
  <2>1. PICK B \in SUBSET ControlBlocks :
          \E order \in SetToSeqs(B) :
            /\ tree' = order
            /\ exported' = [b \in ControlBlocks |-> [p \in {x[2] : x \in Of(B, order, b)} |->
                            (CHOOSE x \in Of(B, order, b) : x[2] = p)[3]]]
    BY <1>4 DEF ApplyExportedProperties
  <2>7. PICK order \in SetToSeqs(B) :
            /\ tree' = order
            /\ exported' = [b \in ControlBlocks |-> [p \in {x[2] : x \in Of(B, order, b)} |->
                            (CHOOSE x \in Of(B, order, b) : x[2] = p)[3]]]
    BY <2>1
  <2>8. \A b : Of(B, order, b) \subseteq pending
    OBVIOUS
  <2> HIDE DEF Heads, Of
  <2>2. tree' \in Seq(ControlBlocks)
    <3>1. IsFiniteSet(B)
      BY ControlAssumption, FS_Subset
    <3>2. Cardinality(B) \in Nat
      BY <3>1, FS_CardinalityType
    <3>3. order \in [1..Cardinality(B) -> B]
      BY <2>7, Zenon DEF SetToSeqs
    <3>4. order \in Seq(B)
      BY <3>2, <3>3
    <3> QED BY <2>7, <3>4, SeqMonotonic
  <2>3. ToSet(tree') \subseteq ControlBlocks
    BY <2>2 DEF ToSet
  <2>4. ASSUME NEW b \in ControlBlocks, NEW p \in DOMAIN exported'[b]
        PROVE  \E x \in pending : x[2] = p /\ x[3] = exported'[b][p]
    <3>1. DOMAIN exported'[b] = {x[2] : x \in Of(B, order, b)}
      BY <2>7
    <3>2. PICK x \in Of(B, order, b) : x[2] = p
      BY <2>4, <3>1
    <3>3. exported'[b][p] = (CHOOSE y \in Of(B, order, b) : y[2] = p)[3]
      BY <2>7, <2>4, <3>1
    <3> DEFINE z == CHOOSE y \in Of(B, order, b) : y[2] = p
    <3>4. z \in Of(B, order, b) /\ z[2] = p
      BY <3>2, Zenon
    <3>5. z \in pending
      BY <2>8, <3>4
    <3> QED BY <3>3, <3>4, <3>5
  <2>5. Typed(exported)'
    <3> SUFFICES ASSUME NEW b \in ToSet(tree'), NEW c \in ToSet(tree'),
                        NEW p \in DOMAIN exported'[b], NEW q \in DOMAIN exported'[c],
                        exported'[b][p] = exported'[c][q], exported'[b][p] # Unbound
                 PROVE  ControlType[p] = ControlType[q]
      BY DEF Typed
    <3>1. PICK x \in pending : x[2] = p /\ x[3] = exported'[b][p]
      BY <2>3, <2>4
    <3>2. PICK y \in pending : y[2] = q /\ y[3] = exported'[c][q]
      BY <2>3, <2>4
    <3> QED BY <3>1, <3>2
  <2>6. DOMAIN exported' = ControlBlocks
    BY <2>7
  <2> QED BY <1>4, <1>q, <2>2, <2>5, <2>6 DEF ApplyExportedProperties
<1>5. CASE RefreshMetaInformation
  <2>1. PICK b \in ToSet(tree) :
          exported' = [exported EXCEPT ![b] = [p \in DOMAIN @ \cap BlockSettings[b] |-> @[p]]]
    BY <1>5 DEF RefreshMetaInformation
  <2>2. DOMAIN exported' = ControlBlocks
        /\ \A c \in ToSet(tree) : \A p \in DOMAIN exported'[c] :
             p \in DOMAIN exported[c] /\ exported'[c][p] = exported[c][p]
    BY <1>1, <2>1
  <2>3. tree' = tree
    BY <1>5 DEF RefreshMetaInformation
  <2>4. Typed(exported)'
    BY <1>t, <2>2, <2>3
  <2> QED BY <1>5, <1>q, <2>2, <2>4 DEF RefreshMetaInformation
<1> QED BY <1>2, <1>3, <1>4, <1>5

\* What a frame cannot find is what a block has not.
LEMMA MissingIsNotOwned ==
  ASSUME DistinctNames, ControlInv, UsesMissing
  PROVE  \E b \in ControlBlocks : ~(DOMAIN exported[b] \subseteq BlockSettings[b])
<1> USE DEF ControlInv
<1>1. PICK w, x : w \in controls /\ x \in Pairs(Refreshed, w) /\ Info(x[1], x[2]) = {}
  BY DEF UsesMissing
<1>2. PICK b, p : b \in ToSet(tree) /\ p \in DOMAIN Refreshed[b] /\ x = <<BlockName[b], p>>
  BY <1>1, PairsInTree
<1>3. b \in ToSet(tree) /\ b \in ControlBlocks
  BY <1>2 DEF ToSet
<1>4. p \in DOMAIN exported[b]
  BY <1>2, <1>3, RefreshedIsLess
<1>5. Info(BlockName[b], p) = {}
  BY <1>1, <1>2
<1>6. p \notin BlockSettings[b]
  BY <1>3, <1>5, InfoIsOwn
<1> QED BY <1>3, <1>4, <1>6

\* An edit in a window sets a property of every block that is bound to it.
LEMMA EditSetsAll ==
  ASSUME DistinctNames, ControlInv, NEW w \in controls, EditInWindow(w),
         UNCHANGED <<tree, pending>>
  PROVE  ControlInv'
<1> USE DEF ControlInv
<1>0. ToSet(tree) \subseteq ControlBlocks
  BY DEF ToSet
<1>1. PICK x \in Pairs(Refreshed, w) : \E b \in Info(x[1], x[2]) :
        \E S \in SetTogether(Refreshed, b, x[2]) : sent' = [window |-> w, set |-> S]
  BY DEF EditInWindow
<1>2. PICK b, S :
        /\ b \in Info(x[1], x[2]) /\ S \in SetTogether(Refreshed, b, x[2])
        /\ sent' = [window |-> w, set |-> S]
  BY <1>1
<1>3. PICK c, p :
        c \in ToSet(tree) /\ p \in DOMAIN Refreshed[c] /\ x = <<BlockName[c], p>> /\ Refreshed[c][p] = w
  BY PairsInTree
<1>4. c = b /\ p \in BlockSettings[b]
  <2>1. b \in Info(BlockName[c], p)
    BY <1>2, <1>3
  <2> QED BY <1>3, <2>1, InfoIsOwn
<1>5. p \in ControlProperties
  BY <1>0, <1>3, <1>4, ControlAssumption
<1>6. w # Unbound
  BY NumbersAreBound
<1>7. WindowOf(Refreshed, b, p) = w
  BY <1>3, <1>4 DEF WindowOf
<1> DEFINE v == WindowOf(Refreshed, b, p)
           Bound(d) == {q \in DOMAIN Refreshed[d] : Refreshed[d][q] = v}
           others == {d \in ToSet(tree) \ {b} : v # Unbound /\ Bound(d) # {}}
<1>8. SetTogether(Refreshed, b, p) =
        {{<<b, p>>} \cup {<<d, g[d]>> : d \in others} :
           g \in {h \in [others -> ControlProperties] : \A d \in others : h[d] \in Bound(d)}}
  BY DEF SetTogether
<1>9. PICK g \in [others -> ControlProperties] :
        S = {<<b, p>>} \cup {<<d, g[d]>> : d \in others}
  BY <1>2, <1>3, <1>8
<1>10. ASSUME NEW d \in ToSet(tree), NEW q \in DOMAIN Refreshed[d], Refreshed[d][q] = w
       PROVE  \E r \in ControlProperties : <<d, r>> \in S
  <2>1. CASE d = b
    BY <1>5, <1>9, <2>1
  <2>2. CASE d # b
    <3>1. d \in others
      BY <1>6, <1>7, <1>10, <2>2
    <3>2. g[d] \in ControlProperties /\ <<d, g[d]>> \in S
      BY <1>9, <3>1
    <3> QED BY <3>2
  <2> QED BY <2>1, <2>2
<1> HIDE DEF others
<1>11. /\ DOMAIN Refreshed = ControlBlocks /\ Typed(Refreshed)
  BY RefreshedIsLess, LessIsTyped
<1>12. /\ DOMAIN exported' = ControlBlocks /\ controls' = controls
       /\ Less(exported', Refreshed) /\ Typed(exported')
  <2>1. EndPage(Refreshed, controls, {})
    BY DEF EditInWindow
  <2>2. controls \ {} = controls
    OBVIOUS
  <2> QED BY <1>11, <2>1, <2>2, EndOfPage
<1>13. AllSet'
  <2> SUFFICES ASSUME NEW d \in ToSet(tree), NEW q \in DOMAIN exported'[d],
                      sent'.window = exported'[d][q], sent'.window # Unbound
               PROVE  \E r \in ControlProperties : <<d, r>> \in sent'.set
    BY DEF AllSet
  <2>1. q \in DOMAIN Refreshed[d] /\ exported'[d][q] = Refreshed[d][q]
    BY <1>12 DEF Less
  <2>2. Refreshed[d][q] = w
    BY <1>2, <2>1
  <2> QED BY <1>2, <1>10, <2>1, <2>2
<1>14. Typed(exported)'
  BY <1>12 DEF Typed
<1> QED BY <1>12, <1>13, <1>14 DEF EditInWindow

LEMMA ControlFrameKeeps ==
  ASSUME DistinctNames, ControlInv, ControlFrame
  PROVE  ControlInv'
<1> USE DEF ControlInv
<1>0. ToSet(tree) \subseteq ControlBlocks
  BY DEF ToSet
<1>e. UNCHANGED <<tree, pending>>
  BY DEF ControlFrame
<1>r. /\ DOMAIN Refreshed = ControlBlocks /\ Typed(Refreshed) /\ Less(Refreshed, exported)
      /\ \A b \in ControlBlocks : DOMAIN Refreshed[b] = DOMAIN exported[b]
      /\ \A b \in ToSet(tree) : \A p \in DOMAIN Refreshed[b] :
           Refreshed[b][p] \in controls \cup {Unbound}
  BY RefreshedIsLess, LessIsTyped
<1>f. ASSUME Fail, UNCHANGED dragged PROVE ControlInv'
  BY <1>e, <1>f DEF Fail, Typed, AllSet
\* A frame that binds nothing to a window.
<1>u. ASSUME NEW e, NEW R, EndPage(e, controls, R), DOMAIN e = ControlBlocks,
             Less(e, Refreshed), sent' = Quiet, UNCHANGED lastUsedId,
             \A x, y \in dragged' : x = y
      PROVE  ControlInv'
  <2>1. Typed(e)
    BY <1>r, <1>u, LessIsTyped
  <2> QED BY <1>e, <1>u, <2>1, EndOfFrame
<1>s. Less(Refreshed, Refreshed)
  BY DEF Less
<1>b. ASSUME NEW b \in ControlBlocks, NEW p
      PROVE  /\ DOMAIN Bind(Refreshed, b, p, Unbound) = ControlBlocks
             /\ Less(Bind(Refreshed, b, p, Unbound), Refreshed)
  BY <1>r, BindsLess
<1>x. ASSUME NEW B, NEW p
      PROVE  /\ DOMAIN Unexport(Refreshed, B, p) = ControlBlocks
             /\ Less(Unexport(Refreshed, B, p), Refreshed)
  BY <1>r, BindsLess
\* A frame that binds a property to a new window.
<1>n. ASSUME NEW b \in ControlBlocks, NEW p, BindNewWindow(b, p), sent' = Quiet,
             UNCHANGED dragged
      PROVE  ControlInv'
  <2>1. PICK w \in Ids \ controls :
          /\ lastUsedId' = w
          /\ EndPage(Bind(Refreshed, b, p, w), controls \cup {w}, {})
    BY <1>n, NewWindow
  <2>2. w # Unbound
    BY NumbersAreBound
  <2>3. \A c \in ToSet(tree) : \A q \in DOMAIN Refreshed[c] : Refreshed[c][q] # w
    BY <1>r, <2>2
  <2>4. Typed(Bind(Refreshed, b, p, w))
    BY <1>r, <2>3, BindIsTyped
  <2>5. DOMAIN Bind(Refreshed, b, p, w) = ControlBlocks
    BY <1>r, BindsLess
  <2>6. controls \cup {w} \subseteq Ids /\ lastUsedId' \in 0..MaxWindows
    <3>1. w \in Ids /\ lastUsedId' = w /\ MaxWindows \in Nat /\ controls \subseteq Ids
      BY <2>1, ControlAssumption DEF ControlInv
    <3> QED BY <3>1 DEF Ids
  <2> QED BY <1>e, <1>n, <2>1, <2>4, <2>5, <2>6, EndOfFrame
<1>1. CASE UsesMissing
  BY <1>1, <1>f DEF ControlFrame
<1>2. CASE ~UsesMissing
  <2>0. UserStep
    BY <1>2 DEF ControlFrame
  <2>1. CASE Disconnect
    <3>1. PICK x, b : /\ b \in Info(x[1], x[2])
                      /\ IF x[2] \in DOMAIN Refreshed[b]
                         THEN /\ EndPage(Bind(Refreshed, b, x[2], Unbound), controls, {})
                              /\ sent' = Quiet /\ UNCHANGED <<lastUsedId, menu, failed>>
                         ELSE Fail
      BY <2>1 DEF Disconnect
    <3>2. b \in ControlBlocks
      BY <3>1, InfoIsOfTree
    <3>3. UNCHANGED dragged
      BY <2>1 DEF Disconnect
    <3> QED BY <1>b, <1>f, <1>u, <3>1, <3>2, <3>3
  <2>2. CASE ClosePopup
    BY <1>r, <1>s, <1>u, <2>2 DEF ClosePopup
  <2>3. CASE MenuUnexport
    BY <1>x, <1>u, <2>3 DEF MenuUnexport
  <2>4. CASE MenuAddWindow
    <3>1. PICK b \in Info(menu.target[1], menu.target[2]) : BindNewWindow(b, menu.target[2])
      BY <2>4 DEF MenuAddWindow
    <3>2. b \in ControlBlocks
      BY InfoIsOfTree
    <3> QED BY <1>n, <2>4, <3>1, <3>2 DEF MenuAddWindow
  <2>5. ASSUME NEW w \in controls, EditInWindow(w) PROVE ControlInv'
    BY <1>e, <2>5, EditSetsAll
  <2>6. ASSUME NEW w \in controls, DropOnWindow(w) PROVE ControlInv'
    <3>1. PICK x \in dragged : SameType(w, x[2])
      BY <2>6 DEF DropOnWindow
    <3>2. /\ \E y \in dragged : \E b \in Info(y[1], y[2]) :
                EndPage(IF y[2] \in DOMAIN Refreshed[b] THEN Bind(Refreshed, b, y[2], w)
                        ELSE Refreshed, controls, {})
          /\ dragged' = {} /\ sent' = Quiet /\ UNCHANGED lastUsedId
      BY <2>6 DEF DropOnWindow, DropAnyType
    <3>3. PICK b \in Info(x[1], x[2]) :
            EndPage(IF x[2] \in DOMAIN Refreshed[b] THEN Bind(Refreshed, b, x[2], w)
                    ELSE Refreshed, controls, {})
      BY <3>1, <3>2
    <3>4. b \in ControlBlocks
      BY InfoIsOfTree
    <3>5. CASE x[2] \notin DOMAIN Refreshed[b]
      BY <1>r, <1>s, <1>u, <3>2, <3>3, <3>5
    <3>6. CASE x[2] \in DOMAIN Refreshed[b]
      <4> DEFINE used == {y \in Pairs(Refreshed, w) : Info(y[1], y[2]) # {}}
                 T == {ControlType[y[2]] : y \in used}
      <4>1. T = {} \/ ControlType[x[2]] \in T
        BY <3>1 DEF SameType
      <4>2. ASSUME NEW c \in ToSet(tree), NEW q \in DOMAIN Refreshed[c], Refreshed[c][q] = w
            PROVE  ControlType[q] = ControlType[x[2]]
        <5>1. <<BlockName[c], q>> \in Pairs(Refreshed, w)
          BY <4>2, PairsInTree
        <5>2. Info(BlockName[c], q) # {}
          BY <1>2, <5>1 DEF UsesMissing
        <5>3. <<BlockName[c], q>> \in used
          BY <5>1, <5>2
        <5>4. ControlType[x[2]] \in T
          <6>1. ControlType[<<BlockName[c], q>>[2]] \in T
            BY <5>3
          <6> QED BY <4>1, <6>1
        <5>5. PICK y \in used : ControlType[x[2]] = ControlType[y[2]]
          BY <5>4
        <5>6. PICK d, r :
                /\ d \in ToSet(tree) /\ r \in DOMAIN Refreshed[d]
                /\ y = <<BlockName[d], r>> /\ Refreshed[d][r] = w
          BY PairsInTree
        <5>7. w # Unbound
          BY NumbersAreBound
        <5>8. ControlType[q] = ControlType[r]
          BY <1>r, <4>2, <5>6, <5>7 DEF Typed
        <5> QED BY <5>5, <5>6, <5>8
      <4>3. Typed(Bind(Refreshed, b, x[2], w))
        <5> HIDE DEF T
        <5> QED BY <1>r, <3>4, <4>2, BindIsTyped
      <4>4. DOMAIN Bind(Refreshed, b, x[2], w) = ControlBlocks
        BY <1>r, <3>4, BindsLess
      <4>5. EndPage(Bind(Refreshed, b, x[2], w), controls, {})
        BY <3>3, <3>6
      <4> QED BY <1>e, <3>2, <4>3, <4>4, <4>5, EndOfFrame
    <3> QED BY <3>5, <3>6
  <2>7. ASSUME NEW w \in controls, RemoveControlWindow(w) PROVE ControlInv'
    BY <1>r, <1>s, <1>u, <2>7 DEF RemoveControlWindow
  <2>8. ASSUME NEW w \in controls, OpenDisconnect(w) PROVE ControlInv'
    BY <1>r, <1>s, <1>u, <2>8 DEF OpenDisconnect
  <2>9. ASSUME NEW b \in ToSet(tree), NEW p \in BlockSettings[b], ToggleExport(b, p)
        PROVE  ControlInv'
    <3>1. b \in ControlBlocks
      BY <1>0
    <3> QED BY <1>b, <1>x, <1>u, <2>9, <3>1 DEF ToggleExport
  <2>10. ASSUME NEW b \in ToSet(tree), NEW p \in BlockSettings[b],
                RemoveFromExistingWindow(b, p)
         PROVE  ControlInv'
    <3>1. b \in ControlBlocks
      BY <1>0
    <3>2. PICK R : EndPage(Bind(Refreshed, b, p, Unbound), controls, R)
      BY <2>10 DEF RemoveFromExistingWindow
    <3> QED BY <1>b, <1>u, <2>10, <3>1, <3>2 DEF RemoveFromExistingWindow
  <2>11. ASSUME NEW b \in ToSet(tree), NEW p \in BlockSettings[b], AddNewWindow(b, p)
         PROVE  ControlInv'
    <3>1. b \in ControlBlocks
      BY <1>0
    <3> QED BY <1>n, <2>11, <3>1 DEF AddNewWindow
  <2>12. ASSUME NEW x \in ExportRows, DragProperty(x) PROVE ControlInv'
    BY <1>r, <1>s, <1>u, <2>12 DEF DragProperty
  <2>13. ASSUME NEW x \in ExportRows, OpenPropertyMenu(x) PROVE ControlInv'
    BY <1>r, <1>s, <1>u, <2>13 DEF OpenPropertyMenu
  <2> QED BY <2>0, <2>1, <2>2, <2>3, <2>4, <2>5, <2>6, <2>7, <2>8, <2>9, <2>10, <2>11,
             <2>12, <2>13 DEF UserStep
<1> QED BY <1>1, <1>2

LEMMA ControlInductive ==
  ASSUME DistinctNames
  PROVE  /\ ControlInit => ControlInv /\ PropertyInfoIsValid
         /\ ControlInv /\ PropertyInfoIsValid /\ [ControlNext]_controlVars
              => ControlInv' /\ PropertyInfoIsValid'
<1>1. ControlInit => ControlInv /\ PropertyInfoIsValid
  BY ControlInitially DEF ControlInit, PropertyInfoIsValid
<1>2. ASSUME ControlInv, PropertyInfoIsValid, ControlNext
      PROVE  ControlInv' /\ PropertyInfoIsValid'
  <2>1. ControlInv'
    BY <1>2, ControlBetweenFrames, ControlFrameKeeps DEF ControlNext
  <2>2. ~failed
    BY <1>2 DEF ControlNext
  <2>3. ASSUME failed' PROVE UsesMissing /\ UNCHANGED exported
    <3>1. ControlFrame
      BY <1>2, <2>2, <2>3 DEF ControlNext, AppendBlock, DropBlock, ApplyExportedProperties,
           RefreshMetaInformation
    <3>2. CASE UsesMissing
      BY <3>1, <3>2 DEF ControlFrame, Fail
    <3>3. CASE ~UsesMissing
      <4>1. UserStep
        BY <3>1, <3>3 DEF ControlFrame
      <4>2. Disconnect
        BY <2>2, <2>3, <4>1 DEF UserStep, ClosePopup, MenuUnexport, MenuAddWindow,
             EditInWindow, DropOnWindow, DropAnyType, RemoveControlWindow, OpenDisconnect,
             ToggleExport, RemoveFromExistingWindow, AddNewWindow, DragProperty,
             OpenPropertyMenu
      <4>3. PICK x, b : /\ x \in Pairs(Refreshed, menu.window) /\ b \in Info(x[1], x[2])
                        /\ x[2] \notin DOMAIN Refreshed[b]
        BY <2>2, <2>3, <4>2 DEF Disconnect
      <4>4. PICK c, p : c \in ToSet(tree) /\ p \in DOMAIN Refreshed[c] /\ x = <<BlockName[c], p>>
        BY <1>2, <4>3, PairsInTree DEF ControlInv
      <4>5. b \in Info(BlockName[c], p)
        BY <4>3, <4>4
      <4>6. b = c
        BY <1>2, <4>4, <4>5, InfoIsOwn DEF ControlInv
      <4> QED BY <4>3, <4>4, <4>6
    <3> QED BY <3>2, <3>3
  <2>4. PropertyInfoIsValid'
    BY <1>2, <2>3, MissingIsNotOwned DEF PropertyInfoIsValid
  <2> QED BY <2>1, <2>4
<1>3. ASSUME ControlInv, PropertyInfoIsValid, UNCHANGED controlVars
      PROVE  ControlInv' /\ PropertyInfoIsValid'
  <2>1. UNCHANGED <<tree, exported, controls, lastUsedId, pending, dragged, sent, failed>>
    BY <1>3 DEF controlVars
  <2>2. Typed(exported)' /\ AllSet'
    BY <1>3, <2>1 DEF ControlInv, Typed, AllSet
  <2>3. PropertyInfoIsValid'
    BY <1>3, <2>1 DEF PropertyInfoIsValid
  <2> QED BY <1>3, <2>1, <2>2, <2>3 DEF ControlInv
<1> QED BY <1>1, <1>2, <1>3

LEMMA ControlInvMeans ==
  ControlInv /\ PropertyInfoIsValid => ControlsAreConsistent
<1> SUFFICES ASSUME ControlInv, DistinctNames PROVE BoundTogether
  BY DEF ControlsAreConsistent, BoundTogether
<1> SUFFICES ASSUME NEW b \in ToSet(tree), NEW c \in ToSet(tree),
                    NEW p \in DOMAIN exported[b], NEW q \in DOMAIN exported[c],
                    exported[b][p] = exported[c][q], exported[b][p] \in controls
             PROVE  /\ ControlType[p] = ControlType[q]
                    /\ sent.window = exported[b][p]
                         => \E r \in ControlProperties : <<c, r>> \in sent.set
  BY DEF BoundTogether
<1>1. exported[b][p] # Unbound
  <2>1. exported[b][p] \in 1..MaxWindows
    BY DEF ControlInv, Ids
  <2> QED BY <2>1, ControlAssumption
<1>2. ControlType[p] = ControlType[q]
  BY <1>1 DEF ControlInv, Typed
<1>3. sent.window = exported[b][p] => \E r \in ControlProperties : <<c, r>> \in sent.set
  BY <1>1 DEF ControlInv, AllSet
<1> QED BY <1>2, <1>3

\* "property info should always be valid because its parameters were taken from
\* the current graph" (DashboardPage.cpp:214): so it is while blocks have names of
\* their own, whatever comes, goes or is removed between two frames of a popup; and
\* what a window binds together has one type and is set together.
THEOREM WindowsAreOfOneKind ==
  ControlSpec => []ControlsAreConsistent
<1>1. CASE DistinctNames
  <2>1. ControlInit => ControlInv /\ PropertyInfoIsValid
    BY <1>1, ControlInductive
  <2>2. ControlInv /\ PropertyInfoIsValid /\ [ControlNext]_controlVars
          => ControlInv' /\ PropertyInfoIsValid'
    BY <1>1, ControlInductive
  <2> QED BY <2>1, <2>2, ControlInvMeans, PTL DEF ControlSpec
<1>2. CASE ~DistinctNames
  <2>1. ControlsAreConsistent
    BY <1>2 DEF ControlsAreConsistent, PropertyInfoIsValid, BoundTogether
  <2> QED BY <2>1, PTL
<1> QED BY <1>1, <1>2

-----------------------------------------------------------------------------
(* The charts and their windows.                                            *)

ChartBlocks == [id : 1..lastBlockId, type : ChartTypes, names : SUBSET SignalNames]
SomeSignal == ChartSignals \union {NoSignal}

\* The blocks and windows, of which no two are alike.
BlocksInv ==
  /\ lastBlockId \in Nat /\ chartCounter \in Nat /\ lastWindowId \in Nat
  /\ charts \in Seq(ChartBlocks)
  /\ chartWindows \in Seq([name : WindowNames, block : ChartIds])
  /\ \A i, j \in DOMAIN charts : i # j => charts[i].id # charts[j].id
  /\ \A i, j \in DOMAIN chartWindows :
       i # j => /\ chartWindows[i].name # chartWindows[j].name
                /\ chartWindows[i].block # chartWindows[j].block
  /\ {chartWindows[i].block : i \in DOMAIN chartWindows} = ChartIds

\* A chart is found by its number.
LEMMA FoundByNumber ==
  ASSUME NEW s, \A i, j \in DOMAIN s : i # j => s[i].id # s[j].id,
         NEW i \in DOMAIN s
  PROVE  (CHOOSE c \in ToSet(s) : c.id = s[i].id) = s[i]
<1>1. s[i] \in ToSet(s)
  BY DEF ToSet
<1>2. ASSUME NEW c \in ToSet(s), c.id = s[i].id PROVE c = s[i]
  BY <1>2 DEF ToSet
<1> QED BY <1>1, <1>2

ChartsAreFound ==
  /\ \A i \in DOMAIN charts : charts[i].id \in ChartIds /\ Chart(charts[i].id) = charts[i]
  /\ \A id \in ChartIds :
       /\ Chart(id) \in ChartBlocks /\ Chart(id).id = id
       /\ \E i \in DOMAIN charts : charts[i] = Chart(id)

\* Every number of a chart finds that chart, and it has the type of charts.
LEMMA ChartIsFound == BlocksInv => ChartsAreFound
<1> SUFFICES ASSUME BlocksInv PROVE ChartsAreFound
  OBVIOUS
<1>1. \A i, j \in DOMAIN charts : i # j => charts[i].id # charts[j].id
  BY DEF BlocksInv
<1>2. ASSUME NEW i \in DOMAIN charts PROVE charts[i].id \in ChartIds /\ Chart(charts[i].id) = charts[i]
  BY <1>1, FoundByNumber DEF Chart, ChartIds
<1>3. ASSUME NEW id \in ChartIds
      PROVE  /\ Chart(id) \in ChartBlocks /\ Chart(id).id = id
             /\ \E i \in DOMAIN charts : charts[i] = Chart(id)
  <2>1. PICK i \in DOMAIN charts : charts[i].id = id
    BY DEF ChartIds
  <2>2. Chart(id) = charts[i]
    BY <1>2, <2>1
  <2>3. charts[i] \in ChartBlocks
    BY DEF BlocksInv
  <2> QED BY <2>1, <2>2, <2>3
<1> QED BY <1>2, <1>3 DEF ChartsAreFound

LEMMA ChartIsFoundAfter == BlocksInv' => ChartsAreFound'
BY ChartIsFound, PTL

\* Names with different numbers differ.
LEMMA Numbered ==
  ASSUME NEW S, NEW base \in Seq(S), NEW j \in Nat, NEW k \in Nat, base \o <<j>> = base \o <<k>>
  PROVE  j = k
<1>1. (base \o <<j>>)[Len(base) + 1] = j /\ (base \o <<k>>)[Len(base) + 1] = k
  OBVIOUS
<1> QED BY <1>1

\* More numbers are tried than there are windows.
LEMMA TooMany ==
  ASSUME NEW L \in Nat, NEW n \in Nat, NEW f \in [L + 1..L + n + 1 -> 1..n]
  PROVE  \E j, k \in L + 1..L + n + 1 : j # k /\ f[j] = f[k]
<1>1. ASSUME NEW a \in Int, NEW b \in Int, b = a + n
      PROVE  IsFiniteSet(a..b) /\ Cardinality(a..b) = n + 1
  <2>1. Cardinality(a..b) = IF a > b THEN 0 ELSE b - a + 1
    BY FS_Interval
  <2> QED BY <1>1, <2>1, FS_Interval
<1>2. IsFiniteSet(1..n) /\ Cardinality(1..n) = n
  <2>1. Cardinality(1..n) = IF 1 > n THEN 0 ELSE n - 1 + 1
    BY FS_Interval
  <2> QED BY <2>1, FS_Interval
<1> DEFINE D == L + 1..L + n + 1
<1>3. IsFiniteSet(D) /\ Cardinality(D) = n + 1
  <2>1. L + 1 \in Int /\ L + n + 1 \in Int /\ L + n + 1 = (L + 1) + n
    OBVIOUS
  <2> QED BY <1>1, <2>1
<1>4. f \in [D -> 1..n] /\ Cardinality(1..n) < Cardinality(D)
  BY <1>2, <1>3
<1> HIDE DEF D
<1>5. \E x, y \in D : x # y /\ f[x] = f[y]
  BY <1>2, <1>3, <1>4, FS_PigeonHole, Zenon
<1> QED BY <1>5 DEF D

\* The number that is appended to the name of a window makes it a new one.
LEMMA FreshName ==
  ASSUME BlocksInv, NEW S, NEW base \in Seq(S)
  PROVE  FreshNumber(base) \in Nat /\ base \o <<FreshNumber(base)>> \notin WindowNames
<1> DEFINE L == lastWindowId
           n == Len(chartWindows)
           Free == {k \in L + 1..L + n + 1 : base \o <<k>> \notin WindowNames}
<1>1. L \in Nat /\ n \in Nat /\ DOMAIN chartWindows = 1..n
  BY DEF BlocksInv
<1>2. Free # {}
  <2> SUFFICES ASSUME Free = {} PROVE FALSE
    OBVIOUS
  <2>1. \A k \in L + 1..L + n + 1 : \E i \in 1..n : chartWindows[i].name = base \o <<k>>
    BY <1>1 DEF WindowNames
  <2> DEFINE f == [k \in L + 1..L + n + 1 |-> CHOOSE i \in 1..n : chartWindows[i].name = base \o <<k>>]
  <2>2. f \in [L + 1..L + n + 1 -> 1..n] /\ \A k \in L + 1..L + n + 1 : chartWindows[f[k]].name = base \o <<k>>
    BY <2>1
  <2> HIDE DEF f, L, n
  <2>4. PICK j, k \in L + 1..L + n + 1 : j # k /\ f[j] = f[k]
    BY <1>1, <2>2, TooMany
  <2>5. j \in Nat /\ k \in Nat
    BY <1>1
  <2>6. base \o <<j>> = base \o <<k>>
    BY <2>2, <2>4, Zenon
  <2>7. j = k
    BY <2>5, <2>6, Numbered, Zenon
  <2> QED BY <2>4, <2>7
<1>3. Free \in SUBSET Nat
  BY <1>1
<1>4. PICK k \in Free : \A l \in Free : k <= l
  <2> HIDE DEF Free
  <2> QED BY <1>2, <1>3, Least
<1> DEFINE P(m) == /\ base \o <<m>> \notin WindowNames
                   /\ \A j \in L + 1..m - 1 : base \o <<j>> \in WindowNames
<1>5. P(k) /\ k \in L + 1..L + n + 1
  BY <1>1, <1>4
<1>6. FreshNumber(base) = IF base \o <<0>> \notin WindowNames THEN 0
                          ELSE CHOOSE m \in L + 1..L + n + 1 : P(m)
  BY DEF FreshNumber
<1> HIDE DEF P
<1>7. P(CHOOSE m \in L + 1..L + n + 1 : P(m)) /\ (CHOOSE m \in L + 1..L + n + 1 : P(m)) \in L + 1..L + n + 1
  BY <1>5, Zenon
<1>8. CASE base \o <<0>> \notin WindowNames
  BY <1>6, <1>8
<1>9. CASE base \o <<0>> \in WindowNames
  <2> DEFINE m == FreshNumber(base)
  <2>1. P(m) /\ m \in L + 1..L + n + 1
    BY <1>6, <1>7, <1>9
  <2>2. m \in Nat
    <3> HIDE DEF m, L, n
    <3> QED BY <1>1, <2>1
  <2> QED BY <2>1, <2>2 DEF P
<1> QED BY <1>8, <1>9

\* The chart of a window, before the step and after it.
LEMMA FoundBefore ==
  ASSUME BlocksInv, NEW i \in DOMAIN chartWindows, NEW k \in DOMAIN charts,
         chartWindows[i].block = charts[k].id
  PROVE  ChartBefore(i) = charts[k]
BY FoundByNumber DEF ChartBefore, Chart, BlocksInv

LEMMA FoundAfter ==
  ASSUME BlocksInv', NEW i \in DOMAIN chartWindows', NEW k \in DOMAIN charts',
         chartWindows'[i].block = charts'[k].id
  PROVE  ChartAfter(i) = charts'[k]
BY FoundByNumber DEF ChartAfter, BlocksInv

\* The names of a chart change.
LEMMA NamesChange ==
  ASSUME BlocksInv, NEW id \in ChartIds, NEW N \in SUBSET SignalNames,
         charts' = WithNames(id, N),
         UNCHANGED <<chartWindows, chartCounter, lastWindowId, lastBlockId>>
  PROVE  /\ BlocksInv' /\ ChartIds' = ChartIds
         /\ DOMAIN charts' = DOMAIN charts
         /\ \A k \in DOMAIN charts :
              charts'[k] = IF charts[k].id = id THEN [charts[k] EXCEPT !.names = N] ELSE charts[k]
<1>0. charts \in Seq(ChartBlocks) /\ ChartBlocks' = ChartBlocks
  BY DEF BlocksInv, ChartBlocks
<1>1. DOMAIN charts' = DOMAIN charts /\ DOMAIN charts = 1..Len(charts) /\ Len(charts) \in Nat
  BY <1>0 DEF WithNames
<1>2. \A k \in DOMAIN charts :
        charts'[k] = IF charts[k].id = id THEN [charts[k] EXCEPT !.names = N] ELSE charts[k]
  BY <1>0 DEF WithNames
<1>3. \A k \in DOMAIN charts : charts[k] \in ChartBlocks
  BY <1>0
<1>4. \A k \in DOMAIN charts : charts'[k] \in ChartBlocks /\ charts'[k].id = charts[k].id
  BY <1>2, <1>3 DEF ChartBlocks
<1>5. charts' \in Seq(ChartBlocks)
  <2>1. charts' = [k \in 1..Len(charts) |-> charts'[k]]
    BY <1>0 DEF WithNames
  <2> QED BY <1>1, <1>4, <2>1
<1>6. ChartIds' = ChartIds
  BY <1>1, <1>4 DEF ChartIds
<1>7. \A i, j \in DOMAIN charts' : i # j => charts'[i].id # charts'[j].id
  BY <1>1, <1>4 DEF BlocksInv
<1>8. WindowNames' = WindowNames
  BY DEF WindowNames
<1> QED BY <1>0, <1>1, <1>2, <1>5, <1>6, <1>7, <1>8 DEF BlocksInv

\* A chart and its window are appended.
LEMMA ChartIsAdded ==
  ASSUME BlocksInv, NEW type \in ChartTypes, NEW N \in SUBSET SignalNames,
         NEW S, NEW base \in Seq(S), AddChart(type, N, base), chartCounter' \in Nat
  PROVE  /\ BlocksInv' /\ ChartIds' = ChartIds \union {lastBlockId + 1} /\ lastBlockId' = lastBlockId + 1
         /\ Len(charts') = Len(charts) + 1 /\ Len(chartWindows') = Len(chartWindows) + 1
         /\ \A k \in DOMAIN charts : k \in DOMAIN charts' /\ charts'[k] = charts[k]
         /\ \A i \in DOMAIN chartWindows : chartWindows'[i] = chartWindows[i]
         /\ \A i \in DOMAIN chartWindows : chartWindows'[Len(chartWindows) + 1].name # chartWindows[i].name
<1> DEFINE new == [id |-> lastBlockId + 1, type |-> type, names |-> N]
           name == base \o <<FreshNumber(base)>>
           win == [name |-> name, block |-> lastBlockId + 1]
           n == Len(charts)
           m == Len(chartWindows)
           W == [name : WindowNames, block : ChartIds]
           V == [name : WindowNames \union {name}, block : ChartIds \union {lastBlockId + 1}]
           B == [id : 1..lastBlockId + 1, type : ChartTypes, names : SUBSET SignalNames]
<1>1. /\ lastBlockId' = lastBlockId + 1 /\ charts' = Append(charts, new)
      /\ chartWindows' = Append(chartWindows, win)
      /\ lastWindowId' \in Nat /\ name \notin WindowNames
  BY FreshName DEF AddChart, BlocksInv
<1>2. /\ charts \in Seq(ChartBlocks) /\ chartWindows \in Seq(W) /\ lastBlockId \in Nat
  BY DEF BlocksInv
<1>3. charts \in Seq(B) /\ new \in B /\ chartWindows \in Seq(V) /\ win \in V
  <2>1. ChartBlocks \subseteq B /\ W \subseteq V
    <3>1. 1..lastBlockId \subseteq 1..lastBlockId + 1
      BY <1>2
    <3> QED BY <3>1 DEF ChartBlocks
  <2>2. \A i \in 1..n : charts[i] \in B
    BY <1>2, <2>1
  <2>3. \A i \in 1..m : chartWindows[i] \in V
    <3> HIDE DEF V, W
    <3> QED BY <1>2, <2>1
  <2>4. charts \in Seq(B) /\ chartWindows \in Seq(V)
    <3> HIDE DEF B, V, W
    <3> QED BY <1>2, <2>2, <2>3
  <2> QED BY <1>2, <2>4
<1> HIDE DEF new, win, name, W, V, B
<1>4. /\ n \in Nat /\ DOMAIN charts = 1..n /\ m \in Nat /\ DOMAIN chartWindows = 1..m
  BY <1>2
<1>5. /\ charts' \in Seq(B) /\ DOMAIN charts' = 1..n + 1 /\ Len(charts') = n + 1
      /\ \A k \in 1..n : charts'[k] = charts[k]
      /\ charts'[n + 1] = new
  BY <1>1, <1>3
<1>6. /\ chartWindows' \in Seq(V) /\ DOMAIN chartWindows' = 1..m + 1 /\ Len(chartWindows') = m + 1
      /\ \A i \in 1..m : chartWindows'[i] = chartWindows[i]
      /\ chartWindows'[m + 1] = win
  BY <1>1, <1>3
<1> HIDE DEF n, m
<1>7. ChartIds' = ChartIds \union {lastBlockId + 1}
  <2>1. new.id = lastBlockId + 1
    BY DEF new
  <2> QED BY <1>4, <1>5, <2>1 DEF ChartIds
<1>8. WindowNames' = WindowNames \union {name}
  <2>1. win.name = name
    BY DEF win
  <2> QED BY <1>4, <1>6, <2>1 DEF WindowNames
<1>9. ChartBlocks' = B
  BY <1>1 DEF B, ChartBlocks
<1>10. \A k \in 1..n : charts[k].id \in 1..lastBlockId
  <2>1. \A k \in 1..n : charts[k] \in ChartBlocks
    BY <1>2, <1>4
  <2> QED BY <2>1 DEF ChartBlocks
<1>11. \A i, j \in DOMAIN charts' : i # j => charts'[i].id # charts'[j].id
  <2>1. \A k \in 1..n : charts[k].id # new.id
    BY <1>2, <1>10 DEF new
  <2>2. \A i, j \in 1..n : i # j => charts[i].id # charts[j].id
    BY <1>4 DEF BlocksInv
  <2> QED BY <1>4, <1>5, <2>1, <2>2
<1>12. \A i \in 1..m : chartWindows[i].name # win.name /\ chartWindows[i].block # win.block
  <2>1. \A i \in 1..m : chartWindows[i].name \in WindowNames /\ chartWindows[i].block \in ChartIds
    <3>1. \A i \in 1..m : chartWindows[i] \in W
      BY <1>2, <1>4
    <3> QED BY <3>1 DEF W
  <2>2. lastBlockId + 1 \notin ChartIds
    BY <1>2, <1>4, <1>10 DEF ChartIds
  <2> QED BY <1>1, <2>1, <2>2 DEF win
<1>13. \A i, j \in DOMAIN chartWindows' :
         i # j => /\ chartWindows'[i].name # chartWindows'[j].name
                  /\ chartWindows'[i].block # chartWindows'[j].block
  <2>1. \A i, j \in 1..m : i # j => /\ chartWindows[i].name # chartWindows[j].name
                                    /\ chartWindows[i].block # chartWindows[j].block
    BY <1>4 DEF BlocksInv
  <2> QED BY <1>4, <1>6, <1>12, <2>1
<1>14. {chartWindows'[i].block : i \in DOMAIN chartWindows'} = ChartIds'
  <2>1. {chartWindows[i].block : i \in 1..m} = ChartIds
    BY <1>4 DEF BlocksInv
  <2>2. win.block = lastBlockId + 1
    BY DEF win
  <2> QED BY <1>4, <1>6, <1>7, <2>1, <2>2
<1>15. BlocksInv'
  <2>1. V = [name : WindowNames', block : ChartIds']
    BY <1>7, <1>8 DEF V
  <2>2. charts' \in Seq(ChartBlocks') /\ chartWindows' \in Seq([name : WindowNames', block : ChartIds'])
    BY <1>5, <1>6, <1>9, <2>1, Zenon
  <2>3. lastBlockId' \in Nat
    BY <1>1, <1>2
  <2> QED BY <1>1, <1>11, <1>13, <1>14, <2>2, <2>3, Zenon DEF BlocksInv
<1>16. \A i \in DOMAIN chartWindows : chartWindows'[m + 1].name # chartWindows[i].name
  BY <1>4, <1>6, <1>12
<1> QED BY <1>1, <1>4, <1>5, <1>6, <1>7, <1>15, <1>16 DEF n, m

\* f tells where the elements of r come from, the places K of s.
Takes(r, s, K, f) ==
  /\ f \in [DOMAIN r -> K]
  /\ \A i \in DOMAIN r : r[i] = s[f[i]]
  /\ \A i, j \in DOMAIN r : i # j => f[i] # f[j]
  /\ \A k \in K : \E i \in DOMAIN r : f[i] = k

\* What is selected of a sequence, by its places.
LEMMA SelectedPlaces ==
  ASSUME NEW S, NEW s \in Seq(S), NEW K \in SUBSET (DOMAIN s)
  PROVE  Selected(s, K) \in Seq(S) /\ \E f : Takes(Selected(s, K), s, K, f)
<1> DEFINE c == Cardinality(K)
           f == Ascending(K)
<1>1. DOMAIN s = 1..Len(s) /\ Len(s) \in Nat
  OBVIOUS
<1>2. /\ c \in Nat /\ f \in [1..c -> K] /\ \A k \in K : \E i \in 1..c : f[i] = k
      /\ \A i, j \in 1..c : i < j => f[i] < f[j]
  BY <1>1, AscendingOrder
<1>3. Selected(s, K) = [i \in 1..c |-> s[f[i]]]
  BY DEF Selected
<1>4. Selected(s, K) \in Seq(S)
  BY SelectedIsSeq
<1> HIDE DEF f, c
<1>5. \A i, j \in 1..c : i # j => f[i] # f[j]
  <2>1. ASSUME NEW i \in 1..c, NEW j \in 1..c, i < j PROVE f[i] # f[j]
    <3>1. f[i] \in Nat /\ f[j] \in Nat /\ f[i] < f[j]
      BY <1>1, <1>2, <2>1
    <3> QED BY <3>1
  <2> QED BY <1>2, <2>1
<1>6. DOMAIN Selected(s, K) = 1..c
  BY <1>3
<1>7. \A i \in 1..c : Selected(s, K)[i] = s[f[i]]
  BY <1>3
<1>8. Takes(Selected(s, K), s, K, f)
  BY <1>2, <1>5, <1>6, <1>7 DEF Takes
<1> QED BY <1>4, <1>8

\* The charts r are those that remain without ids.
Remain(r, ids) ==
  /\ r \in Seq(ChartBlocks)
  /\ \A i, j \in DOMAIN r : i # j => r[i].id # r[j].id
  /\ \A i \in DOMAIN r : \E k \in DOMAIN charts : r[i] = charts[k] /\ charts[k].id \notin ids
  /\ \A k \in DOMAIN charts : charts[k].id \notin ids => \E i \in DOMAIN r : r[i] = charts[k]
  /\ {r[i].id : i \in DOMAIN r} = ChartIds \ ids

\* What is left of the charts without ids.
LEMMA ChartsStay ==
  ASSUME BlocksInv, NEW ids, NEW r, r = Selected(charts, {i \in DOMAIN charts : charts[i].id \notin ids})
  PROVE  Remain(r, ids)
<1> DEFINE K == {i \in DOMAIN charts : charts[i].id \notin ids}
<1>1. charts \in Seq(ChartBlocks) /\ \A i, j \in DOMAIN charts : i # j => charts[i].id # charts[j].id
  BY DEF BlocksInv
<1>2. r \in Seq(ChartBlocks) /\ \E f : Takes(r, charts, K, f)
  <2>1. K \in SUBSET (DOMAIN charts) /\ r = Selected(charts, K)
    OBVIOUS
  <2> HIDE DEF K
  <2> QED BY <1>1, <2>1, SelectedPlaces
<1>3. PICK f : Takes(r, charts, K, f)
  BY <1>2
<1>4. /\ f \in [DOMAIN r -> K]
      /\ \A i \in DOMAIN r : r[i] = charts[f[i]]
      /\ \A i, j \in DOMAIN r : i # j => f[i] # f[j]
      /\ \A k \in K : \E i \in DOMAIN r : f[i] = k
  BY <1>3 DEF Takes
<1>5. \A i \in DOMAIN r : f[i] \in DOMAIN charts /\ charts[f[i]].id \notin ids
  BY <1>4
<1>6. \A k \in DOMAIN charts : charts[k].id \notin ids => k \in K
  OBVIOUS
<1> HIDE DEF K
<1>7. \A k \in DOMAIN charts : charts[k].id \notin ids => \E i \in DOMAIN r : r[i] = charts[k]
  BY <1>4, <1>6
<1>8. \A i, j \in DOMAIN r : i # j => r[i].id # r[j].id
  BY <1>1, <1>4, <1>5
<1>9. {r[i].id : i \in DOMAIN r} = ChartIds \ ids
  <2>1. \A i \in DOMAIN r : r[i].id \in ChartIds \ ids
    BY <1>4, <1>5 DEF ChartIds
  <2>2. \A id \in ChartIds \ ids : \E i \in DOMAIN r : r[i].id = id
    BY <1>7 DEF ChartIds
  <2> QED BY <2>1, <2>2
<1>10. \A i \in DOMAIN r : \E k \in DOMAIN charts : r[i] = charts[k] /\ charts[k].id \notin ids
  BY <1>4, <1>5
<1> QED BY <1>2, <1>7, <1>8, <1>9, <1>10 DEF Remain

\* Charts and their windows are removed (deleteChart).
LEMMA ChartsAreRemoved ==
  ASSUME BlocksInv, NEW ids, DeleteCharts(ids), UNCHANGED <<chartCounter, lastWindowId, lastBlockId>>
  PROVE  /\ BlocksInv' /\ ChartIds' = ChartIds \ ids
         /\ \A k \in DOMAIN charts' : \E l \in DOMAIN charts : charts'[k] = charts[l]
         /\ \A l \in DOMAIN charts : charts[l].id \notin ids => \E k \in DOMAIN charts' : charts'[k] = charts[l]
         /\ \A i \in DOMAIN chartWindows' :
              \E j \in DOMAIN chartWindows : chartWindows'[i] = chartWindows[j]
<1> DEFINE W == [name : WindowNames, block : ChartIds]
           K == {i \in DOMAIN chartWindows : chartWindows[i].block \notin ids}
<1>1. /\ charts' \in Seq(ChartBlocks)
      /\ \A i, j \in DOMAIN charts' : i # j => charts'[i].id # charts'[j].id
      /\ \A i \in DOMAIN charts' : \E k \in DOMAIN charts : charts'[i] = charts[k] /\ charts[k].id \notin ids
      /\ \A k \in DOMAIN charts : charts[k].id \notin ids => \E i \in DOMAIN charts' : charts'[i] = charts[k]
      /\ {charts'[i].id : i \in DOMAIN charts'} = ChartIds \ ids
  <2>1. charts' = Selected(charts, {i \in DOMAIN charts : charts[i].id \notin ids})
    BY DEF DeleteCharts
  <2>2. Remain(charts', ids)
    BY <2>1, ChartsStay
  <2> QED BY <2>2 DEF Remain
<1>2. chartWindows \in Seq(W)
  BY DEF BlocksInv
<1>3. chartWindows' = Selected(chartWindows, K) /\ K \in SUBSET (DOMAIN chartWindows)
  BY DEF DeleteCharts
<1>7. \A k \in DOMAIN chartWindows : chartWindows[k].block \notin ids => k \in K
  OBVIOUS
<1>0. \A k \in K : chartWindows[k].block \notin ids
  OBVIOUS
<1> HIDE DEF K, W
<1>4. chartWindows' \in Seq(W) /\ \E f : Takes(chartWindows', chartWindows, K, f)
  BY <1>2, <1>3, SelectedPlaces
<1>14. PICK f : Takes(chartWindows', chartWindows, K, f)
  BY <1>4
<1>5. /\ f \in [DOMAIN chartWindows' -> K]
      /\ \A i \in DOMAIN chartWindows' : chartWindows'[i] = chartWindows[f[i]]
      /\ \A i, j \in DOMAIN chartWindows' : i # j => f[i] # f[j]
      /\ \A k \in K : \E i \in DOMAIN chartWindows' : f[i] = k
  BY <1>14 DEF Takes
<1>6. \A i \in DOMAIN chartWindows' : f[i] \in DOMAIN chartWindows /\ chartWindows[f[i]].block \notin ids
  BY <1>0, <1>3, <1>5
<1>8. ChartIds' = ChartIds \ ids
  BY <1>1 DEF ChartIds
<1>9. {chartWindows'[i].block : i \in DOMAIN chartWindows'} = ChartIds'
  <2>1. {chartWindows[i].block : i \in DOMAIN chartWindows} = ChartIds
    BY DEF BlocksInv
  <2> QED BY <1>5, <1>6, <1>7, <1>8, <2>1
<1>10. \A i, j \in DOMAIN chartWindows' :
         i # j => /\ chartWindows'[i].name # chartWindows'[j].name
                  /\ chartWindows'[i].block # chartWindows'[j].block
  <2>1. \A i, j \in DOMAIN chartWindows : i # j => /\ chartWindows[i].name # chartWindows[j].name
                                                   /\ chartWindows[i].block # chartWindows[j].block
    BY DEF BlocksInv
  <2> QED BY <1>5, <1>6, <2>1
<1>11. chartWindows' \in Seq([name : WindowNames', block : ChartIds'])
  <2> DEFINE V == [name : WindowNames', block : ChartIds']
  <2>1. \A i \in DOMAIN chartWindows' : chartWindows'[i] \in V
    <3>1. \A i \in DOMAIN chartWindows' : chartWindows'[i] \in W
      BY <1>4
    <3>2. \A i \in DOMAIN chartWindows' : chartWindows'[i].name \in WindowNames' /\ chartWindows'[i].block \in ChartIds'
      BY <1>9 DEF WindowNames
    <3> QED BY <3>1, <3>2 DEF W
  <2>2. chartWindows' = [i \in 1..Len(chartWindows') |-> chartWindows'[i]] /\ Len(chartWindows') \in Nat
        /\ DOMAIN chartWindows' = 1..Len(chartWindows')
    BY <1>4
  <2> HIDE DEF V
  <2>3. chartWindows' \in Seq(V)
    BY <2>1, <2>2
  <2> QED BY <2>3 DEF V
<1>12. ChartBlocks' = ChartBlocks
  BY DEF ChartBlocks
<1>13. BlocksInv'
  <2>1. charts' \in Seq(ChartBlocks') /\ lastBlockId' \in Nat /\ chartCounter' \in Nat /\ lastWindowId' \in Nat
    BY <1>1, <1>12 DEF BlocksInv
  <2> QED BY <1>1, <1>9, <1>10, <1>11, <2>1, Zenon DEF BlocksInv
<1> QED BY <1>1, <1>5, <1>6, <1>8, <1>13

\* A chart becomes one of another type, with the same signals in the same window.
LEMMA ChartIsReplaced ==
  ASSUME BlocksInv, NEW id \in ChartIds, NEW type \in ChartTypes, TransmuteUIWindow(id, type),
         UNCHANGED <<chartCounter, lastWindowId>>
  PROVE  /\ BlocksInv' /\ ChartIds' = (ChartIds \ {id}) \union {lastBlockId + 1}
         /\ lastBlockId' = lastBlockId + 1
         /\ DOMAIN chartWindows' = DOMAIN chartWindows
         /\ \A i \in DOMAIN chartWindows :
              /\ chartWindows'[i].name = chartWindows[i].name
              /\ chartWindows'[i].block = IF chartWindows[i].block = id THEN lastBlockId + 1
                                          ELSE chartWindows[i].block
         /\ \A k \in DOMAIN charts : charts[k].id # id => \E l \in DOMAIN charts' : charts'[l] = charts[k]
         /\ \E l \in DOMAIN charts' :
              charts'[l] = [id |-> lastBlockId + 1, type |-> type, names |-> Chart(id).names]
<1> DEFINE r == Selected(charts, {i \in DOMAIN charts : charts[i].id \notin {id}})
           new == [id |-> lastBlockId + 1, type |-> type, names |-> Chart(id).names]
           B == [id : 1..lastBlockId + 1, type : ChartTypes, names : SUBSET SignalNames]
           n == Len(r)
<1>1. Remain(r, {id})
  BY ChartsStay
<1>2. charts' = Append(r, new) /\ lastBlockId' = lastBlockId + 1 /\ lastBlockId \in Nat
  <2>1. {i \in DOMAIN charts : charts[i].id \notin {id}} = {i \in DOMAIN charts : charts[i].id # id}
    OBVIOUS
  <2> QED BY <2>1 DEF TransmuteUIWindow, BlocksInv
<1>3. Chart(id) \in ChartBlocks
  BY ChartIsFound DEF ChartsAreFound
<1>4. r \in Seq(B) /\ new \in B
  <2>1. ChartBlocks \subseteq B
    <3>1. 1..lastBlockId \subseteq 1..lastBlockId + 1
      BY <1>2
    <3> QED BY <3>1 DEF ChartBlocks
  <2>2. r \in Seq(ChartBlocks)
    BY <1>1 DEF Remain
  <2>3. new \in B
    <3>1. Chart(id).names \in SUBSET SignalNames
      BY <1>3 DEF ChartBlocks
    <3>2. lastBlockId + 1 \in 1..lastBlockId + 1
      BY <1>2
    <3> QED BY <3>1, <3>2
  <2> HIDE DEF B, r, new
  <2>4. \A i \in 1..Len(r) : r[i] \in B
    BY <2>1, <2>2
  <2> QED BY <2>2, <2>3, <2>4
<1> HIDE DEF r, new, B
<1>5. n \in Nat /\ DOMAIN r = 1..n
  BY <1>4
<1>6. /\ charts' \in Seq(B) /\ DOMAIN charts' = 1..n + 1 /\ Len(charts') = n + 1
      /\ \A k \in 1..n : charts'[k] = r[k]
      /\ charts'[n + 1] = new
  BY <1>2, <1>4
<1> HIDE DEF n
<1>7. ChartBlocks' = B
  BY <1>2 DEF ChartBlocks, B
<1>8. new.id = lastBlockId + 1
  BY DEF new
<1>9. {r[i].id : i \in 1..n} = ChartIds \ {id} /\ \A i, j \in 1..n : i # j => r[i].id # r[j].id
  BY <1>1, <1>5 DEF Remain
<1>10. ChartIds' = (ChartIds \ {id}) \union {lastBlockId + 1}
  <2>1. ChartIds' = {charts'[i].id : i \in 1..n + 1}
    BY <1>6 DEF ChartIds
  <2>2. \A i \in 1..n : charts'[i].id = r[i].id
    BY <1>6
  <2>3. charts'[n + 1].id = lastBlockId + 1
    BY <1>6, <1>8
  <2>4. \A i : i \in 1..n + 1 <=> i \in 1..n \/ i = n + 1
    BY <1>5
  <2>5. {charts'[i].id : i \in 1..n + 1} = {r[i].id : i \in 1..n} \union {lastBlockId + 1}
    BY <2>2, <2>3, <2>4
  <2> QED BY <1>9, <2>1, <2>5
<1>11. \A c \in ChartIds : c \in 1..lastBlockId
  BY ChartIsFound DEF ChartsAreFound, ChartBlocks
<1>12. \A i, j \in DOMAIN charts' : i # j => charts'[i].id # charts'[j].id
  <2>1. \A i \in 1..n : r[i].id # lastBlockId + 1
    <3>1. \A i \in 1..n : r[i].id \in 1..lastBlockId
      BY <1>9, <1>11
    <3> QED BY <1>2, <3>1
  <2> QED BY <1>5, <1>6, <1>8, <1>9, <2>1
<1> DEFINE W == [name : WindowNames, block : ChartIds]
<1>13. chartWindows' = Renewed(id) /\ chartWindows \in Seq(W)
  BY DEF TransmuteUIWindow, BlocksInv
<1>14. /\ DOMAIN chartWindows = 1..Len(chartWindows) /\ Len(chartWindows) \in Nat
       /\ \A i \in DOMAIN chartWindows : chartWindows[i] \in W
  <2> HIDE DEF W
  <2> QED BY <1>13
<1>15. DOMAIN chartWindows' = DOMAIN chartWindows
  BY <1>13 DEF Renewed
<1>16. \A i \in DOMAIN chartWindows :
         /\ chartWindows'[i].name = chartWindows[i].name
         /\ chartWindows'[i].block = IF chartWindows[i].block = id THEN lastBlockId + 1
                                     ELSE chartWindows[i].block
         /\ chartWindows'[i] = [name |-> chartWindows'[i].name, block |-> chartWindows'[i].block]
  BY <1>13, <1>14 DEF Renewed
<1>17. \A i \in DOMAIN chartWindows : chartWindows[i].name \in WindowNames /\ chartWindows[i].block \in ChartIds
  BY <1>14
<1> HIDE DEF W
<1>18. \A i, j \in DOMAIN chartWindows' :
         i # j => /\ chartWindows'[i].name # chartWindows'[j].name
                  /\ chartWindows'[i].block # chartWindows'[j].block
  <2>1. \A i, j \in DOMAIN chartWindows : i # j => /\ chartWindows[i].name # chartWindows[j].name
                                                   /\ chartWindows[i].block # chartWindows[j].block
    BY DEF BlocksInv
  <2>2. \A i \in DOMAIN chartWindows : chartWindows[i].block # lastBlockId + 1
    <3>1. \A i \in DOMAIN chartWindows : chartWindows[i].block \in 1..lastBlockId
      BY <1>11, <1>17
    <3> QED BY <1>2, <3>1
  <2> QED BY <1>15, <1>16, <2>1, <2>2
<1>19. WindowNames' = WindowNames
  BY <1>15, <1>16 DEF WindowNames
<1>20. {chartWindows'[i].block : i \in DOMAIN chartWindows'} = ChartIds'
  <2>1. {chartWindows[i].block : i \in DOMAIN chartWindows} = ChartIds
    BY DEF BlocksInv
  <2>2. \A i \in DOMAIN chartWindows : chartWindows'[i].block \in ChartIds'
    BY <1>10, <1>16, <1>17
  <2>3. ASSUME NEW c \in ChartIds' PROVE \E i \in DOMAIN chartWindows : chartWindows'[i].block = c
    <3>1. CASE c \in ChartIds \ {id}
      BY <1>16, <2>1, <3>1
    <3>2. CASE c = lastBlockId + 1
      <4>1. PICK i \in DOMAIN chartWindows : chartWindows[i].block = id
        BY <2>1
      <4> QED BY <1>16, <3>2, <4>1
    <3> QED BY <1>10, <3>1, <3>2
  <2> QED BY <1>15, <2>2, <2>3
<1>21. chartWindows' \in Seq([name : WindowNames', block : ChartIds'])
  <2> DEFINE V == [name : WindowNames', block : ChartIds']
  <2>1. \A i \in DOMAIN chartWindows : chartWindows'[i].name \in WindowNames' /\ chartWindows'[i].block \in ChartIds'
    BY <1>15, <1>16, <1>17, <1>19, <1>20
  <2>2. ASSUME NEW i \in DOMAIN chartWindows PROVE chartWindows'[i] \in V
    <3>1. chartWindows'[i] = [name |-> chartWindows'[i].name, block |-> chartWindows'[i].block]
      BY <1>16
    <3> DEFINE a == chartWindows'[i].name
               b == chartWindows'[i].block
    <3>2. a \in WindowNames' /\ b \in ChartIds' /\ chartWindows'[i] = [name |-> a, block |-> b]
      BY <2>1, <3>1
    <3> HIDE DEF a, b
    <3> QED BY <3>2
  <2>3. chartWindows' = [i \in 1..Len(chartWindows) |-> chartWindows'[i]]
    BY <1>13, <1>14 DEF Renewed
  <2> HIDE DEF V
  <2>4. chartWindows' \in Seq(V)
    BY <1>14, <2>2, <2>3
  <2> QED BY <2>4 DEF V
<1>22. BlocksInv'
  <2>1. charts' \in Seq(ChartBlocks') /\ lastBlockId' \in Nat /\ chartCounter' \in Nat /\ lastWindowId' \in Nat
    BY <1>2, <1>6, <1>7 DEF BlocksInv
  <2> QED BY <1>12, <1>18, <1>20, <1>21, <2>1, Zenon DEF BlocksInv
<1>23. \A k \in DOMAIN charts : charts[k].id # id => \E l \in DOMAIN charts' : charts'[l] = charts[k]
  <2>1. \A k \in DOMAIN charts : charts[k].id \notin {id} => \E i \in DOMAIN r : r[i] = charts[k]
    BY <1>1 DEF Remain
  <2> QED BY <1>5, <1>6, <2>1
<1>24. \E l \in DOMAIN charts' : charts'[l] = new
  BY <1>5, <1>6
<1> QED BY <1>2, <1>10, <1>15, <1>16, <1>22, <1>23, <1>24 DEF new

-----------------------------------------------------------------------------
(* What the windows show before and after a step.                          *)

\* A kept window is there before and after the step under one name.
LEMMA KeptIs ==
  ASSUME NEW p \in KeptWindows
  PROVE  /\ p[1] \in DOMAIN chartWindows /\ p[2] \in DOMAIN chartWindows'
         /\ chartWindows[p[1]].name = chartWindows'[p[2]].name
BY DEF KeptWindows

\* A window has the place that it had if no window takes its name.
LEMMA KeptPlace ==
  ASSUME BlocksInv, NEW i \in DOMAIN chartWindows, NEW j \in DOMAIN chartWindows,
         chartWindows[i].name = chartWindows[j].name
  PROVE  i = j
BY DEF BlocksInv

\* A window finds its chart, and it is one of the graph.
LEMMA WindowHasChart ==
  ASSUME BlocksInv, NEW i \in DOMAIN chartWindows
  PROVE  /\ chartWindows[i].block \in ChartIds
         /\ \E k \in DOMAIN charts : charts[k].id = chartWindows[i].block
BY DEF BlocksInv, ChartIds

SameCharts == \A p \in KeptWindows : ChartAfter(p[2]) = ChartBefore(p[1])

\* Nothing is lost by windows that keep their charts.
LEMMA SameSignals ==
  ASSUME SameCharts
  PROVE  SignalsStay /\ SignalsStaySupported
BY DEF SameCharts, SignalsStay, SignalsStaySupported

\* Windows keep their charts when another one is appended.
LEMMA AddedStay ==
  ASSUME BlocksInv, BlocksInv',
         Len(chartWindows') = Len(chartWindows) + 1,
         \A k \in DOMAIN charts : k \in DOMAIN charts' /\ charts'[k] = charts[k],
         \A i \in DOMAIN chartWindows : chartWindows'[i] = chartWindows[i],
         \A i \in DOMAIN chartWindows : chartWindows'[Len(chartWindows) + 1].name # chartWindows[i].name
  PROVE  SameCharts
<1> SUFFICES ASSUME NEW p \in KeptWindows PROVE ChartAfter(p[2]) = ChartBefore(p[1])
  BY DEF SameCharts
<1> DEFINE i == p[1]
           j == p[2]
           n == Len(chartWindows)
<1>1. i \in DOMAIN chartWindows /\ j \in DOMAIN chartWindows' /\ chartWindows[i].name = chartWindows'[j].name
  BY KeptIs
<1>2. n \in Nat /\ DOMAIN chartWindows = 1..n /\ DOMAIN chartWindows' = 1..n + 1
  BY DEF BlocksInv
<1> HIDE DEF i, j, n
<1>3. j # n + 1
  BY <1>1 DEF n
<1>4. j \in DOMAIN chartWindows
  BY <1>1, <1>2, <1>3
<1>5. j = i
  BY <1>1, <1>4, KeptPlace
<1>6. PICK k \in DOMAIN charts : charts[k].id = chartWindows[i].block
  BY <1>1, WindowHasChart
<1>7. ChartBefore(i) = charts[k]
  BY <1>1, <1>6, FoundBefore
<1>8. k \in DOMAIN charts' /\ charts'[k] = charts[k] /\ chartWindows'[i] = chartWindows[i]
  BY <1>1
<1>9. ChartAfter(i) = charts'[k]
  BY <1>1, <1>5, <1>6, <1>8, FoundAfter
<1> QED BY <1>5, <1>7, <1>8, <1>9 DEF i, j

\* Windows that remain keep their charts when others are removed.
LEMMA RemovedStay ==
  ASSUME BlocksInv, BlocksInv',
         \A k \in DOMAIN charts' : \E l \in DOMAIN charts : charts'[k] = charts[l],
         \A i \in DOMAIN chartWindows' : \E j \in DOMAIN chartWindows : chartWindows'[i] = chartWindows[j]
  PROVE  SameCharts
<1> SUFFICES ASSUME NEW p \in KeptWindows PROVE ChartAfter(p[2]) = ChartBefore(p[1])
  BY DEF SameCharts
<1> DEFINE i == p[1]
           j == p[2]
<1>1. i \in DOMAIN chartWindows /\ j \in DOMAIN chartWindows' /\ chartWindows[i].name = chartWindows'[j].name
  BY KeptIs
<1> HIDE DEF i, j
<1>2. PICK m \in DOMAIN chartWindows : chartWindows'[j] = chartWindows[m]
  BY <1>1
<1>3. m = i
  BY <1>1, <1>2, KeptPlace
<1>4. PICK k \in DOMAIN charts' : charts'[k].id = chartWindows'[j].block
  <2>1. {chartWindows'[o].block : o \in DOMAIN chartWindows'} = ChartIds'
    BY DEF BlocksInv
  <2>2. chartWindows'[j].block \in ChartIds'
    BY <1>1, <2>1
  <2> QED BY <2>2 DEF ChartIds
<1>5. PICK l \in DOMAIN charts : charts'[k] = charts[l]
  OBVIOUS
<1>6. ChartAfter(j) = charts'[k]
  BY <1>1, <1>4, FoundAfter
<1>7. ChartBefore(i) = charts[l]
  BY <1>1, <1>2, <1>3, <1>4, <1>5, FoundBefore
<1> QED BY <1>5, <1>6, <1>7 DEF i, j

\* The window of the chart that is replaced shows what it showed, and the new chart
\* supports it.
LEMMA ReplacedShows ==
  ASSUME BlocksInv, BlocksInv', NEW id \in ChartIds, NEW type,
         SignalsIn(Chart(id).names) \subseteq supportedSignals(type),
         DOMAIN chartWindows' = DOMAIN chartWindows,
         \A i \in DOMAIN chartWindows :
              /\ chartWindows'[i].name = chartWindows[i].name
              /\ chartWindows'[i].block = IF chartWindows[i].block = id THEN lastBlockId + 1
                                          ELSE chartWindows[i].block,
         \A k \in DOMAIN charts : charts[k].id # id => \E l \in DOMAIN charts' : charts'[l] = charts[k],
         \E l \in DOMAIN charts' :
              charts'[l] = [id |-> lastBlockId + 1, type |-> type, names |-> Chart(id).names]
  PROVE  SignalsStay /\ SignalsStaySupported
<1>1. ASSUME NEW p \in KeptWindows
      PROVE  \/ ChartAfter(p[2]) = ChartBefore(p[1])
             \/ /\ ChartAfter(p[2]).names = ChartBefore(p[1]).names
                /\ SignalsIn(ChartAfter(p[2]).names) \subseteq supportedSignals(ChartAfter(p[2]).type)
  <2> DEFINE i == p[1]
             j == p[2]
  <2>1. i \in DOMAIN chartWindows /\ j \in DOMAIN chartWindows' /\ chartWindows[i].name = chartWindows'[j].name
    BY KeptIs
  <2> HIDE DEF i, j
  <2>2. chartWindows[i].name = chartWindows[j].name
    BY <2>1
  <2>3. i = j
    BY <2>1, <2>2, KeptPlace
  <2>4. PICK k \in DOMAIN charts : charts[k].id = chartWindows[i].block
    BY <2>1, WindowHasChart
  <2>5. ChartBefore(i) = charts[k]
    BY <2>1, <2>4, FoundBefore
  <2>6. CASE charts[k].id # id
    <3>1. PICK l \in DOMAIN charts' : charts'[l] = charts[k]
      BY <2>6
    <3>2. chartWindows'[i].block = charts'[l].id
      BY <2>1, <2>4, <2>6, <3>1
    <3>3. ChartAfter(i) = charts'[l]
      BY <2>1, <2>3, <3>2, FoundAfter
    <3> QED BY <2>3, <2>5, <3>1, <3>3 DEF i, j
  <2>7. CASE charts[k].id = id
    <3>1. PICK l \in DOMAIN charts' :
              charts'[l] = [id |-> lastBlockId + 1, type |-> type, names |-> Chart(id).names]
      OBVIOUS
    <3>2. chartWindows'[i].block = charts'[l].id
      <4>1. charts'[l].id = lastBlockId + 1
        BY <3>1
      <4>2. chartWindows'[i].block = lastBlockId + 1
        BY <2>1, <2>4, <2>7
      <4> QED BY <4>1, <4>2
    <3>3. ChartAfter(i) = charts'[l]
      BY <2>1, <2>3, <3>2, FoundAfter
    <3>4. Chart(id) = charts[k]
      BY <2>7, ChartIsFound DEF ChartsAreFound
    <3>5. ChartAfter(i).names = Chart(id).names /\ ChartAfter(i).type = type
      BY <3>1, <3>3
    <3>6. ChartBefore(i).names = Chart(id).names
      BY <2>5, <3>4
    <3>7. /\ ChartAfter(i).names = ChartBefore(i).names
          /\ SignalsIn(ChartAfter(i).names) \subseteq supportedSignals(ChartAfter(i).type)
      BY <3>5, <3>6
    <3> QED BY <2>3, <3>7 DEF i, j
  <2> QED BY <2>6, <2>7
<1>2. SignalsStay
  BY <1>1 DEF SignalsStay
<1>3. SignalsStaySupported
  BY <1>1 DEF SignalsStaySupported
<1> QED BY <1>2, <1>3

\* The names of the chart id become N.
LEMMA RenamedShow ==
  ASSUME BlocksInv, BlocksInv', NEW id \in ChartIds, NEW N \in SUBSET SignalNames,
         UNCHANGED chartWindows, DOMAIN charts' = DOMAIN charts,
         \A k \in DOMAIN charts :
              charts'[k] = IF charts[k].id = id THEN [charts[k] EXCEPT !.names = N] ELSE charts[k],
         NEW p \in KeptWindows
  PROVE  /\ chartWindows[p[1]].block \in ChartIds
         /\ ChartBefore(p[1]) = Chart(chartWindows[p[1]].block)
         /\ chartWindows[p[1]].block # id => ChartAfter(p[2]) = ChartBefore(p[1])
         /\ chartWindows[p[1]].block = id =>
              ChartAfter(p[2]).names = N /\ ChartAfter(p[2]).type = ChartBefore(p[1]).type
<1> DEFINE i == p[1]
           j == p[2]
<1>1. i \in DOMAIN chartWindows /\ j \in DOMAIN chartWindows /\ chartWindows[i].name = chartWindows[j].name
  BY KeptIs
<1> HIDE DEF i, j
<1>2. i = j
  BY <1>1, KeptPlace
<1>3. chartWindows[i].block \in ChartIds
  BY <1>1, WindowHasChart
<1>4. PICK k \in DOMAIN charts : charts[k].id = chartWindows[i].block
  BY <1>1, WindowHasChart
<1>5. ChartBefore(i) = charts[k]
  BY <1>1, <1>4, FoundBefore
<1>6. charts[k] \in ChartBlocks
  BY DEF BlocksInv
<1>7. /\ charts'[k].id = charts[k].id /\ charts'[k].type = charts[k].type
      /\ charts[k].id = id => charts'[k].names = N
      /\ charts[k].id # id => charts'[k] = charts[k]
  BY <1>6 DEF ChartBlocks
<1>8. ChartAfter(i) = charts'[k]
  <2>1. chartWindows'[i].block = charts'[k].id
    BY <1>4, <1>7
  <2>2. i \in DOMAIN chartWindows' /\ k \in DOMAIN charts'
    BY <1>1
  <2> QED BY <2>1, <2>2, FoundAfter
<1>9. ChartBefore(i) = Chart(chartWindows[i].block)
  BY DEF ChartBefore
<1>10. /\ chartWindows[i].block # id => ChartAfter(j) = ChartBefore(i)
       /\ chartWindows[i].block = id =>
              ChartAfter(j).names = N /\ ChartAfter(j).type = ChartBefore(i).type
  BY <1>2, <1>4, <1>5, <1>7, <1>8
<1> QED BY <1>3, <1>9, <1>10 DEF i, j

-----------------------------------------------------------------------------
(* What a chart shows, by its number.                                       *)

ShownBy == [id \in ChartIds |-> SignalsIn(Chart(id).names)]

ShownIsOfCharts ==
  /\ DOMAIN ShownBy = ChartIds
  /\ \A k \in DOMAIN charts : charts[k].id \in ChartIds /\ ShownBy[charts[k].id] = SignalsIn(charts[k].names)
  /\ \A id \in ChartIds : \E k \in DOMAIN charts : charts[k].id = id

\* What a chart shows is found by its number.
LEMMA ShownIs == BlocksInv => ShownIsOfCharts
<1> SUFFICES ASSUME BlocksInv PROVE ShownIsOfCharts
  OBVIOUS
<1>1. ChartsAreFound
  BY ChartIsFound
<1>2. \A k \in DOMAIN charts : charts[k].id \in ChartIds /\ Chart(charts[k].id) = charts[k]
  BY <1>1 DEF ChartsAreFound
<1>3. \A id \in ChartIds : \E k \in DOMAIN charts : charts[k].id = id
  BY DEF ChartIds
<1> QED BY <1>2, <1>3 DEF ShownIsOfCharts, ShownBy

LEMMA ShownIsAfter == BlocksInv' => ShownIsOfCharts'
BY ShownIs, PTL

\* A chart that is there after the step as it was before shows the same.
LEMMA StillShown ==
  ASSUME BlocksInv, BlocksInv', NEW k \in DOMAIN charts, NEW l \in DOMAIN charts',
         charts'[l] = charts[k]
  PROVE  /\ charts[k].id \in ChartIds /\ charts[k].id \in ChartIds'
         /\ ShownBy'[charts[k].id] = ShownBy[charts[k].id]
<1>1. ShownIsOfCharts /\ ShownIsOfCharts'
  BY ShownIs, ShownIsAfter
<1>2. charts[k].id \in ChartIds /\ ShownBy[charts[k].id] = SignalsIn(charts[k].names)
  BY <1>1 DEF ShownIsOfCharts
<1>3. charts'[l].id \in ChartIds' /\ ShownBy'[charts'[l].id] = SignalsIn(charts'[l].names)
  BY <1>1 DEF ShownIsOfCharts, SignalsIn
<1> QED BY <1>2, <1>3

\* What the prologue leaves of a chart: all but the signal that was dragged away.
LEMMA NamesLeftAre ==
  ASSUME BlocksInv, NEW id \in ChartIds
  PROVE  /\ Chart(id).names \in SUBSET SignalNames /\ Chart(id).type \in ChartTypes
         /\ NamesLeft(id) \in SUBSET SignalNames
         /\ SignalsIn(NamesLeft(id)) \subseteq ShownBy[id]
         /\ \A s \in ShownBy[id] \ SignalsIn(NamesLeft(id)) : isAcceptedFrom(id) /\ s = dragState.sink
         /\ ShownBy[id] = SignalsIn(Chart(id).names)
         /\ ShownBy[id] \subseteq ChartSignals
         /\ ~isAcceptedFrom(id) => NamesLeft(id) = Chart(id).names
<1> DEFINE N == Chart(id).names
<1>1. Chart(id) \in ChartBlocks
  BY ChartIsFound DEF ChartsAreFound
<1>2. N \in SUBSET SignalNames /\ Chart(id).type \in ChartTypes
  BY <1>1 DEF ChartBlocks
<1>3. ShownBy[id] = SignalsIn(N)
  BY DEF ShownBy
<1> HIDE DEF N
<1>4. NamesLeft(id) = IF isAcceptedFrom(id) THEN N \ NamesOf(dragState.sink) ELSE N
  BY DEF NamesLeft, N
<1>5. NamesLeft(id) \subseteq N
  BY <1>4
<1>6. ASSUME NEW s \in SignalsIn(N) \ SignalsIn(NamesLeft(id))
      PROVE  isAcceptedFrom(id) /\ s = dragState.sink
  <2>1. PICK n \in N : n[1] = s
    BY DEF SignalsIn
  <2>2. n \notin NamesLeft(id)
    BY <2>1 DEF SignalsIn
  <2>3. isAcceptedFrom(id) /\ n \in NamesOf(dragState.sink)
    BY <1>4, <2>1, <2>2
  <2> QED BY <2>1, <2>3 DEF NamesOf
<1>7. SignalsIn(N) \subseteq ChartSignals
  BY <1>2 DEF SignalsIn, SignalNames
<1>8. SignalsIn(NamesLeft(id)) \subseteq SignalsIn(N)
  BY <1>5 DEF SignalsIn
<1>9. ~isAcceptedFrom(id) => NamesLeft(id) = N
  BY <1>4
<1> QED BY <1>2, <1>3, <1>5, <1>6, <1>7, <1>8, <1>9 DEF N

-----------------------------------------------------------------------------
(* The invariant.                                                           *)

GestureTypes ==
  /\ dragState \in [accepted : BOOLEAN, source : 0..lastBlockId, sink : SomeSignal]
  /\ payload \in {NoPayload} \union [sink : ChartSignals, source : 0..lastBlockId]
  /\ transmutation \in {NoTransmutation} \union [id : 1..lastBlockId, type : ChartTypes]
  /\ removals \subseteq 1..lastBlockId
  /\ modal \in BOOLEAN /\ sinkForNewPlot \in SomeSignal
  /\ acted \in 0..2 /\ gestures \in Nat

FrameInv ==
  /\ drawStep \in {"start", "charts", "dialog"} /\ toDraw \in Seq(ChartIds)
  /\ drawStep # "charts" => toDraw = <<>>

NothingAsked == transmutation = NoTransmutation /\ removals = {}

\* What a menu asks for is done before the user's next gesture, and the chart still
\* shows what it showed when its new type was chosen, or less.
RequestsAreFresh ==
  /\ ~NothingAsked => acted = 0 /\ payload = NoPayload
  /\ transmutation.id \in ChartIds =>
       ShownBy[transmutation.id] \subseteq supportedSignals(transmutation.type)

DragIsKnown ==
  payload.source # NoChart =>
    /\ dragState = [accepted |-> FALSE, source |-> payload.source, sink |-> payload.sink]
    /\ payload.source \in ChartIds

\* A signal that was dropped on a chart is shown there until its old chart has given
\* it up, which is before the user's next gesture.
DropIsGivenUp ==
  landed # NoChart =>
    /\ dragState.accepted /\ NothingAsked
    /\ landed \in ChartIds /\ dragState.source \in ChartIds
    /\ acted \in {0, 1}
    /\ acted = 1 => drawStep = "charts" /\ \E i \in DOMAIN toDraw : toDraw[i] = dragState.source
    /\ landed # dragState.source => dragState.sink \in ShownBy[landed]

ChartInv ==
  /\ BlocksInv /\ GestureTypes /\ FrameInv
  /\ RequestsAreFresh /\ DragIsKnown /\ DropIsGivenUp

\* What the prologue changes of a chart is what the user asked for.
LEMMA RenamedStay ==
  ASSUME BlocksInv, BlocksInv', DropIsGivenUp,
         NEW id \in ChartIds, NEW N \in SUBSET SignalNames,
         UNCHANGED chartWindows, DOMAIN charts' = DOMAIN charts,
         \A k \in DOMAIN charts :
              charts'[k] = IF charts[k].id = id THEN [charts[k] EXCEPT !.names = N] ELSE charts[k],
         NamesLeft(id) \subseteq N,
         /\ Chart(id).type # "SurfacePlot"
         /\ SignalsIn(Chart(id).names) \subseteq supportedSignals(Chart(id).type)
         => SignalsIn(N) \subseteq supportedSignals(Chart(id).type)
  PROVE  SignalsStay /\ SignalsStaySupported
<1>1. ASSUME NEW p \in KeptWindows
      PROVE  /\ chartWindows[p[1]].block \in ChartIds
             /\ ChartBefore(p[1]) = Chart(chartWindows[p[1]].block)
             /\ chartWindows[p[1]].block # id => ChartAfter(p[2]) = ChartBefore(p[1])
             /\ chartWindows[p[1]].block = id =>
                  ChartAfter(p[2]).names = N /\ ChartAfter(p[2]).type = ChartBefore(p[1]).type
  BY RenamedShow
<1>2. SignalsStay
  <2> SUFFICES ASSUME NEW p \in KeptWindows,
                      NEW s \in SignalsIn(ChartBefore(p[1]).names) \ SignalsIn(ChartAfter(p[2]).names)
               PROVE  /\ dragState.source = chartWindows[p[1]].block /\ dragState.sink = s
                      /\ landed \in {NoChart, dragState.source} \/ s \in SignalsIn(Chart(landed).names)
    BY DEF SignalsStay
  <2>1. chartWindows[p[1]].block = id
    BY <1>1
  <2>2. s \in SignalsIn(Chart(id).names) /\ s \notin SignalsIn(N)
    BY <1>1, <2>1
  <2>3. s \notin SignalsIn(NamesLeft(id))
    BY <2>2 DEF SignalsIn
  <2>4. isAcceptedFrom(id) /\ s = dragState.sink
    BY <2>2, <2>3, NamesLeftAre
  <2>5. CASE landed \notin {NoChart, dragState.source}
    <3>1. landed \in ChartIds /\ dragState.sink \in ShownBy[landed]
      BY <2>5 DEF DropIsGivenUp
    <3> QED BY <2>1, <2>4, <3>1 DEF ShownBy, isAcceptedFrom
  <2> QED BY <2>1, <2>4, <2>5 DEF isAcceptedFrom
<1>3. SignalsStaySupported
  <2> SUFFICES ASSUME NEW p \in KeptWindows, ChartBefore(p[1]).type # "SurfacePlot",
                      SignalsIn(ChartBefore(p[1]).names) \subseteq supportedSignals(ChartBefore(p[1]).type)
               PROVE  SignalsIn(ChartAfter(p[2]).names) \subseteq supportedSignals(ChartAfter(p[2]).type)
    BY DEF SignalsStaySupported
  <2>1. CASE chartWindows[p[1]].block # id
    BY <1>1, <2>1
  <2>2. CASE chartWindows[p[1]].block = id
    <3>1. ChartBefore(p[1]) = Chart(id) /\ ChartAfter(p[2]).names = N /\ ChartAfter(p[2]).type = Chart(id).type
      BY <1>1, <2>2
    <3> QED BY <3>1
  <2> QED BY <2>1, <2>2
<1> QED BY <1>2, <1>3

-----------------------------------------------------------------------------
(* The steps.                                                               *)

StepIsRight == ChartInv' /\ (charts' # charts => SignalsStay /\ SignalsStaySupported)

\* The chart id is drawn, and lists the names N afterwards.
Drawn(id, N) ==
  /\ BlocksInv' /\ FrameInv' /\ SignalsStay /\ SignalsStaySupported
  /\ ChartIds' = ChartIds /\ lastBlockId' = lastBlockId
  /\ \A c \in ChartIds : ShownBy'[c] = IF c = id THEN SignalsIn(N) ELSE ShownBy[c]
  /\ \A c : c # id /\ (\E i \in DOMAIN toDraw : toDraw[i] = c) => \E i \in DOMAIN toDraw' : toDraw'[i] = c

\* Drawing a chart takes it from those that are to be drawn, and no other.
LEMMA ToDrawNext ==
  ASSUME FrameInv, NEW id, DrawPrologue(id), ChartIds \subseteq ChartIds'
  PROVE  /\ FrameInv'
         /\ \A c : c # id /\ (\E i \in DOMAIN toDraw : toDraw[i] = c)
                     => \E i \in DOMAIN toDraw' : toDraw'[i] = c
<1>1. /\ toDraw \in Seq(ChartIds) /\ toDraw # <<>> /\ toDraw' = Tail(toDraw) /\ Head(toDraw) = id
      /\ drawStep = "charts" /\ drawStep' = "charts"
  BY DEF FrameInv, DrawPrologue
<1>2. toDraw' \in Seq(ChartIds) /\ Len(toDraw') = Len(toDraw) - 1 /\ Len(toDraw) \in Nat \ {0}
      /\ DOMAIN toDraw = 1..Len(toDraw) /\ toDraw[1] = id
      /\ \A i \in 1..Len(toDraw) - 1 : toDraw'[i] = toDraw[i + 1]
  BY <1>1
<1>3. DOMAIN toDraw' = 1..Len(toDraw')
  BY <1>2
<1>4. toDraw' \in Seq(ChartIds')
  <2>1. \A i \in 1..Len(toDraw') : toDraw'[i] \in ChartIds'
    BY <1>2, <1>3
  <2> QED BY <1>2, <2>1
<1>5. ASSUME NEW c, c # id, NEW i \in DOMAIN toDraw, toDraw[i] = c
      PROVE  \E j \in DOMAIN toDraw' : toDraw'[j] = c
  <2>1. i # 1 /\ i \in 1..Len(toDraw)
    BY <1>2, <1>5
  <2>2. i - 1 \in 1..Len(toDraw) - 1 /\ (i - 1) + 1 = i
    BY <1>2, <2>1
  <2>3. toDraw'[i - 1] = c /\ i - 1 \in DOMAIN toDraw'
    BY <1>2, <1>3, <1>5, <2>2
  <2> QED BY <2>3
<1>6. FrameInv'
  BY <1>1, <1>4 DEF FrameInv
<1> QED BY <1>5, <1>6

\* Drawing a chart changes its names and nothing else of the charts.
LEMMA DrawnIs ==
  ASSUME ChartInv, NEW id \in ChartIds, DrawPrologue(id), NEW N \in SUBSET SignalNames,
         charts' = WithNames(id, N),
         UNCHANGED <<chartWindows, chartCounter, lastWindowId, lastBlockId>>,
         NamesLeft(id) \subseteq N,
         /\ Chart(id).type # "SurfacePlot"
         /\ SignalsIn(Chart(id).names) \subseteq supportedSignals(Chart(id).type)
         => SignalsIn(N) \subseteq supportedSignals(Chart(id).type)
  PROVE  Drawn(id, N)
<1>0. BlocksInv /\ FrameInv /\ DropIsGivenUp
  BY DEF ChartInv
<1>1. /\ BlocksInv' /\ ChartIds' = ChartIds
      /\ DOMAIN charts' = DOMAIN charts
      /\ \A k \in DOMAIN charts :
           charts'[k] = IF charts[k].id = id THEN [charts[k] EXCEPT !.names = N] ELSE charts[k]
  BY <1>0, NamesChange
<1>2. SignalsStay /\ SignalsStaySupported
  <2>1. UNCHANGED chartWindows
    OBVIOUS
  <2> QED BY <1>0, <1>1, <2>1, RenamedStay
<1>3. /\ FrameInv'
      /\ \A c : c # id /\ (\E i \in DOMAIN toDraw : toDraw[i] = c)
                     => \E i \in DOMAIN toDraw' : toDraw'[i] = c
  BY <1>0, <1>1, ToDrawNext
<1>4. ASSUME NEW c \in ChartIds PROVE ShownBy'[c] = IF c = id THEN SignalsIn(N) ELSE ShownBy[c]
  <2>1. ShownIsOfCharts /\ ShownIsOfCharts'
    BY <1>0, <1>1, ShownIs, ShownIsAfter
  <2>2. PICK k \in DOMAIN charts : charts[k].id = c
    BY <2>1 DEF ShownIsOfCharts
  <2>3. ShownBy[c] = SignalsIn(charts[k].names)
    BY <2>1, <2>2 DEF ShownIsOfCharts
  <2>4. charts[k] \in ChartBlocks
    BY <1>0 DEF BlocksInv
  <2>5. charts'[k].id = c /\ charts'[k].names = IF c = id THEN N ELSE charts[k].names
    BY <1>1, <2>2, <2>4 DEF ChartBlocks
  <2>6. ShownBy'[c] = SignalsIn(charts'[k].names)
    BY <1>1, <2>1, <2>5 DEF ShownIsOfCharts, SignalsIn
  <2> QED BY <2>3, <2>5, <2>6
<1> QED BY <1>1, <1>2, <1>3, <1>4 DEF Drawn

\* When the user may act, nothing is asked for and no drop is to be completed; what is
\* dragged is a signal.
LEMMA Settled ==
  ASSUME ChartInv
  PROVE  /\ acted = 2 => NothingAsked /\ landed = NoChart
         /\ payload # NoPayload => NothingAsked
         /\ NoChart \notin ChartIds /\ ChartIds \subseteq 1..lastBlockId /\ lastBlockId \in Nat
         /\ payload # NoPayload => payload.sink \in ChartSignals /\ payload.source \in 0..lastBlockId
         /\ NoPayload.source = NoChart /\ NoTransmutation.id = NoChart
         /\ payload.source # NoChart => payload # NoPayload
<1>1. ChartsAreFound /\ lastBlockId \in Nat
  BY ChartIsFound DEF ChartInv, BlocksInv
<1>2. ChartIds \subseteq 1..lastBlockId
  BY <1>1 DEF ChartsAreFound, ChartBlocks
<1>3. NoChart \notin ChartIds
  BY <1>1, <1>2 DEF NoChart
<1>4. payload # NoPayload => payload.sink \in ChartSignals /\ payload.source \in 0..lastBlockId
  BY DEF ChartInv, GestureTypes
<1>5. acted = 2 => NothingAsked /\ landed = NoChart
  BY DEF ChartInv, RequestsAreFresh, DropIsGivenUp
<1>6. payload # NoPayload => NothingAsked
  BY DEF ChartInv, RequestsAreFresh
<1> QED BY <1>1, <1>2, <1>3, <1>4, <1>5, <1>6 DEF NoPayload, NoTransmutation

NoChartIsZero == NoChart \notin ChartIds /\ ChartIds \subseteq 1..lastBlockId

\* No chart has the number that stands for no chart.
LEMMA NumbersArePositive == BlocksInv => NoChartIsZero
<1> SUFFICES ASSUME BlocksInv PROVE NoChartIsZero
  OBVIOUS
<1>1. ChartsAreFound
  BY ChartIsFound
<1>2. ChartIds \subseteq 1..lastBlockId /\ lastBlockId \in Nat
  BY <1>1 DEF ChartsAreFound, ChartBlocks, BlocksInv
<1> QED BY <1>2 DEF NoChart, NoChartIsZero

LEMMA NumbersArePositiveAfter == BlocksInv' => NoChartIsZero'
BY NumbersArePositive, PTL

\* When nothing is asked for and no drop is to be completed, the rest of the
\* invariant is enough.
LEMMA QuietIsRight ==
  ASSUME BlocksInv', GestureTypes', FrameInv', DragIsKnown', NothingAsked', landed' = NoChart
  PROVE  ChartInv'
<1>1. NoChartIsZero'
  BY NumbersArePositiveAfter
<1>2. transmutation' = NoTransmutation /\ NoTransmutation.id = NoChart
  BY DEF NothingAsked, NoTransmutation
<1>3. RequestsAreFresh'
  <2>1. transmutation'.id = NoChart
    BY <1>2
  <2>2. transmutation'.id \notin ChartIds'
    BY <1>1, <2>1 DEF NoChartIsZero, NoChart
  <2> QED BY <2>2 DEF RequestsAreFresh, NothingAsked
<1>4. DropIsGivenUp'
  BY DEF DropIsGivenUp, NoChart
<1> QED BY <1>3, <1>4 DEF ChartInv

\* A step that leaves the blocks alone.
LEMMA BlocksAreLeft ==
  ASSUME BlocksInv, UNCHANGED blockVars
  PROVE  BlocksInv' /\ ChartIds' = ChartIds /\ ShownBy' = ShownBy /\ lastBlockId' = lastBlockId /\ charts' = charts
<1>1. /\ charts' = charts /\ chartWindows' = chartWindows /\ chartCounter' = chartCounter
      /\ lastWindowId' = lastWindowId /\ lastBlockId' = lastBlockId
  BY DEF blockVars
<1>2. ChartIds' = ChartIds
  BY <1>1 DEF ChartIds
<1>3. WindowNames' = WindowNames /\ ChartBlocks' = ChartBlocks
  BY <1>1 DEF WindowNames, ChartBlocks
<1>4. ShownBy' = ShownBy
  BY <1>1, <1>2 DEF ShownBy, Chart, SignalsIn
<1>5. BlocksInv'
  BY <1>1, <1>2, <1>3 DEF BlocksInv
<1> QED BY <1>1, <1>2, <1>4, <1>5

LEMMA TypesGrow ==
  ASSUME NEW n \in Nat, NEW m \in Nat, n <= m
  PROVE  0..n \subseteq 0..m /\ 1..n \subseteq 1..m
OBVIOUS

\* A step that leaves the charts alone, and in which the user does nothing.
LEMMA IdleIsRight ==
  ASSUME ChartInv, UNCHANGED blockVars, toDraw' = toDraw, FrameInv',
         UNCHANGED <<transmutation, removals, modal, sinkForNewPlot, acted, gestures,
                     dragState, payload, landed>>,
         toDraw # <<>> => drawStep' = drawStep
  PROVE  StepIsRight
<1>1. /\ BlocksInv' /\ ChartIds' = ChartIds /\ ShownBy' = ShownBy
      /\ lastBlockId' = lastBlockId /\ charts' = charts
  BY BlocksAreLeft DEF ChartInv
<1>2. GestureTypes'
  BY <1>1 DEF ChartInv, GestureTypes, SomeSignal
<1>3. RequestsAreFresh' /\ DragIsKnown'
  BY <1>1 DEF ChartInv, RequestsAreFresh, DragIsKnown, NothingAsked
<1>4. DropIsGivenUp'
  <2>1. landed # NoChart /\ acted = 1 => toDraw # <<>>
    <3>1. (\E i \in DOMAIN toDraw : toDraw[i] = dragState.source) => toDraw # <<>>
      OBVIOUS
    <3> QED BY <3>1 DEF ChartInv, DropIsGivenUp
  <2> QED BY <1>1, <2>1 DEF ChartInv, DropIsGivenUp, NothingAsked
<1> QED BY <1>1, <1>2, <1>3, <1>4 DEF ChartInv, StepIsRight

\* Nothing happens.
LEMMA StutterIsRight == ASSUME ChartInv, UNCHANGED chartVars PROVE StepIsRight
<1>1. /\ UNCHANGED blockVars /\ toDraw' = toDraw /\ drawStep' = drawStep
      /\ UNCHANGED <<transmutation, removals, modal, sinkForNewPlot, acted, gestures,
                     dragState, payload, landed>>
  BY DEF chartVars, dragVars, chartPageVars, drawVars
<1>2. FrameInv'
  BY <1>1, BlocksAreLeft DEF ChartInv, FrameInv
<1> QED BY <1>1, <1>2, IdleIsRight

\* The frame goes on to the legend, and then to the dialog.
LEMMA LegendFrame ==
  ASSUME ChartInv, LegendStep
  PROVE  FrameInv' /\ UNCHANGED blockVars /\ toDraw' = toDraw /\ toDraw = <<>>
<1>1. UNCHANGED blockVars /\ toDraw' = toDraw /\ toDraw = <<>> /\ drawStep' = "dialog"
  BY DEF LegendStep
<1>2. FrameInv'
  BY <1>1, BlocksAreLeft DEF ChartInv, FrameInv
<1> QED BY <1>1, <1>2

LEMMA DialogFrame ==
  ASSUME ChartInv, DialogStep, ChartIds \subseteq ChartIds'
  PROVE  FrameInv' /\ toDraw' = toDraw /\ toDraw = <<>>
<1>1. toDraw' = toDraw /\ toDraw = <<>> /\ drawStep' = "start"
  BY DEF DialogStep, ChartInv, FrameInv
<1>2. FrameInv'
  BY <1>1 DEF FrameInv
<1> QED BY <1>1, <1>2

\* Nothing is done with the legend, or in the dialog.
LEMMA DrawLegendIsRight == ASSUME ChartInv, DrawLegend PROVE StepIsRight
<1>1. UNCHANGED <<transmutation, removals, modal, sinkForNewPlot, acted, gestures,
                  dragState, payload, landed>>
  BY DEF DrawLegend, LegendStep, NotAct, dragVars
<1>2. FrameInv' /\ UNCHANGED blockVars /\ toDraw' = toDraw /\ toDraw = <<>>
  BY LegendFrame DEF DrawLegend
<1> QED BY <1>1, <1>2, IdleIsRight

LEMMA DrawDialogIsRight == ASSUME ChartInv, DrawDialog PROVE StepIsRight
<1>1. /\ UNCHANGED <<transmutation, removals, modal, sinkForNewPlot, acted, gestures,
                     dragState, payload, landed>>
      /\ UNCHANGED blockVars
  BY DEF DrawDialog, DialogStep, NotAct
<1>2. FrameInv' /\ toDraw' = toDraw /\ toDraw = <<>>
  BY <1>1, BlocksAreLeft, DialogFrame DEF DrawDialog, ChartInv
<1> QED BY <1>1, <1>2, IdleIsRight

\* A gesture of the user that leaves the charts alone.
LEMMA GestureIsRight ==
  ASSUME ChartInv, MayAct, UNCHANGED blockVars, UNCHANGED <<transmutation, removals>>,
         landed' \in {landed, NoChart}, FrameInv', DragIsKnown', GestureTypes'
  PROVE  StepIsRight
<1>1. BlocksInv' /\ charts' = charts
  BY BlocksAreLeft DEF ChartInv
<1>2. NothingAsked /\ landed = NoChart
  BY Settled DEF MayAct
<1>3. NothingAsked' /\ landed' = NoChart
  BY <1>2 DEF NothingAsked
<1> QED BY <1>1, <1>3, QuietIsRight DEF StepIsRight

\* A signal is dragged from the legend of all signals.
LEMMA DragFromLegendIsRight == ASSUME ChartInv, DragFromLegend PROVE StepIsRight
<1> PICK s \in ChartSignals :
      /\ LegendStep /\ Calm /\ Act
      /\ payload' = [sink |-> s, source |-> NoChart]
      /\ UNCHANGED <<dragState, landed, modal, sinkForNewPlot>>
  BY DEF DragFromLegend
<1>1. FrameInv' /\ UNCHANGED blockVars /\ MayAct /\ UNCHANGED <<transmutation, removals>>
  BY LegendFrame DEF Calm, LegendStep
<1>2. /\ lastBlockId' = lastBlockId /\ lastBlockId \in Nat
      /\ payload' \in [sink : ChartSignals, source : 0..lastBlockId]
      /\ acted' = 0 /\ gestures' = gestures + 1
  BY <1>1 DEF ChartInv, BlocksInv, NoChart, blockVars, Act
<1>3. GestureTypes'
  BY <1>1, <1>2 DEF ChartInv, GestureTypes, SomeSignal
<1>4. DragIsKnown'
  BY DEF DragIsKnown, NoChart
<1> QED BY <1>1, <1>3, <1>4, GestureIsRight

\* The dialog for a new chart is opened.
LEMMA ClickNewChartIsRight == ASSUME ChartInv, ClickNewChart PROVE StepIsRight
<1>1. /\ MayAct /\ acted' = 0 /\ gestures' = gestures + 1 /\ modal' = TRUE
      /\ UNCHANGED <<transmutation, removals, dragState, payload, landed, sinkForNewPlot>>
  BY DEF ClickNewChart, LegendStep, Calm, Act, dragVars
<1>2. FrameInv' /\ UNCHANGED blockVars
  BY LegendFrame DEF ClickNewChart
<1>3. lastBlockId' = lastBlockId /\ ChartIds' = ChartIds
  BY <1>2, BlocksAreLeft DEF ChartInv
<1>4. GestureTypes' /\ DragIsKnown'
  BY <1>1, <1>3 DEF ChartInv, GestureTypes, SomeSignal, DragIsKnown
<1> QED BY <1>1, <1>2, <1>4, GestureIsRight

\* A drop on the legend or the button ends the drag.
LEMMA AcceptedIsRight ==
  ASSUME ChartInv, LegendStep, MayAct, Act, NEW a \in BOOLEAN, AcceptDrop(a),
         modal' \in BOOLEAN, sinkForNewPlot' \in SomeSignal
  PROVE  StepIsRight
<1>1. /\ acted' = 0 /\ gestures' = gestures + 1 /\ UNCHANGED <<transmutation, removals>>
      /\ dragState' = [dragState EXCEPT !.accepted = a]
      /\ payload' = NoPayload /\ landed' = NoChart
  BY DEF LegendStep, Act, AcceptDrop
<1>2. FrameInv' /\ UNCHANGED blockVars /\ lastBlockId' = lastBlockId
  BY LegendFrame DEF blockVars
<1>3. GestureTypes'
  BY <1>1, <1>2 DEF ChartInv, GestureTypes, SomeSignal
<1>4. DragIsKnown'
  BY <1>1 DEF DragIsKnown, NoChart, NoPayload
<1> QED BY <1>1, <1>2, <1>3, <1>4, GestureIsRight

\* A signal is dropped on the legend, or on the button for a new chart.
LEMMA DropOnLegendIsRight == ASSUME ChartInv, DropOnLegend PROVE StepIsRight
<1> DEFINE a == payload.source # NoChart
<1>1. LegendStep /\ MayAct /\ Act /\ AcceptDrop(a) /\ UNCHANGED <<modal, sinkForNewPlot>>
  BY DEF DropOnLegend
<1>2. modal' \in BOOLEAN /\ sinkForNewPlot' \in SomeSignal
  BY <1>1 DEF ChartInv, GestureTypes, SomeSignal
<1>3. a \in BOOLEAN
  OBVIOUS
<1> HIDE DEF a
<1> QED BY <1>1, <1>2, <1>3, AcceptedIsRight

LEMMA DropOnNewChartIsRight == ASSUME ChartInv, DropOnNewChart PROVE StepIsRight
<1>1. LegendStep /\ MayAct /\ Act /\ AcceptDrop(TRUE) /\ sinkForNewPlot' = payload.sink /\ modal' = TRUE
  BY DEF DropOnNewChart
<1>2. payload # NoPayload
  BY <1>1 DEF AcceptDrop
<1>3. modal' \in BOOLEAN /\ sinkForNewPlot' \in SomeSignal
  BY <1>1, <1>2, Settled DEF SomeSignal
<1> QED BY <1>1, <1>3, AcceptedIsRight

\* The user closes the dialog or drops something nowhere, and creates no chart.
LEMMA ClosedIsRight ==
  ASSUME ChartInv, DialogStep, MayAct, Act, UNCHANGED blockVars,
         payload' \in {payload, NoPayload}, modal' \in BOOLEAN
  PROVE  StepIsRight
<1>1. /\ UNCHANGED <<transmutation, removals, sinkForNewPlot, dragState, landed>>
      /\ acted' = 0 /\ gestures' = gestures + 1
  BY DEF DialogStep, Act
<1>2. lastBlockId' = lastBlockId /\ ChartIds' = ChartIds
  BY BlocksAreLeft DEF ChartInv
<1>3. FrameInv'
  BY <1>2, DialogFrame
<1>4. GestureTypes' /\ DragIsKnown'
  BY <1>1, <1>2 DEF ChartInv, GestureTypes, SomeSignal, DragIsKnown, NoPayload
<1> QED BY <1>1, <1>3, <1>4, GestureIsRight

\* What is dropped nowhere is forgotten, and a dialog is closed.
LEMMA ReleaseNowhereIsRight == ASSUME ChartInv, ReleaseNowhere PROVE StepIsRight
<1>1. DialogStep /\ MayAct /\ Act /\ UNCHANGED blockVars /\ payload' = NoPayload /\ modal' = modal
  BY DEF ReleaseNowhere
<1>2. modal' \in BOOLEAN
  BY <1>1 DEF ChartInv, GestureTypes
<1> QED BY <1>1, <1>2, ClosedIsRight

LEMMA CancelNewChartIsRight == ASSUME ChartInv, CancelNewChart PROVE StepIsRight
<1>1. DialogStep /\ MayAct /\ Act /\ UNCHANGED blockVars /\ payload' = payload /\ modal' = FALSE
  BY DEF CancelNewChart
<1> QED BY <1>1, ClosedIsRight

\* A chart is drawn, and the user does nothing.
LEMMA DrawChartIsRight == ASSUME ChartInv, DrawChart PROVE StepIsRight
<1> PICK id \in ChartIds :
      /\ DrawPrologue(id)
      /\ charts' = WithNames(id, NamesLeft(id))
      /\ dragState' = DragAfterPrologue(id)
      /\ landed' = IF isAcceptedFrom(id) THEN NoChart ELSE landed
      /\ NotAct
      /\ UNCHANGED <<chartWindows, chartCounter, lastWindowId, lastBlockId, payload, chartPageVars>>
  BY DEF DrawChart
<1> DEFINE N == NamesLeft(id)
<1>1. /\ N \in SUBSET SignalNames
      /\ SignalsIn(N) \subseteq ShownBy[id] /\ ShownBy[id] = SignalsIn(Chart(id).names)
      /\ ~isAcceptedFrom(id) => N = Chart(id).names
  BY NamesLeftAre DEF ChartInv
<1>2. Drawn(id, N)
  <2>1. UNCHANGED <<chartWindows, chartCounter, lastWindowId, lastBlockId>>
    OBVIOUS
  <2> QED BY <1>1, <2>1, DrawnIs
<1> HIDE DEF N
<1>3. /\ BlocksInv' /\ FrameInv' /\ SignalsStay /\ SignalsStaySupported
      /\ ChartIds' = ChartIds /\ lastBlockId' = lastBlockId
      /\ \A c \in ChartIds : ShownBy'[c] \subseteq ShownBy[c]
      /\ \A c : c # id /\ (\E i \in DOMAIN toDraw : toDraw[i] = c) => \E i \in DOMAIN toDraw' : toDraw'[i] = c
  BY <1>1, <1>2 DEF Drawn
<1>4. UNCHANGED <<payload, transmutation, removals, modal, sinkForNewPlot, acted, gestures>>
  BY DEF NotAct, chartPageVars
<1>5. GestureTypes'
  <2>1. NoDrag \in [accepted : BOOLEAN, source : 0..lastBlockId, sink : SomeSignal]
    BY DEF NoDrag, ChartInv, BlocksInv, SomeSignal, NoChart
  <2>2. dragState' \in [accepted : BOOLEAN, source : 0..lastBlockId, sink : SomeSignal]
    BY <2>1 DEF DragAfterPrologue, ChartInv, GestureTypes
  <2> QED BY <1>3, <1>4, <2>2 DEF ChartInv, GestureTypes, SomeSignal
<1>6. RequestsAreFresh'
  BY <1>3, <1>4 DEF ChartInv, RequestsAreFresh, NothingAsked
<1>7. DragIsKnown'
  <2> SUFFICES ASSUME payload.source # NoChart PROVE DragIsKnown'
    BY <1>4 DEF DragIsKnown
  <2>1. /\ dragState = [accepted |-> FALSE, source |-> payload.source, sink |-> payload.sink]
        /\ payload.source \in ChartIds
    BY DEF ChartInv, DragIsKnown
  <2>2. dragState' = dragState
    BY <2>1 DEF DragAfterPrologue, isAcceptedFrom
  <2> QED BY <1>3, <1>4, <2>1, <2>2 DEF DragIsKnown
<1>8. DropIsGivenUp'
  <2> SUFFICES ASSUME landed' # NoChart PROVE DropIsGivenUp'
    BY DEF DropIsGivenUp
  <2>1. ~isAcceptedFrom(id) /\ landed' = landed /\ dragState' = dragState
    BY DEF DragAfterPrologue
  <2>2. dragState.accepted /\ dragState.source # id
    BY <2>1 DEF ChartInv, DropIsGivenUp, isAcceptedFrom
  <2>3. drawStep' = drawStep
    BY DEF DrawPrologue
  <2>4. \A c \in ChartIds : ShownBy'[c] = ShownBy[c]
    BY <1>1, <1>2, <2>1 DEF Drawn
  <2> QED BY <1>3, <1>4, <2>1, <2>2, <2>3, <2>4 DEF ChartInv, DropIsGivenUp, NothingAsked
<1> QED BY <1>3, <1>5, <1>6, <1>7, <1>8 DEF ChartInv, StepIsRight

\* A gesture on a chart: nothing was dropped or asked for before, so that the chart
\* keeps its names until the gesture.
LEMMA CalmChart ==
  ASSUME ChartInv, MayAct, Act, NEW id \in ChartIds, DrawPrologue(id),
         charts' = WithNames(id, NamesLeft(id)),
         UNCHANGED <<chartWindows, chartCounter, lastWindowId, lastBlockId>>
  PROVE  /\ NothingAsked /\ landed = NoChart /\ Drawn(id, NamesLeft(id))
         /\ acted' = 0 /\ gestures' \in Nat
         /\ \A c \in ChartIds : ShownBy'[c] \subseteq ShownBy[c]
<1> DEFINE N == NamesLeft(id)
<1>1. /\ N \in SUBSET SignalNames
      /\ SignalsIn(N) \subseteq ShownBy[id] /\ ShownBy[id] = SignalsIn(Chart(id).names)
  BY NamesLeftAre DEF ChartInv
<1>2. Drawn(id, N)
  BY <1>1, DrawnIs
<1>3. NothingAsked /\ landed = NoChart /\ acted' = 0 /\ gestures' \in Nat
  BY Settled DEF MayAct, Act, ChartInv, GestureTypes
<1> HIDE DEF N
<1>4. \A c \in ChartIds : ShownBy'[c] \subseteq ShownBy[c]
  BY <1>1, <1>2 DEF Drawn
<1> QED BY <1>2, <1>3, <1>4 DEF N

\* A signal is dragged from the legend of a chart.
LEMMA DragFromChartIsRight == ASSUME ChartInv, DragFromChart PROVE StepIsRight
<1> PICK id \in ChartIds : \E s \in SignalsIn(NamesLeft(id)) :
      /\ DrawPrologue(id) /\ Calm /\ Act
      /\ charts' = WithNames(id, NamesLeft(id))
      /\ setupPayload(s, id)
      /\ UNCHANGED <<chartWindows, chartCounter, lastWindowId, lastBlockId, chartPageVars>>
  BY DEF DragFromChart
<1> PICK s \in SignalsIn(NamesLeft(id)) :
      /\ DrawPrologue(id) /\ Calm /\ Act
      /\ charts' = WithNames(id, NamesLeft(id))
      /\ setupPayload(s, id)
      /\ UNCHANGED <<chartWindows, chartCounter, lastWindowId, lastBlockId, chartPageVars>>
  OBVIOUS
<1>1. /\ NothingAsked /\ Drawn(id, NamesLeft(id)) /\ acted' = 0 /\ gestures' \in Nat
  BY CalmChart DEF Calm
<1>2. /\ BlocksInv' /\ FrameInv' /\ SignalsStay /\ SignalsStaySupported
      /\ ChartIds' = ChartIds /\ lastBlockId' = lastBlockId
  BY <1>1 DEF Drawn
<1>3. /\ payload' = [sink |-> s, source |-> id]
      /\ dragState' = [accepted |-> FALSE, source |-> id, sink |-> s]
      /\ landed' = NoChart /\ UNCHANGED <<transmutation, removals, modal, sinkForNewPlot>>
  BY DEF setupPayload, chartPageVars
<1>4. s \in ChartSignals
  BY NamesLeftAre DEF ChartInv
<1>5. GestureTypes'
  <2>1. id \in 0..lastBlockId
    BY NumbersArePositive DEF ChartInv, NoChartIsZero
  <2>2. dragState' \in [accepted : BOOLEAN, source : 0..lastBlockId', sink : SomeSignal]
    BY <1>2, <1>3, <1>4, <2>1 DEF SomeSignal
  <2>3. payload' \in [sink : ChartSignals, source : 0..lastBlockId']
    BY <1>2, <1>3, <1>4, <2>1
  <2> QED BY <1>1, <1>2, <1>3, <2>2, <2>3 DEF ChartInv, GestureTypes, SomeSignal
<1>6. DragIsKnown'
  BY <1>2, <1>3 DEF DragIsKnown
<1>7. NothingAsked' /\ landed' = NoChart
  BY <1>1, <1>3 DEF NothingAsked
<1> QED BY <1>2, <1>5, <1>6, <1>7, QuietIsRight DEF StepIsRight

\* A menu asks for another type, that supports what the chart shows.
LEMMA ChooseTypeIsRight == ASSUME ChartInv, ChooseType PROVE StepIsRight
<1> PICK id \in ChartIds : \E type \in ChartTypes \ {Chart(id).type} :
      /\ DrawPrologue(id) /\ Calm /\ Act
      /\ SignalsIn(NamesLeft(id)) \subseteq supportedSignals(type)
      /\ charts' = WithNames(id, NamesLeft(id))
      /\ requestChartTransmutation(id, type)
      /\ UNCHANGED <<chartWindows, chartCounter, lastWindowId, lastBlockId, dragVars,
                     modal, sinkForNewPlot>>
  BY DEF ChooseType
<1> PICK type \in ChartTypes \ {Chart(id).type} :
      /\ DrawPrologue(id) /\ Calm /\ Act
      /\ SignalsIn(NamesLeft(id)) \subseteq supportedSignals(type)
      /\ charts' = WithNames(id, NamesLeft(id))
      /\ requestChartTransmutation(id, type)
      /\ UNCHANGED <<chartWindows, chartCounter, lastWindowId, lastBlockId, dragVars,
                     modal, sinkForNewPlot>>
  OBVIOUS
<1>1. /\ NothingAsked /\ landed = NoChart /\ Drawn(id, NamesLeft(id)) /\ acted' = 0 /\ gestures' \in Nat
  BY CalmChart DEF Calm
<1>2. /\ BlocksInv' /\ FrameInv' /\ SignalsStay /\ SignalsStaySupported
      /\ ChartIds' = ChartIds /\ lastBlockId' = lastBlockId
      /\ ShownBy'[id] = SignalsIn(NamesLeft(id))
  BY <1>1 DEF Drawn
<1>3. /\ transmutation' = [id |-> id, type |-> type]
      /\ UNCHANGED <<removals, modal, sinkForNewPlot, dragState, payload, landed>>
      /\ payload = NoPayload
  BY DEF requestChartTransmutation, dragVars, Calm
<1>4. GestureTypes'
  <2>1. id \in 1..lastBlockId
    BY NumbersArePositive DEF ChartInv, NoChartIsZero
  <2>2. transmutation' \in [id : 1..lastBlockId', type : ChartTypes]
    BY <1>2, <1>3, <2>1
  <2> QED BY <1>1, <1>2, <1>3, <2>2 DEF ChartInv, GestureTypes, SomeSignal
<1>5. RequestsAreFresh'
  BY <1>1, <1>2, <1>3 DEF RequestsAreFresh
<1>6. DragIsKnown' /\ DropIsGivenUp'
  BY <1>1, <1>3 DEF DragIsKnown, DropIsGivenUp, NoPayload
<1> QED BY <1>2, <1>4, <1>5, <1>6 DEF ChartInv, StepIsRight

\* A menu asks for the chart to be removed.
LEMMA RemoveChartIsRight == ASSUME ChartInv, RemoveChart PROVE StepIsRight
<1> PICK id \in ChartIds :
      /\ DrawPrologue(id) /\ Calm /\ Act
      /\ charts' = WithNames(id, NamesLeft(id))
      /\ requestChartRemoval(id)
      /\ UNCHANGED <<chartWindows, chartCounter, lastWindowId, lastBlockId, dragVars,
                     modal, sinkForNewPlot>>
  BY DEF RemoveChart
<1>1. /\ NothingAsked /\ landed = NoChart /\ Drawn(id, NamesLeft(id)) /\ acted' = 0 /\ gestures' \in Nat
  BY CalmChart DEF Calm
<1>2. /\ BlocksInv' /\ FrameInv' /\ SignalsStay /\ SignalsStaySupported
      /\ ChartIds' = ChartIds /\ lastBlockId' = lastBlockId
  BY <1>1 DEF Drawn
<1>3. /\ removals' = removals \union {id}
      /\ UNCHANGED <<transmutation, modal, sinkForNewPlot, dragState, payload, landed>>
      /\ payload = NoPayload
  BY DEF requestChartRemoval, dragVars, Calm
<1>4. NoChartIsZero
  BY NumbersArePositive DEF ChartInv
<1>5. GestureTypes'
  <2>1. removals' \subseteq 1..lastBlockId'
    BY <1>2, <1>3, <1>4 DEF ChartInv, GestureTypes, NoChartIsZero
  <2> QED BY <1>1, <1>2, <1>3, <2>1 DEF ChartInv, GestureTypes, SomeSignal
<1>6. RequestsAreFresh'
  <2>1. transmutation'.id \notin ChartIds'
    BY <1>1, <1>2, <1>3, <1>4 DEF NothingAsked, NoTransmutation, NoChartIsZero
  <2> QED BY <1>1, <1>3, <2>1 DEF RequestsAreFresh
<1>7. DragIsKnown' /\ DropIsGivenUp'
  BY <1>1, <1>3 DEF DragIsKnown, DropIsGivenUp, NoPayload
<1> QED BY <1>2, <1>5, <1>6, <1>7 DEF ChartInv, StepIsRight

\* A signal is dropped on the chart id.
LEMMA DropOnChartIsRight == ASSUME ChartInv, DropOnChart PROVE StepIsRight
<1> PICK id \in ChartIds :
    /\ DrawPrologue(id) /\ MayAct /\ Act
    /\ payload # NoPayload /\ TakesPayload(Chart(id).type)
    /\ charts' = WithNames(id, NamesLeft(id) \union {<<payload.sink, "block">>})
    /\ dragState' = IF payload.source # NoChart
                    THEN [dragState EXCEPT !.accepted = TRUE] ELSE DragAfterPrologue(id)
    /\ landed' = IF payload.source # NoChart THEN id ELSE landed
    /\ payload' = NoPayload
    /\ UNCHANGED <<chartWindows, chartCounter, lastWindowId, lastBlockId, chartPageVars>>
  BY DEF DropOnChart
<1> DEFINE N == NamesLeft(id) \union {<<payload.sink, "block">>}
<1>1. /\ NamesLeft(id) \in SUBSET SignalNames
      /\ SignalsIn(NamesLeft(id)) \subseteq ShownBy[id] /\ ShownBy[id] = SignalsIn(Chart(id).names)
  BY NamesLeftAre DEF ChartInv
<1>2. /\ NothingAsked /\ landed = NoChart /\ payload.sink \in ChartSignals
      /\ acted' = 0 /\ gestures' = gestures + 1
      /\ UNCHANGED <<transmutation, removals, modal, sinkForNewPlot>>
  BY Settled DEF MayAct, Act, chartPageVars
<1>3. N \in SUBSET SignalNames /\ SignalsIn(N) = SignalsIn(NamesLeft(id)) \union {payload.sink}
  <2>1. <<payload.sink, "block">> \in SignalNames
    BY <1>2 DEF SignalNames
  <2>2. <<payload.sink, "block">>[1] = payload.sink
    OBVIOUS
  <2>3. N \in SUBSET SignalNames
    BY <1>1, <2>1
  <2>4. \A s : s \in SignalsIn(N) <=> s \in SignalsIn(NamesLeft(id)) \/ s = payload.sink
    BY <2>2 DEF SignalsIn
  <2> HIDE DEF N
  <2> QED BY <2>3, <2>4
<1>4. /\ Chart(id).type # "SurfacePlot"
      /\ SignalsIn(Chart(id).names) \subseteq supportedSignals(Chart(id).type)
      => SignalsIn(N) \subseteq supportedSignals(Chart(id).type)
  BY <1>1, <1>3 DEF TakesPayload
<1>5. Drawn(id, N)
  <2>1. NamesLeft(id) \subseteq N
    OBVIOUS
  <2>2. charts' = WithNames(id, N) /\ UNCHANGED <<chartWindows, chartCounter, lastWindowId, lastBlockId>>
    OBVIOUS
  <2> HIDE DEF N
  <2> QED BY <1>3, <1>4, <2>1, <2>2, DrawnIs
<1> HIDE DEF N
<1>6. /\ BlocksInv' /\ FrameInv' /\ SignalsStay /\ SignalsStaySupported
      /\ ChartIds' = ChartIds /\ lastBlockId' = lastBlockId
      /\ ShownBy'[id] = SignalsIn(N)
  BY <1>5 DEF Drawn
<1>7. GestureTypes'
  <2>1. NoDrag \in [accepted : BOOLEAN, source : 0..lastBlockId, sink : SomeSignal]
    BY DEF NoDrag, ChartInv, BlocksInv, SomeSignal, NoChart
  <2>2. dragState' \in [accepted : BOOLEAN, source : 0..lastBlockId, sink : SomeSignal]
    BY <2>1 DEF DragAfterPrologue, ChartInv, GestureTypes
  <2> QED BY <1>2, <1>6, <2>2 DEF ChartInv, GestureTypes, SomeSignal
<1>8. DragIsKnown'
  BY DEF DragIsKnown, NoPayload
<1>9. RequestsAreFresh'
  <2>1. transmutation'.id \notin ChartIds'
    BY <1>2, <1>6, NumbersArePositive DEF ChartInv, NothingAsked, NoTransmutation, NoChartIsZero
  <2> QED BY <1>2, <2>1 DEF RequestsAreFresh
<1>10. DropIsGivenUp'
  <2>1. CASE payload.source = NoChart
    BY <1>2, <2>1 DEF DropIsGivenUp
  <2>2. CASE payload.source # NoChart
    <3>1. /\ dragState = [accepted |-> FALSE, source |-> payload.source, sink |-> payload.sink]
          /\ payload.source \in ChartIds
      BY <2>2 DEF ChartInv, DragIsKnown
    <3>2. /\ dragState' = [accepted |-> TRUE, source |-> payload.source, sink |-> payload.sink]
          /\ landed' = id
      BY <2>2, <3>1
    <3>3. payload.sink \in ShownBy'[id]
      BY <1>3, <1>6
    <3>4. NothingAsked'
      BY <1>2 DEF NothingAsked
    <3> QED BY <1>2, <1>6, <3>1, <3>2, <3>3, <3>4 DEF DropIsGivenUp
  <2> QED BY <2>1, <2>2
<1> QED BY <1>6, <1>7, <1>8, <1>9, <1>10 DEF ChartInv, StepIsRight

\* A chart is copied or created while nothing is dropped or asked for.
LEMMA AddedIsRight ==
  ASSUME ChartInv, MayAct, Act, NEW type \in ChartTypes, NEW N \in SUBSET SignalNames,
         NEW S, NEW base \in Seq(S), AddChart(type, N, base), chartCounter' \in Nat,
         ChartIds \subseteq ChartIds' => FrameInv',
         UNCHANGED <<dragState, payload, landed, transmutation, removals, sinkForNewPlot>>,
         modal' \in BOOLEAN
  PROVE  StepIsRight
<1>1. /\ BlocksInv' /\ ChartIds' = ChartIds \union {lastBlockId + 1} /\ lastBlockId' = lastBlockId + 1
      /\ Len(chartWindows') = Len(chartWindows) + 1
      /\ \A k \in DOMAIN charts : k \in DOMAIN charts' /\ charts'[k] = charts[k]
      /\ \A i \in DOMAIN chartWindows : chartWindows'[i] = chartWindows[i]
      /\ \A i \in DOMAIN chartWindows : chartWindows'[Len(chartWindows) + 1].name # chartWindows[i].name
  BY ChartIsAdded DEF ChartInv
<1>2. SignalsStay /\ SignalsStaySupported
  <2>1. SameCharts
    BY <1>1, AddedStay DEF ChartInv
  <2> QED BY <2>1, SameSignals
<1>3. FrameInv'
  BY <1>1
<1>4. NothingAsked /\ landed = NoChart /\ acted' = 0 /\ gestures' = gestures + 1
  BY Settled DEF MayAct, Act
<1>5. GestureTypes'
  <2>1. 0..lastBlockId \subseteq 0..lastBlockId' /\ 1..lastBlockId \subseteq 1..lastBlockId'
    BY <1>1 DEF ChartInv, BlocksInv
  <2>2. dragState' \in [accepted : BOOLEAN, source : 0..lastBlockId', sink : SomeSignal]
    BY <2>1 DEF ChartInv, GestureTypes
  <2>3. payload' \in {NoPayload} \union [sink : ChartSignals, source : 0..lastBlockId']
    BY <2>1 DEF ChartInv, GestureTypes
  <2>4. transmutation' = NoTransmutation /\ removals' = {}
    BY <1>4 DEF NothingAsked
  <2>5. sinkForNewPlot' \in SomeSignal /\ gestures' \in Nat
    BY <1>4 DEF ChartInv, GestureTypes
  <2> QED BY <1>4, <2>2, <2>3, <2>4, <2>5 DEF GestureTypes, SomeSignal
<1>6. DragIsKnown'
  BY <1>1 DEF ChartInv, DragIsKnown
<1>7. NothingAsked' /\ landed' = NoChart
  BY <1>4 DEF NothingAsked
<1> QED BY <1>1, <1>2, <1>3, <1>5, <1>6, <1>7, QuietIsRight DEF StepIsRight

\* A chart is copied.
LEMMA DuplicateIsRight == ASSUME ChartInv, Duplicate PROVE StepIsRight
<1> PICK id \in ChartIds :
      /\ DrawPrologue(id) /\ Calm /\ Act
      /\ ~isAcceptedFrom(id) /\ Len(charts) < MaxCharts
      /\ CopyChart(id)
      /\ UNCHANGED <<dragVars, chartPageVars>>
  BY DEF Duplicate
<1> DEFINE type == Chart(id).type
           N == Chart(id).names
           base == <<"Block", lastBlockId + 1>>
           S == {"Block", lastBlockId + 1}
<1>1. type \in ChartTypes /\ N \in SUBSET SignalNames
  BY NamesLeftAre DEF ChartInv
<1>2. AddChart(type, N, base) /\ chartCounter' = chartCounter /\ base \in Seq(S)
  BY DEF CopyChart
<1> HIDE DEF type, N, base, S
<1>3. ChartIds \subseteq ChartIds' => FrameInv'
  BY ToDrawNext DEF ChartInv
<1>4. /\ UNCHANGED <<dragState, payload, landed, transmutation, removals, sinkForNewPlot>>
      /\ modal' \in BOOLEAN /\ chartCounter' \in Nat
  BY <1>2 DEF dragVars, chartPageVars, ChartInv, GestureTypes, BlocksInv
<1>5. MayAct /\ Act
  BY DEF Calm
<1> QED BY <1>1, <1>2, <1>3, <1>4, <1>5, AddedIsRight

\* The dialog creates a chart, if the page has room for it.
LEMMA ChooseNewChartIsRight == ASSUME ChartInv, ChooseNewChart PROVE StepIsRight
<1> PICK type \in ChartTypes :
    /\ DialogStep /\ MayAct /\ Act /\ modal
    /\ Len(charts) < MaxCharts
    /\ NewUIBlock(type, sinkForNewPlot)
    /\ modal' = FALSE /\ UNCHANGED payload
  BY DEF ChooseNewChart
<1>1. CASE Len(chartWindows) < MaxPlots
  <2> DEFINE N == IF sinkForNewPlot = NoSignal THEN {} ELSE {<<sinkForNewPlot, "signal">>}
             base == <<"Chart", chartCounter>>
             S == {"Chart", chartCounter}
  <2>1. AddChart(type, N, base) /\ chartCounter' = chartCounter + 1 /\ base \in Seq(S)
    BY <1>1 DEF NewUIBlock
  <2>2. N \in SUBSET SignalNames
    BY DEF ChartInv, GestureTypes, SomeSignal, SignalNames
  <2> HIDE DEF N, base, S
  <2>3. ChartIds \subseteq ChartIds' => FrameInv'
    BY DialogFrame
  <2>4. UNCHANGED <<dragState, payload, landed, transmutation, removals, sinkForNewPlot>>
    BY DEF DialogStep
  <2>5. chartCounter' \in Nat /\ modal' \in BOOLEAN
    <3>1. chartCounter \in Nat
      BY DEF ChartInv, BlocksInv
    <3>2. modal' = FALSE
      OBVIOUS
    <3>3. chartCounter' \in Nat
      BY <2>1, <3>1
    <3> QED BY <3>2, <3>3
  <2> QED BY <2>1, <2>2, <2>3, <2>4, <2>5, AddedIsRight
<1>2. CASE ~(Len(chartWindows) < MaxPlots)
  <2>1. UNCHANGED blockVars
    BY <1>2 DEF NewUIBlock
  <2> QED BY <2>1, ClosedIsRight
<1> QED BY <1>1, <1>2

\* What the menus asked for is done when the frame starts.
LEMMA RequestsAreDone ==
  ASSUME ChartInv, StartFrame
  PROVE  /\ BlocksInv' /\ SignalsStay /\ SignalsStaySupported
         /\ lastBlockId' \in Nat /\ lastBlockId <= lastBlockId'
         /\ NothingAsked => /\ ChartIds' = ChartIds
                       /\ \A c \in ChartIds : ShownBy'[c] = ShownBy[c]
<1>1. UNCHANGED <<chartCounter, lastWindowId>> /\ lastBlockId \in Nat /\ BlocksInv
  BY DEF StartFrame, ChartInv, BlocksInv
<1>2. CASE transmutation.id \in ChartIds
  <2> DEFINE id == transmutation.id
             type == transmutation.type
  <2>1. id \in ChartIds /\ TransmuteUIWindow(id, type)
    BY <1>2 DEF StartFrame
  <2>2. type \in ChartTypes /\ ~NothingAsked
    <3>1. NoTransmutation.id \notin ChartIds
      BY NumbersArePositive DEF ChartInv, NoChartIsZero, NoTransmutation
    <3>2. transmutation # NoTransmutation
      BY <1>2, <3>1
    <3>3. transmutation \in [id : 1..lastBlockId, type : ChartTypes]
      BY <3>2 DEF ChartInv, GestureTypes
    <3> QED BY <3>2, <3>3 DEF NothingAsked
  <2>3. SignalsIn(Chart(id).names) \subseteq supportedSignals(type)
    BY <1>2 DEF ChartInv, RequestsAreFresh, ShownBy
  <2> HIDE DEF id, type
  <2>4. /\ BlocksInv' /\ lastBlockId' = lastBlockId + 1
        /\ DOMAIN chartWindows' = DOMAIN chartWindows
        /\ \A i \in DOMAIN chartWindows :
             /\ chartWindows'[i].name = chartWindows[i].name
             /\ chartWindows'[i].block = IF chartWindows[i].block = id THEN lastBlockId + 1
                                         ELSE chartWindows[i].block
        /\ \A k \in DOMAIN charts : charts[k].id # id => \E l \in DOMAIN charts' : charts'[l] = charts[k]
        /\ \E l \in DOMAIN charts' :
             charts'[l] = [id |-> lastBlockId + 1, type |-> type, names |-> Chart(id).names]
    BY <1>1, <2>1, <2>2, ChartIsReplaced
  <2>5. SignalsStay /\ SignalsStaySupported
    BY <1>1, <2>1, <2>3, <2>4, ReplacedShows
  <2> QED BY <1>1, <2>2, <2>4, <2>5
<1>3. CASE transmutation.id \notin ChartIds
  <2>1. DeleteCharts(removals) /\ lastBlockId' = lastBlockId
    BY <1>3 DEF StartFrame
  <2>2. /\ BlocksInv' /\ ChartIds' = ChartIds \ removals
        /\ \A k \in DOMAIN charts' : \E l \in DOMAIN charts : charts'[k] = charts[l]
        /\ \A l \in DOMAIN charts : charts[l].id \notin removals => \E k \in DOMAIN charts' : charts'[k] = charts[l]
        /\ \A i \in DOMAIN chartWindows' :
             \E j \in DOMAIN chartWindows : chartWindows'[i] = chartWindows[j]
    BY <1>1, <2>1, ChartsAreRemoved
  <2>3. SameCharts
    BY <1>1, <2>2, RemovedStay
  <2>4. ASSUME NothingAsked, NEW c \in ChartIds PROVE ShownBy'[c] = ShownBy[c]
    <3>1. PICK k \in DOMAIN charts : charts[k].id = c
      BY DEF ChartIds
    <3>2. PICK l \in DOMAIN charts' : charts'[l] = charts[k]
      BY <2>2, <2>4 DEF NothingAsked
    <3> QED BY <1>1, <2>2, <3>1, <3>2, StillShown
  <2>5. NothingAsked => ChartIds' = ChartIds
    BY <2>2 DEF NothingAsked
  <2> QED BY <1>1, <2>1, <2>2, <2>3, <2>4, <2>5, SameSignals
<1> QED BY <1>2, <1>3

\* A frame starts; a drop stays to be completed in it.
LEMMA StartFrameIsRight == ASSUME ChartInv, StartFrame PROVE StepIsRight
<1>1. /\ BlocksInv' /\ SignalsStay /\ SignalsStaySupported
      /\ lastBlockId' \in Nat /\ lastBlockId <= lastBlockId'
      /\ NothingAsked => /\ ChartIds' = ChartIds
                    /\ \A c \in ChartIds : ShownBy'[c] = ShownBy[c]
  BY RequestsAreDone
<1>2. /\ drawStep = "start" /\ drawStep' = "charts"
      /\ transmutation' = NoTransmutation /\ removals' = {} /\ NothingAsked'
      /\ toDraw' = [i \in DOMAIN charts' |-> charts'[i].id]
      /\ acted' = IF acted = 2 THEN 2 ELSE acted + 1
      /\ UNCHANGED <<modal, sinkForNewPlot, dragState, payload, landed, gestures>>
  BY DEF StartFrame, NothingAsked, dragVars
<1>3. FrameInv'
  <2>1. charts' \in Seq(ChartBlocks')
    BY <1>1 DEF BlocksInv
  <2>2. DOMAIN charts' = 1..Len(charts') /\ Len(charts') \in Nat
    <3> DEFINE B == ChartBlocks'
    <3> HIDE DEF B
    <3>1. charts' \in Seq(B)
      BY <2>1 DEF B
    <3> QED BY <3>1
  <2>3. \A i \in DOMAIN charts' : charts'[i].id \in ChartIds'
    BY DEF ChartIds
  <2>4. toDraw' \in Seq(ChartIds')
    BY <1>2, <2>2, <2>3
  <2> QED BY <1>2, <2>4 DEF FrameInv
<1>4. GestureTypes'
  <2>1. 0..lastBlockId \subseteq 0..lastBlockId'
    BY <1>1 DEF ChartInv, BlocksInv
  <2>2. dragState' \in [accepted : BOOLEAN, source : 0..lastBlockId', sink : SomeSignal]
    BY <1>2, <2>1 DEF ChartInv, GestureTypes
  <2>3. payload' \in {NoPayload} \union [sink : ChartSignals, source : 0..lastBlockId']
    BY <1>2, <2>1 DEF ChartInv, GestureTypes
  <2>4. modal' \in BOOLEAN /\ sinkForNewPlot' \in SomeSignal /\ gestures' \in Nat /\ acted' \in 0..2
    BY <1>2 DEF ChartInv, GestureTypes
  <2> QED BY <1>2, <2>2, <2>3, <2>4 DEF GestureTypes, SomeSignal
<1>5. DragIsKnown'
  <2> SUFFICES ASSUME payload.source # NoChart PROVE DragIsKnown'
    BY <1>2 DEF DragIsKnown
  <2>1. NothingAsked
    BY Settled
  <2> QED BY <1>1, <1>2, <2>1 DEF ChartInv, DragIsKnown
<1>6. CASE landed = NoChart
  <2>1. ChartInv'
    BY <1>1, <1>2, <1>3, <1>4, <1>5, <1>6, QuietIsRight
  <2> QED BY <1>1, <2>1 DEF StepIsRight
<1>7. CASE landed # NoChart
  <2>1. /\ dragState.accepted /\ NothingAsked
        /\ landed \in ChartIds /\ dragState.source \in ChartIds
        /\ acted = 0 /\ (landed # dragState.source => dragState.sink \in ShownBy[landed])
    BY <1>2, <1>7 DEF ChartInv, DropIsGivenUp
  <2>2. acted' = 1
    BY <1>2, <2>1
  <2>3. \E i \in DOMAIN toDraw' : toDraw'[i] = dragState.source
    <3>1. dragState.source \in ChartIds'
      BY <1>1, <2>1
    <3> QED BY <1>2, <3>1 DEF ChartIds
  <2>4. DropIsGivenUp'
    BY <1>1, <1>2, <2>1, <2>2, <2>3 DEF DropIsGivenUp
  <2>5. RequestsAreFresh'
    <3>1. NoChartIsZero'
      BY <1>1, NumbersArePositiveAfter
    <3>2. transmutation'.id \notin ChartIds'
      BY <1>2, <3>1 DEF NoTransmutation, NoChartIsZero
    <3> QED BY <1>2, <3>2 DEF RequestsAreFresh
  <2> QED BY <1>1, <1>3, <1>4, <1>5, <2>4, <2>5 DEF ChartInv, StepIsRight
<1> QED BY <1>6, <1>7

\* Every step keeps the invariant and the signals of the charts.
LEMMA ChartStepIsRight == ASSUME ChartInv, [ChartWindowsNext]_chartVars PROVE StepIsRight
<1>1. CASE ChartWindowsNext
  BY <1>1, StartFrameIsRight, DrawChartIsRight, DragFromChartIsRight, DropOnChartIsRight,
     ChooseTypeIsRight, DuplicateIsRight, RemoveChartIsRight, DrawLegendIsRight,
     DragFromLegendIsRight, DropOnLegendIsRight, ClickNewChartIsRight, DropOnNewChartIsRight,
     DrawDialogIsRight, ReleaseNowhereIsRight, ChooseNewChartIsRight, CancelNewChartIsRight
     DEF ChartWindowsNext
<1> QED BY <1>1, StutterIsRight

\* The charts of the file satisfy the invariant.
LEMMA ChartInitIsRight == ChartWindowsInit => ChartInv
<1> SUFFICES ASSUME ChartWindowsInit PROVE ChartInv
  OBVIOUS
<1> DEFINE n == Len(FileCharts)
<1>1. /\ n \in Nat /\ DOMAIN FileCharts = 1..n
      /\ \A i \in 1..n : FileCharts[i].type \in ChartTypes /\ FileCharts[i].names \subseteq SignalNames
      /\ \A i, j \in 1..n : i # j => FileCharts[i].name # FileCharts[j].name
  BY ChartWindowsAssumption
<1> HIDE DEF n
<1>2. /\ charts = [i \in 1..n |-> [id |-> i, type |-> FileCharts[i].type, names |-> FileCharts[i].names]]
      /\ chartWindows = [i \in 1..n |-> [name |-> FileCharts[i].name, block |-> i]]
      /\ chartCounter = 1 /\ lastWindowId = 0 /\ lastBlockId = n
  BY <1>1 DEF ChartWindowsInit, n
<1>3. \A i \in 1..n : charts[i].id = i /\ charts[i] \in ChartBlocks
  BY <1>1, <1>2 DEF ChartBlocks
<1>4. \A i \in 1..n : /\ chartWindows[i].block = i /\ chartWindows[i].name = FileCharts[i].name
                      /\ chartWindows[i] = [name |-> FileCharts[i].name, block |-> i]
  BY <1>2
<1>5. DOMAIN charts = 1..n /\ DOMAIN chartWindows = 1..n
  BY <1>2
<1>6. ChartIds = 1..n
  BY <1>3, <1>5 DEF ChartIds
<1>7. BlocksInv
  <2>1. charts \in Seq(ChartBlocks)
    BY <1>1, <1>2, <1>3
  <2>2. \A i \in 1..n : FileCharts[i].name \in WindowNames
    BY <1>4, <1>5 DEF WindowNames
  <2>3. \A i \in 1..n : chartWindows[i] \in [name : WindowNames, block : ChartIds]
    <3>1. ASSUME NEW i \in 1..n PROVE chartWindows[i] \in [name : WindowNames, block : ChartIds]
      <4> DEFINE a == FileCharts[i].name
      <4>1. chartWindows[i] = [name |-> a, block |-> i] /\ a \in WindowNames /\ i \in ChartIds
        BY <1>4, <1>6, <2>2
      <4> HIDE DEF a
      <4> QED BY <4>1
    <3> QED BY <3>1
  <2>4. chartWindows \in Seq([name : WindowNames, block : ChartIds])
    <3> DEFINE W == [name : WindowNames, block : ChartIds]
    <3> HIDE DEF W
    <3>1. \A i \in 1..n : chartWindows[i] \in W
      BY <2>3 DEF W
    <3>2. chartWindows \in Seq(W)
      BY <1>1, <1>2, <3>1
    <3> QED BY <3>2 DEF W
  <2>5. \A i, j \in DOMAIN chartWindows :
           i # j => /\ chartWindows[i].name # chartWindows[j].name
                    /\ chartWindows[i].block # chartWindows[j].block
    BY <1>1, <1>4, <1>5
  <2>6. \A i, j \in DOMAIN charts : i # j => charts[i].id # charts[j].id
    BY <1>3, <1>5
  <2>7. {chartWindows[i].block : i \in DOMAIN chartWindows} = ChartIds
    BY <1>4, <1>5, <1>6
  <2> QED BY <1>1, <1>2, <2>1, <2>4, <2>5, <2>6, <2>7 DEF BlocksInv
<1>8. GestureTypes
  <2>1. NoDrag \in [accepted : BOOLEAN, source : 0..lastBlockId, sink : SomeSignal]
    BY <1>1, <1>2 DEF NoDrag, SomeSignal, NoChart
  <2>2. NoSignal \in SomeSignal
    BY DEF SomeSignal
  <2>3. acted = 2 /\ gestures = 0 /\ removals = {}
    BY DEF ChartWindowsInit
  <2>9. modal \in BOOLEAN
    BY Zenon DEF ChartWindowsInit
  <2>4. /\ dragState = NoDrag /\ payload = NoPayload /\ transmutation = NoTransmutation
        /\ sinkForNewPlot = NoSignal
    BY DEF ChartWindowsInit
  <2>5. acted \in 0..2 /\ gestures \in Nat
    BY <2>3
  <2>6. dragState \in [accepted : BOOLEAN, source : 0..lastBlockId, sink : SomeSignal]
    BY <2>1, <2>4, Zenon
  <2>7. sinkForNewPlot \in SomeSignal
    BY <2>2, <2>4
  <2>8. /\ payload \in {NoPayload} \union [sink : ChartSignals, source : 0..lastBlockId]
        /\ transmutation \in {NoTransmutation} \union [id : 1..lastBlockId, type : ChartTypes]
        /\ removals \subseteq 1..lastBlockId
    BY <2>3, <2>4
  <2> QED BY <2>5, <2>6, <2>7, <2>8, <2>9, Zenon DEF GestureTypes
<1>9. FrameInv
  BY DEF ChartWindowsInit, FrameInv
<1>10. RequestsAreFresh
  <2>1. NoTransmutation.id \notin ChartIds
    BY <1>1, <1>6 DEF NoTransmutation, NoChart
  <2>2. transmutation = NoTransmutation /\ removals = {}
    BY DEF ChartWindowsInit
  <2> QED BY <2>1, <2>2 DEF RequestsAreFresh, NothingAsked
<1>11. DragIsKnown /\ DropIsGivenUp
  BY DEF ChartWindowsInit, DragIsKnown, DropIsGivenUp, NoPayload
<1> QED BY <1>7, <1>8, <1>9, <1>10, <1>11 DEF ChartInv

\* The invariant holds.
LEMMA ChartInvIsInvariant == ChartWindowsSpec => []ChartInv
<1>1. ChartInv /\ [ChartWindowsNext]_chartVars => ChartInv'
  BY ChartStepIsRight DEF StepIsRight
<1> QED BY <1>1, ChartInitIsRight, PTL DEF ChartWindowsSpec

\* The invariant has the types.
LEMMA ChartTypesHold == ChartInv => ChartWindowsTypeOK
<1> SUFFICES ASSUME ChartInv PROVE ChartWindowsTypeOK
  OBVIOUS
<1>1. \A i \in DOMAIN charts : charts[i] \in ChartBlocks
  BY DEF ChartInv, BlocksInv
<1>2. \A i \in DOMAIN charts :
       /\ charts[i].id \in 1..lastBlockId /\ charts[i].type \in ChartTypes
       /\ charts[i].names \subseteq SignalNames
  BY <1>1 DEF ChartBlocks
<1>3. lastBlockId \in Nat /\ payload.sink \in ChartSignals \union {NoSignal}
      /\ transmutation.id \in 0..lastBlockId
  <2>1. lastBlockId \in Nat
    BY DEF ChartInv, BlocksInv
  <2>2. payload \in {NoPayload} \union [sink : ChartSignals, source : 0..lastBlockId]
        /\ NoPayload.sink = NoSignal
    BY DEF ChartInv, GestureTypes, NoPayload
  <2>3. transmutation \in {NoTransmutation} \union [id : 1..lastBlockId, type : ChartTypes]
        /\ NoTransmutation.id = 0
    BY DEF ChartInv, GestureTypes, NoTransmutation, NoChart
  <2> QED BY <2>1, <2>2, <2>3
<1> QED BY <1>2, <1>3 DEF ChartInv, GestureTypes, FrameInv, ChartWindowsTypeOK, SomeSignal

\* The charts, drags and requests have their types.
THEOREM ChartTypeCorrect == ChartWindowsSpec => []ChartWindowsTypeOK
BY ChartInvIsInvariant, ChartTypesHold, PTL

\* The invariant is more than that each chart has a window.
LEMMA EachHasAWindow == ChartInv => EachChartHasAWindow
<1> SUFFICES ASSUME ChartInv PROVE EachChartHasAWindow
  OBVIOUS
<1>1. ToSet(toDraw) \subseteq ChartIds
  BY DEF ChartInv, FrameInv, ToSet
<1> QED BY <1>1 DEF ChartInv, BlocksInv, EachChartHasAWindow

\* Each chart has a window and each window a chart, with names that differ, and what is
\* drawn in a frame exists, although menus remove and replace charts; no window loses a
\* signal but the one that was dragged away from it, which the chart on which it was
\* dropped then shows; and a chart that supports what it shows goes on to do so.
THEOREM ChartsStayRight == ChartWindowsSpec => ChartsAreRight
<1>1. ChartInv /\ [ChartWindowsNext]_chartVars
      => [charts' # charts => SignalsStay /\ SignalsStaySupported]_chartVars
  BY ChartStepIsRight DEF StepIsRight
<1> QED BY <1>1, ChartInvIsInvariant, EachHasAWindow, PTL DEF ChartWindowsSpec, ChartsAreRight

-----------------------------------------------------------------------------
(* RemoteStream.                                                           *)

QueuedAcquisitions ==
  [first : Nat, n : Nat, read : Nat, triggers : Seq([index : Nat, name : Nat]), yaml : Seq(Nat)]

\* The queue's types.
StreamInv == queue \in Seq(QueuedAcquisitions) /\ sampleOf \in Seq(Nat) /\ StreamTypeOK

\* What is enqueued is an acquisition.
LEMMA EnqueuedTypes ==
  ASSUME StreamInv, NEW n \in 0..MaxSize, NEW indices \in Seq(0..n - 1), NEW warning \in BOOLEAN,
         received + n <= MaxSamples, Enqueue(n, indices, warning)
  PROVE  StreamInv'
<1> DEFINE before == Len(sampleOf)
           triggers == [k \in 1..Len(indices) |-> [index |-> indices[k], name |-> before + k]]
           yaml == [k \in 1..Len(indices) |-> before + k]
           mark == [index |-> 0, name |-> before + Len(indices) + 1]
           skipped == IF warning THEN <<mark>> ELSE <<>>
           d == Acquisition(received + 1, n, skipped \o triggers, yaml)
           a == [k \in 1..Len(indices) |-> received + 1 + indices[k]]
           b == IF warning THEN <<received + 1>> ELSE <<>>
<1>1. /\ queue' = Append(queue, d) /\ received' = received + n /\ sampleOf' = sampleOf \o a \o b
      /\ UNCHANGED <<bulkPc, size, written>>
  BY DEF Enqueue
<1>2. n \in Nat /\ received \in Nat /\ before \in Nat /\ Len(indices) \in Nat
      /\ \A k \in 1..Len(indices) : indices[k] \in 0..n - 1
  BY StreamAssumption DEF StreamInv, StreamTypeOK
<1>3. d \in QueuedAcquisitions
  <2>1. triggers \in Seq([index : Nat, name : Nat]) /\ yaml \in Seq(Nat)
    BY <1>2
  <2>2. mark \in [index : Nat, name : Nat]
    BY <1>2
  <2> HIDE DEF triggers, yaml, mark
  <2>3. skipped \in Seq([index : Nat, name : Nat])
    <3>1. <<mark>> \in Seq([index : Nat, name : Nat])
      BY <2>2
    <3>2. <<>> \in Seq([index : Nat, name : Nat])
      OBVIOUS
    <3> QED BY <3>1, <3>2
  <2> HIDE DEF skipped
  <2>4. skipped \o triggers \in Seq([index : Nat, name : Nat])
    BY <2>1, <2>3
  <2> QED BY <1>2, <2>1, <2>4 DEF QueuedAcquisitions, Acquisition
<1>4. d.first = received + 1 /\ d.n = n /\ d.read = 0
  BY DEF Acquisition
<1>5. /\ queue \in Seq(QueuedAcquisitions) /\ DOMAIN queue = 1..Len(queue)
      /\ sampleOf \in Seq(Nat) /\ DOMAIN sampleOf = 1..Len(sampleOf)
  BY DEF StreamInv
<1> HIDE DEF d
<1>6. /\ queue' \in Seq(QueuedAcquisitions) /\ DOMAIN queue' = 1..Len(queue) + 1
      /\ queue'[Len(queue) + 1] = d
      /\ \A k \in 1..Len(queue) : queue'[k] = queue[k]
  BY <1>1, <1>3, <1>5
<1> DEFINE S == 1..(received' + 1)
<1>7. sampleOf \in Seq(S) /\ a \in Seq(S) /\ b \in Seq(S)
  <2>1. \A k \in 1..Len(sampleOf) : sampleOf[k] \in S
    <3>1. \A k \in 1..Len(sampleOf) : sampleOf[k] \in 1..(received + 1)
      BY <1>5 DEF StreamInv, StreamTypeOK
    <3> QED BY <1>1, <1>2, <3>1
  <2>2. \A k \in 1..Len(indices) : received + 1 + indices[k] \in S
    BY <1>1, <1>2
  <2>3. received + 1 \in S
    BY <1>1, <1>2
  <2> HIDE DEF S
  <2>4. sampleOf \in Seq(S)
    BY <1>5, <2>1
  <2>5. a \in Seq(S)
    BY <1>2, <2>2
  <2>6. <<received + 1>> \in Seq(S) /\ <<>> \in Seq(S)
    BY <2>3
  <2> QED BY <2>4, <2>5, <2>6
<1> HIDE DEF a, b
<1>8. /\ sampleOf' \in Seq(Nat)
      /\ \A k \in DOMAIN sampleOf' : sampleOf'[k] \in 1..(received' + 1)
  <2>1. S \subseteq Nat
    BY <1>1, <1>2
  <2> HIDE DEF S
  <2>2. sampleOf \o a \in Seq(S)
    BY <1>7
  <2>3. (sampleOf \o a) \o b \in Seq(S)
    BY <1>7, <2>2
  <2>4. sampleOf' \in Seq(S)
    BY <1>1, <2>3
  <2>5. DOMAIN sampleOf' = 1..Len(sampleOf') /\ \A k \in 1..Len(sampleOf') : sampleOf'[k] \in S
    BY <2>4
  <2>6. sampleOf' \in Seq(Nat)
    <3> DEFINE x == sampleOf'
    <3> SUFFICES x \in Seq(Nat)
      OBVIOUS
    <3>1. x \in Seq(S) /\ \A k \in 1..Len(x) : x[k] \in Nat
      BY <2>1, <2>4, <2>5
    <3> HIDE DEF x
    <3>2. Len(x) \in Nat /\ x = [k \in 1..Len(x) |-> x[k]]
      BY <3>1
    <3> QED BY <3>1, <3>2
  <2> QED BY <2>5, <2>6 DEF S
<1>9. \A k \in DOMAIN queue' :
        /\ queue'[k].first \in 1..(received' + 1) /\ queue'[k].n \in 0..MaxSize
        /\ queue'[k].read = 0 \/ queue'[k].read \in 0..(queue'[k].n - 1)
        /\ k > 1 => queue'[k].read = 0
  <2> SUFFICES ASSUME NEW k \in DOMAIN queue'
               PROVE  /\ queue'[k].first \in 1..(received' + 1) /\ queue'[k].n \in 0..MaxSize
                      /\ queue'[k].read = 0 \/ queue'[k].read \in 0..(queue'[k].n - 1)
                      /\ k > 1 => queue'[k].read = 0
    OBVIOUS
  <2>1. CASE k \in 1..Len(queue)
    <3>1. /\ queue[k].first \in 1..(received + 1) /\ queue[k].n \in 0..MaxSize
          /\ queue[k].read = 0 \/ queue[k].read \in 0..(queue[k].n - 1)
          /\ k > 1 => queue[k].read = 0
      BY <1>5, <2>1 DEF StreamInv, StreamTypeOK
    <3>2. queue[k].first \in 1..(received' + 1)
      BY <1>1, <1>2, <3>1
    <3> QED BY <1>6, <2>1, <3>1, <3>2
  <2>2. CASE k = Len(queue) + 1
    BY <1>1, <1>2, <1>4, <1>6, <2>2
  <2> QED BY <1>5, <1>6, <2>1, <2>2
<1>10. received' \in 0..MaxSamples
  BY <1>1, <1>2, StreamAssumption
<1> QED BY <1>1, <1>6, <1>8, <1>9, <1>10 DEF StreamInv, StreamTypeOK

LEMMA StreamTypes ==
  /\ StreamInit => StreamInv
  /\ StreamInv /\ [StreamNext]_streamVars => StreamInv'
<1>1. StreamInit => StreamInv
  BY StreamAssumption DEF StreamInit, StreamInv, StreamTypeOK
<1>2. ASSUME StreamInv, [StreamNext]_streamVars PROVE StreamInv'
  <2> USE <1>2
  <2>0. /\ size \in 0..MaxOutput /\ written \in 0..size /\ MaxOutput \in Nat
        /\ MaxSize \in Nat \ {0} /\ MaxSamples \in Nat
    BY StreamAssumption DEF StreamInv, StreamTypeOK
  <2>1. CASE \E n \in 0..MaxSize : \E indices \in TriggerIndices(n), w \in BOOLEAN : Receive(n, indices, w)
    <3>1. PICK n \in 0..MaxSize : \E indices \in TriggerIndices(n), w \in BOOLEAN : Receive(n, indices, w)
      BY <2>1
    <3>2. PICK indices \in TriggerIndices(n), w \in BOOLEAN : Receive(n, indices, w)
      BY <3>1
    <3>3. indices \in Seq(0..n - 1)
      <4>1. PICK k \in 0..MaxTriggers : indices \in [1..k -> 0..(n - 1)]
        BY DEF TriggerIndices
      <4>2. k \in Nat
        BY StreamAssumption
      <4> QED BY <4>1, <4>2
    <3> QED BY <3>2, <3>3, EnqueuedTypes DEF Receive
  <2>2. CASE Interrupt
    <3>1. 1 \in 0..MaxSize /\ <<0>> \in Seq(0..1 - 1) /\ received + 1 <= MaxSamples
      BY <2>0, <2>2 DEF Interrupt, StreamInv, StreamTypeOK
    <3> QED BY <2>2, <3>1, EnqueuedTypes DEF Interrupt
  <2>3. ASSUME UNCHANGED <<queue, received, sampleOf>>, bulkPc' \in {"idle", "copy"},
               size' \in 0..MaxOutput, written' \in 0..size'
        PROVE  StreamInv'
    BY <2>3 DEF StreamInv, StreamTypeOK
  <2>4. CASE \E n \in 1..MaxOutput : ProcessBulk(n)
    BY <2>0, <2>3, <2>4 DEF ProcessBulk
  <2>5. CASE SkipEmpty \/ Done \/ UNCHANGED streamVars
    BY <2>5 DEF SkipEmpty, Done, streamVars, StreamInv, StreamTypeOK
  <2>6. CASE Publish
    BY <2>0, <2>3, <2>6 DEF Publish
  <2>7. CASE CopyChunk
    <3> DEFINE d == Head(queue)  n == ChunkSize(d)
    <3>1. /\ written < size /\ queue # <<>> /\ d.n # 0 /\ written' = written + n
          /\ queue' = IF d.read + n = d.n THEN Tail(queue) ELSE <<[d EXCEPT !.read = @ + n]>> \o Tail(queue)
          /\ UNCHANGED <<bulkPc, size, received, sampleOf>>
      BY <2>7 DEF CopyChunk, WriteChunk
    <3>2. queue \in Seq(QueuedAcquisitions) /\ DOMAIN queue = 1..Len(queue) /\ Len(queue) \in Nat \ {0}
      BY <3>1 DEF StreamInv
    <3>3. d = queue[1] /\ 1 \in DOMAIN queue /\ d \in QueuedAcquisitions
      BY <3>1, <3>2
    <3>4. /\ \A k \in DOMAIN queue :
               /\ queue[k].first \in 1..(received + 1) /\ queue[k].n \in 0..MaxSize
               /\ queue[k].read = 0 \/ queue[k].read \in 0..(queue[k].n - 1)
               /\ k > 1 => queue[k].read = 0
          /\ bulkPc \in {"idle", "copy"}
      BY DEF StreamInv, StreamTypeOK
    <3>5. d.n \in Nat /\ d.read \in Nat /\ d.read < d.n
      BY <2>0, <3>1, <3>3, <3>4
    <3>6. n \in Nat /\ written + n <= size /\ d.read + n <= d.n
      BY <2>0, <3>1, <3>5 DEF ChunkSize, Min2
    <3> HIDE DEF n, d
    <3>7. written' \in 0..size' /\ size' \in 0..MaxOutput
      BY <2>0, <3>1, <3>6
    <3>8. /\ Tail(queue) \in Seq(QueuedAcquisitions) /\ Len(Tail(queue)) = Len(queue) - 1
          /\ \A k \in 1..Len(Tail(queue)) : Tail(queue)[k] = queue[k + 1] /\ k + 1 \in DOMAIN queue
      BY <3>1, <3>2
    <3>9. CASE d.read + n = d.n
      <4>1. queue' = Tail(queue)
        BY <3>1, <3>9
      <4>2. \A k \in DOMAIN queue' :
              /\ queue'[k].first \in 1..(received + 1) /\ queue'[k].n \in 0..MaxSize
              /\ queue'[k].read = 0
        <5> SUFFICES ASSUME NEW k \in 1..Len(Tail(queue))
                     PROVE  /\ queue'[k].first \in 1..(received + 1) /\ queue'[k].n \in 0..MaxSize
                            /\ queue'[k].read = 0
          BY <3>8, <4>1
        <5>1. k + 1 \in DOMAIN queue /\ k + 1 > 1 /\ queue'[k] = queue[k + 1]
          BY <3>8, <4>1
        <5> QED BY <3>4, <5>1
      <4>3. queue' \in Seq(QueuedAcquisitions)
        BY <3>8, <4>1
      <4> QED BY <3>1, <3>4, <3>7, <4>2, <4>3 DEF StreamInv, StreamTypeOK
    <3>10. CASE d.read + n # d.n
      <4> DEFINE e == [d EXCEPT !.read = d.read + n]
      <4>1. e \in QueuedAcquisitions /\ e.first = d.first /\ e.n = d.n /\ e.read = d.read + n
        <5>1. /\ d = [first |-> d.first, n |-> d.n, read |-> d.read,
                      triggers |-> d.triggers, yaml |-> d.yaml]
              /\ d.first \in Nat /\ d.n \in Nat
              /\ d.triggers \in Seq([index : Nat, name : Nat]) /\ d.yaml \in Seq(Nat)
          BY <3>3 DEF QueuedAcquisitions
        <5> DEFINE r == d.read + n
        <5>2. r \in Nat
          BY <3>5, <3>6
        <5> HIDE DEF r
        <5>3. [d EXCEPT !.read = r] = [first |-> d.first, n |-> d.n, read |-> r,
                                       triggers |-> d.triggers, yaml |-> d.yaml]
          BY <5>1
        <5>4. [first |-> d.first, n |-> d.n, read |-> r, triggers |-> d.triggers, yaml |-> d.yaml]
                \in QueuedAcquisitions
          BY <5>1, <5>2 DEF QueuedAcquisitions
        <5> QED BY <5>3, <5>4 DEF r
      <4>2. queue' = <<e>> \o Tail(queue)
        BY <3>1, <3>10
      <4> HIDE DEF e
      <4>3. /\ queue' \in Seq(QueuedAcquisitions) /\ DOMAIN queue' = 1..Len(queue)
            /\ queue'[1] = e /\ \A k \in 2..Len(queue) : queue'[k] = queue[k]
        <5>1. <<e>> \in Seq(QueuedAcquisitions) /\ Len(<<e>>) = 1 /\ <<e>>[1] = e
          BY <4>1
        <5> QED BY <3>2, <3>8, <4>2, <5>1
      <4>4. \A k \in DOMAIN queue' :
              /\ queue'[k].first \in 1..(received + 1) /\ queue'[k].n \in 0..MaxSize
              /\ queue'[k].read = 0 \/ queue'[k].read \in 0..(queue'[k].n - 1)
              /\ k > 1 => queue'[k].read = 0
        <5> SUFFICES ASSUME NEW k \in 1..Len(queue)
                     PROVE  /\ queue'[k].first \in 1..(received + 1) /\ queue'[k].n \in 0..MaxSize
                            /\ queue'[k].read = 0 \/ queue'[k].read \in 0..(queue'[k].n - 1)
                            /\ k > 1 => queue'[k].read = 0
          BY <4>3
        <5>1. CASE k = 1
          <6>1. d.first \in 1..(received + 1) /\ d.n \in 0..MaxSize
            BY <3>3, <3>4
          <6>2. e.read \in 0..(e.n - 1)
            BY <3>5, <3>6, <3>10, <4>1
          <6> QED BY <4>1, <4>3, <5>1, <6>1, <6>2
        <5>2. CASE k # 1
          <6>1. queue'[k] = queue[k]
            BY <3>2, <4>3, <5>2
          <6> QED BY <3>2, <3>4, <6>1
        <5> QED BY <5>1, <5>2
      <4> QED BY <3>1, <3>4, <3>7, <4>3, <4>4 DEF StreamInv, StreamTypeOK
    <3> QED BY <3>9, <3>10
  <2> QED BY <2>1, <2>2, <2>4, <2>5, <2>6, <2>7 DEF StreamNext, SourceBlock
<1> QED BY <1>1, <1>2

-----------------------------------------------------------------------------
(* UiScheduler.                                                            *)

\* What the UI sends to the scheduler.
SchedulerMessages == {"RUNNING", "REQUESTED_STOP", "REQUESTED_PAUSE", "GRC"}

\* The scheduler's types: what waits in its ports, and room for the destructor's
\* change of the progress.
SchedulerInv ==
  /\ UiSchedulerTypeOK
  /\ toScheduler \in Seq(SchedulerMessages) /\ fromScheduler \in Seq(Active)
  /\ uiPc \notin {"join", "await", "destroyed"} => progress <= MaxProgress

\* Whoever loops alone has set the flag and keeps it: only another task clears it.
TaskInv ==
  /\ \A t \in Tasks : task[t] \in Looping =>
       uiUpdateRunning \/ \E u \in Tasks \ {t} : task[u] # "unused"
  /\ LoopingTaskIsAwaited

-----------------------------------------------------------------------------
LEMMA SchedulerTypes ==
  /\ SchedulerInit => SchedulerInv
  /\ SchedulerInv /\ [SchedulerNext]_schedulerVars => SchedulerInv'
<1> USE UiSchedulerAssumption
<1>1. SchedulerInit => SchedulerInv
  BY DEF SchedulerInit, SchedulerInv, UiSchedulerTypeOK, Active
<1>2. ASSUME SchedulerInv, UNCHANGED schedulerVars PROVE SchedulerInv'
  BY <1>2 DEF SchedulerInv, UiSchedulerTypeOK, schedulerVars, taskVars, threadVars, messageVars
<1>3. ASSUME SchedulerInv, SchedulerNext PROVE SchedulerInv'
  <2> USE <1>3 DEF SchedulerInv, UiSchedulerTypeOK, taskVars, threadVars, messageVars
  <2>0. Active = {"RUNNING", "PAUSED"}
    BY DEF Active
  <2>1. CASE QueueTask
    BY <2>1 DEF QueueTask
  <2>2. CASE SpawnThread
    BY <2>2 DEF SpawnThread
  <2>3. CASE HandleReply
    <3>1. Head(fromScheduler) \in Active /\ Tail(fromScheduler) \in Seq(Active)
      BY <2>3 DEF HandleReply
    <3>2. \A k \in DOMAIN Tail(fromScheduler) : Tail(fromScheduler)[k] \in Active
      BY <3>1
    <3> QED BY <2>3, <3>1, <3>2 DEF HandleReply
  <2>4. CASE AnnounceShutdown
    BY <2>4 DEF AnnounceShutdown
  <2>5. CASE StopIfActive
    BY <2>5 DEF StopIfActive
  <2>6. CASE WakeWaiting
    BY <2>6 DEF WakeWaiting
  <2>7. CASE JoinThread
    BY <2>7 DEF JoinThread
  <2>8. CASE AwaitTask
    BY <2>8 DEF AwaitTask
  <2>9. CASE CloseScheduler
    <3>1. toScheduler' \in Seq(SchedulerMessages)
      BY <2>9 DEF CloseScheduler, SchedulerMessages
    <3> QED BY <2>9, <3>1 DEF CloseScheduler
  <2>10. ASSUME NEW m \in SchedulerMessages, SendRequest(m) PROVE SchedulerInv'
    BY <2>10 DEF SendRequest
  <2>11. ASSUME NEW t \in Tasks, PoolTask(t) PROVE SchedulerInv'
    <3>1. CASE UNCHANGED <<task, oldProgress, drawnFor>>
      BY <2>11, <3>1 DEF PoolTask
    <3>2. ASSUME NEW p \in {"enter", "notify", "done"} \cup Looping, GoTo(t, p),
                 oldProgress' \in [Tasks -> 0..(MaxProgress + 1)], drawnFor' \in 0..progress
          PROVE  SchedulerInv'
      BY <2>11, <3>2 DEF PoolTask, GoTo
    <3>3. CASE TestRunning(t)
      BY <3>2, <3>3 DEF TestRunning
    <3>4. CASE EnterLoop(t)
      BY <3>2, <3>4 DEF EnterLoop, Looping
    <3>5. CASE TestLoop(t)
      BY <3>2, <3>5 DEF TestLoop, Looping
    <3>6. CASE Update(t)
      BY <3>2, <3>6 DEF Update, Looping
    <3>7. CASE AwaitProgress(t)
      BY <3>2, <3>7 DEF AwaitProgress, Looping
    <3>8. CASE EndTask(t)
      BY <3>2, <3>8 DEF EndTask
    <3> QED BY <2>11, <3>1, <3>3, <3>4, <3>5, <3>6, <3>7, <3>8 DEF PoolTask
  <2>12. CASE Initialise
    BY <2>12 DEF Initialise
  <2>13. CASE Run
    BY <2>13, <2>0 DEF Run
  <2>14. CASE HandleRequest
    <3>1. Head(toScheduler) \in SchedulerMessages /\ Tail(toScheduler) \in Seq(SchedulerMessages)
      BY <2>14 DEF HandleRequest
    <3>2. state' \in {"IDLE", "INITIALISED", "REQUESTED_STOP", "STOPPED"} \cup Active
      BY <2>0, <2>14, <3>1 DEF HandleRequest, SchedulerMessages
    <3>3. fromScheduler' \in Seq(Active)
      BY <2>14 DEF HandleRequest
    <3>4. \A k \in DOMAIN fromScheduler' : fromScheduler'[k] \in Active
      BY <3>3
    <3> QED BY <2>14, <3>1, <3>2, <3>3, <3>4 DEF HandleRequest
  <2>15. CASE Process
    BY <2>15 DEF Process
  <2>16. CASE LeaveLoop
    BY <2>16 DEF LeaveLoop
  <2>17. CASE Over
    BY <1>2, <2>17 DEF Over
  <2> QED BY <1>3, <2>1, <2>2, <2>3, <2>4, <2>5, <2>6, <2>7, <2>8, <2>9, <2>10, <2>11, <2>12,
             <2>13, <2>14, <2>15, <2>16, <2>17
          DEF SchedulerNext, UiThread, SchedulerThread, SchedulerMessages
<1> QED BY <1>1, <1>2, <1>3

LEMMA TaskInvInductive ==
  /\ SchedulerInit => TaskInv
  /\ SchedulerInv /\ TaskInv /\ [SchedulerNext]_schedulerVars => TaskInv'
<1>1. SchedulerInit => TaskInv
  BY DEF SchedulerInit, TaskInv, LoopingTaskIsAwaited, Looping
<1>2. ASSUME TaskInv, UNCHANGED <<task, uiUpdateRunning>>, uiPc' = "destroyed" => uiPc = "destroyed"
      PROVE  TaskInv'
  BY <1>2 DEF TaskInv, LoopingTaskIsAwaited
<1>3. ASSUME SchedulerInv, TaskInv, SchedulerNext PROVE TaskInv'
  <2> USE <1>3
  <2>1. CASE QueueTask
    <3>1. PICK t \in Tasks : task[t] = "unused" /\ task' = [task EXCEPT ![t] = "queued"]
      BY <2>1 DEF QueueTask
    <3>2. task \in [Tasks -> {"unused", "queued", "enter", "notify", "done"} \cup Looping]
      BY DEF SchedulerInv, UiSchedulerTypeOK
    <3>3. \A u \in Tasks : /\ task'[u] \in Looping => task[u] \in Looping
                           /\ task[u] # "unused" => task'[u] # "unused"
      BY <3>1, <3>2 DEF Looping
    <3> QED BY <2>1, <3>3 DEF QueueTask, TaskInv, LoopingTaskIsAwaited, taskVars
  <2>2. CASE AwaitTask
    BY <2>2 DEF AwaitTask, TaskInv, LoopingTaskIsAwaited, taskVars
  <2>3. ASSUME NEW t \in Tasks, PoolTask(t) PROVE TaskInv'
    <3>1. CASE UNCHANGED <<task, uiUpdateRunning>>
      BY <1>2, <2>3, <3>1 DEF PoolTask
    <3>2. CASE ~UNCHANGED <<task, uiUpdateRunning>>
      <4>1. \/ TestRunning(t) \/ EnterLoop(t) \/ TestLoop(t) \/ Update(t)
            \/ AwaitProgress(t) \/ EndTask(t)
        BY <2>3, <3>2 DEF PoolTask
      <4>2. uiPc # "destroyed" \/ task[t] \in {"unused", "done"}
        BY <2>3, <3>2 DEF PoolTask
      <4>3. task[t] \notin {"unused", "done"}
        BY <4>1 DEF TestRunning, EnterLoop, TestLoop, Update, AwaitProgress, EndTask
      <4>4. uiPc' # "destroyed"
        BY <2>3, <4>2, <4>3 DEF PoolTask
      <4>5. task \in [Tasks -> {"unused", "queued", "enter", "notify", "done"} \cup Looping]
        BY DEF SchedulerInv, UiSchedulerTypeOK
      <4>6. /\ \A u \in Tasks \ {t} : task'[u] = task[u]
            /\ task'[t] # "unused"
        BY <4>1, <4>5 DEF TestRunning, EnterLoop, TestLoop, Update, AwaitProgress, EndTask, GoTo
      <4>7. \/ task'[t] \notin Looping
            \/ uiUpdateRunning'
            \/ task[t] \in Looping /\ UNCHANGED uiUpdateRunning
        BY <4>1, <4>5 DEF TestRunning, EnterLoop, TestLoop, Update, AwaitProgress, EndTask,
             GoTo, Looping
      <4> QED BY <4>4, <4>6, <4>7 DEF TaskInv, LoopingTaskIsAwaited
    <3> QED BY <3>1, <3>2
  <2>4. CASE \/ SpawnThread \/ HandleReply \/ AnnounceShutdown \/ StopIfActive
             \/ WakeWaiting \/ JoinThread \/ CloseScheduler \/ SchedulerThread \/ Process
             \/ Over \/ \E m : SendRequest(m)
    <3>1. UNCHANGED <<task, uiUpdateRunning>> /\ (uiPc' = "destroyed" => uiPc = "destroyed")
      BY <2>4 DEF SpawnThread, HandleReply, AnnounceShutdown, StopIfActive, WakeWaiting,
           JoinThread, CloseScheduler, SchedulerThread, Initialise, Run, HandleRequest,
           LeaveLoop, Process, Over, SendRequest, taskVars, schedulerVars
    <3> QED BY <1>2, <3>1
  <2> QED BY <2>1, <2>2, <2>3, <2>4 DEF SchedulerNext, UiThread
<1> QED BY <1>1, <1>2, <1>3 DEF schedulerVars, taskVars

\* _uiUpdateRunning.wait(true) in the destructor waits for the task that set the flag:
\* the scheduler is not destroyed under a task in its loop, unless a second task was
\* queued, passed the test of the flag before it was set and cleared it.
THEOREM LoopIsLeftFirst ==
  SchedulerSpec => [](UiSchedulerTypeOK /\ LoopingTaskIsAwaited)
<1>1. SchedulerInv /\ TaskInv => UiSchedulerTypeOK /\ LoopingTaskIsAwaited
  BY DEF SchedulerInv, TaskInv
<1> QED BY <1>1, SchedulerTypes, TaskInvInductive, PTL DEF SchedulerSpec

-----------------------------------------------------------------------------
(* The composition.                                                        *)

LEMMA Followed ==
  /\ Init => SchedulerInit /\ DashboardsInit /\ StreamInit
  /\ [Next]_partVars => /\ [SchedulerNext]_schedulerVars
                        /\ [DashboardsNext]_dashboardVars
                        /\ [StreamNext]_streamVars
BY DEF Init, Next, partVars

\* TypeOK, for any tasks, dashboards, addresses and samples: a scheduler, the
\* dashboards and a stream keep to their types, the one that is followed and the others.
THEOREM FollowedTypeCorrect == FairSpec => []TypeOK
<1>1. SchedulerInv /\ TypesInv /\ StreamInv => TypeOK
  BY TypesInvMeans DEF SchedulerInv, StreamInv, TypeOK
<1> QED BY <1>1, Followed, SchedulerTypes, TypesInitially, TypesStep, StreamTypes, PTL
        DEF FairSpec

\* What the three of them promise holds of them as they are composed: a late reply finds
\* the dashboard that asked (the fetch in Dashboard.cpp), a dashboard is drawn on the page
\* that was made for it, and the destructor of the scheduler waits for the task in its loop.
THEOREM FollowedIsSafe ==
  FairSpec => []( /\ CallbackFindsDashboard /\ PageIsOfDashboard
                  /\ DashboardPointersAreCurrent /\ LoopingTaskIsAwaited )
<1>1. TypesInv => CallbackFindsDashboard /\ PageIsOfDashboard /\ DashboardPointersAreCurrent
  BY InvMeans, PageInvMeans DEF TypesInv, DashboardPointersAreCurrent
<1>2. SchedulerInv /\ TaskInv => LoopingTaskIsAwaited
  BY DEF TaskInv
<1> QED BY <1>1, <1>2, Followed, SchedulerTypes, TaskInvInductive, TypesInitially, TypesStep, PTL
        DEF FairSpec

=============================================================================
