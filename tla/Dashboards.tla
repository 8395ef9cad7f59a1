----------------------------- MODULE Dashboards -----------------------------
(***************************************************************************)
(* The UI's dashboard: chosen from the list of stored ones, fetched, shown *)
(* on its page, saved, replaced and closed.  All of it happens on the main *)
(* thread, in its frames or in functions posted to the event loop, but the *)
(* replies of the service come in any order and at any time, and find the  *)
(* application in another state than the one that asked.                   *)
(*                                                                         *)
(* Raw pointers to dashboards are compared and kept beyond their lives, so *)
(* that an address is told from the dashboard that lives there, which is   *)
(* known by its number.  Remote dashboards are fetched from the service,   *)
(* local ones are read from files at once; the empty dashboard has neither *)
(* a store nor a flow graph.  Of a stored dashboard the flow graph is kept *)
(* that it has, which may be none.                                         *)
(***************************************************************************)
EXTENDS Naturals, Sequences, FiniteSets

CONSTANTS
  Addresses,    \* where dashboards may be allocated
  RemoteNames, LocalNames,  \* names of stored dashboards
  Nowhere,
  MaxLoads,     \* bound on the dashboards created
  MaxEvents     \* bound on the user's other requests

\* A dashboard of the service, or a local file.
Description == {<<"remote", n>> : n \in RemoteNames}
                 \cup {<<"local", n>> : n \in LocalNames}

\* The bound has room for the dashboards that are opened from the start.
ASSUME DashboardsAssumption ==
  /\ Cardinality(Addresses) > 1 /\ Nowhere \notin Addresses \cup Description
  /\ MaxLoads \in Nat \ 0..1 /\ MaxEvents \in Nat

VARIABLES
  heap,       \* the dashboard at each address
  dashboard, loadedDashboard,  \* the App's owning and its raw pointer
  page,       \* the dashboardPage: where its dashboard was, and its number
  dashboardToLoad, prepare,    \* prepare: prepareForANewDashboardToLoad
  mainViewMode, drawing,       \* drawing: a frame has come to its pages
  known,      \* m_storageInfos has the service
  dashboards, \* m_dashboards
  asked,      \* requests at the service
  posted,     \* functions in the event loop
  store,      \* the stored dashboards: whether they have a flow graph
  loads, events,
  notified,   \* an error was shown since a dashboard was chosen
  unshown     \* a dashboard was replaced that never had a page

appVars   == <<heap, dashboard, loadedDashboard, page, mainViewMode, loads,
               notified, unshown>>
frameVars == <<dashboardToLoad, prepare, drawing>>
listVars  == <<known, dashboards>>
dashboardVars == <<appVars, frameVars, listVars, asked, posted, store, events>>

Empty == <<"memory", Nowhere>>

NoObject == [number |-> 0]
Object(n, desc) == [number |-> n, description |-> desc, isInUse |-> FALSE,
                    isInitialised |-> FALSE, scheduler |-> "none"]
NoPage == [at |-> Nowhere, number |-> 0]

Current == heap[dashboard]
Initialised == dashboard # Nowhere /\ Current.isInitialised

\* The first local dashboard, if there is any, is loaded, and the service is asked
\* for its list, and for the dashboard that the command line may name.
DashboardsInit ==
  /\ heap = [a \in Addresses |-> NoObject]
  /\ dashboard = Nowhere /\ loadedDashboard = Nowhere /\ page = NoPage
  /\ prepare = FALSE
  /\ dashboardToLoad \in IF LocalNames = {} THEN {Nowhere}
                         ELSE {<<"local", n>> : n \in LocalNames}
  /\ mainViewMode = "VIEW" /\ drawing = FALSE
  /\ known = TRUE /\ dashboards = {<<"local", n>> : n \in LocalNames}
  /\ \E named \in {{}} \cup {{[kind |-> "open", name |-> n]} : n \in RemoteNames} :
       asked = {[kind |-> "names"]} \cup named
  /\ posted = <<>>
  /\ store = [d \in Description |-> TRUE]
  /\ loads = 0 /\ events = 0
  /\ notified = FALSE /\ unshown = FALSE

-----------------------------------------------------------------------------
(* App::loadDashboard and closeDashboard.                                  *)

Stopped == dashboard = Nowhere \/ Current.scheduler \in {"none", "stopped"}

\* Mutant of Refuse: nothing is shown.
RefuseSilently ==
  /\ heap' = IF dashboard # Nowhere /\ ~Current.isInUse
             THEN [heap EXCEPT ![dashboard].scheduler = "stopping"] ELSE heap
  /\ UNCHANGED <<dashboard, loads, unshown, asked, notified>>

\* The scheduler that runs is asked to stop, and has not stopped after a second:
\* an error is shown.
Refuse ==
  /\ notified' = TRUE
  /\ heap' = IF Current.isInUse THEN heap
             ELSE [heap EXCEPT ![dashboard].scheduler = "stopping"]
  /\ UNCHANGED <<dashboard, loads, unshown, asked>>

\* What Dashboard::load makes of a new dashboard.  A file is read at once; if that
\* fails, before or after the scheduler was made, nobody is told to close it yet.
Loaded(o) ==
  CASE o.description[1] = "memory" -> {o}
    [] o.description[1] = "remote" -> {[o EXCEPT !.isInUse = TRUE]}
    [] o.description[1] = "local" ->
         IF store[o.description]
         THEN {[o EXCEPT !.scheduler = "running", !.isInitialised = TRUE],
               [o EXCEPT !.scheduler = "running"]}
         ELSE {o}

\* The new dashboard is made before the old one is destroyed.
Create(desc) ==
  /\ loads' = loads + 1
  /\ \E a \in Addresses \ {dashboard} :
       \E o \in Loaded(Object(loads + 1, desc)) :
         /\ heap' = [b \in Addresses |-> IF b = a THEN o ELSE NoObject]
         /\ dashboard' = a
         /\ asked' = IF o.isInUse
                     THEN asked \cup {[kind |-> "flowgraph", at |-> a,
                                       number |-> o.number, name |-> desc[2]]}
                     ELSE asked
         /\ notified' = (notified \/ (desc[1] = "local" /\ ~o.isInitialised))
  /\ unshown' = (unshown \/ (dashboard # Nowhere /\ page.number # Current.number))

\* Mutant of LoadDashboard: a dashboard is replaced although it is in use.
LoadAnyway(desc) == Create(desc) \/ (~Stopped /\ Refuse)

\* While the main thread waits, nothing ends a use of the dashboard; its scheduler
\* may stop in time.
LoadDashboard(desc) ==
  IF dashboard # Nowhere /\ Current.isInUse THEN Refuse
  ELSE Create(desc) \/ (~Stopped /\ Refuse)

\* Mutant of CloseDashboard: the dashboard is not destroyed.
CloseLeaking ==
  /\ dashboard' = Nowhere /\ loadedDashboard' = Nowhere /\ page' = NoPage
  /\ unshown' = FALSE /\ UNCHANGED heap

\* The dashboard goes with its page; its scheduler is joined.
CloseDashboard ==
  /\ heap' = [heap EXCEPT ![dashboard] = NoObject]
  /\ dashboard' = Nowhere /\ loadedDashboard' = Nowhere /\ page' = NoPage
  /\ unshown' = FALSE

-----------------------------------------------------------------------------
(* A frame: processAndRender.                                              *)

\* "Loading..." is shown for one frame.
PrepareFrame ==
  /\ ~drawing /\ prepare
  /\ prepare' = FALSE
  /\ UNCHANGED <<appVars, dashboardToLoad, drawing, listVars, asked, posted,
                 store, events>>

\* The chosen dashboard is loaded.
LoadFrame ==
  /\ ~drawing /\ ~prepare /\ dashboardToLoad # Nowhere
  /\ LoadDashboard(dashboardToLoad)
  /\ dashboardToLoad' = Nowhere /\ mainViewMode' = "VIEW"
  /\ UNCHANGED <<loadedDashboard, page, prepare, drawing, listVars, posted,
                 store, events>>

\* "Are we in the process of changing the dashboard?"  Then its page is made.
ShowFrame ==
  /\ ~drawing /\ ~prepare /\ dashboardToLoad = Nowhere
  /\ drawing' = TRUE
  /\ IF Initialised /\ loadedDashboard # dashboard
     THEN /\ loadedDashboard' = dashboard
          /\ page' = [at |-> dashboard, number |-> Current.number]
          /\ unshown' = FALSE
     ELSE UNCHANGED <<loadedDashboard, page, unshown>>
  /\ UNCHANGED <<heap, dashboard, mainViewMode, loads, notified, dashboardToLoad,
                 prepare, listVars, asked, posted, store, events>>

\* The pages are drawn, and nothing is clicked.
EndFrame ==
  /\ drawing /\ drawing' = FALSE
  /\ UNCHANGED <<appVars, dashboardToLoad, prepare, listVars, asked, posted,
                 store, events>>

-----------------------------------------------------------------------------
(* What the user may do in a frame, most of it on the OpenDashboardPage.   *)

\* The dashboard of the command line may still be opened.
Opening ==
  Cardinality({r \in asked \cup {posted[k].request : k \in DOMAIN posted} :
                 r.kind = "open"})

InPage(mode) ==
  /\ drawing /\ mainViewMode = mode /\ drawing' = FALSE
  /\ events < MaxEvents /\ events' = events + 1

SwitchMode ==
  /\ InPage("VIEW")
  /\ mainViewMode' = "OPEN_SAVE"
  /\ UNCHANGED <<heap, dashboard, loadedDashboard, page, loads, notified, unshown,
                 dashboardToLoad, prepare, listVars, asked, posted, store>>

\* requestLoadDashboard
Choose ==
  /\ drawing /\ mainViewMode = "OPEN_SAVE" /\ drawing' = FALSE
  /\ loads + Opening < MaxLoads
  /\ dashboardToLoad' \in dashboards /\ prepare' = TRUE
  /\ notified' = FALSE
  /\ UNCHANGED <<heap, dashboard, loadedDashboard, page, mainViewMode, loads,
                 unshown, listVars, asked, posted, store, events>>

\* loadEmptyDashboard, in the middle of the frame.
OpenEmpty ==
  /\ InPage("OPEN_SAVE")
  /\ loads + Opening < MaxLoads
  /\ LoadDashboard(Empty)
  /\ UNCHANGED <<loadedDashboard, page, mainViewMode, dashboardToLoad, prepare,
                 listVars, posted, store>>

Close ==
  /\ InPage("OPEN_SAVE")
  /\ Initialised
  /\ CloseDashboard
  /\ UNCHANGED <<mainViewMode, loads, notified, dashboardToLoad, prepare,
                 listVars, asked, posted, store>>

\* Saved is the header and the layout: a file is left without a flow graph, and
\* the service is sent one that is empty.
Save ==
  /\ InPage("OPEN_SAVE")
  /\ Initialised
  /\ LET d == Current.description
     IN IF d[1] = "remote"
        THEN /\ asked' = asked \cup {[kind |-> "set", name |-> d[2]]}
             /\ UNCHANGED store
        ELSE store' = [store EXCEPT ![d] = FALSE] /\ UNCHANGED asked
  /\ UNCHANGED <<appVars, dashboardToLoad, prepare, listVars, posted>>

\* A source is removed with its dashboards, or added again.
RemoveSource ==
  /\ InPage("OPEN_SAVE")
  /\ known /\ known' = FALSE
  /\ dashboards' = {d \in dashboards : d[1] # "remote"}
  /\ UNCHANGED <<appVars, dashboardToLoad, prepare, asked, posted, store>>

AddSource ==
  /\ InPage("OPEN_SAVE")
  /\ known' = TRUE
  /\ asked' = asked \cup {[kind |-> "names"]}
  /\ UNCHANGED <<appVars, dashboardToLoad, prepare, dashboards, posted, store>>

-----------------------------------------------------------------------------
(* The DashboardWorker answers; replies are posted to the main thread.     *)

AnswerRequest ==
  \E r \in asked :
    /\ asked' = asked \ {r}
    /\ IF r.kind = "set"
       THEN /\ store' = [store EXCEPT ![<<"remote", r.name>>] = FALSE]
            /\ UNCHANGED posted
       ELSE /\ \E ok \in BOOLEAN :
                 /\ ok /\ r.kind = "flowgraph" => store[<<"remote", r.name>>]
                 /\ posted' = Append(posted, [request |-> r, ok |-> ok])
            /\ UNCHANGED store
    /\ UNCHANGED <<appVars, frameVars, listVars, events>>

\* The callback of Dashboard::load: the flow graph is there, or is not; it can
\* be made and laid out, or is closed again with an error.
Fetched(c) ==
  LET a == c.request.at
  IN /\ IF c.ok
        THEN \/ /\ heap' = [heap EXCEPT ![a].isInUse = FALSE,
                                        ![a].isInitialised = TRUE,
                                        ![a].scheduler = "running"]
                /\ UNCHANGED <<dashboard, loadedDashboard, page, unshown, notified>>
             \/ CloseDashboard /\ notified' = TRUE
        ELSE CloseDashboard /\ notified' = TRUE
     /\ UNCHANGED <<loads, mainViewMode, asked, listVars>>

\* fireCallbacks
FireCallback ==
  /\ ~drawing /\ posted # <<>>
  /\ posted' = Tail(posted)
  /\ LET c == Head(posted)
         r == c.request
     IN CASE r.kind = "flowgraph" -> Fetched(c)
          [] r.kind = "names" ->
               /\ asked' = IF c.ok
                           THEN asked \cup {[kind |-> "header", name |-> n] :
                                              n \in RemoteNames}
                           ELSE asked
               /\ UNCHANGED <<appVars, listVars>>
          [] r.kind = "header" ->
               /\ dashboards' = IF c.ok THEN dashboards \cup {<<"remote", r.name>>}
                                ELSE dashboards
               /\ UNCHANGED <<appVars, known, asked>>
          [] r.kind = "open" ->
               /\ IF c.ok THEN LoadDashboard(<<"remote", r.name>>)
                  ELSE UNCHANGED <<heap, dashboard, loads, notified, unshown, asked>>
               /\ UNCHANGED <<loadedDashboard, page, mainViewMode, listVars>>
  /\ UNCHANGED <<frameVars, store, events>>

\* A scheduler stops when it was asked to, or because its graph has ended.
SchedulerStops ==
  /\ dashboard # Nowhere /\ Current.scheduler \in {"running", "stopping"}
  /\ heap' = [heap EXCEPT ![dashboard].scheduler = "stopped"]
  /\ UNCHANGED <<dashboard, loadedDashboard, page, mainViewMode, loads, notified,
                 unshown, frameVars, listVars, asked, posted, store, events>>

-----------------------------------------------------------------------------
FrameStep == PrepareFrame \/ LoadFrame \/ ShowFrame \/ EndFrame

UserRequest ==
  \/ SwitchMode \/ Choose \/ OpenEmpty \/ Close \/ Save
  \/ RemoveSource \/ AddSource

DashboardsNext == FrameStep \/ UserRequest \/ AnswerRequest \/ FireCallback \/ SchedulerStops

DashboardsSpec == DashboardsInit /\ [][DashboardsNext]_dashboardVars

\* Frames are drawn, each after the functions posted before it, and requests are
\* answered, by the client if not by the service.
DashboardsFairness ==
  /\ WF_dashboardVars(FrameStep)
  /\ SF_dashboardVars(FireCallback)
  /\ WF_dashboardVars(AnswerRequest)

-----------------------------------------------------------------------------
(* Properties.                                                             *)

DashboardsTypeOK ==
  /\ \A a \in Addresses : heap[a] # NoObject <=> a = dashboard
  /\ {dashboard, loadedDashboard, page.at} \subseteq Addresses \cup {Nowhere}
  /\ loads \in 0..MaxLoads /\ events \in 0..MaxEvents
  /\ dashboardToLoad \in Description \cup {Nowhere}
  /\ dashboards \subseteq Description
  /\ prepare => dashboardToLoad # Nowhere
  /\ {prepare, drawing, known, notified, unshown} \subseteq BOOLEAN
  /\ dashboard # Nowhere =>
       /\ Current.number \in 1..loads
       /\ ~(Current.isInUse /\ Current.isInitialised)
       /\ Current.isInitialised => Current.scheduler # "none"

\* The reply to the fetch of a flow graph finds the dashboard that asked for it,
\* although the reply may come after any number of frames and the callback holds
\* a raw pointer: what is in use is neither replaced nor closed.
CallbackFindsDashboard ==
  \A r \in asked \cup {posted[k].request : k \in DOMAIN posted} :
    r.kind = "flowgraph" =>
      r.at = dashboard /\ Current.number = r.number /\ Current.isInUse

\* A dashboard that is drawn is drawn on its own page, made with its layout, and
\* not on that of an earlier dashboard at the same address; this is so as long as
\* no dashboard was replaced that never had a page.
PageIsOfDashboard ==
  drawing /\ Initialised =>
    page.at = dashboard /\ (page.number = Current.number \/ unshown)

\* Whatever points to a dashboard, a fetch that is under way or the page, finds the
\* one that it was made for (App.hpp:280, Dashboard.cpp:315).
DashboardPointersAreCurrent == CallbackFindsDashboard /\ PageIsOfDashboard

Shown(desc) == Initialised /\ Current.description = desc /\ page.at = dashboard

\* The dashboard that the user chose is shown in the end, unless an error is, or
\* the dashboard of the command line has come in between.
ChosenIsShown ==
  \A d \in Description :
    dashboardToLoad = d ~>
      \/ Shown(d) \/ notified
      \/ dashboardToLoad # d /\ dashboard # Nowhere /\ Current.description # d
=============================================================================
