---------------------------- MODULE ChartWindows ----------------------------
(***************************************************************************)
(* The charts of a dashboard (Dashboard, DashboardPage, Chart): blocks of  *)
(* the UI graph that show signals, each in a window of its own, how they   *)
(* are created, copied, removed and changed into charts of another type,   *)
(* and how signals are dragged from chart to chart, to the legend and to   *)
(* the button for a new chart.                                             *)
(*                                                                         *)
(* A frame draws the charts in the order of the graph, then the legend,    *)
(* then the dialog for a new chart.  What a menu asks for while a chart is *)
(* drawn, and what the source of a drag has to give up, is done later, so  *)
(* that the order of the steps within and between frames matters.          *)
(*                                                                         *)
(* A signal is known by two names, that of its block and that of the       *)
(* signal; a chart may list it by either.  The sinks are registered all    *)
(* the time (PlotSinks follows those that come and go), so that a chart    *)
(* holds those that it names.                                              *)
(***************************************************************************)
EXTENDS Naturals, Sequences, SequencesExt, FiniteSets, Selections

CONSTANTS
  ChartSignals,   \* the signals of the flow graph
  StreamSignals,  \* those of them that are streams, the others are data sets
  FileCharts,     \* the charts of the file: [name, type, names], by the names of their windows
  MaxPlots,       \* kMaxPlots, beyond which no new chart is created
  MaxCharts,      \* bound: charts that are copied
  MaxGestures     \* bound: gestures of the user

\* The types of charts stand for what they support and how they take a drop.
ChartTypes == {"XYChart", "YYChart", "SurfacePlot"}
SignalNames == ChartSignals \X {"block", "signal"}

\* getAllWindowNamesInUse asserts that the windows of the file have different names.
ASSUME ChartWindowsAssumption ==
  /\ StreamSignals \subseteq ChartSignals /\ MaxPlots \in Nat /\ MaxGestures \in Nat
  /\ Len(FileCharts) \in Nat /\ DOMAIN FileCharts = 1..Len(FileCharts)
  /\ \A i \in DOMAIN FileCharts :
       FileCharts[i].type \in ChartTypes /\ FileCharts[i].names \subseteq SignalNames
  /\ \A i, j \in DOMAIN FileCharts : i # j => FileCharts[i].name # FileCharts[j].name

VARIABLES
  charts,         \* the chart blocks of the UI graph, in order: [id, type, names]
  chartWindows,   \* Dashboard::uiWindows: [name, block]
  chartCounter,   \* the number of the next "Chart N"
  lastWindowId,   \* lastUsedWindowId
  lastBlockId,    \* the number in the unique name of the last block
  dragState,      \* dnd::g_state
  payload,        \* the payload of ImGui, while something is dragged
  transmutation,  \* _pendingTransmutation
  removals,       \* _pendingRemovals
  modal,          \* whether the dialog for a new chart is open
  sinkForNewPlot, \* _sinkForNewPlot
  drawStep,       \* the step of the frame
  toDraw,         \* the charts that are still to be drawn in this frame
  acted,          \* frames since the user's last gesture, up to 2
  gestures,       \* how many there were
  landed          \* history: the chart on which the signal in dragState was dropped

chartPageVars == <<transmutation, removals, modal, sinkForNewPlot>>
drawVars == <<drawStep, toDraw>>
blockVars == <<charts, chartWindows, chartCounter, lastWindowId, lastBlockId>>
dragVars == <<dragState, payload, landed>>
chartVars == <<blockVars, dragVars, chartPageVars, drawVars, acted, gestures>>

NoSignal == "no signal"
NoChart == 0
NoTransmutation == [id |-> NoChart, type |-> ""]

supportedSignals(type) ==
  CASE type = "XYChart" -> ChartSignals
    [] type = "YYChart" -> StreamSignals
    [] type = "SurfacePlot" -> ChartSignals \ StreamSignals

ChartIds == {charts[i].id : i \in DOMAIN charts}
Chart(id) == CHOOSE c \in ToSet(charts) : c.id = id
SignalsIn(names) == {n[1] : n \in names}
NamesOf(s) == {<<s, "block">>, <<s, "signal">>}
----------------------------------------------------------------------------
(* Blocks and their windows.                                                *)

WindowNames == {chartWindows[i].name : i \in DOMAIN chartWindows}

\* generateUniqueNameForUiWindow: a number is appended until nobody has the name.
FreshNumber(base) ==
  IF base \o <<0>> \notin WindowNames THEN 0
  ELSE CHOOSE k \in lastWindowId + 1 .. lastWindowId + Len(chartWindows) + 1 :
         /\ base \o <<k>> \notin WindowNames
         /\ \A j \in lastWindowId + 1 .. k - 1 : base \o <<j>> \in WindowNames

\* emplaceChartBlock and a window for the block that is named after base.
AddChart(type, names, base) ==
  LET n == FreshNumber(base)
  IN  /\ lastBlockId' = lastBlockId + 1
      /\ charts' = Append(charts, [id |-> lastBlockId + 1, type |-> type, names |-> names])
      /\ chartWindows' = Append(chartWindows, [name |-> base \o <<n>>, block |-> lastBlockId + 1])
      /\ lastWindowId' = IF n = 0 THEN lastWindowId ELSE n

\* Dashboard::newUIBlock, if the page has room for one more window.
NewUIBlock(type, sink) ==
  IF Len(chartWindows) < MaxPlots
  THEN /\ AddChart(type, IF sink = NoSignal THEN {} ELSE {<<sink, "signal">>},
                   <<"Chart", chartCounter>>)
       /\ chartCounter' = chartCounter + 1
  ELSE UNCHANGED blockVars

\* copyChart: the copy's window is named after the unique name of its block, and
\* no limit applies.
CopyChart(id) ==
  /\ AddChart(Chart(id).type, Chart(id).names, <<"Block", lastBlockId + 1>>)
  /\ UNCHANGED chartCounter

Renewed(block) ==
  [i \in DOMAIN chartWindows |->
     IF chartWindows[i].block = block
     THEN [chartWindows[i] EXCEPT !.block = lastBlockId + 1] ELSE chartWindows[i]]

\* transmuteUIWindow: a new block takes the signals and the window of the old one.
TransmuteUIWindow(id, type) ==
  /\ lastBlockId' = lastBlockId + 1
  /\ charts' = Append(Selected(charts, {i \in DOMAIN charts : charts[i].id # id}),
                      [id |-> lastBlockId + 1, type |-> type, names |-> Chart(id).names])
  /\ chartWindows' = Renewed(id)

\* deleteChart, for each chart that is to be removed and still exists.
DeleteCharts(ids) ==
  /\ charts' = Selected(charts, {i \in DOMAIN charts : charts[i].id \notin ids})
  /\ chartWindows' = Selected(chartWindows, {i \in DOMAIN chartWindows :
                                               chartWindows[i].block \notin ids})

NoDrag == [accepted |-> FALSE, source |-> NoChart, sink |-> NoSignal]
NoPayload == [sink |-> NoSignal, source |-> NoChart]

\* The charts of the file keep the names that they have there.
ChartWindowsInit ==
  /\ charts = [i \in DOMAIN FileCharts |->
                 [id |-> i, type |-> FileCharts[i].type, names |-> FileCharts[i].names]]
  /\ chartWindows = [i \in DOMAIN FileCharts |->
                       [name |-> FileCharts[i].name, block |-> i]]
  /\ chartCounter = 1 /\ lastWindowId = 0 /\ lastBlockId = Len(FileCharts)
  /\ dragState = NoDrag /\ payload = NoPayload /\ landed = NoChart
  /\ transmutation = NoTransmutation /\ removals = {}
  /\ modal = FALSE /\ sinkForNewPlot = NoSignal
  /\ drawStep = "start" /\ toDraw = <<>> /\ acted = 2 /\ gestures = 0
----------------------------------------------------------------------------
(* A frame.                                                                 *)

\* DashboardPage::draw begins with what the menus of the last frame asked for.
\* One click asks for one thing, so that there is never both.
StartFrame ==
  /\ drawStep = "start"
  /\ IF transmutation.id \in ChartIds
     THEN TransmuteUIWindow(transmutation.id, transmutation.type)
     ELSE DeleteCharts(removals) /\ UNCHANGED lastBlockId
  /\ transmutation' = NoTransmutation /\ removals' = {}
  /\ drawStep' = "charts"
  /\ toDraw' = [i \in DOMAIN charts' |-> charts'[i].id]
  /\ acted' = IF acted = 2 THEN 2 ELSE acted + 1
  /\ UNCHANGED <<chartCounter, lastWindowId, modal, sinkForNewPlot, dragVars, gestures>>

\* A click needs the press before it, and a drag some movement: gestures do not
\* follow each other in successive frames.
MayAct == acted = 2 /\ gestures < MaxGestures
Act == acted' = 0 /\ gestures' = gestures + 1
NotAct == UNCHANGED <<acted, gestures>>

\* A mutant of isAcceptedFrom: whoever is drawn next gives up the signal.
AcceptedFromAny(id) == dragState.accepted

isAcceptedFrom(id) == dragState.accepted /\ dragState.source = id

\* The names that chart id has after processAcceptedDndRemoval.
NamesLeft(id) ==
  IF isAcceptedFrom(id) THEN Chart(id).names \ NamesOf(dragState.sink) ELSE Chart(id).names

WithNames(id, names) ==
  [i \in DOMAIN charts |->
     IF charts[i].id = id THEN [charts[i] EXCEPT !.names = names] ELSE charts[i]]

\* A chart is drawn: it first gives up the signal that was dragged away from it.
DrawPrologue(id) ==
  /\ drawStep = "charts" /\ toDraw # <<>> /\ Head(toDraw) = id
  /\ toDraw' = Tail(toDraw)
  /\ UNCHANGED drawStep

DragAfterPrologue(id) == IF isAcceptedFrom(id) THEN NoDrag ELSE dragState

DrawChart ==
  \E id \in ChartIds :
    /\ DrawPrologue(id)
    /\ charts' = WithNames(id, NamesLeft(id))
    /\ dragState' = DragAfterPrologue(id)
    /\ landed' = IF isAcceptedFrom(id) THEN NoChart ELSE landed
    /\ NotAct
    /\ UNCHANGED <<chartWindows, chartCounter, lastWindowId, lastBlockId, payload, chartPageVars>>

Calm == MayAct /\ ~modal /\ payload = NoPayload

\* dnd::setupPayload: an earlier drop is no longer of interest.
setupPayload(s, id) ==
  /\ payload' = [sink |-> s, source |-> id]
  /\ dragState' = [accepted |-> FALSE, source |-> id, sink |-> s]
  /\ landed' = NoChart

\* setupLegendDragSources: a signal is dragged from the legend of a chart.
DragFromChart ==
  \E id \in ChartIds : \E s \in SignalsIn(NamesLeft(id)) :
    /\ DrawPrologue(id) /\ Calm /\ Act
    /\ charts' = WithNames(id, NamesLeft(id))
    /\ setupPayload(s, id)
    /\ UNCHANGED <<chartWindows, chartCounter, lastWindowId, lastBlockId, chartPageVars>>

\* getPayloadStatus; a surface plot does not ask (handleSurfaceDropTarget).
TakesPayload(type) == type = "SurfacePlot" \/ payload.sink \in supportedSignals(type)

\* handlePlotDropTarget: the chart lists the signal by the name of its block; the
\* chart that it came from, which may be the same one, is to give it up.
DropOnChart ==
  \E id \in ChartIds :
    /\ DrawPrologue(id) /\ MayAct /\ Act
    /\ payload # NoPayload /\ TakesPayload(Chart(id).type)
    /\ charts' = WithNames(id, NamesLeft(id) \union {<<payload.sink, "block">>})
    /\ dragState' = IF payload.source # NoChart
                    THEN [dragState EXCEPT !.accepted = TRUE] ELSE DragAfterPrologue(id)
    /\ landed' = IF payload.source # NoChart THEN id ELSE landed
    /\ payload' = NoPayload
    /\ UNCHANGED <<chartWindows, chartCounter, lastWindowId, lastBlockId, chartPageVars>>

\* The callbacks that setDashboard installs note what a menu asks for.
requestChartTransmutation(id, type) ==
  transmutation' = [id |-> id, type |-> type] /\ UNCHANGED removals
requestChartRemoval(id) ==
  removals' = removals \union {id} /\ UNCHANGED transmutation

\* drawChartTypeSubmenu offers the types that support all the signals of the chart.
ChooseType ==
  \E id \in ChartIds : \E type \in ChartTypes \ {Chart(id).type} :
    /\ DrawPrologue(id) /\ Calm /\ Act
    /\ SignalsIn(NamesLeft(id)) \subseteq supportedSignals(type)
    /\ charts' = WithNames(id, NamesLeft(id))
    /\ requestChartTransmutation(id, type)
    /\ UNCHANGED <<chartWindows, chartCounter, lastWindowId, lastBlockId, dragVars,
                   modal, sinkForNewPlot>>

\* drawDuplicateChartMenuItem: the copy is made at once, and drawn from the next frame.
Duplicate ==
  \E id \in ChartIds :
    /\ DrawPrologue(id) /\ Calm /\ Act
    /\ ~isAcceptedFrom(id) /\ Len(charts) < MaxCharts
    /\ CopyChart(id)
    /\ UNCHANGED <<dragVars, chartPageVars>>

\* drawRemoveChartMenuItem
RemoveChart ==
  \E id \in ChartIds :
    /\ DrawPrologue(id) /\ Calm /\ Act
    /\ charts' = WithNames(id, NamesLeft(id))
    /\ requestChartRemoval(id)
    /\ UNCHANGED <<chartWindows, chartCounter, lastWindowId, lastBlockId, dragVars,
                   modal, sinkForNewPlot>>

\* drawLegend comes when the charts are drawn.
LegendStep ==
  /\ drawStep = "charts" /\ toDraw = <<>>
  /\ drawStep' = "dialog"
  /\ UNCHANGED <<blockVars, toDraw, transmutation, removals>>

DrawLegend == LegendStep /\ NotAct /\ UNCHANGED <<dragVars, modal, sinkForNewPlot>>

\* dnd::handleDropTarget, of the targets that are no charts.
AcceptDrop(accepted) ==
  /\ payload # NoPayload
  /\ dragState' = [dragState EXCEPT !.accepted = accepted]
  /\ payload' = NoPayload /\ landed' = NoChart

\* GlobalSignalLegend::drawSink: the payload has no source, and g_state is left alone.
DragFromLegend ==
  \E s \in ChartSignals :
    /\ LegendStep /\ Calm /\ Act
    /\ payload' = [sink |-> s, source |-> NoChart]
    /\ UNCHANGED <<dragState, landed, modal, sinkForNewPlot>>

\* handleLegendDropTarget: the signal leaves the chart that it came from.
DropOnLegend ==
  /\ LegendStep /\ MayAct /\ Act
  /\ AcceptDrop(payload.source # NoChart)
  /\ UNCHANGED <<modal, sinkForNewPlot>>

\* The button for a new chart, and a signal that is dropped on it.
ClickNewChart ==
  /\ LegendStep /\ Calm /\ Act
  /\ modal' = TRUE
  /\ UNCHANGED <<dragVars, sinkForNewPlot>>

DropOnNewChart ==
  /\ LegendStep /\ MayAct /\ Act
  /\ AcceptDrop(TRUE)
  /\ sinkForNewPlot' = payload.sink /\ modal' = TRUE

\* drawNewPlotModal ends the frame.  What is dropped nowhere is forgotten.
DialogStep ==
  /\ drawStep = "dialog" /\ drawStep' = "start"
  /\ UNCHANGED <<toDraw, transmutation, removals, sinkForNewPlot, dragState, landed>>

DrawDialog == DialogStep /\ NotAct /\ UNCHANGED <<blockVars, modal, payload>>

ReleaseNowhere ==
  /\ DialogStep /\ MayAct /\ Act
  /\ payload # NoPayload /\ payload' = NoPayload
  /\ UNCHANGED <<blockVars, modal>>

ChooseNewChart ==
  \E type \in ChartTypes :
    /\ DialogStep /\ MayAct /\ Act /\ modal
    /\ Len(charts) < MaxCharts
    /\ NewUIBlock(type, sinkForNewPlot)
    /\ modal' = FALSE /\ UNCHANGED payload

CancelNewChart ==
  /\ DialogStep /\ MayAct /\ Act /\ modal
  /\ modal' = FALSE /\ UNCHANGED <<blockVars, payload>>

ChartWindowsNext ==
  \/ StartFrame
  \/ DrawChart \/ DragFromChart \/ DropOnChart \/ ChooseType \/ Duplicate \/ RemoveChart
  \/ DrawLegend \/ DragFromLegend \/ DropOnLegend \/ ClickNewChart \/ DropOnNewChart
  \/ DrawDialog \/ ReleaseNowhere \/ ChooseNewChart \/ CancelNewChart

ChartWindowsSpec == ChartWindowsInit /\ [][ChartWindowsNext]_chartVars
----------------------------------------------------------------------------
ChartWindowsTypeOK ==
  /\ \A i \in DOMAIN charts :
       /\ charts[i].id \in 1..lastBlockId /\ charts[i].type \in ChartTypes
       /\ charts[i].names \subseteq SignalNames
  /\ dragState.accepted \in BOOLEAN /\ dragState.sink \in ChartSignals \union {NoSignal}
  /\ payload.sink \in ChartSignals \union {NoSignal}
  /\ transmutation.id \in 0..lastBlockId /\ removals \subseteq 1..lastBlockId
  /\ modal \in BOOLEAN /\ drawStep \in {"start", "charts", "dialog"}

\* Every chart has one window and every window a chart of the graph, the names of
\* windows differ (the assertion of getAllWindowNamesInUse), and a chart that is to
\* be drawn in this frame exists: requests of menus are deferred (DashboardPage.hpp,
\* processPendingTransmutation and processPendingRemovals) for this.
EachChartHasAWindow ==
  /\ \A i, j \in DOMAIN chartWindows :
       i # j => /\ chartWindows[i].name # chartWindows[j].name
                /\ chartWindows[i].block # chartWindows[j].block
  /\ {chartWindows[i].block : i \in DOMAIN chartWindows} = ChartIds
  /\ ToSet(toDraw) \subseteq ChartIds

\* The windows that a step keeps: pairs of places in chartWindows before and after.
KeptWindows ==
  {p \in (DOMAIN chartWindows) \X (DOMAIN chartWindows') :
     chartWindows[p[1]].name = chartWindows'[p[2]].name}

\* The blocks of the graph after the step, by their window.
ChartAfter(i) == CHOOSE c \in ToSet(charts') : c.id = chartWindows'[i].block
ChartBefore(i) == Chart(chartWindows[i].block)

\* A window shows the signals that it showed before, also when its chart becomes one
\* of another type, except the one that the user last dragged out of it; and if that
\* one was dropped on another chart, then this chart shows it.
SignalsStay ==
  \A p \in KeptWindows : \A s \in SignalsIn(ChartBefore(p[1]).names) \ SignalsIn(ChartAfter(p[2]).names) :
    /\ dragState.source = chartWindows[p[1]].block /\ dragState.sink = s
    /\ landed \in {NoChart, dragState.source} \/ s \in SignalsIn(Chart(landed).names)

\* A chart that supports what it shows goes on to do so, whatever is dropped on it
\* and whichever type it takes; only a surface plot accepts any signal.
SignalsStaySupported ==
  \A p \in KeptWindows :
    LET before == ChartBefore(p[1])
        after == ChartAfter(p[2])
    IN  /\ before.type # "SurfacePlot"
        /\ SignalsIn(before.names) \subseteq supportedSignals(before.type)
        => SignalsIn(after.names) \subseteq supportedSignals(after.type)

\* The three together.
ChartsAreRight ==
  /\ []EachChartHasAWindow
  /\ [][charts' # charts => SignalsStay /\ SignalsStaySupported]_chartVars
=============================================================================
