--------------------------- MODULE FlowgraphEditors ---------------------------
(***************************************************************************)
(* The page of a dashboard's flow graph: a stack of editors, the first of  *)
(* the root's graph, each further one of a group of blocks that the user   *)
(* opened in the one below.  A group is a graph that its parent's          *)
(* scheduler runs, or a scheduler with a graph of its own.  The user edits *)
(* the graph on top; each edit is a message that names the graph and its   *)
(* scheduler.                                                              *)
(*                                                                         *)
(* The editors hold the addresses of blocks, which others may remove.  A   *)
(* behaviour ends where an address of a removed block is used.             *)
(***************************************************************************)
EXTENDS Naturals, Sequences, FiniteSets

CONSTANTS
  Groups, Plain,           \* blocks that contain a graph, and others
  RootGraph, RootScheduler,
  Nil,
  MaxEditors, MaxDeletions \* bounds on open editors and on removed blocks

ASSUME FlowgraphEditorsAssumption ==
  /\ Groups \cap Plain = {} /\ Nil \notin Groups \cup Plain
  /\ RootGraph \notin Groups \cup Plain /\ RootScheduler \notin Groups \cup Plain
  /\ \A b \in Groups : <<"graph of", b>> \notin Groups \cup {RootGraph}
  /\ MaxEditors \in Nat \ {0} /\ MaxDeletions \in Nat

VARIABLES
  scheduled,      \* the groups that are schedulers
  inGraph,        \* the graph of each block of the model
  ownerScheduler, \* the scheduler that each group that is a graph was told of
  editors,        \* the open editors
  pinExported,    \* blocks with a port that their group exports
  request,        \* the last message
  usedRemoved     \* the address of a removed block was used

editorVars == <<scheduled, inGraph, ownerScheduler, editors, pinExported, request, usedRemoved>>

GraphOf(b) == IF b \in scheduled THEN <<"graph of", b>> ELSE b
Members(g) == {b \in DOMAIN inGraph : inGraph[b] = g}

GraphsOf(B) == {GraphOf(b) : b \in B \cap Groups}

\* A block, and all that is in its graph or in that of a block inside it.
Inside(b) ==
  {x \in DOMAIN inGraph : \A S \in SUBSET (DOMAIN inGraph) :
     /\ b \in S
     /\ \A y \in DOMAIN inGraph : inGraph[y] \in GraphsOf(S) => y \in S
     => x \in S}
AllBlocks == Groups \cup Plain

Editor(b, g) ==
  [block |-> b, graph |-> g, selectedBlock |-> Nil, menu |-> FALSE,
   exportPortRequest |-> Nil, dragged |-> Nil]

\* A graph is made with the name of the scheduler it is in, or of that of the graph.
makeGraphBlock(g) ==
  ownerScheduler[g] =
    IF inGraph[g] = RootGraph THEN RootScheduler
    ELSE LET parent == CHOOSE h \in Groups : GraphOf(h) = inGraph[g]
         IN IF parent \in scheduled THEN parent ELSE ownerScheduler[parent]

\* The root's graph is loaded, in which no group is inside itself, and the page opens
\* its first editor.
EditorsInit ==
  /\ scheduled \in SUBSET Groups
  /\ inGraph \in [AllBlocks -> {RootGraph} \cup GraphsOf(Groups)]
  /\ \A S \in SUBSET AllBlocks \ {{}} : \E b \in S : inGraph[b] \notin GraphsOf(S)
  /\ ownerScheduler \in [Groups \ scheduled -> {RootScheduler} \cup scheduled]
  /\ \A g \in Groups \ scheduled : makeGraphBlock(g)
  /\ editors = <<Editor(RootScheduler, RootGraph)>>
  /\ pinExported = {} /\ request = Nil /\ usedRemoved = FALSE

-----------------------------------------------------------------------------
Current == editors[Len(editors)]
SetCurrent(e) == editors' = [editors EXCEPT ![Len(editors)] = e]
IsPresent(b) == b \in DOMAIN inGraph
RootIsPresent == Len(editors) = 1 \/ IsPresent(Current.block)

\* Mutant of ownersForRoot: the outermost scheduler is taken for every graph.
OwnersOfRoot == [scheduler |-> RootScheduler, graph |-> Current.graph]

\* The scheduler of the graph that the editor shows: its block, or that block's own.
ownersForRoot ==
  [scheduler |-> IF Current.block \in Groups \ scheduled
                 THEN ownerScheduler[Current.block] ELSE Current.block,
   graph |-> Current.graph]

SendToGraph(endpoint, B) ==
  request' = [endpoint |-> endpoint, scheduler |-> ownersForRoot.scheduler,
              graph |-> ownersForRoot.graph, blocks |-> B]

requestExportPort(b, flag) ==
  /\ request' = [endpoint |-> "ExportPort", target |-> Current.block, blocks |-> {b}]
  /\ pinExported' = IF flag THEN pinExported \cup ({b} \cap DOMAIN inGraph) ELSE pinExported \ {b}

\* An editor of a group, which of a scheduler shows the graph.
pushEditor(b) ==
  /\ b \in Groups /\ Len(editors) < MaxEditors
  /\ editors' = Append([editors EXCEPT ![Len(editors)].menu = FALSE], Editor(b, GraphOf(b)))
  /\ UNCHANGED <<scheduled, inGraph, ownerScheduler, pinExported, request, usedRemoved>>

DoubleClick(b) == RootIsPresent /\ b \in Members(Current.graph) /\ pushEditor(b)

\* The full update that is asked for then belongs to the graph model.
popEditor ==
  /\ Len(editors) > 1 /\ editors' = SubSeq(editors, 1, Len(editors) - 1)
  /\ UNCHANGED <<scheduled, inGraph, ownerScheduler, pinExported, request, usedRemoved>>

OpenMenu(b) ==
  /\ RootIsPresent /\ b \in Members(Current.graph)
  /\ SetCurrent([Current EXCEPT !.menu = TRUE, !.selectedBlock = b])
  /\ UNCHANGED <<scheduled, inGraph, ownerScheduler, pinExported, request, usedRemoved>>

\* An item of the menu, for the block it was opened on.
InMenu == Current.menu /\ RootIsPresent /\ IsPresent(Current.selectedBlock)
CloseMenu == SetCurrent([Current EXCEPT !.menu = FALSE])

MenuDelete ==
  /\ InMenu /\ CloseMenu /\ SendToGraph("RemoveBlock", {Current.selectedBlock})
  /\ UNCHANGED <<scheduled, inGraph, ownerScheduler, pinExported, usedRemoved>>

MenuChangeType ==
  /\ InMenu /\ CloseMenu /\ SendToGraph("ReplaceBlock", {Current.selectedBlock})
  /\ UNCHANGED <<scheduled, inGraph, ownerScheduler, pinExported, usedRemoved>>

MenuEditGraph == InMenu /\ pushEditor(Current.selectedBlock)

\* A port of a group's block is exported under a name that is asked for.
MenuExport ==
  /\ InMenu /\ Len(editors) > 1
  /\ LET b == Current.selectedBlock
     IN IF b \in pinExported
        THEN CloseMenu /\ requestExportPort(b, FALSE)
        ELSE /\ SetCurrent([Current EXCEPT !.menu = FALSE, !.exportPortRequest = b])
             /\ UNCHANGED <<pinExported, request>>
  /\ UNCHANGED <<scheduled, inGraph, ownerScheduler, usedRemoved>>

AnswerExport ==
  /\ Current.exportPortRequest # Nil /\ RootIsPresent
  /\ SetCurrent([Current EXCEPT !.exportPortRequest = Nil])
  /\ \/ requestExportPort(Current.exportPortRequest, TRUE)
     \/ UNCHANGED <<pinExported, request>>
  /\ UNCHANGED <<scheduled, inGraph, ownerScheduler, usedRemoved>>

\* A pin is dragged over the background, over another pin, or released: on a pin it is
\* linked, outside of the blocks of a group it is exported.
DragPin(b) ==
  /\ RootIsPresent /\ Len(editors) > 1 /\ b \in Members(Current.graph) \ pinExported
  /\ Current.dragged \in {Nil, b}
  /\ SetCurrent([Current EXCEPT !.dragged = b])
  /\ UNCHANGED <<scheduled, inGraph, ownerScheduler, pinExported, request, usedRemoved>>

LinkPins(b, c) ==
  /\ RootIsPresent /\ {b, c} \subseteq Members(Current.graph) /\ Current.dragged \in {Nil, b}
  /\ SendToGraph("EmplaceEdge", {b, c})
  /\ UNCHANGED <<scheduled, inGraph, ownerScheduler, editors, pinExported, usedRemoved>>

ReleasePin ==
  /\ Current.dragged # Nil /\ RootIsPresent
  /\ SetCurrent([Current EXCEPT !.dragged = Nil])
  /\ \/ requestExportPort(Current.dragged, TRUE)
     \/ UNCHANGED <<pinExported, request>>
  /\ UNCHANGED <<scheduled, inGraph, ownerScheduler, usedRemoved>>

\* A new block for the graph on top.
AddBlock ==
  /\ RootIsPresent /\ SendToGraph("EmplaceBlock", {})
  /\ UNCHANGED <<scheduled, inGraph, ownerScheduler, editors, pinExported, usedRemoved>>

-----------------------------------------------------------------------------
\* A message tells that a block, with all that it contains, was removed; there are no
\* more of its ports.
BlockIsRemoved(b) ==
  /\ Cardinality(AllBlocks \ DOMAIN inGraph) < MaxDeletions
  /\ inGraph' = [x \in DOMAIN inGraph \ Inside(b) |-> inGraph[x]]
  /\ pinExported' = pinExported \cap DOMAIN inGraph'
  /\ UNCHANGED <<scheduled, ownerScheduler, editors, request, usedRemoved>>

\* A frame draws the editor on top, and its menu.
UseRemoved ==
  /\ ~RootIsPresent \/ (Current.menu /\ ~IsPresent(Current.selectedBlock))
  /\ usedRemoved' = TRUE
  /\ UNCHANGED <<scheduled, inGraph, ownerScheduler, editors, pinExported, request>>

EditorsNext ==
  /\ ~usedRemoved
  /\ \/ \E b \in DOMAIN inGraph : \/ DoubleClick(b) \/ OpenMenu(b) \/ DragPin(b)
                                  \/ BlockIsRemoved(b)
                                  \/ \E c \in DOMAIN inGraph : LinkPins(b, c)
     \/ popEditor \/ MenuDelete \/ MenuChangeType \/ MenuEditGraph \/ MenuExport
     \/ AnswerExport \/ ReleasePin \/ AddBlock \/ UseRemoved

EditorsSpec == EditorsInit /\ [][EditorsNext]_editorVars

-----------------------------------------------------------------------------
(* Properties.                                                             *)

EditorsTypeOK ==
  /\ scheduled \subseteq Groups /\ DOMAIN inGraph \subseteq AllBlocks
  /\ \A i \in DOMAIN editors :
       editors[i].block \in Groups \cup {RootScheduler} /\ editors[i].menu \in BOOLEAN
  /\ pinExported \subseteq DOMAIN inGraph /\ usedRemoved \in BOOLEAN

\* The graph that contains a block, and the block whose ports its group exports.
Container(b) ==
  IF inGraph[b] = RootGraph THEN RootScheduler
  ELSE CHOOSE g \in Groups : GraphOf(g) = inGraph[b]

\* The innermost scheduler around a group.
SchedulersAround(g) == {s \in scheduled \cap DOMAIN inGraph : g \in Inside(s)}
Runs(g) ==
  IF SchedulersAround(g) = {} THEN RootScheduler
  ELSE CHOOSE s \in SchedulersAround(g) : \A t \in SchedulersAround(g) : s \in Inside(t)

\* Every edit goes to the graph that its blocks are in, by way of the scheduler that runs
\* that graph, and a port is exported by the group around its block: whatever editors
\* were opened and closed between an edit's menu and its answer, and whether the groups
\* around are graphs or schedulers (FlowgraphPage.cpp:483-975, FlowgraphPage.hpp:107-205).
EditsReachTheirGraph ==
  [][request' # request =>
       \A b \in request'.blocks : IsPresent(b) =>
         IF request'.endpoint = "ExportPort"
         THEN request'.target = Container(b)
         ELSE request'.graph = inGraph[b] /\ request'.scheduler = Runs(Container(b))]_editorVars
=============================================================================
