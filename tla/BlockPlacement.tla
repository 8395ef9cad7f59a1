---------------------------- MODULE BlockPlacement ----------------------------
(***************************************************************************)
(* Where the blocks of a flow graph are drawn.  Each UI has a node editor, *)
(* in which its user drags blocks and may have all of them arranged by     *)
(* their links; blocks that nobody has placed are arranged unasked.  Where *)
(* a user puts a block is stored in the block's settings, and the service  *)
(* tells every UI of it.                                                   *)
(*                                                                         *)
(* The node editor is a library: it keeps the spots of its nodes, and once *)
(* its user has dragged a node it says so.  The service applies settings   *)
(* in the order in which they arrive and notifies each UI in that order.   *)
(***************************************************************************)
EXTENDS Naturals, Sequences, FiniteSets

CONSTANTS
  Clients,            \* the UIs
  Nodes,              \* blocks of the graph
  Spots,              \* where users drag blocks
  Corner,             \* where new blocks are put
  Unplaced,
  FollowedGraphs,     \* bound: other graphs are only arranged, and not followed further
  MaxMoves            \* bound on drags and arrangements that are asked for

ASSUME BlockPlacementAssumption ==
  /\ Corner \notin Spots /\ Unplaced \notin Spots \cup {Corner} \cup (Nat \X Nat)
  /\ IsFiniteSet(Nodes) /\ FollowedGraphs \subseteq SUBSET (Nodes \X Nodes) /\ MaxMoves \in Nat

VARIABLES
  links,           \* the edges of the graph
  constraints,     \* ui_constraints of the blocks
  view,            \* per UI and node: its view, Unplaced if it has none
  nodePosition, wasUserPositioned,  \* of the node editor
  storedXY, updatePosition,
  shouldRearrangeBlocks,  \* per UI, of the graph
  toService, toEditor,
  moves

placementVars == <<links, constraints, view, nodePosition, wasUserPositioned, storedXY,
                   updatePosition, shouldRearrangeBlocks, toService, toEditor, moves>>

Sorted(levels) == UNION {levels[i] : i \in DOMAIN levels}

\* The next level: what nothing leads to that is left.
newLevel(rest) == {n \in rest : \A m \in rest : <<m, n>> \notin links}
left(levels, i) == Nodes \ UNION {levels[j] : j \in 1..i - 1}

\* The levels of the blocks that no cycle reaches; the others belong to none.
topologicalSort ==
  CHOOSE levels \in UNION {[1..k -> SUBSET Nodes] : k \in 0..Cardinality(Nodes)} :
    /\ \A i \in DOMAIN levels : levels[i] # {} /\ levels[i] = newLevel(left(levels, i))
    /\ newLevel(Nodes \ Sorted(levels)) = {}

\* The spots of sorted blocks: a column per level, the blocks of a level in any order.
LevelOf(levels, n) == CHOOSE i \in DOMAIN levels : n \in levels[i]
Arrangements(levels) ==
  {f \in [Sorted(levels) -> (DOMAIN levels) \X (1..Cardinality(Nodes))] :
     /\ \A n \in Sorted(levels) : f[n][1] = LevelOf(levels, n)
     /\ \A i \in DOMAIN levels : {f[n][2] : n \in levels[i]} = 1..Cardinality(levels[i])}

\* Blocks are where their settings, read with the graph, say.
PlacementInit ==
  /\ links \in SUBSET (Nodes \X Nodes)
  /\ constraints \in [Nodes -> {Unplaced} \cup Spots]
  /\ Cardinality({n \in Nodes : constraints[n] # Unplaced}) <= 1
  /\ view = [c \in Clients |-> [n \in Nodes |-> Unplaced]]
  /\ nodePosition = view
  /\ wasUserPositioned = [c \in Clients |-> [n \in Nodes |-> FALSE]]
  /\ storedXY = [c \in Clients |-> constraints]
  /\ updatePosition = [c \in Clients |-> [n \in Nodes |-> constraints[n] # Unplaced]]
  /\ shouldRearrangeBlocks = [c \in Clients |-> TRUE]
  /\ toService = [c \in Clients |-> <<>>] /\ toEditor = toService
  /\ moves = 0

\* The user drags a block in the editor, after its first frame: in each frame the editor
\* looks at the mouse once.
Drag(c, n, s) ==
  /\ moves < MaxMoves /\ moves' = moves + 1
  /\ nodePosition[c][n] \notin {Unplaced, s} /\ nodePosition[c][n] = view[c][n]
  /\ nodePosition' = [nodePosition EXCEPT ![c][n] = s]
  /\ wasUserPositioned' = [wasUserPositioned EXCEPT ![c][n] = TRUE]
  /\ UNCHANGED <<links, constraints, view, storedXY, updatePosition, shouldRearrangeBlocks,
                 toService, toEditor>>

-----------------------------------------------------------------------------
(* A frame of a UI.                                                        *)

\* Where the nodes are once they are sorted, all or those that nobody has placed.
sortNodes(c, all) ==
  LET levels == topologicalSort
      Moved(n) == n \in Sorted(levels) /\
                  (all \/ ~(wasUserPositioned[c][n] \/ storedXY[c][n] # Unplaced))
  IN {[n \in Nodes |-> IF Moved(n) THEN f[n] ELSE nodePosition[c][n]] : f \in Arrangements(levels)}

\* Mutant of Stores: the order to move is not looked at.
StoresUnmoved(c, n, at) ==
  view[c][n] # Unplaced /\ wasUserPositioned[c][n] /\ storedXY[c][n] # at[n]

\* A block is stored where the user dragged it, unless it is told to move.
Stores(c, n, at) ==
  /\ view[c][n] # Unplaced /\ ~updatePosition[c][n]
  /\ wasUserPositioned[c][n] /\ storedXY[c][n] # at[n]

\* at: the nodes as the editor has them once they may have been sorted.
applyNodePosition(c, at) ==
  LET position == [n \in Nodes |->
        IF view[c][n] = Unplaced \/ updatePosition[c][n]
        THEN IF storedXY[c][n] # Unplaced THEN storedXY[c][n] ELSE Corner
        ELSE at[n]]
  IN /\ nodePosition' = [nodePosition EXCEPT ![c] = position]
     /\ view' = [view EXCEPT ![c] = position]
     /\ updatePosition' = [updatePosition EXCEPT ![c] = [n \in Nodes |-> FALSE]]
     /\ storedXY' = [storedXY EXCEPT ![c] =
                       [n \in Nodes |-> IF Stores(c, n, at) THEN at[n] ELSE @[n]]]
     /\ \E order \in {s \in [1..Cardinality({n \in Nodes : Stores(c, n, at)}) -> Nodes] :
                        {s[i] : i \in DOMAIN s} = {n \in Nodes : Stores(c, n, at)}} :
          toService' = [toService EXCEPT ![c] =
                          @ \o [i \in DOMAIN order |-> [node |-> order[i], at |-> at[order[i]]]]]
     /\ shouldRearrangeBlocks' =
          [shouldRearrangeBlocks EXCEPT ![c] = \E n \in Nodes : view[c][n] = Unplaced]

drawGraph(c, all) ==
  /\ \E at \in IF all \/ shouldRearrangeBlocks[c] THEN sortNodes(c, all) ELSE {nodePosition[c]} :
       applyNodePosition(c, at)
  /\ UNCHANGED <<links, constraints, wasUserPositioned, toEditor>>

\* The user asks for an arrangement of all blocks.
RearrangeBlocks(c) == drawGraph(c, TRUE) /\ moves < MaxMoves /\ moves' = moves + 1

-----------------------------------------------------------------------------
\* The service (library).
ApplySetting(c) ==
  /\ toService[c] # <<>> /\ toService' = [toService EXCEPT ![c] = Tail(@)]
  /\ LET set == Head(toService[c])
     IN /\ constraints' = [constraints EXCEPT ![set.node] = set.at]
        /\ toEditor' = [d \in Clients |-> Append(toEditor[d], set)]
  /\ UNCHANGED <<links, view, nodePosition, wasUserPositioned, storedXY, updatePosition,
                 shouldRearrangeBlocks, moves>>

handleBlockSettingsChanged(c) ==
  /\ toEditor[c] # <<>> /\ toEditor' = [toEditor EXCEPT ![c] = Tail(@)]
  /\ LET set == Head(toEditor[c])
         differs == storedXY[c][set.node] # set.at
     IN /\ storedXY' = [storedXY EXCEPT ![c][set.node] = set.at]
        /\ updatePosition' = [updatePosition EXCEPT ![c][set.node] = @ \/ differs]
  /\ UNCHANGED <<links, constraints, view, nodePosition, wasUserPositioned,
                 shouldRearrangeBlocks, toService, moves>>

PlacementNext ==
  /\ links \in FollowedGraphs
  /\ \/ \E c \in Clients, n \in Nodes, s \in Spots : Drag(c, n, s)
     \/ \E c \in Clients : \/ (drawGraph(c, FALSE) /\ UNCHANGED moves) \/ RearrangeBlocks(c)
                           \/ ApplySetting(c) \/ handleBlockSettingsChanged(c)

PlacementSpec == PlacementInit /\ [][PlacementNext]_placementVars

-----------------------------------------------------------------------------
(* Properties.                                                             *)

PlacementTypeOK ==
  LET Place == Spots \cup {Corner, Unplaced} \cup (Nat \X Nat)
  IN /\ constraints \in [Nodes -> Place] /\ links \subseteq Nodes \X Nodes
     /\ {view, nodePosition, storedXY} \subseteq [Clients -> [Nodes -> Place]]
     /\ {wasUserPositioned, updatePosition} \subseteq [Clients -> [Nodes -> BOOLEAN]]
     /\ shouldRearrangeBlocks \in [Clients -> BOOLEAN] /\ moves \in 0..MaxMoves

\* What a block leads to, by one link or more.
LeadsTo(m) ==
  {n \in Nodes : \A S \in SUBSET Nodes :
     (\A x \in S \cup {m}, y \in Nodes : <<x, y>> \in links => y \in S) => n \in S}
Behind(n) == \E m \in Nodes : {m, n} \subseteq LeadsTo(m)

\* An arrangement reads from left to right, with a spot for each block: a block that no
\* cycle leads to is to the right of all that lead to it, and only those on or behind a
\* cycle stay where they are (FlowgraphPage.cpp:54-102, 916-945).
ArrangementIsReadable ==
  LET levels == topologicalSort
  IN /\ Sorted(levels) = {n \in Nodes : ~Behind(n)}
     /\ \A f \in Arrangements(levels) : \A m, n \in Sorted(levels) :
          /\ n \in LeadsTo(m) => f[m][1] < f[n][1]
          /\ m # n => f[m] # f[n]

\* Arrangements of linked blocks are readable; and once all messages have arrived and
\* were drawn, every UI has a block that a user dragged where the last one who dragged it
\* put it: the echo of an earlier drag, which moves the node back (GraphModel.cpp:1027,
\* FlowgraphPage.cpp:469), never stays.
BlocksAreInPlace ==
  /\ links # {} => ArrangementIsReadable
  /\ []((\A c \in Clients : toService[c] = <<>> /\ toEditor[c] = <<>>) =>
        \A c \in Clients, n \in Nodes :
          /\ storedXY[c][n] = constraints[n] \/ nodePosition[c][n] # view[c][n]
          /\ wasUserPositioned[c][n] /\ ~updatePosition[c][n] /\ nodePosition[c][n] = view[c][n]
               => nodePosition[c][n] = constraints[n])
=============================================================================
