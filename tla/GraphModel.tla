----------------------------- MODULE GraphModel -----------------------------
(***************************************************************************)
(* The UI's model of a flow graph and the scheduler whose graph it         *)
(* follows.  The model is changed by the scheduler's messages only: each   *)
(* change of the graph is notified, and whenever the model cannot make     *)
(* sense of a notification it asks for the whole graph again.              *)
(*                                                                         *)
(* The scheduler belongs to a library: it notifies each change of its      *)
(* graph, answers requests in their order, and messages keep their order.  *)
(* Blocks are emplaced, removed and replaced, connected and disconnected,  *)
(* a subgraph exports ports, settings change, and the graph is replaced as *)
(* a whole; who asked for it does not matter.                              *)
(*                                                                         *)
(* A block is its unique name and occurs once.  Its ports are a number,    *)
(* its settings a version.  An edge of the model holds the addresses of    *)
(* two ports; a port's address is its block and the block's vector of      *)
(* ports, which moves when it grows.  Only output ports vary.              *)
(***************************************************************************)
EXTENDS Naturals, Sequences, FiniteSets

CONSTANTS
  Blocks,     \* unique names of blocks
  Subgraphs,  \* the blocks that have ports of their children exported
  None,
  MaxPorts, MaxVersion,  \* bounds on ports and on changes of settings
  MaxEdits    \* bound on the changes of the graph

ASSUME GraphModelAssumption ==
  /\ Subgraphs \subseteq Blocks /\ None \notin Blocks \cup Nat
  /\ MaxPorts \in Nat \ {0} /\ MaxVersion \in Nat /\ MaxEdits \in Nat

VARIABLES
  graph, blocks, edges,  \* the scheduler's graph: its number, its blocks by
                         \* name, and edges <<from, port, to>>
  used, successors,      \* names used so far, and those of replacements
  edits,
  toUi, inspections,     \* messages to the UI, and its requests
  modelGraph,            \* the root's child, None until the root is known
  childBlocks, childEdges,  \* its blocks, and edges <<from, port, vector, to>>
  requestedFullUpdate,
  selectedBlock,
  exchanged              \* a graph was dropped under a selected block

graphVars == <<graph, blocks, edges, used, successors, edits>>
modelVars == <<modelGraph, childBlocks, childEdges, requestedFullUpdate,
               selectedBlock, exchanged>>
graphModelVars == <<graphVars, modelVars, toUi, inspections>>

Block == [ports : 1..MaxPorts, version : 0..MaxVersion]
NoBlocks == [b \in {} |-> None]   \* no function has a larger domain than Blocks

Without(f, b) == [x \in DOMAIN f \ {b} |-> f[x]]
With(f, b, v) == [x \in DOMAIN f \cup {b} |-> IF x = b THEN v ELSE f[x]]

\* Edges, in the graph or in the model, that do not touch block b.
Untouched(E, b) == {e \in E : e[1] # b /\ e[Len(e)] # b}

FullUpdate == [kind |-> "inspectScheduler"]
InspectBlock(b) == [kind |-> "inspectBlock", block |-> b]

GraphModelInit ==
  /\ graph = 1 /\ blocks = NoBlocks /\ edges = {}
  /\ used = {} /\ successors = {} /\ edits = 0
  /\ toUi = <<[kind |-> "running"]>> /\ inspections = <<>>
  /\ modelGraph = None /\ childBlocks = NoBlocks /\ childEdges = {}
  /\ requestedFullUpdate = FALSE /\ selectedBlock = None /\ exchanged = FALSE

-----------------------------------------------------------------------------
(* The scheduler (library).                                                *)

\* The graph changes, and the change is notified.
Edit(newBlocks, newEdges, message) ==
  /\ edits < MaxEdits /\ edits' = edits + 1
  /\ blocks' = newBlocks /\ edges' = newEdges
  /\ toUi' = Append(toUi, message)
  /\ UNCHANGED <<inspections, modelVars>>

NewBlock == [ports |-> 1, version |-> 0]

BlockEmplaced(b) ==
  /\ b \notin used /\ used' = used \cup {b}
  /\ Edit(With(blocks, b, NewBlock), edges,
          [kind |-> "emplaced", graph |-> graph, block |-> b,
           data |-> NewBlock])
  /\ UNCHANGED <<graph, successors>>

BlockRemoved(b) ==
  /\ b \in DOMAIN blocks
  /\ Edit(Without(blocks, b), Untouched(edges, b),
          [kind |-> "removed", graph |-> graph, block |-> b])
  /\ UNCHANGED <<graph, used, successors>>

\* The successor takes over the edges.
BlockReplaced(b, c) ==
  /\ b \in DOMAIN blocks /\ c \notin used
  /\ used' = used \cup {c} /\ successors' = successors \cup {c}
  /\ LET moved(x) == IF x = b THEN c ELSE x
     IN Edit(With(Without(blocks, b), c, NewBlock),
             {<<moved(e[1]), e[2], moved(e[3])>> :
                e \in {f \in edges : f[1] # b \/ f[2] = 1}},
             [kind |-> "replaced", graph |-> graph, old |-> b, block |-> c,
              data |-> NewBlock])
  /\ UNCHANGED graph

EdgeEmplaced(b, c) ==
  /\ b \in DOMAIN blocks /\ c \in DOMAIN blocks
  /\ \E p \in 1..blocks[b].ports :
       /\ <<b, p, c>> \notin edges
       /\ Edit(blocks, edges \cup {<<b, p, c>>},
               [kind |-> "edgeEmplaced", graph |-> graph, edge |-> <<b, p, c>>])
  /\ UNCHANGED <<graph, used, successors>>

EdgeRemoved(e) ==
  /\ Edit(blocks, edges \ {e}, [kind |-> "edgeRemoved", graph |-> graph])
  /\ UNCHANGED <<graph, used, successors>>

PortExported(b) ==
  /\ b \in DOMAIN blocks \cap Subgraphs
  /\ blocks[b].ports < MaxPorts
  /\ Edit([blocks EXCEPT ![b].ports = @ + 1], edges,
          [kind |-> "exported", block |-> b])
  /\ UNCHANGED <<graph, used, successors>>

SettingChanged(b) ==
  /\ b \in DOMAIN blocks /\ blocks[b].version < MaxVersion
  /\ Edit([blocks EXCEPT ![b].version = @ + 1], edges,
          [kind |-> "setting", block |-> b, version |-> blocks[b].version + 1])
  /\ UNCHANGED <<graph, used, successors>>

\* The reply to a new graph, and the scheduler runs again.
GraphReplaced(b) ==
  /\ b \notin used /\ used' = used \cup {b}
  /\ graph' = graph + 1
  /\ Edit(With(NoBlocks, b, NewBlock), {}, [kind |-> "running"])
  /\ UNCHANGED successors

\* A request is answered; one for a block that is gone with an error.
Answer ==
  /\ inspections # <<>>
  /\ inspections' = Tail(inspections)
  /\ LET r == Head(inspections)
     IN toUi' = Append(toUi,
          IF r.kind = "inspectScheduler"
          THEN [kind |-> "schedulerInspected", graph |-> graph,
                blocks |-> blocks, edges |-> edges]
          ELSE IF r.block \in DOMAIN blocks
          THEN [kind |-> "blockInspected", block |-> r.block,
                data |-> blocks[r.block]]
          ELSE [kind |-> "error"])
  /\ UNCHANGED <<graphVars, modelVars>>

-----------------------------------------------------------------------------
(* UiGraphModel::processMessage.                                           *)

\* The messages a handler sends follow those of a full update, if it needs one.
Send(requests) == inspections' = inspections \o requests

\* Mutant of RequestFullUpdate: the flag is set, but the request is lost.
RequestLost == requestedFullUpdate' = TRUE /\ UNCHANGED inspections

\* One request is under way at a time.
RequestFullUpdate ==
  IF requestedFullUpdate THEN UNCHANGED <<inspections, requestedFullUpdate>>
  ELSE Send(<<FullUpdate>>) /\ requestedFullUpdate' = TRUE

NoRequest == UNCHANGED <<inspections, requestedFullUpdate>>

Vector(b) == IF b \in DOMAIN childBlocks THEN childBlocks[b].vector ELSE 0

\* Mutant of BlockData: the ports' vector is made anew with every update.
NewVectorData(b, data) ==
  [ports |-> data.ports, version |-> data.version, vector |-> Vector(b) + 1]

\* setBlockData: the ports are cleared and emplaced again, so that their vector
\* moves if there are more of them than ever.
BlockData(b, data) ==
  [ports |-> data.ports, version |-> data.version,
   vector |-> IF b \in DOMAIN childBlocks /\ data.ports > childBlocks[b].ports
              THEN Vector(b) + 1 ELSE Vector(b)]

\* handleChildBlockEmplaced
Emplace(f, b, data) == With(f, b, BlockData(b, data))

\* parseEdgeData: the edge with its ports' addresses, if both are known.
Parses(e, f) == e[1] \in DOMAIN f /\ e[3] \in DOMAIN f /\ e[2] <= f[e[1]].ports
Parsed(e, f) == <<e[1], e[2], f[e[1]].vector, e[3]>>

Deselect(b) == selectedBlock' = IF selectedBlock = b THEN None ELSE selectedBlock

HandleEmplaced(m) ==
  /\ childBlocks' = Emplace(childBlocks, m.block, m.data)
  /\ NoRequest
  /\ UNCHANGED <<childEdges, selectedBlock>>

HandleRemoved(m) ==
  IF m.block \in DOMAIN childBlocks
  THEN /\ childBlocks' = Without(childBlocks, m.block)
       /\ childEdges' = Untouched(childEdges, m.block)
       /\ Deselect(m.block)
       /\ NoRequest
  ELSE RequestFullUpdate /\ UNCHANGED <<childBlocks, childEdges, selectedBlock>>

\* The old block is removed if it is known, the new one emplaced in any case.
HandleReplaced(m) ==
  /\ childBlocks' = Emplace(Without(childBlocks, m.old), m.block, m.data)
  /\ childEdges' = Untouched(childEdges, m.old)
  /\ Deselect(m.old)
  /\ IF m.old \in DOMAIN childBlocks THEN NoRequest ELSE RequestFullUpdate

HandleEdgeEmplaced(m) ==
  /\ IF Parses(m.edge, childBlocks)
     THEN /\ childEdges' = childEdges \cup {Parsed(m.edge, childBlocks)}
          /\ NoRequest
     ELSE RequestFullUpdate /\ UNCHANGED childEdges
  /\ UNCHANGED <<childBlocks, selectedBlock>>

HandleEdgeRemoved ==
  RequestFullUpdate /\ UNCHANGED <<childBlocks, childEdges, selectedBlock>>

\* A subgraph has exported a port: the block is inspected.
HandleExported(m) ==
  /\ IF m.block \in DOMAIN childBlocks
     THEN Send(<<InspectBlock(m.block)>>) /\ UNCHANGED requestedFullUpdate
     ELSE RequestFullUpdate
  /\ UNCHANGED <<childBlocks, childEdges, selectedBlock>>

HandleInspected(m) ==
  /\ IF m.block \in DOMAIN childBlocks
     THEN childBlocks' = Emplace(childBlocks, m.block, m.data) /\ NoRequest
     ELSE RequestFullUpdate /\ UNCHANGED childBlocks
  /\ UNCHANGED <<childEdges, selectedBlock>>

HandleSetting(m) ==
  /\ IF m.block \in DOMAIN childBlocks
     THEN /\ childBlocks' = [childBlocks EXCEPT ![m.block].version = m.version]
          /\ NoRequest
     ELSE RequestFullUpdate /\ UNCHANGED childBlocks
  /\ UNCHANGED <<childEdges, selectedBlock>>

\* setSchedulerGraph and setGraphChildren: known blocks of the same graph are
\* updated, others made and removed, and all edges made anew.  The selection is
\* not looked at.
HandleSchedulerInspected(m) ==
  /\ modelGraph' = m.graph
  /\ childBlocks' = [b \in DOMAIN m.blocks |-> BlockData(b, m.blocks[b])]
  /\ childEdges' = {Parsed(e, childBlocks') : e \in m.edges}
  /\ requestedFullUpdate' = FALSE
  /\ exchanged' = (exchanged \/ (modelGraph # m.graph /\ selectedBlock # None))
  /\ UNCHANGED <<inspections, selectedBlock>>

\* Messages are for the graph, which has to be known by its name.
ForUnknown(m) == "graph" \in DOMAIN m /\ m.graph # modelGraph

Handle(m) ==
  CASE m.kind = "emplaced"       -> HandleEmplaced(m)
    [] m.kind = "removed"        -> HandleRemoved(m)
    [] m.kind = "replaced"       -> HandleReplaced(m)
    [] m.kind = "edgeEmplaced"   -> HandleEdgeEmplaced(m)
    [] m.kind = "edgeRemoved"    -> HandleEdgeRemoved
    [] m.kind = "exported"       -> HandleExported(m)
    [] m.kind = "blockInspected" -> HandleInspected(m)
    [] m.kind = "setting"        -> HandleSetting(m)

\* Errors are shown; nothing else is processed before the root is known.
ProcessMessage ==
  /\ toUi # <<>>
  /\ toUi' = Tail(toUi)
  /\ LET m == Head(toUi)
     IN CASE m.kind = "error" -> UNCHANGED <<modelVars, inspections>>
          [] m.kind = "schedulerInspected" -> HandleSchedulerInspected(m)
          [] m.kind \notin {"error", "schedulerInspected"}
               /\ (modelGraph = None \/ ForUnknown(m) \/ m.kind = "running") ->
               /\ RequestFullUpdate
               /\ UNCHANGED <<modelGraph, childBlocks, childEdges,
                              selectedBlock, exchanged>>
          [] OTHER -> Handle(m) /\ UNCHANGED <<modelGraph, exchanged>>
  /\ UNCHANGED graphVars

-----------------------------------------------------------------------------
(* The user.                                                               *)

\* A block is clicked, or the background.
SelectBlock ==
  /\ \E b \in DOMAIN childBlocks \cup {None} :
       b # selectedBlock /\ selectedBlock' = b
  /\ UNCHANGED <<graphVars, toUi, inspections, modelGraph, childBlocks,
                 childEdges, requestedFullUpdate, exchanged>>

-----------------------------------------------------------------------------
GraphModelNext ==
  \/ \E b \in Blocks :
       \/ BlockEmplaced(b) \/ BlockRemoved(b) \/ PortExported(b)
       \/ SettingChanged(b) \/ GraphReplaced(b)
       \/ \E c \in Blocks : BlockReplaced(b, c) \/ EdgeEmplaced(b, c)
  \/ \E e \in edges : EdgeRemoved(e)
  \/ Answer
  \/ ProcessMessage
  \/ SelectBlock

GraphModelSpec == GraphModelInit /\ [][GraphModelNext]_graphModelVars

-----------------------------------------------------------------------------
(* Properties.                                                             *)

GraphModelTypeOK ==
  /\ DOMAIN blocks \subseteq used /\ used \subseteq Blocks
  /\ \A b \in DOMAIN blocks : blocks[b] \in Block
  /\ \A e \in edges : e[1] \in DOMAIN blocks /\ e[3] \in DOMAIN blocks
  /\ edits \in 0..MaxEdits /\ graph \in 1..(edits + 1)
  /\ modelGraph \in 1..graph \cup {None}
  /\ \A b \in DOMAIN childBlocks :
       childBlocks[b] \in [ports : 1..MaxPorts, version : 0..MaxVersion,
                           vector : 0..MaxPorts]
  /\ requestedFullUpdate \in BOOLEAN /\ exchanged \in BOOLEAN
  /\ selectedBlock \in used \cup {None}

Settled == toUi = <<>> /\ inspections = <<>>

Seen(b) == [ports |-> childBlocks[b].ports, version |-> childBlocks[b].version]
SeenEdges == {<<e[1], e[2], e[4]>> : e \in childEdges}

\* When all messages are handled, the model shows the scheduler's graph: its
\* blocks with their ports and settings and its edges, and the next reason for a
\* full update will not be taken for one that is under way.  Only the edges that a
\* replaced block has left to its successor are missing until the next update.
SettledModelIsGraph ==
  Settled =>
    /\ modelGraph = graph
    /\ DOMAIN childBlocks = DOMAIN blocks
    /\ \A b \in DOMAIN blocks : Seen(b) = blocks[b]
    /\ SeenEdges \subseteq edges
    /\ \A e \in edges \ SeenEdges : {e[1], e[3]} \cap successors # {}
    /\ ~requestedFullUpdate

\* What the UI holds pointers to is alive, whatever was notified between two full
\* updates: the blocks that an edge joins, and the selected block, which the edit
\* pane shows, as long as its graph is not exchanged.
UiPointersAreAlive ==
  /\ \A e \in childEdges : {e[1], e[4]} \subseteq DOMAIN childBlocks
  /\ selectedBlock = None \/ selectedBlock \in DOMAIN childBlocks \/ exchanged

\* The UI follows the scheduler's graph, and points to nothing that is gone from it.
GraphIsFollowed == SettledModelIsGraph /\ UiPointersAreAlive
=============================================================================
