--------------------------- MODULE ControlWindows ---------------------------
(***************************************************************************)
(* Exported properties and the windows that control them.  The user        *)
(* exports properties of blocks and binds them to control windows, whose   *)
(* one editor sets all of them; the bindings are kept with the blocks of   *)
(* the graph model and name a window by its number, the windows are kept   *)
(* with the dashboard.  A dashboard's file brings windows at once and      *)
(* bindings that wait until the graph's blocks are known.                  *)
(*                                                                         *)
(* A frame is one step: it gathers what is bound to each window, draws the *)
(* windows and panels, in which the user does at most one thing, and       *)
(* removes windows at its end.  Menus and a dragged property live through  *)
(* several frames, between which blocks come and go.  ControlBlocks are looked up *)
(* by their name, which several blocks may share.                          *)
(***************************************************************************)
EXTENDS Naturals, Sequences, FiniteSets, SequencesExt

CONSTANTS
  ControlBlocks, \* unique names of blocks
  BlockName,    \* the name of each
  BlockSettings,  \* the properties of each
  ControlType,  \* the kind of editor of each property
  Unbound,      \* no window
  MaxWindows,   \* bound on the numbers of windows
  MaxBlockEdits \* bound on the blocks that come and go

\* Every property that a block may have.
ControlProperties == DOMAIN ControlType

ASSUME ControlAssumption ==
  /\ \A b \in ControlBlocks : BlockSettings[b] \subseteq ControlProperties
  /\ IsFiniteSet(ControlBlocks)
  /\ MaxWindows \in Nat /\ MaxBlockEdits \in Nat /\ Unbound \notin Nat

VARIABLES
  tree,       \* the blocks of the model, in the order of the search
  exported,   \* exportedProperties: per block, from properties to windows
  controls,   \* propertyControlWindows
  lastUsedId,
  pending,    \* the dashboard's exportedProperties, by name of the block
  menu,       \* the open popup, and the window or property it is about
  dragged,    \* the properties in a drag and drop payload
  sent,       \* the window of the latest edit, and what it has set
  failed,     \* a missing property was used
  blockEdits

controlVars == <<tree, exported, controls, lastUsedId, pending, menu, dragged,
                 sent, failed, blockEdits>>

Ids == 1..MaxWindows
Nothing == [x \in {} |-> Unbound]   \* no property is exported
Closed == [kind |-> "none"]
Quiet == [window |-> Unbound, set |-> {}]

Unexport(e, B, p) ==
  [b \in ControlBlocks |-> [x \in DOMAIN e[b] \ (IF b \in B THEN {p} ELSE {}) |-> e[b][x]]]
Bind(e, b, p, w) ==
  [e EXCEPT ![b] = [x \in DOMAIN @ \cup {p} |-> IF x = p THEN w ELSE @[x]]]

WindowOf(e, b, p) == IF p \in DOMAIN e[b] THEN e[b][p] ELSE Unbound

-----------------------------------------------------------------------------
(* The searches of the graph model.                                        *)

Named(n) == {k \in DOMAIN tree : BlockName[tree[k]] = n}
First(K) == CHOOSE k \in K : \A l \in K : k <= l

\* The block of that name and property, if the first block of that name has the
\* property: getPropertyInfo.
Info(n, p) == {b \in {tree[First(K)] : K \in {Named(n)} \ {{}}} : p \in BlockSettings[b]}

\* The blocks whose properties are gathered: one of each name.
Gathered(e) ==
  LET K(n) == {k \in Named(n) : e[tree[k]] # Nothing}
  IN {tree[First(K(n))] : n \in {m \in {BlockName[b] : b \in ControlBlocks} : K(m) # {}}}

\* What is bound to a window, as pairs of names.
Pairs(e, w) ==
  UNION {{<<BlockName[b], p>> : p \in {q \in DOMAIN e[b] : e[b][q] = w}} : b \in Gathered(e)}

\* Bindings to windows that no longer exist are dropped as they are gathered.
Refreshed ==
  LET gathered == Gathered(exported)
  IN [b \in ControlBlocks |-> IF b \in gathered
        THEN [p \in DOMAIN exported[b] |->
                IF exported[b][p] \in controls THEN exported[b][p] ELSE Unbound]
        ELSE exported[b]]

\* UiGraphBlock::setSetting of a property: that property, and one property of every
\* other block that is bound to the same window.
SetTogether(e, b, p) ==
  LET w == WindowOf(e, b, p)
      Bound(c) == {q \in DOMAIN e[c] : e[c][q] = w}
      others == {c \in ToSet(tree) \ {b} : w # Unbound /\ Bound(c) # {}}
  IN {{<<b, p>>} \cup {<<c, g[c]>> : c \in others} :
        g \in {h \in [others -> ControlProperties] : \A c \in others : h[c] \in Bound(c)}}

-----------------------------------------------------------------------------
\* A dashboard was loaded: its windows, and the bindings saved with them.
ControlInit ==
  /\ tree = <<>> /\ exported = [b \in ControlBlocks |-> Nothing]
  /\ controls \in SUBSET Ids /\ Cardinality(controls) <= 1
  /\ lastUsedId = 0
  /\ pending \in SUBSET (UNION {{BlockName[b]} \X BlockSettings[b] \X (controls \cup {Unbound}) :
                                b \in ControlBlocks})
  /\ \A x, y \in pending :
       /\ x[1] = y[1] /\ x[2] = y[2] => x = y
       /\ x[3] = y[3] /\ x[3] # Unbound => ControlType[x[2]] = ControlType[y[2]]
  /\ menu = Closed /\ dragged = {} /\ sent = Quiet /\ failed = FALSE /\ blockEdits = 0

(* Between frames: messages of the graph.                                  *)

AppendBlock ==
  /\ blockEdits < MaxBlockEdits /\ pending = {}
  /\ \E b \in ControlBlocks \ ToSet(tree) :
       /\ tree' = Append(tree, b)
       /\ exported' = [exported EXCEPT ![b] = Nothing]
  /\ blockEdits' = blockEdits + 1 /\ sent' = Quiet
  /\ UNCHANGED <<controls, lastUsedId, pending, menu, dragged, failed>>

DropBlock ==
  /\ blockEdits < MaxBlockEdits
  /\ \E k \in DOMAIN tree :
       /\ tree' = RemoveAt(tree, k)
       /\ exported' = [exported EXCEPT ![tree[k]] = Nothing]
  /\ blockEdits' = blockEdits + 1 /\ sent' = Quiet
  /\ UNCHANGED <<controls, lastUsedId, pending, menu, dragged, failed>>

\* The graph's blocks arrive, and with them the bindings of the file are given to
\* the first block of each name; those of unknown blocks are forgotten.
ApplyExportedProperties ==
  /\ pending # {} /\ tree = <<>>
  /\ \E B \in (SUBSET ControlBlocks) \ {{}} : \E order \in SetToSeqs(B) :
       LET Heads == {b \in B : \A k \in DOMAIN order :
                       BlockName[order[k]] = BlockName[b] =>
                         \E l \in 1..k : order[l] = b}
           Of(b) == {x \in pending : x[1] = BlockName[b] /\ b \in Heads}
       IN /\ tree' = order
          /\ exported' = [b \in ControlBlocks |-> [p \in {x[2] : x \in Of(b)} |->
                            (CHOOSE x \in Of(b) : x[2] = p)[3]]]
  /\ pending' = {} /\ sent' = Quiet
  /\ UNCHANGED <<controls, lastUsedId, menu, dragged, failed, blockEdits>>

\* New data of a block, as after any change of it: exports of properties that it
\* does not have are dropped.
RefreshMetaInformation ==
  /\ \E b \in ToSet(tree) :
       exported' = [exported EXCEPT ![b] =
                      [p \in DOMAIN @ \cap BlockSettings[b] |-> @[p]]]
  /\ exported' # exported /\ sent' = Quiet
  /\ UNCHANGED <<tree, controls, lastUsedId, pending, menu, dragged, failed, blockEdits>>

-----------------------------------------------------------------------------
(* A frame.  Every window that has a property uses the first one of it,    *)
(* which must exist.                                                       *)

UsesMissing == \E w \in controls : \E x \in Pairs(Refreshed, w) : Info(x[1], x[2]) = {}

\* The end of the frame: removed windows are taken from what was bound to them.
EndPage(e, W, removed) ==
  /\ LET gathered == Gathered(e)
     IN exported' = [b \in ControlBlocks |-> IF b \in gathered
                       THEN [p \in DOMAIN e[b] |-> IF e[b][p] \in removed THEN Unbound
                                                   ELSE e[b][p]]
                       ELSE e[b]]
  /\ controls' = W \ removed

Fail == failed' = TRUE /\ UNCHANGED <<exported, controls, lastUsedId, menu, sent>>

\* newPropertyControlWindow, and the binding of the property to the new window.
BindNewWindow(b, p) ==
  LET w == CHOOSE i \in lastUsedId + 1..MaxWindows + Cardinality(controls) + lastUsedId + 1 :
             /\ i \notin controls
             /\ \A j \in lastUsedId + 1..i - 1 : j \in controls
  IN /\ w <= MaxWindows
     /\ lastUsedId' = w
     /\ EndPage(Bind(Refreshed, b, p, w), controls \cup {w}, {})

\* The user changes the value in a window's editor.  Which of its properties is
\* the first is left open.
EditInWindow(w) ==
  /\ \E x \in Pairs(Refreshed, w) :
       \E b \in Info(x[1], x[2]) : \E S \in SetTogether(Refreshed, b, x[2]) :
         sent' = [window |-> w, set |-> S]
  /\ EndPage(Refreshed, controls, {})
  /\ UNCHANGED <<lastUsedId, menu, dragged, failed>>

\* A property is dropped on a window that has none or one of the same type.
SameType(w, p) ==
  LET T == {ControlType[x[2]] : x \in {y \in Pairs(Refreshed, w) : Info(y[1], y[2]) # {}}}
  IN T = {} \/ ControlType[p] \in T

\* Also the mutant of DropOnWindow, which does not look at the type.
DropAnyType(w) ==
  /\ \E x \in dragged : \E b \in Info(x[1], x[2]) :
       EndPage(IF x[2] \in DOMAIN Refreshed[b] THEN Bind(Refreshed, b, x[2], w)
                ELSE Refreshed, controls, {})
  /\ dragged' = {} /\ sent' = Quiet
  /\ UNCHANGED <<lastUsedId, menu, failed>>

DropOnWindow(w) ==
  /\ \E x \in dragged : SameType(w, x[2])
  /\ DropAnyType(w)

\* The context menu of a window.
RemoveControlWindow(w) ==
  /\ EndPage(Refreshed, controls, {w})
  /\ menu' = Closed /\ sent' = Quiet /\ UNCHANGED <<lastUsedId, dragged, failed>>

OpenDisconnect(w) ==
  /\ menu' = [kind |-> "disconnect", window |-> w]
  /\ EndPage(Refreshed, controls, {})
  /\ sent' = Quiet /\ UNCHANGED <<lastUsedId, dragged, failed>>

\* The popup that lists what is bound to the window: at() throws if the first block
\* of the name has not exported the property.
Disconnect ==
  /\ menu.kind = "disconnect"
  /\ \E x \in Pairs(Refreshed, menu.window) : \E b \in Info(x[1], x[2]) :
       IF x[2] \in DOMAIN Refreshed[b]
       THEN /\ EndPage(Bind(Refreshed, b, x[2], Unbound), controls, {})
            /\ sent' = Quiet /\ UNCHANGED <<lastUsedId, menu, failed>>
       ELSE Fail
  /\ UNCHANGED dragged

ClosePopup ==
  /\ menu # Closed /\ menu' = Closed
  /\ EndPage(Refreshed, controls, {})
  /\ sent' = Quiet /\ UNCHANGED <<lastUsedId, dragged, failed>>

-----------------------------------------------------------------------------
(* The panel of the selected block.                                        *)

ToggleExport(b, p) ==
  /\ EndPage(IF p \in DOMAIN Refreshed[b]
              THEN Unexport(Refreshed, {b}, p)
              ELSE Bind(Refreshed, b, p, Unbound), controls, {})
  /\ sent' = Quiet /\ UNCHANGED <<lastUsedId, menu, dragged, failed>>

\* The button "-": the window goes with its last property.
RemoveFromExistingWindow(b, p) ==
  /\ WindowOf(Refreshed, b, p) # Unbound
  /\ LET w == WindowOf(Refreshed, b, p)
     IN EndPage(Bind(Refreshed, b, p, Unbound), controls,
                 IF Cardinality(Pairs(Refreshed, w)) = 1 THEN {w} ELSE {})
  /\ sent' = Quiet /\ UNCHANGED <<lastUsedId, menu, dragged, failed>>

\* The button "+".
AddNewWindow(b, p) ==
  /\ WindowOf(Refreshed, b, p) = Unbound
  /\ BindNewWindow(b, p)
  /\ sent' = Quiet /\ UNCHANGED <<menu, dragged, failed>>

(* The list of all exported properties.  A row is of the first block of    *)
(* the name, with the exports that were gathered for that name.            *)

ExportRows == {x \in {BlockName[b] : b \in ControlBlocks} \X ControlProperties :
           /\ Info(x[1], x[2]) # {}
           /\ \E b \in Gathered(Refreshed) :
                BlockName[b] = x[1] /\ x[2] \in DOMAIN Refreshed[b]}

DragProperty(x) ==
  /\ dragged' = {x}
  /\ EndPage(Refreshed, controls, {})
  /\ sent' = Quiet /\ UNCHANGED <<lastUsedId, menu, failed>>

OpenPropertyMenu(x) ==
  /\ menu' = [kind |-> "property", target |-> x]
  /\ EndPage(Refreshed, controls, {})
  /\ sent' = Quiet /\ UNCHANGED <<lastUsedId, dragged, failed>>

MenuUnexport ==
  /\ menu.kind = "property"
  /\ EndPage(Unexport(Refreshed, Info(menu.target[1], menu.target[2]), menu.target[2]),
              controls, {})
  /\ menu' = Closed /\ sent' = Quiet /\ UNCHANGED <<lastUsedId, dragged, failed>>

\* A property that is no longer exported stops a debug build; otherwise nothing
\* happens.
MenuAddWindow ==
  /\ menu.kind = "property"
  /\ \E b \in Info(menu.target[1], menu.target[2]) :
       /\ menu.target[2] \in DOMAIN Refreshed[b]
       /\ BindNewWindow(b, menu.target[2])
  /\ menu' = Closed /\ sent' = Quiet /\ UNCHANGED <<dragged, failed>>

\* An open popup takes the user's clicks.
UserStep ==
  \/ Disconnect \/ ClosePopup \/ MenuUnexport \/ MenuAddWindow
  \/ /\ menu = Closed
     /\ \/ \E w \in controls : \/ EditInWindow(w) \/ DropOnWindow(w)
                               \/ RemoveControlWindow(w) \/ OpenDisconnect(w)
        \/ \E b \in ToSet(tree) : \E p \in BlockSettings[b] :
             \/ ToggleExport(b, p) \/ RemoveFromExistingWindow(b, p)
             \/ AddNewWindow(b, p)
        \/ \E x \in ExportRows : DragProperty(x) \/ OpenPropertyMenu(x)

ControlFrame ==
  /\ IF UsesMissing THEN Fail /\ UNCHANGED dragged ELSE UserStep
  /\ UNCHANGED <<tree, pending, blockEdits>>

ControlNext ==
  /\ ~failed
  /\ \/ AppendBlock \/ DropBlock \/ ApplyExportedProperties
     \/ RefreshMetaInformation \/ ControlFrame

ControlSpec == ControlInit /\ [][ControlNext]_controlVars

-----------------------------------------------------------------------------
(* Properties.                                                             *)

ControlTypeOK ==
  /\ \A b \in ControlBlocks : /\ DOMAIN exported[b] \subseteq ControlProperties
                       /\ \A p \in DOMAIN exported[b] : exported[b][p] \in Ids \cup {Unbound}
                       /\ b \notin ToSet(tree) => exported[b] = Nothing
  /\ controls \subseteq Ids /\ lastUsedId \in 0..MaxWindows
  /\ menu.kind \in {"none", "disconnect", "property"}
  /\ sent.window \in Ids \cup {Unbound}

DistinctNames == \A b, c \in ControlBlocks : BlockName[b] = BlockName[c] => b = c

\* "property info should always be valid because its parameters were taken from the
\* current graph" (DashboardPage.cpp:214), and what is unbound was exported: so it
\* is, whatever is removed, replaced or un-exported while a popup is open, if no two
\* blocks share a name and the file bound no property that its block lacks.
PropertyInfoIsValid ==
  DistinctNames /\ failed => \E b \in ControlBlocks : ~(DOMAIN exported[b] \subseteq BlockSettings[b])

\* Properties that a window binds to each other have one type, and an edit in the
\* window sets at least one property of every block that is bound to it
\* (DashboardPage.cpp:170, GraphModel.cpp:267).
BoundTogether ==
  DistinctNames =>
    \A b, c \in ToSet(tree) : \A p \in DOMAIN exported[b], q \in DOMAIN exported[c] :
      exported[b][p] = exported[c][q] /\ exported[b][p] \in controls =>
        /\ ControlType[p] = ControlType[q]
        /\ sent.window = exported[b][p] => \E r \in ControlProperties : <<c, r>> \in sent.set

\* Bindings between properties and windows are usable and of one kind.
ControlsAreConsistent == PropertyInfoIsValid /\ BoundTogether
=============================================================================
