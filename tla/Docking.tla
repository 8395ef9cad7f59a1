------------------------------- MODULE Docking -------------------------------
(***************************************************************************)
(* The dock space of a dashboard page: windows in a row, a column, a grid, *)
(* or freely.  Free layouts come from the rectangles of the dashboard's    *)
(* file, from what the user did with the mouse, or from what was saved     *)
(* when the layout was last free.                                          *)
(*                                                                         *)
(* What ImGui keeps is a tree of splits: a split gives a part of its area  *)
(* to one side.  A window that is not in the tree floats.                  *)
(***************************************************************************)
EXTENDS Integers, Sequences, FiniteSets, SequencesExt, FiniteSetsExt

CONSTANTS
  DockWindows,       \* names of windows
  CellColumns, CellRows, \* size of the grid that rectangles are given in
  PaneSize,          \* side of the pane
  MaxChanges         \* bound on changes of windows and layouts

ASSUME DockingAssumption ==
  /\ CellColumns \in Nat \ {0} /\ CellRows \in Nat \ {0} /\ MaxChanges \in Nat
  /\ \A n \in 1..Cardinality(DockWindows) \cup {CellColumns, CellRows} : PaneSize % n = 0

VARIABLES
  layoutType,
  windows,           \* in their order
  rectangle,         \* freeLayoutPosition of the windows that have one
  node,              \* the tree of the dock space
  lastFreeLayout, needsRelayout, lastWindowCount,
  wantsDockAtBottom, \* new windows that are to be docked
  asserted,          \* an assertion failed: that a region has a window (Docking.cpp:331),
                     \* or ImGui's that a node which is split is not split again
  changes

dockVars == <<layoutType, windows, rectangle, node, lastFreeLayout, needsRelayout,
              lastWindowCount, wantsDockAtBottom, asserted, changes>>

Empty == [kind |-> "empty"]
Leaf(w) == [kind |-> "leaf", window |-> w]

\* A split along an axis, of which the first child has num of den parts.
Split(axis, num, den, first, second) ==
  [kind |-> "split", axis |-> axis, num |-> num, den |-> den,
   first |-> first, second |-> second]

IsSplit(t) == t.kind = "split"

\* Where the windows of a tree are.
RECURSIVE Areas(_, _, _, _, _)
Areas(t, x, y, w, h) ==
  CASE t.kind = "empty" -> {}
    [] t.kind = "leaf" -> {[window |-> t.window, x |-> x, y |-> y, width |-> w, height |-> h]}
    [] t.kind = "split" ->
         IF t.axis = "x"
         THEN LET part == (w * t.num) \div t.den
              IN Areas(t.first, x, y, part, h) \cup Areas(t.second, x + part, y, w - part, h)
         ELSE LET part == (h * t.num) \div t.den
              IN Areas(t.first, x, y, w, part) \cup Areas(t.second, x, y + part, w, h - part)

Shown(t) == Areas(t, 0, 0, PaneSize, PaneSize)
Docked(t) == {a.window : a \in Shown(t)}

-----------------------------------------------------------------------------
(* The layouts.                                                            *)

RECURSIVE layoutInBox(_, _)
layoutInBox(ws, axis) ==
  IF ws = <<>> THEN Empty
  ELSE IF Len(ws) = 1 THEN Leaf(ws[1])
  ELSE Split(axis, 1, Len(ws), Leaf(ws[1]), layoutInBox(Tail(ws), axis))

\* A row of the grid: the last window of all takes what is left, another last window
\* of its row is split off with all of the area.
RECURSIVE GridRow(_, _, _)
GridRow(ws, columns, isLast) ==
  IF ws = <<>> THEN Empty
  ELSE IF Len(ws) = 1 /\ isLast THEN Leaf(ws[1])
  ELSE Split("x", 1, columns, Leaf(ws[1]), GridRow(Tail(ws), columns - 1, isLast))

RECURSIVE GridRows(_, _, _)
GridRows(ws, columns, rows) ==
  IF rows = 1 THEN GridRow(ws, columns, TRUE)
  ELSE Split("y", 1, rows, GridRow(SubSeq(ws, 1, columns), columns, FALSE),
             GridRows(SubSeq(ws, columns + 1, Len(ws)), columns, rows - 1))

layoutInGrid(ws) ==
  IF ws = <<>> THEN Empty
  ELSE LET columns == Min({c \in 1..Len(ws) : c * c >= Len(ws)})
       IN GridRows(ws, columns, Min({r \in 1..Len(ws) : r * columns >= Len(ws)}))

Covers(g, x, y) == x \in g.x..g.x + g.width - 1 /\ y \in g.y..g.y + g.height - 1

\* The tree of the windows whose cells the grid holds.  A region that no cut divides
\* gets none of its windows; one whose corner has no window fails an assertion.
RECURSIVE layoutInFreeRegion(_, _, _, _, _)
layoutInFreeRegion(grid, x0, x1, y0, y1) ==
  LET cutsX == {c \in x0 + 1..x1 - 1 : \A y \in y0..y1 - 1 : grid[<<c, y>>] # grid[<<c - 1, y>>]}
      cutsY == {c \in y0 + 1..y1 - 1 : \A x \in x0..x1 - 1 : grid[<<x, c>>] # grid[<<x, c - 1>>]}
  IN IF grid[<<x0, y0>>] = Empty THEN Leaf(Empty)
     ELSE IF \A x \in x0..x1 - 1, y \in y0..y1 - 1 : grid[<<x, y>>] = grid[<<x0, y0>>]
     THEN Leaf(grid[<<x0, y0>>])
     ELSE IF cutsX # {}
     THEN LET c == Min(cutsX) IN Split("x", c - x0, x1 - x0,
            layoutInFreeRegion(grid, x0, c, y0, y1), layoutInFreeRegion(grid, c, x1, y0, y1))
     ELSE IF cutsY # {}
     THEN LET c == Min(cutsY) IN Split("y", c - y0, y1 - y0,
            layoutInFreeRegion(grid, x0, x1, y0, c), layoutInFreeRegion(grid, x0, x1, c, y1))
     ELSE Empty

Positioned(r) == {w \in DockWindows : r[w] # Empty}
MaxX(r) == Max({r[w].x + r[w].width : w \in Positioned(r)})
MaxY(r) == Max({r[w].y + r[w].height : w \in Positioned(r)})
Cells(r) == (0..MaxX(r) - 1) \X (0..MaxY(r) - 1)
At(r, c) == {w \in Positioned(r) : Covers(r[w], c[1], c[2])}
IsOverlapDetected(r) == \E c \in Cells(r) : Cardinality(At(r, c)) > 1
IsEmptyCellDetected(r) == \E c \in Cells(r) : At(r, c) = {}

\* The cells as the windows claim them, which they do in no particular order.
Grids(r) ==
  {[c \in Cells(r) |-> FoldLeft(LAMBDA owner, w : IF w \in At(r, c) THEN w ELSE owner, Empty, order)]
     : order \in SetToSeqs(Positioned(r))}

-----------------------------------------------------------------------------
(* What is saved of a free layout, and what that restores.  A pane that    *)
(* holds one window is not a split and is not saved, nor is a child that   *)
(* is empty.                                                               *)

\* Mutant of SavedRatio: that of the first child, whatever the side.
RatioOfFirst(t) == t.num

\* The ratio that is saved is the left child's, or the lower one's.
SavedRatio(t) == IF t.axis = "x" THEN t.num ELSE t.den - t.num

RECURSIVE saveLayoutVisitor(_)
saveLayoutVisitor(t) ==
  IF t.kind # "split" THEN Empty
  ELSE LET Branch(c) == IF c.kind = "leaf" THEN c ELSE saveLayoutVisitor(c)
       IN [kind |-> IF t.axis = "x" THEN "hsplit" ELSE "vsplit",
           num |-> SavedRatio(t), den |-> t.den,
           first |-> Branch(t.first), second |-> Branch(t.second)]

\* A split to the left gives the first child its part; one down gives it to the
\* second, which is below.
RECURSIVE applyLayoutVisitor(_)
applyLayoutVisitor(s) ==
  CASE s.kind = "hsplit" -> Split("x", s.num, s.den,
                              applyLayoutVisitor(s.first), applyLayoutVisitor(s.second))
    [] s.kind = "vsplit" -> Split("y", s.den - s.num, s.den,
                              applyLayoutVisitor(s.first), applyLayoutVisitor(s.second))
    [] OTHER -> s

-----------------------------------------------------------------------------
\* A dashboard was loaded: the rectangles of its windows, if its file has some, are
\* those of the cells that they are given.  Its first frame uses them.
DockInit ==
  /\ layoutType \in {"Row", "Free"}
  /\ \E n \in 0..Cardinality(DockWindows) : windows \in {SubSeq(s, 1, n) : s \in {SetToSeq(DockWindows)}}
  /\ \E owner \in [(0..CellColumns - 1) \X (0..CellRows - 1) ->
                     IF layoutType = "Free" THEN ToSet(windows) \cup {Empty} ELSE {Empty}] :
       rectangle = [w \in DockWindows |->
         LET mine == {c \in DOMAIN owner : owner[c] = w}
             xs == {c[1] : c \in mine}
             ys == {c[2] : c \in mine}
         IN IF mine = {} THEN Empty
            ELSE [x |-> Min(xs), y |-> Min(ys),
                  width |-> Max(xs) - Min(xs) + 1, height |-> Max(ys) - Min(ys) + 1]]
  /\ node = Empty /\ lastFreeLayout = Empty /\ needsRelayout = TRUE /\ lastWindowCount = 0
  /\ wantsDockAtBottom = {} /\ asserted = FALSE /\ changes = 0

Asked == Positioned(rectangle) # {}

ChangeLayout == ~Asked /\ changes < MaxChanges /\ changes' = changes + 1

SetLayoutType(type) ==
  /\ ChangeLayout /\ type # layoutType
  /\ layoutType' = type /\ needsRelayout' = TRUE
  /\ UNCHANGED <<windows, rectangle, node, lastFreeLayout, lastWindowCount,
                 wantsDockAtBottom, asserted>>

\* Charts and control windows come, some of which ask to be docked, and go; a window
\* that is gone leaves the tree, and its area goes to the other side.
RECURSIVE Keep(_, _)
Keep(t, S) ==
  CASE t.kind = "empty" -> t
    [] t.kind = "leaf" -> IF t.window \in S THEN t ELSE Empty
    [] t.kind = "split" ->
         LET first == Keep(t.first, S)
             second == Keep(t.second, S)
         IN IF first = Empty THEN second ELSE IF second = Empty THEN first
            ELSE [t EXCEPT !.first = first, !.second = second]

AddWindow ==
  /\ ChangeLayout
  /\ \E w \in DockWindows \ ToSet(windows) :
       /\ windows' = Append(windows, w)
       /\ wantsDockAtBottom' \in {wantsDockAtBottom, wantsDockAtBottom \cup {w}}
  /\ UNCHANGED <<layoutType, rectangle, node, lastFreeLayout, needsRelayout,
                 lastWindowCount, asserted>>

RemoveWindow ==
  /\ ChangeLayout
  /\ \E w \in ToSet(windows) :
       /\ windows' = SelectSeq(windows, LAMBDA v : v # w)
       /\ node' = Keep(node, ToSet(windows) \ {w})
       /\ rectangle' = [rectangle EXCEPT ![w] = Empty]
       /\ wantsDockAtBottom' = wantsDockAtBottom \ {w}
  /\ UNCHANGED <<layoutType, lastFreeLayout, needsRelayout, lastWindowCount, asserted>>

\* The user drags a window out of the tree, or into it, while layouts are edited.
DragWindow ==
  /\ ChangeLayout
  /\ \/ \E w \in Docked(node) : node' = Keep(node, Docked(node) \ {w})
     \/ \E w \in ToSet(windows) \ Docked(node) : \E axis \in {"x", "y"} :
          node' = IF node = Empty THEN Leaf(w) ELSE Split(axis, 1, 2, Leaf(w), node)
  /\ UNCHANGED <<layoutType, windows, rectangle, lastFreeLayout, needsRelayout,
                 lastWindowCount, wantsDockAtBottom, asserted>>

-----------------------------------------------------------------------------
(* A frame.                                                                *)

\* The rectangles are used once.  If they overlap or leave gaps, the grid splits what
\* they have split.
ExactFree ==
  \E grid \in Grids(rectangle) :
    LET exact == layoutInFreeRegion(grid, 0, MaxX(rectangle), 0, MaxY(rectangle))
        illFormed == IsOverlapDetected(rectangle) \/ IsEmptyCellDetected(rectangle)
    IN /\ rectangle' = [w \in DockWindows |-> Empty]
       /\ asserted' = \/ Empty \in Docked(exact)
                      \/ (illFormed /\ IsSplit(exact) /\ Len(windows) > 1)
       /\ node' = IF illFormed THEN layoutInGrid(windows) ELSE exact
       /\ UNCHANGED wantsDockAtBottom

\* What was saved, for the windows that there still are, and below it the windows that
\* ask for it.  A dock space that shows nothing keeps its place above them.
dockAtBottomIfWanted ==
  LET saved == Keep(applyLayoutVisitor(lastFreeLayout), ToSet(windows))
      wanting == SelectSeq(windows, LAMBDA w : w \in wantsDockAtBottom)
      Below(t, w) == Split("y", 2, 3, t, Leaf(w))
  IN /\ node' = FoldLeft(Below, Keep(saved, Docked(saved) \ wantsDockAtBottom), wanting)
     /\ asserted' = \/ Len(wanting) > 1
                    \/ (wanting # <<>> /\ IsSplit(saved))
     /\ wantsDockAtBottom' = {}
     /\ UNCHANGED rectangle

relayout ==
  /\ IF layoutType # "Free"
     THEN /\ node' = (CASE layoutType = "Row" -> layoutInBox(windows, "x")
                          [] layoutType = "Column" -> layoutInBox(windows, "y")
                          [] OTHER -> layoutInGrid(windows))
          /\ UNCHANGED <<rectangle, wantsDockAtBottom, asserted>>
     ELSE IF Asked THEN ExactFree ELSE dockAtBottomIfWanted
  /\ needsRelayout' = FALSE

IsRelayout == needsRelayout \/ lastWindowCount # Len(windows)

\* The free layout is saved in every frame, except in one that uses rectangles.
Render ==
  /\ IF IsRelayout THEN relayout
     ELSE UNCHANGED <<node, rectangle, needsRelayout, wantsDockAtBottom, asserted>>
  /\ lastWindowCount' = Len(windows)
  /\ lastFreeLayout' = IF layoutType = "Free" /\ ~Asked THEN saveLayoutVisitor(node')
                       ELSE lastFreeLayout
  /\ UNCHANGED <<layoutType, windows, changes>>

DockNext ==
  /\ ~asserted
  /\ \/ \E type \in {"Row", "Column", "Grid", "Free"} : SetLayoutType(type)
     \/ AddWindow \/ RemoveWindow \/ DragWindow \/ Render

DockSpec == DockInit /\ [][DockNext]_dockVars

-----------------------------------------------------------------------------
(* Properties.                                                             *)

DockTypeOK ==
  /\ layoutType \in {"Row", "Column", "Grid", "Free"}
  /\ ToSet(windows) \subseteq DockWindows /\ wantsDockAtBottom \subseteq ToSet(windows)
  /\ asserted \/ Docked(node) \subseteq ToSet(windows)
  /\ {needsRelayout, asserted} \subseteq BOOLEAN /\ changes \in 0..MaxChanges

Disjoint(A) ==
  \A a, b \in A : a = b \/ a.x + a.width <= b.x \/ b.x + b.width <= a.x
                       \/ a.y + a.height <= b.y \/ b.y + b.height <= a.y

\* The windows share the pane: all are docked, and they cover it without overlaps.
SharePane(t) ==
  LET A == Shown(t)
  IN /\ {a.window : a \in A} = ToSet(windows) /\ Cardinality(A) = Len(windows) /\ Disjoint(A)
     /\ windows # <<>> =>
          PaneSize * PaneSize = MapThenSumSet(LAMBDA a : a.width * a.height, A)

\* Along an axis the windows get equal parts, in their order.
EqualParts(t, axis) ==
  LET part == PaneSize \div Len(windows)
      Place(i) == IF axis = "x"
                  THEN [window |-> windows[i], x |-> (i - 1) * part, y |-> 0,
                        width |-> part, height |-> PaneSize]
                  ELSE [window |-> windows[i], x |-> 0, y |-> (i - 1) * part,
                        width |-> PaneSize, height |-> part]
  IN Shown(t) = {Place(i) : i \in DOMAIN windows}

\* The rectangles, in the pane's measure.
AsAsked ==
  {[window |-> w, x |-> (rectangle[w].x * PaneSize) \div MaxX(rectangle),
    y |-> (rectangle[w].y * PaneSize) \div MaxY(rectangle),
    width |-> (rectangle[w].width * PaneSize) \div MaxX(rectangle),
    height |-> (rectangle[w].height * PaneSize) \div MaxY(rectangle)] : w \in Positioned(rectangle)}

\* A layout puts the windows where its name, the rectangles of the dashboard's file, or
\* what was saved say: a row and a column are equal parts in the order of the windows, a
\* grid shares the pane, rectangles that fit together are kept as they are, and the
\* free layout that another layout replaced comes back (Docking.cpp:211-402 and
\* ImGuiDockSpaceState.cpp:14-101 undo one another's conventions of sides).
LayoutIsRight ==
  /\ [][IsRelayout /\ ~needsRelayout' /\ Render =>
         /\ layoutType = "Row" => EqualParts(node', "x")
         /\ layoutType = "Column" => EqualParts(node', "y")
         /\ layoutType = "Grid" => SharePane(node')
         /\ layoutType = "Free" /\ Asked /\ ~(IsOverlapDetected(rectangle) \/ IsEmptyCellDetected(rectangle))
              => Shown(node') = AsAsked]_dockVars
  /\ [](~asserted /\ IsSplit(node) => applyLayoutVisitor(saveLayoutVisitor(node)) = node)
=============================================================================
