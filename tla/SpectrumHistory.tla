--------------------------- MODULE SpectrumHistory ---------------------------
(***************************************************************************)
(* The charts that show the history of a spectrum: WaterfallPlot, the      *)
(* lower pane of SpectrumView and SurfacePlot (ui/charts).  One of them is *)
(* followed.  The newest spectra are kept in a ring of rows, in a texture  *)
(* that scrolls by its coordinates if the graphics card gives one, in      *)
(* system memory otherwise; a surface is drawn from a mesh that is built   *)
(* again when the ring has changed.                                        *)
(*                                                                         *)
(* A frame first applies what the user has set since the last one, then    *)
(* takes over the newest spectrum of the sink, which arrives in another    *)
(* thread at any time.  A spectrum is the number of its arrival and its    *)
(* number of bins; what its values look like is left out.  A row is drawn  *)
(* over the frequencies of the newest spectrum.                            *)
(***************************************************************************)
EXTENDS Naturals, Sequences, SequencesExt

CONSTANTS
  SpectrumBins,    \* the numbers of bins that spectra have
  LogColumns,      \* kLogSpectrumColumns
  Depths,          \* values of n_history
  MeshDim,         \* kMaxDisplayDim, the largest number of rows of a mesh, about
  MaxSpectra,      \* bound: spectra that arrive
  MaxAdjustments   \* bound: changes and resets

ASSUME SpectrumHistoryAssumption ==
  /\ Depths \subseteq Nat \ {0} /\ SpectrumBins \subseteq Nat \ {0}
  /\ LogColumns \in Nat \ {0} /\ MeshDim \in Nat \ {0}

VARIABLES
  kind,          \* the type of the chart
  textures,      \* whether the graphics card serves (a texture, the programs of a mesh)
  settings,      \* n_history, gpu_acceleration, a logarithmic frequency axis
  resizePending, \* _pendingResizeTime > 0: the slider was moved a moment ago
  latest,        \* the newest data set of the sink: [stamp, count, bins]
  ring,          \* [width, height, cells, times, writeRow, filled]
  preferGpu,     \* _preferGpu of the buffer
  texels,        \* the contents of the texture
  lastCount,     \* the sample count of the last row
  lastWidth,     \* _lastInitWidth, _lastSpectrumSize
  lastLog,       \* _logModeActive
  mesh,          \* the rows of the mesh in the graphics card
  meshDirty,     \* whether the ring has changed since
  inFrame,       \* whether a frame has begun and its spectrum was not fetched yet
  resets,        \* history: how often the chart was reset
  adjustments    \* how many changes the user made

chartStateVars == <<ring, preferGpu, texels, lastCount, lastWidth, lastLog, mesh, meshDirty>>
userVars == <<settings, resizePending, adjustments>>
spectrumVars == <<kind, textures, latest, inFrame, resets, chartStateVars, userVars>>

HistoryKinds == {"WaterfallPlot", "SpectrumView", "SurfacePlot"}

IsSurface == kind = "SurfacePlot"

NoCount == MaxSpectra + 1   \* std::numeric_limits<std::size_t>::max()

Blank == 0                  \* a row that holds no spectrum

-----------------------------------------------------------------------------
(* The ring *)

BlankRows(height) == [row \in 0..(height - 1) |-> Blank]

EmptyRing(width, height) ==
  [width |-> width, height |-> height, writeRow |-> 0, filled |-> 0,
   cells |-> BlankRows(height), times |-> BlankRows(height)]

\* The row of the ring that is the i-th oldest of the last n, from 0 on.
RowAmongLast(r, n, i) == (r.writeRow + r.height - n + i) % r.height

Pushed(r, stamp) ==
  IF r.width = 0 \/ r.height = 0 THEN r
  ELSE [r EXCEPT !.cells[r.writeRow] = stamp, !.times[r.writeRow] = stamp,
                 !.writeRow = (@ + 1) % r.height,
                 !.filled = IF @ < r.height THEN @ + 1 ELSE @]

\* Mutant of ResizedHistory: the oldest rows are kept.
ResizedKeepsOldest(r, height) ==
  IF height = r.height \/ r.width = 0 THEN r
  ELSE LET kept == IF r.filled < height THEN r.filled ELSE height
           Copied(rows) == [row \in 0..(height - 1) |->
             IF row < height - kept THEN Blank
             ELSE rows[RowAmongLast(r, r.filled, row - (height - kept))]]
       IN [r EXCEPT !.height = height, !.writeRow = 0, !.filled = kept,
                    !.cells = Copied(r.cells), !.times = Copied(r.times)]

\* The newest rows are copied to the end, and the next one is written at the start.
ResizedHistory(r, height) ==
  IF height = r.height \/ r.width = 0 THEN r
  ELSE LET kept == IF r.filled < height THEN r.filled ELSE height
           Copied(rows) == [row \in 0..(height - 1) |->
             IF row < height - kept THEN Blank
             ELSE rows[RowAmongLast(r, kept, row - (height - kept))]]
       IN [r EXCEPT !.height = height, !.writeRow = 0, !.filled = kept,
                    !.cells = Copied(r.cells), !.times = Copied(r.times)]

Cleared(r) == EmptyRing(r.width, r.height)

\* The rows by their times, the oldest first.
RowsOf(r) == [k \in 1..r.filled |-> r.times[RowAmongLast(r, r.filled, k - 1)]]

RawTimeBounds(r) ==
  <<r.times[RowAmongLast(r, r.filled, 0)], r.times[RowAmongLast(r, 1, 0)]>>

-----------------------------------------------------------------------------
(* What is drawn, from the low to the high end of the time axis.           *)

\* The coordinates of the texture are the middles of the newest and the oldest row:
\* of the bands of the image, from the newest, the p-th samples this row.
SampledRow(r, p) ==
  LET offset == ((2 * p - 1) * (r.filled - 1) + r.filled) \div (2 * r.filled)
  IN (r.writeRow + r.height - 1 - offset) % r.height

TextureImage(newestLeading) ==
  [k \in 1..ring.filled |->
     texels[SampledRow(ring, IF newestLeading THEN ring.filled + 1 - k ELSE k)]]

\* The heat map draws its first row on top.
CpuImage(newestLeading) ==
  [k \in 1..ring.filled |->
     LET i == ring.filled - k
     IN ring.cells[IF newestLeading THEN (ring.writeRow + ring.height - 1 - i) % ring.height
                   ELSE RowAmongLast(ring, ring.filled, i)]]

CpuImageHorizontal(newestLeading) ==
  [k \in 1..ring.filled |->
     ring.cells[RowAmongLast(ring, ring.filled,
                             IF newestLeading THEN k - 1 ELSE ring.filled - k)]]

Image(newestLeading, horizontal) ==
  IF textures THEN TextureImage(newestLeading)
  ELSE IF horizontal THEN CpuImageHorizontal(newestLeading)
  ELSE CpuImage(newestLeading)

\* Of many rows the mesh has every n-th.
MeshOf(r) ==
  LET stride == IF r.filled < MeshDim THEN 1 ELSE r.filled \div MeshDim
  IN [k \in 1..((r.filled + stride - 1) \div stride) |->
        r.cells[RowAmongLast(r, r.filled, (k - 1) * stride)]]

SurfaceArrays == [k \in 1..ring.filled |-> ring.cells[RowAmongLast(ring, ring.filled, k - 1)]]

-----------------------------------------------------------------------------
(* The sink and the user                                                   *)

SpectrumHistoryInit ==
  /\ kind \in HistoryKinds /\ textures \in BOOLEAN
  /\ \E depth \in Depths : settings = [depth |-> depth, gpu |-> TRUE, log |-> FALSE]
  /\ latest = [stamp |-> 0, count |-> 0, bins |-> 0]
  /\ ring = EmptyRing(0, 0) /\ texels = BlankRows(0) /\ preferGpu = TRUE
  /\ lastCount = NoCount /\ lastWidth = 0 /\ lastLog = FALSE
  /\ mesh = <<>> /\ meshDirty = FALSE
  /\ resizePending = FALSE /\ inFrame = FALSE /\ resets = 0 /\ adjustments = 0

\* The count of the sink starts again with a data set that carries a later time.
Arrive ==
  /\ latest.stamp < MaxSpectra
  /\ \E bins \in SpectrumBins, carriesTime \in BOOLEAN :
       latest' = [stamp |-> latest.stamp + 1, bins |-> bins,
                  count |-> IF carriesTime THEN 1 ELSE latest.count + 1]
  /\ UNCHANGED <<kind, textures, inFrame, resets, chartStateVars, userVars>>

Adjust ==
  /\ ~inFrame /\ adjustments + resets < MaxAdjustments
  /\ adjustments' = adjustments + 1
  /\ UNCHANGED <<kind, textures, latest, inFrame, resets, chartStateVars>>

\* The slider writes the setting and has the rows follow when it rests.
MoveHistorySlider ==
  /\ Adjust
  /\ \E depth \in Depths : settings' = [settings EXCEPT !.depth = depth]
  /\ resizePending' = TRUE

\* A setting that is changed elsewhere is followed in the next frame.
ChangeSettings ==
  /\ Adjust
  /\ \/ \E depth \in Depths : settings' = [settings EXCEPT !.depth = depth]
     \/ settings' = [settings EXCEPT !.gpu = ~@]
     \/ settings' = [settings EXCEPT !.log = ~@]
  /\ UNCHANGED resizePending

\* The renderer of the surface is destroyed, that of the waterfall keeps its texture.
ResetHistory ==
  /\ ~inFrame /\ adjustments + resets < MaxAdjustments
  /\ resets' = resets + 1
  /\ ring' = Cleared(ring)
  /\ IF IsSurface
     THEN meshDirty' = TRUE /\ mesh' = <<>> /\ UNCHANGED <<texels, lastCount>>
     ELSE /\ texels' = BlankRows(ring.height)
          /\ lastCount' = IF kind = "SpectrumView" THEN NoCount ELSE lastCount
          /\ UNCHANGED <<mesh, meshDirty>>
  /\ UNCHANGED <<kind, textures, latest, inFrame, preferGpu, lastWidth, lastLog, userVars>>

-----------------------------------------------------------------------------
(* The frame *)

\* Everything is begun anew when the preference changes, and then made as deep as set.
Prepared(wanted) ==
  LET current == IF IsSurface \/ settings.gpu = preferGpu THEN ring ELSE Cleared(ring)
  IN IF wanted /\ current.width > 0
     THEN ResizedHistory(current, settings.depth) ELSE current

BeginDraw ==
  /\ ~inFrame /\ inFrame' = TRUE
  /\ \/ UNCHANGED resizePending
     \/ resizePending /\ resizePending' = FALSE
  /\ ring' = Prepared(~resizePending')
  /\ IF IsSurface
     THEN meshDirty' = (meshDirty \/ ring'.height # ring.height) /\ UNCHANGED <<texels, preferGpu>>
     ELSE /\ texels' = IF ring' = ring THEN texels ELSE ring'.cells
          /\ preferGpu' = settings.gpu /\ UNCHANGED meshDirty
  /\ UNCHANGED <<kind, textures, latest, resets, lastCount, lastWidth, lastLog, mesh,
                 settings, adjustments>>

\* The ring begins anew when its rows get another width.
RingFor(width) ==
  IF lastWidth # width \/ (IsSurface /\ lastLog # settings.log)
  THEN EmptyRing(width, settings.depth) ELSE ring

PushSpectrum ==
  LET width == IF settings.log THEN LogColumns ELSE latest.bins
      begun == RingFor(width)
  IN /\ lastCount' = latest.count /\ lastWidth' = width
     /\ ring' = Pushed(begun, latest.stamp)
     /\ IF IsSurface
        THEN lastLog' = settings.log /\ UNCHANGED <<texels, preferGpu>>
        ELSE /\ texels' = [(IF begun = ring THEN texels ELSE begun.cells)
                             EXCEPT ![begun.writeRow] = latest.stamp]
             /\ preferGpu' = IF begun = ring THEN preferGpu ELSE settings.gpu
             /\ UNCHANGED lastLog

NothingNew ==
  (latest.count = 0 \/ latest.count = lastCount)
  /\ UNCHANGED <<ring, texels, preferGpu, lastCount, lastWidth, lastLog>>

\* The mesh is built of two rows or more, in the memory of the graphics card.
UploadMesh(pushed) ==
  IF IsSurface /\ (meshDirty \/ pushed) /\ ring'.filled >= 2 /\ settings.gpu /\ textures
  THEN mesh' = MeshOf(ring') /\ meshDirty' = FALSE
  ELSE meshDirty' = (meshDirty \/ (IsSurface /\ pushed)) /\ UNCHANGED mesh

FetchAndPushData ==
  /\ inFrame /\ inFrame' = FALSE
  /\ \/ latest.count > 0 /\ latest.count # lastCount /\ PushSpectrum /\ UploadMesh(TRUE)
     \/ NothingNew /\ UploadMesh(FALSE)
  /\ UNCHANGED <<kind, textures, latest, resets, userVars>>

\* Without sinks, or in a window that is not visible, nothing is fetched.
SkipFetch ==
  /\ inFrame /\ inFrame' = FALSE
  /\ UNCHANGED <<kind, textures, latest, resets, chartStateVars, userVars>>

SpectrumHistoryNext ==
  \/ Arrive \/ MoveHistorySlider \/ ChangeSettings \/ ResetHistory
  \/ BeginDraw \/ FetchAndPushData \/ SkipFetch

SpectrumHistorySpec == SpectrumHistoryInit /\ [][SpectrumHistoryNext]_spectrumVars

-----------------------------------------------------------------------------
SpectrumHistoryTypeOK ==
  /\ kind \in HistoryKinds /\ textures \in BOOLEAN
  /\ settings \in [depth : Depths, gpu : BOOLEAN, log : BOOLEAN]
  /\ latest \in [stamp : 0..MaxSpectra, count : 0..MaxSpectra, bins : SpectrumBins \cup {0}]
  /\ ring.height \in Depths \cup {0} /\ ring.filled \in 0..ring.height
  /\ ring.width \in SpectrumBins \cup {LogColumns, 0}
  /\ ring.height > 0 => ring.writeRow \in 0..(ring.height - 1)
  /\ DOMAIN ring.cells = 0..(ring.height - 1) /\ DOMAIN ring.times = DOMAIN ring.cells
  /\ ~IsSurface => DOMAIN texels = DOMAIN ring.cells
  /\ lastCount \in 0..NoCount /\ mesh \in Seq(1..MaxSpectra)

\* The rows of the ring implement the history of a chart (RowHistory): every spectrum
\* that is taken over follows the one before it, whatever its number in the ring, and
\* neither the change of the depth nor the wrap of the ring loses, repeats or swaps one.
History == INSTANCE RowHistory WITH
  rows <- RowsOf(ring), depth <- ring.height, shape <- <<ring.width, preferGpu, lastLog, resets>>

\* What is seen is the history: the image from the texture, whose coordinates wrap around
\* its end, and the heat map drawn without one show the rows of the ring by their times,
\* in either orientation and for either direction of the time axis; the mesh in the
\* graphics card that is not marked to be built again is that of the rows.  (The direction
\* is a parameter: for an axis of wall-clock times the charts pass the wrong one.)
RowsAreDrawn ==
  /\ ~IsSurface /\ ring.filled > 0 =>
       \A leading, horizontal \in BOOLEAN :
         Image(leading, horizontal) =
           IF leading THEN RowsOf(ring) ELSE Reverse(RowsOf(ring))
  /\ ring.filled > 0 =>
       RawTimeBounds(ring) = <<Head(RowsOf(ring)), Last(RowsOf(ring))>>
  /\ IsSurface => /\ SurfaceArrays = RowsOf(ring)
                  /\ ~meshDirty /\ ring.filled >= 2 => mesh = MeshOf(ring)

\* The history that the ring keeps is the one promised, and the one that is drawn.
HistoryIsShown == History!HistorySpec /\ []RowsAreDrawn
=============================================================================
