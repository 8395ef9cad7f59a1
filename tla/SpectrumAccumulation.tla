------------------------ MODULE SpectrumAccumulation ------------------------
(***************************************************************************)
(* The charts that accumulate spectra: the density histogram of            *)
(* SpectrumDensity and of the upper pane of SpectrumView, and the traces   *)
(* (largest, smallest and mean values) that both and SpectrumPlot draw     *)
(* (ui/charts).  One chart is followed, with its sinks in their order.     *)
(*                                                                         *)
(* The histogram is kept in two textures of the graphics card, each frame  *)
(* being added to one while it is written to the other, or, if the card    *)
(* does not serve or is not to be used, in system memory.  A histogram and *)
(* a trace are the spectra that were added to them, in order: how they     *)
(* decay and how they are coloured is left out.  A spectrum is the number  *)
(* of its arrival.                                                         *)
(***************************************************************************)
EXTENDS Naturals, Sequences

CONSTANTS
  NumSinks,       \* how many sinks the chart has
  FrameBins,      \* the numbers of bins that spectra have
  YRanges,        \* ranges of amplitudes
  MaxFrames,      \* bound: spectra that arrive
  MaxSettings     \* bound: choices and resets

ASSUME SpectrumAccumulationAssumption ==
  /\ NumSinks \in Nat \ {0} /\ MaxFrames \in Nat
  /\ FrameBins \subseteq Nat \ {0}

\* The sinks of the chart.
TraceSinks == 1..NumSinks

VARIABLES
  accKind,      \* the type of the chart
  gpuServes,    \* whether the programs can be built
  chosen,       \* gpu_acceleration, whether any trace is shown, the mode of the upper pane
  yRange,       \* y_min, y_max
  yAuto,        \* y_auto_scale
  plotLimits,   \* the range that the plot shows
  lastSetRange, \* _lastSetYMin, _lastSetYMax
  newest,       \* of each sink, its newest data set: [stamp, count, bins]
  counts,       \* of each sink, the sample count that was consumed last
  density,      \* the histogram
  traces,       \* of each sink, its traces: [size, frames]
  accResets,    \* history: how often the chart was reset
  choices       \* how many choices the user made

axisVars == <<yRange, yAuto, plotLimits, lastSetRange>>
accumulatorVars == <<counts, density, traces>>
accumulationVars ==
  <<accKind, gpuServes, chosen, axisVars, newest, accumulatorVars, accResets, choices>>

AccumulationKinds == {"SpectrumPlot", "SpectrumView", "SpectrumDensity"}

NoRange == "none"   \* quiet NaN

-----------------------------------------------------------------------------
(* The histogram *)

NoDensity ==
  [bins |-> 0, range |-> NoRange, prefer |-> TRUE, attempted |-> FALSE, available |-> FALSE,
   ping |-> 0, textures |-> [t \in 0..1 |-> <<>>], memory |-> <<>>, image |-> <<>>]

\* What has been accumulated.
Accumulated == IF density.available THEN density.textures[density.ping] ELSE density.memory

\* The other settings of the histogram survive.
DestroyAllResources(d) == [NoDensity EXCEPT !.range = d.range, !.ping = d.ping]

GpuReset(d) ==
  IF d.bins = 0 THEN d ELSE [d EXCEPT !.textures = [t \in 0..1 |-> <<>>], !.ping = 0]

CpuReset(d) == [d EXCEPT !.memory = <<>>, !.image = <<>>]

GpuResize(d, bins) ==
  [d EXCEPT !.bins = bins, !.ping = 0, !.textures = [t \in 0..1 |-> <<>>], !.image = <<>>]

CpuResize(d, bins) == [d EXCEPT !.bins = bins, !.memory = <<>>, !.image = <<>>]

DensityReset(d) == IF d.available THEN GpuReset(d) ELSE CpuReset(d)

DensityInit(d) ==
  IF d.attempted THEN d
  ELSE [d EXCEPT !.attempted = TRUE, !.available = d.prefer /\ gpuServes]

\* Mutant of ShapedFor: the range is taken over without a reset.
ShapedWithoutReset(d, bins, range) ==
  LET resized == IF d.bins = bins THEN d
                 ELSE IF d.available THEN GpuResize(d, bins) ELSE CpuResize(d, bins)
  IN [resized EXCEPT !.range = range]

\* A new size and a new range of amplitudes each begin a new histogram.
ShapedFor(d, bins, range) ==
  LET resized == IF d.bins = bins THEN d
                 ELSE [(IF d.available THEN GpuResize(d, bins) ELSE CpuResize(d, bins))
                         EXCEPT !.range = range]
  IN IF resized.range = range THEN resized
     ELSE [DensityReset(resized) EXCEPT !.range = range]

\* The one texture is read and the other one written, which is then coloured.
GpuUpdate(d, stamp) ==
  LET sum == Append(d.textures[d.ping], stamp)
  IN [d EXCEPT !.textures[1 - d.ping] = sum, !.ping = 1 - @, !.image = sum]

CpuUpdate(d, stamp) ==
  LET sum == Append(d.memory, stamp) IN [d EXCEPT !.memory = sum, !.image = sum]

\* Another preference destroys everything first.
DensityUpdate(frame, range) ==
  LET kept == IF density.prefer = chosen.gpu THEN density
              ELSE [DestroyAllResources(density) EXCEPT !.prefer = chosen.gpu]
      shaped == ShapedFor(DensityInit(kept), frame.bins, range)
  IN IF shaped.available THEN GpuUpdate(shaped, frame.stamp) ELSE CpuUpdate(shaped, frame.stamp)

-----------------------------------------------------------------------------
(* The traces *)

NoTraces == [size |-> 0, frames |-> <<>>]

\* Without a trace to show, nothing is accumulated, and the size stays as it was.
TracesUpdate(t, frame) ==
  IF ~chosen.overlays THEN t
  ELSE IF t.size # frame.bins THEN [size |-> frame.bins, frames |-> <<frame.stamp>>]
  ELSE [t EXCEPT !.frames = Append(@, frame.stamp)]

-----------------------------------------------------------------------------
AccumulationInit ==
  /\ accKind \in AccumulationKinds /\ gpuServes \in BOOLEAN
  /\ chosen \in [gpu : {TRUE}, overlays : {TRUE}, mode : {"Spectrum", "Density"}]
  /\ accKind # "SpectrumView" =>
       chosen.mode = IF accKind = "SpectrumPlot" THEN "Spectrum" ELSE "Density"
  /\ yRange \in YRanges /\ yAuto = TRUE /\ plotLimits = yRange /\ lastSetRange = NoRange
  /\ newest = [s \in TraceSinks |-> [stamp |-> 0, count |-> 0, bins |-> 0]]
  /\ counts = [s \in TraceSinks |-> 0]
  /\ density = NoDensity /\ traces = [s \in TraceSinks |-> NoTraces]
  /\ accResets = 0 /\ choices = 0

Stamps == {newest[s].stamp : s \in TraceSinks}

LatestStamp == CHOOSE stamp \in Stamps : \A other \in Stamps : other <= stamp

SpectrumArrives ==
  /\ LatestStamp < MaxFrames
  /\ \E s \in TraceSinks, bins \in FrameBins :
       newest' = [newest EXCEPT ![s] =
                    [stamp |-> LatestStamp + 1, count |-> @.count + 1, bins |-> bins]]
  /\ UNCHANGED <<accKind, gpuServes, chosen, axisVars, accumulatorVars, accResets, choices>>

Change ==
  /\ choices + accResets < MaxSettings /\ choices' = choices + 1
  /\ UNCHANGED <<accKind, gpuServes, newest, accumulatorVars, accResets>>

ChooseSetting ==
  /\ Change
  /\ \/ chosen' = [chosen EXCEPT !.gpu = ~@]
     \/ chosen' = [chosen EXCEPT !.overlays = ~@]
     \/ accKind = "SpectrumView"
        /\ chosen' = [chosen EXCEPT !.mode = IF @ = "Density" THEN "Spectrum" ELSE "Density"]
  /\ UNCHANGED axisVars

ChooseRange ==
  /\ Change
  /\ yRange' \in YRanges \ {yRange}
  /\ UNCHANGED <<chosen, yAuto, plotLimits, lastSetRange>>

\* The user zooms the plot.
Zoom ==
  /\ Change
  /\ plotLimits' \in YRanges \ {plotLimits}
  /\ UNCHANGED <<chosen, yRange, yAuto, lastSetRange>>

\* All is accumulated anew, except that a SpectrumPlot has no histogram.
ResetAccumulation ==
  /\ choices + accResets < MaxSettings /\ accResets' = accResets + 1
  /\ density' = IF accKind = "SpectrumPlot" THEN density ELSE DensityReset(density)
  /\ traces' = [s \in TraceSinks |-> NoTraces]
  /\ counts' = [s \in TraceSinks |-> 0]
  /\ UNCHANGED <<accKind, gpuServes, chosen, axisVars, newest, choices>>

-----------------------------------------------------------------------------
(* The frame.  A sink's spectrum is new when its sample count is another   *)
(* one than in the last frame.                                             *)

\* SpectrumDensity has one count and one set of traces, the others have them per sink.
Key(s) == IF accKind = "SpectrumDensity" THEN 1 ELSE s

ConsumesNewData(s) == counts[Key(s)] # newest[s].count

\* The sinks that have a spectrum; of the density the first of them is shown.
Valid == {s \in TraceSinks : newest[s].count > 0}

DensitySinks == {s \in Valid : \A other \in Valid : s <= other}

NewSinks(shown) == {s \in shown : ConsumesNewData(s)}

DrawTraces(shown) ==
  /\ counts' = [k \in TraceSinks |->
       IF \E s \in shown : Key(s) = k THEN newest[CHOOSE s \in shown : Key(s) = k].count
       ELSE counts[k]]
  /\ traces' = [k \in TraceSinks |->
       IF \E s \in NewSinks(shown) : Key(s) = k
       THEN TracesUpdate(traces[k], newest[CHOOSE s \in shown : Key(s) = k]) ELSE traces[k]]
  /\ UNCHANGED <<accKind, gpuServes, chosen, newest, accResets, choices>>

DrawSpectrumSignals ==
  /\ chosen.mode = "Spectrum"
  /\ DrawTraces(Valid)
  /\ UNCHANGED <<density, axisVars>>

\* The limits are forced when they are others than those set last; if they are not, and
\* the plot shows others, the user has zoomed, and automatic scaling ends.
SetupYAxis ==
  IF accKind # "SpectrumDensity" THEN UNCHANGED axisVars
  ELSE IF yRange # lastSetRange
       THEN plotLimits' = yRange /\ lastSetRange' = yRange /\ UNCHANGED <<yRange, yAuto>>
  ELSE IF yAuto /\ plotLimits # lastSetRange
       THEN /\ yAuto' = FALSE /\ yRange' = plotLimits /\ lastSetRange' = plotLimits
            /\ UNCHANGED plotLimits
  ELSE UNCHANGED axisVars

\* A zoom is found before the spectrum is added, so that its range serves at once.
DrawDensitySignals ==
  /\ chosen.mode = "Density"
  /\ SetupYAxis
  /\ DrawTraces(DensitySinks)
  /\ density' = IF NewSinks(DensitySinks) = {} THEN density
                ELSE DensityUpdate(newest[CHOOSE s \in DensitySinks : TRUE], yRange')

AccumulationNext ==
  \/ SpectrumArrives \/ ChooseSetting \/ ChooseRange \/ Zoom \/ ResetAccumulation
  \/ DrawSpectrumSignals \/ DrawDensitySignals

AccumulationSpec == AccumulationInit /\ [][AccumulationNext]_accumulationVars

-----------------------------------------------------------------------------
AccumulationTypeOK ==
  /\ accKind \in AccumulationKinds /\ gpuServes \in BOOLEAN
  /\ yRange \in YRanges /\ yAuto \in BOOLEAN
  /\ plotLimits \in YRanges /\ lastSetRange \in YRanges \cup {NoRange}
  /\ counts \in [TraceSinks -> 0..MaxFrames]
  /\ density.bins \in FrameBins \cup {0} /\ density.range \in YRanges \cup {NoRange}
  /\ density.ping \in 0..1 /\ density.image \in Seq(1..MaxFrames)
  /\ \A s \in TraceSinks : traces[s].size \in FrameBins \cup {0}

\* The histogram and the traces follow RowHistory, with no limit to their depth.
Histogram == INSTANCE RowHistory WITH
  rows <- Accumulated, depth <- MaxFrames,
  shape <- <<density.bins, density.range, density.prefer, density.available, accResets>>

Trace(s) == INSTANCE RowHistory WITH
  rows <- traces[s].frames, depth <- MaxFrames, shape <- <<traces[s].size, accResets>>

\* Each spectrum is counted once, however many frames show it, and nothing that was
\* counted gets lost between the two textures or when the card and the memory take turns;
\* spectra that were sorted into other bins or another range are never counted in.  The
\* image shows what was accumulated, but for the textures after a reset, which are
\* coloured again with the next spectrum.
CountedOnce ==
  /\ Histogram!HistorySpec
  /\ [][\A s \in TraceSinks : [Trace(s)!HistoryNext]_(Trace(s)!historyVars)]_<<traces, accResets>>
  /\ [](density.image = Accumulated \/ (density.available /\ Accumulated = <<>>))
=============================================================================
