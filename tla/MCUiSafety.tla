------------------------------ MODULE MCUiSafety ------------------------------
(***************************************************************************)
(* Instances for TLC of the components of the UI of which only safety is   *)
(* stated.  They share no state, so that a behaviour follows one of them.  *)
(***************************************************************************)
EXTENDS FramePacer, TouchHandler, GraphModel, ControlWindows, Keypad, Docking,
        BlockPlacement, FlowgraphEditors, ChartWindows, SpectrumHistory, SpectrumAccumulation

CONSTANTS c1, c2, n1, n2, n3, sa, da

\* Two blocks with a property each of their own, and one of them with another.
OwnName == [b \in ControlBlocks |-> b]
SomeSettings == [b \in ControlBlocks |-> IF b = c1 THEN {"p"} ELSE {"p", "q"}]
TwoTypes == [p \in {"p", "q"} |-> IF p = "p" THEN "slider" ELSE "keypad"]

\* An edge, and a block on a cycle of its own.
CycleBesideEdge == {{<<n1, n2>>, <<n3, n3>>}}

\* A chart with a stream and a data set, and one whose name the page takes next.
SomeCharts ==
  <<[name |-> <<"Plot", 1, 0>>, type |-> "XYChart", names |-> {<<sa, "signal">>, <<da, "block">>}],
    [name |-> <<"Chart", 1, 0>>, type |-> "YYChart", names |-> {}]>>

VARIABLE part   \* the component that is followed

partVars == <<part, pacerVars, touchVars, graphModelVars, controlVars, keypadVars,
              dockVars, placementVars, editorVars, chartVars, spectrumVars, accumulationVars>>

\* A component that is not followed starts in one of its initial states.
Init ==
  /\ part \in {"pacer", "touch", "graph", "controls", "keypad", "docking", "placement",
               "editors", "charts", "history", "accumulation"}
  /\ part # "controls" => pending = {} /\ controls = {}
  /\ part # "docking" => windows = <<>> /\ layoutType = "Row"
  /\ part # "placement" => links = {} /\ constraints = [n \in Nodes |-> Unplaced]
  /\ part # "history" => /\ kind = "SurfacePlot" /\ textures = FALSE
                        /\ settings = [depth |-> CHOOSE d \in Depths : TRUE, gpu |-> TRUE, log |-> FALSE]
  /\ part # "accumulation" => /\ accKind = "SpectrumPlot" /\ gpuServes = FALSE
                             /\ chosen = [gpu |-> TRUE, overlays |-> TRUE, mode |-> "Spectrum"]
                             /\ yRange = CHOOSE r \in YRanges : TRUE
  /\ part # "editors" => scheduled = {} /\ inGraph = [b \in AllBlocks |-> RootGraph]
  /\ PacerInit /\ TouchInit /\ GraphModelInit /\ ControlInit /\ KeypadInit
  /\ DockInit /\ PlacementInit /\ EditorsInit /\ ChartWindowsInit
  /\ SpectrumHistoryInit /\ AccumulationInit

Next ==
  /\ UNCHANGED part
  /\ IF part = "pacer" THEN PacerNext ELSE UNCHANGED pacerVars
  /\ IF part = "touch" THEN TouchNext ELSE UNCHANGED touchVars
  /\ IF part = "graph" THEN GraphModelNext ELSE UNCHANGED graphModelVars
  /\ IF part = "controls" THEN ControlNext ELSE UNCHANGED controlVars
  /\ IF part = "keypad" THEN KeypadNext ELSE UNCHANGED keypadVars
  /\ IF part = "docking" THEN DockNext ELSE UNCHANGED dockVars
  /\ IF part = "placement" THEN PlacementNext ELSE UNCHANGED placementVars
  /\ IF part = "editors" THEN EditorsNext ELSE UNCHANGED editorVars
  /\ IF part = "charts" THEN ChartWindowsNext ELSE UNCHANGED chartVars
  /\ IF part = "history" THEN SpectrumHistoryNext ELSE UNCHANGED spectrumVars
  /\ IF part = "accumulation" THEN AccumulationNext ELSE UNCHANGED accumulationVars

UiSpec == Init /\ [][Next]_partVars

TypeOK ==
  /\ part = "pacer" => PacerTypeOK
  /\ part = "touch" => TouchTypeOK
  /\ part = "graph" => GraphModelTypeOK
  /\ part = "controls" => ControlTypeOK
  /\ part = "keypad" => KeypadTypeOK
  /\ part = "docking" => DockTypeOK
  /\ part = "placement" => PlacementTypeOK
  /\ part = "editors" => EditorsTypeOK
  /\ part = "charts" => ChartWindowsTypeOK
  /\ part = "history" => SpectrumHistoryTypeOK
  /\ part = "accumulation" => AccumulationTypeOK
=============================================================================
