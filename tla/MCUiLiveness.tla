---------------------------- MODULE MCUiLiveness ----------------------------
(***************************************************************************)
(* Instances for TLC of the components of the UI that must get on: a       *)
(* scheduler with its tasks, the dashboards of the service, and the        *)
(* samples of a remote source.  They share no state, so that a behaviour   *)
(* follows one of them.                                                    *)
(***************************************************************************)
EXTENDS UiScheduler, Dashboards, RemoteStream

VARIABLE part   \* the component that is followed

partVars == <<part, schedulerVars, dashboardVars, streamVars>>

\* A dashboard is chosen from the start only if dashboards are followed.
Init ==
  /\ part \in {"scheduler", "dashboards", "stream"}
  /\ SchedulerInit /\ StreamInit
  /\ DashboardsInit
  /\ part # "dashboards" => asked = {[kind |-> "names"]}

Next ==
  /\ UNCHANGED part
  /\ IF part = "scheduler" THEN SchedulerNext ELSE UNCHANGED schedulerVars
  /\ IF part = "dashboards" THEN DashboardsNext ELSE UNCHANGED dashboardVars
  /\ IF part = "stream" THEN StreamNext ELSE UNCHANGED streamVars

\* Only the component that is followed is scheduled fairly: the fairness that the
\* components state, for the steps of that one.
Fairness ==
  /\ WF_schedulerVars(part = "scheduler" /\ Alive /\ UiThread)
  /\ WF_schedulerVars(part = "scheduler" /\ Alive /\ SchedulerThread)
  /\ \A t \in Tasks : WF_schedulerVars(part = "scheduler" /\ PoolTask(t))
  /\ WF_dashboardVars(part = "dashboards" /\ FrameStep)
  /\ SF_dashboardVars(part = "dashboards" /\ FireCallback)
  /\ WF_dashboardVars(part = "dashboards" /\ AnswerRequest)
  /\ StreamFairness

FairSpec == Init /\ [][Next]_partVars /\ Fairness

TypeOK == UiSchedulerTypeOK /\ DashboardsTypeOK /\ StreamTypeOK

\* ChosenIsShown, of the behaviours that follow the dashboards.
FollowedChosenIsShown == part = "dashboards" => ChosenIsShown
=============================================================================
