------------------------ MODULE MCRemoteSubscription ------------------------
(***************************************************************************)
(* Instances of RemoteSubscription for TLC: which topics each source may   *)
(* be pointed at.                                                          *)
(***************************************************************************)
EXTENDS RemoteSubscription

CONSTANTS s1, u1, u2

\* Every source can be pointed at either topic.
AllTopics == [s \in Sources |-> {u1, u2}]

\* All sources share one topic, and hence one subscription.
SharedTopic == [s \in Sources |-> {u1}]

\* No topic is shared by two sources.
OwnTopics == [s \in Sources |-> IF s = s1 THEN {u1} ELSE {u2}]

=============================================================================
