------------------------------ MODULE MCMonitor ------------------------------
(* Clusters that are idle enough (load 1), too busy for a threshold of 1   *)
(* (load 2), down, silent, or out of their schedule; an operator who may   *)
(* configure, disable and delete a backend.                                *)
EXTENDS MonitorWindows

Light == [running |-> 0, queued |-> 4]
Heavy == [running |-> 1, queued |-> 0]

MCWorkloads == {Light, Heavy}

Steady == {[scheduled |-> TRUE, state |-> "up", work |-> w] : w \in MCWorkloads}
          \cup {[scheduled |-> TRUE, state |-> "down", work |-> Light]}
Mute == [scheduled |-> TRUE, state |-> "silent", work |-> Light]
Off == [scheduled |-> FALSE, state |-> "up", work |-> Light]

AllStates == Steady \cup {Mute, Off}
FewStates == {[scheduled |-> TRUE, state |-> "up", work |-> Light],
              [scheduled |-> TRUE, state |-> "down", work |-> Light], Mute}

MCOperatorRequests ==
    {q \in Requests :
        \/ q.op \in {"Enable", "Disable", "Delete"}
        \/ q.op = "CreateOrUpdate" /\ q.new.clusterLoad = 0 /\ q.new.isEnabled}
=============================================================================
