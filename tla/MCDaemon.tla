----------------------------- MODULE MCDaemon -----------------------------
(***************************************************************************)
(* Daemon for TLC.  The call, the operators and the listener meet in one   *)
(* variable each, processRequest and etcd.components, and their product is *)
(* large: the operators act in the behaviours of OperatorKinds, and the    *)
(* organization changes, or the storage is not an etcd server elsewhere,   *)
(* in those of ListenerKinds.                                              *)
(***************************************************************************)
EXTENDS Daemon

CONSTANTS OperatorKinds, ListenerKinds

Considered ==
    /\ kind \in OperatorKinds \/ UNCHANGED broadcastVars
    /\ kind \in ListenerKinds \/ etcd'.events = etcd.events

MCSpec ==
    /\ DaemonInit /\ (kind \in ListenerKinds \/ etcd.type = "etcd")
    /\ [][DaemonNext /\ Considered]_vars
    /\ WF_vars(DaemonStep) /\ WF_vars(BroadcasterSteps)
=============================================================================
