---------------------------- MODULE MCReplicaQueue ----------------------------
(* The model checking of ReplicaQueue.                                       *)
EXTENDS ReplicaQueue
=============================================================================
