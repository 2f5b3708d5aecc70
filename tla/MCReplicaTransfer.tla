-------------------------- MODULE MCReplicaTransfer --------------------------
(* The model checking of ReplicaTransfer.                                    *)
EXTENDS ReplicaTransfer
=============================================================================
