--------------------------- MODULE MCReplicaRoles ---------------------------
(***************************************************************************)
(* Small instances of ReplicaRoles: the three servers of start_cluster.sh. *)
(***************************************************************************)
EXTENDS ReplicaRoles

ThreeServers == 1..3

=============================================================================
