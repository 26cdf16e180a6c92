----------------------------- MODULE MCPolicySync -----------------------------
(* The instances of PolicySync for TLC: the .cfg files give all constants. *)
EXTENDS ReplicationRefinement
=============================================================================
