---------------------------- MODULE MCAgentCluster ----------------------------
(* Instances of AgentClusterSystem for TLC. *)
EXTENDS AgentClusterSystem

CONSTANTS k1, k2, x1, x2

\* Every AgentCluster has a name of its own.
OwnClusterNames == [k \in AgentClusters |-> IF k = k1 THEN x1 ELSE x2]
=============================================================================
