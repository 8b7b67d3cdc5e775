--------------------------- MODULE MCNodeProviderID ---------------------------
(* Instances of NodeProviderIDSystem for TLC, with the layouts of the          *)
(* AgentMachine instances.                                                     *)
EXTENDS NodeProviderIDSystem, MCAgentMachine
=============================================================================
