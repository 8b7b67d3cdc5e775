---------------------------- MODULE MCAgentMachine ----------------------------
(* Instances of AgentMachineSystem for TLC. *)
EXTENDS AgentMachineSystem

CONSTANTS m1, m2, a1, a2, n1, n2, c1, c2, b1, b2

\* AgentMachines in one namespace, or each in a namespace of its own.
OneNamespace == [m \in AgentMachines |-> n1]
TwoNamespaces == [m \in AgentMachines |-> IF m = m2 THEN n2 ELSE n1]

\* Namespaces watched by one provider process, or each by its own.
OneProvider == [n \in Namespaces |-> c1]
TwoProviders == [n \in Namespaces |-> IF n = n2 THEN c2 ELSE c1]

\* Names that identify an AgentMachine.
OwnNames == [m \in AgentMachines |-> m]

\* AgentMachines without an AgentLabelSelector.
NoSelector == [m \in AgentMachines |-> Agents]

\* m1 has a selector that only the first Agent satisfies, the others have none.
FirstAgentOnly == [m \in AgentMachines |-> IF m = m1 THEN {a1} ELSE Agents]
=============================================================================
