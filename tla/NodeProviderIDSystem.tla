------------------------- MODULE NodeProviderIDSystem -------------------------
(***************************************************************************)
(* Both reconcilers of a provider process at work, with the Nodes of the   *)
(* clusters that hosts join.                                               *)
(***************************************************************************)
EXTENDS NodeProviderIDController

-----------------------------------------------------------------------------
(* The clusters that hosts join, and whoever else writes to their Nodes *)

\* The control plane publishes its kubeconfig.
KubeconfigAppears(n) ==
  /\ Prompt
  /\ n \notin kubeconfig
  /\ kubeconfig' = kubeconfig \union {n}
  /\ UNCHANGED <<vars, node, nodeQueue, nodeWorker>>

\* Someone else writes the Node of host a: copies of it are outdated.
ChangeNode(n, a, v) ==
  /\ Prompt
  /\ node' = [node EXCEPT ![n][a] = v]
  /\ nodeWorker' = [c \in Controllers |->
       LET w == nodeWorker[c] IN
       IF w.pc = "update" /\ NsOf[w.m] = n /\ w.name = a
         THEN [w EXCEPT !.latest = FALSE] ELSE w]
  /\ UNCHANGED <<amVars, machineVars, agentVars, clusterVars, queueVars, worker,
                 kubeconfig, nodeQueue>>

\* The kubelet of a host that is being installed registers its Node, ...
RegisterNode(n, a) ==
  /\ agent[a].cd = n /\ agent[a].state \in {"installing", "installed"}
  /\ ~node[n][a].exists
  /\ ChangeNode(n, a, [NoNode EXCEPT !.exists = TRUE])
  /\ UNCHANGED faults

\* ... keeps it up to date, ...
WriteNode(n, a) ==
  /\ Fault("nodeWrite")
  /\ node[n][a].exists
  /\ ChangeNode(n, a, node[n][a])

\* ... some other controller of the cluster may give it a provider ID, ...
SetForeignProviderID(n, a) ==
  /\ Fault("foreignProviderID")
  /\ node[n][a].exists /\ node[n][a].pid = None
  /\ ChangeNode(n, a, [node[n][a] EXCEPT !.pid = Foreign])

\* ... and it is removed when the host has left the cluster.
RemoveNode(n, a) ==
  /\ node[n][a].exists /\ agent[a].cd # n
  /\ ChangeNode(n, a, NoNode)
  /\ UNCHANGED faults

-----------------------------------------------------------------------------

NodeNext ==
  \/ Progress /\ NodeWatch
  \/ \E cs \in SUBSET Controllers : Failure(cs) /\ NodeRestart(cs)
  \/ \E m \in AgentMachines : NodeResync(m)
  \/ \E c \in Controllers :
       NodeStep(c) \/ \E m \in AgentMachines : NodeReconcile(c, m)
  \/ \E n \in Namespaces :
       \/ KubeconfigAppears(n)
       \/ \E a \in Agents : \/ RegisterNode(n, a) \/ WriteNode(n, a)
                            \/ SetForeignProviderID(n, a) \/ RemoveNode(n, a)

NodeSpec == Init /\ NodeInit /\ [][NodeNext]_<<vars, nodeVars>>

\* As in AgentMachineSystem: what runs keeps running, queues are first in first
\* out, and control planes and hosts get on.  No Node's provider ID rests on a
\* resync.
NodeFairness ==
  /\ \A c \in Controllers :
       /\ WF_<<vars, nodeVars>>(NodeStep(c))
       /\ \A m \in AgentMachines : SF_<<vars, nodeVars>>(NodeReconcile(c, m))
  /\ \A n \in Namespaces :
       /\ WF_<<vars, nodeVars>>(KubeconfigAppears(n))
       /\ \A a \in Agents : WF_<<vars, nodeVars>>(RegisterNode(n, a))

NodeFairSpec == NodeSpec /\ ProviderFairness /\ HostFairness /\ NodeFairness

-----------------------------------------------------------------------------
(* Properties *)

\* The type of every variable of the NodeProviderID reconciler.
NodeTypeOK ==
  /\ node \in [Namespaces -> [Agents -> NodeObj]]
  /\ kubeconfig \subseteq Namespaces
  /\ nodeQueue \subseteq AgentMachines
  /\ nodeWorker \in [Controllers -> NodeWorkerState]

\* A provider ID given to a Node by the provider is that of the Agent on the
\* Node's own host, although AgentMachine.Spec.ProviderID and the recorded address
\* are written by two calls and may stem from two Reconcile calls: Cluster API
\* finds the Node of a Machine by it.
NodeOfItsAgent ==
  \A n \in Namespaces : \A a \in Agents : node[n][a].pid \in {None, Foreign, a}

\* The provider ID of a Node is never changed once it is set, by whomever: the
\* check and the write are two calls with the Node's other writers in between.
NodeNamedOnce ==
  [][\A n \in Namespaces : \A a \in Agents :
       node[n][a].pid # None /\ node'[n][a].exists =>
         node'[n][a].pid = node[n][a].pid]_node

\* The Node of a ready AgentMachine has a provider ID in the end, however late the
\* kubeconfig and the Node are, unless its host is taken from the cluster.
NodeGetsProviderID ==
  \A m \in AgentMachines : \A a \in Agents :
    am[m].ready /\ am[m].ref = a
      ~> node[NsOf[m]][a].pid # None \/ agent[a].cd # NsOf[m]

=============================================================================
