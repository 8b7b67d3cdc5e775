----------------------- MODULE NodeProviderIDController -----------------------
(***************************************************************************)
(* The NodeProviderID reconciler (controllers/node_provider_id_controller  *)
(* .go) and the remote client it works with (controllers/remote_client     *)
(* .go).  It runs in the same process as the AgentMachine reconciler, with *)
(* a work queue of its own, and copies the provider ID of each ready       *)
(* AgentMachine to the Node of its host in the cluster that the host has   *)
(* joined.  AgentMachines are read from the cache both reconcilers share.  *)
(*                                                                         *)
(* The Node of a host is identified by the host's Agent: its name is the   *)
(* InternalDNS address that was recorded along with AgentRef.              *)
(***************************************************************************)
EXTENDS AgentMachineSystem

VARIABLES
  node,          \* Nodes of each namespace's cluster
  kubeconfig,    \* namespaces whose admin-kubeconfig secret is there and usable
  nodeQueue,     \* AgentMachines waiting for this reconciler, at once or after a delay
  nodeWorker     \* the Reconcile call of each process

nodeVars == <<node, kubeconfig, nodeQueue, nodeWorker>>

-----------------------------------------------------------------------------

NodeObj == [exists : BOOLEAN, pid : AgentOrNone \union {Foreign}]

NodeWorkerState ==
  [pc : {"idle", "client", "get", "update"}, m : AgentMachines \union {None},
   name : AgentOrNone,     \* InternalDNS address
   pid : AgentOrNone,      \* Spec.ProviderID
   latest : BOOLEAN]       \* the copy of the Node is the latest one

NoNode == [exists |-> FALSE, pid |-> None]

IdleNodeWorker ==
  [pc |-> "idle", m |-> None, name |-> None, pid |-> None, latest |-> FALSE]

NodeInit ==
  /\ node = [n \in Namespaces |-> [a \in Agents |-> NoNode]]
  /\ kubeconfig = {}
  /\ nodeQueue = AgentMachines
  /\ nodeWorker = [c \in Controllers |-> IdleNodeWorker]

\* The Reconcile call of c is about to make the call named by pc.
NodeAt(c, pc) == Prompt /\ nodeWorker[c].pc = pc

NodeBecome(c, w) == nodeWorker' = [nodeWorker EXCEPT ![c] = w]

-----------------------------------------------------------------------------
(* Reconcile and setNodeProviderID, one action per call *)

\* Reconcile returns, without an error or with one, which is retried.
Succeeded(c) == NodeBecome(c, IdleNodeWorker) /\ UNCHANGED nodeQueue
FailedForGood(c) == Succeeded(c)
FailedAndForgotten(c) ==
  /\ NodeBecome(c, IdleNodeWorker)
  /\ nodeQueue' = nodeQueue \union {nodeWorker'[c].m}
Failed(c) ==
  /\ NodeBecome(c, IdleNodeWorker)
  /\ nodeQueue' = nodeQueue \union {nodeWorker[c].m}

\* An AgentMachine that is not ready is looked at again later, and so is one
\* without an InternalDNS address: it keeps waiting.
NodeReconcile(c, m) ==
  LET obj == amCache[m] IN
  /\ NodeAt(c, "idle")
  /\ m \in nodeQueue \intersect Watched(c)
  /\ \/ /\ obj.st = "gone"
        /\ nodeQueue' = nodeQueue \ {m}
        /\ UNCHANGED nodeWorker
     \/ /\ obj.st # "gone" /\ (~obj.ready \/ obj.ref = None)
        /\ UNCHANGED <<nodeQueue, nodeWorker>>
     \/ /\ obj.st # "gone" /\ obj.ready /\ obj.ref # None
        /\ nodeQueue' = nodeQueue \ {m}
        /\ NodeBecome(c, [pc |-> "client", m |-> m, name |-> obj.ref,
                          pid |-> obj.pid, latest |-> FALSE])
  /\ UNCHANGED <<vars, node, kubeconfig>>

\* The secret is read from the cache.  Its backup label is left out: nothing reads
\* it, and an error in setting it is ignored.
GetRemoteClient(c) ==
  LET w == nodeWorker[c] IN
  /\ NodeAt(c, "client")
  /\ IF NsOf[w.m] \in kubeconfig
       THEN NodeBecome(c, [w EXCEPT !.pc = "get"]) /\ UNCHANGED nodeQueue
       ELSE Failed(c)
  /\ UNCHANGED <<vars, node, kubeconfig>>

\* Does the node carry a provider ID that is not the AgentMachine's?
AnyProviderIDWillDo(nd, pid) == FALSE
Mismatch(nd, pid) == nd.pid # None /\ nd.pid # pid

\* A ProviderID that is nil is dereferenced: the panic is recovered from and
\* becomes an error.
GetNode(c) ==
  LET w == nodeWorker[c]
      nd == node[NsOf[w.m]][w.name]
  IN
  /\ NodeAt(c, "get")
  /\ \/ Fault("remoteError") /\ Failed(c)
     \/ /\ UNCHANGED faults
        /\ \/ /\ ~nd.exists \/ w.pid = None \/ Mismatch(nd, w.pid)
              /\ Failed(c)
           \/ /\ nd.exists /\ w.pid # None /\ nd.pid = w.pid
              /\ Succeeded(c)
           \/ /\ nd.exists /\ w.pid # None /\ ~Mismatch(nd, w.pid) /\ nd.pid # w.pid
              /\ NodeBecome(c, [w EXCEPT !.pc = "update", !.latest = TRUE])
              /\ UNCHANGED nodeQueue
  /\ UNCHANGED <<amVars, machineVars, agentVars, clusterVars, queueVars, worker,
                 node, kubeconfig>>

\* The Node is written from the copy that was read: other writes make it fail.
NodeLockIgnored(w) == node[NsOf[w.m]][w.name].exists
NodeLatest(w) == w.latest

\* An error may also come back from an Update that was executed.
UpdateNode(c) ==
  LET w == nodeWorker[c]
      written == IF NodeLatest(w) THEN [node EXCEPT ![NsOf[w.m]][w.name].pid = w.pid]
                                  ELSE node
  IN
  /\ NodeAt(c, "update")
  /\ \/ /\ Fault("remoteError")
        /\ node' \in {node, written}
        /\ Failed(c)
     \/ /\ UNCHANGED faults
        /\ node' = written
        /\ IF NodeLatest(w) THEN Succeeded(c) ELSE Failed(c)
  /\ UNCHANGED <<amVars, machineVars, agentVars, clusterVars, queueVars, worker,
                 kubeconfig>>

NodeStep(c) == GetRemoteClient(c) \/ GetNode(c) \/ UpdateNode(c)

\* Every change of an AgentMachine that reaches the cache queues it.
NodeWatch ==
  /\ nodeQueue' = nodeQueue \union {m \in AgentMachines : amCache'[m] # amCache[m]}
  /\ UNCHANGED <<node, kubeconfig, nodeWorker>>

\* The informer hands over the AgentMachine once more.
NodeResync(m) ==
  /\ Prompt
  /\ "resync" \in Environment
  /\ amCache[m].st # "gone"
  /\ nodeQueue' = nodeQueue \union {m}
  /\ UNCHANGED <<vars, node, kubeconfig, nodeWorker>>

\* The processes in cs start again.
NodeRestart(cs) ==
  LET ms == UNION {Watched(c) : c \in cs} IN
  /\ nodeWorker' = [c \in Controllers |->
                      IF c \in cs THEN IdleNodeWorker ELSE nodeWorker[c]]
  /\ nodeQueue' = nodeQueue \union {m \in ms : amCache'[m].st # "gone"}
  /\ UNCHANGED <<node, kubeconfig>>

=============================================================================
