------------------------- MODULE NodeProviderIDProofs -------------------------
(***************************************************************************)
(* Theorems about NodeProviderIDSystem: types, the provider ID of a Node   *)
(* is set once, and it is that of the Agent on the Node's host.            *)
(***************************************************************************)
EXTENDS NodeProviderIDSystem, ProviderIDProofs

-----------------------------------------------------------------------------
(* The AgentMachine reconciler beside the NodeProviderID reconciler *)

\* The state of AgentMachineSystem but for the count of faults.
systemVars == <<amVars, machineVars, agentVars, clusterVars, queueVars, worker>>

\* The NodeProviderID reconciler and the Nodes leave the rest alone.
LEMMA NodeStepsElsewhere ==
  ASSUME faults \in 0..MaxFaults, [NodeNext]_<<vars, nodeVars>>
  PROVE  [Next]_vars \/ (UNCHANGED systemVars /\ faults' \in 0..MaxFaults)
<1>1. MaxFaults \in Nat
  BY ConstantTypes
<1>2. ASSUME NEW kind, Fault(kind)
      PROVE  faults' \in 0..MaxFaults
  BY <1>1, <1>2 DEF Fault
<1>3. ASSUME NEW c \in Controllers, NodeStep(c)
      PROVE  UNCHANGED systemVars /\ faults' \in 0..MaxFaults
  BY <1>2, <1>3 DEF NodeStep, GetRemoteClient, GetNode, UpdateNode, vars, systemVars
<1>4. ASSUME NEW c \in Controllers, NEW m \in AgentMachines, NodeReconcile(c, m)
      PROVE  UNCHANGED systemVars /\ faults' \in 0..MaxFaults
  BY <1>4 DEF NodeReconcile, vars, systemVars
<1>5. ASSUME \/ \E n \in Namespaces : KubeconfigAppears(n)
             \/ \E m \in AgentMachines : NodeResync(m)
      PROVE  UNCHANGED systemVars /\ faults' \in 0..MaxFaults
  BY <1>5 DEF KubeconfigAppears, NodeResync, vars, systemVars
<1>6. ASSUME NEW n \in Namespaces, NEW a \in Agents,
             \/ RegisterNode(n, a) \/ WriteNode(n, a)
             \/ SetForeignProviderID(n, a) \/ RemoveNode(n, a)
      PROVE  UNCHANGED systemVars /\ faults' \in 0..MaxFaults
  BY <1>2, <1>6 DEF RegisterNode, WriteNode, SetForeignProviderID, RemoveNode, ChangeNode,
     systemVars
<1>7. Progress \/ (\E cs \in SUBSET Controllers : Failure(cs)) => Next
  BY DEF Next
<1> QED
  BY <1>3, <1>4, <1>5, <1>6, <1>7 DEF NodeNext

LEMMA NodeKeepsType ==
  ASSUME TypeInv, [NodeNext]_<<vars, nodeVars>>
  PROVE  TypeInv'
<1>1. ASSUME UNCHANGED systemVars, faults' \in 0..MaxFaults
      PROVE  TypeInv'
  BY <1>1 DEF systemVars, amVars, machineVars, agentVars, agentCaches, clusterVars, queueVars,
     TypeInv, TypeOK, WorkerHasMachine
<1>2. faults \in 0..MaxFaults
  BY DEF TypeInv, TypeOK
<1> QED
  BY <1>1, <1>2, NodeStepsElsewhere, NextType

LEMMA NodeKeepsRecords ==
  ASSUME "apiError" \notin Environment, "stale" \notin Environment,
         RecordInv, [NodeNext]_<<vars, nodeVars>>
  PROVE  RecordInv'
<1>1. TypeInv'
  BY NodeKeepsType DEF RecordInv
<1>2. ASSUME UNCHANGED systemVars
      PROVE  RecordInv'
  BY <1>1, <1>2 DEF systemVars, amVars, machineVars, agentVars, RecordInv, CallsWatch,
     CallsAgree, RecordsOK, CallsOK
<1>3. faults \in 0..MaxFaults
  BY DEF RecordInv, TypeInv, TypeOK
<1> QED
  BY <1>2, <1>3, NodeStepsElsewhere, RecordStep

-----------------------------------------------------------------------------
(* What is written to Nodes *)

\* A Reconcile call works on an AgentMachine of its process, for a Node it knows
\* the name of; with the latest copy of a Node in hand, the Node has no ID yet.
NodeCalls ==
  \A c \in Controllers : nodeWorker[c].pc # "idle" =>
    LET w == nodeWorker[c]
        nd == node[NsOf[w.m]][w.name]
    IN /\ w.m \in Watched(c) /\ w.name \in Agents
       /\ w.pc = "update" /\ w.latest => nd.exists /\ nd.pid = None

\* A Node that does not exist has no provider ID.
AbsentUnnamed ==
  \A n \in Namespaces : \A a \in Agents : ~node[n][a].exists => node[n][a].pid = None

NodeInv == TypeInv /\ NodeTypeOK /\ NodeCalls /\ AbsentUnnamed

\* The step makes the Node of Agent a in cluster n what v is.
Written(n, a, v) == node' = [node EXCEPT ![n][a] = v]

LEMMA NodeWritten ==
  ASSUME NodeTypeOK, NEW n \in Namespaces, NEW a \in Agents, NEW v \in NodeObj,
         Written(n, a, v)
  PROVE  /\ node' \in [Namespaces -> [Agents -> NodeObj]]
         /\ node'[n][a] = v
         /\ \A k \in Namespaces, b \in Agents : k # n \/ b # a => node'[k][b] = node[k][b]
<1>1. node \in [Namespaces -> [Agents -> NodeObj]] /\ node[n] \in [Agents -> NodeObj]
  BY DEF NodeTypeOK
<1>2. node' = [node EXCEPT ![n] = [node[n] EXCEPT ![a] = v]]
  BY DEF Written
<1>3. [node[n] EXCEPT ![a] = v] \in [Agents -> NodeObj]
  BY <1>1
<1> QED
  BY <1>1, <1>2, <1>3

\* A step leaves Nodes alone, lets someone else write one, or is the Update of a
\* Reconcile call.
NodeMoves ==
  \/ UNCHANGED node
  \/ \E n \in Namespaces, a \in Agents, v \in NodeObj :
       /\ ChangeNode(n, a, v)
       /\ v = NoNode \/ v.exists
       /\ v.pid = node[n][a].pid \/ ~v.exists \/ ~node[n][a].exists
            \/ (node[n][a].pid = None /\ v.pid = Foreign)
       /\ ~node[n][a].exists => v.pid = None
  \/ \E c \in Controllers :
       LET w == nodeWorker[c]
           nd == node[NsOf[w.m]][w.name]
       IN /\ w.pc = "update" /\ w.latest
          /\ w.m \in AgentMachines /\ w.name \in Agents
          /\ node' = [node EXCEPT ![NsOf[w.m]][w.name] = [nd EXCEPT !.pid = w.pid]]
          /\ nodeWorker' = [nodeWorker EXCEPT ![c] = IdleNodeWorker]

LEMMA NodesMove ==
  ASSUME NodeInv, [NodeNext]_<<vars, nodeVars>>
  PROVE  NodeMoves
<1>t. /\ node \in [Namespaces -> [Agents -> NodeObj]]
      /\ \A n \in Namespaces, a \in Agents : node[n][a] \in NodeObj
  BY DEF NodeInv, NodeTypeOK
<1>1. CASE UNCHANGED node
  BY <1>1 DEF NodeMoves
<1>2. ASSUME NEW n \in Namespaces, NEW a \in Agents, RegisterNode(n, a)
      PROVE  NodeMoves
  <2>1. /\ [NoNode EXCEPT !.exists = TRUE] \in NodeObj
        /\ [NoNode EXCEPT !.exists = TRUE].exists
        /\ [NoNode EXCEPT !.exists = TRUE].pid = None
    BY DEF NoNode, NodeObj, AgentOrNone
  <2> QED
    BY <1>2, <2>1 DEF RegisterNode, NodeMoves
<1>3. ASSUME NEW n \in Namespaces, NEW a \in Agents, WriteNode(n, a)
      PROVE  NodeMoves
  BY <1>3, <1>t DEF WriteNode, NodeMoves
<1>4. ASSUME NEW n \in Namespaces, NEW a \in Agents, SetForeignProviderID(n, a)
      PROVE  NodeMoves
  <2>1. /\ [node[n][a] EXCEPT !.pid = Foreign] \in NodeObj
        /\ [node[n][a] EXCEPT !.pid = Foreign].exists = node[n][a].exists
        /\ [node[n][a] EXCEPT !.pid = Foreign].pid = Foreign
    BY <1>t DEF NodeObj
  <2> QED
    BY <1>4, <2>1 DEF SetForeignProviderID, NodeMoves
<1>5. ASSUME NEW n \in Namespaces, NEW a \in Agents, RemoveNode(n, a)
      PROVE  NodeMoves
  <2>1. NoNode \in NodeObj /\ ~NoNode.exists
    BY DEF NoNode, NodeObj, AgentOrNone
  <2> QED
    BY <1>5, <2>1 DEF RemoveNode, NodeMoves
<1>6. ASSUME NEW c \in Controllers, UpdateNode(c)
      PROVE  NodeMoves
  <2> DEFINE w == nodeWorker[c]
             n == NsOf[w.m]
             a == w.name
  <2>1. w.pc = "update" /\ w.m \in AgentMachines /\ a \in Agents
    BY <1>6 DEF UpdateNode, NodeAt, NodeInv, NodeCalls, Watched
  <2>2. [node EXCEPT ![n][a].pid = w.pid] =
          [node EXCEPT ![n][a] = [node[n][a] EXCEPT !.pid = w.pid]]
    OBVIOUS
  <2>3. \/ UNCHANGED node
        \/ w.latest /\ node' = [node EXCEPT ![n][a].pid = w.pid]
    BY <1>6 DEF UpdateNode, NodeLatest
  <2>4. nodeWorker' = [nodeWorker EXCEPT ![c] = IdleNodeWorker]
    BY <1>6 DEF UpdateNode, Succeeded, Failed, NodeBecome
  <2> QED
    BY <1>1, <2>1, <2>2, <2>3, <2>4 DEF NodeMoves
<1>7. ASSUME NEW c \in Controllers, GetRemoteClient(c) \/ GetNode(c)
      PROVE  UNCHANGED node
  BY <1>7 DEF GetRemoteClient, GetNode
<1>8. ASSUME NEW c \in Controllers, NEW m \in AgentMachines, NodeReconcile(c, m)
      PROVE  UNCHANGED node
  BY <1>8 DEF NodeReconcile
<1>9. ASSUME \/ \E n \in Namespaces : KubeconfigAppears(n)
             \/ \E m \in AgentMachines : NodeResync(m)
      PROVE  UNCHANGED node
  BY <1>9 DEF KubeconfigAppears, NodeResync
<1>10. CASE UNCHANGED <<vars, nodeVars>>
  BY <1>1, <1>10 DEF nodeVars
<1>11. ASSUME NodeWatch \/ \E cs \in SUBSET Controllers : NodeRestart(cs)
       PROVE  UNCHANGED node
  BY <1>11 DEF NodeWatch, NodeRestart
<1> QED
  BY <1>1, <1>2, <1>3, <1>4, <1>5, <1>6, <1>7, <1>8, <1>9, <1>10, <1>11
     DEF NodeNext, NodeStep
-----------------------------------------------------------------------------
(* How the Reconcile calls go on *)

NodeCallMoves(c, w, r) ==
  LET nd == node[NsOf[w.m]][w.name] IN
  \/ r = w \/ r = IdleNodeWorker \/ r = [w EXCEPT !.latest = FALSE]
  \/ /\ UNCHANGED node
     /\ \/ \E m \in Watched(c) :
             /\ Prompt /\ amCache[m].ref # None
             /\ r = [pc |-> "client", m |-> m, name |-> amCache[m].ref,
                     pid |-> amCache[m].pid, latest |-> FALSE]
        \/ w.pc = "client" /\ r = [w EXCEPT !.pc = "get"]
        \/ /\ w.pc = "get" /\ nd.exists /\ nd.pid = None
           /\ r = [w EXCEPT !.pc = "update", !.latest = TRUE]

LEMMA NodeCallsMove ==
  ASSUME NodeInv, [NodeNext]_<<vars, nodeVars>>, NEW d \in Controllers
  PROVE  NodeCallMoves(d, nodeWorker[d], nodeWorker'[d])
<1> DEFINE Goal == NodeCallMoves(d, nodeWorker[d], nodeWorker'[d])
<1> SUFFICES Goal
  OBVIOUS
<1>t. nodeWorker \in [Controllers -> NodeWorkerState]
  BY DEF NodeInv, NodeTypeOK
<1>1. CASE UNCHANGED nodeWorker
  BY <1>1 DEF NodeCallMoves
<1>2. ASSUME NEW c \in Controllers, NEW r, NodeBecome(c, r), NodeCallMoves(c, nodeWorker[c], r)
      PROVE  Goal
  <2>1. CASE d = c
    <3>1. nodeWorker'[d] = r
      BY <1>2, <1>t, <2>1 DEF NodeBecome
    <3> QED
      BY <1>2, <2>1, <3>1
  <2>2. CASE d # c
    <3>1. nodeWorker'[d] = nodeWorker[d]
      BY <1>2, <1>t, <2>2 DEF NodeBecome
    <3> QED
      BY <3>1 DEF NodeCallMoves
  <2> QED
    BY <2>1, <2>2
<1>i. ASSUME NEW c \in Controllers, NodeBecome(c, IdleNodeWorker)
      PROVE  Goal
  <2>1. NodeCallMoves(c, nodeWorker[c], IdleNodeWorker)
    BY DEF NodeCallMoves
  <2> QED
    BY <1>2, <1>i, <2>1
<1> HIDE DEF Goal
<1>3. ASSUME NEW c \in Controllers, NEW m \in AgentMachines, NodeReconcile(c, m)
      PROVE  Goal
  <2> DEFINE r == [pc |-> "client", m |-> m, name |-> amCache[m].ref,
                   pid |-> amCache[m].pid, latest |-> FALSE]
  <2>1. UNCHANGED nodeWorker \/ (NodeBecome(c, r) /\ amCache[m].ref # None)
    BY <1>3 DEF NodeReconcile
  <2>2. UNCHANGED node /\ Prompt /\ m \in Watched(c)
    BY <1>3 DEF NodeReconcile, NodeAt
  <2>3. amCache[m].ref # None => NodeCallMoves(c, nodeWorker[c], r)
    BY <2>2 DEF NodeCallMoves
  <2> HIDE DEF r
  <2> QED
    BY <1>1, <1>2, <2>1, <2>3 DEF Goal
<1>4. ASSUME NEW c \in Controllers, GetRemoteClient(c)
      PROVE  Goal
  <2>1. \/ NodeBecome(c, [nodeWorker[c] EXCEPT !.pc = "get"])
        \/ NodeBecome(c, IdleNodeWorker)
    BY <1>4 DEF GetRemoteClient, Failed
  <2>2. NodeCallMoves(c, nodeWorker[c], [nodeWorker[c] EXCEPT !.pc = "get"])
    BY <1>4 DEF GetRemoteClient, NodeAt, NodeCallMoves
  <2> QED
    BY <1>2, <1>i, <2>1, <2>2
<1>5. ASSUME NEW c \in Controllers, GetNode(c)
      PROVE  Goal
  <2> DEFINE w == nodeWorker[c]
             nd == node[NsOf[w.m]][w.name]
             r == [w EXCEPT !.pc = "update", !.latest = TRUE]
  <2>1. \/ NodeBecome(c, IdleNodeWorker)
        \/ NodeBecome(c, r) /\ nd.exists /\ nd.pid = None
    BY <1>5 DEF GetNode, Failed, Succeeded, Mismatch
  <2>2. nd.exists /\ nd.pid = None => NodeCallMoves(c, w, r)
    BY <1>5 DEF GetNode, NodeAt, NodeCallMoves
  <2> QED
    BY <1>2, <1>i, <2>1, <2>2
<1>6. ASSUME NEW c \in Controllers, UpdateNode(c)
      PROVE  NodeBecome(c, IdleNodeWorker)
  BY <1>6 DEF UpdateNode, Failed, Succeeded
<1>7. ASSUME NEW n \in Namespaces, NEW a \in Agents, NEW v, ChangeNode(n, a, v)
      PROVE  Goal
  BY <1>7 DEF ChangeNode, NodeCallMoves, Goal
<1>8. ASSUME NEW n \in Namespaces, NEW a \in Agents,
             \/ RegisterNode(n, a) \/ WriteNode(n, a)
             \/ SetForeignProviderID(n, a) \/ RemoveNode(n, a)
      PROVE  \E v : ChangeNode(n, a, v)
  BY <1>8 DEF RegisterNode, WriteNode, SetForeignProviderID, RemoveNode
<1>9. ASSUME NEW cs \in SUBSET Controllers, NodeRestart(cs)
      PROVE  Goal
  BY <1>9 DEF NodeRestart, NodeCallMoves, Goal
<1>10. ASSUME \/ NodeWatch \/ \E n \in Namespaces : KubeconfigAppears(n)
              \/ \E m \in AgentMachines : NodeResync(m)
       PROVE  UNCHANGED nodeWorker
  BY <1>10 DEF NodeWatch, NodeResync, KubeconfigAppears
<1>11. CASE UNCHANGED <<vars, nodeVars>>
  BY <1>1, <1>11 DEF nodeVars, Goal
<1> QED
  BY <1>1, <1>3, <1>4, <1>5, <1>6, <1>i, <1>7, <1>8, <1>9, <1>10, <1>11
     DEF NodeNext, NodeStep, Goal

LEMMA NodeWorkersKeepType ==
  ASSUME NodeInv, [NodeNext]_<<vars, nodeVars>>, NEW d \in Controllers
  PROVE  /\ nodeWorker'[d] \in NodeWorkerState
         /\ nodeWorker'[d].pc # "idle" =>
              nodeWorker'[d].m \in Watched(d) /\ nodeWorker'[d].name \in Agents
<1> DEFINE w == nodeWorker[d]
           r == nodeWorker'[d]
<1>1. w \in NodeWorkerState /\ (w.pc # "idle" => w.m \in Watched(d) /\ w.name \in Agents)
  BY DEF NodeInv, NodeTypeOK, NodeCalls
<1>2. NodeCallMoves(d, w, r)
  BY NodeCallsMove
<1>3. IdleNodeWorker \in NodeWorkerState /\ IdleNodeWorker.pc = "idle"
  BY DEF IdleNodeWorker, NodeWorkerState, AgentOrNone
<1>4. \A m \in Watched(d) :
        m \in AgentMachines /\ amCache[m].ref \in AgentOrNone /\ amCache[m].pid \in AgentOrNone
  BY DEF NodeInv, TypeInv, TypeOK, AgentMachineObj, Watched
<1> HIDE DEF w, r
<1>5. /\ r \in NodeWorkerState
      /\ r.pc # "idle" => r.m \in Watched(d) /\ r.name \in Agents
  <2>1. ASSUME NEW m \in Watched(d), amCache[m].ref # None,
               r = [pc |-> "client", m |-> m, name |-> amCache[m].ref,
                    pid |-> amCache[m].pid, latest |-> FALSE]
        PROVE  r \in NodeWorkerState /\ r.m \in Watched(d) /\ r.name \in Agents
    BY <1>4, <2>1 DEF NodeWorkerState, AgentOrNone
  <2>2. CASE r = [w EXCEPT !.latest = FALSE]
    BY <1>1, <2>2 DEF NodeWorkerState
  <2>3. CASE w.pc = "client" /\ r = [w EXCEPT !.pc = "get"]
    BY <1>1, <2>3 DEF NodeWorkerState
  <2>4. CASE w.pc = "get" /\ r = [w EXCEPT !.pc = "update", !.latest = TRUE]
    BY <1>1, <2>4 DEF NodeWorkerState
  <2>5. CASE r = w \/ r = IdleNodeWorker
    BY <1>1, <1>3, <2>5
  <2> QED
    BY <1>2, <2>1, <2>2, <2>3, <2>4, <2>5 DEF NodeCallMoves
<1> QED
  BY <1>5 DEF r

LEMMA NodeQueueType ==
  ASSUME NodeInv, [NodeNext]_<<vars, nodeVars>>
  PROVE  nodeQueue' \subseteq AgentMachines /\ kubeconfig' \subseteq Namespaces
<1>t. nodeQueue \subseteq AgentMachines /\ kubeconfig \subseteq Namespaces
  BY DEF NodeInv, NodeTypeOK
<1>1. ASSUME NEW c \in Controllers, NodeStep(c)
      PROVE  nodeQueue' \subseteq AgentMachines /\ UNCHANGED kubeconfig
  <2>1. nodeWorker[c].m \in AgentMachines /\ UNCHANGED kubeconfig
    BY <1>1 DEF NodeStep, GetRemoteClient, GetNode, UpdateNode, NodeAt, NodeInv, NodeCalls,
       Watched
  <2>2. UNCHANGED nodeQueue \/ nodeQueue' = nodeQueue \union {nodeWorker[c].m}
    BY <1>1 DEF NodeStep, GetRemoteClient, GetNode, UpdateNode, Failed, Succeeded
  <2> QED
    BY <1>t, <2>1, <2>2
<1>2. ASSUME NEW c \in Controllers, NEW m \in AgentMachines, NodeReconcile(c, m)
      PROVE  nodeQueue' \subseteq AgentMachines /\ UNCHANGED kubeconfig
  BY <1>2, <1>t DEF NodeReconcile
<1>3. ASSUME NodeWatch \/ \E m \in AgentMachines : NodeResync(m)
      PROVE  nodeQueue' \subseteq AgentMachines /\ UNCHANGED kubeconfig
  BY <1>3, <1>t DEF NodeWatch, NodeResync
<1>4. ASSUME NEW cs \in SUBSET Controllers, NodeRestart(cs)
      PROVE  nodeQueue' \subseteq AgentMachines /\ UNCHANGED kubeconfig
  BY <1>4, <1>t DEF NodeRestart, Watched
<1>5. ASSUME NEW n \in Namespaces, KubeconfigAppears(n)
      PROVE  nodeQueue' \subseteq AgentMachines /\ kubeconfig' \subseteq Namespaces
  BY <1>5, <1>t DEF KubeconfigAppears
<1>6. ASSUME NEW n \in Namespaces, NEW a \in Agents,
             \/ RegisterNode(n, a) \/ WriteNode(n, a)
             \/ SetForeignProviderID(n, a) \/ RemoveNode(n, a)
      PROVE  UNCHANGED <<nodeQueue, kubeconfig>>
  BY <1>6 DEF RegisterNode, WriteNode, SetForeignProviderID, RemoveNode, ChangeNode
<1>7. CASE UNCHANGED <<vars, nodeVars>>
  BY <1>7, <1>t DEF nodeVars
<1> QED
  BY <1>t, <1>1, <1>2, <1>3, <1>4, <1>5, <1>6, <1>7 DEF NodeNext

\* Processes do not share a namespace, and so not a Node either.
LEMMA NodesNotShared ==
  ASSUME NEW c \in Controllers, NEW d \in Controllers,
         NEW m \in Watched(c), NEW n \in Watched(d), NsOf[m] = NsOf[n]
  PROVE  c = d
BY DEF Watched

LEMMA NodeInvStep ==
  ASSUME NodeInv, [NodeNext]_<<vars, nodeVars>>
  PROVE  NodeInv'
<1>t. /\ node \in [Namespaces -> [Agents -> NodeObj]]
      /\ \A n \in Namespaces, a \in Agents : node[n][a] \in NodeObj
      /\ nodeWorker \in [Controllers -> NodeWorkerState]
  BY DEF NodeInv, NodeTypeOK
<1>n. \A c \in Controllers : \A m \in Watched(c) : m \in AgentMachines /\ NsOf[m] \in Namespaces
  BY ConstantTypes DEF Watched
<1>w. \A d \in Controllers :
        /\ nodeWorker'[d] \in NodeWorkerState
        /\ nodeWorker'[d].pc # "idle" =>
              nodeWorker'[d].m \in Watched(d) /\ nodeWorker'[d].name \in Agents
  BY NodeWorkersKeepType
<1>d. nodeWorker' = [d \in Controllers |-> nodeWorker'[d]]
  <2>1. CASE UNCHANGED nodeWorker
    BY <1>t, <2>1
  <2>2. ASSUME NEW c, NEW r, NodeBecome(c, r)
        PROVE  nodeWorker' = [d \in Controllers |-> nodeWorker'[d]]
    BY <1>t, <2>2 DEF NodeBecome
  <2>3. ASSUME NEW n, NEW a, NEW v, ChangeNode(n, a, v)
        PROVE  nodeWorker' = [d \in Controllers |-> nodeWorker'[d]]
    BY <2>3 DEF ChangeNode
  <2>4. ASSUME NEW cs, NodeRestart(cs)
        PROVE  nodeWorker' = [d \in Controllers |-> nodeWorker'[d]]
    BY <2>4 DEF NodeRestart
  <2>5. ASSUME NEW c \in Controllers, NodeStep(c)
        PROVE  \E r : NodeBecome(c, r)
    BY <2>5 DEF NodeStep, GetRemoteClient, GetNode, UpdateNode, Failed, Succeeded
  <2>6. ASSUME NEW c \in Controllers, NEW m \in AgentMachines, NodeReconcile(c, m)
        PROVE  UNCHANGED nodeWorker \/ \E r : NodeBecome(c, r)
    BY <2>6 DEF NodeReconcile
  <2>7. ASSUME NEW n \in Namespaces, NEW a \in Agents,
               \/ RegisterNode(n, a) \/ WriteNode(n, a)
               \/ SetForeignProviderID(n, a) \/ RemoveNode(n, a)
        PROVE  \E v : ChangeNode(n, a, v)
    BY <2>7 DEF RegisterNode, WriteNode, SetForeignProviderID, RemoveNode
  <2>8. ASSUME \/ NodeWatch \/ \E n \in Namespaces : KubeconfigAppears(n)
               \/ \E m \in AgentMachines : NodeResync(m)
        PROVE  UNCHANGED nodeWorker
    BY <2>8 DEF NodeWatch, NodeResync, KubeconfigAppears
  <2>9. CASE UNCHANGED <<vars, nodeVars>>
    BY <2>1, <2>9 DEF nodeVars
  <2> QED
    BY <2>1, <2>2, <2>3, <2>4, <2>5, <2>6, <2>7, <2>8, <2>9 DEF NodeNext
<1>1. nodeWorker' \in [Controllers -> NodeWorkerState]
  BY <1>w, <1>d
<1>2. TypeInv' /\ nodeQueue' \subseteq AgentMachines /\ kubeconfig' \subseteq Namespaces
  BY NodeKeepsType, NodeQueueType DEF NodeInv
<1> DEFINE Held(w) == w.pc = "update" /\ w.latest
           Free(nds, w) == nds[NsOf[w.m]][w.name].exists /\ nds[NsOf[w.m]][w.name].pid = None
           Goal == /\ node' \in [Namespaces -> [Agents -> NodeObj]]
                   /\ \A d \in Controllers : Held(nodeWorker'[d]) => Free(node', nodeWorker'[d])
                   /\ AbsentUnnamed'
<1>h. \A d \in Controllers : Held(nodeWorker[d]) =>
        /\ Free(node, nodeWorker[d])
        /\ nodeWorker[d].m \in Watched(d) /\ nodeWorker[d].name \in Agents
  BY DEF NodeInv, NodeCalls
<1>3. ASSUME UNCHANGED node
      PROVE  Goal
  <2>1. \A d \in Controllers : NodeCallMoves(d, nodeWorker[d], nodeWorker'[d])
    BY NodeCallsMove
  <2>2. ASSUME NEW d \in Controllers, Held(nodeWorker'[d])
        PROVE  Free(node', nodeWorker'[d])
    <3> DEFINE w == nodeWorker[d]
               r == nodeWorker'[d]
    <3>1. w \in NodeWorkerState /\ NodeCallMoves(d, w, r) /\ r.pc = "update" /\ r.latest
      BY <1>t, <2>1, <2>2
    <3> HIDE DEF w, r
    <3>2. \/ r = w
          \/ /\ r = [w EXCEPT !.pc = "update", !.latest = TRUE]
             /\ node[NsOf[w.m]][w.name].exists /\ node[NsOf[w.m]][w.name].pid = None
      BY <3>1 DEF NodeCallMoves, IdleNodeWorker, NodeWorkerState
    <3>3. CASE r = w
      BY <1>3, <1>h, <2>2, <3>3 DEF w, r
    <3>4. CASE /\ r = [w EXCEPT !.pc = "update", !.latest = TRUE]
               /\ node[NsOf[w.m]][w.name].exists /\ node[NsOf[w.m]][w.name].pid = None
      <4>1. r.m = w.m /\ r.name = w.name
        BY <3>1, <3>4 DEF NodeWorkerState
      <4> QED
        BY <1>3, <3>4, <4>1 DEF r
    <3> QED
      BY <3>2, <3>3, <3>4
  <2> QED
    BY <1>3, <1>t, <2>2 DEF NodeInv, AbsentUnnamed
<1>4. ASSUME NEW n \in Namespaces, NEW a \in Agents, NEW v \in NodeObj,
             ChangeNode(n, a, v), v = NoNode \/ v.exists
      PROVE  Goal
  <2>1. /\ node' \in [Namespaces -> [Agents -> NodeObj]]
        /\ node'[n][a] = v
        /\ \A k \in Namespaces, b \in Agents : k # n \/ b # a => node'[k][b] = node[k][b]
    <3>1. NodeTypeOK /\ Written(n, a, v)
      BY <1>4 DEF ChangeNode, NodeInv, Written
    <3> QED
      BY <3>1, NodeWritten
  <2>2. ASSUME NEW d \in Controllers, Held(nodeWorker'[d])
        PROVE  Free(node', nodeWorker'[d])
    <3> DEFINE w == nodeWorker[d]
    <3>1. nodeWorker'[d] = IF w.pc = "update" /\ NsOf[w.m] = n /\ w.name = a
                             THEN [w EXCEPT !.latest = FALSE] ELSE w
      BY <1>4 DEF ChangeNode
    <3>2. w \in NodeWorkerState
      BY <1>t
    <3>3. [w EXCEPT !.latest = FALSE].latest = FALSE
      BY <3>2 DEF NodeWorkerState
    <3>4. nodeWorker'[d] = w /\ (NsOf[w.m] # n \/ w.name # a)
      BY <2>2, <3>1, <3>3
    <3>5. Free(node, w) /\ w.m \in Watched(d) /\ w.name \in Agents
      BY <1>h, <2>2, <3>4
    <3> QED
      BY <1>n, <2>1, <3>4, <3>5
  <2>3. AbsentUnnamed'
    <3>1. NoNode.pid = None
      BY DEF NoNode
    <3> QED
      BY <1>4, <2>1, <3>1 DEF NodeInv, AbsentUnnamed
  <2> QED
    BY <2>1, <2>2, <2>3
<1>5. ASSUME NEW c \in Controllers, nodeWorker[c].pc = "update", nodeWorker[c].latest,
             nodeWorker' = [nodeWorker EXCEPT ![c] = IdleNodeWorker],
             node' = [node EXCEPT ![NsOf[nodeWorker[c].m]][nodeWorker[c].name] =
                        [node[NsOf[nodeWorker[c].m]][nodeWorker[c].name]
                           EXCEPT !.pid = nodeWorker[c].pid]]
      PROVE  Goal
  <2> DEFINE w == nodeWorker[c]
             n == NsOf[w.m]
             a == w.name
             v == [node[n][a] EXCEPT !.pid = w.pid]
  <2>1. w.m \in Watched(c) /\ a \in Agents /\ n \in Namespaces /\ Free(node, w)
    BY <1>5, <1>h, <1>n
  <2>2. v \in NodeObj /\ v.exists
    <3>1. node[n][a] \in NodeObj /\ w.pid \in AgentOrNone /\ node[n][a].exists
      BY <1>t, <2>1 DEF NodeWorkerState
    <3> QED
      BY <3>1 DEF NodeObj
  <2>3. Written(n, a, v)
    BY <1>5 DEF Written
  <2> HIDE DEF v
  <2>4. /\ node' \in [Namespaces -> [Agents -> NodeObj]]
        /\ node'[n][a] = v
        /\ \A k \in Namespaces, b \in Agents : k # n \/ b # a => node'[k][b] = node[k][b]
    <3>1. NodeTypeOK
      BY DEF NodeInv
    <3> HIDE DEF n, a
    <3> QED
      BY <2>1, <2>2, <2>3, <3>1, NodeWritten
  <2>5. ASSUME NEW d \in Controllers, Held(nodeWorker'[d])
        PROVE  Free(node', nodeWorker'[d])
    <3>1. d # c
      BY <1>5, <1>t, <2>5 DEF IdleNodeWorker
    <3>2. nodeWorker'[d] = nodeWorker[d]
      BY <1>5, <1>t, <3>1
    <3>3. Free(node, nodeWorker[d]) /\ nodeWorker[d].m \in Watched(d) /\ nodeWorker[d].name \in Agents
      BY <1>h, <2>5, <3>2
    <3>4. NsOf[nodeWorker[d].m] # n
      BY <2>1, <3>1, <3>3, NodesNotShared
    <3> QED
      BY <1>n, <2>4, <3>2, <3>3, <3>4
  <2>6. AbsentUnnamed'
    BY <2>2, <2>4 DEF NodeInv, AbsentUnnamed
  <2> QED
    BY <2>4, <2>5, <2>6
<1> HIDE DEF Goal
<1>6. Goal
  BY <1>3, <1>4, <1>5, NodesMove DEF NodeMoves
<1> QED
  BY <1>1, <1>2, <1>6, <1>w DEF NodeInv, NodeTypeOK, NodeCalls, Goal

LEMMA NodeInvInit == Init /\ NodeInit => NodeInv
<1> SUFFICES ASSUME Init, NodeInit PROVE NodeInv
  OBVIOUS
<1>1. NoNode \in NodeObj /\ NoNode.pid = None
  BY DEF NoNode, NodeObj, AgentOrNone
<1>2. IdleNodeWorker \in NodeWorkerState /\ IdleNodeWorker.pc = "idle"
  BY DEF IdleNodeWorker, NodeWorkerState, AgentOrNone
<1>3. NodeTypeOK
  BY <1>1, <1>2 DEF NodeInit, NodeTypeOK
<1>4. NodeCalls
  BY <1>2 DEF NodeInit, NodeCalls
<1>5. AbsentUnnamed
  BY <1>1 DEF NodeInit, AbsentUnnamed
<1> QED
  BY <1>3, <1>4, <1>5, InitType DEF NodeInv

-----------------------------------------------------------------------------
(* Theorems *)

\* The NodeProviderID reconciler keeps the types of its variables, and with them
\* works only on AgentMachines of its process and on Nodes it knows the names of,
\* whatever the AgentMachine reconciler, other writers and crashes do.
THEOREM NodeTypes == NodeSpec => []NodeTypeOK
<1>1. NodeInv /\ [NodeNext]_<<vars, nodeVars>> => NodeInv'
  BY NodeInvStep
<1>2. NodeInv => NodeTypeOK
  BY DEF NodeInv
<1> QED
  BY <1>1, <1>2, NodeInvInit, PTL DEF NodeSpec

LEMMA NodeKeepsName ==
  ASSUME NodeInv, [NodeNext]_<<vars, nodeVars>>, NEW l \in Namespaces, NEW e \in Agents
  PROVE  node[l][e].pid # None /\ node'[l][e].exists => node'[l][e].pid = node[l][e].pid
<1> DEFINE Goal == node[l][e].pid # None /\ node'[l][e].exists =>
                     node'[l][e].pid = node[l][e].pid
<1> SUFFICES Goal
  OBVIOUS
<1>e. node[l][e].pid # None => node[l][e].exists
  BY DEF NodeInv, AbsentUnnamed
<1>1. CASE UNCHANGED node
  BY <1>1
<1>2. ASSUME NEW n \in Namespaces, NEW a \in Agents, NEW v \in NodeObj,
             ChangeNode(n, a, v),
             \/ v.pid = node[n][a].pid \/ ~v.exists \/ ~node[n][a].exists
             \/ (node[n][a].pid = None /\ v.pid = Foreign)
      PROVE  Goal
  <2>1. /\ node' \in [Namespaces -> [Agents -> NodeObj]]
        /\ node'[n][a] = v
        /\ \A k \in Namespaces, b \in Agents : k # n \/ b # a => node'[k][b] = node[k][b]
    <3>1. NodeTypeOK /\ Written(n, a, v)
      BY <1>2 DEF ChangeNode, NodeInv, Written
    <3> QED
      BY <3>1, NodeWritten
  <2> QED
    BY <1>2, <1>e, <2>1
<1>3. ASSUME NEW c \in Controllers,
             nodeWorker[c].pc = "update", nodeWorker[c].latest,
             node' = [node EXCEPT ![NsOf[nodeWorker[c].m]][nodeWorker[c].name] =
                        [node[NsOf[nodeWorker[c].m]][nodeWorker[c].name]
                           EXCEPT !.pid = nodeWorker[c].pid]]
      PROVE  Goal
  <2> DEFINE n == NsOf[nodeWorker[c].m]
             a == nodeWorker[c].name
             v == [node[n][a] EXCEPT !.pid = nodeWorker[c].pid]
  <2>1. n \in Namespaces /\ a \in Agents /\ node[n][a].pid = None
    BY <1>3, ConstantTypes DEF NodeInv, NodeCalls, Watched
  <2>2. v \in NodeObj
    <3>1. node[n][a] \in NodeObj /\ nodeWorker[c].pid \in AgentOrNone
      BY <2>1 DEF NodeInv, NodeTypeOK, NodeWorkerState
    <3> QED
      BY <3>1 DEF NodeObj
  <2>3. Written(n, a, v) /\ NodeTypeOK
    BY <1>3 DEF NodeInv, Written
  <2> HIDE DEF n, a, v
  <2>4. \A k \in Namespaces, b \in Agents : k # n \/ b # a => node'[k][b] = node[k][b]
    BY <2>1, <2>2, <2>3, NodeWritten
  <2> QED
    BY <2>1, <2>4
<1> HIDE DEF Goal
<1> QED
  BY <1>1, <1>2, <1>3, NodesMove DEF NodeMoves, Goal

\* setNodeProviderID checks the Node in one call and writes it in another, with the
\* kubelet, other controllers and the other reconciler at work in between: whoever
\* gives a Node its provider ID first, nobody replaces it.  No disturbance is ruled
\* out, and any number of processes, Nodes and retries is covered.
THEOREM NamedOnce == NodeSpec => NodeNamedOnce
<1>1. NodeInv /\ [NodeNext]_<<vars, nodeVars>> => NodeInv'
  BY NodeInvStep
<1>2. ASSUME NodeInv, [NodeNext]_<<vars, nodeVars>>
      PROVE  [\A n \in Namespaces : \A a \in Agents :
                node[n][a].pid # None /\ node'[n][a].exists =>
                  node'[n][a].pid = node[n][a].pid]_node
  BY <1>2, NodeKeepsName
<1> QED
  BY <1>1, <1>2, NodeInvInit, PTL DEF NodeSpec, NodeNamedOnce

-----------------------------------------------------------------------------

\* A Reconcile call is for the Node of the Agent whose provider ID it writes.
CallsOwn ==
  \A c \in Controllers : nodeWorker[c].pc # "idle" => nodeWorker[c].pid = nodeWorker[c].name

HostInv == NodeInv /\ RecordInv /\ CallsOwn /\ NodeOfItsAgent

LEMMA CallsOwnStep ==
  ASSUME "stale" \notin Environment, HostInv, [NodeNext]_<<vars, nodeVars>>
  PROVE  CallsOwn'
<1> SUFFICES ASSUME NEW d \in Controllers, nodeWorker'[d].pc # "idle"
             PROVE  nodeWorker'[d].pid = nodeWorker'[d].name
  BY DEF CallsOwn
<1> DEFINE w == nodeWorker[d]
           r == nodeWorker'[d]
<1>1. /\ w \in NodeWorkerState
      /\ w.pc # "idle" => w.pid = w.name
      /\ NodeCallMoves(d, w, r)
  BY NodeCallsMove DEF HostInv, NodeInv, NodeTypeOK, CallsOwn
<1>2. ASSUME NEW m \in Watched(d), Prompt, amCache[m].ref # None
      PROVE  amCache[m].pid = amCache[m].ref
  BY <1>2 DEF Prompt, Settled, HostInv, RecordInv, RecordsOK, RecordOK, Watched
<1>3. r.pc # "idle"
  OBVIOUS
<1> HIDE DEF w, r
<1>4. r.pid = r.name
  <2>1. CASE r = w \/ r = IdleNodeWorker
    BY <1>1, <1>3, <2>1 DEF IdleNodeWorker
  <2>2. CASE \/ r = [w EXCEPT !.latest = FALSE]
             \/ w.pc = "client" /\ r = [w EXCEPT !.pc = "get"]
             \/ w.pc = "get" /\ r = [w EXCEPT !.pc = "update", !.latest = TRUE]
    BY <1>1, <1>3, <2>2 DEF NodeWorkerState
  <2>3. ASSUME NEW m \in Watched(d), Prompt, amCache[m].ref # None,
               r = [pc |-> "client", m |-> m, name |-> amCache[m].ref,
                    pid |-> amCache[m].pid, latest |-> FALSE]
        PROVE  r.pid = r.name
    BY <1>2, <2>3
  <2> QED
    BY <1>1, <2>1, <2>2, <2>3 DEF NodeCallMoves
<1> QED
  BY <1>4 DEF r

LEMMA OwnNodeStep ==
  ASSUME HostInv, [NodeNext]_<<vars, nodeVars>>
  PROVE  NodeOfItsAgent'
<1> SUFFICES ASSUME NEW l \in Namespaces, NEW e \in Agents
             PROVE  node'[l][e].pid \in {None, Foreign, e}
  BY DEF NodeOfItsAgent
<1> DEFINE Goal == node'[l][e].pid \in {None, Foreign, e}
<1>i. NodeInv /\ NodeTypeOK /\ node[l][e].pid \in {None, Foreign, e}
  BY DEF HostInv, NodeInv, NodeOfItsAgent
<1>1. CASE UNCHANGED node
  BY <1>1, <1>i
<1>2. ASSUME NEW n \in Namespaces, NEW a \in Agents, NEW v \in NodeObj,
             ChangeNode(n, a, v), v = NoNode \/ v.exists,
             \/ v.pid = node[n][a].pid \/ ~v.exists \/ ~node[n][a].exists
             \/ (node[n][a].pid = None /\ v.pid = Foreign),
             ~node[n][a].exists => v.pid = None
      PROVE  Goal
  <2>1. /\ node' \in [Namespaces -> [Agents -> NodeObj]]
        /\ node'[n][a] = v
        /\ \A k \in Namespaces, b \in Agents : k # n \/ b # a => node'[k][b] = node[k][b]
    <3>1. NodeTypeOK /\ Written(n, a, v)
      BY <1>2, <1>i DEF ChangeNode, Written
    <3> QED
      BY <3>1, NodeWritten
  <2>2. ~v.exists => v.pid = None
    BY <1>2 DEF NoNode
  <2> QED
    BY <1>2, <1>i, <2>1, <2>2
<1>3. ASSUME NEW c \in Controllers,
             nodeWorker[c].pc = "update",
             node' = [node EXCEPT ![NsOf[nodeWorker[c].m]][nodeWorker[c].name] =
                        [node[NsOf[nodeWorker[c].m]][nodeWorker[c].name]
                           EXCEPT !.pid = nodeWorker[c].pid]]
      PROVE  Goal
  <2> DEFINE n == NsOf[nodeWorker[c].m]
             a == nodeWorker[c].name
             v == [node[n][a] EXCEPT !.pid = nodeWorker[c].pid]
  <2>1. n \in Namespaces /\ a \in Agents /\ nodeWorker[c].pid = a
    BY <1>3, ConstantTypes DEF HostInv, NodeInv, NodeCalls, CallsOwn, Watched
  <2>2. v \in NodeObj /\ v.pid = a
    <3>1. node[n][a] \in NodeObj /\ nodeWorker[c].pid \in AgentOrNone
      BY <1>i, <2>1 DEF NodeTypeOK, NodeWorkerState
    <3> QED
      BY <2>1, <3>1 DEF NodeObj
  <2>3. NodeTypeOK /\ Written(n, a, v)
    BY <1>3, <1>i DEF Written
  <2> HIDE DEF n, a, v
  <2>4. /\ node' \in [Namespaces -> [Agents -> NodeObj]]
        /\ node'[n][a] = v
        /\ \A k \in Namespaces, b \in Agents : k # n \/ b # a => node'[k][b] = node[k][b]
    BY <2>1, <2>2, <2>3, NodeWritten
  <2> QED
    BY <1>i, <2>2, <2>4
<1> HIDE DEF Goal
<1> QED
  BY <1>1, <1>2, <1>3, <1>i, NodesMove DEF NodeMoves, Goal

\* AgentMachine.Spec.ProviderID and the address of the Node are written by two
\* calls of the AgentMachine reconciler, read by one Reconcile call of the
\* NodeProviderID reconciler and used some calls later: the ID it writes to a Node
\* is that of the Agent on the Node's own host.
THEOREM NodeIsOfItsAgent ==
  ASSUME "apiError" \notin Environment, "stale" \notin Environment
  PROVE  NodeSpec => []NodeOfItsAgent
<1>1. ASSUME HostInv, [NodeNext]_<<vars, nodeVars>>
      PROVE  HostInv'
  <2>1. NodeInv' /\ RecordInv'
    BY <1>1, NodeInvStep, NodeKeepsRecords DEF HostInv
  <2> QED
    BY <1>1, <2>1, CallsOwnStep, OwnNodeStep DEF HostInv
<1>2. Init /\ NodeInit => HostInv
  <2> SUFFICES ASSUME Init, NodeInit PROVE HostInv
    OBVIOUS
  <2>1. \A n \in Namespaces, a \in Agents : node[n][a].pid = None
    BY DEF NodeInit, NoNode
  <2>2. \A c \in Controllers : nodeWorker[c].pc = "idle"
    BY DEF NodeInit, IdleNodeWorker
  <2> QED
    BY <2>1, <2>2, NodeInvInit, RecordInit DEF HostInv, CallsOwn, NodeOfItsAgent
<1>3. HostInv => NodeOfItsAgent
  BY DEF HostInv
<1> QED
  BY <1>1, <1>2, <1>3, PTL DEF NodeSpec

=============================================================================
