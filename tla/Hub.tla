--------------------------------- MODULE Hub ---------------------------------
(***************************************************************************)
(* The hub cluster as the AgentMachine reconciler sees it: the objects in  *)
(* the API server, the informer caches of each provider process, its work  *)
(* queue, and the local variables of the Reconcile call it may be running  *)
(* (controller-runtime runs one at a time per controller).                 *)
(*                                                                         *)
(* A resourceVersion is modelled by what it decides: whether a copy is     *)
(* still the latest one.  agentFresh, listFresh and machineFresh hold the  *)
(* objects whose cached copy is the latest; agentHeld and machineHeld      *)
(* those whose copy in the hands of the running Reconcile is.  A write of  *)
(* an object takes it out of these sets, and an Update is accepted only    *)
(* from a latest copy.                                                     *)
(***************************************************************************)
EXTENDS Disturbances, FiniteSets

CONSTANTS
  Controllers,      \* provider processes; all of them watch the same Agents
  Namespaces,       \* hub namespaces, each with one AgentCluster
  AgentMachines,    \* AgentMachines; each stands for its owner Machine as well
  Agents,           \* Agents registered by discovered hosts
  Names,            \* AgentMachine names: what is written in the Agent's label
  Boots,            \* bootstrap data secrets
  None,             \* no value (nil pointer, missing label)
  Foreign,          \* a ClusterDeployment bound by someone else than a provider
  NsOf,             \* namespace of an AgentMachine
  NameOf,           \* name of an AgentMachine; names repeat across namespaces
  ControllerOf,     \* provider process that watches a namespace
  Matches,          \* Agents that satisfy the AgentMachine's label selector
  LegacyConditions  \* Machines show the v1beta1 pre-terminate condition

EnvironmentKinds == {"stale", "crash", "restore", "apiError", "lostReply",
  "resync", "lateOwner", "lateCluster", "rotate", "flap", "manualBind",
  "deleteMachine", "earlyDelete", "forceRemove", "deleteAgentMachine",
  "deleteAgent", "pause", "separateCache", "remoteError", "nodeWrite",
  "foreignProviderID"}

ASSUME ConstantTypes ==
  /\ NsOf \in [AgentMachines -> Namespaces]
  /\ NameOf \in [AgentMachines -> Names]
  /\ ControllerOf \in [Namespaces -> Controllers]
  /\ Matches \in [AgentMachines -> SUBSET Agents]
  /\ LegacyConditions \in BOOLEAN
  /\ Environment \subseteq EnvironmentKinds
  /\ MaxFaults \in Nat

ASSUME NamesAreUniqueInANamespace ==
  \A m, n \in AgentMachines : NsOf[m] = NsOf[n] /\ NameOf[m] = NameOf[n] => m = n

ASSUME NoneIsNoValue ==
  /\ None \notin AgentMachines \union Agents \union Names \union Namespaces
  /\ None \notin Boots
  /\ Foreign # None /\ Foreign \notin Namespaces

VARIABLES
  am,            \* AgentMachines in the API server
  machine,       \* the Machine that owns each of them
  agent,         \* Agents
  tokens,        \* bootstrap secrets whose agent-<name> token secret exists
  cdRef,         \* Status.ClusterDeploymentRef of each namespace's AgentCluster
  amCache, machineCache, agentCache,         \* informer caches
  listCache,                                 \* cache that Agents are listed from
  machineFresh, agentFresh, listFresh,       \* cached copies that are the latest
  machineHeld, agentHeld,                    \* copies Reconcile holds, likewise
  queue,         \* AgentMachines waiting to be reconciled
  delayed,       \* AgentMachines queued after a delay (RequeueAfter, back-off)
  worker         \* the Reconcile call of each process

amVars == <<am, amCache>>
machineVars == <<machine, machineCache, machineFresh, machineHeld>>
agentCaches == <<agentCache, agentFresh, listCache, listFresh>>
agentVars == <<agent, agentHeld, agentCaches>>
queueVars == <<queue, delayed>>
clusterVars == <<tokens, cdRef>>
vars == <<amVars, machineVars, agentVars, clusterVars, queueVars, worker, faults>>

-----------------------------------------------------------------------------
(* Objects *)

AgentOrNone == Agents \union {None}
BootOrNone == Boots \union {None}

AgentMachineObj ==
  [st : {"live", "deleting", "gone"},  \* deleting: DeletionTimestamp is set
   owner : BOOLEAN,                    \* OwnerReferences names the Machine
   paused : BOOLEAN, fin : BOOLEAN, backup : BOOLEAN,
   pid : AgentOrNone,                  \* Spec.ProviderID
   ref : AgentOrNone,                  \* Status.AgentRef, with the addresses
   ready : BOOLEAN,                    \* Status.Ready
   conds : {"none", "noAgent", "error", "reserved", "all"}]

MachineObj ==
  [st : {"live", "deleting", "gone"}, hook : BOOLEAN,
   phase : {"none", "waiting", "passed"},  \* pre-terminate hook in deletion
   boot : BootOrNone]

AgentObj ==
  [exists : BOOLEAN, label : Names \union {None},
   namespace : Namespaces \union {None},
   cd : Namespaces \union {None, Foreign}, \* Spec.ClusterDeploymentName
   boot : BootOrNone,                      \* pool, token reference and headers
   ok : BOOLEAN,                           \* approved, connected and validated
   state : {"unbound", "installing", "installed", "unbinding", "pending"}]

Pcs == {"idle", "addHook", "unbindGet", "unbind", "removeHook", "boot", "find",
        "claim", "sync", "syncUpdate", "status", "label", "patchConds",
        "patchSpec", "patchStatus", "done"}

WorkerState ==
  [pc : Pcs, m : AgentMachines \union {None},
   obj : AgentMachineObj,              \* the copy the code works on
   before : AgentMachineObj,           \* the copy patch.NewHelper keeps
   mach : MachineObj,                  \* the Machine as read
   cand : SUBSET Agents,               \* listed, valid and not yet tried
   boot : BootOrNone,                  \* BootstrapData
   again : BOOLEAN]                    \* returns an error or RequeueAfter

NewAgentMachine ==
  [st |-> "live", owner |-> "lateOwner" \notin Environment, paused |-> FALSE,
   fin |-> FALSE, backup |-> FALSE, pid |-> None, ref |-> None, ready |-> FALSE,
   conds |-> "none"]

GoneAgentMachine == [NewAgentMachine EXCEPT !.st = "gone"]

NewMachine(b) == [st |-> "live", hook |-> FALSE, phase |-> "none", boot |-> b]

GoneMachine == [NewMachine(None) EXCEPT !.st = "gone"]

NewAgent ==
  [exists |-> TRUE, label |-> None, namespace |-> None, cd |-> None,
   boot |-> None, ok |-> FALSE, state |-> "unbound"]

IdleWorker ==
  [pc |-> "idle", m |-> None, obj |-> GoneAgentMachine,
   before |-> GoneAgentMachine, mach |-> NewMachine(None), cand |-> {},
   boot |-> None, again |-> FALSE]

\* The AgentMachines a provider process caches and reconciles.
Watched(c) == {m \in AgentMachines : ControllerOf[NsOf[m]] = c}

Init ==
  /\ am = [m \in AgentMachines |-> NewAgentMachine]
  /\ \E b \in [AgentMachines -> BootOrNone] :
       machine = [m \in AgentMachines |-> NewMachine(b[m])]
  /\ agent = [a \in Agents |-> NewAgent]
  /\ tokens = {}
  /\ cdRef = [n \in Namespaces |->
                IF "lateCluster" \in Environment THEN "absent" ELSE "set"]
  /\ amCache = am
  /\ machineCache = machine
  /\ agentCache = [c \in Controllers |-> agent]
  /\ machineFresh = AgentMachines
  /\ listCache = agentCache
  /\ agentFresh = [c \in Controllers |-> Agents]
  /\ listFresh = agentFresh
  /\ machineHeld = {}
  /\ agentHeld = [c \in Controllers |-> {}]
  /\ queue = AgentMachines
  /\ delayed = {}
  /\ worker = [c \in Controllers |-> IdleWorker]
  /\ faults = 0

-----------------------------------------------------------------------------
(* Calls to the API server *)

\* Every cache holds the latest objects, but for a separate one for lists.
Settled ==
  /\ machineFresh = AgentMachines
  /\ amCache = am
  /\ \A c \in Controllers : agentFresh[c] = Agents

\* Without "stale", watches are prompt: a change is delivered before anything
\* else happens.  Copies already read by a Reconcile call age all the same.
Prompt == "stale" \in Environment \/ Settled

\* The Reconcile call of c is about to make the call named by pc.
At(c, pc) == Prompt /\ worker[c].pc = pc

WriteAgent(a, v) ==
  /\ agent' = [agent EXCEPT ![a] = v]
  /\ agentFresh' = [c \in Controllers |-> agentFresh[c] \ {a}]
  /\ listFresh' = [c \in Controllers |-> listFresh[c] \ {a}]
  /\ agentHeld' = [c \in Controllers |-> agentHeld[c] \ {a}]
  /\ UNCHANGED <<agentCache, listCache>>

\* Update refreshes the object it is given: its caller holds the latest copy.
WriteMachine(m, v, held) ==
  /\ machine' = [machine EXCEPT ![m] = v]
  /\ machineFresh' = machineFresh \ {m}
  /\ machineHeld' = IF held THEN machineHeld \union {m} ELSE machineHeld \ {m}
  /\ UNCHANGED machineCache

\* An object under deletion disappears with its last finalizer.
Collect(s) == IF s.st = "deleting" /\ ~s.fin THEN GoneAgentMachine ELSE s

Become(c, w) == worker' = [worker EXCEPT ![c] = w]

\* c makes Agent a become v; then and else are the worker after success and
\* after an error.
CallAgent(c, a, v, accepted, then, else) ==
  /\ \E o \in Outcomes :
       /\ Outcome(o)
       /\ IF o # "error" /\ accepted THEN WriteAgent(a, v) ELSE UNCHANGED agentVars
       /\ Become(c, IF o = "ok" /\ accepted THEN then ELSE else)
  /\ UNCHANGED <<amVars, machineVars, clusterVars, queueVars>>

\* c updates the Machine of AgentMachine m.
CallMachine(c, m, v, then, else) ==
  /\ \E o \in Outcomes :
       /\ Outcome(o)
       /\ IF o # "error" /\ m \in machineHeld
            THEN WriteMachine(m, v, TRUE) ELSE UNCHANGED machineVars
       /\ Become(c, IF o = "ok" /\ m \in machineHeld THEN then ELSE else)
  /\ UNCHANGED <<amVars, agentVars, clusterVars, queueVars>>

\* c reads Agent a from the API server and goes on with then, or with else if
\* the read fails.
ReadAgent(c, a, then, else) ==
  /\ \/ /\ Fault("apiError")
        /\ Become(c, else)
        /\ UNCHANGED agentHeld
     \/ /\ UNCHANGED faults
        /\ Become(c, then)
        /\ agentHeld' = [agentHeld EXCEPT ![c] = {a}]
  /\ UNCHANGED <<amVars, machineVars, agent, agentCaches, clusterVars, queueVars>>

\* One call of patchHelper.Patch on c's AgentMachine, made if changed; it goes on
\* at pc whatever comes back.
CallPatch(c, changed, accepted, v, pc) ==
  LET m == worker[c].m IN
  /\ \E o \in Outcomes :
       /\ Outcome(o)
       /\ ~changed => o = "ok"
       /\ am' = IF changed /\ accepted /\ o # "error" THEN [am EXCEPT ![m] = v] ELSE am
  /\ Become(c, [worker[c] EXCEPT !.pc = pc])
  /\ UNCHANGED <<amCache, machineVars, agentVars, clusterVars, queueVars>>

\* Changes made by others than the provider.
ChangeAgentMachine(m, v) ==
  /\ Prompt
  /\ am' = [am EXCEPT ![m] = v]
  /\ UNCHANGED <<amCache, machineVars, agentVars, clusterVars, queueVars, worker>>

ChangeMachine(m, v) ==
  /\ Prompt
  /\ WriteMachine(m, v, FALSE)
  /\ UNCHANGED <<amVars, agentVars, clusterVars, queueVars, worker>>

ChangeAgent(a, v) ==
  /\ Prompt
  /\ agent[a].exists
  /\ WriteAgent(a, v)
  /\ UNCHANGED <<amVars, machineVars, clusterVars, queueVars, worker>>

\* The type of every variable.
TypeOK ==
  /\ am \in [AgentMachines -> AgentMachineObj]
  /\ machine \in [AgentMachines -> MachineObj]
  /\ agent \in [Agents -> AgentObj]
  /\ tokens \subseteq Boots
  /\ cdRef \in [Namespaces -> {"absent", "empty", "set"}]
  /\ amCache \in [AgentMachines -> AgentMachineObj]
  /\ machineCache \in [AgentMachines -> MachineObj]
  /\ agentCache \in [Controllers -> [Agents -> AgentObj]]
  /\ listCache \in [Controllers -> [Agents -> AgentObj]]
  /\ machineFresh \subseteq AgentMachines
  /\ listFresh \in [Controllers -> SUBSET Agents]
  /\ agentFresh \in [Controllers -> SUBSET Agents]
  /\ machineHeld \subseteq AgentMachines
  /\ agentHeld \in [Controllers -> SUBSET Agents]
  /\ queue \subseteq AgentMachines
  /\ delayed \subseteq AgentMachines
  /\ worker \in [Controllers -> WorkerState]
  /\ faults \in 0..MaxFaults

=============================================================================
