-------------------------- MODULE AgentMachineSystem --------------------------
(***************************************************************************)
(* The AgentMachine reconciler in its surroundings: processes that crash,  *)
(* a hub that is restored, Cluster API's Machine controller, the users of  *)
(* the hub, and the hosts with the service that installs them.  None of    *)
(* the surroundings is code of this repository.                            *)
(***************************************************************************)
EXTENDS AgentMachineController

-----------------------------------------------------------------------------
(* Failures of a provider process and of the hub *)

\* The processes in cs start again: Reconcile calls and delays are lost, caches
\* are listed anew and everything is queued.
Restart(cs, amNow) ==
  LET ms == UNION {Watched(c) : c \in cs} IN
  /\ worker' = [c \in Controllers |-> IF c \in cs THEN IdleWorker ELSE worker[c]]
  /\ amCache' = [m \in AgentMachines |-> IF m \in ms THEN amNow[m] ELSE amCache[m]]
  /\ machineCache' = [m \in AgentMachines |->
                        IF m \in ms THEN machine[m] ELSE machineCache[m]]
  /\ machineFresh' = machineFresh \union ms
  /\ machineHeld' = machineHeld \ ms
  /\ agentCache' = [c \in Controllers |-> IF c \in cs THEN agent ELSE agentCache[c]]
  /\ agentFresh' = [c \in Controllers |-> IF c \in cs THEN Agents ELSE agentFresh[c]]
  /\ listCache' = [c \in Controllers |-> IF c \in cs THEN agent ELSE listCache[c]]
  /\ listFresh' = [c \in Controllers |-> IF c \in cs THEN Agents ELSE listFresh[c]]
  /\ agentHeld' = [c \in Controllers |-> IF c \in cs THEN {} ELSE agentHeld[c]]
  /\ queue' = queue \union {m \in ms : amNow[m].st # "gone"}
  /\ delayed' = delayed \ ms

Crash(c) ==
  /\ Prompt
  /\ Fault("crash")
  /\ Restart({c}, am)
  /\ UNCHANGED <<am, machine, agent, clusterVars>>

\* The hub is restored from a backup: specs and labels survive, status does not.
\* A backup does not hold objects under deletion.
RestoreHub ==
  /\ Prompt
  /\ Fault("restore")
  /\ \A m \in AgentMachines : am[m].st = "live" /\ machine[m].st = "live"
  /\ LET restored == [m \in AgentMachines |->
            [am[m] EXCEPT !.ref = None, !.ready = FALSE, !.conds = "none"]]
     IN am' = restored /\ Restart(Controllers, restored)
  /\ cdRef' = [n \in Namespaces |-> IF cdRef[n] = "set" THEN "empty" ELSE cdRef[n]]
  /\ UNCHANGED <<machine, agent, tokens>>

-----------------------------------------------------------------------------
(* Cluster API's Machine controller and the users of the hub *)

CapiSetOwner(m) ==
  /\ am[m].st # "gone" /\ ~am[m].owner
  /\ ChangeAgentMachine(m, [am[m] EXCEPT !.owner = TRUE])
  /\ UNCHANGED faults

DeleteMachine(m) ==
  /\ "deleteMachine" \in Environment
  /\ machine[m].st = "live"
  /\ machine[m].hook \/ "earlyDelete" \in Environment
  /\ ChangeMachine(m, [machine[m] EXCEPT !.st = "deleting"])
  /\ UNCHANGED faults

CapiWaitForHook(m) ==
  /\ machine[m].st = "deleting" /\ machine[m].hook
  /\ machine[m].phase = "none"
  /\ ChangeMachine(m, [machine[m] EXCEPT !.phase = "waiting"])
  /\ UNCHANGED faults

\* Someone strips the Machine's finalizers: it goes without waiting for anything.
ForceRemoveMachine(m) ==
  /\ Fault("forceRemove")
  /\ machine[m].st # "gone"
  /\ ChangeMachine(m, GoneMachine)

\* Once the hook is gone the infrastructure object is deleted (by garbage
\* collection if the Machine has been removed by force), ...
CapiDeleteInfrastructure(m) ==
  /\ \/ machine[m].st = "deleting" /\ ~machine[m].hook
     \/ machine[m].st = "gone"
  /\ am[m].st = "live" /\ am[m].owner
  /\ ChangeAgentMachine(m, Collect([am[m] EXCEPT !.st = "deleting"]))
  /\ UNCHANGED faults

\* ... then the Machine's conditions say that the hook has been passed, ...
CapiHookPassed(m) ==
  /\ machine[m].st = "deleting" /\ ~machine[m].hook
  /\ am[m].st # "live" /\ machine[m].phase # "passed"
  /\ ChangeMachine(m, [machine[m] EXCEPT !.phase = "passed"])
  /\ UNCHANGED faults

\* ... and the Machine goes when its infrastructure object has gone.
CapiMachineGone(m) ==
  /\ machine[m].st = "deleting" /\ machine[m].phase = "passed"
  /\ am[m].st = "gone"
  /\ ChangeMachine(m, GoneMachine)
  /\ UNCHANGED faults

DeleteAgentMachine(m) ==
  /\ "deleteAgentMachine" \in Environment
  /\ am[m].st = "live"
  /\ ChangeAgentMachine(m, Collect([am[m] EXCEPT !.st = "deleting"]))
  /\ UNCHANGED faults

Pause(m) ==
  /\ Fault("pause")
  /\ am[m].st # "gone"
  /\ ChangeAgentMachine(m, [am[m] EXCEPT !.paused = ~@])

\* The Machine is pointed at other bootstrap data.
RotateBootstrapData(m, b) ==
  /\ Fault("rotate")
  /\ machine[m].st = "live" /\ machine[m].boot # b
  /\ ChangeMachine(m, [machine[m] EXCEPT !.boot = b])

\* The AgentCluster appears, then its controller records the ClusterDeployment.
ClusterProgress(n) ==
  /\ Prompt
  /\ cdRef[n] # "set"
  /\ cdRef' = [cdRef EXCEPT ![n] = IF @ = "absent" THEN "empty" ELSE "set"]
  /\ UNCHANGED <<amVars, machineVars, agentVars, tokens, queueVars, worker, faults>>

-----------------------------------------------------------------------------
(* Agents: the hosts and the service that installs them *)

AgentBecomesValid(a) ==
  /\ ~agent[a].ok
  /\ ChangeAgent(a, [agent[a] EXCEPT !.ok = TRUE])
  /\ UNCHANGED faults

AgentLosesValidity(a) ==
  /\ Fault("flap")
  /\ agent[a].ok
  /\ ChangeAgent(a, [agent[a] EXCEPT !.ok = FALSE])

\* Someone else binds an unlabelled Agent to a ClusterDeployment.
ManualBind(a) ==
  /\ Fault("manualBind")
  /\ agent[a].label = None /\ agent[a].cd = None
  /\ ChangeAgent(a, [agent[a] EXCEPT !.cd = Foreign])

DeleteAgent(a) ==
  /\ Fault("deleteAgent")
  /\ ChangeAgent(a, [NewAgent EXCEPT !.exists = FALSE])

\* The host follows ClusterDeploymentName: installation, and after an unbind
\* the return to discovery, which may need a user's help ("pending").
HostNext(ag) ==
  CASE ag.cd # None /\ ag.state = "unbound" -> {"installing"}
    [] ag.cd # None /\ ag.state = "installing" -> {"installed"}
    [] ag.cd = None /\ ag.state \in {"installing", "installed"} -> {"unbinding"}
    [] ag.state = "unbinding" -> {"unbound", "pending"}
    [] ag.state = "pending" -> {"unbound"}
    [] OTHER -> {}

HostProgress(a) ==
  /\ \E s \in HostNext(agent[a]) :
       ChangeAgent(a, [agent[a] EXCEPT !.state = s])
  /\ UNCHANGED faults

-----------------------------------------------------------------------------

Deliver(m) == DeliverAgentMachine(m) \/ DeliverMachine(m)

CapiProgress(m) ==
  \/ CapiSetOwner(m) \/ CapiWaitForHook(m) \/ CapiDeleteInfrastructure(m)
  \/ CapiHookPassed(m) \/ CapiMachineGone(m)

Users(m) ==
  \/ DeleteMachine(m) \/ ForceRemoveMachine(m) \/ DeleteAgentMachine(m)
  \/ Pause(m)
  \/ \E b \in Boots : RotateBootstrapData(m, b)

AgentProgress(a) == AgentBecomesValid(a) \/ HostProgress(a)

AgentTrouble(a) == AgentLosesValidity(a) \/ ManualBind(a) \/ DeleteAgent(a)

\* A failure that makes the processes in cs start again.
Failure(cs) ==
  \/ \E c \in Controllers : cs = {c} /\ Crash(c)
  \/ cs = Controllers /\ RestoreHub

Progress ==
  \/ \E c \in Controllers :
       \/ \E m \in AgentMachines : Reconcile(c, m)
       \/ ReconcileStep(c)
       \/ \E a \in Agents : DeliverAgent(c, a) \/ RefreshList(c, a)
  \/ \E m \in AgentMachines :
       Deliver(m) \/ Requeue(m) \/ Resync(m) \/ CapiProgress(m) \/ Users(m)
  \/ \E a \in Agents : AgentProgress(a) \/ AgentTrouble(a)
  \/ \E n \in Namespaces : ClusterProgress(n)

Next == Progress \/ \E cs \in SUBSET Controllers : Failure(cs)

Spec == Init /\ [][Next]_vars

(***************************************************************************)
(* Fairness.  A process that runs keeps executing its Reconcile call, its   *)
(* watches keep delivering and its timers fire.  The work queue is first in *)
(* first out, so an AgentMachine queued again and again is taken in the end *)
(* although the worker is busy with others in between: strong fairness.     *)
(* The Machine and AgentCluster controllers make progress.  Hosts do, too,  *)
(* in FairSpec; in ProviderFairSpec an installation may stall.  Users and   *)
(* failures are not fair.                                                   *)
(***************************************************************************)
ProviderFairness ==
  /\ \A c \in Controllers :
       /\ WF_vars(ReconcileStep(c))
       /\ \A a \in Agents : WF_vars(DeliverAgent(c, a)) /\ WF_vars(RefreshList(c, a))
       /\ \A m \in AgentMachines : SF_vars(Reconcile(c, m))
  /\ \A m \in AgentMachines :
       /\ WF_vars(Deliver(m))
       /\ WF_vars(Requeue(m))
       /\ WF_vars(Resync(m))
       /\ WF_vars(CapiProgress(m))
  /\ \A n \in Namespaces : WF_vars(ClusterProgress(n))

HostFairness == \A a \in Agents : WF_vars(AgentProgress(a))

ProviderFairSpec == Spec /\ ProviderFairness
FairSpec == Spec /\ ProviderFairness /\ HostFairness

-----------------------------------------------------------------------------
(* What all this is for: AgentMachines hold Agents of a pool *)

\* The AgentMachine an Agent is mapped to by its label and annotation.
Holder(a) ==
  LET ms == {m \in AgentMachines :
               agent[a].label = NameOf[m] /\ agent[a].namespace = NsOf[m]}
  IN IF ms = {} THEN None ELSE CHOOSE m \in ms : TRUE

Pool == INSTANCE AgentPool WITH
  members <- {a \in Agents : agent[a].exists},
  holder <- [a \in Agents |-> Holder(a)],
  recorded <- [m \in AgentMachines |-> am[m].ref],
  leaving <- {m \in AgentMachines : am[m].st # "live" \/ machine[m].st # "live"}

-----------------------------------------------------------------------------
(* Properties *)

\* Labels, annotations and AgentRefs, written by several calls to different
\* objects, with crashes, errors and competing processes in between, move only
\* the way reservations from a pool do: findAgent and updateFoundAgent take one
\* free Agent for an AgentMachine that has none, the deferred Patch records it,
\* and handleDeletionHook gives it back when Machine or AgentMachine are leaving.
ImplementsPool == Pool!Spec

\* The same, and a reservation is recorded in the end, even if the process that
\* made it crashes or the hub is restored before: it is found again by its label.
ImplementsFairPool == Pool!FairSpec

\* findAgent decides on a cached copy, updateFoundAgent writes later: at the
\* moment an Agent is bound to a provider's ClusterDeployment it is, in the API
\* server and not just in a cache, unlabelled, selected by an AgentMachine of that
\* name, and all that isValidAgent asks of it: approved, connected, validated, and
\* its Bound condition False.  Whether it names a ClusterDeployment already, in the
\* time before that condition follows, is what NeverRetargeted is about.
ClaimsOnlyFreeAgents ==
  [][\A a \in Agents :
       agent'[a].cd \in Namespaces /\ agent'[a].cd # agent[a].cd =>
         /\ agent[a].exists /\ agent[a].label = None /\ IsValidAgent(agent[a])
         /\ \E m \in AgentMachines :
              /\ a \in Matches[m]
              /\ agent'[a].label = NameOf[m] /\ agent'[a].cd = NsOf[m]]_agent

\* A bound Agent is unbound before it is bound to another ClusterDeployment:
\* isValidAgent accepts it only when it is not bound.
NeverRetargeted ==
  [][\A a \in Agents :
       agent[a].cd # None /\ agent'[a].cd # None => agent'[a].cd = agent[a].cd]_agent

\* An Agent that names a token secret (IgnitionEndpointTokenReference) names one
\* that processBootstrapDataSecret has already created.
TokenBeforeReference ==
  \A a \in Agents : agent[a].boot # None => agent[a].boot \in tokens

\* The Agent an AgentMachine refers to is its own: labelled with its name, mapped
\* to its namespace and bound to its cluster's ClusterDeployment.  In particular
\* no two AgentMachines refer to one Agent.
ReservationHolds ==
  \A m \in AgentMachines :
    LET a == am[m].ref IN
    am[m].st = "live" /\ machine[m].st = "live" /\ a # None =>
      /\ agent[a].label = NameOf[m]
      /\ agent[a].namespace = NsOf[m]
      /\ agent[a].cd = NsOf[m]

\* However often a Reconcile call is interrupted between the claim of an Agent and
\* the patch that records it, an AgentMachine never holds two Agents.
OneAgentPerMachine ==
  \A m \in AgentMachines :
    Cardinality({a \in Agents : /\ agent[a].label = NameOf[m]
                                /\ agent[a].namespace = NsOf[m]}) <= 1

\* A ready AgentMachine has a provider ID, that of the Agent it refers to: the
\* node's provider ID is copied from it.
ReadyHasProviderID ==
  \A m \in AgentMachines :
    am[m].ready => am[m].ref # None /\ am[m].pid = am[m].ref

\* The delete hook of a Machine is removed only when no Agent is left mapped to
\* its AgentMachine.
HookOutlivesReservation ==
  [][\A m \in AgentMachines :
       machine[m].hook /\ ~machine'[m].hook /\ machine'[m].st = "deleting" =>
         ~\E a \in Agents : /\ agent[a].label = NameOf[m]
                            /\ agent[a].namespace = NsOf[m]]_machine

\* A Machine that has gone leaves no Agent behind that is still mapped to its
\* AgentMachine, and so out of every other AgentMachine's reach.
NoLeakedAgent ==
  \A m \in AgentMachines :
    machine[m].st = "gone" =>
      ~\E a \in Agents : /\ agent[a].label = NameOf[m]
                         /\ agent[a].namespace = NsOf[m]

\* Every AgentMachine becomes ready, woken by the watches alone, when there are
\* Agents enough for all.
EventuallyReady == \A m \in AgentMachines : <>am[m].ready

\* An AgentMachine is ready in the end, with an Agent to be had and its Machine
\* live, although errors of findAgent and of the deferred Patch are not returned
\* and Agents may be listed from a cache that is older than the event that woke
\* the reconciler: the next resync repeats the work, and finds a claim that was
\* not recorded.
ReadyInTheEnd ==
  \A m \in AgentMachines :
    <>[](\/ am[m].ready
         \/ machine[m].st # "live"
         \/ ~\E a \in Agents : agent[a].exists)

\* Bootstrap data the Machine is pointed at reaches the Agent as long as the
\* AgentMachine is not ready, even if the host never gets any further.
BootstrapDataArrives ==
  \A m \in AgentMachines :
    <>[](\/ am[m].ready
         \/ machine[m].boot = None
         \/ am[m].ref = None
         \/ agent[am[m].ref].boot = machine[m].boot)

\* A Machine under deletion goes in the end: the delete hook and the finalizer of
\* its AgentMachine are both removed.
DeletionCompletes ==
  \A m \in AgentMachines : machine[m].st = "deleting" ~> machine[m].st = "gone"

=============================================================================
