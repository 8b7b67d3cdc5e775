------------------------ MODULE AgentMachineController ------------------------
(***************************************************************************)
(* The AgentMachine reconciler (controllers/agentmachine_controller.go):   *)
(* how a provider process reserves an Agent for a CAPI Machine, keeps the  *)
(* Agent's bootstrap data in step with the Machine, mirrors the Agent's    *)
(* conditions, and gives the Agent back when the Machine is deleted.       *)
(*                                                                         *)
(* A Reconcile call is cut at its calls to the API server: each of them is *)
(* one action, and what the code computes between two calls belongs to the *)
(* action of the first.                                                    *)
(***************************************************************************)
EXTENDS Hub

-----------------------------------------------------------------------------
(* What Reconcile computes between calls: operators on the worker's state *)

\* A return from Reconcile runs the deferred Patch; an error or RequeueAfter
\* queues the AgentMachine again afterwards.
Return(w) == [w EXCEPT !.pc = "patchConds"]
Retry(w) == [w EXCEPT !.pc = "patchConds", !.again = TRUE]

\* setAgentReservedCondition and the branch of updateStatus without an AgentRef.
\* With one, updateStatus goes on to read the Agent, and err is not used.
UpdateStatus(w, err) ==
  IF w.obj.ref = None
    THEN Return([w EXCEPT !.obj = [@ EXCEPT
           !.ready = FALSE, !.conds = IF err THEN "error" ELSE "noAgent"]])
    ELSE [w EXCEPT !.pc = "status", !.obj = [@ EXCEPT
           !.ready = FALSE, !.conds = IF @ = "all" THEN "all" ELSE "reserved"]]

\* Whether SpecSynced, Validated and RequirementsMet are all True, which an Agent
\* that is not ok may have or not.
OtherConditions(ag) == {met \in BOOLEAN : ag.ok => met}

\* setConditionByAgentCondition for these three conditions and for Installed, and
\* setStatus, which asks for all of them.
ConditionsFromState(w, ag, met) ==
  Return([w EXCEPT !.obj = [@ EXCEPT
    !.ready = met /\ ag.state = "installed", !.conds = ag.state]])
MirrorConditions(w, ag, met) ==
  LET all == met /\ ag.state = "installed" IN
  Return([w EXCEPT !.obj = [@ EXCEPT
    !.ready = all, !.conds = IF all THEN "all" ELSE "reserved"]])

RemoveFinalizer(w) == [w EXCEPT !.obj.fin = FALSE]

\* removeHookAndFinalizer: the Machine is written only if it carries the hook.
RemoveHookAndFinalizer(w) ==
  IF w.mach.hook THEN [w EXCEPT !.pc = "removeHook"]
                 ELSE Return(RemoveFinalizer(w))

\* The v1beta1 condition says that the hook has been processed.
HookDoneIgnored(w) == FALSE
HookDone(w) == LegacyConditions /\ w.mach.phase = "passed"

\* handleDeletionHook after the hook is in place.
HandleDeletionHook(w) ==
  LET x == IF w.obj.st = "live" THEN [w EXCEPT !.obj.fin = TRUE] ELSE w
  IN IF x.obj.paused
       THEN IF x.obj.st = "live" THEN Return(x) ELSE RemoveHookAndFinalizer(x)
     ELSE IF x.mach.phase = "waiting"
       THEN IF x.obj.ref = None THEN RemoveHookAndFinalizer(x)
                                ELSE [x EXCEPT !.pc = "unbindGet"]
     ELSE IF HookDone(x)
       THEN Return(RemoveFinalizer(x))
     ELSE [x EXCEPT !.pc = "boot", !.obj.backup = TRUE]

\* The beginning of Reconcile, up to handleDeletionHook.
Begin(w) ==
  IF ~w.obj.owner THEN UpdateStatus(w, FALSE)
  ELSE IF w.mach.st = "gone"
    THEN Retry(IF w.obj.st = "deleting" THEN RemoveFinalizer(w) ELSE w)
  ELSE IF w.mach.st = "live" /\ ~w.mach.hook THEN [w EXCEPT !.pc = "addHook"]
  ELSE HandleDeletionHook(w)

\* Host states in which the Machine need not wait for its Agent any longer.
RemoveHookStates == {"unbound", "pending"}

\* The end of handleDeletionHook, with the Agent unbound.
AfterUnbind(w, state) ==
  IF state \in RemoveHookStates THEN RemoveHookAndFinalizer(w) ELSE Retry(w)

\* Reconcile between processBootstrapDataSecret and findAgent; ref is the
\* AgentCluster's ClusterDeployment reference.
AfterBootstrap(w, ref) ==
  IF w.obj.ready THEN Return(w)
  ELSE IF ref = "absent" THEN Retry(w)
  ELSE IF ref = "empty" THEN UpdateStatus([w EXCEPT !.again = TRUE], TRUE)
  ELSE [w EXCEPT !.pc = IF w.obj.ref = None THEN "find" ELSE "sync"]

\* updateAgentMachineWithFoundAgent.
FoundNoProviderID(w, a) == [w EXCEPT !.pc = "sync", !.obj.ref = a, !.cand = {}]
FoundOldProviderID(w, a) ==
  [w EXCEPT !.pc = "sync", !.cand = {},
            !.obj = [@ EXCEPT !.pid = IF @ = None THEN a ELSE @, !.ref = a]]
Found(w, a) ==
  [w EXCEPT !.pc = "sync", !.obj = [@ EXCEPT !.pid = a, !.ref = a], !.cand = {}]

\* isValidAgent; Bound is False from the time the host is unbound until the
\* service that installs it has acted on a ClusterDeploymentName.
IsValidAgent(ag) == ag.ok /\ ag.state = "unbound"

SpecChanged(w) ==
  \/ w.obj.fin # w.before.fin
  \/ w.obj.pid # w.before.pid
  \/ w.obj.backup # w.before.backup

StatusChanged(w) == w.obj.ref # w.before.ref \/ w.obj.ready # w.before.ready

\* A merge patch carries the fields that differ from the copy kept by NewHelper.
MergeSpec(s, obj, before) ==
  [s EXCEPT !.fin = IF obj.fin # before.fin THEN obj.fin ELSE @,
            !.pid = IF obj.pid # before.pid THEN obj.pid ELSE @,
            !.backup = IF obj.backup # before.backup THEN obj.backup ELSE @]

MergeStatus(s, obj, before) ==
  [s EXCEPT !.ref = IF obj.ref # before.ref THEN obj.ref ELSE @,
            !.ready = IF obj.ready # before.ready THEN obj.ready ELSE @]

-----------------------------------------------------------------------------
(* Reconcile, one action per call to the API server *)

Reconcile(c, m) ==
  /\ At(c, "idle")
  /\ m \in queue \intersect Watched(c)
  /\ queue' = queue \ {m}
  /\ IF amCache[m].st = "gone"
       THEN UNCHANGED <<worker, machineHeld>>
       ELSE /\ Become(c, Begin([IdleWorker EXCEPT
                   !.m = m, !.obj = amCache[m], !.before = amCache[m],
                   !.mach = machineCache[m]]))
            /\ machineHeld' = machineHeld \union ({m} \intersect machineFresh)
  /\ UNCHANGED <<amVars, machine, machineCache, machineFresh, agentVars,
                 clusterVars, delayed, faults>>

AddHook(c) ==
  LET w == worker[c] IN
  /\ At(c, "addHook")
  /\ CallMachine(c, w.m, [machine[w.m] EXCEPT !.hook = TRUE],
                 HandleDeletionHook([w EXCEPT !.mach.hook = TRUE]), Retry(w))

\* Does the Agent still look bound or mapped to an AgentMachine, any one?
StillInstalled(ag) == ag.state = "installed"
NeedsUnbind(ag) == ag.label # None \/ ag.cd # None

\* getAgent of handleDeletionHook: a read of the API server, not of the cache.
UnbindGet(c) ==
  LET w == worker[c]
      ag == agent[w.obj.ref]
  IN
  /\ At(c, "unbindGet")
  /\ ReadAgent(c, w.obj.ref,
               IF ~ag.exists THEN RemoveHookAndFinalizer(w)
               ELSE IF NeedsUnbind(ag) THEN [w EXCEPT !.pc = "unbind"]
               ELSE AfterUnbind(w, ag.state),
               Retry(w))

\* The Agent as it is given back.
ReleasedSpecOnly(ag) == [ag EXCEPT !.cd = None, !.boot = None]
Released(ag) ==
  [ag EXCEPT !.label = None, !.namespace = None, !.cd = None, !.boot = None]

\* The API server accepts an Update made from the latest copy only.
LockIgnored(c, a) == agent[a].exists
Latest(c, a) == a \in agentHeld[c]

Unbind(c) ==
  LET w == worker[c]
      a == w.obj.ref
  IN
  /\ At(c, "unbind")
  /\ CallAgent(c, a, Released(agent[a]), Latest(c, a),
               AfterUnbind(w, agent[a].state), Retry(w))

RemoveHook(c) ==
  LET w == worker[c] IN
  /\ At(c, "removeHook")
  /\ CallMachine(c, w.m, [machine[w.m] EXCEPT !.hook = FALSE],
                 Return(RemoveFinalizer(w)), Retry(w))

\* processBootstrapDataSecret returned: Reconcile goes on, or gives up on an error.
BootstrapErrorIgnored(w, o, b) ==
  AfterBootstrap([w EXCEPT !.boot = b], cdRef[NsOf[w.m]])
BootstrapProcessed(w, o, b) ==
  IF o = "ok" THEN AfterBootstrap([w EXCEPT !.boot = b], cdRef[NsOf[w.m]])
              ELSE Retry(w)

\* processBootstrapDataSecret creates or overwrites the token secret, then
\* Reconcile reads the AgentCluster.
ProcessBootstrapDataSecret(c) ==
  LET w == worker[c]
      b == w.mach.boot
  IN
  /\ At(c, "boot")
  /\ \E o \in Outcomes :
       /\ Outcome(o)
       /\ b = None => o = "ok"
       /\ tokens' = IF o = "error" THEN tokens ELSE tokens \union ({b} \ {None})
       /\ Become(c, BootstrapProcessed(w, o, b))
  /\ UNCHANGED <<amVars, machineVars, agentVars, cdRef, queueVars>>

\* Agents that carry the AgentMachine's name, as c lists them.
LabelNotLookedUp(c, m) == {}
LabelledAgents(c, m) ==
  {a \in Agents : listCache[c][a].exists /\ listCache[c][a].label = NameOf[m]}

\* Agents that match the selector, carry no AgentMachine's name and are valid.
SelectorIgnored(c, m) ==
  {a \in Agents : /\ listCache[c][a].exists
                  /\ listCache[c][a].label = None
                  /\ IsValidAgent(listCache[c][a])}
Candidates(c, m) ==
  {a \in Matches[m] : /\ listCache[c][a].exists
                      /\ listCache[c][a].label = None
                      /\ IsValidAgent(listCache[c][a])}

\* findAgent up to the first Update: an Agent that already carries the label is
\* taken as it is, else the candidates are listed.  List order is arbitrary.  If
\* a List fails, or the selector cannot be converted, the error ends up in a
\* condition and is not retried.
FindAgent(c) ==
  LET w == worker[c]
      cs == Candidates(c, w.m)
  IN
  /\ At(c, "find")
  /\ \/ /\ \E a \in LabelledAgents(c, w.m) : Become(c, Found(w, a))
        /\ UNCHANGED <<agentHeld, faults>>
     \/ /\ LabelledAgents(c, w.m) = {}
        /\ Become(c, IF cs = {} THEN UpdateStatus(w, FALSE)
                     ELSE [w EXCEPT !.pc = "claim", !.cand = cs])
        /\ agentHeld' = [agentHeld EXCEPT ![c] = cs \intersect listFresh[c]]
        /\ UNCHANGED faults
     \/ /\ Fault("apiError")
        /\ Become(c, UpdateStatus(w, TRUE))
        /\ UNCHANGED agentHeld
  /\ UNCHANGED <<amVars, machineVars, agent, agentCaches, clusterVars, queueVars>>

\* The Agent as AgentMachine m claims it.
ClaimedUnmapped(ag, m, b) ==
  [ag EXCEPT !.label = NameOf[m], !.cd = NsOf[m], !.boot = b]
Claimed(ag, m, b) ==
  [ag EXCEPT !.label = NameOf[m], !.namespace = NsOf[m], !.cd = NsOf[m], !.boot = b]

\* updateFoundAgent on one of the candidates; on an error the others are tried.
UpdateFoundAgent(c) ==
  LET w == worker[c] IN
  /\ At(c, "claim")
  /\ \E a \in w.cand :
       LET rest == [w EXCEPT !.cand = @ \ {a}] IN
       CallAgent(c, a, Claimed(agent[a], w.m, w.boot), Latest(c, a), Found(w, a),
                 IF rest.cand = {} THEN UpdateStatus(rest, FALSE) ELSE rest)

\* Only bootstrap data that is there is compared with the Agent's (DeepDerivative).
NeedsUpdateOnce(w, ag) == w.boot # None /\ ag.boot = None
NeedsUpdate(w, ag) == w.boot # None /\ ag.boot # w.boot

UpdateAgentIfNeeded(c) ==
  LET w == worker[c]
      ag == agent[w.obj.ref]
  IN
  /\ At(c, "sync")
  /\ ReadAgent(c, w.obj.ref,
               IF ag.exists /\ NeedsUpdate(w, ag)
                 THEN [w EXCEPT !.pc = "syncUpdate"]
                 ELSE UpdateStatus(w, ~ag.exists),
               UpdateStatus(w, TRUE))

\* The Update of updateAgentIfNeeded; an error ends up in updateStatus as well.
UpdateBootstrapData(c) ==
  LET w == worker[c]
      a == w.obj.ref
  IN
  /\ At(c, "syncUpdate")
  /\ CallAgent(c, a, [agent[a] EXCEPT !.boot = w.boot], Latest(c, a),
               UpdateStatus(w, FALSE), UpdateStatus(w, TRUE))

\* updateStatus reads the Agent; if it carries the right label its conditions
\* are mirrored at once.
UpdateStatusGet(c) ==
  LET w == worker[c]
      ag == agent[w.obj.ref]
  IN
  /\ At(c, "status")
  /\ \E met \in OtherConditions(ag) :
       ReadAgent(c, w.obj.ref,
                 IF ~ag.exists THEN Retry(w)
                 ELSE IF ag.label = NameOf[w.m] THEN MirrorConditions(w, ag, met)
                 ELSE [w EXCEPT !.pc = "label"],
                 Retry(w))

\* ensureAgentLabeled: a merge patch of the label, whatever the Agent's version.
EnsureAgentLabeled(c) ==
  LET w == worker[c]
      a == w.obj.ref
  IN
  /\ At(c, "label")
  /\ \E met \in OtherConditions(agent[a]) :
       CallAgent(c, a, [agent[a] EXCEPT !.label = NameOf[w.m]], agent[a].exists,
                 MirrorConditions(w, agent[a], met), Retry(w))

\* The deferred patchHelper.Patch: conditions, then spec and metadata, then
\* status.  A call without a difference is not made; an error of one does not
\* stop the others, and none reaches the result of Reconcile.
PatchConditions(c) ==
  LET w == worker[c] IN
  /\ At(c, "patchConds")
  /\ CallPatch(c, w.obj.conds # w.before.conds, am[w.m].st # "gone",
               [am[w.m] EXCEPT !.conds = w.obj.conds], "patchSpec")

\* An object under deletion takes no finalizer that it does not have.
PatchSpec(c) ==
  LET w == worker[c]
      s == am[w.m]
      added == w.obj.fin /\ ~w.before.fin
      refused == s.st = "gone" \/ (s.st = "deleting" /\ added /\ ~s.fin)
  IN
  /\ At(c, "patchSpec")
  /\ CallPatch(c, SpecChanged(w), ~refused,
               Collect(MergeSpec(s, w.obj, w.before)), "patchStatus")

PatchStatus(c) ==
  LET w == worker[c] IN
  /\ At(c, "patchStatus")
  /\ CallPatch(c, StatusChanged(w), am[w.m].st # "gone",
               MergeStatus(am[w.m], w.obj, w.before), "done")

\* The result of Reconcile reaches the work queue.
Finish(c) ==
  LET w == worker[c] IN
  /\ At(c, "done")
  /\ delayed' = IF w.again THEN delayed \union {w.m} ELSE delayed
  /\ Become(c, IdleWorker)
  /\ agentHeld' = [agentHeld EXCEPT ![c] = {}]
  /\ machineHeld' = machineHeld \ {w.m}
  /\ UNCHANGED <<amVars, machine, machineCache, machineFresh, agent, agentCaches,
                 clusterVars, queue, faults>>

ReconcileStep(c) ==
  \/ AddHook(c) \/ UnbindGet(c) \/ Unbind(c) \/ RemoveHook(c)
  \/ ProcessBootstrapDataSecret(c) \/ FindAgent(c) \/ UpdateFoundAgent(c)
  \/ UpdateAgentIfNeeded(c) \/ UpdateBootstrapData(c)
  \/ UpdateStatusGet(c) \/ EnsureAgentLabeled(c)
  \/ PatchConditions(c) \/ PatchSpec(c) \/ PatchStatus(c) \/ Finish(c)

-----------------------------------------------------------------------------
(* Watches: a change reaches a cache, and the map functions fill the queue. *)
(* A delivery may stand for several changes in a row.                       *)

DeliverAgentMachine(m) ==
  /\ amCache[m] # am[m]
  /\ amCache' = [amCache EXCEPT ![m] = am[m]]
  /\ queue' = queue \union {m}
  /\ UNCHANGED <<am, machineVars, agentVars, clusterVars, delayed, worker, faults>>

MapMachineToAgentMachine(m) ==
  IF amCache[m].st # "gone" /\ amCache[m].owner THEN {m} ELSE {}

DeliverMachine(m) ==
  /\ m \notin machineFresh
  /\ machineCache' = [machineCache EXCEPT ![m] = machine[m]]
  /\ machineFresh' = machineFresh \union {m}
  /\ queue' = queue \union MapMachineToAgentMachine(m)
  /\ UNCHANGED <<amVars, machine, machineHeld, agentVars, clusterVars, delayed,
                 worker, faults>>

\* The possible results of mapAgentToAgentMachine for version x of Agent a, when
\* the cache holds version new: a mapped Agent wakes one AgentMachine that refers
\* to it, a free and valid one every AgentMachine without an Agent.
FreeAgentsWakeNobody(c, a, x, new) ==
  {{m \in Watched(c) : NsOf[m] = x.namespace /\ amCache[m].ref = a}}
MapAgentToAgentMachine(c, a, x, new) ==
  LET cached == {m \in Watched(c) : amCache[m].st # "gone"}
      owners == {m \in cached : NsOf[m] = x.namespace /\ amCache[m].ref = a}
  IN IF ~x.exists THEN {{}}
     ELSE IF x.namespace # None
       THEN IF owners = {} THEN {{}} ELSE {{m} : m \in owners}
     ELSE IF new.exists /\ IsValidAgent(new)
       THEN {{m \in cached : amCache[m].ref = None}}
     ELSE {{}}

\* The cache c lists Agents from is brought up to date for Agent a.
Relist(c, a) ==
  /\ listCache' = [listCache EXCEPT ![c][a] = agent[a]]
  /\ listFresh' = [listFresh EXCEPT ![c] = @ \union {a}]

\* An update is mapped in its old and in its new version.  The events come from
\* the manager's cache; AgentClient lists from the same one, unless the process
\* was started with --agent-namespace and has a second manager for Agents.
DeliverAgent(c, a) ==
  /\ a \notin agentFresh[c]
  /\ agentCache' = [agentCache EXCEPT ![c][a] = agent[a]]
  /\ agentFresh' = [agentFresh EXCEPT ![c] = @ \union {a}]
  /\ \E old \in MapAgentToAgentMachine(c, a, agentCache[c][a], agent[a]),
        new \in MapAgentToAgentMachine(c, a, agent[a], agent[a]) :
       queue' = queue \union old \union new
  /\ IF "separateCache" \in Environment THEN UNCHANGED <<listCache, listFresh>>
                                         ELSE Relist(c, a)
  /\ UNCHANGED <<amVars, machineVars, agent, agentHeld, clusterVars, delayed,
                 worker, faults>>

\* The second manager's cache follows on its own and wakes nobody.
RefreshList(c, a) ==
  /\ "separateCache" \in Environment
  /\ a \notin listFresh[c]
  /\ Relist(c, a)
  /\ UNCHANGED <<amVars, machineVars, agent, agentHeld, agentCache, agentFresh,
                 clusterVars, queueVars, worker, faults>>

\* A delayed AgentMachine is due.
Requeue(m) ==
  /\ Prompt
  /\ m \in delayed
  /\ delayed' = delayed \ {m}
  /\ queue' = queue \union {m}
  /\ UNCHANGED <<amVars, machineVars, agentVars, clusterVars, worker, faults>>

\* The periodic resync of the informers.
Resync(m) ==
  /\ Prompt
  /\ "resync" \in Environment
  /\ amCache[m].st # "gone"
  /\ queue' = queue \union {m}
  /\ UNCHANGED <<amVars, machineVars, agentVars, clusterVars, delayed, worker,
                 faults>>

=============================================================================
