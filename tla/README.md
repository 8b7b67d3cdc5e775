# Verification of cluster-api-provider-agent

TLA+ models of the provider's controllers, TLC configurations that check them on
small instances, and TLAPS proofs that hold for instances of any size. Source
paths below are relative to the root of the repository.

## 1. The system

The provider runs on a *hub* cluster and adds hosts to other clusters. A host
that boots the discovery image shows up on the hub as an `Agent`. Cluster API
(CAPI) asks for a machine by creating a `Machine` with an `AgentMachine` as its
infrastructure object. The provider picks a free Agent, labels it, binds it to
the cluster's `ClusterDeployment`, and reports its progress. When the Machine is
deleted it gives the Agent back.

| Part | State it keeps | Operations | Talks to |
|---|---|---|---|
| AgentMachine reconciler (`controllers/agentmachine_controller.go`) | none of its own between calls: everything is in the AgentMachine (finalizer, `ProviderID`, `AgentRef`, `Ready`, conditions), in the Machine (pre-terminate hook annotation) and in the Agent (label, namespace annotation, `ClusterDeploymentName`, ignition token reference) | `Reconcile`, `handleDeletionHook`, `findAgent`, `updateFoundAgent`, `processBootstrapDataSecret`, `updateAgentIfNeeded`, `updateStatus`, `ensureAgentLabeled`, two map functions | API server, caches, work queue |
| AgentCluster reconciler (`controllers/agentcluster_controller.go`) | `Status.ClusterDeploymentRef`, `Ready`, finalizer; the ClusterDeployment and AgentClusterInstall it creates | find or create a ClusterDeployment, own it, create the AgentClusterInstall, orphan on pause, deletion | API server; the AgentMachine reconciler waits for `ClusterDeploymentRef` |
| NodeProviderID reconciler (`controllers/node_provider_id_controller.go`) | none; writes `ProviderID` of the Node in the target cluster | `Reconcile`, `setNodeProviderID` | reads ready AgentMachines; remote client |
| Remote client (`controllers/remote_client.go`) | none | `GetRemoteClient` from the `admin-kubeconfig` secret | hub, target cluster |
| Ignition endpoint (`controllers/ignition_endpoint.go`) | none, pure functions on URLs | `normalizeHTTPURL`, `ignitionEndpointURLForACI` | AgentCluster reconciler |
| Backup labels (`controllers/common.go`) | labels of AgentMachines, AgentClusters, secrets | `ensureBackupLabel`, `ensureSecretLabel` | all reconcilers |
| API types and conversion (`api/`) | the custom resources | generated | |
| Manager (`main.go`) | caches, queues, leader lease | start-up; which namespaces are watched; an optional second manager for Agents | controller-runtime |
| Surroundings | Machines, Agents, hosts | CAPI's Machine controller, assisted-service, users, backup and restore | API server |

### What is hard here

* Every decision is made on a **cached copy** and written later. Some writes carry
  the resourceVersion (`Update`), some do not (merge patches of the AgentMachine
  and of the Agent's label).
* A Reconcile call is a **sequence of calls** on three kinds of objects. It may
  stop after any of them: a crash, an error, an executed call whose answer is lost.
* The deferred `Patch` makes **up to three calls** (conditions, spec, status) that
  fail independently, and its error goes to a shadowed variable: `Reconcile`
  reports success.
* Several errors end in a condition instead of the result, so **nothing retries**:
  progress rests on watch events, and the map functions decide whom they wake.
* **Several providers**, one per hosted control plane namespace, compete for one
  pool of Agents. The Agent's label holds the AgentMachine's name only.
* Deletion is a **handshake** with CAPI (pre-terminate hook, finalizer, conditions
  in two API versions) that must neither leak an Agent nor stop half way.

### What makes each part correct

* AgentMachine reconciler: only free, valid and selected Agents are bound; an
  AgentMachine holds at most one Agent, the one it refers to; a ready AgentMachine
  has the provider ID of that Agent; the token secret exists before an Agent
  names it; bootstrap data reaches the Agent; AgentMachines become ready;
  deletion returns the Agent before the hook goes, and ends.
* AgentCluster reconciler: an AgentCluster becomes ready with a ClusterDeployment and
  an AgentClusterInstall of its own (labelling its secrets for the backup is an attempt, and
  nothing waits for it); a paused
  AgentCluster lets go of its ClusterDeployment before it is deleted; deletion ends.
* NodeProviderID reconciler: a Node gets a provider ID in the end, that of its own
  host's Agent, and never another one.
* Ignition endpoint: the URL that is stored can be read and leads to the host and port
  the user wrote; to prepare it again changes nothing.

## 2. Modules

| Module | Contents |
|---|---|
| `Disturbances` | what may fail, how often, and what a failed call leaves behind |
| `Hub` | constants with their assumptions, state, object types, calls to the API server and how they fail |
| `AgentMachineController` | the reconciler: operators for what it computes between two calls, one action per call, watches and map functions |
| `AgentPool` | the abstract specification: AgentMachines reserve Agents of a pool |
| `AgentMachineSystem` | the surroundings, `Next`, fairness, the refinement mapping to `AgentPool`, properties |
| `MCAgentMachine` | layouts (namespaces, names, processes, selectors) for TLC |
| `AgentMachineProofs` | its types, tokens, claims and bindings: theorems and lemmas |
| `ReservationProofs` | an AgentMachine holds one Agent at most; the Agent it refers to is its own |
| `PoolProofs` | the refinement of `AgentPool` |
| `ProviderIDProofs` | ready AgentMachines and their provider IDs |
| `HandoverProofs` | deletion of Machines: the hook outlives the reservation, no Agent is left behind |
| `AgentClusterController` | the AgentCluster reconciler, its caches and queue |
| `AgentClusterSystem` | users, control plane, garbage collection, `Next`, fairness, properties |
| `MCAgentCluster` | its instance for TLC |
| `AgentClusterProofs` | the theorems about it |
| `NodeProviderIDController` | the NodeProviderID reconciler and the remote client |
| `NodeProviderIDSystem` | both reconcilers of a process, kubelets and other writers of Nodes, fairness, properties |
| `MCNodeProviderID` | its instance for TLC, with the layouts of `MCAgentMachine` |
| `NodeProviderIDProofs` | the theorems about both reconcilers together |
| `IgnitionEndpoint` | the functions on URLs, the URLs to be rewritten, properties |
| `IgnitionProofs` | what the functions make of URLs of any length: lemmas and theorems |

Each module extends the one before it:

* `Disturbances` <- `Hub` <- `AgentMachineController` <- `AgentMachineSystem` <- `MCAgentMachine`;
* `AgentMachineSystem` <- `NodeProviderIDController` <- `NodeProviderIDSystem` <- `MCNodeProviderID`;
* `Disturbances` <- `AgentClusterController` <- `AgentClusterSystem` <- `MCAgentCluster`;
* `AgentMachineSystem` <- `AgentMachineProofs` <- `ReservationProofs` <- `PoolProofs` and `ProviderIDProofs` <- `HandoverProofs`;
* `NodeProviderIDSystem` and `ProviderIDProofs` <- `NodeProviderIDProofs`;
* `AgentClusterSystem` <- `AgentClusterProofs`;
* `IgnitionEndpoint` <- `IgnitionProofs`.

`AgentMachineSystem` instantiates `AgentPool`. The AgentMachine modules see the AgentCluster reconciler as one action,
`ClusterProgress`: the reference to the ClusterDeployment appears.

### How the model corresponds to the code

**Objects.** `am[m]` is an AgentMachine and `machine[m]` the Machine that owns it;
`st` tells whether `DeletionTimestamp` is set and whether the object is there.
`agent[a]` is an Agent; `boot` stands for the three things that are written
together (machine config pool, token reference, ignition headers). The host is
`ok` when it is approved, connected and its validations pass; `state` is what the
`Bound` condition and the debug state show. Provider ID, `AgentRef` and addresses
are all derived from the Agent, so each is an Agent or `None`. Messages, reasons and
text of conditions are left out: `conds` tells apart the sets of conditions that
the code can leave behind. `Ready` asks for `SpecSynced`, `Validated` and
`RequirementsMet` besides `Installed`: an Agent that is `ok` has the first three, another
one may have them or not (`OtherConditions`). A bootstrap secret stands for the token
parsed from its ignition config, and `tokens` holds those whose `agent-<name>` secret was
created.

**resourceVersion.** Nothing in the code computes with it; it only decides whether
an `Update` is accepted. So the model has sets instead of numbers: `agentFresh[c]`
and `machineFresh` (cached copies that are the latest) and `agentHeld[c]` and
`machineHeld` (copies in the hands of a Reconcile that are). Each write removes the
object from these sets. This needs no bound on versions.

**Reconcile** is cut at its calls to the API server, where other processes can
interleave. `worker[c]` has the local variables: the copy being worked on, the copy
`patch.NewHelper` keeps, the Machine as read, the candidates left, the bootstrap
data. `Begin`, `HandleDeletionHook`, `UpdateStatus`... compute where it goes next,
with the code's early returns, and each action performs one call with its outcomes.
`Return` leads to the deferred `Patch`, three actions, then `Finish` gives the
result to the queue. controller-runtime runs one Reconcile per controller at a time
(`MaxConcurrentReconciles` is not set), hence one worker per process.

**Calls** end with an answer, an error, or an error although they were executed
(`"apiError"`, `"lostReply"`). Without `"stale"` in `Environment` the caches are
prompt: a change is delivered before anything else happens. Copies that a Reconcile
call has already read age nevertheless, so conflicts occur in every run.

**Watches.** `DeliverX` updates a cache and puts into the queue what the map
function returns, for the old and the new version of an object. A delivery may
stand for several changes.

**Two caches of Agents.** `agentCache` is the manager's, whose events wake the
reconciler. `AgentClient` lists from `listCache`: the same cache, unless the process was
started with `--agent-namespace` and has a second manager (`main.go:109-135`). With
`"separateCache"` in `Environment` the second one follows on its own (`RefreshList`) and
wakes nobody; without it both are updated by one event.

**The pool.** `AgentPool` says what all the calls are for: an Agent is reserved for an
AgentMachine that has none, the reservation is recorded in the AgentMachine, records may
be lost all at once, and a reservation ends when its AgentMachine is leaving or the Agent
vanishes. The mapping: an Agent's holder is the AgentMachine named by its label *and*
namespace annotation, a record is `AgentRef`, and an AgentMachine is leaving when it or
its Machine is under deletion or gone. `FairSpec` adds that records catch up with
reservations. Label, annotation and `AgentRef` are written by several calls to different
objects; the refinement says that no interleaving of them shows.

**NodeProviderID reconciler.** A queue and a worker of its own in each process (a delayed
AgentMachine is in the queue, since nothing but the reconciler looks at it), and the
AgentMachines of the shared cache (`Progress /\ NodeWatch`: every change that reaches the
cache queues the AgentMachine here, too; a crash restarts both). The Node of a host is
`node[n][a]`, for its name is the InternalDNS address recorded with `AgentRef`. Nodes
register and are removed as hosts join and leave; others write them between the `Get` and
the `Update`, which makes the `Update` fail. A nil `ProviderID` is dereferenced: the panic
is recovered from by controller-runtime and is an error like others.

**Ignition endpoint.** A URL is the sequence of its tokens. What the code does depends on
separators and on what a word may stand for: a port (`31187`), a group of an IPv6 address
(`fd2e`), either (`14`), or neither (`host`). `net.ParseIP`, `url.Parse` (of Go 1.26, which
takes the first colon of a host for the beginning of its port) and `URL.String` are
modelled on these tokens. `Init` takes all hosts and ports of up to seven tokens, with and
without scheme, path and query (some with a colon), hosts in brackets, IPv4 addresses, and
IPv6 addresses around the limit of eight groups.

**AgentCluster reconciler.** The same way of cutting Reconcile at its calls. It makes
Creates and merge patches only, so no resourceVersions are needed. A ClusterDeployment
has the index of the AgentCluster it was made for; `owned` tells whether the owner
reference is there. The label is looked up in all namespaces and ownership is compared
by name, as in the code. What it reads of the Cluster and of the control plane is one
bit (`plane`). Its caches are read at the beginning of the action they lead to. One
process reconciles all AgentClusters. A new AgentCluster of an old name is created only
after the garbage of its predecessor is gone and no Reconcile of it is running.

**Surroundings** are modelled from what the reconciler reads and waits for and are
marked external in the map. `Environment` selects what may happen in an instance;
failures and interventions are counted in `faults` and bounded by `MaxFaults`.

## 3. Runs

Bounds: at most two AgentMachines, two Agents, two namespaces, two processes and
two bootstrap secrets. Two of each is what the conflicts need: two claimants, an
Agent to choose wrongly, an old and a new value. `MaxFaults` bounds crashes,
errors and interventions, not the steps of the reconciler, so every run explores
complete lives of its objects. AgentClusters share only the worker and the label
lookup, so `cluster` has one of them and more faults instead. Deadlock is not
checked: a hub on which all the work is done has nothing left to do.

| Run | Instance | Checks |
|---|---|---|
| `bind` | two processes and namespaces, two AgentMachines (one with a selector), two Agents, one crash | `TypeOK`, `ReservationHolds`, `OneAgentPerMachine`, `ReadyHasProviderID`, `ClaimsOnlyFreeAgents`, `NeverRetargeted`, `ImplementsPool` |
| `disturbed` | one AgentMachine, one Agent, any one of all disturbances but stale caches, with deletions of everything | `TokenBeforeReference`, `ImplementsPool` |
| `ready` | two AgentMachines, two Agents, one flap of validity or one crash; no resync | `EventuallyReady`, `ImplementsFairPool` |
| `recovery` | one AgentMachine, two Agents, two bootstrap secrets, two of: crash, restore, rotation, flap; the AgentCluster comes late | `OneAgentPerMachine`, `ReadyHasProviderID`, `BootstrapDataArrives`, `ImplementsPool` |
| `deletion` | v1beta1 conditions, a separate cache to list Agents from; deletion at any time, one of: crash, API error, deleted Agent, flap; periodic resync | `DeletionCompletes`, `ReadyInTheEnd` |
| `handover` | two AgentMachines, one Agent, deletions, v1beta2 conditions | `NoLeakedAgent`, `HookOutlivesReservation` |
| `cluster` | one AgentCluster, five of: crash, restore, lost answer, pause, deletion, new creation; resyncs, on which no progress rests | `ClusterTypeOK`, `ReadyIsBacked`, `PausedDeletionOrphans`, `ClusterBecomesReady`, `ClusterDeletionCompletes` |
| `node` | one AgentMachine, two Agents and their Nodes, two of: crash, deleted Agent, remote error, write of a Node, foreign provider ID; resyncs, on which no progress rests | `NodeTypeOK`, `NodeOfItsAgent`, `NodeNamedOnce`, `NodeGetsProviderID` |
| `ignition` | 59 000 URLs: hosts and ports of up to seven tokens, up to four between brackets | `LiteralEndpointKept`, `ReadableEndpointKept`, `OnlyLiteralsBecomeReadable`, `StoredForGood` |

`node` needs two Agents because the interesting case is a second claim after the first
Agent was deleted: provider ID and address must both be the new Agent's. Two faults let a
deletion and a crash, or two writers, meet.

Each passing property has a mutant of the code that breaks it (a dropped lock, a
label that is not looked up, a provider ID that is not set, an event that wakes
nobody...), listed in `PROJECT.json`.

### Disagreements between code and documentation

Each of these runs ends with a counterexample. `PROJECT.json` quotes the line of
the code, comment or document that the behaviour contradicts.

| Run | What happens |
|---|---|
| `stolen_agent` | A Machine under deletion has returned its Agent, and the host waits for nobody: another AgentMachine claims it. The deletion is reconciled again, finds *a* label and *a* ClusterDeployment on the Agent of its `AgentRef` (line 339) and strips both from the new owner. |
| `stuck_finalizer` | With v1beta2 conditions, a Reconcile whose cached copy of the Machine lags adds the finalizer again (line 269) after hook and finalizer have been removed. The branch that would remove it (line 299) looks at a v1beta1 condition only. |
| `dangling_ref` | `ClusterDeploymentRef` is set before `Create`. `Create` fails, the deferred patch records the reference, and from then on Reconcile fails on a ClusterDeployment that does not exist. |

The passing runs are set up so that these cases do not occur: e.g. `deletion` uses
v1beta1 conditions because of `stuck_finalizer`. More was met on the way that has
no run of its own:

* `AgentRef` and labels are read from caches. When both lag behind the reconciler's own
  writes, it claims a second Agent (`OneAgentPerMachine` fails with `"stale"`, or
  when the status patch fails and the Agents are listed from a separate cache, with
  `"separateCache"`, `"apiError"` and two Agents), although the comment at
  `controllers/agentmachine_controller.go:466` describes a lookup made to prevent that.
* The spec patch fails, the status patch succeeds: `AgentRef` is set and `ProviderID` is
  never written again (`ReadyHasProviderID` fails with `"apiError"`). The NodeProviderID
  reconciler then panics on every retry.
* `normalizeHTTPURL` takes whatever follows the last colon for a port, although it should
  "only rewrite when ... a port is present" (`ignition_endpoint.go:64`): the address of
  `https://fd2e::14:fd2e`, which has none, becomes `[fd2e::14]:fd2e`, which `url.Parse`
  refuses, and `https://fd2e::14:?x` gets brackets and an empty port. In `https://fd2e::14:14`
  the last group is a number and the result can be read, as `[fd2e::14]:14`; there nothing
  tells a group from a port, and `OnlyLiteralsBecomeReadable` says no more than that it is
  one of the two readings.
* `ignitionEndpointURLForACI` "strips a trailing path segment"
  (`ignition_endpoint.go:72-73`); the code drops the whole path. (A version that strips only
  the last segment is the mutant of `StoredForGood`.)
* `isValidAgent` wants an Agent that "is not bound to a ClusterDeployment"
  (`agentmachine_controller.go:604-605`) but looks at the `Bound` condition only. So
  `ClaimsOnlyFreeAgents` asks for no more than that condition; see the point on Agents bound
  by hand below.
* The same function looks for that colon up to the first slash, so it finds one in the
  query of a URL without a path: `https://fd2e::14:31187?x:1` is passed on without
  brackets, and nobody can read it (`LiteralEndpointKept` fails without its last premise).
* Without resync, an Agent that becomes free may be listed too late from the separate
  cache, and an error of `findAgent` is not retried: the AgentMachine waits for the next
  event (`ReadyInTheEnd` fails without `"resync"`).
* Two AgentMachines of one name in different namespaces: the lookup by label knows no
  namespace, so one takes over the Agent of the other (`ReservationHolds` fails). Two
  AgentClusters of one name share a ClusterDeployment in the same way (`ReadyIsBacked`).
* A crash after a claim, then a deletion: `AgentRef` is empty, so the hook is removed
  and the labelled Agent stays behind (`NoLeakedAgent` fails with `"crash"`). Likewise a
  ClusterDeployment that was created but not recorded is not orphaned, which is why
  `PausedDeletionOrphans` speaks of recorded ones; a test says so too
  (`controllers/agentcluster_controller_test.go:378-379`).
* A secret that is missing, or changed between `Get` and `Update`, is logged and left without
  its backup label (`agentcluster_controller.go:464-472`), and the label is tried again only if
  the ClusterDeployment or AgentClusterInstall is to be created again. So a ready AgentCluster
  may have secrets that a backup leaves out.
* With lagging caches a paused AgentCluster may go without orphaning, as its owner
  reference is not seen yet (`PausedDeletionOrphans` fails with `"stale"`).
* An Agent bound by hand can be bound again before the service sets its `Bound`
  condition (`NeverRetargeted` fails with `"manualBind"`).
* A status patch that fails after a claim leaves the claim unrecorded until some event
  or the resync comes, for the error is dropped.
* `DeletionCompletes` fails in the instance of `handover`: an Agent that one
  AgentMachine strips from another can keep both deletions waiting.

### Fairness

`FairSpec` assumes weak fairness of the steps of a running Reconcile, of deliveries,
timers and resyncs: they are goroutines of a running process. `Reconcile(c, m)` is
strongly fair: the work queue is first in first out, so an AgentMachine in the queue
is taken even though the worker is busy with others now and then. CAPI's progress,
the AgentCluster's and that of hosts (validation, installation, return to discovery)
are weakly fair, since the properties are about what the provider contributes. In
`ProviderFairSpec`, used by `recovery`, hosts may stall: else every AgentMachine would
become ready and `BootstrapDataArrives` would say nothing. The AgentCluster's `FairSpec`
follows the same pattern, with control plane and garbage collection weakly fair, but resyncs
are not: they may happen, and what the reconciler waits for must be noticed without them, by
`RequeueAfter` (the mutant of `ClusterBecomesReady` drops it).
In `NodeFairSpec` the second reconciler is treated like the first, control planes publish
their kubeconfig and the kubelets of hosts that are being installed register; removal of
Nodes is not fair, and neither is the resync of this reconciler. Progress of the provider is stated for the whole state, both
reconcilers' variables included.
Users, failures and loss of validity are not fair, and faults are finitely many.

## 4. Proofs

Assumptions on the constants, evaluated by TLC in every run of the module: in `Hub` they
have their types (`ConstantTypes`), names are unique in a namespace
(`NamesAreUniqueInANamespace`), `None` and `Foreign` are no values (`NoneIsNoValue`); in
`AgentClusterController` they have their types (`ClusterConstantTypes`); in
`IgnitionEndpoint` the bounds are numbers (`BoundTypes`). No set need be
finite, and any number of processes, objects and faults is covered. Whatever else a
theorem needs is a hypothesis of its own, written out in its statement.

| Theorem | Hypotheses | States | Inductive invariant and why it is needed |
|---|---|---|---|
| `TypeCorrect` | none | `[]TypeOK` | `TypeInv` adds `WorkerHasMachine`: `TypeOK` alone is not inductive, for an action dereferences `worker[c].m` and, at some places, `AgentRef`. One lemma per operator on workers (`...Follows`), one per kind of call, then one step per action. |
| `TokensFirst` | none | `[]TokenBeforeReference` | `TokenInv` adds `WorkerTokens`: the bootstrap data held by a running Reconcile has its token already. Tokens are never removed, and Agents get their data from workers only (`AgentWrites`). |
| `ClaimsSafe` | none | `ClaimsOnlyFreeAgents` | `ClaimInv`: a cached copy that is the latest equals the object (`FreshIsCurrent`), and a candidate whose copy is the latest is selected, unlabelled and valid in the API server (`CandidatesAreFree`). |
| `BoundStaysBound` | no manual binding | `NeverRetargeted` | `BoundIsLabelled`: claims and releases change label and binding at once, so a claim meets unlabelled, hence unbound Agents. |
| `OneAgentEach` | unique names; no stale or separate cache, no lost answer | `[]OneAgentPerMachine` | `OneInv`: a name is on one Agent (`LabelledOnce`), and whoever is about to claim knows of it. `RecordsCover` and `CallsCover` say that the `AgentRef` of the AgentMachine, and of the copy a Reconcile works on, is empty or that of the only Agent with the name; at `"claim"` no Agent has it. `CallsAgree` relates the copy to the object it will be patched into. |
| `ReferencesAreOwn` | unique names; `DeletionsDoNotMeet`; no deletion of Agents | `[]ReservationHolds` | `ResInv`: labels come with annotation and binding (`LabelsMap`), in the listed copies too (`ListedLabels`), and every `AgentRef`, recorded or about to be, is of an Agent with the name (`RecordsCarry`, `CallsCarry`), as long as the Machine is there to stay (`Staying`). `SelInv` says why a deletion takes nothing from others: names are found, and references made, within the selector of the AgentMachine only. Caches may be stale and calls may fail. |
| `ReconcilerImplementsPool` | those of `OneAgentEach`; `DeletionsDoNotMeet` | `ImplementsPool` | `PoolInv`: the invariants of the two theorems above, and three more parts for deletions, where `ResInv` promises nothing. An Agent with a namespace annotation has a label (`MappedIsLabelled`). One that `ensureAgentLabeled` has named again after its return is still the one recorded (`NamedAgain`), so it is not recorded anew without being reserved; the pool does not see the name, since the annotation is missing. And a call that refers to an Agent not recorded yet holds it and is past `handleDeletionHook` (`CallsReserve`). Each kind of step is shown to be one action of `AgentPool` under the refinement mapping, or to leave the mapped variables alone: claims reserve, patches of the status record, and the Update of `handleDeletionHook` releases what its own AgentMachine holds, if anything. |
| `ReadyIsNamed` | no failed calls, no stale cache | `[]ReadyHasProviderID` | `RecordInv`: an `AgentRef` comes with its provider ID, and a Reconcile that is to patch the status has patched the spec. |
| `HookOutlives` | `Undisturbed`: unique names; no failed calls, no stale cache, no crash, restore or pause | `HookOutlivesReservation` | `HookInv`: the name of an AgentMachine is on no Agent but the one its running Reconcile refers to (`CallsHold`), or, when none is running, its record (`RecordsHold`). So a claim is in the hands of a call until it is recorded, and whoever is about to remove the hook has no reference or has seen the Agent unlabelled (`HooksFree`). |
| `NoneLeaked` | those of `HookOutlives`; `Patient`: no deletion before the hook is in place, no forced removal | `[]NoLeakedAgent` | `LeakInv` adds three relations. A Machine past its hook has no Agent (`PairsOK`), except where the finalizer came back for good (`stuck_finalizer`): then the AgentMachine stays, and with it the Machine. A Reconcile on its way to a label has a Machine that still has its hook, and one that removes the finalizer has no Agent (`CallsFit`). Both rest on cached Machines being the latest (`MachinesCurrent`). |
| `NodeTypes` | none | `[]NodeTypeOK` | `NodeInv` (see below) with `TypeInv` of the other reconciler. |
| `NamedOnce` | none | `NodeNamedOnce` | `NodeInv`: while the copy of a Node in hand is the latest, the Node exists without provider ID (`NodeCalls`); a Node that is not there has none (`AbsentUnnamed`). |
| `NodeIsOfItsAgent` | no failed calls, no stale cache | `[]NodeOfItsAgent` | `HostInv`: `NodeInv`, `RecordInv`, and a running Reconcile read the provider ID and the address of one and the same Agent (`CallsOwn`). |
| `ClusterTypes` | none | `[]ClusterTypeOK` | `TypeInv` adds `WorkerOK`: where the code dereferences `ClusterDeploymentRef` it is set. |
| `PausedOrphans` | no stale cache | `PausedDeletionOrphans` | `OrphanInv`: the copy in hand is that of the cache as far as nobody else writes it (`CallCurrent`, `HeldTogether`), and a Reconcile on its way to remove the finalizer of a paused AgentCluster has orphaned the ClusterDeployment it refers to (`OrphansFirst`). |
| `ReadyHasAll` | unique names; no stale cache | `[]ReadyIsBacked` | `BackedInv`: an AgentCluster refers to its own ClusterDeployment (`OwnRefs`), and each place in Reconcile implies what has been built before it (`CallIsBuilt`). |
| `LiteralsAreKept` | none | `[]LiteralEndpointKept` | `Progress`: the URL is what the functions make of the one given, which is a sequence of tokens of any length. The rest is about the functions. A URL is cut before its first `?`, and before the first `/` of what is left, in one way only (`SplitsAt`); host, port and the rest of an endpoint in this form are taken apart by `normalizeHTTPURL` as they were put together (`LiteralNormalizes`), and by `url.Parse` once there are brackets (`HostIsRead`, `BracketsAreValid`), but not before (`BareHostIsInvalid`). |
| `ReadablesAreKept` | none | `[]ReadableEndpointKept` | `Progress`, and `Reparse`: `url.Parse` reads back what `URL.String` writes, for URLs without a path. |
| `OnlyLiteralsRead` | none | `[]OnlyLiteralsBecomeReadable` | `Progress`, `NormalForm`: what `normalizeHTTPURL` changes, and how; `SchemeBefore`: if what follows the first `://` decides whether a URL can be read, only a scheme comes before it; `PortFollowsName`: what `net/url` takes for a port behind brackets it takes for one behind a name. |
| `StoredIsFinal` | none | `[]StoredForGood` | `Progress`, `Reparse`, and `NormalizesOnce`: a bracket after the first `://` stops `normalizeHTTPURL`. |

Positions in a URL are the least or greatest element of a set. That there is one follows
from the well-foundedness of the natural numbers, by contradiction (`HasMin`, `HasMax`), so
that nothing about URLs needs induction.

Each inductive invariant was checked by TLC on small instances before it was proved; those
of `ReferencesAreOwn` and `ReconcilerImplementsPool` with two AgentMachines, an Agent for
each to select, and deletions at any time, too (1 million states). The
hypotheses are there because the property is false without them: for each TLC finds a
counterexample, sometimes together with another disturbance (a separate cache with failed
calls, failed calls with deleted Agents for `NodeOfItsAgent`):

* *unique names* (`UniqueNames`, `UniqueClusterNames`: no name is used in two namespaces).
  The label that says whose an Agent or a ClusterDeployment is carries no namespace.
* *no stale cache*, *no separate cache*: a claim, a reference or an owner that the caches
  do not show yet is not seen, and made, or missed, again.
* *no lost answer*: an executed claim that is answered by an error makes `findAgent` go on
  with the next candidate.
* *no failed calls*: a failed patch of the spec does not stop the patch of the status.
* *deletions do not meet* (`DeletionsDoNotMeet`: no Machine is deleted, or no Agent is
  selected by two AgentMachines): `handleDeletionHook` strips an Agent labelled for anyone
  (`stolen_agent`). With the code as it is, a user who deletes Machines keeps
  reservations safe by giving the AgentMachines selectors that do not overlap.
* *no deletion of Agents*: a deleted Agent stays referred to; this is as the code wants it.
* *no manual binding*: see section 3.
* *no crash*, *no restore*: the deletion of a Machine looks at `AgentRef` only, so an Agent
  whose claim is not recorded any more, or not yet, is left behind.
* *no pause*: the deletion of a paused AgentMachine keeps the Agent; this is as the code
  wants it.
* *no deletion before the hook is in place*, *no forced removal*: nothing makes the Machine
  wait for its Agent.

For `HookOutlives` and `NoneLeaked` TLC finds a counterexample for each hypothesis alone,
in instances with one AgentMachine and one Agent that also delete Machines and
AgentMachines. Unique names take four AgentMachines and simulation: one that shares its
name with the first, in another namespace, puts the name back on an Agent that has been
claimed in the first one's namespace, and `ensureAgentLabeled` leaves the annotation as it is.

Rotations, flaps, late owners and clusters and resyncs are ruled out nowhere; crashes,
restores of the hub, pauses, early deletions and forced removals by these two theorems only.

Only model-checked:

* Liveness: `EventuallyReady`, `ReadyInTheEnd`, `BootstrapDataArrives`,
  `DeletionCompletes`, `ImplementsFairPool`, `ClusterBecomesReady`,
  `ClusterDeletionCompletes`, `NodeGetsProviderID`. Fairness and `ENABLED` are out of the
  prover's reach.

## 5. Not modelled

* Renamed hosts: addresses are copied from the Agent once, when it is claimed. Nodes that
  are deleted and register again while their host stays: nothing looks at them until the
  AgentMachine changes or is resynced.
* In URLs: fragments, user names, percent encoding, zones, IPv6 addresses with an IPv4 part.
* The backup labels of bootstrap and kubeconfig secrets: nothing reads them, and errors
  in setting them are ignored. Those of an AgentCluster's secrets are in the model (any of
  them may fail), but no property speaks of them.
* Leader election and back-off times.
* Contents of conditions, addresses, parsing of ignition configs, logging, metrics.
* Errors of reading the owner Machine, the bootstrap secret or the AgentCluster: they
  return from Reconcile like the errors that are modelled.
* Generated code (deepcopy, conversion), flags, metrics and health checks.

## 6. What is left

Every invariant, every action property and the safety part of the refinement is a theorem,
under the hypotheses of section 4. To do without two of these the code would have to change
first: `handleDeletionHook` does not look at whose name an Agent has (*deletions do not
meet*), and it does not look Agents up by label as `findAgent` does (*no crash*, *no
restore*). Should it do so one day, `stolen_agent` becomes a passing run and the theorems can
be stated without them.
