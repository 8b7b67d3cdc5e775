------------------------ MODULE AgentClusterController ------------------------
(***************************************************************************)
(* The AgentCluster reconciler (controllers/agentcluster_controller.go):   *)
(* how a provider process gives an AgentCluster its ClusterDeployment and  *)
(* AgentClusterInstall, and lets go of them when it is paused or deleted.  *)
(*                                                                         *)
(* Each AgentCluster has a namespace of its own, and the ClusterDeployment *)
(* made for it has its name and namespace: both have the same index.  As   *)
(* in AgentMachineController, a Reconcile call is cut at its calls to the  *)
(* API server.  Its writes are merge patches and Creates, none of which    *)
(* depends on a resourceVersion.                                           *)
(***************************************************************************)
EXTENDS Disturbances

CONSTANTS
  AgentClusters,  \* AgentClusters, each in a namespace of its own
  Names,          \* names of AgentClusters: what is written in the label
  NameOf,         \* name of an AgentCluster; names repeat across namespaces
  None            \* no value

ClusterEnvironmentKinds == {"stale", "crash", "restore", "apiError",
  "lostReply", "resync", "pause", "delete", "earlyDelete", "recreate"}

ASSUME ClusterConstantTypes ==
  /\ NameOf \in [AgentClusters -> Names]
  /\ Environment \subseteq ClusterEnvironmentKinds
  /\ MaxFaults \in Nat
  /\ None \notin AgentClusters \union Names

VARIABLES
  cluster,      \* AgentClusters in the API server
  plane,        \* AgentClusters whose Cluster and control plane are complete
  deployment,   \* ClusterDeployments
  install,      \* AgentClusterInstalls that exist
  secrets,      \* secrets that carry the backup label
  clusterCache, deploymentCache, installCache,  \* informer caches
  queue,        \* AgentClusters waiting to be reconciled
  delayed,      \* AgentClusters queued after a delay
  worker        \* the Reconcile call

objects == <<plane, deployment, install, secrets>>
caches == <<clusterCache, deploymentCache, installCache>>
queues == <<queue, delayed>>
vars == <<cluster, objects, caches, queues, worker, faults>>

-----------------------------------------------------------------------------
(* Objects *)

RefOrNone == AgentClusters \union {None}

ClusterObj ==
  [st : {"live", "deleting", "gone"}, paused : BOOLEAN, fin : BOOLEAN,
   backup : BOOLEAN,
   endpoint : BOOLEAN,       \* Spec.ControlPlaneEndpoint is valid
   ref : RefOrNone,          \* Status.ClusterDeploymentRef
   ready : BOOLEAN]

DeploymentObj ==
  [exists : BOOLEAN, label : Names \union {None},
   owned : BOOLEAN]          \* OwnerReferences names its AgentCluster

\* Secrets of the control plane, and the CA of the ignition endpoint.
SecretKinds == {"controlPlane", "ca"}

ClusterPcs == {"idle", "orphan", "find", "plane", "labelSecrets", "create", "own",
               "labelCa", "install", "patchSpec", "patchStatus", "done"}

ClusterWorker ==
  [pc : ClusterPcs, k : RefOrNone, obj : ClusterObj, before : ClusterObj,
   again : BOOLEAN]

NewCluster ==
  [st |-> "live", paused |-> FALSE, fin |-> FALSE, backup |-> FALSE,
   endpoint |-> FALSE, ref |-> None, ready |-> FALSE]

GoneCluster == [NewCluster EXCEPT !.st = "gone"]

NoDeployment == [exists |-> FALSE, label |-> None, owned |-> FALSE]

IdleWorker ==
  [pc |-> "idle", k |-> None, obj |-> GoneCluster, before |-> GoneCluster,
   again |-> FALSE]

Init ==
  /\ cluster = [k \in AgentClusters |-> NewCluster]
  /\ plane = {}
  /\ deployment = [k \in AgentClusters |-> NoDeployment]
  /\ install = {}
  /\ secrets = [k \in AgentClusters |-> {}]
  /\ clusterCache = cluster
  /\ deploymentCache = deployment
  /\ installCache = install
  /\ queue = AgentClusters
  /\ delayed = {}
  /\ worker = IdleWorker
  /\ faults = 0

-----------------------------------------------------------------------------
(* What Reconcile computes between calls *)

Return(w) == [w EXCEPT !.pc = "patchSpec"]
Retry(w) == [w EXCEPT !.pc = "patchSpec", !.again = TRUE]

\* The end of Reconcile: the AgentCluster is ready, or waits for its endpoint.
Synced(w) ==
  IF w.obj.endpoint THEN Return([w EXCEPT !.obj.ready = TRUE]) ELSE Retry(w)

InstallNotEnsured(w) == Synced(w)
EnsureAgentClusterInstall(w) ==
  IF w.obj.ref \in installCache THEN Synced(w) ELSE [w EXCEPT !.pc = "labelCa"]

\* IsOwnedByObject compares kind and name, not the namespace or the UID.
IsOwned(w) ==
  /\ deploymentCache[w.obj.ref].owned
  /\ NameOf[w.obj.ref] = NameOf[w.k]

\* Reconcile with a ClusterDeploymentRef, up to the first write.
\* SetOwnerReference refuses an owner of another namespace.
EnsureOwnedClusterDeployment(w) ==
  LET d == deploymentCache[w.obj.ref] IN
  IF ~d.exists THEN Retry(w)
  ELSE IF IsOwned(w) /\ d.label = NameOf[w.k] THEN EnsureAgentClusterInstall(w)
  ELSE IF w.obj.ref # w.k THEN Retry(w)
  ELSE [w EXCEPT !.pc = "own"]

\* After orphanClusterDeployment; under deletion the finalizer is removed.
OrphanedKeepsFinalizer(w) == Return(w)
Orphaned(w) ==
  Return(IF w.obj.st = "deleting" THEN [w EXCEPT !.obj.fin = FALSE] ELSE w)

NeverOrphaned(w) == Orphaned(w)
OrphanClusterDeployment(w) ==
  IF /\ w.obj.ref # None
     /\ deploymentCache[w.obj.ref].exists
     /\ IsOwned(w)
    THEN [w EXCEPT !.pc = "orphan"]
    ELSE Orphaned(w)

\* Reconcile up to its first call.
Begin(w) ==
  LET x == [w EXCEPT !.obj.fin = TRUE]
      y == [x EXCEPT !.obj.backup = TRUE]
  IN IF w.obj.st = "deleting"
       THEN IF w.obj.paused THEN OrphanClusterDeployment(w) ELSE Orphaned(w)
     ELSE IF w.obj.paused THEN OrphanClusterDeployment(x)
     ELSE IF y.obj.ref = None THEN [y EXCEPT !.pc = "find"]
     ELSE EnsureOwnedClusterDeployment(y)

\* createClusterDeployment after getControlPlane: it waits, or goes on.
NotRequeued(w, complete) ==
  IF complete THEN [w EXCEPT !.pc = "labelSecrets"] ELSE Return(w)
AfterControlPlane(w, complete) ==
  IF complete THEN [w EXCEPT !.pc = "labelSecrets"] ELSE Retry(w)

\* The ClusterDeployment that has been found is recorded.
RecordLabel(w, j) == Return([w EXCEPT !.obj.ref = NameOf[j]])
Recorded(w, j) == Return([w EXCEPT !.obj.ref = j])

SpecChanged(w) == w.obj.fin # w.before.fin \/ w.obj.backup # w.before.backup
StatusChanged(w) == w.obj.ref # w.before.ref \/ w.obj.ready # w.before.ready

\* An object under deletion disappears with its last finalizer.
Collect(s) == IF s.st = "deleting" /\ ~s.fin THEN GoneCluster ELSE s

-----------------------------------------------------------------------------
(* Reconcile, one action per call to the API server *)

\* Without "stale" a change is delivered before anything else happens.
Prompt ==
  \/ "stale" \in Environment
  \/ cluster = clusterCache /\ deployment = deploymentCache /\ install = installCache

At(pc) == Prompt /\ worker.pc = pc

Reconcile(k) ==
  /\ At("idle")
  /\ k \in queue
  /\ queue' = queue \ {k}
  /\ worker' = IF clusterCache[k].st = "gone" THEN worker
               ELSE Begin([IdleWorker EXCEPT !.k = k, !.obj = clusterCache[k],
                                             !.before = clusterCache[k]])
  /\ UNCHANGED <<cluster, objects, caches, delayed, faults>>

\* A write of ClusterDeployment j that makes it v; then and else are the worker
\* after success and after an error.
CallDeployment(j, v, accepted, then, else) ==
  /\ \E o \in Outcomes :
       /\ Outcome(o)
       /\ deployment' = IF accepted /\ o # "error"
                          THEN [deployment EXCEPT ![j] = v] ELSE deployment
       /\ worker' = IF accepted /\ o = "ok" THEN then ELSE else
  /\ UNCHANGED <<cluster, plane, install, secrets, caches, queues>>

\* Only an owner reference with the UID of the AgentCluster is taken out.
PatchOrphan ==
  LET j == worker.obj.ref
      d == deployment[j]
  IN
  /\ At("orphan")
  /\ CallDeployment(j, [d EXCEPT !.owned = @ /\ j # worker.k], d.exists,
                    Orphaned(worker), Retry(worker))

\* List order is arbitrary; the list is not restricted to a namespace.
FindClusterDeployment ==
  LET found == {j \in AgentClusters :
                  /\ deploymentCache[j].exists
                  /\ deploymentCache[j].label = NameOf[worker.k]}
  IN
  /\ At("find")
  /\ \/ \E j \in found : worker' = Recorded(worker, j)
     \/ found = {} /\ worker' = [worker EXCEPT !.pc = "plane"]
  /\ UNCHANGED <<cluster, objects, caches, queues, faults>>

GetControlPlane ==
  /\ At("plane")
  /\ \E o \in Outcomes :
       /\ Outcome(o)
       /\ worker' = AfterControlPlane(worker, o = "ok" /\ worker.k \in plane)
  /\ UNCHANGED <<cluster, objects, caches, queues>>

\* ensureSecretLabel is best effort: a secret that is not named, not there or
\* changed meanwhile stays without the label, and Reconcile goes on at pc.
LabelSecrets(kind, pc) ==
  /\ \E labelled \in SUBSET {kind} :
       secrets' = [secrets EXCEPT ![worker.k] = @ \union labelled]
  /\ worker' = [worker EXCEPT !.pc = pc]
  /\ UNCHANGED <<cluster, plane, deployment, install, caches, queues, faults>>

LabelControlPlaneSecrets == At("labelSecrets") /\ LabelSecrets("controlPlane", "create")

\* The reference is set before Create is called.  AlreadyExists is no error.
CreateClusterDeployment ==
  LET k == worker.k
      w == [worker EXCEPT !.obj.ref = k]
      new == [exists |-> TRUE, label |-> NameOf[k], owned |-> TRUE]
  IN
  /\ At("create")
  /\ CallDeployment(k, IF deployment[k].exists THEN deployment[k] ELSE new, TRUE,
                    Return(w), Retry(w))

\* A merge patch carries the owner reference only if the cached copy lacked it.
PatchOwner ==
  LET k == worker.k IN
  /\ At("own")
  /\ CallDeployment(k, [deployment[k] EXCEPT !.label = NameOf[k],
                                             !.owned = @ \/ ~IsOwned(worker)],
                    deployment[k].exists, EnsureAgentClusterInstall(worker),
                    Retry(worker))

LabelCaSecret == At("labelCa") /\ LabelSecrets("ca", "install")

\* AlreadyExists is an error here, and is retried.
CreateAgentClusterInstall ==
  LET j == worker.obj.ref IN
  /\ At("install")
  /\ \E o \in Outcomes :
       /\ Outcome(o)
       /\ install' = IF o = "error" THEN install ELSE install \union {j}
       /\ worker' = IF o = "ok" /\ j \notin install
                      THEN Synced(worker) ELSE Retry(worker)
  /\ UNCHANGED <<cluster, plane, deployment, secrets, caches, queues>>

\* One call of the deferred Patch, made if changed; it goes on at pc whatever comes
\* back, and its error does not reach the result of Reconcile.
CallPatch(changed, accepted, v, pc) ==
  /\ \E o \in Outcomes :
       /\ Outcome(o)
       /\ ~changed => o = "ok"
       /\ cluster' = IF changed /\ accepted /\ o # "error"
                       THEN [cluster EXCEPT ![worker.k] = v] ELSE cluster
  /\ worker' = [worker EXCEPT !.pc = pc]
  /\ UNCHANGED <<objects, caches, queues>>

\* An object under deletion takes no finalizer that it does not have.
PatchSpec ==
  LET w == worker
      s == cluster[w.k]
      added == w.obj.fin /\ ~w.before.fin
      refused == s.st = "gone" \/ (s.st = "deleting" /\ added /\ ~s.fin)
  IN
  /\ At("patchSpec")
  /\ CallPatch(SpecChanged(w), ~refused,
       Collect([s EXCEPT !.fin = IF w.obj.fin # w.before.fin THEN w.obj.fin ELSE @,
                         !.backup = @ \/ w.obj.backup]),
       "patchStatus")

PatchStatus ==
  LET w == worker
      s == cluster[w.k]
  IN
  /\ At("patchStatus")
  /\ CallPatch(StatusChanged(w), s.st # "gone",
       [s EXCEPT !.ref = IF w.obj.ref # w.before.ref THEN w.obj.ref ELSE @,
                 !.ready = IF w.obj.ready # w.before.ready THEN w.obj.ready ELSE @],
       "done")

Finish ==
  /\ At("done")
  /\ delayed' = IF worker.again THEN delayed \union {worker.k} ELSE delayed
  /\ worker' = IdleWorker
  /\ UNCHANGED <<cluster, objects, caches, queue, faults>>

ReconcileStep ==
  \/ PatchOrphan \/ FindClusterDeployment \/ GetControlPlane
  \/ LabelControlPlaneSecrets \/ CreateClusterDeployment
  \/ PatchOwner \/ LabelCaSecret \/ CreateAgentClusterInstall
  \/ PatchSpec \/ PatchStatus \/ Finish

-----------------------------------------------------------------------------
(* Caches and queue: only AgentClusters are watched *)

DeliverCluster(k) ==
  /\ clusterCache[k] # cluster[k]
  /\ clusterCache' = [clusterCache EXCEPT ![k] = cluster[k]]
  /\ queue' = queue \union {k}
  /\ UNCHANGED <<cluster, objects, deploymentCache, installCache, delayed, worker, faults>>

DeliverDeployment(k) ==
  /\ deploymentCache[k] # deployment[k]
  /\ deploymentCache' = [deploymentCache EXCEPT ![k] = deployment[k]]
  /\ UNCHANGED <<cluster, objects, clusterCache, installCache, queues, worker, faults>>

DeliverInstall ==
  /\ installCache # install
  /\ installCache' = install
  /\ UNCHANGED <<cluster, objects, clusterCache, deploymentCache, queues, worker, faults>>

Requeue(k) ==
  /\ Prompt
  /\ k \in delayed
  /\ delayed' = delayed \ {k}
  /\ queue' = queue \union {k}
  /\ UNCHANGED <<cluster, objects, caches, worker, faults>>

Resync(k) ==
  /\ Prompt
  /\ "resync" \in Environment
  /\ clusterCache[k].st # "gone"
  /\ queue' = queue \union {k}
  /\ UNCHANGED <<cluster, objects, caches, delayed, worker, faults>>

=============================================================================
