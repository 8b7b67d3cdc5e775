-------------------------- MODULE AgentClusterProofs --------------------------
(***************************************************************************)
(* Theorems about AgentClusterSystem: types, a ClusterDeployment is        *)
(* orphaned before its paused AgentCluster goes, and a ready AgentCluster  *)
(* has all that it claims to have.                                         *)
(***************************************************************************)
EXTENDS AgentClusterSystem, TLAPS

-----------------------------------------------------------------------------
(* What Reconcile computes between calls *)

\* A Reconcile call goes on, from w to r, with the same AgentCluster: what NewHelper
\* copied, and what users set, is not touched.
GoesOn(w, r) ==
  /\ r \in ClusterWorker
  /\ r.k = w.k /\ r.before = w.before
  /\ r.obj.st = w.obj.st /\ r.obj.paused = w.obj.paused

LEMMA SetPc ==
  ASSUME NEW w \in ClusterWorker, NEW p \in ClusterPcs
  PROVE  LET r == [w EXCEPT !.pc = p] IN GoesOn(w, r) /\ r.pc = p /\ r.obj = w.obj
BY DEF GoesOn, ClusterWorker

LEMMA SetObj ==
  ASSUME NEW w \in ClusterWorker, NEW v \in ClusterObj,
         v.st = w.obj.st, v.paused = w.obj.paused
  PROVE  LET r == [w EXCEPT !.obj = v] IN GoesOn(w, r) /\ r.pc = w.pc /\ r.obj = v
BY DEF GoesOn, ClusterWorker

LEMMA ReturnIs ==
  ASSUME NEW w \in ClusterWorker
  PROVE  LET r == Return(w) IN GoesOn(w, r) /\ r.pc = "patchSpec" /\ r.obj = w.obj
BY SetPc DEF Return, ClusterPcs

LEMMA RetryIs ==
  ASSUME NEW w \in ClusterWorker
  PROVE  LET r == Retry(w) IN GoesOn(w, r) /\ r.pc = "patchSpec" /\ r.obj = w.obj
BY DEF Retry, ClusterPcs, GoesOn, ClusterWorker

LEMMA SetReady ==
  ASSUME NEW w \in ClusterWorker
  PROVE  LET r == [w EXCEPT !.obj.ready = TRUE] IN
         /\ GoesOn(w, r) /\ r.pc = w.pc
         /\ r.obj.ref = w.obj.ref /\ r.obj.fin = w.obj.fin
<1>1. w.obj \in ClusterObj /\ [w EXCEPT !.obj.ready = TRUE] =
        [w EXCEPT !.obj = [w.obj EXCEPT !.ready = TRUE]]
  BY DEF ClusterWorker
<1>2. LET v == [w.obj EXCEPT !.ready = TRUE] IN
      /\ v \in ClusterObj /\ v.st = w.obj.st /\ v.paused = w.obj.paused
      /\ v.ref = w.obj.ref /\ v.fin = w.obj.fin
  BY <1>1 DEF ClusterObj
<1> QED
  BY <1>1, <1>2, SetObj

LEMMA SetFin ==
  ASSUME NEW w \in ClusterWorker, NEW f \in BOOLEAN
  PROVE  LET r == [w EXCEPT !.obj.fin = f] IN
         /\ GoesOn(w, r) /\ r.pc = w.pc
         /\ r.obj.ref = w.obj.ref /\ r.obj.ready = w.obj.ready /\ r.obj.fin = f
<1>1. w.obj \in ClusterObj /\ [w EXCEPT !.obj.fin = f] =
        [w EXCEPT !.obj = [w.obj EXCEPT !.fin = f]]
  BY DEF ClusterWorker
<1>2. LET v == [w.obj EXCEPT !.fin = f] IN
      /\ v \in ClusterObj /\ v.st = w.obj.st /\ v.paused = w.obj.paused
      /\ v.ref = w.obj.ref /\ v.ready = w.obj.ready /\ v.fin = f
  BY <1>1 DEF ClusterObj
<1> QED
  BY <1>1, <1>2, SetObj

LEMMA SetBackup ==
  ASSUME NEW w \in ClusterWorker
  PROVE  LET r == [w EXCEPT !.obj.backup = TRUE] IN
         /\ GoesOn(w, r) /\ r.pc = w.pc
         /\ r.obj.ref = w.obj.ref /\ r.obj.ready = w.obj.ready /\ r.obj.fin = w.obj.fin
<1>1. w.obj \in ClusterObj /\ [w EXCEPT !.obj.backup = TRUE] =
        [w EXCEPT !.obj = [w.obj EXCEPT !.backup = TRUE]]
  BY DEF ClusterWorker
<1>2. LET v == [w.obj EXCEPT !.backup = TRUE] IN
      /\ v \in ClusterObj /\ v.st = w.obj.st /\ v.paused = w.obj.paused
      /\ v.ref = w.obj.ref /\ v.ready = w.obj.ready /\ v.fin = w.obj.fin
  BY <1>1 DEF ClusterObj
<1> QED
  BY <1>1, <1>2, SetObj

LEMMA SetRef ==
  ASSUME NEW w \in ClusterWorker, NEW j \in RefOrNone
  PROVE  LET r == [w EXCEPT !.obj.ref = j] IN
         /\ GoesOn(w, r) /\ r.pc = w.pc
         /\ r.obj.ref = j /\ r.obj.ready = w.obj.ready /\ r.obj.fin = w.obj.fin
<1>1. w.obj \in ClusterObj /\ [w EXCEPT !.obj.ref = j] =
        [w EXCEPT !.obj = [w.obj EXCEPT !.ref = j]]
  BY DEF ClusterWorker
<1>2. LET v == [w.obj EXCEPT !.ref = j] IN
      /\ v \in ClusterObj /\ v.st = w.obj.st /\ v.paused = w.obj.paused
      /\ v.ref = j /\ v.ready = w.obj.ready /\ v.fin = w.obj.fin
  BY <1>1 DEF ClusterObj
<1> QED
  BY <1>1, <1>2, SetObj

LEMMA SyncedIs ==
  ASSUME NEW w \in ClusterWorker
  PROVE  LET r == Synced(w) IN
         /\ GoesOn(w, r) /\ r.pc = "patchSpec"
         /\ r.obj.ref = w.obj.ref /\ r.obj.fin = w.obj.fin
<1>1. CASE w.obj.endpoint
  <2> DEFINE x == [w EXCEPT !.obj.ready = TRUE]
  <2>1. Synced(w) = Return(x)
    BY <1>1 DEF Synced
  <2>2. GoesOn(w, x) /\ x.obj.ref = w.obj.ref /\ x.obj.fin = w.obj.fin
    BY SetReady
  <2> HIDE DEF x
  <2>3. GoesOn(x, Return(x)) /\ Return(x).pc = "patchSpec" /\ Return(x).obj = x.obj
    BY <2>2, ReturnIs DEF GoesOn
  <2> QED
    BY <2>1, <2>2, <2>3 DEF GoesOn
<1>2. CASE ~w.obj.endpoint
  BY <1>2, RetryIs DEF Synced
<1> QED
  BY <1>1, <1>2

LEMMA EnsureInstallIs ==
  ASSUME NEW w \in ClusterWorker
  PROVE  LET r == EnsureAgentClusterInstall(w) IN
         /\ GoesOn(w, r) /\ r.obj.ref = w.obj.ref /\ r.obj.fin = w.obj.fin
         /\ \/ r.pc = "patchSpec" /\ w.obj.ref \in installCache
            \/ r.pc = "labelCa" /\ r.obj.ready = w.obj.ready
BY SyncedIs, SetPc DEF EnsureAgentClusterInstall, ClusterPcs

\* With a ClusterDeploymentRef, Reconcile gets to an AgentClusterInstall only by way
\* of a ClusterDeployment that exists.
LEMMA EnsureOwnedIs ==
  ASSUME NEW w \in ClusterWorker
  PROVE  LET r == EnsureOwnedClusterDeployment(w)
             d == deploymentCache[w.obj.ref]
         IN
         /\ GoesOn(w, r) /\ r.obj.ref = w.obj.ref /\ r.obj.fin = w.obj.fin
         /\ \/ r.pc = "patchSpec" /\ r.obj.ready = w.obj.ready
            \/ r.pc = "patchSpec" /\ d.exists /\ w.obj.ref \in installCache
            \/ r.pc = "labelCa" /\ d.exists /\ r.obj.ready = w.obj.ready
            \/ r.pc = "own" /\ d.exists /\ r.obj.ready = w.obj.ready /\ w.obj.ref = w.k
<1> DEFINE d == deploymentCache[w.obj.ref]
           x == [w EXCEPT !.pc = "own"]
<1>1. \/ EnsureOwnedClusterDeployment(w) = Retry(w)
      \/ EnsureOwnedClusterDeployment(w) = EnsureAgentClusterInstall(w) /\ d.exists
      \/ EnsureOwnedClusterDeployment(w) = x /\ d.exists /\ w.obj.ref = w.k
  BY DEF EnsureOwnedClusterDeployment
<1>2. GoesOn(w, x) /\ x.pc = "own" /\ x.obj = w.obj
  BY SetPc DEF ClusterPcs
<1> HIDE DEF x
<1> QED
  BY <1>1, <1>2, EnsureInstallIs, RetryIs

LEMMA OrphanedIs ==
  ASSUME NEW w \in ClusterWorker
  PROVE  LET r == Orphaned(w) IN
         /\ GoesOn(w, r) /\ r.pc = "patchSpec"
         /\ r.obj.ref = w.obj.ref /\ r.obj.ready = w.obj.ready
         /\ r.obj.fin = (w.obj.fin /\ w.obj.st # "deleting")
<1> DEFINE x == IF w.obj.st = "deleting" THEN [w EXCEPT !.obj.fin = FALSE] ELSE w
<1>1. w.obj.fin \in BOOLEAN /\ GoesOn(w, w)
  BY DEF ClusterWorker, ClusterObj, GoesOn
<1>2. /\ GoesOn(w, x) /\ x.obj.ref = w.obj.ref /\ x.obj.ready = w.obj.ready
      /\ x.obj.fin = (w.obj.fin /\ w.obj.st # "deleting")
  BY <1>1, SetFin
<1>3. Orphaned(w) = Return(x)
  BY DEF Orphaned
<1> HIDE DEF x
<1>4. GoesOn(x, Return(x)) /\ Return(x).pc = "patchSpec" /\ Return(x).obj = x.obj
  BY <1>2, ReturnIs DEF GoesOn
<1> QED
  BY <1>2, <1>3, <1>4 DEF GoesOn

LEMMA OrphanIs ==
  ASSUME NEW w \in ClusterWorker
  PROVE  LET r == OrphanClusterDeployment(w)
             d == deploymentCache[w.obj.ref]
         IN
         /\ GoesOn(w, r) /\ r.obj.ref = w.obj.ref /\ r.obj.ready = w.obj.ready
         /\ \/ r.pc = "orphan" /\ w.obj.ref # None /\ r.obj.fin = w.obj.fin
            \/ /\ r.pc = "patchSpec" /\ r.obj.fin = (w.obj.fin /\ w.obj.st # "deleting")
               /\ w.obj.ref = None \/ ~d.exists \/ ~IsOwned(w)
<1> DEFINE d == deploymentCache[w.obj.ref]
           x == [w EXCEPT !.pc = "orphan"]
<1>1. \/ OrphanClusterDeployment(w) = x /\ w.obj.ref # None
      \/ /\ OrphanClusterDeployment(w) = Orphaned(w)
         /\ w.obj.ref = None \/ ~d.exists \/ ~IsOwned(w)
  BY DEF OrphanClusterDeployment
<1>2. GoesOn(w, x) /\ x.pc = "orphan" /\ x.obj = w.obj
  BY SetPc DEF ClusterPcs
<1> HIDE DEF x
<1> QED
  BY <1>1, <1>2, OrphanedIs

\* Reconcile up to its first call: what is under deletion loses its finalizer,
\* unless its ClusterDeployment is to be orphaned first; anything else gets one.
LEMMA BeginIs ==
  ASSUME NEW w \in ClusterWorker
  PROVE  LET r == Begin(w)
             d == deploymentCache[w.obj.ref]
         IN
         /\ GoesOn(w, r) /\ r.obj.ref = w.obj.ref
         /\ \/ /\ w.obj.st = "deleting" /\ r.obj.ready = w.obj.ready
               /\ \/ r.pc = "orphan" /\ w.obj.ref # None /\ r.obj.fin = w.obj.fin
                  \/ /\ r.pc = "patchSpec" /\ ~r.obj.fin
                     /\ ~w.obj.paused \/ w.obj.ref = None \/ ~d.exists \/ ~IsOwned(w)
            \/ /\ w.obj.st # "deleting" /\ r.obj.fin
               /\ \/ /\ r.obj.ready = w.obj.ready
                     /\ \/ r.pc = "patchSpec"
                        \/ r.pc = "find" /\ w.obj.ref = None
                        \/ r.pc = "orphan" /\ w.obj.ref # None
                        \/ r.pc = "own" /\ w.obj.ref # None /\ d.exists /\ w.obj.ref = w.k
                        \/ r.pc = "labelCa" /\ w.obj.ref # None /\ d.exists
                  \/ r.pc = "patchSpec" /\ d.exists /\ w.obj.ref \in installCache
<1> DEFINE x == [w EXCEPT !.obj.fin = TRUE]
           y == [x EXCEPT !.obj.backup = TRUE]
           r == Begin(w)
           d == deploymentCache[w.obj.ref]
<1>x. /\ GoesOn(w, x) /\ x.obj.ref = w.obj.ref /\ x.obj.ready = w.obj.ready
      /\ x.obj.fin = TRUE
  BY SetFin
<1>w. w.obj.fin \in BOOLEAN
  BY DEF ClusterWorker, ClusterObj
<1>r. r = IF w.obj.st = "deleting"
            THEN IF w.obj.paused THEN OrphanClusterDeployment(w) ELSE Orphaned(w)
          ELSE IF w.obj.paused THEN OrphanClusterDeployment(x)
          ELSE IF y.obj.ref = None THEN [y EXCEPT !.pc = "find"]
          ELSE EnsureOwnedClusterDeployment(y)
  BY DEF Begin
<1> HIDE DEF x, r
<1>y. /\ GoesOn(w, y) /\ y.obj.ref = w.obj.ref /\ y.obj.ready = w.obj.ready
      /\ y.obj.fin = TRUE
  BY <1>x, SetBackup DEF GoesOn
<1> HIDE DEF y
<1>1. CASE w.obj.st = "deleting" /\ w.obj.paused
  BY <1>1, <1>r, <1>w, OrphanIs DEF r
<1>2. CASE w.obj.st = "deleting" /\ ~w.obj.paused
  BY <1>2, <1>r, <1>w, OrphanedIs DEF r
<1>3. CASE w.obj.st # "deleting" /\ w.obj.paused
  <2>1. r = OrphanClusterDeployment(x) /\ x \in ClusterWorker
    BY <1>3, <1>r, <1>x DEF GoesOn
  <2>2. /\ GoesOn(x, r) /\ r.obj.ref = x.obj.ref /\ r.obj.ready = x.obj.ready
        /\ \/ r.pc = "orphan" /\ x.obj.ref # None /\ r.obj.fin = x.obj.fin
           \/ r.pc = "patchSpec" /\ r.obj.fin = (x.obj.fin /\ x.obj.st # "deleting")
    BY <2>1, OrphanIs
  <2> QED
    BY <1>3, <1>x, <2>2 DEF GoesOn, r
<1>4. CASE w.obj.st # "deleting" /\ ~w.obj.paused /\ w.obj.ref = None
  <2>1. r = [y EXCEPT !.pc = "find"] /\ y \in ClusterWorker
    BY <1>4, <1>r, <1>y DEF GoesOn
  <2>2. GoesOn(y, r) /\ r.pc = "find" /\ r.obj = y.obj
    BY <2>1, SetPc DEF ClusterPcs
  <2> QED
    BY <1>4, <1>y, <2>2 DEF GoesOn, r
<1>5. CASE w.obj.st # "deleting" /\ ~w.obj.paused /\ w.obj.ref # None
  <2>1. r = EnsureOwnedClusterDeployment(y) /\ y \in ClusterWorker
    BY <1>5, <1>r, <1>y DEF GoesOn
  <2>2. /\ GoesOn(y, r) /\ r.obj.ref = y.obj.ref /\ r.obj.fin = y.obj.fin
        /\ \/ r.pc = "patchSpec" /\ r.obj.ready = y.obj.ready
           \/ r.pc = "patchSpec" /\ d.exists /\ y.obj.ref \in installCache
           \/ r.pc = "labelCa" /\ d.exists /\ r.obj.ready = y.obj.ready
           \/ r.pc = "own" /\ d.exists /\ r.obj.ready = y.obj.ready /\ y.obj.ref = y.k
    BY <1>y, <2>1, EnsureOwnedIs
  <2> QED
    BY <1>5, <1>y, <2>2 DEF GoesOn, r
<1> QED
  BY <1>1, <1>2, <1>3, <1>4, <1>5

-----------------------------------------------------------------------------
(* Types *)

RefPcs == {"orphan", "own", "labelCa", "install"}

\* A Reconcile call is for an AgentCluster, and knows the ClusterDeployment it is
\* about to write or make an AgentClusterInstall for.
WorkerOK(w) ==
  /\ w \in ClusterWorker
  /\ w.pc # "idle" => w.k \in AgentClusters
  /\ w.pc \in RefPcs => w.obj.ref \in AgentClusters

TypeInv == ClusterTypeOK /\ WorkerOK(worker)

LEMMA GoneIsTyped == GoneCluster \in ClusterObj /\ NewCluster \in ClusterObj
BY DEF GoneCluster, NewCluster, ClusterObj, RefOrNone

LEMMA IdleIsOK == WorkerOK(IdleWorker) /\ IdleWorker.pc = "idle" /\ IdleWorker.k = None
BY GoneIsTyped DEF IdleWorker, WorkerOK, ClusterWorker, ClusterPcs, RefOrNone, RefPcs

LEMMA NoDeploymentIsTyped == NoDeployment \in DeploymentObj /\ ~NoDeployment.owned
BY DEF NoDeployment, DeploymentObj

\* A call that goes on without a call that needs ClusterDeploymentRef.
LEMMA GoesOnOK ==
  ASSUME NEW w, NEW r, WorkerOK(w), w.pc # "idle", GoesOn(w, r),
         r.pc \in RefPcs => r.obj.ref \in AgentClusters
  PROVE  WorkerOK(r)
BY DEF WorkerOK, GoesOn

LEMMA OutcomeType ==
  ASSUME NEW o \in Outcomes, Outcome(o), faults \in 0..MaxFaults
  PROVE  faults' \in 0..MaxFaults
BY ClusterConstantTypes DEF Outcome, Fault

LEMMA FaultType ==
  ASSUME NEW kind, Fault(kind), faults \in 0..MaxFaults
  PROVE  faults' \in 0..MaxFaults
BY ClusterConstantTypes DEF Fault

\* A step changes one kind of object; the rest of the types follow.
LEMMA ObjectsType ==
  ASSUME ClusterTypeOK, UNCHANGED <<plane, caches, queues>>,
         faults' \in 0..MaxFaults, WorkerOK(worker'),
         \/ UNCHANGED cluster
         \/ \E k \in AgentClusters, v \in ClusterObj : cluster' = [cluster EXCEPT ![k] = v],
         \/ UNCHANGED deployment
         \/ \E k \in AgentClusters, v \in DeploymentObj :
              deployment' = [deployment EXCEPT ![k] = v],
         install' \subseteq AgentClusters,
         \/ UNCHANGED secrets
         \/ \E k \in AgentClusters, v \in SUBSET SecretKinds :
              secrets' = [secrets EXCEPT ![k] = v]
  PROVE  TypeInv'
<1>1. cluster' \in [AgentClusters -> ClusterObj]
  BY DEF ClusterTypeOK
<1>2. deployment' \in [AgentClusters -> DeploymentObj]
  BY DEF ClusterTypeOK
<1>3. secrets' \in [AgentClusters -> SUBSET SecretKinds]
  BY DEF ClusterTypeOK
<1>4. worker' \in ClusterWorker
  BY DEF WorkerOK
<1> QED
  BY <1>1, <1>2, <1>3, <1>4 DEF ClusterTypeOK, TypeInv, caches, queues

LEMMA CallDeploymentType ==
  ASSUME TypeInv, NEW j \in AgentClusters, NEW v \in DeploymentObj, NEW acc \in BOOLEAN,
         NEW s, NEW t, WorkerOK(s), WorkerOK(t), CallDeployment(j, v, acc, s, t)
  PROVE  TypeInv'
<1>1. PICK o \in Outcomes :
        /\ Outcome(o)
        /\ deployment' = IF acc /\ o # "error"
                           THEN [deployment EXCEPT ![j] = v] ELSE deployment
        /\ worker' = IF acc /\ o = "ok" THEN s ELSE t
  BY DEF CallDeployment
<1>2. faults' \in 0..MaxFaults
  BY <1>1, OutcomeType DEF TypeInv, ClusterTypeOK
<1>3. WorkerOK(worker')
  BY <1>1
<1>4. install' \subseteq AgentClusters
  BY DEF CallDeployment, TypeInv, ClusterTypeOK
<1>5. UNCHANGED <<cluster, plane, secrets, caches, queues>>
  BY DEF CallDeployment
<1>6. ClusterTypeOK
  BY DEF TypeInv
<1>7. \/ UNCHANGED deployment
      \/ \E k \in AgentClusters, u \in DeploymentObj :
           deployment' = [deployment EXCEPT ![k] = u]
  BY <1>1
<1> QED
  BY <1>2, <1>3, <1>4, <1>5, <1>6, <1>7, ObjectsType

LEMMA LabelSecretsType ==
  ASSUME TypeInv, NEW kind \in SecretKinds, NEW pc \in ClusterPcs, worker.pc # "idle",
         pc \in RefPcs => worker.obj.ref \in AgentClusters, LabelSecrets(kind, pc)
  PROVE  TypeInv'
<1>t. ClusterTypeOK /\ WorkerOK(worker) /\ worker.k \in AgentClusters
  BY DEF TypeInv, WorkerOK
<1>1. PICK labelled \in SUBSET {kind} :
        secrets' = [secrets EXCEPT ![worker.k] = @ \union labelled]
  BY DEF LabelSecrets
<1>2. faults' \in 0..MaxFaults
  BY <1>t DEF LabelSecrets, ClusterTypeOK
<1>3. GoesOn(worker, worker') /\ worker'.pc = pc /\ worker'.obj = worker.obj
  BY <1>t, SetPc DEF LabelSecrets, WorkerOK
<1>4. WorkerOK(worker')
  BY <1>3, <1>t, GoesOnOK
<1>5. secrets[worker.k] \union labelled \in SUBSET SecretKinds
  BY <1>t DEF ClusterTypeOK
<1>6. /\ UNCHANGED <<cluster, plane, deployment, caches, queues>>
      /\ install' \subseteq AgentClusters
  BY <1>t DEF LabelSecrets, ClusterTypeOK
<1>7. \/ UNCHANGED secrets
      \/ \E k \in AgentClusters, v \in SUBSET SecretKinds :
           secrets' = [secrets EXCEPT ![k] = v]
  BY <1>1, <1>5, <1>t
<1> QED
  BY <1>2, <1>4, <1>6, <1>7, <1>t, ObjectsType

LEMMA CallPatchType ==
  ASSUME TypeInv, NEW ch \in BOOLEAN, NEW acc \in BOOLEAN, NEW v \in ClusterObj,
         NEW pc \in ClusterPcs \ RefPcs, worker.pc # "idle", CallPatch(ch, acc, v, pc)
  PROVE  TypeInv'
<1>t. ClusterTypeOK /\ WorkerOK(worker) /\ worker.k \in AgentClusters
  BY DEF TypeInv, WorkerOK
<1>1. PICK o \in Outcomes :
        /\ Outcome(o)
        /\ cluster' = IF ch /\ acc /\ o # "error"
                        THEN [cluster EXCEPT ![worker.k] = v] ELSE cluster
  BY DEF CallPatch
<1>2. faults' \in 0..MaxFaults
  BY <1>1, <1>t, OutcomeType DEF ClusterTypeOK
<1>3. GoesOn(worker, worker') /\ worker'.pc = pc /\ worker'.obj = worker.obj
  BY <1>t, SetPc DEF CallPatch, WorkerOK
<1>4. WorkerOK(worker')
  BY <1>3, <1>t, GoesOnOK
<1>6. /\ UNCHANGED <<plane, deployment, secrets, caches, queues>>
      /\ install' \subseteq AgentClusters
  BY <1>t DEF CallPatch, ClusterTypeOK, objects
<1>7. \/ UNCHANGED cluster
      \/ \E k \in AgentClusters, u \in ClusterObj : cluster' = [cluster EXCEPT ![k] = u]
  BY <1>1, <1>t
<1> QED
  BY <1>2, <1>4, <1>6, <1>7, <1>t, ObjectsType

\* What the two calls of Patch write.
LEMMA PatchesType ==
  ASSUME TypeInv, worker.pc # "idle"
  PROVE  LET w == worker
             s == cluster[w.k]
         IN /\ Collect([s EXCEPT !.fin = IF w.obj.fin # w.before.fin THEN w.obj.fin ELSE @,
                                 !.backup = @ \/ w.obj.backup]) \in ClusterObj
            /\ [s EXCEPT !.ref = IF w.obj.ref # w.before.ref THEN w.obj.ref ELSE @,
                         !.ready = IF w.obj.ready # w.before.ready THEN w.obj.ready ELSE @]
                 \in ClusterObj
<1> DEFINE w == worker
           s == cluster[w.k]
<1>1. s \in ClusterObj /\ w.obj \in ClusterObj
  BY DEF TypeInv, WorkerOK, ClusterTypeOK, ClusterWorker
<1> HIDE DEF w, s
<1>2. [s EXCEPT !.fin = IF w.obj.fin # w.before.fin THEN w.obj.fin ELSE @,
                !.backup = @ \/ w.obj.backup] \in ClusterObj
  BY <1>1 DEF ClusterObj
<1>3. [s EXCEPT !.ref = IF w.obj.ref # w.before.ref THEN w.obj.ref ELSE @,
                !.ready = IF w.obj.ready # w.before.ready THEN w.obj.ready ELSE @]
        \in ClusterObj
  BY <1>1 DEF ClusterObj
<1> QED
  BY <1>2, <1>3, GoneIsTyped DEF Collect, w, s

LEMMA ReconcileStepType ==
  ASSUME TypeInv, ReconcileStep
  PROVE  TypeInv'
<1> DEFINE w == worker
<1>t. /\ ClusterTypeOK /\ WorkerOK(w) /\ w \in ClusterWorker
      /\ \A k \in AgentClusters : deployment[k] \in DeploymentObj
  BY DEF TypeInv, ClusterTypeOK
<1>k. w.pc # "idle" => w.k \in AgentClusters
  BY <1>t DEF WorkerOK
<1>r. w.pc # "idle" => WorkerOK(Retry(w)) /\ WorkerOK(Return(w))
  BY <1>t, RetryIs, ReturnIs, GoesOnOK DEF RefPcs
<1>s. w.pc # "idle" => WorkerOK(Synced(w)) /\ WorkerOK(Orphaned(w))
  BY <1>t, SyncedIs, OrphanedIs, GoesOnOK DEF RefPcs
<1>p. ASSUME NEW p \in ClusterPcs \ RefPcs, w.pc # "idle"
      PROVE  WorkerOK([w EXCEPT !.pc = p])
  BY <1>p, <1>t, SetPc, GoesOnOK
<1>1. ASSUME PatchOrphan PROVE TypeInv'
  <2> DEFINE j == w.obj.ref
             d == deployment[j]
  <2>1. w.pc = "orphan" /\ j \in AgentClusters
    BY <1>1, <1>t DEF PatchOrphan, At, WorkerOK, RefPcs
  <2>2. [d EXCEPT !.owned = @ /\ j # w.k] \in DeploymentObj /\ d.exists \in BOOLEAN
    BY <1>t, <2>1 DEF DeploymentObj
  <2> QED
    BY <1>1, <1>r, <1>s, <2>1, <2>2, CallDeploymentType DEF PatchOrphan
<1>2. ASSUME FindClusterDeployment PROVE TypeInv'
  <2>1. w.pc = "find"
    BY <1>2 DEF FindClusterDeployment, At
  <2>2. ASSUME NEW j \in AgentClusters
        PROVE  WorkerOK(Recorded(w, j))
    <3> DEFINE x == [w EXCEPT !.obj.ref = j]
    <3>1. GoesOn(w, x) /\ x.pc = w.pc
      BY <1>t, SetRef DEF RefOrNone
    <3> HIDE DEF x
    <3>2. GoesOn(x, Return(x)) /\ Return(x).pc = "patchSpec"
      BY <3>1, ReturnIs DEF GoesOn
    <3>3. WorkerOK(Return(x))
      BY <1>t, <2>1, <3>1, <3>2, GoesOnOK DEF GoesOn, RefPcs
    <3> QED
      BY <3>3 DEF Recorded, x
  <2>3. WorkerOK([w EXCEPT !.pc = "plane"])
    BY <1>p, <2>1 DEF ClusterPcs, RefPcs
  <2>4. WorkerOK(worker')
    BY <1>2, <2>2, <2>3 DEF FindClusterDeployment
  <2>5. /\ UNCHANGED <<cluster, plane, deployment, secrets, caches, queues>>
        /\ install' \subseteq AgentClusters /\ faults' \in 0..MaxFaults
    BY <1>2, <1>t DEF FindClusterDeployment, objects, ClusterTypeOK
  <2> QED
    BY <1>t, <2>4, <2>5, ObjectsType
<1>3. ASSUME GetControlPlane PROVE TypeInv'
  <2>1. w.pc = "plane"
    BY <1>3 DEF GetControlPlane, At
  <2>2. WorkerOK([w EXCEPT !.pc = "labelSecrets"])
    BY <1>p, <2>1 DEF ClusterPcs, RefPcs
  <2>3. WorkerOK(worker')
    BY <1>3, <1>r, <2>1, <2>2 DEF GetControlPlane, AfterControlPlane
  <2>4. /\ UNCHANGED <<cluster, plane, deployment, secrets, caches, queues>>
        /\ install' \subseteq AgentClusters /\ faults' \in 0..MaxFaults
    BY <1>3, <1>t, OutcomeType DEF GetControlPlane, objects, ClusterTypeOK
  <2> QED
    BY <1>t, <2>3, <2>4, ObjectsType
<1>4. ASSUME LabelControlPlaneSecrets PROVE TypeInv'
  BY <1>4, LabelSecretsType
     DEF LabelControlPlaneSecrets, At, SecretKinds, ClusterPcs, RefPcs
<1>5. ASSUME CreateClusterDeployment PROVE TypeInv'
  <2> DEFINE k == w.k
             x == [w EXCEPT !.obj.ref = k]
             new == [exists |-> TRUE, label |-> NameOf[k], owned |-> TRUE]
             v == IF deployment[k].exists THEN deployment[k] ELSE new
  <2>1. w.pc = "create" /\ k \in AgentClusters
    BY <1>5, <1>k DEF CreateClusterDeployment, At
  <2>2. v \in DeploymentObj
    BY <1>t, <2>1, ClusterConstantTypes DEF DeploymentObj
  <2>3. GoesOn(w, x) /\ x.pc = w.pc
    BY <1>t, <2>1, SetRef DEF RefOrNone
  <2>6. CallDeployment(k, v, TRUE, Return(x), Retry(x))
    BY <1>5 DEF CreateClusterDeployment
  <2> HIDE DEF x, v
  <2>4. /\ GoesOn(x, Return(x)) /\ Return(x).pc = "patchSpec"
        /\ GoesOn(x, Retry(x)) /\ Retry(x).pc = "patchSpec"
    BY <2>3, ReturnIs, RetryIs DEF GoesOn
  <2>5. WorkerOK(Return(x)) /\ WorkerOK(Retry(x))
    BY <1>t, <2>1, <2>3, <2>4, GoesOnOK DEF GoesOn, RefPcs
  <2> QED
    BY <2>1, <2>2, <2>5, <2>6, CallDeploymentType
<1>6. ASSUME PatchOwner PROVE TypeInv'
  <2> DEFINE k == w.k
             v == [deployment[k] EXCEPT !.label = NameOf[k], !.owned = @ \/ ~IsOwned(w)]
  <2>1. w.pc = "own" /\ k \in AgentClusters /\ w.obj.ref \in AgentClusters
    BY <1>6, <1>k, <1>t DEF PatchOwner, At, WorkerOK, RefPcs
  <2>2. v \in DeploymentObj /\ deployment[k].exists \in BOOLEAN
    BY <1>t, <2>1, ClusterConstantTypes DEF DeploymentObj, IsOwned
  <2>3. WorkerOK(EnsureAgentClusterInstall(w))
    BY <1>t, <2>1, EnsureInstallIs, GoesOnOK
  <2>4. CallDeployment(k, v, deployment[k].exists, EnsureAgentClusterInstall(w), Retry(w))
    BY <1>6 DEF PatchOwner
  <2> HIDE DEF v
  <2> QED
    BY <1>r, <2>1, <2>2, <2>3, <2>4, CallDeploymentType
<1>7. ASSUME LabelCaSecret PROVE TypeInv'
  <2>1. w.pc = "labelCa" /\ w.obj.ref \in AgentClusters
    BY <1>7, <1>t DEF LabelCaSecret, At, WorkerOK, RefPcs
  <2> QED
    BY <1>7, <2>1, LabelSecretsType DEF LabelCaSecret, SecretKinds, ClusterPcs
<1>8. ASSUME CreateAgentClusterInstall PROVE TypeInv'
  <2>1. w.pc = "install" /\ w.obj.ref \in AgentClusters
    BY <1>8, <1>t DEF CreateAgentClusterInstall, At, WorkerOK, RefPcs
  <2>2. WorkerOK(worker')
    BY <1>8, <1>r, <1>s, <2>1 DEF CreateAgentClusterInstall
  <2>3. install' \subseteq AgentClusters
    BY <1>8, <1>t, <2>1 DEF CreateAgentClusterInstall, ClusterTypeOK
  <2>4. /\ UNCHANGED <<cluster, plane, deployment, secrets, caches, queues>>
        /\ faults' \in 0..MaxFaults
    BY <1>8, <1>t, OutcomeType DEF CreateAgentClusterInstall, ClusterTypeOK
  <2> QED
    BY <1>t, <2>2, <2>3, <2>4, ObjectsType
<1>9. ASSUME PatchSpec PROVE TypeInv'
  <2>1. w.pc = "patchSpec"
    BY <1>9 DEF PatchSpec, At
  <2> QED
    BY <1>9, <2>1, PatchesType, CallPatchType DEF PatchSpec, SpecChanged, ClusterPcs, RefPcs
<1>10. ASSUME PatchStatus PROVE TypeInv'
  <2>1. w.pc = "patchStatus"
    BY <1>10 DEF PatchStatus, At
  <2> QED
    BY <1>10, <2>1, PatchesType, CallPatchType DEF PatchStatus, StatusChanged, ClusterPcs,
       RefPcs
<1>11. ASSUME Finish PROVE TypeInv'
  <2>1. w.k \in AgentClusters
    BY <1>11, <1>k DEF Finish, At
  <2>2. WorkerOK(worker') /\ delayed' \subseteq AgentClusters
    BY <1>11, <1>t, <2>1, IdleIsOK DEF Finish, ClusterTypeOK
  <2> QED
    BY <1>11, <1>t, <2>2 DEF Finish, TypeInv, ClusterTypeOK, WorkerOK, objects, caches
<1> QED
  BY <1>1, <1>2, <1>3, <1>4, <1>5, <1>6, <1>7, <1>8, <1>9, <1>10, <1>11 DEF ReconcileStep

\* A Reconcile call starts with what the cache holds.
LEMMA ReconcileBegins ==
  ASSUME TypeInv, NEW k \in AgentClusters, Reconcile(k)
  PROVE  \/ UNCHANGED worker
         \/ /\ clusterCache[k].st # "gone"
            /\ \E w \in ClusterWorker :
                 /\ w.k = k /\ w.obj = clusterCache[k] /\ w.before = clusterCache[k]
                 /\ worker' = Begin(w)
<1> DEFINE w == [IdleWorker EXCEPT !.k = k, !.obj = clusterCache[k],
                                   !.before = clusterCache[k]]
<1>1. clusterCache[k] \in ClusterObj /\ IdleWorker \in ClusterWorker
  BY IdleIsOK DEF TypeInv, ClusterTypeOK, WorkerOK
<1>2. /\ w \in ClusterWorker
      /\ w.k = k /\ w.obj = clusterCache[k] /\ w.before = clusterCache[k]
  BY <1>1 DEF ClusterWorker, RefOrNone
<1>3. \/ UNCHANGED worker
      \/ clusterCache[k].st # "gone" /\ worker' = Begin(w)
  BY DEF Reconcile
<1> HIDE DEF w
<1> QED
  BY <1>2, <1>3

LEMMA ReconcileType ==
  ASSUME TypeInv, NEW k \in AgentClusters, Reconcile(k)
  PROVE  TypeInv'
<1>1. WorkerOK(worker')
  <2>1. ASSUME NEW w \in ClusterWorker, w.k = k, worker' = Begin(w)
        PROVE  WorkerOK(worker')
    <3>1. /\ GoesOn(w, worker') /\ worker'.obj.ref = w.obj.ref
          /\ worker'.pc \in RefPcs => w.obj.ref # None
      BY <2>1, BeginIs DEF RefPcs
    <3>2. w.obj.ref \in RefOrNone
      BY DEF ClusterWorker, ClusterObj
    <3> QED
      BY <2>1, <3>1, <3>2 DEF GoesOn, WorkerOK, RefOrNone
  <2> QED
    BY <2>1, ReconcileBegins DEF TypeInv
<1>2. queue' \subseteq AgentClusters
  BY DEF Reconcile, TypeInv, ClusterTypeOK
<1> QED
  BY <1>1, <1>2 DEF Reconcile, TypeInv, ClusterTypeOK, WorkerOK, objects, caches

\* Caches and queues move, and nothing else.
Delivers ==
  \/ \E k \in AgentClusters : Deliver(k) \/ Requeue(k) \/ Resync(k)
  \/ DeliverInstall

LEMMA DeliversType ==
  ASSUME TypeInv, Delivers
  PROVE  TypeInv' /\ UNCHANGED <<cluster, objects, worker, faults>>
<1>t. ClusterTypeOK /\ WorkerOK(worker)
  BY DEF TypeInv
<1>1. UNCHANGED <<cluster, objects, worker, faults>>
  BY DEF Delivers, Deliver, DeliverCluster, DeliverDeployment, DeliverInstall, Requeue, Resync
<1>2. clusterCache' \in [AgentClusters -> ClusterObj]
  BY <1>t DEF ClusterTypeOK, Delivers, Deliver, DeliverCluster, DeliverDeployment,
     DeliverInstall, Requeue, Resync, caches
<1>3. deploymentCache' \in [AgentClusters -> DeploymentObj]
  BY <1>t DEF ClusterTypeOK, Delivers, Deliver, DeliverCluster, DeliverDeployment,
     DeliverInstall, Requeue, Resync, caches
<1>4. installCache' \subseteq AgentClusters
  BY <1>t DEF ClusterTypeOK, Delivers, Deliver, DeliverCluster, DeliverDeployment,
     DeliverInstall, Requeue, Resync, caches
<1>5. queue' \subseteq AgentClusters /\ delayed' \subseteq AgentClusters
  BY <1>t DEF ClusterTypeOK, Delivers, Deliver, DeliverCluster, DeliverDeployment,
     DeliverInstall, Requeue, Resync, queues
<1> QED
  BY <1>1, <1>2, <1>3, <1>4, <1>5, <1>t DEF TypeInv, ClusterTypeOK, objects

\* What users and the surroundings write to an AgentCluster that was s.  One whose
\* last Reconcile call goes on is not created anew.
UserWrites(s, v, busy) ==
  /\ v \in ClusterObj
  /\ \/ s.st = "live" /\ v.st = "live" /\ v.ref = s.ref /\ v.ready = s.ready
     \/ s.st = "live" /\ v.st = "deleting" /\ v.fin /\ v.ref = s.ref /\ v.ready = s.ready
     \/ s.st = "live" /\ v = GoneCluster
     \/ s.st = "gone" /\ v = NewCluster /\ ~busy

UsersWrite ==
  /\ UNCHANGED <<objects, caches, queues, worker>>
  /\ faults' \in 0..MaxFaults
  /\ \E k \in AgentClusters, v \in ClusterObj :
       /\ UserWrites(cluster[k], v, worker.k = k)
       /\ cluster' = [cluster EXCEPT ![k] = v]

LEMMA UsersWriteThis ==
  ASSUME TypeInv, NEW k \in AgentClusters, Users(k) \/ EndpointKnown(k)
  PROVE  UsersWrite
<1> DEFINE s == cluster[k]
<1>t. s \in ClusterObj /\ faults \in 0..MaxFaults
  BY DEF TypeInv, ClusterTypeOK
<1>1. faults' \in 0..MaxFaults
  BY <1>t, FaultType DEF Users, Pause, Unpause, Delete, Recreate, EndpointKnown
<1>2. ASSUME NEW v, UserWrites(s, v, worker.k = k), Change(k, v)
      PROVE  UsersWrite
  BY <1>1, <1>2 DEF UserWrites, UsersWrite, Change
<1>3. LET v == [s EXCEPT !.paused = TRUE] IN
      s.st = "live" => UserWrites(s, v, worker.k = k)
  BY <1>t DEF UserWrites, ClusterObj
<1>4. LET v == [s EXCEPT !.paused = FALSE] IN
      s.st = "live" => UserWrites(s, v, worker.k = k)
  BY <1>t DEF UserWrites, ClusterObj
<1>5. LET v == [s EXCEPT !.endpoint = TRUE] IN
      s.st = "live" => UserWrites(s, v, worker.k = k)
  BY <1>t DEF UserWrites, ClusterObj
<1>6. LET v == Collect([s EXCEPT !.st = "deleting"]) IN
      s.st = "live" => UserWrites(s, v, worker.k = k)
  <2> DEFINE u == [s EXCEPT !.st = "deleting"]
  <2>1. /\ u \in ClusterObj /\ u.st = "deleting" /\ u.fin = s.fin
        /\ u.ref = s.ref /\ u.ready = s.ready
    BY <1>t DEF ClusterObj
  <2> HIDE DEF u
  <2>2. s.st = "live" => UserWrites(s, Collect(u), worker.k = k)
    BY <2>1, GoneIsTyped DEF Collect, UserWrites
  <2> QED
    BY <2>2 DEF u
<1>7. s.st = "gone" /\ worker.k # k => UserWrites(s, NewCluster, worker.k = k)
  BY GoneIsTyped DEF UserWrites
<1>8. ASSUME Pause(k) PROVE UsersWrite
  BY <1>2, <1>3, <1>8 DEF Pause
<1>9. ASSUME Unpause(k) PROVE UsersWrite
  BY <1>2, <1>4, <1>9 DEF Unpause
<1>10. ASSUME EndpointKnown(k) PROVE UsersWrite
  BY <1>2, <1>5, <1>10 DEF EndpointKnown
<1>11. ASSUME Delete(k) PROVE UsersWrite
  BY <1>2, <1>6, <1>11 DEF Delete
<1>12. ASSUME Recreate(k) PROVE UsersWrite
  BY <1>2, <1>7, <1>12 DEF Recreate
<1> QED
  BY <1>8, <1>9, <1>10, <1>11, <1>12 DEF Users

LEMMA UsersWriteType ==
  ASSUME TypeInv, UsersWrite
  PROVE  TypeInv'
<1>1. cluster' \in [AgentClusters -> ClusterObj]
  BY DEF UsersWrite, TypeInv, ClusterTypeOK
<1> QED
  BY <1>1 DEF UsersWrite, TypeInv, ClusterTypeOK, objects, caches, queues

\* A process starts anew: no Reconcile call, and what Reconcile has written is as it
\* was or, on a restored hub, without status.
Restarts ==
  /\ worker' = IdleWorker
  /\ UNCHANGED objects
  /\ \/ UNCHANGED cluster
     \/ /\ \A k \in AgentClusters : cluster[k].st = "live"
        /\ cluster' = [k \in AgentClusters |->
                         [cluster[k] EXCEPT !.ref = None, !.ready = FALSE]]

LEMMA RestartsType ==
  ASSUME TypeInv, Crash \/ RestoreHub
  PROVE  TypeInv' /\ Restarts
<1>t. ClusterTypeOK /\ WorkerOK(worker)
  BY DEF TypeInv
<1>1. ASSUME NEW now \in [AgentClusters -> ClusterObj], Restart(now),
             cluster' = now, UNCHANGED objects, faults' \in 0..MaxFaults
      PROVE  TypeInv'
  BY <1>1, <1>t, IdleIsOK DEF Restart, TypeInv, ClusterTypeOK, WorkerOK, objects
<1>2. ASSUME Crash
      PROVE  TypeInv' /\ Restarts
  <2>1. TypeInv'
    BY <1>1, <1>2, <1>t, FaultType DEF Crash, ClusterTypeOK
  <2> QED
    BY <1>2, <2>1 DEF Crash, Restart, Restarts
<1>3. ASSUME RestoreHub
      PROVE  TypeInv' /\ Restarts
  <2> DEFINE now == [k \in AgentClusters |->
                       [cluster[k] EXCEPT !.ref = None, !.ready = FALSE]]
  <2>1. cluster' = now /\ Restart(now) /\ UNCHANGED objects /\ faults' \in 0..MaxFaults
    BY <1>3, <1>t, FaultType DEF RestoreHub, ClusterTypeOK
  <2>2. \A k \in AgentClusters : cluster[k].st = "live"
    BY <1>3 DEF RestoreHub
  <2>3. ASSUME NEW k \in AgentClusters
        PROVE  [cluster[k] EXCEPT !.ref = None, !.ready = FALSE] \in ClusterObj
    <3>1. cluster[k] \in ClusterObj
      BY <1>t DEF ClusterTypeOK
    <3> QED
      BY <3>1 DEF ClusterObj, RefOrNone
  <2>4. now \in [AgentClusters -> ClusterObj]
    BY <2>3
  <2>5. TypeInv'
    <3> HIDE DEF now
    <3> QED
      BY <1>1, <2>1, <2>4
  <2> QED
    BY <2>1, <2>2, <2>5 DEF Restart, Restarts
<1> QED
  BY <1>2, <1>3

LEMMA ObjectsMoveType ==
  ASSUME TypeInv, NEW k \in AgentClusters, ControlPlaneComplete(k) \/ GarbageCollect(k)
  PROVE  TypeInv'
<1>1. plane' \subseteq AgentClusters /\ install' \subseteq AgentClusters
  BY DEF ControlPlaneComplete, GarbageCollect, TypeInv, ClusterTypeOK
<1>2. deployment' \in [AgentClusters -> DeploymentObj]
  BY NoDeploymentIsTyped
     DEF ControlPlaneComplete, GarbageCollect, TypeInv, ClusterTypeOK
<1> QED
  BY <1>1, <1>2 DEF ControlPlaneComplete, GarbageCollect, TypeInv, ClusterTypeOK, caches,
     queues

\* Next, by what its steps change.
LEMMA ClusterSteps ==
  ASSUME TypeInv, [Next]_vars
  PROVE  /\ TypeInv'
         /\ \/ UNCHANGED <<cluster, objects, worker>>
            \/ ReconcileStep
            \/ \E k \in AgentClusters : Reconcile(k)
            \/ UsersWrite
            \/ \E k \in AgentClusters : ControlPlaneComplete(k) \/ GarbageCollect(k)
            \/ Restarts
<1>1. CASE UNCHANGED vars
  BY <1>1 DEF vars, objects, caches, queues, TypeInv, ClusterTypeOK
<1>2. CASE ReconcileStep
  BY <1>2, ReconcileStepType
<1>3. ASSUME NEW k \in AgentClusters, Reconcile(k) PROVE TypeInv'
  BY <1>3, ReconcileType
<1>4. CASE Delivers
  BY <1>4, DeliversType
<1>5. ASSUME NEW k \in AgentClusters, Users(k) \/ EndpointKnown(k)
      PROVE  TypeInv' /\ UsersWrite
  BY <1>5, UsersWriteThis, UsersWriteType
<1>6. ASSUME NEW k \in AgentClusters, ControlPlaneComplete(k) \/ GarbageCollect(k)
      PROVE  TypeInv'
  BY <1>6, ObjectsMoveType
<1>7. CASE Crash \/ RestoreHub
  BY <1>7, RestartsType
<1> QED
  BY <1>1, <1>2, <1>3, <1>4, <1>5, <1>6, <1>7 DEF Next, Progress, Delivers

LEMMA ClusterInitType == Init => TypeInv
<1> SUFFICES ASSUME Init PROVE TypeInv
  OBVIOUS
<1>1. MaxFaults \in Nat
  BY ClusterConstantTypes
<1> QED
  BY <1>1, GoneIsTyped, NoDeploymentIsTyped, IdleIsOK
     DEF Init, TypeInv, ClusterTypeOK, WorkerOK

\* The AgentCluster reconciler keeps the types of its variables, whatever the
\* surroundings do: a Reconcile call never writes a ClusterDeployment, or makes an
\* AgentClusterInstall, without the ClusterDeploymentRef that names it.
THEOREM ClusterTypes == Spec => []ClusterTypeOK
<1>1. TypeInv /\ [Next]_vars => TypeInv'
  BY ClusterSteps
<1>2. TypeInv => ClusterTypeOK
  BY DEF TypeInv
<1> QED
  BY <1>1, <1>2, ClusterInitType, PTL DEF Spec

-----------------------------------------------------------------------------
(* How a Reconcile call goes on, and what it writes *)

\* Only the ClusterDeployment of k is written, if any.
OnlyDeployment(k) == \A j \in AgentClusters : j # k => deployment'[j] = deployment[j]

\* Only the AgentCluster k is written, if any.
OnlyCluster(k) == \A j \in AgentClusters : j # k => cluster'[j] = cluster[j]

SameObj(w, r) == r.obj.ref = w.obj.ref /\ r.obj.fin = w.obj.fin /\ r.obj.ready = w.obj.ready

\* PatchSpec makes s into v: only a finalizer that is removed ends a deletion.
SpecPatched(w, s, v) ==
  \/ v = s
  \/ v = GoneCluster /\ s.st = "deleting" /\ (~s.fin \/ (~w.obj.fin /\ w.before.fin))
  \/ /\ s.st # "gone" /\ v.st = s.st /\ v.paused = s.paused
     /\ v.ref = s.ref /\ v.ready = s.ready
     /\ v.st = "deleting" => v.fin

\* PatchStatus makes s into v: what differs from NewHelper's copy is written.
StatusPatched(w, s, v) ==
  \/ v = s /\ (s.st = "gone" \/ ~StatusChanged(w) \/ "apiError" \in Environment)
  \/ /\ s.st # "gone" /\ v.st = s.st /\ v.paused = s.paused /\ v.fin = s.fin
     /\ v.ref = IF w.obj.ref # w.before.ref THEN w.obj.ref ELSE s.ref
     /\ v.ready = IF w.obj.ready # w.before.ready THEN w.obj.ready ELSE s.ready

\* The Reconcile call w becomes r.
CallMoves(w, r) ==
  LET k == w.k
      j == w.obj.ref
  IN
  \/ /\ w.pc = "orphan" /\ r.pc = "patchSpec"
     /\ r.obj.ref = j /\ r.obj.ready = w.obj.ready
     /\ \/ r.obj.fin = w.obj.fin
        \/ w.obj.st = "deleting" /\ ~r.obj.fin /\ (j = k => ~deployment'[k].owned)
     /\ \A i \in AgentClusters : /\ deployment'[i].exists = deployment[i].exists
                                 /\ deployment'[i].label = deployment[i].label
                                 /\ deployment'[i].owned => deployment[i].owned
     /\ UNCHANGED <<cluster, install>>
  \/ /\ w.pc = "find"
     /\ \/ r.pc = "plane" /\ SameObj(w, r)
        \/ /\ r.pc = "patchSpec" /\ r.obj.fin = w.obj.fin /\ r.obj.ready = w.obj.ready
           /\ r.obj.ref \in AgentClusters
           /\ deploymentCache[r.obj.ref].exists
           /\ deploymentCache[r.obj.ref].label = NameOf[k]
     /\ UNCHANGED <<cluster, deployment, install>>
  \/ /\ w.pc = "plane" /\ r.pc \in {"labelSecrets", "patchSpec"} /\ SameObj(w, r)
     /\ UNCHANGED <<cluster, deployment, install>>
  \/ /\ w.pc = "labelSecrets" /\ r.pc = "create" /\ SameObj(w, r)
     /\ UNCHANGED <<cluster, deployment, install>>
  \/ /\ w.pc = "create" /\ r.pc = "patchSpec"
     /\ r.obj.ref = k /\ r.obj.fin = w.obj.fin /\ r.obj.ready = w.obj.ready
     /\ OnlyDeployment(k)
     /\ \/ deployment'[k] = deployment[k]
        \/ deployment'[k].exists /\ deployment'[k].label = NameOf[k]
     /\ UNCHANGED <<cluster, install>>
  \/ /\ w.pc = "own" /\ r.obj.ref = j /\ r.obj.fin = w.obj.fin
     /\ OnlyDeployment(k)
     /\ \/ deployment'[k] = deployment[k]
        \/ /\ deployment[k].exists
           /\ deployment'[k].exists /\ deployment'[k].label = NameOf[k]
     /\ \/ r.pc = "patchSpec" /\ r.obj.ready = w.obj.ready
        \/ r.pc = "labelCa" /\ r.obj.ready = w.obj.ready
        \/ r.pc = "patchSpec" /\ j \in installCache
     /\ UNCHANGED <<cluster, install>>
  \/ /\ w.pc = "labelCa" /\ r.pc = "install" /\ SameObj(w, r)
     /\ UNCHANGED <<cluster, deployment, install>>
  \/ /\ w.pc = "install" /\ r.pc = "patchSpec"
     /\ r.obj.ref = j /\ r.obj.fin = w.obj.fin
     /\ install \subseteq install' /\ install' \subseteq install \union {j}
     /\ r.obj.ready = w.obj.ready \/ j \in install'
     /\ UNCHANGED <<cluster, deployment>>
  \/ /\ w.pc = "patchSpec" /\ r.pc = "patchStatus" /\ r.obj = w.obj
     /\ OnlyCluster(k) /\ SpecPatched(w, cluster[k], cluster'[k])
     /\ UNCHANGED <<deployment, install>>
  \/ /\ w.pc = "patchStatus" /\ r.pc = "done" /\ r.obj = w.obj
     /\ OnlyCluster(k) /\ StatusPatched(w, cluster[k], cluster'[k])
     /\ UNCHANGED <<deployment, install>>

\* What a call that writes a ClusterDeployment leaves behind.
LEMMA DeploymentWritten ==
  ASSUME ClusterTypeOK, NEW j \in AgentClusters, NEW v, NEW acc \in BOOLEAN,
         NEW s, NEW t, CallDeployment(j, v, acc, s, t)
  PROVE  /\ OnlyDeployment(j)
         /\ \/ acc /\ deployment'[j] = v /\ worker' = s
            \/ acc /\ deployment'[j] = v /\ worker' = t
            \/ deployment' = deployment /\ worker' = t
         /\ UNCHANGED <<cluster, install>>
<1>1. PICK o \in Outcomes :
        /\ deployment' = IF acc /\ o # "error"
                           THEN [deployment EXCEPT ![j] = v] ELSE deployment
        /\ worker' = IF acc /\ o = "ok" THEN s ELSE t
  BY DEF CallDeployment
<1>2. deployment \in [AgentClusters -> DeploymentObj]
  BY DEF ClusterTypeOK
<1>3. UNCHANGED <<cluster, install>>
  BY DEF CallDeployment
<1>4. CASE acc /\ o # "error"
  BY <1>1, <1>2, <1>3, <1>4 DEF OnlyDeployment
<1>5. CASE ~(acc /\ o # "error")
  BY <1>1, <1>2, <1>3, <1>5 DEF OnlyDeployment
<1> QED
  BY <1>4, <1>5

LEMMA SecretsWritten ==
  ASSUME worker \in ClusterWorker, worker.k \in AgentClusters,
         NEW kind, NEW pc \in ClusterPcs, LabelSecrets(kind, pc)
  PROVE  /\ GoesOn(worker, worker') /\ worker'.pc = pc /\ SameObj(worker, worker')
         /\ UNCHANGED <<cluster, deployment, install>>
<1>1. GoesOn(worker, worker') /\ worker'.pc = pc /\ worker'.obj = worker.obj
  BY SetPc DEF LabelSecrets
<1> QED
  BY <1>1 DEF SameObj, LabelSecrets

LEMMA ClusterWritten ==
  ASSUME ClusterTypeOK, worker \in ClusterWorker, worker.k \in AgentClusters,
         NEW ch \in BOOLEAN, NEW acc \in BOOLEAN, NEW v, NEW pc \in ClusterPcs,
         CallPatch(ch, acc, v, pc)
  PROVE  /\ GoesOn(worker, worker') /\ worker'.pc = pc /\ worker'.obj = worker.obj
         /\ OnlyCluster(worker.k)
         /\ \/ ch /\ acc /\ cluster'[worker.k] = v
            \/ /\ cluster'[worker.k] = cluster[worker.k]
               /\ ~ch \/ ~acc \/ "apiError" \in Environment
         /\ UNCHANGED <<deployment, install>>
<1>1. GoesOn(worker, worker') /\ worker'.pc = pc /\ worker'.obj = worker.obj
  BY SetPc DEF CallPatch
<1>2. PICK o \in Outcomes :
        /\ Outcome(o)
        /\ cluster' = IF ch /\ acc /\ o # "error"
                        THEN [cluster EXCEPT ![worker.k] = v] ELSE cluster
  BY DEF CallPatch
<1>3. cluster \in [AgentClusters -> ClusterObj]
  BY DEF ClusterTypeOK
<1>4. o = "error" => "apiError" \in Environment
  BY <1>2 DEF Outcome, Fault
<1>5. UNCHANGED <<deployment, install>>
  BY DEF CallPatch, objects
<1>6. CASE ch /\ acc /\ o # "error"
  BY <1>1, <1>2, <1>3, <1>5, <1>6 DEF OnlyCluster
<1>7. CASE ~(ch /\ acc /\ o # "error")
  BY <1>1, <1>2, <1>3, <1>4, <1>5, <1>7 DEF OnlyCluster
<1> QED
  BY <1>6, <1>7

LEMMA CallsMove ==
  ASSUME TypeInv, ReconcileStep
  PROVE  /\ worker.pc # "idle" /\ worker.k \in AgentClusters
         /\ \/ /\ worker' = IdleWorker
               /\ UNCHANGED <<cluster, deployment, install>>
            \/ GoesOn(worker, worker') /\ CallMoves(worker, worker')
<1> DEFINE w == worker
           r == worker'
           Goal == \/ /\ worker' = IdleWorker
                      /\ UNCHANGED <<cluster, deployment, install>>
                   \/ GoesOn(worker, worker') /\ CallMoves(worker, worker')
<1>t. /\ ClusterTypeOK /\ WorkerOK(w) /\ w \in ClusterWorker
      /\ \A k \in AgentClusters : deployment[k] \in DeploymentObj
  BY DEF TypeInv, ClusterTypeOK
<1>i. w.pc # "idle"
  BY DEF ReconcileStep, PatchOrphan, FindClusterDeployment, GetControlPlane,
     LabelControlPlaneSecrets, CreateClusterDeployment, PatchOwner, LabelCaSecret,
     CreateAgentClusterInstall, PatchSpec, PatchStatus, Finish, At
<1>k. w.k \in AgentClusters
  BY <1>i, <1>t DEF WorkerOK
<1>r. GoesOn(w, Retry(w)) /\ Retry(w).pc = "patchSpec" /\ Retry(w).obj = w.obj
  BY <1>t, RetryIs
<1>o. w.obj \in ClusterObj /\ cluster[w.k] \in ClusterObj
  BY <1>k, <1>t DEF ClusterTypeOK, ClusterWorker
<1>1. ASSUME PatchOrphan PROVE Goal
  <2> DEFINE j == w.obj.ref
             d == deployment[j]
             v == [d EXCEPT !.owned = @ /\ j # w.k]
  <2>1. w.pc = "orphan" /\ j \in AgentClusters
    BY <1>1, <1>t DEF PatchOrphan, At, WorkerOK, RefPcs
  <2>2. /\ v.exists = d.exists /\ v.label = d.label /\ (v.owned => d.owned)
        /\ j = w.k => ~v.owned
        /\ d.exists \in BOOLEAN
    BY <1>t, <2>1 DEF DeploymentObj
  <2>3. CallDeployment(j, v, d.exists, Orphaned(w), Retry(w))
    BY <1>1 DEF PatchOrphan
  <2>4. /\ GoesOn(w, Orphaned(w)) /\ Orphaned(w).pc = "patchSpec"
        /\ Orphaned(w).obj.ref = j /\ Orphaned(w).obj.ready = w.obj.ready
        /\ Orphaned(w).obj.fin = (w.obj.fin /\ w.obj.st # "deleting")
    BY <1>t, OrphanedIs
  <2>f. w.obj.fin \in BOOLEAN
    BY <1>o DEF ClusterObj
  <2> HIDE DEF v, j
  <2>5. /\ OnlyDeployment(j)
        /\ \/ deployment'[j] = v /\ r = Orphaned(w)
           \/ deployment'[j] = v /\ r = Retry(w)
           \/ deployment' = deployment /\ r = Retry(w)
        /\ UNCHANGED <<cluster, install>>
    BY <1>t, <2>1, <2>2, <2>3, DeploymentWritten
  <2>6. \A i \in AgentClusters : /\ deployment'[i].exists = deployment[i].exists
                                 /\ deployment'[i].label = deployment[i].label
                                 /\ deployment'[i].owned => deployment[i].owned
    BY <2>1, <2>2, <2>5 DEF OnlyDeployment
  <2>7. /\ GoesOn(w, r) /\ r.pc = "patchSpec" /\ r.obj.ref = j /\ r.obj.ready = w.obj.ready
        /\ \/ r.obj.fin = w.obj.fin
           \/ w.obj.st = "deleting" /\ ~r.obj.fin /\ (j = w.k => ~deployment'[w.k].owned)
    <3>1. CASE r = Retry(w)
      BY <1>r, <3>1 DEF j
    <3>2. CASE r = Orphaned(w) /\ deployment'[j] = v
      BY <2>2, <2>4, <2>f, <3>2
    <3> QED
      BY <2>5, <3>1, <3>2
  <2> QED
    BY <2>1, <2>5, <2>6, <2>7 DEF CallMoves, j
<1>2. ASSUME FindClusterDeployment PROVE Goal
  <2>1. w.pc = "find" /\ UNCHANGED <<cluster, deployment, install>>
    BY <1>2 DEF FindClusterDeployment, At, objects
  <2>2. ASSUME NEW j \in AgentClusters, deploymentCache[j].exists,
               deploymentCache[j].label = NameOf[w.k], r = Recorded(w, j)
        PROVE  Goal
    <3> DEFINE x == [w EXCEPT !.obj.ref = j]
    <3>1. /\ GoesOn(w, x)
          /\ x.obj.ref = j /\ x.obj.ready = w.obj.ready /\ x.obj.fin = w.obj.fin
      BY <1>t, SetRef DEF RefOrNone
    <3>2. r = Return(x)
      BY <2>2 DEF Recorded
    <3> HIDE DEF x
    <3>3. GoesOn(x, r) /\ r.pc = "patchSpec" /\ r.obj = x.obj
      BY <3>1, <3>2, ReturnIs DEF GoesOn
    <3>4. GoesOn(w, r)
      BY <3>1, <3>3 DEF GoesOn
    <3> QED
      BY <2>1, <2>2, <3>1, <3>3, <3>4 DEF CallMoves
  <2>3. ASSUME r = [w EXCEPT !.pc = "plane"]
        PROVE  Goal
    <3>1. GoesOn(w, r) /\ r.pc = "plane" /\ r.obj = w.obj
      BY <1>t, <2>3, SetPc DEF ClusterPcs
    <3> QED
      BY <2>1, <3>1 DEF CallMoves, SameObj
  <2> QED
    BY <1>2, <2>2, <2>3 DEF FindClusterDeployment
<1>3. ASSUME GetControlPlane PROVE Goal
  <2>1. w.pc = "plane" /\ UNCHANGED <<cluster, deployment, install>>
    BY <1>3 DEF GetControlPlane, At, objects
  <2>2. r = [w EXCEPT !.pc = "labelSecrets"] \/ r = Retry(w)
    BY <1>3 DEF GetControlPlane, AfterControlPlane
  <2>3. GoesOn(w, r) /\ r.pc \in {"labelSecrets", "patchSpec"} /\ r.obj = w.obj
    <3>1. CASE r = [w EXCEPT !.pc = "labelSecrets"]
      BY <1>t, <3>1, SetPc DEF ClusterPcs
    <3>2. CASE r = Retry(w)
      BY <1>r, <3>2
    <3> QED
      BY <2>2, <3>1, <3>2
  <2> QED
    BY <2>1, <2>3 DEF CallMoves, SameObj
<1>4. ASSUME LabelControlPlaneSecrets PROVE Goal
  <2>1. w.pc = "labelSecrets" /\ LabelSecrets("controlPlane", "create")
    BY <1>4 DEF LabelControlPlaneSecrets, At
  <2>2. /\ GoesOn(w, r) /\ r.pc = "create" /\ SameObj(w, r)
        /\ UNCHANGED <<cluster, deployment, install>>
    BY <1>k, <1>t, <2>1, SecretsWritten DEF ClusterPcs
  <2> QED
    BY <2>1, <2>2 DEF CallMoves
<1>5. ASSUME CreateClusterDeployment PROVE Goal
  <2> DEFINE k == w.k
             x == [w EXCEPT !.obj.ref = k]
             new == [exists |-> TRUE, label |-> NameOf[k], owned |-> TRUE]
             v == IF deployment[k].exists THEN deployment[k] ELSE new
  <2>1. w.pc = "create"
    BY <1>5 DEF CreateClusterDeployment, At
  <2>2. v = deployment[k] \/ (v.exists /\ v.label = NameOf[k])
    OBVIOUS
  <2>3. /\ GoesOn(w, x)
        /\ x.obj.ref = k /\ x.obj.ready = w.obj.ready /\ x.obj.fin = w.obj.fin
    BY <1>k, <1>t, SetRef DEF RefOrNone
  <2>4. CallDeployment(k, v, TRUE, Return(x), Retry(x))
    BY <1>5 DEF CreateClusterDeployment
  <2> HIDE DEF x, v
  <2>5. /\ OnlyDeployment(k)
        /\ deployment'[k] = v \/ deployment' = deployment
        /\ r = Return(x) \/ r = Retry(x)
        /\ UNCHANGED <<cluster, install>>
    BY <1>k, <1>t, <2>4, DeploymentWritten
  <2>6. GoesOn(x, r) /\ r.pc = "patchSpec" /\ r.obj = x.obj
    BY <2>3, <2>5, ReturnIs, RetryIs DEF GoesOn
  <2>7. GoesOn(w, r)
    BY <2>3, <2>6 DEF GoesOn
  <2> QED
    BY <2>1, <2>2, <2>3, <2>5, <2>6, <2>7 DEF CallMoves
<1>6. ASSUME PatchOwner PROVE Goal
  <2> DEFINE k == w.k
             d == deployment[k]
             v == [d EXCEPT !.label = NameOf[k], !.owned = @ \/ ~IsOwned(w)]
             e == EnsureAgentClusterInstall(w)
  <2>1. w.pc = "own"
    BY <1>6 DEF PatchOwner, At
  <2>2. v.exists = d.exists /\ v.label = NameOf[k] /\ d.exists \in BOOLEAN
    BY <1>k, <1>t DEF DeploymentObj
  <2>3. CallDeployment(k, v, d.exists, e, Retry(w))
    BY <1>6 DEF PatchOwner
  <2>4. /\ GoesOn(w, e) /\ e.obj.ref = w.obj.ref /\ e.obj.fin = w.obj.fin
        /\ \/ e.pc = "patchSpec" /\ w.obj.ref \in installCache
           \/ e.pc = "labelCa" /\ e.obj.ready = w.obj.ready
    BY <1>t, EnsureInstallIs
  <2> HIDE DEF v, e
  <2>5. /\ OnlyDeployment(k)
        /\ (d.exists /\ deployment'[k] = v) \/ deployment' = deployment
        /\ r = e \/ r = Retry(w)
        /\ UNCHANGED <<cluster, install>>
    BY <1>k, <1>t, <2>2, <2>3, DeploymentWritten
  <2>6. /\ GoesOn(w, r) /\ r.obj.ref = w.obj.ref /\ r.obj.fin = w.obj.fin
        /\ \/ r.pc = "patchSpec" /\ r.obj.ready = w.obj.ready
           \/ r.pc = "labelCa" /\ r.obj.ready = w.obj.ready
           \/ r.pc = "patchSpec" /\ w.obj.ref \in installCache
    BY <1>r, <2>4, <2>5
  <2>7. \/ deployment'[k] = d
        \/ d.exists /\ deployment'[k].exists /\ deployment'[k].label = NameOf[k]
    BY <2>2, <2>5
  <2> QED
    BY <2>1, <2>5, <2>6, <2>7 DEF CallMoves
<1>7. ASSUME LabelCaSecret PROVE Goal
  <2>1. w.pc = "labelCa" /\ LabelSecrets("ca", "install")
    BY <1>7 DEF LabelCaSecret, At
  <2>2. /\ GoesOn(w, r) /\ r.pc = "install" /\ SameObj(w, r)
        /\ UNCHANGED <<cluster, deployment, install>>
    BY <1>k, <1>t, <2>1, SecretsWritten DEF ClusterPcs
  <2> QED
    BY <2>1, <2>2 DEF CallMoves
<1>8. ASSUME CreateAgentClusterInstall PROVE Goal
  <2>1. w.pc = "install" /\ UNCHANGED <<cluster, deployment>>
    BY <1>8 DEF CreateAgentClusterInstall, At
  <2>2. PICK o \in Outcomes :
          /\ install' = IF o = "error" THEN install ELSE install \union {w.obj.ref}
          /\ r = IF o = "ok" /\ w.obj.ref \notin install THEN Synced(w) ELSE Retry(w)
    BY <1>8 DEF CreateAgentClusterInstall
  <2>3. /\ GoesOn(w, Synced(w)) /\ Synced(w).pc = "patchSpec"
        /\ Synced(w).obj.ref = w.obj.ref /\ Synced(w).obj.fin = w.obj.fin
    BY <1>t, SyncedIs
  <2>4. /\ GoesOn(w, r) /\ r.pc = "patchSpec"
        /\ r.obj.ref = w.obj.ref /\ r.obj.fin = w.obj.fin
        /\ r.obj.ready = w.obj.ready \/ w.obj.ref \in install'
    BY <1>r, <2>2, <2>3
  <2>5. install \subseteq install' /\ install' \subseteq install \union {w.obj.ref}
    BY <2>2
  <2> QED
    BY <2>1, <2>4, <2>5 DEF CallMoves
<1>9. ASSUME PatchSpec PROVE Goal
  <2> DEFINE s == cluster[w.k]
             added == w.obj.fin /\ ~w.before.fin
             refused == s.st = "gone" \/ (s.st = "deleting" /\ added /\ ~s.fin)
             u == [s EXCEPT !.fin = IF w.obj.fin # w.before.fin THEN w.obj.fin ELSE @,
                            !.backup = @ \/ w.obj.backup]
             v == Collect(u)
  <2>1. w.pc = "patchSpec" /\ CallPatch(SpecChanged(w), ~refused, v, "patchStatus")
    BY <1>9 DEF PatchSpec, At
  <2>2. w.before.fin \in BOOLEAN /\ w.obj.fin \in BOOLEAN
    BY <1>t DEF ClusterWorker, ClusterObj
  <2>3. /\ u.st = s.st /\ u.paused = s.paused /\ u.ref = s.ref /\ u.ready = s.ready
        /\ ~u.fin => ~s.fin \/ (~w.obj.fin /\ w.before.fin)
    BY <1>o, <2>2 DEF ClusterObj
  <2> HIDE DEF u
  <2>4. ~refused => SpecPatched(w, s, v)
    BY <2>3 DEF SpecPatched, Collect
  <2>5. SpecChanged(w) \in BOOLEAN /\ (~refused) \in BOOLEAN
    BY DEF SpecChanged
  <2> HIDE DEF v, refused, added
  <2>6. /\ GoesOn(w, r) /\ r.pc = "patchStatus" /\ r.obj = w.obj
        /\ OnlyCluster(w.k)
        /\ (~refused /\ cluster'[w.k] = v) \/ cluster'[w.k] = s
        /\ UNCHANGED <<deployment, install>>
    BY <1>k, <1>t, <2>1, <2>5, ClusterWritten DEF ClusterPcs
  <2>7. SpecPatched(w, s, cluster'[w.k])
    BY <2>4, <2>6 DEF SpecPatched
  <2> QED
    BY <2>1, <2>6, <2>7 DEF CallMoves
<1>10. ASSUME PatchStatus PROVE Goal
  <2> DEFINE s == cluster[w.k]
             v == [s EXCEPT !.ref = IF w.obj.ref # w.before.ref THEN w.obj.ref ELSE @,
                            !.ready = IF w.obj.ready # w.before.ready THEN w.obj.ready ELSE @]
  <2>1. w.pc = "patchStatus" /\ CallPatch(StatusChanged(w), s.st # "gone", v, "done")
    BY <1>10 DEF PatchStatus, At
  <2>2. /\ v.st = s.st /\ v.paused = s.paused /\ v.fin = s.fin
        /\ v.ref = IF w.obj.ref # w.before.ref THEN w.obj.ref ELSE s.ref
        /\ v.ready = IF w.obj.ready # w.before.ready THEN w.obj.ready ELSE s.ready
    BY <1>o DEF ClusterObj
  <2>3. StatusChanged(w) \in BOOLEAN /\ (s.st # "gone") \in BOOLEAN
    BY DEF StatusChanged
  <2> HIDE DEF v
  <2>4. /\ GoesOn(w, r) /\ r.pc = "done" /\ r.obj = w.obj
        /\ OnlyCluster(w.k)
        /\ \/ s.st # "gone" /\ cluster'[w.k] = v
           \/ /\ cluster'[w.k] = s
              /\ ~StatusChanged(w) \/ s.st = "gone" \/ "apiError" \in Environment
        /\ UNCHANGED <<deployment, install>>
    BY <1>k, <1>t, <2>1, <2>3, ClusterWritten DEF ClusterPcs
  <2>5. StatusPatched(w, s, cluster'[w.k])
    BY <2>2, <2>4 DEF StatusPatched
  <2> QED
    BY <2>1, <2>4, <2>5 DEF CallMoves
<1>11. ASSUME Finish PROVE Goal
  BY <1>11 DEF Finish, objects
<1> HIDE DEF Goal
<1>12. Goal
  BY <1>1, <1>2, <1>3, <1>4, <1>5, <1>6, <1>7, <1>8, <1>9, <1>10, <1>11 DEF ReconcileStep
<1> QED
  BY <1>i, <1>k, <1>12 DEF Goal

-----------------------------------------------------------------------------
(* Deleted while paused *)

NewPcs == {"find", "plane", "labelSecrets", "create"}
PatchPcs == {"patchSpec", "patchStatus", "done"}

\* Until the call that writes it, ClusterDeploymentRef is as NewHelper saw it, and
\* a reference that was there is kept.
CurrentCall(w, s) ==
  /\ w.pc \in NewPcs => w.before.ref = None
  /\ w.before.ref # None => w.obj.ref = w.before.ref
  /\ w.pc # "done" /\ s.st # "gone" => s.ref = w.before.ref

\* A Reconcile call w that removes the finalizer of an AgentCluster s does so because
\* it is under deletion, and has orphaned its ClusterDeployment d if it is paused.
OrphansFirst(w, s, d) ==
  /\ w.pc \notin PatchPcs => w.obj.fin
  /\ ~w.obj.fin => w.obj.st = "deleting"
  /\ w.obj.st = "deleting" =>
       /\ w.obj.ref = w.before.ref
       /\ w.pc \in PatchPcs \union {"orphan"}
       /\ s.st # "gone" => s.st = "deleting" /\ s.paused = w.obj.paused
  /\ w.pc = "patchSpec" /\ ~w.obj.fin /\ w.obj.paused /\ w.obj.ref = w.k => ~d.owned

\* An AgentCluster under deletion has its finalizer, and what is owned exists.
HeldTogether ==
  \A k \in AgentClusters :
    /\ cluster[k].st = "deleting" => cluster[k].fin
    /\ deployment[k].owned => deployment[k].exists

CallCurrent == worker.pc # "idle" => CurrentCall(worker, cluster[worker.k])

OrphanInv ==
  /\ TypeInv /\ HeldTogether /\ CallCurrent
  /\ worker.pc # "idle" =>
       OrphansFirst(worker, cluster[worker.k], deployment[worker.k])

LEMMA StepsArePrompt ==
  ASSUME "stale" \notin Environment,
         ReconcileStep \/ \E k \in AgentClusters : Reconcile(k)
  PROVE  cluster = clusterCache /\ deployment = deploymentCache /\ install = installCache
<1>1. Prompt
  BY DEF ReconcileStep, PatchOrphan, FindClusterDeployment, GetControlPlane,
     LabelControlPlaneSecrets, CreateClusterDeployment, PatchOwner, LabelCaSecret,
     CreateAgentClusterInstall, PatchSpec, PatchStatus, Finish, Reconcile, At
<1> QED
  BY <1>1 DEF Prompt

\* The same, whatever the step: a call goes on, one starts, or none is there after a
\* step of someone else.
LEMMA CurrentStep ==
  ASSUME "stale" \notin Environment, TypeInv, CallCurrent, [Next]_vars
  PROVE  CallCurrent'
<1> DEFINE w == worker
           r == worker'
<1>1. CASE UNCHANGED <<cluster, objects, worker>>
  BY <1>1 DEF CallCurrent
<1>2. CASE ReconcileStep
  <2>1. r = IdleWorker => r.pc = "idle"
    BY IdleIsOK
  <2>2. ASSUME GoesOn(w, r), CallMoves(w, r), CurrentCall(w, cluster[w.k])
        PROVE  CurrentCall(r, cluster'[r.k])
    <3>1. /\ r.k = w.k /\ r.before = w.before
          /\ w.pc \in NewPcs => w.before.ref = None
          /\ w.before.ref # None => w.obj.ref = w.before.ref
          /\ w.pc # "done" /\ cluster[w.k].st # "gone" => cluster[w.k].ref = w.before.ref
      BY <2>2 DEF GoesOn, CurrentCall
    <3>2. r.pc \in NewPcs => r.before.ref = None
      BY <2>2, <3>1 DEF CallMoves, NewPcs
    <3>3. r.before.ref # None => r.obj.ref = r.before.ref
      BY <2>2, <3>1 DEF CallMoves, NewPcs, SameObj
    <3>4. r.pc # "done" /\ cluster'[w.k].st # "gone" => cluster'[w.k].ref = w.before.ref
      <4>1. CASE UNCHANGED cluster /\ w.pc # "done"
        BY <3>1, <4>1
      <4>2. CASE w.pc = "patchSpec" /\ SpecPatched(w, cluster[w.k], cluster'[w.k])
        <5>1. GoneCluster.st = "gone"
          BY DEF GoneCluster, NewCluster
        <5> QED
          BY <3>1, <4>2, <5>1 DEF SpecPatched
      <4>3. CASE r.pc = "done"
        BY <4>3
      <4> QED
        BY <2>2, <4>1, <4>2, <4>3 DEF CallMoves
    <3> QED
      BY <3>1, <3>2, <3>3, <3>4 DEF CurrentCall
  <2> QED
    BY <1>2, <2>1, <2>2, CallsMove DEF CallCurrent
<1>3. ASSUME NEW k \in AgentClusters, Reconcile(k)
      PROVE  CallCurrent'
  <2>1. cluster = clusterCache /\ UNCHANGED cluster
    BY <1>3, StepsArePrompt DEF Reconcile
  <2>2. ASSUME NEW x \in ClusterWorker, x.k = k, x.obj = cluster[k], x.before = cluster[k],
               r = Begin(x)
        PROVE  CurrentCall(r, cluster'[r.k])
    <3>1. /\ GoesOn(x, r) /\ r.obj.ref = x.obj.ref
          /\ r.pc \in NewPcs => x.obj.ref = None
      BY <2>2, BeginIs DEF NewPcs
    <3> QED
      BY <2>1, <2>2, <3>1 DEF GoesOn, CurrentCall
  <2>3. UNCHANGED worker => CallCurrent'
    BY <2>1 DEF CallCurrent
  <2> QED
    BY <1>3, <2>1, <2>2, <2>3, ReconcileBegins DEF CallCurrent
<1>4. CASE UsersWrite
  <2>1. PICK k \in AgentClusters, v \in ClusterObj :
          /\ UserWrites(cluster[k], v, w.k = k)
          /\ cluster' = [cluster EXCEPT ![k] = v]
    BY <1>4 DEF UsersWrite
  <2>2. UNCHANGED worker
    BY <1>4 DEF UsersWrite
  <2>3. cluster'[k] = v /\ \A j \in AgentClusters : j # k => cluster'[j] = cluster[j]
    BY <2>1 DEF TypeInv, ClusterTypeOK
  <2>4. GoneCluster.st = "gone"
    BY DEF GoneCluster, NewCluster
  <2>5. w.pc # "idle" => w.k \in AgentClusters
    BY DEF TypeInv, WorkerOK
  <2> QED
    BY <2>1, <2>2, <2>3, <2>4, <2>5 DEF CallCurrent, CurrentCall, UserWrites
<1>5. ASSUME NEW k \in AgentClusters, ControlPlaneComplete(k) \/ GarbageCollect(k)
      PROVE  CallCurrent'
  <2>1. UNCHANGED <<cluster, worker>>
    BY <1>5 DEF ControlPlaneComplete, GarbageCollect
  <2> QED
    BY <2>1 DEF CallCurrent
<1>6. CASE Restarts
  BY <1>6, IdleIsOK DEF Restarts, CallCurrent
<1> QED
  BY <1>1, <1>2, <1>3, <1>4, <1>5, <1>6, ClusterSteps

LEMMA GoneIsGone ==
  /\ GoneCluster.st = "gone" /\ GoneCluster.ref = None /\ ~GoneCluster.ready
  /\ NewCluster.st = "live" /\ NewCluster.ref = None /\ ~NewCluster.ready
BY DEF GoneCluster, NewCluster

\* A Reconcile call keeps what it has to keep while it goes on.
LEMMA OrphanCall ==
  ASSUME OrphanInv, worker.pc # "idle", worker.k \in AgentClusters,
         GoesOn(worker, worker'), CallMoves(worker, worker')
  PROVE  /\ HeldTogether'
         /\ OrphansFirst(worker', cluster'[worker'.k], deployment'[worker'.k])
<1> DEFINE w == worker
           r == worker'
           k == w.k
           s == cluster[k]
           d == deployment[k]
<1>1. /\ r.k = k /\ r.before = w.before
      /\ r.obj.st = w.obj.st /\ r.obj.paused = w.obj.paused
  BY DEF GoesOn
<1>2. CurrentCall(w, s) /\ OrphansFirst(w, s, d) /\ HeldTogether
  BY DEF OrphanInv, CallCurrent
<1>3. ASSUME NEW j \in AgentClusters
      PROVE  deployment'[j].owned => deployment'[j].exists
  <2>0. deployment[j].owned => deployment[j].exists
    BY <1>2 DEF HeldTogether
  <2>1. CASE UNCHANGED deployment
    BY <2>0, <2>1
  <2>2. CASE \A i \in AgentClusters : /\ deployment'[i].exists = deployment[i].exists
                                      /\ deployment'[i].owned => deployment[i].owned
    BY <2>0, <2>2
  <2>3. CASE OnlyDeployment(k) /\ (deployment'[k] = d \/ deployment'[k].exists)
    BY <2>0, <2>3 DEF OnlyDeployment
  <2> QED
    BY <2>1, <2>2, <2>3 DEF CallMoves
<1>4. ASSUME NEW j \in AgentClusters
      PROVE  cluster'[j].st = "deleting" => cluster'[j].fin
  <2>1. CASE UNCHANGED cluster
    BY <1>2, <2>1 DEF HeldTogether
  <2>2. CASE OnlyCluster(k) /\ SpecPatched(w, s, cluster'[k])
    BY <1>2, <2>2, GoneIsGone DEF HeldTogether, OnlyCluster, SpecPatched
  <2>3. CASE OnlyCluster(k) /\ StatusPatched(w, s, cluster'[k])
    BY <1>2, <2>3 DEF HeldTogether, OnlyCluster, StatusPatched
  <2> QED
    BY <2>1, <2>2, <2>3 DEF CallMoves
<1>5. r.pc \notin PatchPcs => r.obj.fin
  BY <1>2 DEF CallMoves, OrphansFirst, PatchPcs, SameObj
<1>6. ~r.obj.fin => r.obj.st = "deleting"
  BY <1>1, <1>2 DEF CallMoves, OrphansFirst, PatchPcs, SameObj
<1>7. r.obj.st = "deleting" => r.obj.ref = r.before.ref /\ r.pc \in PatchPcs \union {"orphan"}
  BY <1>1, <1>2 DEF CallMoves, OrphansFirst, PatchPcs
<1>8. r.obj.st = "deleting" /\ cluster'[k].st # "gone" =>
        cluster'[k].st = "deleting" /\ cluster'[k].paused = r.obj.paused
  <2>1. CASE UNCHANGED cluster
    BY <1>1, <1>2, <2>1 DEF OrphansFirst
  <2>2. CASE SpecPatched(w, s, cluster'[k])
    BY <1>1, <1>2, <2>2, GoneIsGone DEF OrphansFirst, SpecPatched
  <2>3. CASE StatusPatched(w, s, cluster'[k])
    BY <1>1, <1>2, <2>3 DEF OrphansFirst, StatusPatched
  <2> QED
    BY <2>1, <2>2, <2>3 DEF CallMoves
<1>9. r.pc = "patchSpec" /\ ~r.obj.fin /\ r.obj.paused /\ r.obj.ref = k =>
        ~deployment'[k].owned
  BY <1>1, <1>2 DEF CallMoves, OrphansFirst, PatchPcs, SameObj
<1>10. OrphansFirst(r, cluster'[k], deployment'[k])
  BY <1>1, <1>5, <1>6, <1>7, <1>8, <1>9 DEF OrphansFirst
<1> QED
  BY <1>1, <1>3, <1>4, <1>10 DEF HeldTogether

LEMMA OrphanStep ==
  ASSUME "stale" \notin Environment, OrphanInv, [Next]_vars
  PROVE  OrphanInv'
<1> DEFINE w == worker
           r == worker'
           Goal == /\ HeldTogether'
                   /\ r.pc # "idle" => OrphansFirst(r, cluster'[r.k], deployment'[r.k])
<1>t. TypeInv /\ CallCurrent /\ HeldTogether /\ (w.pc # "idle" => w.k \in AgentClusters)
  BY DEF OrphanInv, TypeInv, WorkerOK
<1>i. w.pc # "idle" => OrphansFirst(w, cluster[w.k], deployment[w.k])
  BY DEF OrphanInv
<1>0. TypeInv' /\ CallCurrent'
  BY <1>t, ClusterSteps, CurrentStep
<1>1. ASSUME UNCHANGED <<cluster, deployment, worker>>
      PROVE  Goal
  BY <1>1, <1>i, <1>t DEF HeldTogether
<1>2. ASSUME ReconcileStep PROVE Goal
  <2>1. CASE r = IdleWorker /\ UNCHANGED <<cluster, deployment>>
    BY <1>t, <2>1, IdleIsOK DEF HeldTogether
  <2>2. CASE GoesOn(w, r) /\ CallMoves(w, r)
    BY <1>2, <1>t, <2>2, CallsMove, OrphanCall
  <2> QED
    BY <1>2, <1>t, <2>1, <2>2, CallsMove
<1>3. ASSUME NEW k \in AgentClusters, Reconcile(k) PROVE Goal
  <2>1. /\ cluster = clusterCache /\ deployment = deploymentCache
        /\ UNCHANGED <<cluster, deployment>>
    BY <1>3, StepsArePrompt DEF Reconcile, objects
  <2>2. ASSUME NEW x \in ClusterWorker, x.k = k, x.obj = cluster[k], x.before = cluster[k],
               r = Begin(x)
        PROVE  OrphansFirst(r, cluster'[r.k], deployment'[r.k])
    <3>1. /\ r.k = k /\ r.before = cluster[k]
          /\ r.obj.st = cluster[k].st /\ r.obj.paused = cluster[k].paused
          /\ r.obj.ref = cluster[k].ref
      BY <2>2, BeginIs DEF GoesOn
    <3>2. \/ /\ cluster[k].st = "deleting"
             /\ \/ r.pc = "orphan" /\ r.obj.fin = cluster[k].fin
                \/ /\ r.pc = "patchSpec" /\ ~r.obj.fin
                   /\ \/ ~cluster[k].paused \/ cluster[k].ref = None
                      \/ ~deployment[cluster[k].ref].exists
                      \/ ~IsOwned(x)
          \/ cluster[k].st # "deleting" /\ r.obj.fin
      BY <2>1, <2>2, BeginIs
    <3>3. cluster[k].ref = k /\ ~IsOwned(x) => ~deployment[k].owned
      BY <2>1, <2>2 DEF IsOwned
    <3>4. cluster[k].st = "deleting" => cluster[k].fin
      BY <1>t DEF HeldTogether
    <3>5. deployment[k].owned => deployment[k].exists
      BY <1>t DEF HeldTogether
    <3>6. None # k
      BY ClusterConstantTypes
    <3>7. UNCHANGED <<cluster, deployment>>
      BY <2>1
    <3> QED
      BY <3>1, <3>2, <3>3, <3>4, <3>5, <3>6, <3>7 DEF OrphansFirst, PatchPcs
  <2>3. HeldTogether'
    BY <1>t, <2>1 DEF HeldTogether
  <2> QED
    BY <1>1, <1>3, <1>t, <2>1, <2>2, <2>3, ReconcileBegins
<1>4. ASSUME UsersWrite PROVE Goal
  <2>1. PICK k \in AgentClusters, v \in ClusterObj :
          /\ UserWrites(cluster[k], v, w.k = k)
          /\ cluster' = [cluster EXCEPT ![k] = v]
    BY <1>4 DEF UsersWrite
  <2>2. UNCHANGED <<deployment, worker>>
    BY <1>4 DEF UsersWrite, objects
  <2>3. cluster'[k] = v /\ \A j \in AgentClusters : j # k => cluster'[j] = cluster[j]
    BY <1>t, <2>1 DEF TypeInv, ClusterTypeOK
  <2>4. HeldTogether'
    BY <1>t, <2>1, <2>2, <2>3, GoneIsGone DEF HeldTogether, UserWrites
  <2>5. w.pc # "idle" => OrphansFirst(w, cluster'[w.k], deployment[w.k])
    BY <1>i, <1>t, <2>1, <2>3, GoneIsGone DEF OrphansFirst, UserWrites
  <2> QED
    BY <2>2, <2>4, <2>5
<1>5. ASSUME NEW k \in AgentClusters, ControlPlaneComplete(k) \/ GarbageCollect(k)
      PROVE  Goal
  <2>1. UNCHANGED <<cluster, worker>>
    BY <1>5 DEF ControlPlaneComplete, GarbageCollect
  <2>2. \A j \in AgentClusters : deployment'[j] = deployment[j] \/ ~deployment'[j].owned
    BY <1>5, <1>t, NoDeploymentIsTyped
       DEF ControlPlaneComplete, GarbageCollect, TypeInv, ClusterTypeOK
  <2>3. HeldTogether'
    BY <1>t, <2>1, <2>2 DEF HeldTogether
  <2>4. w.pc # "idle" => OrphansFirst(w, cluster[w.k], deployment'[w.k])
    BY <1>i, <1>t, <2>2 DEF OrphansFirst
  <2> QED
    BY <2>1, <2>3, <2>4
<1>6. ASSUME Restarts PROVE Goal
  <2>1. UNCHANGED deployment /\ r.pc = "idle"
    BY <1>6, IdleIsOK DEF Restarts, objects
  <2>2. ASSUME NEW k \in AgentClusters
        PROVE  cluster'[k].st = "deleting" => cluster'[k].fin
    <3>1. cluster[k] \in ClusterObj
      BY <1>t DEF TypeInv, ClusterTypeOK
    <3>2. cluster'[k] = cluster[k] \/ (cluster[k].st = "live" /\
            cluster'[k] = [cluster[k] EXCEPT !.ref = None, !.ready = FALSE])
      BY <1>6 DEF Restarts
    <3> QED
      BY <1>t, <3>1, <3>2 DEF HeldTogether, ClusterObj
  <2> QED
    BY <1>t, <2>1, <2>2 DEF HeldTogether
<1> HIDE DEF Goal
<1>7. UNCHANGED <<cluster, objects, worker>> => UNCHANGED <<cluster, deployment, worker>>
  BY DEF objects
<1>8. Goal
  BY <1>1, <1>2, <1>3, <1>4, <1>5, <1>6, <1>7, <1>t, ClusterSteps
<1> QED
  BY <1>0, <1>8 DEF OrphanInv, Goal

LEMMA OrphanInit == Init => OrphanInv
<1> SUFFICES ASSUME Init PROVE OrphanInv
  OBVIOUS
<1>1. worker.pc = "idle"
  BY IdleIsOK DEF Init
<1>2. HeldTogether
  BY GoneIsGone, NoDeploymentIsTyped DEF Init, HeldTogether
<1> QED
  BY <1>1, <1>2, ClusterInitType DEF OrphanInv, CallCurrent

\* An AgentCluster that goes has just lost its finalizer to a Reconcile call, or
\* never had one.
LEMMA GoesOrphaned ==
  ASSUME OrphanInv, [Next]_vars, NEW k \in AgentClusters,
         cluster[k].st = "deleting", cluster[k].paused, cluster[k].ref = k,
         cluster'[k].st = "gone"
  PROVE  ~deployment[k].owned
<1> DEFINE w == worker
           s == cluster[k]
<1>t. TypeInv /\ s.fin /\ cluster \in [AgentClusters -> ClusterObj]
  BY DEF OrphanInv, HeldTogether, TypeInv, ClusterTypeOK
<1>1. cluster'[k] # s
  OBVIOUS
<1>2. ASSUME ReconcileStep
      PROVE  ~deployment[k].owned
  <2>1. GoesOn(w, worker') /\ CallMoves(w, worker') /\ w.pc # "idle" /\ w.k \in AgentClusters
    BY <1>1, <1>2, <1>t, CallsMove
  <2>2. /\ OnlyCluster(w.k)
        /\ \/ w.pc = "patchSpec" /\ SpecPatched(w, cluster[w.k], cluster'[w.k])
           \/ StatusPatched(w, cluster[w.k], cluster'[w.k])
    BY <1>1, <2>1 DEF CallMoves
  <2>3. w.k = k
    BY <1>1, <2>2 DEF OnlyCluster
  <2>4. w.pc = "patchSpec" /\ ~w.obj.fin
    BY <1>1, <1>t, <2>2, <2>3 DEF SpecPatched, StatusPatched
  <2>5. CurrentCall(w, s) /\ OrphansFirst(w, s, deployment[k])
    BY <2>1, <2>3 DEF OrphanInv, CallCurrent
  <2> QED
    BY <2>3, <2>4, <2>5 DEF CurrentCall, OrphansFirst
<1>3. ASSUME UsersWrite
      PROVE  FALSE
  <2>1. PICK j \in AgentClusters, v \in ClusterObj :
          /\ UserWrites(cluster[j], v, w.k = j)
          /\ cluster' = [cluster EXCEPT ![j] = v]
    BY <1>3 DEF UsersWrite
  <2>2. j = k
    BY <1>1, <1>t, <2>1
  <2> QED
    BY <2>1, <2>2 DEF UserWrites
<1>4. ASSUME NEW j \in AgentClusters,
             Reconcile(j) \/ ControlPlaneComplete(j) \/ GarbageCollect(j)
      PROVE  FALSE
  BY <1>1, <1>4 DEF Reconcile, ControlPlaneComplete, GarbageCollect
<1>5. ASSUME Restarts
      PROVE  FALSE
  BY <1>1, <1>5 DEF Restarts
<1> QED
  BY <1>1, <1>2, <1>3, <1>4, <1>5, <1>t, ClusterSteps

\* Deletion of a paused AgentCluster is how a hub is given up without giving up the
\* hosted clusters.  Reconcile reads the reference and the owner, patches the
\* ClusterDeployment, and removes the finalizer by a call of its own, with failed
\* calls, lost answers, crashes, restores and the user's changes in between: the
\* AgentCluster goes only when its ClusterDeployment is out of reach of garbage
\* collection.  Names may be shared between namespaces.
THEOREM PausedOrphans ==
  ASSUME "stale" \notin Environment
  PROVE  Spec => PausedDeletionOrphans
<1>1. OrphanInv /\ [Next]_vars => OrphanInv'
  BY OrphanStep
<1>2. ASSUME OrphanInv, [Next]_vars
      PROVE  [\A k \in AgentClusters :
                /\ cluster[k].st = "deleting" /\ cluster[k].paused /\ cluster[k].ref = k
                /\ cluster'[k].st = "gone"
                => ~deployment[k].owned]_cluster
  BY <1>2, GoesOrphaned
<1> QED
  BY <1>1, <1>2, OrphanInit, PTL DEF Spec, PausedDeletionOrphans

-----------------------------------------------------------------------------
(* What a ready AgentCluster has *)

\* Every AgentCluster has a name of its own.
UniqueClusterNames == \A j, k \in AgentClusters : NameOf[j] = NameOf[k] => j = k

Backed(k) ==
  /\ deployment[k].exists /\ deployment[k].label = NameOf[k]
  /\ k \in install

\* A ClusterDeployment has its label from the start, and an AgentCluster refers to
\* its own.
OwnRefs ==
  \A k \in AgentClusters :
    /\ deployment[k].exists => deployment[k].label = NameOf[k]
    /\ cluster[k].ref \in {None, k}
    /\ cluster[k].st = "gone" => ~cluster[k].ready

\* A Reconcile call has done what its next call builds on.  A ClusterDeployment goes
\* only after the AgentCluster has.
CallBuilds(w) ==
  /\ w.obj.ref \in {None, w.k}
  /\ cluster[w.k].st # "gone" =>
       /\ w.pc \in {"own", "labelCa", "install"} => deployment[w.k].exists
       /\ w.obj.ready => Backed(w.k) /\ w.obj.ref = w.k

CallIsBuilt == worker.pc # "idle" => CallBuilds(worker)

BackedInv ==
  TypeInv /\ CallCurrent /\ OwnRefs /\ CallIsBuilt /\ ReadyIsBacked

\* What exists, and is referred to, after a step of a Reconcile call.
LEMMA BackedObjects ==
  ASSUME BackedInv, worker.pc # "idle", worker.k \in AgentClusters, GoesOn(worker, worker'), CallMoves(worker, worker')
  PROVE  /\ OwnRefs'
         /\ \A k \in AgentClusters : deployment[k].exists => deployment'[k].exists
         /\ install \subseteq install'
<1> DEFINE w == worker
           r == worker'
<1>b. /\ OwnRefs /\ CallBuilds(w) /\ CallCurrent
      /\ w.pc \in RefPcs => w.obj.ref \in AgentClusters
  BY DEF BackedInv, CallIsBuilt, TypeInv, WorkerOK
<1>d. \A k \in AgentClusters : deployment[k].exists => deployment'[k].exists
  BY DEF CallMoves, OnlyDeployment
<1>i. install \subseteq install'
  BY DEF CallMoves
<1>1. ASSUME NEW k \in AgentClusters, deployment'[k].exists
      PROVE  deployment'[k].label = NameOf[k]
  <2>0. deployment[k].exists => deployment[k].label = NameOf[k]
    BY <1>b DEF OwnRefs
  <2>1. CASE /\ deployment'[k].exists = deployment[k].exists
             /\ deployment'[k].label = deployment[k].label
    BY <1>1, <2>0, <2>1
  <2> QED
    BY <2>1 DEF CallMoves, OnlyDeployment
<1>2. ASSUME NEW k \in AgentClusters
      PROVE  /\ cluster'[k].ref \in {None, k}
             /\ cluster'[k].st = "gone" => ~cluster'[k].ready
  <2>0. /\ cluster[k].ref \in {None, k}
        /\ cluster[k].st = "gone" => ~cluster[k].ready
        /\ k = w.k => w.obj.ref \in {None, k}
    BY <1>b DEF OwnRefs, CallBuilds
  <2>1. CASE cluster'[k] = cluster[k]
    BY <2>0, <2>1
  <2>2. CASE k = w.k /\ SpecPatched(w, cluster[k], cluster'[k])
    BY <2>0, <2>2, GoneIsGone DEF SpecPatched
  <2>3. CASE k = w.k /\ StatusPatched(w, cluster[k], cluster'[k])
    BY <2>0, <2>3 DEF StatusPatched
  <2> QED
    BY <2>1, <2>2, <2>3 DEF CallMoves, OnlyCluster
<1> QED
  BY <1>1, <1>2, <1>d, <1>i DEF OwnRefs

LEMMA BackedCall ==
  ASSUME UniqueClusterNames, BackedInv, deployment = deploymentCache, install = installCache,
         NEW k \in AgentClusters, worker.k = k, worker.pc # "idle",
         GoesOn(worker, worker'), CallMoves(worker, worker')
  PROVE  CallIsBuilt' /\ ReadyIsBacked'
<1> DEFINE w == worker
           r == worker'
           s == cluster[k]
<1>b. /\ OwnRefs /\ CallBuilds(w) /\ CurrentCall(w, s) /\ ReadyIsBacked
      /\ w.pc \in RefPcs => w.obj.ref \in AgentClusters
  BY DEF BackedInv, CallIsBuilt, CallCurrent, TypeInv, WorkerOK
<1>m. /\ OwnRefs'
      /\ \A j \in AgentClusters : deployment[j].exists => deployment'[j].exists
      /\ install \subseteq install'
  BY BackedObjects
<1>n. \A j \in AgentClusters : None # j
  BY ClusterConstantTypes
<1>r. r.k = k
  BY DEF GoesOn
<1>f. ASSUME NEW j \in AgentClusters, deployment'[j].exists, j \in install'
      PROVE  Backed(j)'
  BY <1>f, <1>m DEF OwnRefs, Backed
<1>g. cluster'[k].st # "gone" => s.st # "gone"
  <2>1. CASE SpecPatched(w, s, cluster'[k])
    BY <2>1 DEF SpecPatched
  <2>2. CASE StatusPatched(w, s, cluster'[k])
    BY <2>2 DEF StatusPatched
  <2> QED
    BY <2>1, <2>2 DEF CallMoves
<1>1. r.obj.ref \in {None, k}
  <2>1. ASSUME r.obj.ref \in AgentClusters, deploymentCache[r.obj.ref].exists,
               deploymentCache[r.obj.ref].label = NameOf[k]
        PROVE  r.obj.ref = k
    <3>1. deployment[r.obj.ref].label = NameOf[r.obj.ref]
      BY <1>b, <2>1 DEF OwnRefs
    <3> QED
      BY <2>1, <3>1 DEF UniqueClusterNames
  <2> QED
    BY <1>b, <2>1 DEF CallMoves, CallBuilds, SameObj
<1>3. cluster'[k].st # "gone" /\ r.pc \in {"own", "labelCa", "install"} =>
        deployment'[k].exists
  BY <1>b, <1>g, <1>m DEF CallMoves, CallBuilds
<1>4. ASSUME cluster'[k].st # "gone", r.obj.ready
      PROVE  Backed(k)' /\ r.obj.ref = k
  <2>0. s.st # "gone"
    BY <1>4, <1>g
  <2>1. CASE w.obj.ready
    <3>1. Backed(k) /\ w.obj.ref = k
      BY <1>b, <2>0, <2>1 DEF CallBuilds
    <3>2. Backed(k)'
      <4>1. deployment[k].exists /\ k \in install
        BY <3>1 DEF Backed
      <4> QED
        BY <1>f, <1>m, <4>1
    <3>3. r.obj.ref = k
      BY <1>1, <1>n, <3>1 DEF CallMoves, SameObj
    <3> QED
      BY <3>2, <3>3
  <2>2. CASE ~w.obj.ready
    <3>1. /\ w.pc \in {"own", "install"}
          /\ r.obj.ref = w.obj.ref /\ w.obj.ref \in install'
      BY <1>4, <1>m, <2>2 DEF CallMoves, SameObj
    <3>2. w.obj.ref = k /\ deployment[k].exists
      BY <1>b, <1>n, <2>0, <3>1 DEF CallBuilds, RefPcs
    <3> QED
      BY <1>f, <1>m, <3>1, <3>2
  <2> QED
    BY <2>1, <2>2
<1>5. CallIsBuilt'
  BY <1>1, <1>3, <1>4, <1>r DEF CallIsBuilt, CallBuilds
<1>6. ASSUME NEW j \in AgentClusters, cluster'[j].ready
      PROVE  cluster'[j].ref = j /\ Backed(j)'
  <2>1. ASSUME cluster[j].ready
        PROVE  cluster[j].ref = j /\ Backed(j)'
    <3>1. cluster[j].ref = j /\ deployment[j].exists /\ j \in install
      BY <1>b, <2>1 DEF ReadyIsBacked
    <3> QED
      BY <1>f, <1>m, <3>1
  <2>2. CASE cluster'[j] = cluster[j]
    BY <1>6, <2>1, <2>2
  <2>3. CASE j = k /\ SpecPatched(w, s, cluster'[k])
    BY <1>6, <2>1, <2>3, GoneIsGone DEF SpecPatched
  <2>4. CASE j = k /\ w.pc = "patchStatus" /\ StatusPatched(w, s, cluster'[k])
    <3>1. CASE cluster'[k] = s
      BY <1>6, <2>1, <2>4, <3>1
    <3>2. CASE /\ s.st # "gone"
               /\ cluster'[k].ref = IF w.obj.ref # w.before.ref THEN w.obj.ref ELSE s.ref
               /\ cluster'[k].ready =
                    IF w.obj.ready # w.before.ready THEN w.obj.ready ELSE s.ready
      <4>1. s.ref = w.before.ref /\ (w.before.ref # None => w.obj.ref = w.before.ref)
        BY <1>b, <2>4, <3>2 DEF CurrentCall
      <4>2. CASE w.obj.ready
        <5>1. Backed(k) /\ w.obj.ref = k
          BY <1>b, <3>2, <4>2 DEF CallBuilds
        <5>2. Backed(k)'
          <6>1. deployment[k].exists /\ k \in install
            BY <5>1 DEF Backed
          <6> QED
            BY <1>f, <1>m, <6>1
        <5> QED
          BY <2>4, <3>2, <4>1, <5>1, <5>2
      <4>3. CASE s.ready
        BY <1>n, <2>1, <2>4, <3>2, <4>1, <4>3
      <4> QED
        BY <1>6, <2>4, <3>2, <4>2, <4>3
    <3> QED
      BY <2>4, <3>1, <3>2 DEF StatusPatched
  <2> QED
    BY <2>2, <2>3, <2>4 DEF CallMoves, OnlyCluster
<1>7. ReadyIsBacked'
  BY <1>6 DEF ReadyIsBacked, Backed
<1> QED
  BY <1>5, <1>7

LEMMA BackedStep ==
  ASSUME "stale" \notin Environment, UniqueClusterNames, BackedInv, [Next]_vars
  PROVE  BackedInv'
<1> DEFINE w == worker
           r == worker'
           Goal == OwnRefs' /\ CallIsBuilt' /\ ReadyIsBacked'
<1>t. /\ TypeInv /\ CallCurrent /\ OwnRefs /\ CallIsBuilt /\ ReadyIsBacked
      /\ w.pc # "idle" => w.k \in AgentClusters
  BY DEF BackedInv, TypeInv, WorkerOK
<1>0. TypeInv' /\ CallCurrent'
  BY <1>t, ClusterSteps, CurrentStep
<1>n. \A k \in AgentClusters : None # k
  BY ClusterConstantTypes
<1>1. ASSUME UNCHANGED <<cluster, deployment, install>>,
             r = w \/ r.pc = "idle"
      PROVE  Goal
  <2>1. OwnRefs' /\ ReadyIsBacked'
    BY <1>1, <1>t DEF OwnRefs, ReadyIsBacked
  <2>2. CallIsBuilt'
    BY <1>1, <1>t DEF CallIsBuilt, CallBuilds, Backed
  <2> QED
    BY <2>1, <2>2
<1>2. ASSUME ReconcileStep PROVE Goal
  <2>1. deployment = deploymentCache /\ install = installCache
    BY <1>2, StepsArePrompt
  <2>2. CASE r = IdleWorker /\ UNCHANGED <<cluster, deployment, install>>
    BY <1>1, <2>2, IdleIsOK
  <2>3. CASE GoesOn(w, r) /\ CallMoves(w, r)
    <3>1. w.pc # "idle" /\ w.k \in AgentClusters
      BY <1>2, <1>t, CallsMove
    <3> QED
      BY <2>1, <2>3, <3>1, BackedObjects, BackedCall
  <2> QED
    BY <1>2, <1>t, <2>2, <2>3, CallsMove
<1>3. ASSUME NEW k \in AgentClusters, Reconcile(k) PROVE Goal
  <2>1. /\ cluster = clusterCache /\ deployment = deploymentCache /\ install = installCache
        /\ UNCHANGED <<cluster, deployment, install>>
    BY <1>3, StepsArePrompt DEF Reconcile, objects
  <2>2. ASSUME NEW x \in ClusterWorker, x.k = k, x.obj = cluster[k], x.before = cluster[k],
               r = Begin(x)
        PROVE  CallIsBuilt'
    <3>1. r.k = k /\ r.obj.ref = cluster[k].ref
      BY <2>2, BeginIs DEF GoesOn
    <3>2. /\ r.pc # "install"
          /\ r.pc \in {"own", "labelCa"} =>
               cluster[k].ref # None /\ deployment[cluster[k].ref].exists
          /\ \/ r.obj.ready = cluster[k].ready
             \/ deployment[cluster[k].ref].exists /\ cluster[k].ref \in install
      BY <2>1, <2>2, BeginIs
    <3>3. cluster[k].ref \in {None, k} /\ install \subseteq AgentClusters
      BY <1>t DEF OwnRefs, TypeInv, ClusterTypeOK
    <3>4. r.obj.ready => Backed(k) /\ cluster[k].ref = k
      <4>1. cluster[k].ready => Backed(k) /\ cluster[k].ref = k
        BY <1>t DEF ReadyIsBacked, Backed
      <4>2. ASSUME deployment[cluster[k].ref].exists, cluster[k].ref \in install
            PROVE  Backed(k) /\ cluster[k].ref = k
        <5>1. cluster[k].ref = k
          BY <1>n, <3>3, <4>2
        <5> QED
          BY <1>t, <4>2, <5>1 DEF OwnRefs, Backed
      <4> QED
        BY <3>2, <4>1, <4>2
    <3>5. Backed(k) => Backed(k)'
      BY <2>1 DEF Backed
    <3> QED
      BY <2>1, <3>1, <3>2, <3>3, <3>4, <3>5 DEF CallIsBuilt, CallBuilds
  <2>3. OwnRefs' /\ ReadyIsBacked'
    BY <1>t, <2>1 DEF OwnRefs, ReadyIsBacked
  <2> QED
    BY <1>1, <1>3, <1>t, <2>1, <2>2, <2>3, ReconcileBegins
<1>4. ASSUME UsersWrite PROVE Goal
  <2>1. PICK k \in AgentClusters, v \in ClusterObj :
          /\ UserWrites(cluster[k], v, w.k = k)
          /\ cluster' = [cluster EXCEPT ![k] = v]
    BY <1>4 DEF UsersWrite
  <2>2. UNCHANGED <<deployment, install, worker>>
    BY <1>4 DEF UsersWrite, objects
  <2>3. cluster'[k] = v /\ \A j \in AgentClusters : j # k => cluster'[j] = cluster[j]
    BY <1>t, <2>1 DEF TypeInv, ClusterTypeOK
  <2>4. /\ v.ref \in {None, cluster[k].ref}
        /\ v.ready => cluster[k].ready /\ v.ref = cluster[k].ref
        /\ v.st = "gone" => ~v.ready
        /\ v.st # "gone" => cluster[k].st # "gone" \/ w.k # k
    BY <2>1, GoneIsGone DEF UserWrites
  <2>5. OwnRefs'
    BY <1>t, <2>2, <2>3, <2>4 DEF OwnRefs
  <2>6. ReadyIsBacked'
    BY <1>t, <2>2, <2>3, <2>4 DEF ReadyIsBacked
  <2>7. CallIsBuilt'
    <3>1. ASSUME w.pc # "idle"
          PROVE  cluster'[w.k].st # "gone" => cluster[w.k].st # "gone"
      BY <1>t, <2>3, <2>4, <3>1
    <3> QED
      BY <1>t, <2>2, <3>1 DEF CallIsBuilt, CallBuilds, Backed
  <2> QED
    BY <2>5, <2>6, <2>7
<1>5. ASSUME NEW k \in AgentClusters, ControlPlaneComplete(k) PROVE Goal
  BY <1>1, <1>5 DEF ControlPlaneComplete
<1>6. ASSUME NEW k \in AgentClusters, GarbageCollect(k) PROVE Goal
  <2>1. cluster[k].st = "gone" /\ UNCHANGED <<cluster, worker>>
    BY <1>6 DEF GarbageCollect
  <2>2. /\ \A j \in AgentClusters : j # k => deployment'[j] = deployment[j]
        /\ ~deployment'[k].exists
        /\ install' = install \ {k}
    <3>1. ~NoDeployment.exists
      BY DEF NoDeployment
    <3> QED
      BY <1>6, <1>t, <3>1 DEF GarbageCollect, TypeInv, ClusterTypeOK
  <2>3. OwnRefs'
    BY <1>t, <2>1, <2>2 DEF OwnRefs
  <2>4. ReadyIsBacked'
    BY <1>t, <2>1, <2>2 DEF ReadyIsBacked, OwnRefs
  <2>5. CallIsBuilt'
    <3>1. ASSUME w.pc # "idle", cluster[w.k].st # "gone"
          PROVE  /\ deployment'[w.k] = deployment[w.k]
                 /\ w.k \in install => w.k \in install'
      BY <1>t, <2>1, <2>2, <3>1
    <3> QED
      BY <1>t, <2>1, <3>1 DEF CallIsBuilt, CallBuilds, Backed
  <2> QED
    BY <2>3, <2>4, <2>5
<1>7. ASSUME Restarts PROVE Goal
  <2>1. r.pc = "idle" /\ UNCHANGED <<deployment, install>>
    BY <1>7, IdleIsOK DEF Restarts, objects
  <2>2. CASE UNCHANGED cluster
    BY <1>1, <2>1, <2>2
  <2>3. CASE /\ \A k \in AgentClusters : cluster[k].st = "live"
             /\ cluster' = [k \in AgentClusters |->
                              [cluster[k] EXCEPT !.ref = None, !.ready = FALSE]]
    <3>1. ASSUME NEW k \in AgentClusters
          PROVE  /\ cluster'[k].ref = None /\ ~cluster'[k].ready /\ cluster'[k].st = "live"
      <4>1. cluster[k] \in ClusterObj
        BY <1>t DEF TypeInv, ClusterTypeOK
      <4>2. cluster'[k] = [cluster[k] EXCEPT !.ref = None, !.ready = FALSE]
        BY <2>3
      <4> QED
        BY <2>3, <4>1, <4>2 DEF ClusterObj
    <3> QED
      BY <1>t, <2>1, <3>1 DEF OwnRefs, ReadyIsBacked, CallIsBuilt
  <2> QED
    BY <1>7, <2>2, <2>3 DEF Restarts
<1> HIDE DEF Goal
<1>8. UNCHANGED <<cluster, objects, worker>> =>
        UNCHANGED <<cluster, deployment, install, worker>>
  BY DEF objects
<1>9. Goal
  BY <1>1, <1>2, <1>3, <1>4, <1>5, <1>6, <1>7, <1>8, <1>t, ClusterSteps
<1> QED
  BY <1>0, <1>9 DEF BackedInv, Goal

LEMMA BackedInit == Init => BackedInv
<1> SUFFICES ASSUME Init PROVE BackedInv
  OBVIOUS
<1>1. worker.pc = "idle"
  BY IdleIsOK DEF Init
<1>2. ~NoDeployment.exists
  BY DEF NoDeployment
<1>3. OwnRefs /\ ReadyIsBacked
  BY <1>2, GoneIsGone DEF Init, OwnRefs, ReadyIsBacked
<1> QED
  BY <1>1, <1>3, ClusterInitType DEF BackedInv, CallCurrent, CallIsBuilt

\* Reconcile makes what an AgentCluster needs in a chain of calls, each of which may
\* be the last one: it fails or its answer is lost, the process crashes, the user
\* pauses or deletes the AgentCluster, garbage is collected, the hub is restored.
\* Whenever the AgentCluster is ready, its own ClusterDeployment, with the label by
\* which it is found again, and the AgentClusterInstall are there.  The label does
\* not carry the namespace, so names must differ.
THEOREM ReadyHasAll ==
  ASSUME "stale" \notin Environment, UniqueClusterNames
  PROVE  Spec => []ReadyIsBacked
<1>1. BackedInv /\ [Next]_vars => BackedInv'
  BY BackedStep
<1>2. BackedInv => ReadyIsBacked
  BY DEF BackedInv
<1> QED
  BY <1>1, <1>2, BackedInit, PTL DEF Spec

=============================================================================
