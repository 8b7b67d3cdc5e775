-------------------------- MODULE AgentClusterSystem --------------------------
(***************************************************************************)
(* The AgentCluster reconciler in its surroundings: users who pause, delete *)
(* and create AgentClusters, the control plane that comes up, garbage       *)
(* collection, crashes and a restored hub.                                  *)
(***************************************************************************)
EXTENDS AgentClusterController

\* A process starts again with what is now in the API server.
Restart(now) ==
  /\ worker' = IdleWorker
  /\ clusterCache' = now
  /\ deploymentCache' = deployment
  /\ installCache' = install
  /\ queue' = {k \in AgentClusters : now[k].st # "gone"}
  /\ delayed' = {}

Crash ==
  /\ Prompt
  /\ Fault("crash")
  /\ Restart(cluster)
  /\ UNCHANGED <<cluster, objects>>

\* A hub whose AgentClusters have been paused is restored; status is lost.
RestoreHub ==
  /\ Prompt
  /\ Fault("restore")
  /\ \A k \in AgentClusters : /\ cluster[k].st = "live" /\ cluster[k].paused
                              /\ ~deployment[k].owned
  /\ LET restored == [k \in AgentClusters |->
                        [cluster[k] EXCEPT !.ref = None, !.ready = FALSE]]
     IN cluster' = restored /\ Restart(restored)
  /\ UNCHANGED objects

Change(k, v) ==
  /\ Prompt
  /\ cluster' = [cluster EXCEPT ![k] = v]
  /\ UNCHANGED <<objects, caches, queues, worker>>

\* The annotation comes and goes while the AgentCluster is not under deletion.
Pause(k) ==
  /\ Fault("pause")
  /\ cluster[k].st = "live" /\ ~cluster[k].paused
  /\ Change(k, [cluster[k] EXCEPT !.paused = TRUE])

Unpause(k) ==
  /\ cluster[k].st = "live" /\ cluster[k].paused
  /\ Change(k, [cluster[k] EXCEPT !.paused = FALSE])
  /\ UNCHANGED faults

Delete(k) ==
  /\ Fault("delete")
  /\ cluster[k].st = "live"
  /\ cluster[k].fin \/ "earlyDelete" \in Environment
  /\ Change(k, Collect([cluster[k] EXCEPT !.st = "deleting"]))

\* An AgentCluster of the same name, once the garbage of the last one is gone and
\* its last Reconcile call has ended.
Recreate(k) ==
  /\ Fault("recreate")
  /\ cluster[k].st = "gone" /\ ~deployment[k].owned /\ worker.k # k
  /\ Change(k, NewCluster)

EndpointKnown(k) ==
  /\ cluster[k].st = "live" /\ ~cluster[k].endpoint
  /\ Change(k, [cluster[k] EXCEPT !.endpoint = TRUE])
  /\ UNCHANGED faults

\* The owner Cluster is set, and its control plane has what the code reads of it.
ControlPlaneComplete(k) ==
  /\ Prompt
  /\ k \notin plane
  /\ plane' = plane \union {k}
  /\ UNCHANGED <<cluster, deployment, install, secrets, caches, queues, worker, faults>>

\* What an AgentCluster owned goes after it: ClusterDeployment and, with it,
\* AgentClusterInstall.
GarbageCollect(k) ==
  /\ Prompt
  /\ cluster[k].st = "gone" /\ deployment[k].exists /\ deployment[k].owned
  /\ deployment' = [deployment EXCEPT ![k] = NoDeployment]
  /\ install' = install \ {k}
  /\ UNCHANGED <<cluster, plane, secrets, caches, queues, worker, faults>>

-----------------------------------------------------------------------------

Deliver(k) == DeliverCluster(k) \/ DeliverDeployment(k)

Progress(k) == EndpointKnown(k) \/ ControlPlaneComplete(k) \/ GarbageCollect(k)

Users(k) == Pause(k) \/ Unpause(k) \/ Delete(k) \/ Recreate(k)

Next ==
  \/ ReconcileStep
  \/ \E k \in AgentClusters :
       \/ Reconcile(k) \/ Deliver(k) \/ Requeue(k) \/ Resync(k)
       \/ Progress(k) \/ Users(k)
  \/ DeliverInstall
  \/ Crash \/ RestoreHub

Spec == Init /\ [][Next]_vars

\* As for AgentMachines: a running process goes on, the queue is first in first
\* out, control planes come up and garbage is collected.  Users are not fair, and
\* no progress rests on a resync.
FairSpec ==
  /\ Spec
  /\ WF_vars(ReconcileStep) /\ WF_vars(DeliverInstall)
  /\ \A k \in AgentClusters :
       /\ SF_vars(Reconcile(k))
       /\ WF_vars(Deliver(k)) /\ WF_vars(Requeue(k))
       /\ WF_vars(EndpointKnown(k)) /\ WF_vars(ControlPlaneComplete(k))
       /\ WF_vars(GarbageCollect(k))

-----------------------------------------------------------------------------
(* Properties *)

\* The type of every variable.
ClusterTypeOK ==
  /\ cluster \in [AgentClusters -> ClusterObj]
  /\ plane \subseteq AgentClusters
  /\ deployment \in [AgentClusters -> DeploymentObj]
  /\ install \subseteq AgentClusters
  /\ secrets \in [AgentClusters -> SUBSET SecretKinds]
  /\ clusterCache \in [AgentClusters -> ClusterObj]
  /\ deploymentCache \in [AgentClusters -> DeploymentObj]
  /\ installCache \subseteq AgentClusters
  /\ queue \subseteq AgentClusters
  /\ delayed \subseteq AgentClusters
  /\ worker \in ClusterWorker
  /\ faults \in 0..MaxFaults

\* A ready AgentCluster refers to its own ClusterDeployment, which exists with the
\* label by which a restored hub finds it and with an AgentClusterInstall.
ReadyIsBacked ==
  \A k \in AgentClusters :
    cluster[k].ready =>
      /\ cluster[k].ref = k
      /\ deployment[k].exists /\ deployment[k].label = NameOf[k]
      /\ k \in install

\* An AgentCluster that is deleted while paused goes only after the
\* ClusterDeployment it refers to has been orphaned, so that garbage collection
\* leaves the ClusterDeployment alone.
PausedDeletionOrphans ==
  [][\A k \in AgentClusters :
       /\ cluster[k].st = "deleting" /\ cluster[k].paused /\ cluster[k].ref = k
       /\ cluster'[k].st = "gone"
       => ~deployment[k].owned]_cluster

\* An AgentCluster that is neither deleted nor paused for good becomes ready and
\* stays ready, whatever it went through before.
ClusterBecomesReady ==
  \A k \in AgentClusters :
    <>[](cluster[k].st = "live" /\ ~cluster[k].paused) => <>[]cluster[k].ready

\* An AgentCluster under deletion goes in the end.
ClusterDeletionCompletes ==
  \A k \in AgentClusters : cluster[k].st = "deleting" ~> cluster[k].st = "gone"

=============================================================================
