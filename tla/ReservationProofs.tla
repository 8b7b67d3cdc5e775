--------------------------- MODULE ReservationProofs ---------------------------
(***************************************************************************)
(* Theorems about the reservations of AgentMachineSystem: an AgentMachine  *)
(* holds one Agent at most, and the Agent it refers to is its own.         *)
(***************************************************************************)
EXTENDS AgentMachineProofs, FiniteSetTheorems

-----------------------------------------------------------------------------
(* What a Reconcile call does to the record it is going to patch *)

PatchPcs == {"patchSpec", "patchStatus", "done"}

\* The copy r of the AgentMachine still refers to the Agent that w refers to.
KeepsRecord(r, w) ==
  /\ r.m = w.m
  /\ r.before = w.before
  /\ r.mach.phase = w.mach.phase
  /\ r.obj.ref = w.obj.ref
  /\ r.obj.pid = w.obj.pid
  /\ r.obj.ready => w.obj.ready \/ w.obj.ref # None

\* What every computation between two calls does to the worker.
Computed(r, w) ==
  /\ KeepsRecord(r, w)
  /\ r.pc \notin PatchPcs \union {"idle", "claim", "unbind", "label"}
  /\ r.pc = "unbindGet" => w.mach.phase = "waiting"
  /\ r.pc = "find" => w.obj.ref = None

USE DEF PatchPcs, RefPcs, agentCaches

LEMMA ReturnComputed ==
  ASSUME NEW w \in WorkerState
  PROVE  Computed(Return(w), w) /\ Computed(Retry(w), w)
BY DEF Computed, KeepsRecord, Return, Retry, WorkerState, Pcs

LEMMA RemoveFinalizerKeeps ==
  ASSUME NEW w \in WorkerState
  PROVE  /\ RemoveFinalizer(w) \in WorkerState
         /\ RemoveFinalizer(w).pc = w.pc
         /\ KeepsRecord(RemoveFinalizer(w), w)
<1>1. w.obj \in AgentMachineObj
  BY DEF WorkerState
<1>2. [w.obj EXCEPT !.fin = FALSE].ref = w.obj.ref
      /\ [w.obj EXCEPT !.fin = FALSE].pid = w.obj.pid
      /\ [w.obj EXCEPT !.fin = FALSE].ready = w.obj.ready
  BY <1>1 DEF AgentMachineObj
<1>3. RemoveFinalizer(w) = [w EXCEPT !.obj = [w.obj EXCEPT !.fin = FALSE]]
  BY DEF RemoveFinalizer, WorkerState
<1> QED
  BY <1>2, <1>3, RemoveFinalizerType DEF KeepsRecord, WorkerState

LEMMA UpdateStatusComputed ==
  ASSUME NEW w \in WorkerState, NEW err
  PROVE  Computed(UpdateStatus(w, err), w)
<1> DEFINE o(cs) == [w.obj EXCEPT !.ready = FALSE, !.conds = cs]
<1>1. ASSUME NEW cs, NEW pc \in {"patchConds", "status"}
      PROVE  Computed([w EXCEPT !.pc = pc, !.obj = o(cs)], w)
  <2>1. /\ o(cs).ref = w.obj.ref
        /\ o(cs).pid = w.obj.pid
        /\ o(cs).ready = FALSE
    <3>1. w.obj \in AgentMachineObj
      BY DEF WorkerState
    <3> QED
      BY <3>1 DEF AgentMachineObj
  <2> HIDE DEF o
  <2> QED
    BY <1>1, <2>1 DEF Computed, KeepsRecord, WorkerState
<1>2. CASE w.obj.ref # None
  <2>1. \/ UpdateStatus(w, err) = [w EXCEPT !.pc = "status", !.obj = o("all")]
        \/ UpdateStatus(w, err) = [w EXCEPT !.pc = "status", !.obj = o("reserved")]
    BY <1>2 DEF UpdateStatus
  <2> QED
    BY <1>1, <2>1
<1>3. CASE w.obj.ref = None
  <2>1. CASE err
    <3>1. UpdateStatus(w, err) = [w EXCEPT !.pc = "patchConds", !.obj = o("error")]
      BY <1>3, <2>1 DEF UpdateStatus, Return, WorkerState
    <3> QED
      BY <1>1, <3>1
  <2>2. CASE ~err
    <3>1. UpdateStatus(w, err) = [w EXCEPT !.pc = "patchConds", !.obj = o("noAgent")]
      BY <1>3, <2>2 DEF UpdateStatus, Return, WorkerState
    <3> QED
      BY <1>1, <3>1
  <2> QED
    BY <2>1, <2>2
<1> QED
  BY <1>2, <1>3

LEMMA MirrorComputed ==
  ASSUME NEW w \in WorkerState, NEW ag, NEW met, w.obj.ref # None
  PROVE  Computed(MirrorConditions(w, ag, met), w)
<1> DEFINE all == met /\ ag.state = "installed"
           o == [w.obj EXCEPT !.ready = all,
                              !.conds = IF all THEN "all" ELSE "reserved"]
<1>1. o.ref = w.obj.ref /\ o.pid = w.obj.pid
  BY DEF WorkerState, AgentMachineObj
<1>2. MirrorConditions(w, ag, met) = [w EXCEPT !.pc = "patchConds", !.obj = o]
  BY DEF MirrorConditions, Return, WorkerState
<1> HIDE DEF o
<1> QED
  BY <1>1, <1>2 DEF Computed, KeepsRecord, WorkerState

\* A computation may be made of two.
LEMMA ComputedAfter ==
  ASSUME NEW w, NEW x, NEW r, KeepsRecord(x, w), Computed(r, x)
  PROVE  Computed(r, w)
BY DEF Computed, KeepsRecord

LEMMA RemoveHookComputed ==
  ASSUME NEW w \in WorkerState
  PROVE  Computed(RemoveHookAndFinalizer(w), w)
<1>1. Computed(Return(RemoveFinalizer(w)), w)
  BY RemoveFinalizerKeeps, ReturnComputed, ComputedAfter
<1>2. Computed([w EXCEPT !.pc = "removeHook"], w)
  BY DEF Computed, KeepsRecord, WorkerState
<1> QED
  BY <1>1, <1>2 DEF RemoveHookAndFinalizer

LEMMA HandleDeletionHookComputed ==
  ASSUME NEW w \in WorkerState
  PROVE  Computed(HandleDeletionHook(w), w)
<1> DEFINE x == IF w.obj.st = "live" THEN [w EXCEPT !.obj.fin = TRUE] ELSE w
<1>1. x \in WorkerState /\ KeepsRecord(x, w)
  <2>1. /\ [w.obj EXCEPT !.fin = TRUE] \in AgentMachineObj
        /\ [w.obj EXCEPT !.fin = TRUE].ref = w.obj.ref
        /\ [w.obj EXCEPT !.fin = TRUE].pid = w.obj.pid
        /\ [w.obj EXCEPT !.fin = TRUE].ready = w.obj.ready
    BY DEF WorkerState, AgentMachineObj
  <2> QED
    BY <2>1 DEF WorkerState, KeepsRecord
<1> HIDE DEF x
<1>2. x.mach.phase = "waiting" => Computed([x EXCEPT !.pc = "unbindGet"], x)
  BY <1>1 DEF Computed, KeepsRecord, WorkerState
<1>3. Computed([x EXCEPT !.pc = "boot", !.obj.backup = TRUE], x)
  <2>1. /\ [x.obj EXCEPT !.backup = TRUE].ref = x.obj.ref
        /\ [x.obj EXCEPT !.backup = TRUE].pid = x.obj.pid
        /\ [x.obj EXCEPT !.backup = TRUE].ready = x.obj.ready
    BY <1>1 DEF WorkerState, AgentMachineObj
  <2> QED
    BY <1>1, <2>1 DEF Computed, KeepsRecord, WorkerState
<1>4. Computed(Return(x), x) /\ Computed(RemoveHookAndFinalizer(x), x)
  BY <1>1, ReturnComputed, RemoveHookComputed
<1>5. Computed(Return(RemoveFinalizer(x)), x)
  BY <1>1, RemoveFinalizerKeeps, ReturnComputed, ComputedAfter
<1>6. Computed(HandleDeletionHook(w), x)
  BY <1>2, <1>3, <1>4, <1>5 DEF HandleDeletionHook, x
<1> QED
  BY <1>1, <1>6, ComputedAfter

LEMMA BeginComputed ==
  ASSUME NEW w \in WorkerState
  PROVE  Computed(Begin(w), w)
<1>1. Computed([w EXCEPT !.pc = "addHook"], w)
  BY DEF Computed, KeepsRecord, WorkerState
<1>2. Computed(Retry(RemoveFinalizer(w)), w) /\ Computed(Retry(w), w)
  BY RemoveFinalizerKeeps, ReturnComputed, ComputedAfter
<1> QED
  BY <1>1, <1>2, UpdateStatusComputed, HandleDeletionHookComputed DEF Begin

LEMMA AfterUnbindComputed ==
  ASSUME NEW w \in WorkerState, NEW state
  PROVE  Computed(AfterUnbind(w, state), w)
BY ReturnComputed, RemoveHookComputed DEF AfterUnbind

LEMMA AfterBootstrapComputed ==
  ASSUME NEW w \in WorkerState, NEW ref
  PROVE  Computed(AfterBootstrap(w, ref), w)
<1>1. Computed(UpdateStatus([w EXCEPT !.again = TRUE], TRUE), w)
  <2>1. /\ [w EXCEPT !.again = TRUE] \in WorkerState
        /\ KeepsRecord([w EXCEPT !.again = TRUE], w)
    BY DEF WorkerState, KeepsRecord
  <2> QED
    BY <2>1, UpdateStatusComputed, ComputedAfter
<1>2. Computed([w EXCEPT !.pc = IF w.obj.ref = None THEN "find" ELSE "sync"], w)
  BY DEF Computed, KeepsRecord, WorkerState
<1> QED
  BY <1>1, <1>2, ReturnComputed DEF AfterBootstrap

LEMMA FoundRecord ==
  ASSUME NEW w \in WorkerState, NEW a \in Agents
  PROVE  /\ Found(w, a).pc = "sync"
         /\ Found(w, a).m = w.m
         /\ Found(w, a).before = w.before
         /\ Found(w, a).mach = w.mach
         /\ Found(w, a).obj.ref = a
         /\ Found(w, a).obj.pid = a
         /\ Found(w, a).obj.ready = w.obj.ready
<1> DEFINE o == [w.obj EXCEPT !.pid = a, !.ref = a]
<1>1. o.ref = a /\ o.pid = a /\ o.ready = w.obj.ready
  BY DEF WorkerState, AgentMachineObj
<1>2. Found(w, a) = [w EXCEPT !.pc = "sync", !.obj = o, !.cand = {}]
  BY DEF Found
<1> HIDE DEF o
<1> QED
  BY <1>1, <1>2 DEF WorkerState
-----------------------------------------------------------------------------
(* The steps of a Reconcile call, seen from its record *)

\* A call of c that keeps the record goes on from w with r.
GoesOn(c, w, r) ==
  /\ KeepsRecord(r, w)
  /\ r.pc # "idle" /\ w.pc # "done"
  /\ r.pc = "claim" => w.pc = "claim" \/ (w.pc = "find" /\ LabelledAgents(c, w.m) = {})
  /\ r.pc = "unbindGet" => w.mach.phase = "waiting"
  /\ r.pc = "unbind" => w.pc = "unbindGet"
  /\ r.pc = "label" => /\ w.pc = "status" /\ agent[w.obj.ref].exists
                       /\ agent[w.obj.ref].label # NameOf[w.m]
  /\ r.pc = "find" => w.obj.ref = None
  /\ r.pc = "patchSpec" <=> w.pc = "patchConds"
  /\ r.pc = "patchStatus" <=> w.pc = "patchSpec"
  /\ r.pc = "done" <=> w.pc = "patchStatus"

\* A step of c keeps the record, finds an Agent for it, or ends the call.
RecordMove(c, w, r) ==
  \/ GoesOn(c, w, r)
  \/ \E a \in Agents :
       /\ r = Found(w, a)
       /\ \/ w.pc = "find" /\ a \in LabelledAgents(c, w.m) /\ UNCHANGED agent
          \/ w.pc = "claim" /\ WriteAgent(a, Claimed(agent[a], w.m, w.boot))
  \/ w.pc = "done" /\ r = IdleWorker

LEMMA RecordMoves ==
  ASSUME TypeInv, NEW c \in Controllers, ReconcileStep(c)
  PROVE  /\ worker[c].pc # "idle" /\ worker[c].m \in AgentMachines
         /\ \A d \in Controllers \ {c} : worker'[d] = worker[d]
         /\ RecordMove(c, worker[c], worker'[c])
<1> DEFINE w == worker[c]
           Others == \A d \in Controllers \ {c} : worker'[d] = worker[d]
           Inner == {"patchConds", "patchSpec", "patchStatus", "done"}
<1>w. /\ w \in WorkerState
      /\ w.pc # "idle" => w.m \in AgentMachines
      /\ w.pc \in RefPcs => w.obj.ref \in Agents /\ w.obj.ref # None
  BY NoneIsNoValue DEF TypeInv, TypeOK, WorkerHasMachine
<1>i. w.pc # "idle"
  BY DEF ReconcileStep, AddHook, UnbindGet, Unbind, RemoveHook,
     ProcessBootstrapDataSecret, FindAgent, UpdateFoundAgent, UpdateAgentIfNeeded,
     UpdateBootstrapData, UpdateStatusGet, EnsureAgentLabeled, PatchConditions,
     PatchSpec, PatchStatus, Finish, At
<1>b. ASSUME NEW r, Become(c, r)
      PROVE  worker'[c] = r /\ Others
  BY <1>b DEF Become, TypeInv, TypeOK
<1>c. ASSUME NEW r, Become(c, r), Computed(r, w), w.pc \notin Inner
      PROVE  Others /\ RecordMove(c, w, worker'[c])
  BY <1>b, <1>c DEF RecordMove, GoesOn, Computed
<1> HIDE DEF Others
<1>1. CASE AddHook(c)
  <2>1. w.pc = "addHook"
    BY <1>1 DEF AddHook, At
  <2>2. Computed(HandleDeletionHook([w EXCEPT !.mach.hook = TRUE]), w)
    <3>1. /\ [w EXCEPT !.mach.hook = TRUE] \in WorkerState
          /\ KeepsRecord([w EXCEPT !.mach.hook = TRUE], w)
      <4>1. /\ [w.mach EXCEPT !.hook = TRUE] \in MachineObj
            /\ [w.mach EXCEPT !.hook = TRUE].phase = w.mach.phase
        BY <1>w DEF WorkerState, MachineObj
      <4> QED
        BY <1>w, <4>1 DEF WorkerState, KeepsRecord
    <3> QED
      BY <3>1, HandleDeletionHookComputed, ComputedAfter
  <2>3. \E r : Become(c, r) /\ Computed(r, w)
    BY <1>1, <1>w, <2>2, ReturnComputed DEF AddHook, CallMachine
  <2> QED
    BY <1>c, <1>i, <1>w, <2>1, <2>3 DEF Others
<1>2. CASE RemoveHook(c)
  <2>1. w.pc = "removeHook"
    BY <1>2 DEF RemoveHook, At
  <2>2. Computed(Return(RemoveFinalizer(w)), w) /\ Computed(Retry(w), w)
    BY <1>w, RemoveFinalizerKeeps, ReturnComputed, ComputedAfter
  <2>3. \E r : Become(c, r) /\ Computed(r, w)
    BY <1>2, <2>2 DEF RemoveHook, CallMachine
  <2> QED
    BY <1>c, <1>i, <1>w, <2>1, <2>3 DEF Others
<1>3. CASE UnbindGet(c)
  <2>1. w.pc = "unbindGet"
    BY <1>3 DEF UnbindGet, At
  <2>2. \E r : Become(c, r) /\ (Computed(r, w) \/ r = [w EXCEPT !.pc = "unbind"])
    BY <1>3, <1>w, ReturnComputed, RemoveHookComputed, AfterUnbindComputed
       DEF UnbindGet, ReadAgent
  <2>3. GoesOn(c, w, [w EXCEPT !.pc = "unbind"])
    BY <1>w, <2>1 DEF GoesOn, KeepsRecord, WorkerState
  <2> QED
    BY <1>b, <1>c, <1>i, <1>w, <2>1, <2>2, <2>3 DEF Others, RecordMove
<1>4. CASE Unbind(c)
  <2>1. w.pc = "unbind"
    BY <1>4 DEF Unbind, At
  <2>2. \E r : Become(c, r) /\ Computed(r, w)
    BY <1>4, <1>w, ReturnComputed, AfterUnbindComputed DEF Unbind, CallAgent
  <2> QED
    BY <1>c, <1>i, <1>w, <2>1, <2>2 DEF Others
<1>5. CASE ProcessBootstrapDataSecret(c)
  <2>1. w.pc = "boot"
    BY <1>5 DEF ProcessBootstrapDataSecret, At
  <2>2. /\ [w EXCEPT !.boot = w.mach.boot] \in WorkerState
        /\ KeepsRecord([w EXCEPT !.boot = w.mach.boot], w)
    BY <1>w DEF WorkerState, MachineObj, KeepsRecord
  <2>3. \A o : Computed(BootstrapProcessed(w, o, w.mach.boot), w)
    BY <1>w, <2>2, AfterBootstrapComputed, ReturnComputed, ComputedAfter
       DEF BootstrapProcessed
  <2>4. \E r : Become(c, r) /\ Computed(r, w)
    BY <1>5, <2>3 DEF ProcessBootstrapDataSecret
  <2> QED
    BY <1>c, <1>i, <1>w, <2>1, <2>4 DEF Others
<1>6. CASE FindAgent(c)
  <2>1. w.pc = "find"
    BY <1>6 DEF FindAgent, At
  <2>2. \/ \E a \in LabelledAgents(c, w.m) : Become(c, Found(w, a)) /\ UNCHANGED agent
        \/ \E r : Become(c, r) /\ Computed(r, w)
        \/ /\ LabelledAgents(c, w.m) = {}
           /\ Become(c, [w EXCEPT !.pc = "claim", !.cand = Candidates(c, w.m)])
    BY <1>6, <1>w, UpdateStatusComputed DEF FindAgent
  <2>3. LabelledAgents(c, w.m) = {} =>
          GoesOn(c, w, [w EXCEPT !.pc = "claim", !.cand = Candidates(c, w.m)])
    BY <1>w, <2>1 DEF GoesOn, KeepsRecord, WorkerState
  <2>4. LabelledAgents(c, w.m) \subseteq Agents
    BY DEF LabelledAgents
  <2> QED
    BY <1>b, <1>c, <1>i, <1>w, <2>1, <2>2, <2>3, <2>4 DEF Others, RecordMove
<1>7. CASE UpdateFoundAgent(c)
  <2>1. w.pc = "claim"
    BY <1>7 DEF UpdateFoundAgent, At
  <2>2. PICK a \in w.cand :
          LET rest == [w EXCEPT !.cand = @ \ {a}] IN
          CallAgent(c, a, Claimed(agent[a], w.m, w.boot), Latest(c, a), Found(w, a),
                    IF rest.cand = {} THEN UpdateStatus(rest, FALSE) ELSE rest)
    BY <1>7 DEF UpdateFoundAgent
  <2> DEFINE rest == [w EXCEPT !.cand = @ \ {a}]
  <2>3. a \in Agents
    BY <1>w DEF WorkerState
  <2>4. rest \in WorkerState /\ KeepsRecord(rest, w) /\ rest.pc = "claim"
    BY <1>w, <2>1 DEF WorkerState, KeepsRecord
  <2>5. GoesOn(c, w, rest)
    BY <1>w, <2>1, <2>4 DEF GoesOn
  <2>6. Computed(UpdateStatus(rest, FALSE), w)
    BY <2>4, UpdateStatusComputed, ComputedAfter
  <2>7. \/ Become(c, Found(w, a)) /\ WriteAgent(a, Claimed(agent[a], w.m, w.boot))
        \/ Become(c, UpdateStatus(rest, FALSE))
        \/ Become(c, rest)
    BY <2>2 DEF CallAgent
  <2> HIDE DEF rest
  <2> QED
    BY <1>b, <1>c, <1>i, <1>w, <2>1, <2>3, <2>5, <2>6, <2>7 DEF Others, RecordMove
<1>8. CASE UpdateAgentIfNeeded(c)
  <2>1. w.pc = "sync"
    BY <1>8 DEF UpdateAgentIfNeeded, At
  <2>2. Computed([w EXCEPT !.pc = "syncUpdate"], w)
    BY <1>w DEF Computed, KeepsRecord, WorkerState
  <2>3. \E r : Become(c, r) /\ Computed(r, w)
    BY <1>8, <1>w, <2>2, UpdateStatusComputed DEF UpdateAgentIfNeeded, ReadAgent
  <2> QED
    BY <1>c, <1>i, <1>w, <2>1, <2>3 DEF Others
<1>9. CASE UpdateBootstrapData(c)
  <2>1. w.pc = "syncUpdate"
    BY <1>9 DEF UpdateBootstrapData, At
  <2>2. \E r : Become(c, r) /\ Computed(r, w)
    BY <1>9, <1>w, UpdateStatusComputed DEF UpdateBootstrapData, CallAgent
  <2> QED
    BY <1>c, <1>i, <1>w, <2>1, <2>2 DEF Others
<1>10. CASE UpdateStatusGet(c)
  <2>1. w.pc = "status"
    BY <1>10 DEF UpdateStatusGet, At
  <2>m. /\ \A met : Computed(MirrorConditions(w, agent[w.obj.ref], met), w)
        /\ Computed(Retry(w), w)
    <3>1. w.obj.ref # None /\ w \in WorkerState
      BY <1>w, <2>1
    <3>2. \A met : Computed(MirrorConditions(w, agent[w.obj.ref], met), w)
      BY <3>1, MirrorComputed
    <3> QED
      BY <3>1, <3>2, ReturnComputed
  <2>2. \E r : /\ Become(c, r)
               /\ \/ Computed(r, w)
                  \/ /\ r = [w EXCEPT !.pc = "label"]
                     /\ agent[w.obj.ref].exists /\ agent[w.obj.ref].label # NameOf[w.m]
    BY <1>10, <2>m DEF UpdateStatusGet, ReadAgent
  <2>3. agent[w.obj.ref].exists /\ agent[w.obj.ref].label # NameOf[w.m] =>
          GoesOn(c, w, [w EXCEPT !.pc = "label"])
    BY <1>w, <2>1 DEF GoesOn, KeepsRecord, WorkerState
  <2> QED
    BY <1>b, <1>c, <1>i, <1>w, <2>1, <2>2, <2>3 DEF Others, RecordMove
<1>11. CASE EnsureAgentLabeled(c)
  <2>1. w.pc = "label"
    BY <1>11 DEF EnsureAgentLabeled, At
  <2>m. /\ \A met : Computed(MirrorConditions(w, agent[w.obj.ref], met), w)
        /\ Computed(Retry(w), w)
    <3>1. w.obj.ref # None /\ w \in WorkerState
      BY <1>w, <2>1
    <3>2. \A met : Computed(MirrorConditions(w, agent[w.obj.ref], met), w)
      BY <3>1, MirrorComputed
    <3> QED
      BY <3>1, <3>2, ReturnComputed
  <2>2. \E r : Become(c, r) /\ Computed(r, w)
    BY <1>11, <2>m DEF EnsureAgentLabeled, CallAgent
  <2> QED
    BY <1>c, <1>i, <1>w, <2>1, <2>2 DEF Others
<1>12. CASE PatchConditions(c) \/ PatchSpec(c) \/ PatchStatus(c)
  <2>1. \/ w.pc = "patchConds" /\ Become(c, [w EXCEPT !.pc = "patchSpec"])
        \/ w.pc = "patchSpec" /\ Become(c, [w EXCEPT !.pc = "patchStatus"])
        \/ w.pc = "patchStatus" /\ Become(c, [w EXCEPT !.pc = "done"])
    BY <1>12 DEF PatchConditions, PatchSpec, PatchStatus, CallPatch, At
  <2>2. /\ w.pc = "patchConds" => GoesOn(c, w, [w EXCEPT !.pc = "patchSpec"])
        /\ w.pc = "patchSpec" => GoesOn(c, w, [w EXCEPT !.pc = "patchStatus"])
        /\ w.pc = "patchStatus" => GoesOn(c, w, [w EXCEPT !.pc = "done"])
    BY <1>w DEF GoesOn, KeepsRecord, WorkerState
  <2> QED
    BY <1>b, <1>i, <1>w, <2>1, <2>2 DEF Others, RecordMove
<1>13. CASE Finish(c)
  BY <1>13, <1>b, <1>i, <1>w DEF Finish, At, Others, RecordMove
<1> QED
  BY <1>1, <1>2, <1>3, <1>4, <1>5, <1>6, <1>7, <1>8, <1>9, <1>10, <1>11, <1>12, <1>13
     DEF ReconcileStep
-----------------------------------------------------------------------------
(* All other steps, seen from AgentMachines, Machines and Agents *)

\* A Reconcile call of c that begins with AgentMachine m as it is cached.
Begins(c, m, r) ==
  /\ m \in Watched(c)
  /\ r.m = m /\ r.before = amCache[m]
  /\ r.mach.phase = machineCache[m].phase
  /\ r.obj.ref = amCache[m].ref /\ r.obj.pid = amCache[m].pid
  /\ r.obj.ready => amCache[m].ready \/ amCache[m].ref # None
  /\ r.pc \notin PatchPcs \union {"idle", "claim", "unbind", "label"}
  /\ r.pc = "unbindGet" => machineCache[m].phase = "waiting"
  /\ r.pc = "find" => amCache[m].ref = None

LEMMA ReconcileBegins ==
  ASSUME TypeInv, NEW c \in Controllers, NEW m \in AgentMachines, Reconcile(c, m)
  PROVE  /\ UNCHANGED <<am, machine, agent>> /\ Prompt
         /\ \A d \in Controllers \ {c} : worker'[d] = worker[d]
         /\ worker'[c] = worker[c] \/ Begins(c, m, worker'[c])
<1> DEFINE w == [IdleWorker EXCEPT !.m = m, !.obj = amCache[m],
                                   !.before = amCache[m], !.mach = machineCache[m]]
<1>1. /\ w \in WorkerState
      /\ w.m = m /\ w.obj = amCache[m] /\ w.before = amCache[m] /\ w.mach = machineCache[m]
  <2>1. /\ IdleWorker \in WorkerState
        /\ amCache[m] \in AgentMachineObj /\ machineCache[m] \in MachineObj
    BY NewObjectTypes DEF TypeInv, TypeOK
  <2> QED
    BY <2>1 DEF WorkerState
<1>2. UNCHANGED worker \/ worker' = [worker EXCEPT ![c] = Begin(w)]
  BY DEF Reconcile, Become
<1> HIDE DEF w
<1>3. Computed(Begin(w), w)
  BY <1>1, BeginComputed
<1>4. m \in Watched(c)
  BY DEF Reconcile
<1>5. Begins(c, m, Begin(w))
  BY <1>1, <1>3, <1>4 DEF Begins, Computed, KeepsRecord
<1>6. UNCHANGED <<am, machine, agent>> /\ Prompt
  BY DEF Reconcile, At, amVars, agentVars
<1> QED
  BY <1>2, <1>5, <1>6 DEF TypeInv, TypeOK

\* The processes in cs start again, and status may be lost.
Restarts(cs) ==
  /\ worker' = [c \in Controllers |-> IF c \in cs THEN IdleWorker ELSE worker[c]]
  /\ UNCHANGED <<machine, agent>>
  /\ \/ UNCHANGED am
     \/ /\ cs = Controllers
        /\ \A m \in AgentMachines : am[m].st = "live" /\ machine[m].st = "live"
        /\ am' = [m \in AgentMachines |->
                    [am[m] EXCEPT !.ref = None, !.ready = FALSE, !.conds = "none"]]

\* AgentMachine s becomes v by the hand of others than the provider.
RecordKept(s, v) ==
  \/ s.st # "gone" /\ v = GoneAgentMachine
  \/ /\ s.st # "gone" /\ v.st # "gone"
     /\ s.st = "deleting" => v.st = "deleting"
     /\ s.st = "live" /\ v.st = "deleting" => s.fin
     /\ v.ref = s.ref /\ v.pid = s.pid /\ v.ready = s.ready /\ v.fin = s.fin

\* Machine s becomes v.
MachineMoves(s, v) ==
  /\ v.st = "live" => s.st = "live"
  /\ v.st = "deleting" => s.st = "deleting" \/ "deleteMachine" \in Environment
  /\ v.phase = "waiting" => s.phase = "waiting" \/ s.st = "deleting"

\* Agent s becomes v by the hand of others than the provider.
LabelKept(s, v) ==
  \/ v = [NewAgent EXCEPT !.exists = FALSE] /\ "deleteAgent" \in Environment
  \/ /\ v.exists = s.exists /\ v.label = s.label /\ v.namespace = s.namespace
     /\ v.cd = s.cd \/ s.label = None

\* One object is written by others than the provider, or none.
OthersWrite ==
  /\ UNCHANGED worker
  /\ \/ UNCHANGED <<am, machine, agent>>
     \/ \E m \in AgentMachines, v \in AgentMachineObj :
          /\ am' = [am EXCEPT ![m] = v] /\ RecordKept(am[m], v)
          /\ UNCHANGED <<machine, agent>>
     \/ \E m \in AgentMachines, v \in MachineObj :
          /\ machine' = [machine EXCEPT ![m] = v] /\ MachineMoves(machine[m], v)
          /\ UNCHANGED <<am, agent>>
     \/ \E a \in Agents, v \in AgentObj :
          /\ agent[a].exists /\ WriteAgent(a, v) /\ LabelKept(agent[a], v)
          /\ UNCHANGED <<am, machine>>

LEMMA CapiAndUsersWrite ==
  ASSUME TypeInv, NEW m \in AgentMachines, CapiProgress(m) \/ Users(m)
  PROVE  OthersWrite
<1>1. am[m] \in AgentMachineObj /\ machine[m] \in MachineObj
  BY DEF TypeInv, TypeOK
<1>2. ASSUME NEW v \in AgentMachineObj, ChangeAgentMachine(m, v), RecordKept(am[m], v)
      PROVE  OthersWrite
  BY <1>2 DEF ChangeAgentMachine, OthersWrite, machineVars, agentVars
<1>3. ASSUME NEW v \in MachineObj, ChangeMachine(m, v), MachineMoves(machine[m], v)
      PROVE  OthersWrite
  BY <1>3 DEF ChangeMachine, WriteMachine, OthersWrite, amVars, agentVars
<1>4. CASE CapiSetOwner(m)
  <2>1. [am[m] EXCEPT !.owner = TRUE] \in AgentMachineObj
    BY <1>1 DEF AgentMachineObj
  <2>2. am[m].st # "gone" => RecordKept(am[m], [am[m] EXCEPT !.owner = TRUE])
    BY <1>1 DEF AgentMachineObj, RecordKept
  <2> QED
    BY <1>2, <1>4, <2>1, <2>2 DEF CapiSetOwner
<1>5. CASE Pause(m)
  <2>1. [am[m] EXCEPT !.paused = ~@] \in AgentMachineObj
    BY <1>1 DEF AgentMachineObj
  <2>2. am[m].st # "gone" => RecordKept(am[m], [am[m] EXCEPT !.paused = ~@])
    BY <1>1 DEF AgentMachineObj, RecordKept
  <2> QED
    BY <1>2, <1>5, <2>1, <2>2 DEF Pause
<1>6. CASE CapiDeleteInfrastructure(m) \/ DeleteAgentMachine(m)
  <2> DEFINE v == [am[m] EXCEPT !.st = "deleting"]
  <2>1. /\ v \in AgentMachineObj /\ v.st = "deleting" /\ v.fin = am[m].fin
        /\ v.ref = am[m].ref /\ v.pid = am[m].pid /\ v.ready = am[m].ready
    BY <1>1 DEF AgentMachineObj
  <2>2. am[m].st = "live" /\ ChangeAgentMachine(m, Collect(v))
    BY <1>6 DEF CapiDeleteInfrastructure, DeleteAgentMachine
  <2> HIDE DEF v
  <2>3. Collect(v) \in AgentMachineObj /\ RecordKept(am[m], Collect(v))
    BY <2>1, <2>2, NewObjectTypes DEF Collect, RecordKept
  <2> QED
    BY <1>2, <2>2, <2>3
<1>7. CASE CapiWaitForHook(m)
  <2>1. [machine[m] EXCEPT !.phase = "waiting"] \in MachineObj
    BY <1>1 DEF MachineObj
  <2>2. machine[m].st = "deleting" =>
          MachineMoves(machine[m], [machine[m] EXCEPT !.phase = "waiting"])
    BY <1>1 DEF MachineObj, MachineMoves
  <2> QED
    BY <1>3, <1>7, <2>1, <2>2 DEF CapiWaitForHook
<1>8. CASE CapiHookPassed(m)
  <2>1. /\ [machine[m] EXCEPT !.phase = "passed"] \in MachineObj
        /\ MachineMoves(machine[m], [machine[m] EXCEPT !.phase = "passed"])
    BY <1>1 DEF MachineObj, MachineMoves
  <2> QED
    BY <1>3, <1>8, <2>1 DEF CapiHookPassed
<1>9. CASE CapiMachineGone(m) \/ ForceRemoveMachine(m)
  <2>1. GoneMachine \in MachineObj /\ MachineMoves(machine[m], GoneMachine)
    BY NewObjectTypes DEF GoneMachine, NewMachine, MachineMoves
  <2> QED
    BY <1>3, <1>9, <2>1 DEF CapiMachineGone, ForceRemoveMachine
<1>10. CASE DeleteMachine(m)
  <2>1. [machine[m] EXCEPT !.st = "deleting"] \in MachineObj
    BY <1>1 DEF MachineObj
  <2>2. "deleteMachine" \in Environment =>
          MachineMoves(machine[m], [machine[m] EXCEPT !.st = "deleting"])
    BY <1>1 DEF MachineObj, MachineMoves
  <2> QED
    BY <1>3, <1>10, <2>1, <2>2 DEF DeleteMachine
<1>11. ASSUME NEW b \in Boots, RotateBootstrapData(m, b)
       PROVE  OthersWrite
  <2>1. /\ [machine[m] EXCEPT !.boot = b] \in MachineObj
        /\ MachineMoves(machine[m], [machine[m] EXCEPT !.boot = b])
    BY <1>1 DEF MachineObj, BootOrNone, MachineMoves
  <2> QED
    BY <1>3, <1>11, <2>1 DEF RotateBootstrapData
<1> QED
  BY <1>4, <1>5, <1>6, <1>7, <1>8, <1>9, <1>10, <1>11 DEF CapiProgress, Users

LEMMA HostsWrite ==
  ASSUME TypeInv, NEW a \in Agents, AgentProgress(a) \/ AgentTrouble(a)
  PROVE  OthersWrite
<1>1. agent[a] \in AgentObj
  BY DEF TypeInv, TypeOK
<1>2. ASSUME NEW v \in AgentObj, ChangeAgent(a, v), LabelKept(agent[a], v)
      PROVE  OthersWrite
  BY <1>2 DEF ChangeAgent, OthersWrite, amVars, machineVars
<1>3. CASE AgentBecomesValid(a)
  <2>1. /\ [agent[a] EXCEPT !.ok = TRUE] \in AgentObj
        /\ LabelKept(agent[a], [agent[a] EXCEPT !.ok = TRUE])
    BY <1>1 DEF AgentObj, LabelKept
  <2> QED
    BY <1>2, <1>3, <2>1 DEF AgentBecomesValid
<1>4. CASE AgentLosesValidity(a)
  <2>1. /\ [agent[a] EXCEPT !.ok = FALSE] \in AgentObj
        /\ LabelKept(agent[a], [agent[a] EXCEPT !.ok = FALSE])
    BY <1>1 DEF AgentObj, LabelKept
  <2> QED
    BY <1>2, <1>4, <2>1 DEF AgentLosesValidity
<1>5. CASE ManualBind(a)
  <2>1. [agent[a] EXCEPT !.cd = Foreign] \in AgentObj
    BY <1>1 DEF AgentObj
  <2>2. agent[a].label = None => LabelKept(agent[a], [agent[a] EXCEPT !.cd = Foreign])
    BY <1>1 DEF AgentObj, LabelKept
  <2> QED
    BY <1>2, <1>5, <2>1, <2>2 DEF ManualBind
<1>6. CASE DeleteAgent(a)
  <2>1. [NewAgent EXCEPT !.exists = FALSE] \in AgentObj
    BY NewObjectTypes DEF AgentObj
  <2> QED
    BY <1>2, <1>6, <2>1 DEF DeleteAgent, Fault, LabelKept
<1>7. CASE HostProgress(a)
  <2>1. PICK s \in HostNext(agent[a]) : ChangeAgent(a, [agent[a] EXCEPT !.state = s])
    BY <1>7 DEF HostProgress
  <2>2. s \in {"unbound", "installing", "installed", "unbinding", "pending"}
    BY <2>1 DEF HostNext
  <2>3. /\ [agent[a] EXCEPT !.state = s] \in AgentObj
        /\ LabelKept(agent[a], [agent[a] EXCEPT !.state = s])
    BY <1>1, <2>2 DEF AgentObj, LabelKept
  <2> QED
    BY <1>2, <2>1, <2>3
<1> QED
  BY <1>3, <1>4, <1>5, <1>6, <1>7 DEF AgentProgress, AgentTrouble

\* Every step is of one of four kinds.
LEMMA StepKinds ==
  ASSUME TypeInv, [Next]_vars
  PROVE  \/ \E c \in Controllers : ReconcileStep(c)
         \/ \E c \in Controllers, m \in AgentMachines : Reconcile(c, m)
         \/ \E cs \in SUBSET Controllers : Restarts(cs)
         \/ OthersWrite
<1>1. CASE UNCHANGED vars
  BY <1>1 DEF vars, amVars, machineVars, agentVars, OthersWrite
<1>2. ASSUME NEW c \in Controllers, NEW a \in Agents, DeliverAgent(c, a) \/ RefreshList(c, a)
      PROVE  OthersWrite
  BY <1>2 DEF DeliverAgent, RefreshList, OthersWrite, amVars, machineVars
<1>3. ASSUME NEW m \in AgentMachines, Deliver(m) \/ Requeue(m) \/ Resync(m)
      PROVE  OthersWrite
  BY <1>3 DEF Deliver, DeliverAgentMachine, DeliverMachine, Requeue, Resync, OthersWrite,
     amVars, machineVars, agentVars
<1>4. ASSUME NEW n \in Namespaces, ClusterProgress(n)
      PROVE  OthersWrite
  BY <1>4 DEF ClusterProgress, OthersWrite, amVars, machineVars, agentVars
<1>5. ASSUME NEW c \in Controllers, Crash(c)
      PROVE  Restarts({c})
  BY <1>5 DEF Crash, Restart, Restarts
<1>6. CASE RestoreHub
  BY <1>6 DEF RestoreHub, Restart, Restarts
<1> QED
  BY <1>1, <1>2, <1>3, <1>4, <1>5, <1>6, CapiAndUsersWrite, HostsWrite
     DEF Next, Progress, Failure

\* A cached copy changes only to what is then in the API server.
LEMMA CachesFollow ==
  ASSUME TypeInv, [Next]_vars
  PROVE  /\ \A m \in AgentMachines : amCache'[m] \in {amCache[m], am'[m]}
         /\ \A m \in AgentMachines : machineCache'[m] \in {machineCache[m], machine'[m]}
         /\ \A c \in Controllers : \A a \in Agents :
              listCache'[c][a] \in {listCache[c][a], agent'[a]}
<1> DEFINE Goal == /\ \A m \in AgentMachines : amCache'[m] \in {amCache[m], am'[m]}
                   /\ \A m \in AgentMachines :
                        machineCache'[m] \in {machineCache[m], machine'[m]}
                   /\ \A c \in Controllers : \A a \in Agents :
                        listCache'[c][a] \in {listCache[c][a], agent'[a]}
<1> SUFFICES Goal
  OBVIOUS
<1>1. CASE UNCHANGED <<amCache, machineCache, listCache>>
  BY <1>1
<1>2. ASSUME NEW c \in Controllers, ReconcileStep(c)
      PROVE  UNCHANGED <<amCache, machineCache, listCache>>
  <2>1. UNCHANGED <<amCache, machineCache>>
    BY <1>2 DEF ReconcileStep, AddHook, UnbindGet, Unbind, RemoveHook,
       ProcessBootstrapDataSecret, FindAgent, UpdateFoundAgent, UpdateAgentIfNeeded,
       UpdateBootstrapData, UpdateStatusGet, EnsureAgentLabeled, PatchConditions,
       PatchSpec, PatchStatus, Finish, CallMachine, CallAgent, ReadAgent, CallPatch,
       WriteMachine, amVars, machineVars
  <2>2. UNCHANGED listCache
    BY <1>2, AgentWrites DEF WriteAgent
  <2> QED
    BY <2>1, <2>2
<1>3. ASSUME NEW c \in Controllers, NEW a \in Agents, DeliverAgent(c, a) \/ RefreshList(c, a)
      PROVE  Goal
  <2>1. UNCHANGED <<amCache, machineCache, agent>>
    BY <1>3 DEF DeliverAgent, RefreshList, amVars, machineVars
  <2>2. CASE UNCHANGED listCache
    BY <1>1, <2>1, <2>2
  <2>3. CASE Relist(c, a)
    <3>1. listCache' = [listCache EXCEPT ![c] = [listCache[c] EXCEPT ![a] = agent[a]]]
      BY <2>3 DEF Relist, TypeInv, TypeOK
    <3>2. listCache[c] \in [Agents -> AgentObj]
      BY DEF TypeInv, TypeOK
    <3> QED
      BY <2>1, <3>1, <3>2 DEF TypeInv, TypeOK
  <2> QED
    BY <1>3, <2>2, <2>3 DEF DeliverAgent, RefreshList
<1>4. ASSUME NEW m \in AgentMachines, Deliver(m)
      PROVE  Goal
  BY <1>4 DEF Deliver, DeliverAgentMachine, DeliverMachine, amVars, machineVars, agentVars,
     TypeInv, TypeOK
<1>5. ASSUME NEW cs, NEW now, Restart(cs, now), am' = now, UNCHANGED <<machine, agent>>
      PROVE  Goal
  BY <1>5 DEF Restart
<1>6. CASE RestoreHub \/ \E c \in Controllers : Crash(c)
  BY <1>5, <1>6 DEF RestoreHub, Crash
<1>7. ASSUME NEW m \in AgentMachines, CapiProgress(m) \/ Users(m)
      PROVE  UNCHANGED <<amCache, machineCache, listCache>>
  <2>1. \E v : ChangeAgentMachine(m, v) \/ ChangeMachine(m, v)
    BY <1>7 DEF CapiProgress, Users, CapiSetOwner, CapiWaitForHook,
       CapiDeleteInfrastructure, CapiHookPassed, CapiMachineGone, DeleteMachine,
       ForceRemoveMachine, DeleteAgentMachine, Pause, RotateBootstrapData
  <2> QED
    BY <2>1 DEF ChangeAgentMachine, ChangeMachine, WriteMachine, amVars, machineVars, agentVars
<1>8. ASSUME NEW a \in Agents, AgentProgress(a) \/ AgentTrouble(a)
      PROVE  UNCHANGED <<amCache, machineCache, listCache>>
  BY <1>8, AgentChanges DEF ChangeAgent, WriteAgent, amVars, machineVars
<1>9. ASSUME NEW m \in AgentMachines, Requeue(m) \/ Resync(m)
      PROVE  UNCHANGED <<amCache, machineCache, listCache>>
  BY <1>9 DEF Requeue, Resync, amVars, machineVars, agentVars
<1>10. ASSUME NEW n \in Namespaces, ClusterProgress(n)
       PROVE  UNCHANGED <<amCache, machineCache, listCache>>
  BY <1>10 DEF ClusterProgress, amVars, machineVars, agentVars
<1>11. ASSUME NEW c \in Controllers, NEW m \in AgentMachines, Reconcile(c, m)
       PROVE  UNCHANGED <<amCache, machineCache, listCache>>
  BY <1>11 DEF Reconcile, amVars, agentVars
<1>12. CASE UNCHANGED vars
  BY <1>1, <1>12 DEF vars, amVars, machineVars, agentVars
<1> HIDE DEF Goal
<1> QED
  BY <1>1, <1>2, <1>3, <1>4, <1>6, <1>7, <1>8, <1>9, <1>10, <1>11, <1>12
     DEF Next, Progress, Failure
-----------------------------------------------------------------------------
(* What the deferred Patch writes *)

\* AgentMachine s becomes v by the call that a worker w is about to make.
Patched(w, s, v) ==
  \/ /\ w.pc = "patchConds"
     /\ v.st = s.st /\ v.fin = s.fin /\ v.pid = s.pid /\ v.ref = s.ref /\ v.ready = s.ready
  \/ /\ w.pc = "patchSpec" /\ s.st = "deleting"
     /\ v = GoneAgentMachine
  \/ /\ w.pc = "patchSpec"
     /\ v.st = s.st /\ (v.st = "deleting" => v.fin)
     /\ v.fin = IF w.obj.fin # w.before.fin THEN w.obj.fin ELSE s.fin
     /\ v.pid = IF w.obj.pid # w.before.pid THEN w.obj.pid ELSE s.pid
     /\ v.ref = s.ref /\ v.ready = s.ready
  \/ /\ w.pc = "patchStatus"
     /\ v.st = s.st /\ v.fin = s.fin /\ v.pid = s.pid
     /\ v.ref = IF w.obj.ref # w.before.ref THEN w.obj.ref ELSE s.ref
     /\ v.ready = IF w.obj.ready # w.before.ready THEN w.obj.ready ELSE s.ready

LEMMA PatchesRecord ==
  ASSUME NEW w \in WorkerState, NEW s \in AgentMachineObj
  PROVE  /\ w.pc = "patchConds" => Patched(w, s, [s EXCEPT !.conds = w.obj.conds])
         /\ w.pc = "patchSpec" => Patched(w, s, Collect(MergeSpec(s, w.obj, w.before)))
         /\ w.pc = "patchStatus" => Patched(w, s, MergeStatus(s, w.obj, w.before))
<1>1. w.pc = "patchConds" => Patched(w, s, [s EXCEPT !.conds = w.obj.conds])
  BY DEF Patched, AgentMachineObj
<1>2. w.pc = "patchStatus" => Patched(w, s, MergeStatus(s, w.obj, w.before))
  BY DEF Patched, MergeStatus, AgentMachineObj
<1>3. w.pc = "patchSpec" => Patched(w, s, Collect(MergeSpec(s, w.obj, w.before)))
  <2> DEFINE v == MergeSpec(s, w.obj, w.before)
  <2>1. /\ v.st = s.st /\ v.ref = s.ref /\ v.ready = s.ready
        /\ v.fin = IF w.obj.fin # w.before.fin THEN w.obj.fin ELSE s.fin
        /\ v.pid = IF w.obj.pid # w.before.pid THEN w.obj.pid ELSE s.pid
    BY DEF MergeSpec, AgentMachineObj
  <2> HIDE DEF v
  <2>2. w.pc = "patchSpec" => Patched(w, s, Collect(v))
    BY <2>1 DEF Patched, Collect
  <2> QED
    BY <2>2 DEF v
<1> QED
  BY <1>1, <1>2, <1>3

\* A step of c writes at most its own AgentMachine, by a patch.
LEMMA RecordWrites ==
  ASSUME TypeInv, NEW c \in Controllers, ReconcileStep(c)
  PROVE  \/ UNCHANGED am
         \/ \E v \in AgentMachineObj :
              /\ am[worker[c].m].st # "gone"
              /\ am' = [am EXCEPT ![worker[c].m] = v]
              /\ Patched(worker[c], am[worker[c].m], v)
<1> DEFINE w == worker[c]
           s == am[w.m]
<1>1. /\ w \in WorkerState
      /\ w.pc # "idle" => w.m \in AgentMachines /\ s \in AgentMachineObj
  BY DEF TypeInv, TypeOK, WorkerHasMachine
<1>2. CASE PatchConditions(c) \/ PatchSpec(c) \/ PatchStatus(c)
  <2>1. \/ UNCHANGED am
        \/ /\ s.st # "gone" /\ w.pc = "patchConds"
           /\ am' = [am EXCEPT ![w.m] = [s EXCEPT !.conds = w.obj.conds]]
        \/ /\ s.st # "gone" /\ w.pc = "patchSpec"
           /\ am' = [am EXCEPT ![w.m] = Collect(MergeSpec(s, w.obj, w.before))]
        \/ /\ s.st # "gone" /\ w.pc = "patchStatus"
           /\ am' = [am EXCEPT ![w.m] = MergeStatus(s, w.obj, w.before)]
    BY <1>2 DEF PatchConditions, PatchSpec, PatchStatus, CallPatch, At
  <2>2. PICK v : \/ UNCHANGED am
                 \/ s.st # "gone" /\ w.pc # "idle" /\ am' = [am EXCEPT ![w.m] = v] /\ Patched(w, s, v)
    BY <1>1, <2>1, PatchesRecord
  <2>3. TypeInv'
    BY ReconcileStepType
  <2>4. \/ UNCHANGED am
        \/ v = am'[w.m] /\ v \in AgentMachineObj
    BY <1>1, <2>2, <2>3 DEF TypeInv, TypeOK
  <2> QED
    BY <2>2, <2>4
<1>3. CASE ~(PatchConditions(c) \/ PatchSpec(c) \/ PatchStatus(c))
  BY <1>3 DEF ReconcileStep, AddHook, UnbindGet, Unbind, RemoveHook,
     ProcessBootstrapDataSecret, FindAgent, UpdateFoundAgent, UpdateAgentIfNeeded,
     UpdateBootstrapData, UpdateStatusGet, EnsureAgentLabeled, Finish,
     CallMachine, CallAgent, ReadAgent, amVars
<1> QED
  BY <1>2, <1>3

\* Steps of a Reconcile call write a Machine's hook only.
LEMMA HookWrites ==
  ASSUME TypeInv, NEW c \in Controllers, ReconcileStep(c), NEW m \in AgentMachines
  PROVE  machine'[m].st = machine[m].st /\ machine'[m].phase = machine[m].phase
<1>1. ASSUME NEW n \in AgentMachines, NEW b, NEW t, NEW e,
             CallMachine(c, n, [machine[n] EXCEPT !.hook = b], t, e)
      PROVE  machine'[m].st = machine[m].st /\ machine'[m].phase = machine[m].phase
  <2>1. UNCHANGED machine \/ machine' = [machine EXCEPT ![n] = [machine[n] EXCEPT !.hook = b]]
    BY <1>1 DEF CallMachine, WriteMachine, machineVars
  <2>2. machine[n] \in MachineObj
    BY DEF TypeInv, TypeOK
  <2> DEFINE v == [machine[n] EXCEPT !.hook = b]
  <2>3. v.st = machine[n].st /\ v.phase = machine[n].phase
    BY <2>2 DEF MachineObj
  <2>4. UNCHANGED machine \/ machine' = [machine EXCEPT ![n] = v]
    BY <2>1
  <2> HIDE DEF v
  <2> QED
    BY <2>3, <2>4 DEF TypeInv, TypeOK
<1>2. CASE AddHook(c) \/ RemoveHook(c)
  <2>1. worker[c].m \in AgentMachines
    BY RecordMoves
  <2>2. CASE AddHook(c)
    BY <1>1, <2>1, <2>2 DEF AddHook
  <2>3. CASE RemoveHook(c)
    BY <1>1, <2>1, <2>3 DEF RemoveHook
  <2> QED
    BY <1>2, <2>2, <2>3
<1>3. CASE ~(AddHook(c) \/ RemoveHook(c))
  <2>1. UNCHANGED machine
    BY <1>3 DEF ReconcileStep, UnbindGet, Unbind, ProcessBootstrapDataSecret, FindAgent,
       UpdateFoundAgent, UpdateAgentIfNeeded, UpdateBootstrapData, UpdateStatusGet,
       EnsureAgentLabeled, PatchConditions, PatchSpec, PatchStatus, Finish, CallPatch,
       CallAgent, ReadAgent, machineVars
  <2> QED
    BY <2>1
<1> QED
  BY <1>2, <1>3
-----------------------------------------------------------------------------
(* Records and calls agree, when watches are prompt *)

\* A Reconcile call works on an AgentMachine of its process.
CallsWatch ==
  \A c \in Controllers : worker[c].pc # "idle" => worker[c].m \in Watched(c)

\* The Agent recorded in an AgentMachine is the one the Reconcile call refers to;
\* it looks for an Agent only if there is none.
CallsAgree ==
  \A c \in Controllers : worker[c].pc # "idle" =>
    LET w == worker[c] IN
    /\ am[w.m].ref # None => am[w.m].ref = w.obj.ref
    /\ w.pc \in {"find", "claim"} => w.obj.ref = None

LEMMA IdleIsIdle == IdleWorker.pc = "idle"
BY NewObjectTypes

LEMMA GoneHasNoRecord ==
  /\ GoneAgentMachine.ref = None /\ GoneAgentMachine.ready = FALSE
  /\ GoneAgentMachine.st = "gone"
BY DEF GoneAgentMachine, NewAgentMachine

\* No two processes work on one AgentMachine.
LEMMA OneCallPerMachine ==
  ASSUME CallsWatch, NEW c \in Controllers, NEW d \in Controllers,
         worker[c].pc # "idle", worker[d].pc # "idle", worker[c].m = worker[d].m
  PROVE  c = d
BY DEF CallsWatch, Watched

LEMMA WatchStep ==
  ASSUME TypeInv, CallsWatch, [Next]_vars
  PROVE  CallsWatch'
<1>1. ASSUME NEW c \in Controllers, ReconcileStep(c)
      PROVE  CallsWatch'
  <2>1. worker'[c].pc # "idle" => worker'[c].m = worker[c].m
    <3>1. worker[c] \in WorkerState
      BY DEF TypeInv, TypeOK
    <3> QED
      BY <1>1, <3>1, RecordMoves, FoundRecord, IdleIsIdle DEF RecordMove, GoesOn, KeepsRecord
  <2> QED
    BY <1>1, <2>1, RecordMoves DEF CallsWatch, Watched
<1>2. ASSUME NEW c \in Controllers, NEW m \in AgentMachines, Reconcile(c, m)
      PROVE  CallsWatch'
  BY <1>2, ReconcileBegins DEF CallsWatch, Begins, Watched
<1>3. ASSUME NEW cs \in SUBSET Controllers, Restarts(cs)
      PROVE  CallsWatch'
  BY <1>3, IdleIsIdle DEF Restarts, CallsWatch, Watched
<1>4. CASE OthersWrite
  BY <1>4 DEF OthersWrite, CallsWatch, Watched
<1> QED
  BY <1>1, <1>2, <1>3, <1>4, StepKinds

LEMMA AgreeStep ==
  ASSUME "stale" \notin Environment, TypeInv, CallsWatch, CallsAgree, [Next]_vars
  PROVE  CallsAgree'
<1>t. /\ am \in [AgentMachines -> AgentMachineObj]
      /\ worker \in [Controllers -> WorkerState]
      /\ \A d \in Controllers : worker[d].pc # "idle" => worker[d].m \in AgentMachines
  BY DEF TypeInv, TypeOK, WorkerHasMachine
<1>1. ASSUME NEW c \in Controllers, ReconcileStep(c)
      PROVE  CallsAgree'
  <2> DEFINE w == worker[c]
             r == worker'[c]
  <2>w. w \in WorkerState /\ w.pc # "idle" /\ w.m \in AgentMachines
    BY <1>1, <1>t, RecordMoves
  <2>1. \A d \in Controllers \ {c} : worker'[d] = worker[d] /\
          (worker[d].pc # "idle" => worker[d].m # w.m)
    BY <1>1, <2>w, RecordMoves, OneCallPerMachine
  <2>2. \A m \in AgentMachines \ {w.m} : am'[m] = am[m]
    BY <1>1, <1>t, RecordWrites
  <2>3. am'[w.m].ref \in {am[w.m].ref, None} \/ am'[w.m].ref = w.obj.ref
    BY <1>1, <1>t, <2>w, RecordWrites, GoneHasNoRecord DEF Patched
  <2>4. am[w.m].ref # None => am[w.m].ref = w.obj.ref
    BY <2>w DEF CallsAgree
  <2>5. CASE GoesOn(c, w, r)
    <3>1. r.m = w.m /\ r.obj.ref = w.obj.ref
      BY <2>5 DEF GoesOn, KeepsRecord
    <3>2. r.pc \in {"find", "claim"} => w.obj.ref = None
      BY <2>5, <2>w DEF GoesOn, CallsAgree
    <3>3. am'[w.m].ref # None => am'[w.m].ref = w.obj.ref
      BY <2>3, <2>4
    <3> QED
      BY <1>t, <2>1, <2>2, <3>1, <3>2, <3>3 DEF CallsAgree
  <2>6. ASSUME NEW a \in Agents, r = Found(w, a), w.pc \in {"find", "claim"}
        PROVE  CallsAgree'
    <3>1. r.m = w.m /\ r.obj.ref = a /\ r.pc = "sync"
      BY <2>6, <2>w, FoundRecord
    <3>2. w.obj.ref = None
      BY <2>6, <2>w DEF CallsAgree
    <3>3. am'[w.m].ref = None
      BY <2>3, <2>4, <3>2
    <3> QED
      BY <1>t, <2>1, <2>2, <3>1, <3>3 DEF CallsAgree
  <2>7. CASE r = IdleWorker
    BY <1>t, <2>1, <2>2, <2>7, IdleIsIdle DEF CallsAgree
  <2> HIDE DEF w, r
  <2>8. RecordMove(c, w, r)
    BY <1>1, RecordMoves DEF w, r
  <2> QED
    BY <2>5, <2>6, <2>7, <2>8 DEF RecordMove
<1>2. ASSUME NEW c \in Controllers, NEW m \in AgentMachines, Reconcile(c, m)
      PROVE  CallsAgree'
  <2>1. amCache = am
    BY <1>2, ReconcileBegins DEF Prompt, Settled
  <2>2. worker'[c] = worker[c] \/ Begins(c, m, worker'[c])
    BY <1>2, ReconcileBegins
  <2>3. UNCHANGED am /\ \A d \in Controllers \ {c} : worker'[d] = worker[d]
    BY <1>2, ReconcileBegins
  <2> QED
    BY <2>1, <2>2, <2>3 DEF CallsAgree, Begins
<1>3. ASSUME NEW cs \in SUBSET Controllers, Restarts(cs)
      PROVE  CallsAgree'
  BY <1>3, IdleIsIdle DEF Restarts, CallsAgree
<1>4. CASE OthersWrite
  <2>1. \A m \in AgentMachines : am'[m].ref \in {am[m].ref, None}
    BY <1>4, <1>t, GoneHasNoRecord DEF OthersWrite, RecordKept
  <2> QED
    BY <1>4, <1>t, <2>1 DEF OthersWrite, CallsAgree
<1> QED
  BY <1>1, <1>2, <1>3, <1>4, StepKinds

LEMMA AgreeInit == Init => CallsWatch /\ CallsAgree
BY IdleIsIdle DEF Init, CallsWatch, CallsAgree
-----------------------------------------------------------------------------
(* How labels come and go *)

\* A step of c that puts a label on Agent a: the label names the AgentMachine
\* that c works on, and the Agent is the one it refers to or claims.
LEMMA NewLabels ==
  ASSUME TypeInv, NEW c \in Controllers, ReconcileStep(c), NEW a \in Agents,
         agent'[a].label # None, agent'[a].label # agent[a].label
  PROVE  /\ agent'[a].label = NameOf[worker[c].m]
         /\ \A b \in Agents \ {a} : agent'[b] = agent[b]
         /\ UNCHANGED am
         /\ \/ worker[c].pc = "label" /\ a = worker[c].obj.ref
            \/ /\ worker[c].pc = "claim" /\ agent'[a] = Claimed(agent[a], worker[c].m, worker[c].boot)
               /\ a \in worker[c].cand \intersect agentHeld[c]
               /\ worker'[c] = Found(worker[c], a) \/ "lostReply" \in Environment
<1>t. agent \in [Agents -> AgentObj]
  BY DEF TypeInv, TypeOK
<1>1. PICK b \in Agents, v \in AgentObj : WriteAgent(b, v) /\ Writes(c, b, v)
  BY AgentWrites
<1>2. b = a /\ v = agent'[a] /\ \A d \in Agents \ {a} : agent'[d] = agent[d]
  BY <1>1, <1>t DEF WriteAgent
<1>3. agent[a] \in AgentObj /\ v \in AgentObj
  BY <1>1, <1>t
<1>4. v # Released(agent[a]) /\ v # [agent[a] EXCEPT !.boot = worker[c].boot]
  BY <1>2, <1>3 DEF Released, AgentObj
<1>5. Claimed(agent[a], worker[c].m, worker[c].boot).label = NameOf[worker[c].m]
  BY <1>3 DEF Claimed, AgentObj
<1>6. [agent[a] EXCEPT !.label = NameOf[worker[c].m]].label = NameOf[worker[c].m]
  BY <1>3 DEF AgentObj
<1>7. /\ agent'[a].label = NameOf[worker[c].m]
      /\ \/ worker[c].pc = "label" /\ a = worker[c].obj.ref
         \/ /\ worker[c].pc = "claim" /\ v = Claimed(agent[a], worker[c].m, worker[c].boot)
            /\ a \in worker[c].cand \intersect agentHeld[c]
            /\ worker'[c] = Found(worker[c], a) \/ "lostReply" \in Environment
  BY <1>1, <1>2, <1>4, <1>5, <1>6 DEF Writes
<1>8. UNCHANGED am
  BY <1>7, RecordWrites DEF Patched
<1> QED
  BY <1>2, <1>7, <1>8

\* Nobody else puts a label on an Agent.
LEMMA LabelsOnlyLost ==
  ASSUME TypeInv, OthersWrite \/ UNCHANGED agent, NEW a \in Agents
  PROVE  agent'[a].label \in {agent[a].label, None}
<1>1. [NewAgent EXCEPT !.exists = FALSE].label = None
  BY DEF NewAgent
<1>2. ASSUME NEW b \in Agents, NEW v, WriteAgent(b, v), LabelKept(agent[b], v)
      PROVE  agent'[a].label \in {agent[a].label, None}
  BY <1>1, <1>2 DEF WriteAgent, LabelKept, TypeInv, TypeOK
<1> QED
  BY <1>2 DEF OthersWrite

\* A labelled Agent has not been deleted.
LabelsExist == \A a \in Agents : agent[a].label # None => agent[a].exists

LEMMA LabelsExistStep ==
  ASSUME ClaimInv, LabelsExist, [Next]_vars
  PROVE  LabelsExist'
<1>t. TypeInv /\ agent \in [Agents -> AgentObj]
  BY DEF ClaimInv, TypeInv, TypeOK
<1>1. CASE UNCHANGED agent
  BY <1>1 DEF LabelsExist
<1>2. ASSUME NEW a \in Agents, NEW v, agent' = [agent EXCEPT ![a] = v],
             v.label # None => v.exists
      PROVE  LabelsExist'
  BY <1>2, <1>t DEF LabelsExist
<1>3. CASE OthersWrite
  <2>1. ASSUME NEW a \in Agents, NEW v, WriteAgent(a, v), LabelKept(agent[a], v)
        PROVE  LabelsExist'
    <3>1. [NewAgent EXCEPT !.exists = FALSE].label = None
      BY DEF NewAgent
    <3> QED
      BY <1>2, <2>1, <3>1 DEF WriteAgent, LabelKept, LabelsExist
  <2> QED
    BY <1>1, <1>3, <2>1 DEF OthersWrite
<1>4. ASSUME NEW c \in Controllers, ReconcileStep(c)
      PROVE  LabelsExist'
  <2>1. CASE UNCHANGED agent
    BY <1>1, <2>1
  <2>2. ASSUME NEW a \in Agents, NEW v \in AgentObj, WriteAgent(a, v), Writes(c, a, v)
        PROVE  LabelsExist'
    <3>1. agent[a] \in AgentObj
      BY <1>t
    <3>2. v = Released(agent[a]) => v.label = None
      BY <3>1 DEF Released, AgentObj
    <3>3. v = [agent[a] EXCEPT !.boot = worker[c].boot] =>
            v.label = agent[a].label /\ v.exists = agent[a].exists
      BY <3>1 DEF AgentObj
    <3>4. v = [agent[a] EXCEPT !.label = NameOf[worker[c].m]] => v.exists = agent[a].exists
      BY <3>1 DEF AgentObj
    <3>5. v = Claimed(agent[a], worker[c].m, worker[c].boot) => v.exists = agent[a].exists
      BY <3>1 DEF Claimed, AgentObj
    <3>6. worker[c].pc = "claim" /\ a \in worker[c].cand \intersect agentHeld[c] =>
            agent[a].exists
      BY DEF ClaimInv, CandidatesAreFree
    <3>7. v.label # None => v.exists
      BY <2>2, <3>2, <3>3, <3>4, <3>5, <3>6 DEF Writes, LabelsExist
    <3> QED
      BY <1>2, <2>2, <3>7 DEF WriteAgent
  <2> QED
    BY <1>4, <1>t, <2>1, <2>2, AgentWrites
<1> QED
  BY <1>1, <1>3, <1>4, <1>t, StepKinds, ReconcileBegins DEF Restarts

\* Without a second manager, Agents are listed from the cache that events come from.
ListsCurrent == listFresh = agentFresh

LEMMA ListsStep ==
  ASSUME "separateCache" \notin Environment, TypeInv, ListsCurrent, [Next]_vars
  PROVE  ListsCurrent'
<1>1. CASE UNCHANGED <<agentFresh, listFresh>>
  BY <1>1 DEF ListsCurrent
<1>2. ASSUME NEW a, NEW v, WriteAgent(a, v)
      PROVE  ListsCurrent'
  BY <1>2 DEF WriteAgent, ListsCurrent
<1>3. ASSUME NEW c \in Controllers, ReconcileStep(c)
      PROVE  ListsCurrent'
  <2>1. UNCHANGED <<agentFresh, listFresh>> \/ \E a, v : WriteAgent(a, v)
    BY <1>3 DEF ReconcileStep, AddHook, UnbindGet, Unbind, RemoveHook,
       ProcessBootstrapDataSecret, FindAgent, UpdateFoundAgent, UpdateAgentIfNeeded,
       UpdateBootstrapData, UpdateStatusGet, EnsureAgentLabeled, PatchConditions,
       PatchSpec, PatchStatus, Finish, CallMachine, CallAgent, ReadAgent, CallPatch,
       agentVars
  <2> QED
    BY <1>1, <1>2, <2>1
<1>4. ASSUME NEW c \in Controllers, NEW a \in Agents, DeliverAgent(c, a) \/ RefreshList(c, a)
      PROVE  ListsCurrent'
  BY <1>4 DEF DeliverAgent, RefreshList, Relist, ListsCurrent
<1>5. ASSUME NEW m \in AgentMachines, Deliver(m) \/ Requeue(m) \/ Resync(m)
      PROVE  UNCHANGED <<agentFresh, listFresh>>
  BY <1>5 DEF Deliver, DeliverAgentMachine, DeliverMachine, Requeue, Resync, agentVars
<1>6. ASSUME NEW m \in AgentMachines, CapiProgress(m) \/ Users(m)
      PROVE  UNCHANGED <<agentFresh, listFresh>>
  <2>1. \E v : ChangeAgentMachine(m, v) \/ ChangeMachine(m, v)
    BY <1>6 DEF CapiProgress, Users, CapiSetOwner, CapiWaitForHook,
       CapiDeleteInfrastructure, CapiHookPassed, CapiMachineGone, DeleteMachine,
       ForceRemoveMachine, DeleteAgentMachine, Pause, RotateBootstrapData
  <2> QED
    BY <2>1 DEF ChangeAgentMachine, ChangeMachine, agentVars
<1>7. ASSUME NEW a \in Agents, AgentProgress(a) \/ AgentTrouble(a)
      PROVE  ListsCurrent'
  BY <1>2, <1>7, AgentChanges DEF ChangeAgent
<1>8. ASSUME NEW n \in Namespaces, ClusterProgress(n)
      PROVE  UNCHANGED <<agentFresh, listFresh>>
  BY <1>8 DEF ClusterProgress, agentVars
<1>9. ASSUME NEW c \in Controllers, NEW m \in AgentMachines, Reconcile(c, m)
      PROVE  UNCHANGED <<agentFresh, listFresh>>
  BY <1>9 DEF Reconcile, agentVars
<1>10. ASSUME NEW cs, NEW now, Restart(cs, now)
       PROVE  ListsCurrent'
  BY <1>10 DEF Restart, ListsCurrent
<1>11. CASE RestoreHub \/ \E c \in Controllers : Crash(c)
  BY <1>10, <1>11 DEF RestoreHub, Crash
<1>12. CASE UNCHANGED vars
  BY <1>1, <1>12 DEF vars, agentVars
<1> QED
  BY <1>1, <1>3, <1>4, <1>5, <1>6, <1>7, <1>8, <1>9, <1>11, <1>12
     DEF Next, Progress, Failure
-----------------------------------------------------------------------------
(* One Agent per AgentMachine *)

\* No two AgentMachines share a name, as if all were in one namespace: the label
\* then says which AgentMachine an Agent is reserved for.
UniqueNames == \A m, n \in AgentMachines : NameOf[m] = NameOf[n] => m = n

\* No Agent in ags but ref carries the name of AgentMachine m.
Covers(ags, ref, m) == \A a \in Agents : ags[a].label = NameOf[m] => a = ref

LabelledOnce ==
  \A m \in AgentMachines : \A a, b \in Agents :
    agent[a].label = NameOf[m] /\ agent[b].label = NameOf[m] => a = b

\* The Agent recorded in an AgentMachine is the only one with its name.
RecordsCover ==
  \A m \in AgentMachines : am[m].ref # None => Covers(agent, am[m].ref, m)

\* So is the one a Reconcile call refers to; it claims one only if there is none.
CallsCover ==
  \A c \in Controllers : worker[c].pc # "idle" =>
    LET w == worker[c] IN
    /\ w.obj.ref # None => Covers(agent, w.obj.ref, w.m)
    /\ w.pc = "claim" => \A a \in Agents : agent[a].label # NameOf[w.m]

OneInv ==
  /\ ClaimInv /\ CallsWatch /\ CallsAgree /\ LabelsExist /\ ListsCurrent
  /\ LabelledOnce /\ RecordsCover /\ CallsCover

\* Labels that are only lost leave what covers a name alone.
LEMMA CoversKept ==
  ASSUME \A a \in Agents : agent'[a].label \in {agent[a].label, None}
  PROVE  /\ \A ref : \A m \in AgentMachines : Covers(agent, ref, m) => Covers(agent', ref, m)
         /\ LabelledOnce => LabelledOnce'
         /\ \A m \in AgentMachines :
              (\A a \in Agents : agent[a].label # NameOf[m]) =>
                \A a \in Agents : agent'[a].label # NameOf[m]
<1>1. \A m \in AgentMachines : NameOf[m] # None
  BY ConstantTypes, NoneIsNoValue
<1>2. \A m \in AgentMachines, a \in Agents :
        agent'[a].label = NameOf[m] => agent[a].label = NameOf[m]
  BY <1>1
<1> QED
  BY <1>2 DEF Covers, LabelledOnce

\* findAgent lists Agents as they are.
LEMMA ListsAreCurrent ==
  ASSUME "stale" \notin Environment, TypeInv, FreshIsCurrent, ListsCurrent,
         NEW c \in Controllers, worker[c].pc = "find", ReconcileStep(c)
  PROVE  \A a \in Agents : listCache[c][a] = agent[a]
<1>1. Prompt
  BY DEF ReconcileStep, AddHook, UnbindGet, Unbind, RemoveHook,
     ProcessBootstrapDataSecret, FindAgent, UpdateFoundAgent, UpdateAgentIfNeeded,
     UpdateBootstrapData, UpdateStatusGet, EnsureAgentLabeled, PatchConditions,
     PatchSpec, PatchStatus, Finish, At
<1> QED
  BY <1>1 DEF Prompt, Settled, ListsCurrent, FreshIsCurrent

\* A step of a Reconcile call that puts no label on an Agent.
LEMMA OneStepKeeps ==
  ASSUME "stale" \notin Environment, OneInv, NEW c \in Controllers, ReconcileStep(c),
         \A a \in Agents : agent'[a].label \in {agent[a].label, None}
  PROVE  LabelledOnce' /\ RecordsCover' /\ CallsCover'
<1> DEFINE w == worker[c]
           r == worker'[c]
           m == worker[c].m
<1>t. /\ TypeInv /\ am \in [AgentMachines -> AgentMachineObj]
      /\ worker \in [Controllers -> WorkerState]
      /\ \A d \in Controllers : worker[d].pc # "idle" => worker[d].m \in AgentMachines
  BY DEF OneInv, ClaimInv, TypeInv, TypeOK, WorkerHasMachine
<1>w. /\ w \in WorkerState /\ w.pc # "idle" /\ m \in AgentMachines
      /\ RecordMove(c, w, r)
      /\ \A d \in Controllers \ {c} : worker'[d] = worker[d]
  BY <1>t, RecordMoves
<1>1. LabelledOnce'
  BY CoversKept DEF OneInv
<1>2. w.obj.ref # None => Covers(agent', w.obj.ref, m)
  BY <1>w, CoversKept DEF OneInv, CallsCover
<1>3. RecordsCover'
  <2>1. \A n \in AgentMachines :
          am'[n].ref \in {am[n].ref, None} \/ (n = m /\ am'[n].ref = w.obj.ref)
    BY <1>t, <1>w, RecordWrites, GoneHasNoRecord DEF Patched
  <2>2. \A n \in AgentMachines : am[n].ref # None => Covers(agent', am[n].ref, n)
    BY CoversKept DEF OneInv, RecordsCover
  <2> QED
    BY <1>2, <2>1, <2>2 DEF RecordsCover
<1>4. ASSUME r.pc # "idle" => r.m = m,
             r.pc # "idle" /\ r.obj.ref # None => Covers(agent', r.obj.ref, m),
             r.pc = "claim" => \A a \in Agents : agent'[a].label # NameOf[m]
      PROVE  CallsCover'
  <2>1. \A d \in Controllers \ {c} : worker[d].pc # "idle" =>
          /\ worker[d].obj.ref # None => Covers(agent', worker[d].obj.ref, worker[d].m)
          /\ worker[d].pc = "claim" =>
               \A a \in Agents : agent'[a].label # NameOf[worker[d].m]
    BY <1>t, CoversKept DEF OneInv, CallsCover
  <2>2. ASSUME NEW d \in Controllers, worker'[d].pc # "idle"
        PROVE  /\ worker'[d].obj.ref # None => Covers(agent', worker'[d].obj.ref, worker'[d].m)
               /\ worker'[d].pc = "claim" =>
                    \A a \in Agents : agent'[a].label # NameOf[worker'[d].m]
    <3>1. CASE d = c
      <4>1. worker'[d] = r
        BY <3>1
      <4> HIDE DEF r, m
      <4> QED
        BY <1>4, <2>2, <4>1
    <3>2. CASE d # c
      BY <1>w, <2>1, <2>2, <3>2
    <3> QED
      BY <3>1, <3>2
  <2> QED
    BY <2>2 DEF CallsCover, Covers
<1>5. \A a \in Agents : w.pc = "find" => listCache[c][a] = agent[a]
  BY <1>t, ListsAreCurrent DEF OneInv, ClaimInv
<1>6. CASE GoesOn(c, w, r)
  <2>1. r.m = m /\ r.obj.ref = w.obj.ref
    BY <1>6 DEF GoesOn, KeepsRecord
  <2>2. ASSUME r.pc = "claim"
        PROVE  \A a \in Agents : agent[a].label # NameOf[m]
    <3>1. CASE w.pc = "claim"
      BY <1>w, <3>1 DEF OneInv, CallsCover
    <3>2. CASE w.pc = "find" /\ LabelledAgents(c, m) = {}
      <4>1. \A a \in Agents : ~(agent[a].exists /\ agent[a].label = NameOf[m])
        BY <1>5, <3>2 DEF LabelledAgents
      <4>2. NameOf[m] # None
        BY <1>w, ConstantTypes, NoneIsNoValue
      <4> QED
        BY <4>1, <4>2 DEF OneInv, LabelsExist
    <3> QED
      BY <1>6, <2>2, <3>1, <3>2 DEF GoesOn
  <2>3. r.pc = "claim" => \A a \in Agents : agent'[a].label # NameOf[m]
    BY <1>w, <2>2, CoversKept
  <2> QED
    BY <1>1, <1>2, <1>3, <1>4, <2>1, <2>3
<1>7. ASSUME NEW a \in Agents, r = Found(w, a), Covers(agent', a, m)
      PROVE  CallsCover'
  <2>1. r.m = m /\ r.obj.ref = a /\ r.pc = "sync"
    BY <1>7, <1>w, FoundRecord
  <2> QED
    BY <1>4, <1>7, <2>1
<1>8. ASSUME NEW a \in Agents, r = Found(w, a), w.pc = "find",
             a \in LabelledAgents(c, m)
      PROVE  CallsCover'
  <2>1. agent[a].label = NameOf[m]
    BY <1>5, <1>8 DEF LabelledAgents
  <2>2. Covers(agent, a, m)
    BY <1>w, <2>1 DEF OneInv, LabelledOnce, Covers
  <2> QED
    BY <1>7, <1>8, <1>w, <2>2, CoversKept
<1>9. ASSUME NEW a \in Agents, w.pc = "claim", WriteAgent(a, Claimed(agent[a], m, w.boot))
      PROVE  FALSE
  <2>1. agent[a] \in AgentObj /\ agent'[a] = Claimed(agent[a], m, w.boot)
    BY <1>9, <1>t DEF WriteAgent, TypeInv, TypeOK
  <2>2. agent'[a].label = NameOf[m]
    BY <2>1 DEF Claimed, AgentObj
  <2>3. agent[a].label # NameOf[m]
    BY <1>9, <1>w DEF OneInv, CallsCover
  <2> QED
    BY <1>w, <2>2, <2>3, ConstantTypes, NoneIsNoValue
<1>10. ASSUME r = IdleWorker PROVE CallsCover'
  <2>1. r.pc = "idle"
    BY <1>10, IdleIsIdle
  <2> HIDE DEF r, m
  <2> QED
    BY <1>4, <2>1
<1> QED
  BY <1>1, <1>3, <1>6, <1>8, <1>9, <1>10, <1>w DEF RecordMove

\* A step of a Reconcile call that puts a label on Agent a.
LEMMA OneStepLabels ==
  ASSUME UniqueNames, "lostReply" \notin Environment, OneInv,
         NEW c \in Controllers, ReconcileStep(c), NEW a \in Agents,
         agent'[a].label # None, agent'[a].label # agent[a].label
  PROVE  LabelledOnce' /\ RecordsCover' /\ CallsCover'
<1> DEFINE w == worker[c]
           r == worker'[c]
           m == worker[c].m
<1>t. /\ TypeInv /\ worker \in [Controllers -> WorkerState]
      /\ \A d \in Controllers : worker[d].pc # "idle" => worker[d].m \in AgentMachines
  BY DEF OneInv, ClaimInv, TypeInv, TypeOK, WorkerHasMachine
<1>w. /\ w \in WorkerState /\ w.pc # "idle" /\ m \in AgentMachines
      /\ RecordMove(c, w, r)
      /\ \A d \in Controllers \ {c} : worker'[d] = worker[d] /\
           (worker[d].pc # "idle" => worker[d].m # m)
  BY <1>t, RecordMoves, OneCallPerMachine DEF OneInv
<1>n. /\ agent'[a].label = NameOf[m]
      /\ \A b \in Agents \ {a} : agent'[b] = agent[b]
      /\ UNCHANGED am
      /\ \/ w.pc = "label" /\ a = w.obj.ref
         \/ w.pc = "claim" /\ r = Found(w, a)
  BY <1>t, NewLabels
<1>1. \A n \in AgentMachines \ {m}, b \in Agents :
        agent'[b].label = NameOf[n] => agent[b].label = NameOf[n]
  BY <1>n, <1>w DEF UniqueNames
<1>2. Covers(agent, a, m)
  <2>1. CASE w.pc = "label" /\ a = w.obj.ref
    <3>1. a # None
      BY NoneIsNoValue
    <3> QED
      BY <1>w, <2>1, <3>1 DEF OneInv, CallsCover
  <2>2. CASE w.pc = "claim"
    BY <1>w, <2>2 DEF OneInv, CallsCover, Covers
  <2> QED
    BY <1>n, <2>1, <2>2
<1>3. Covers(agent', a, m)
  BY <1>2, <1>n DEF Covers
<1>4. LabelledOnce'
  BY <1>1, <1>3 DEF Covers, LabelledOnce, OneInv
<1>5. RecordsCover'
  <2>1. am[m].ref # None => am[m].ref = a
    <3>1. am[m].ref # None => am[m].ref = w.obj.ref
      BY <1>w DEF OneInv, CallsAgree
    <3>2. w.pc = "claim" => w.obj.ref = None
      BY <1>w DEF OneInv, CallsAgree
    <3> QED
      BY <1>n, <3>1, <3>2
  <2> QED
    BY <1>1, <1>3, <1>n, <2>1 DEF RecordsCover, Covers, OneInv
<1>6. r.pc # "idle" => r.m = m /\ r.obj.ref = a /\ r.pc # "claim"
  <2>1. CASE w.pc = "claim" /\ r = Found(w, a)
    BY <1>w, <2>1, FoundRecord
  <2>2. CASE w.pc = "label" /\ a = w.obj.ref
    BY <1>w, <2>2 DEF RecordMove, GoesOn, KeepsRecord
  <2> QED
    BY <1>n, <2>1, <2>2
<1>7. CallsCover'
  <2>1. ASSUME NEW d \in Controllers, worker'[d].pc # "idle"
        PROVE  /\ worker'[d].obj.ref # None => Covers(agent', worker'[d].obj.ref, worker'[d].m)
               /\ worker'[d].pc = "claim" =>
                    \A b \in Agents : agent'[b].label # NameOf[worker'[d].m]
    <3>1. CASE d = c
      BY <1>3, <1>6, <2>1, <3>1
    <3>2. CASE d # c
      <4>1. worker'[d] = worker[d] /\ worker[d].m \in AgentMachines \ {m}
        BY <1>t, <1>w, <2>1, <3>2
      <4>2. /\ worker[d].obj.ref # None => Covers(agent, worker[d].obj.ref, worker[d].m)
            /\ worker[d].pc = "claim" =>
                 \A b \in Agents : agent[b].label # NameOf[worker[d].m]
        BY <2>1, <4>1 DEF OneInv, CallsCover
      <4> QED
        BY <1>1, <4>1, <4>2 DEF Covers
    <3> QED
      BY <3>1, <3>2
  <2> QED
    BY <2>1 DEF CallsCover, Covers
<1> QED
  BY <1>4, <1>5, <1>7

LEMMA OneStep ==
  ASSUME UniqueNames, "stale" \notin Environment, "separateCache" \notin Environment,
         "lostReply" \notin Environment, OneInv, [Next]_vars
  PROVE  OneInv'
<1> DEFINE Labels == LabelledOnce' /\ RecordsCover' /\ CallsCover'
<1>t. /\ TypeInv /\ am \in [AgentMachines -> AgentMachineObj]
      /\ worker \in [Controllers -> WorkerState]
      /\ \A d \in Controllers : worker[d].pc # "idle" => worker[d].m \in AgentMachines
  BY DEF OneInv, ClaimInv, TypeInv, TypeOK, WorkerHasMachine
<1>1. ClaimInv' /\ CallsWatch' /\ CallsAgree' /\ LabelsExist' /\ ListsCurrent'
  BY <1>t, ClaimStep, WatchStep, AgreeStep, LabelsExistStep, ListsStep DEF OneInv
<1>2. ASSUME NEW c \in Controllers, ReconcileStep(c)
      PROVE  Labels
  <2>1. CASE \A a \in Agents : agent'[a].label \in {agent[a].label, None}
    BY <1>2, <2>1, OneStepKeeps
  <2>2. CASE \E a \in Agents : agent'[a].label \notin {agent[a].label, None}
    BY <1>2, <2>2, OneStepLabels
  <2> QED
    BY <2>1, <2>2
<1>3. ASSUME OthersWrite \/ UNCHANGED agent,
             \A m \in AgentMachines : am'[m].ref \in {am[m].ref, None},
             \A c \in Controllers : worker'[c].pc # "idle" =>
               \/ worker'[c] = worker[c]
               \/ /\ worker'[c].m \in AgentMachines
                  /\ worker'[c].obj.ref = am[worker'[c].m].ref
                  /\ worker'[c].pc # "claim"
      PROVE  Labels
  <2>0. \A a \in Agents : agent'[a].label \in {agent[a].label, None}
    BY <1>3, <1>t, LabelsOnlyLost
  <2>1. LabelledOnce'
    BY <2>0, CoversKept DEF OneInv
  <2>2. \A n \in AgentMachines : am[n].ref # None => Covers(agent', am[n].ref, n)
    BY <2>0, CoversKept DEF OneInv, RecordsCover
  <2>3. RecordsCover'
    BY <1>3, <2>2 DEF RecordsCover
  <2>4. \A d \in Controllers : worker[d].pc # "idle" =>
          /\ worker[d].obj.ref # None => Covers(agent', worker[d].obj.ref, worker[d].m)
          /\ worker[d].pc = "claim" =>
               \A a \in Agents : agent'[a].label # NameOf[worker[d].m]
    BY <1>t, <2>0, CoversKept DEF OneInv, CallsCover
  <2>5. ASSUME NEW d \in Controllers, worker'[d].pc # "idle"
        PROVE  /\ worker'[d].obj.ref # None => Covers(agent', worker'[d].obj.ref, worker'[d].m)
               /\ worker'[d].pc = "claim" =>
                    \A a \in Agents : agent'[a].label # NameOf[worker'[d].m]
    BY <1>3, <2>2, <2>4, <2>5
  <2>6. CallsCover'
    BY <2>5 DEF CallsCover, Covers
  <2> QED
    BY <2>1, <2>3, <2>6
<1> HIDE DEF Labels
<1>4. ASSUME NEW c \in Controllers, NEW m \in AgentMachines, Reconcile(c, m)
      PROVE  Labels
  <2>1. amCache = am /\ UNCHANGED <<am, agent>>
    BY <1>4, <1>t, ReconcileBegins DEF Prompt, Settled
  <2>2. \A d \in Controllers : worker'[d] = worker[d] \/ Begins(c, m, worker'[d])
    BY <1>4, <1>t, ReconcileBegins
  <2> QED
    BY <1>3, <2>1, <2>2 DEF Begins
<1>5. ASSUME NEW cs \in SUBSET Controllers, Restarts(cs)
      PROVE  Labels
  <2>1. \A m \in AgentMachines : am'[m].ref \in {am[m].ref, None}
    <3>1. \A m \in AgentMachines :
            [am[m] EXCEPT !.ref = None, !.ready = FALSE, !.conds = "none"].ref = None
      BY <1>t DEF AgentMachineObj
    <3> QED
      BY <1>5, <3>1 DEF Restarts
  <2> QED
    BY <1>3, <1>5, <2>1, IdleIsIdle DEF Restarts
<1>6. ASSUME OthersWrite PROVE Labels
  <2>1. \A m \in AgentMachines : am'[m].ref \in {am[m].ref, None}
    BY <1>6, <1>t, GoneHasNoRecord DEF OthersWrite, RecordKept
  <2>2. UNCHANGED worker
    BY <1>6 DEF OthersWrite
  <2> QED
    BY <1>3, <1>6, <2>1, <2>2
<1>7. Labels
  BY <1>2, <1>4, <1>5, <1>6, <1>t, StepKinds
<1> QED
  BY <1>1, <1>7 DEF OneInv, Labels

LEMMA OneInit == Init => OneInv
<1> SUFFICES ASSUME Init PROVE OneInv
  OBVIOUS
<1>1. ClaimInv /\ CallsWatch /\ CallsAgree
  BY ClaimInit, AgreeInit
<1>2. \A a \in Agents : agent[a].label = None
  BY DEF Init, NewAgent
<1>3. \A m \in AgentMachines : NameOf[m] # None /\ am[m].ref = None
  BY ConstantTypes, NoneIsNoValue DEF Init, NewAgentMachine
<1>4. ListsCurrent /\ \A c \in Controllers : worker[c].pc = "idle"
  BY IdleIsIdle DEF Init, ListsCurrent
<1> QED
  BY <1>1, <1>2, <1>3, <1>4 DEF OneInv, LabelsExist, LabelledOnce, RecordsCover, CallsCover

\* However a Reconcile call is interrupted between the Update that claims an Agent
\* (updateFoundAgent) and the deferred Patch that records it, by a crash, an error
\* of either call or a restore of the hub, no AgentMachine ever holds two Agents:
\* findAgent looks for the label first.  This needs a list of Agents that is not
\* older than the claim, the answer to the claim, and names that do not repeat.
THEOREM OneAgentEach ==
  ASSUME UniqueNames, "stale" \notin Environment, "separateCache" \notin Environment,
         "lostReply" \notin Environment
  PROVE  Spec => []OneAgentPerMachine
<1>1. ASSUME OneInv PROVE OneAgentPerMachine
  <2> SUFFICES ASSUME NEW m \in AgentMachines
               PROVE  Cardinality({a \in Agents : /\ agent[a].label = NameOf[m]
                                                  /\ agent[a].namespace = NsOf[m]}) <= 1
    BY DEF OneAgentPerMachine
  <2> DEFINE S == {a \in Agents : agent[a].label = NameOf[m] /\ agent[a].namespace = NsOf[m]}
  <2>1. CASE S = {}
    BY <2>1, FS_EmptySet
  <2>2. ASSUME NEW a \in S PROVE Cardinality(S) <= 1
    <3>1. S = {a}
      BY <1>1, <2>2 DEF OneInv, LabelledOnce
    <3> HIDE DEF S
    <3>2. Cardinality({a}) = 1
      BY FS_Singleton
    <3> QED
      BY <3>1, <3>2
  <2> HIDE DEF S
  <2>3. Cardinality(S) <= 1
    BY <2>1, <2>2, FS_EmptySet
  <2> QED
    BY <2>3 DEF S
<1>2. OneInv /\ [Next]_vars => OneInv'
  BY OneStep
<1> QED
  BY <1>1, <1>2, OneInit, PTL DEF Spec
-----------------------------------------------------------------------------
(* Where references and labels come from *)

\* A record is kept, lost, or the one a Reconcile call refers to.
LEMMA NewRecords ==
  ASSUME TypeInv, [Next]_vars, NEW m \in AgentMachines
  PROVE  \/ am'[m].ref \in {am[m].ref, None}
         \/ \E c \in Controllers : /\ worker[c].pc # "idle" /\ worker[c].m = m
                                   /\ am'[m].ref = worker[c].obj.ref
<1>t. am \in [AgentMachines -> AgentMachineObj]
  BY DEF TypeInv, TypeOK
<1>1. ASSUME NEW c \in Controllers, ReconcileStep(c)
      PROVE  \/ am'[m].ref \in {am[m].ref, None}
             \/ /\ worker[c].pc # "idle" /\ worker[c].m = m
                /\ am'[m].ref = worker[c].obj.ref
  BY <1>t, <1>1, RecordWrites, RecordMoves, GoneHasNoRecord DEF Patched
<1>2. ASSUME NEW cs \in SUBSET Controllers, Restarts(cs)
      PROVE  am'[m].ref \in {am[m].ref, None}
  <2>1. [am[m] EXCEPT !.ref = None, !.ready = FALSE, !.conds = "none"].ref = None
    BY <1>t DEF AgentMachineObj
  <2> QED
    BY <1>2, <2>1 DEF Restarts
<1>3. OthersWrite => am'[m].ref \in {am[m].ref, None}
  BY <1>t, GoneHasNoRecord DEF OthersWrite, RecordKept
<1>4. UNCHANGED am => am'[m].ref \in {am[m].ref, None}
  OBVIOUS
<1> QED
  BY <1>1, <1>2, <1>3, <1>4, StepKinds, ReconcileBegins

\* The Agent that a Reconcile call refers to after a step is the one it referred
\* to, the one recorded in the cache it began with, or one that was listed with,
\* or has just been given, the name of the AgentMachine.
LEMMA NewRefs ==
  ASSUME TypeInv, [Next]_vars, NEW c \in Controllers, worker'[c].pc # "idle"
  PROVE  LET m == worker'[c].m
             a == worker'[c].obj.ref
         IN /\ m \in AgentMachines
            /\ \/ worker[c].pc # "idle" /\ worker[c].m = m /\ a = worker[c].obj.ref
               \/ a = amCache[m].ref /\ Begins(c, m, worker'[c]) /\ UNCHANGED agent
               \/ /\ a \in Agents /\ worker[c].pc # "idle" /\ worker[c].m = m
                  /\ worker'[c].pc = "sync" /\ worker'[c].mach = worker[c].mach
                  /\ a \in LabelledAgents(c, m) \/ agent'[a].label = NameOf[m]
<1> DEFINE w == worker[c]
           r == worker'[c]
           Goal == /\ r.m \in AgentMachines
                   /\ \/ w.pc # "idle" /\ w.m = r.m /\ r.obj.ref = w.obj.ref
                      \/ r.obj.ref = amCache[r.m].ref /\ Begins(c, r.m, r) /\ UNCHANGED agent
                      \/ /\ r.obj.ref \in Agents /\ w.pc # "idle" /\ w.m = r.m
                         /\ r.pc = "sync" /\ r.mach = w.mach
                         /\ \/ r.obj.ref \in LabelledAgents(c, r.m)
                            \/ agent'[r.obj.ref].label = NameOf[r.m]
<1>t. w \in WorkerState /\ (w.pc # "idle" => w.m \in AgentMachines)
  BY DEF TypeInv, TypeOK, WorkerHasMachine
<1>1. r = w => Goal
  BY <1>t
<1>2. ASSUME ReconcileStep(c) PROVE Goal
  <2>1. w.pc # "idle" /\ w.m \in AgentMachines /\ RecordMove(c, w, r)
    BY <1>2, RecordMoves
  <2> HIDE DEF w, r
  <2>2. GoesOn(c, w, r) => Goal
    BY <2>1 DEF GoesOn, KeepsRecord
  <2>3. ASSUME NEW a \in Agents, r = Found(w, a),
               a \in LabelledAgents(c, w.m) \/ WriteAgent(a, Claimed(agent[a], w.m, w.boot))
        PROVE  Goal
    <3>1. r.pc = "sync" /\ r.m = w.m /\ r.mach = w.mach /\ r.obj.ref = a
      BY <1>t, <2>3, FoundRecord
    <3>2. WriteAgent(a, Claimed(agent[a], w.m, w.boot)) => agent'[a].label = NameOf[w.m]
      BY DEF WriteAgent, Claimed, TypeInv, TypeOK, AgentObj
    <3> QED
      BY <2>1, <2>3, <3>1, <3>2
  <2>4. r # IdleWorker
    BY IdleIsIdle DEF r
  <2> QED
    BY <2>1, <2>2, <2>3, <2>4 DEF RecordMove
<1>3. ASSUME NEW m \in AgentMachines, Reconcile(c, m) PROVE Goal
  <2>1. UNCHANGED agent /\ (r = w \/ Begins(c, m, r))
    BY <1>3, ReconcileBegins
  <2>2. Begins(c, m, r) => Goal
    BY <2>1 DEF Begins
  <2> QED
    BY <1>1, <2>1, <2>2
<1>4. ASSUME NEW d \in Controllers \ {c}, ReconcileStep(d) \/ \E m \in AgentMachines : Reconcile(d, m)
      PROVE  r = w
  BY <1>4, RecordMoves, ReconcileBegins
<1>5. ASSUME NEW cs \in SUBSET Controllers, Restarts(cs)
      PROVE  r = w
  BY <1>5, IdleIsIdle DEF Restarts
<1>6. OthersWrite => r = w
  BY DEF OthersWrite
<1> HIDE DEF Goal, w, r
<1>7. Goal
  BY <1>1, <1>2, <1>3, <1>4, <1>5, <1>6, StepKinds
<1> QED
  BY <1>7 DEF Goal, w, r

-----------------------------------------------------------------------------
(* Names stay within the selectors *)

\* ref is no Agent or one that the selector of AgentMachine m admits.
Selected(ref, m) == ref # None => ref \in Matches[m]

\* A label names an AgentMachine, one that selects the Agent, ...
LabelsSelected ==
  \A a \in Agents :
    /\ agent[a].label # None => \E m \in AgentMachines : agent[a].label = NameOf[m]
    /\ \A m \in AgentMachines : agent[a].label = NameOf[m] => a \in Matches[m]

\* ... and so does one in a list, ...
ListsSelected ==
  \A c \in Controllers, a \in Agents, m \in AgentMachines :
    listCache[c][a].label = NameOf[m] => a \in Matches[m]

\* ... a record, ...
RecordsSelected ==
  \A m \in AgentMachines : Selected(am[m].ref, m) /\ Selected(amCache[m].ref, m)

\* ... and a Reconcile call.
CallsSelected ==
  \A c \in Controllers : worker[c].pc # "idle" => Selected(worker[c].obj.ref, worker[c].m)

SelInv == ClaimInv /\ LabelsSelected /\ ListsSelected /\ RecordsSelected /\ CallsSelected

LEMMA SelStep ==
  ASSUME UniqueNames, SelInv, [Next]_vars
  PROVE  SelInv'
<1>t. TypeInv
  BY DEF SelInv, ClaimInv
<1>1. ClaimInv'
  BY ClaimStep DEF SelInv
<1>2. LabelsSelected'
  <2> SUFFICES ASSUME NEW a \in Agents
               PROVE  /\ agent'[a].label # None =>
                           \E m \in AgentMachines : agent'[a].label = NameOf[m]
                      /\ \A m \in AgentMachines : agent'[a].label = NameOf[m] => a \in Matches[m]
    BY DEF LabelsSelected
  <2>1. CASE agent'[a].label \in {agent[a].label, None}
    BY <2>1, ConstantTypes, NoneIsNoValue DEF SelInv, LabelsSelected
  <2>2. ASSUME NEW c \in Controllers, ReconcileStep(c),
               agent'[a].label # None, agent'[a].label # agent[a].label
        PROVE  /\ worker[c].m \in AgentMachines /\ agent'[a].label = NameOf[worker[c].m]
               /\ a \in Matches[worker[c].m]
    <3>1. /\ agent'[a].label = NameOf[worker[c].m]
          /\ \/ worker[c].pc = "label" /\ a = worker[c].obj.ref
             \/ worker[c].pc = "claim" /\ a \in worker[c].cand
      BY <1>t, <2>2, NewLabels
    <3>2. worker[c].m \in AgentMachines /\ worker[c].pc # "idle" /\ a # None
      BY <1>t, <2>2, RecordMoves, NoneIsNoValue
    <3> QED
      BY <3>1, <3>2 DEF SelInv, CallsSelected, Selected, ClaimInv, CandidatesAreFree
  <2> QED
    BY <1>t, <2>1, <2>2, StepKinds, LabelsOnlyLost, ReconcileBegins DEF Restarts, UniqueNames
<1>3. ListsSelected'
  BY <1>t, <1>2, CachesFollow DEF SelInv, ListsSelected, LabelsSelected
<1>4. CallsSelected'
  <2> SUFFICES ASSUME NEW c \in Controllers, worker'[c].pc # "idle"
               PROVE  Selected(worker'[c].obj.ref, worker'[c].m)
    BY DEF CallsSelected
  <2> DEFINE m == worker'[c].m
             a == worker'[c].obj.ref
  <2>1. /\ m \in AgentMachines
        /\ \/ worker[c].pc # "idle" /\ worker[c].m = m /\ a = worker[c].obj.ref
           \/ a = amCache[m].ref
           \/ a \in Agents /\ (a \in LabelledAgents(c, m) \/ agent'[a].label = NameOf[m])
    BY <1>t, NewRefs
  <2> HIDE DEF m, a
  <2>2. Selected(a, m)
    BY <1>2, <2>1 DEF SelInv, CallsSelected, RecordsSelected, ListsSelected, LabelledAgents,
       LabelsSelected, Selected
  <2> QED
    BY <2>2 DEF m, a
<1>5. RecordsSelected'
  <2>1. \A m \in AgentMachines : Selected(am'[m].ref, m)
    BY <1>t, NewRecords DEF SelInv, CallsSelected, RecordsSelected, Selected
  <2>2. \A m \in AgentMachines : amCache'[m] \in {amCache[m], am'[m]}
    BY <1>t, CachesFollow
  <2> QED
    BY <2>1, <2>2 DEF SelInv, RecordsSelected
<1> QED
  BY <1>1, <1>2, <1>3, <1>4, <1>5 DEF SelInv

LEMMA SelInit == Init => SelInv
<1> SUFFICES ASSUME Init PROVE SelInv
  OBVIOUS
<1>1. \A a \in Agents : agent[a].label = None /\ \A c \in Controllers : listCache[c][a].label = None
  BY DEF Init, NewAgent
<1>2. \A m \in AgentMachines : am[m].ref = None /\ amCache[m].ref = None /\ NameOf[m] # None
  BY ConstantTypes, NoneIsNoValue DEF Init, NewAgentMachine
<1>3. \A c \in Controllers : worker[c].pc = "idle"
  BY IdleIsIdle DEF Init
<1> QED
  BY <1>1, <1>2, <1>3, ClaimInit
     DEF SelInv, LabelsSelected, ListsSelected, RecordsSelected, CallsSelected, Selected

-----------------------------------------------------------------------------
(* The Agent an AgentMachine refers to is its own *)

\* No Agent is selected by two AgentMachines.
DisjointSelectors ==
  \A m, n \in AgentMachines : m # n => Matches[m] \intersect Matches[n] = {}

\* A Machine that is deleted takes nothing from the others: there is none, or
\* no two AgentMachines compete for an Agent.
DeletionsDoNotMeet == "deleteMachine" \notin Environment \/ DisjointSelectors

\* AgentMachine m has no reason to give its Agent back.
Staying(m) == machine[m].st = "live" \/ "deleteMachine" \notin Environment

\* ref is no Agent, one that has been deleted, or one that carries the name of
\* AgentMachine m.
Carries(ags, ref, m) == ref # None /\ ags[ref].exists => ags[ref].label = NameOf[m]

\* An Agent with the name of an AgentMachine is mapped and bound for it.
LabelsMap ==
  \A a \in Agents, m \in AgentMachines : agent[a].label = NameOf[m] /\ Staying(m) =>
    agent[a].namespace = NsOf[m] /\ agent[a].cd = NsOf[m]

\* A label seen in a list is still there, if the Agent is.
ListedLabels ==
  \A c \in Controllers, a \in Agents, m \in AgentMachines :
    listCache[c][a].label = NameOf[m] /\ Staying(m) => Carries(agent, a, m)

\* Every record of an AgentMachine, in the API server or in a cache, however old,
\* names an Agent that carries its name.
RecordsCarry ==
  \A m \in AgentMachines : Staying(m) =>
    Carries(agent, am[m].ref, m) /\ Carries(agent, amCache[m].ref, m)

\* No Machine waits for its hook, and no copy of it says so.
NobodyWaits ==
  \A m \in AgentMachines : Staying(m) =>
    /\ machine[m].st # "deleting" /\ machine[m].phase # "waiting"
    /\ machineCache[m].phase # "waiting"

\* Reconcile calls refer to Agents in the same way and give none of them back.
CallsCarry ==
  \A c \in Controllers : worker[c].pc # "idle" /\ Staying(worker[c].m) =>
    LET w == worker[c] IN
    /\ Carries(agent, w.obj.ref, w.m)
    /\ w.mach.phase # "waiting"
    /\ w.pc \notin {"unbindGet", "unbind", "label"}

ResInv ==
  SelInv /\ LabelsExist /\ LabelsMap /\ ListedLabels /\ RecordsCarry /\ NobodyWaits /\ CallsCarry

\* What a label says of an Agent.
Mapping(ag) == <<ag.label, ag.namespace, ag.cd>>

\* Agent s becomes v, and keeps label, annotation and ClusterDeployment if the
\* AgentMachine of that name stays.
Kept(s, v) ==
  /\ v.exists = s.exists
  /\ \A m \in AgentMachines : s.label = NameOf[m] /\ Staying(m) => Mapping(v) = Mapping(s)

LabelsStay ==
  \A a \in Agents :
    \/ "deleteAgent" \in Environment /\ agent'[a] = [NewAgent EXCEPT !.exists = FALSE]
    \/ Kept(agent[a], agent'[a])

\* A call that gives an Agent back, or names one again that does not carry the
\* name any more, works for an AgentMachine that leaves; the Agent is not that of
\* another AgentMachine.
LEMMA LeavingCalls ==
  ASSUME UniqueNames, DeletionsDoNotMeet, ResInv, NEW c \in Controllers,
         worker[c].pc \in {"unbind", "label"}
  PROVE  /\ worker[c].m \in AgentMachines /\ worker[c].obj.ref \in Agents
         /\ machine[worker[c].m].st # "live"
         /\ \A n \in AgentMachines : agent[worker[c].obj.ref].label = NameOf[n] => n = worker[c].m
<1>1. /\ worker[c].m \in AgentMachines /\ worker[c].obj.ref \in Agents
      /\ worker[c].obj.ref # None
  BY NoneIsNoValue DEF ResInv, SelInv, ClaimInv, TypeInv, WorkerHasMachine
<1>2. ~Staying(worker[c].m)
  BY DEF ResInv, CallsCarry
<1>3. DisjointSelectors /\ machine[worker[c].m].st # "live"
  BY <1>2 DEF DeletionsDoNotMeet, Staying
<1>4. worker[c].obj.ref \in Matches[worker[c].m]
  BY <1>1 DEF ResInv, SelInv, CallsSelected, Selected
<1> QED
  BY <1>1, <1>3, <1>4 DEF DisjointSelectors, ResInv, SelInv, LabelsSelected

LEMMA CallsKeepLabels ==
  ASSUME UniqueNames, DeletionsDoNotMeet, ResInv,
         NEW c \in Controllers, ReconcileStep(c), NEW a \in Agents
  PROVE  Kept(agent[a], agent'[a])
<1>t. TypeInv /\ agent \in [Agents -> AgentObj]
  BY DEF ResInv, SelInv, ClaimInv, TypeInv, TypeOK
<1>1. ASSUME NEW b \in Agents, NEW v \in AgentObj, WriteAgent(b, v), Writes(c, b, v)
      PROVE  Kept(agent[b], v)
  <2>0. agent[b] \in AgentObj
    BY <1>t
  <2>1. worker[c].pc \in {"unbind", "label"} /\ b = worker[c].obj.ref =>
          \A n \in AgentMachines : ~(agent[b].label = NameOf[n] /\ Staying(n))
    <3>1. worker[c].pc \in {"unbind", "label"} /\ worker[c].m \in AgentMachines =>
            ~Staying(worker[c].m)
      BY DEF ResInv, CallsCarry
    <3> QED
      BY <3>1, LeavingCalls
  <2>2. v = [agent[b] EXCEPT !.boot = worker[c].boot] => Kept(agent[b], v)
    BY <2>0 DEF AgentObj, Mapping, Kept
  <2>3. worker[c].pc = "claim" /\ b \in worker[c].cand \intersect agentHeld[c] =>
          \A n \in AgentMachines : agent[b].label # NameOf[n]
    BY ConstantTypes, NoneIsNoValue DEF ResInv, SelInv, ClaimInv, CandidatesAreFree
  <2>4. /\ Claimed(agent[b], worker[c].m, worker[c].boot).exists = agent[b].exists
        /\ Released(agent[b]).exists = agent[b].exists
        /\ [agent[b] EXCEPT !.label = NameOf[worker[c].m]].exists = agent[b].exists
    BY <2>0 DEF AgentObj, Claimed, Released
  <2> QED
    BY <1>1, <2>1, <2>2, <2>3, <2>4 DEF Writes, Kept
<1>2. CASE UNCHANGED agent
  BY <1>2 DEF Kept
<1> QED
  BY <1>1, <1>2, <1>t, AgentWrites DEF WriteAgent, Kept

LEMMA LabelsStayStep ==
  ASSUME UniqueNames, DeletionsDoNotMeet, ResInv, [Next]_vars
  PROVE  LabelsStay
<1>t. TypeInv /\ agent \in [Agents -> AgentObj]
  BY DEF ResInv, SelInv, ClaimInv, TypeInv, TypeOK
<1>1. CASE UNCHANGED agent
  BY <1>1 DEF LabelsStay, Kept
<1>2. CASE OthersWrite
  <2>1. ASSUME NEW a \in Agents, NEW v, WriteAgent(a, v), LabelKept(agent[a], v)
        PROVE  LabelsStay
    <3>1. agent'[a] = v /\ \A b \in Agents \ {a} : agent'[b] = agent[b]
      BY <1>t, <2>1 DEF WriteAgent
    <3>2. \A m \in AgentMachines : NameOf[m] # None
      BY ConstantTypes, NoneIsNoValue
    <3> QED
      BY <2>1, <3>1, <3>2 DEF LabelKept, Kept, Mapping, LabelsStay
  <2> QED
    BY <1>1, <1>2, <2>1 DEF OthersWrite
<1>3. ASSUME NEW c \in Controllers, ReconcileStep(c)
      PROVE  LabelsStay
  BY <1>3, CallsKeepLabels DEF LabelsStay
<1> QED
  BY <1>1, <1>2, <1>3, <1>t, StepKinds, ReconcileBegins DEF Restarts

\* A Machine that is not live does not come back.
LEMMA StayingStep ==
  ASSUME TypeInv, [Next]_vars, NEW m \in AgentMachines, Staying(m)'
  PROVE  Staying(m)
<1>1. ASSUME NEW c \in Controllers, ReconcileStep(c)
      PROVE  machine'[m].st = machine[m].st
  BY <1>1, HookWrites
<1>2. OthersWrite => (machine'[m].st = "live" => machine[m].st = "live")
  BY DEF OthersWrite, MachineMoves, TypeInv, TypeOK
<1> QED
  BY <1>1, <1>2, StepKinds, ReconcileBegins DEF Restarts, Staying

\* References that carry a name keep carrying it.
LEMMA CarriesKept ==
  ASSUME LabelsStay, NEW m \in AgentMachines, NEW ref \in AgentOrNone, Staying(m),
         Carries(agent, ref, m)
  PROVE  Carries(agent', ref, m)
<1>1. [NewAgent EXCEPT !.exists = FALSE].exists = FALSE
  BY DEF NewAgent
<1>2. ref # None /\ agent'[ref].exists =>
        Mapping(agent'[ref]) = Mapping(agent[ref]) /\ agent[ref].exists
  BY <1>1 DEF LabelsStay, Kept, Carries, AgentOrNone
<1> QED
  BY <1>2 DEF Carries, Mapping

LEMMA LabelsMapStep ==
  ASSUME UniqueNames, ResInv, LabelsStay, [Next]_vars
  PROVE  LabelsMap' /\ ListedLabels'
<1>t. TypeInv /\ agent \in [Agents -> AgentObj]
  BY DEF ResInv, SelInv, ClaimInv, TypeInv, TypeOK
<1>1. ListedLabels'
  <2> SUFFICES ASSUME NEW c \in Controllers, NEW a \in Agents, NEW m \in AgentMachines,
                      listCache'[c][a].label = NameOf[m], Staying(m)'
               PROVE  Carries(agent', a, m)
    BY DEF ListedLabels
  <2>0. Staying(m) /\ a \in AgentOrNone
    BY <1>t, StayingStep DEF AgentOrNone
  <2>1. listCache'[c][a] = agent'[a] => Carries(agent', a, m)
    BY DEF Carries
  <2>2. listCache'[c][a] = listCache[c][a] => Carries(agent', a, m)
    BY <2>0, CarriesKept DEF ResInv, ListedLabels
  <2> QED
    BY <1>t, <2>1, <2>2, CachesFollow
<1>2. LabelsMap'
  <2> SUFFICES ASSUME NEW a \in Agents, NEW m \in AgentMachines,
                      agent'[a].label = NameOf[m], Staying(m)'
               PROVE  agent'[a].namespace = NsOf[m] /\ agent'[a].cd = NsOf[m]
    BY DEF LabelsMap
  <2>0. Staying(m) /\ NameOf[m] # None /\ [NewAgent EXCEPT !.exists = FALSE].label = None
    BY <1>t, StayingStep, ConstantTypes, NoneIsNoValue DEF NewAgent
  <2>1. CASE agent[a].label = NameOf[m]
    <3>1. Mapping(agent'[a]) = Mapping(agent[a])
      BY <2>0, <2>1 DEF LabelsStay, Kept
    <3> QED
      BY <2>0, <2>1, <3>1 DEF ResInv, LabelsMap, Mapping
  <2>2. ASSUME NEW c \in Controllers, ReconcileStep(c), agent[a].label # NameOf[m]
        PROVE  agent'[a].namespace = NsOf[m] /\ agent'[a].cd = NsOf[m]
    <3>1. worker[c].m \in AgentMachines /\ worker[c].pc # "idle"
      BY <1>t, <2>2, RecordMoves
    <3>2. /\ agent'[a].label = NameOf[worker[c].m]
          /\ \/ worker[c].pc = "label"
             \/ agent'[a] = Claimed(agent[a], worker[c].m, worker[c].boot)
      BY <1>t, <2>0, <2>2, NewLabels
    <3>3. worker[c].m = m
      BY <3>1, <3>2 DEF UniqueNames
    <3>4. worker[c].pc # "label"
      BY <2>0, <3>1, <3>3 DEF ResInv, CallsCarry
    <3>5. agent[a] \in AgentObj
      BY <1>t
    <3> QED
      BY <3>2, <3>3, <3>4, <3>5 DEF Claimed, AgentObj
  <2> QED
    BY <1>t, <2>0, <2>1, <2>2, StepKinds, LabelsOnlyLost, ReconcileBegins DEF Restarts
<1> QED
  BY <1>1, <1>2

LEMMA NobodyWaitsStep ==
  ASSUME ResInv, [Next]_vars
  PROVE  NobodyWaits'
<1>t. TypeInv /\ machine \in [AgentMachines -> MachineObj]
  BY DEF ResInv, SelInv, ClaimInv, TypeInv, TypeOK
<1> SUFFICES ASSUME NEW m \in AgentMachines, Staying(m)'
             PROVE  /\ machine'[m].st # "deleting" /\ machine'[m].phase # "waiting"
                    /\ machineCache'[m].phase # "waiting"
  BY DEF NobodyWaits
<1>0. /\ machine[m].st # "deleting" /\ machine[m].phase # "waiting"
      /\ machineCache[m].phase # "waiting"
  BY <1>t, StayingStep DEF ResInv, NobodyWaits
<1>1. machine'[m].st # "deleting" /\ machine'[m].phase # "waiting"
  <2>1. ASSUME NEW c \in Controllers, ReconcileStep(c)
        PROVE  machine'[m].st # "deleting" /\ machine'[m].phase # "waiting"
    BY <1>0, <1>t, <2>1, HookWrites
  <2>2. ASSUME OthersWrite
        PROVE  machine'[m].st # "deleting" /\ machine'[m].phase # "waiting"
    <3>1. "deleteMachine" \notin Environment \/ machine'[m].st = "live"
      BY DEF Staying
    <3>2. machine'[m] = machine[m] \/ MachineMoves(machine[m], machine'[m])
      BY <1>t, <2>2 DEF OthersWrite
    <3> QED
      BY <1>0, <3>1, <3>2 DEF MachineMoves
  <2> QED
    BY <1>0, <1>t, <2>1, <2>2, StepKinds, ReconcileBegins DEF Restarts
<1>2. machineCache'[m] \in {machineCache[m], machine'[m]}
  BY <1>t, CachesFollow
<1> QED
  BY <1>0, <1>1, <1>2

LEMMA CallsCarryStep ==
  ASSUME ResInv, LabelsStay, [Next]_vars
  PROVE  CallsCarry'
<1>t. /\ TypeInv
      /\ \A d \in Controllers : worker[d].obj.ref \in AgentOrNone
      /\ \A n \in AgentMachines : amCache[n].ref \in AgentOrNone
  BY DEF ResInv, SelInv, ClaimInv, TypeInv, TypeOK, WorkerState, AgentMachineObj
<1> SUFFICES ASSUME NEW c \in Controllers, NEW m \in AgentMachines,
                    worker'[c].pc # "idle", worker'[c].m = m, Staying(m)'
             PROVE  /\ Carries(agent', worker'[c].obj.ref, m)
                    /\ worker'[c].mach.phase # "waiting"
                    /\ worker'[c].pc \notin {"unbindGet", "unbind", "label"}
  <2>1. \A c \in Controllers : worker'[c].pc # "idle" => worker'[c].m \in AgentMachines
    BY <1>t, NewRefs
  <2> QED
    BY <2>1 DEF CallsCarry, Staying
<1> DEFINE w == worker[c]
           r == worker'[c]
<1>m. m \in AgentMachines /\ Staying(m) /\ r.m = m
  BY <1>t, StayingStep
<1>0. w.pc # "idle" /\ w.m = m =>
        /\ Carries(agent, w.obj.ref, m) /\ Carries(agent', w.obj.ref, m)
        /\ w.mach.phase # "waiting"
        /\ w.pc \notin {"unbindGet", "unbind", "label"}
  <2>1. w.pc # "idle" /\ w.m = m =>
        /\ Carries(agent, w.obj.ref, m)
        /\ w.mach.phase # "waiting"
        /\ w.pc \notin {"unbindGet", "unbind", "label"}
    BY <1>m DEF ResInv, CallsCarry
  <2> QED
    BY <1>m, <1>t, <2>1, CarriesKept
<1>1. Carries(agent', r.obj.ref, m)
  <2>1. CASE w.pc # "idle" /\ w.m = m /\ r.obj.ref = w.obj.ref
    BY <1>0, <2>1
  <2>2. CASE r.obj.ref = amCache[m].ref
    <3>1. Carries(agent, amCache[m].ref, m)
      BY <1>m DEF ResInv, RecordsCarry
    <3> QED
      BY <1>m, <1>t, <2>2, <3>1, CarriesKept
  <2>3. CASE r.obj.ref \in Agents /\ r.obj.ref \in LabelledAgents(c, m)
    <3>1. Carries(agent, r.obj.ref, m)
      BY <1>m, <2>3 DEF LabelledAgents, ResInv, ListedLabels
    <3> QED
      BY <1>m, <2>3, <3>1, CarriesKept DEF AgentOrNone
  <2>4. CASE agent'[r.obj.ref].label = NameOf[m]
    BY <2>4 DEF Carries
  <2> QED
    BY <1>t, <2>1, <2>2, <2>3, <2>4, NewRefs
<1>2. r.mach.phase # "waiting" /\ r.pc \notin {"unbindGet", "unbind", "label"}
  <2>1. r = w => r.mach.phase # "waiting" /\ r.pc \notin {"unbindGet", "unbind", "label"}
    BY <1>0
  <2>2. ASSUME ReconcileStep(c)
        PROVE  r.mach.phase # "waiting" /\ r.pc \notin {"unbindGet", "unbind", "label"}
    <3>w. /\ w \in WorkerState /\ w.pc # "idle" /\ RecordMove(c, w, r) /\ r # IdleWorker
          /\ w.pc \in RefPcs => w.obj.ref \in Agents /\ w.obj.ref # None
      BY <1>t, <2>2, RecordMoves, NoneIsNoValue, IdleIsIdle
         DEF TypeInv, TypeOK, WorkerHasMachine
    <3> HIDE DEF w, r
    <3>1. GoesOn(c, w, r) =>
            r.mach.phase # "waiting" /\ r.pc \notin {"unbindGet", "unbind", "label"}
      BY <1>0, <1>m, <3>w DEF GoesOn, KeepsRecord, Carries
    <3>2. ASSUME NEW a \in Agents, r = Found(w, a)
          PROVE  r.mach.phase # "waiting" /\ r.pc \notin {"unbindGet", "unbind", "label"}
      <4>1. r.pc = "sync" /\ r.m = w.m /\ r.mach = w.mach
        BY <3>2, <3>w, FoundRecord
      <4> QED
        BY <1>0, <1>m, <3>w, <4>1
    <3> QED
      BY <3>1, <3>2, <3>w DEF RecordMove
  <2>3. ASSUME NEW n \in AgentMachines, Reconcile(c, n)
        PROVE  r.mach.phase # "waiting" /\ r.pc \notin {"unbindGet", "unbind", "label"}
    <3>1. r = w \/ Begins(c, n, r)
      BY <1>t, <2>3, ReconcileBegins
    <3>2. machineCache[m].phase # "waiting"
      BY <1>m DEF ResInv, NobodyWaits
    <3> QED
      BY <2>1, <3>1, <3>2 DEF Begins
  <2>4. ASSUME NEW d \in Controllers \ {c}, ReconcileStep(d) \/ \E n \in AgentMachines : Reconcile(d, n)
        PROVE  r = w
    BY <1>t, <2>4, RecordMoves, ReconcileBegins
  <2>5. ASSUME NEW cs \in SUBSET Controllers, Restarts(cs)
        PROVE  r = w
    BY <2>5, IdleIsIdle DEF Restarts
  <2>6. OthersWrite => r = w
    BY DEF OthersWrite
  <2> HIDE DEF w, r
  <2> QED
    BY <1>t, <2>1, <2>2, <2>3, <2>4, <2>5, <2>6, StepKinds
<1> QED
  BY <1>1, <1>2

LEMMA RecordsCarryStep ==
  ASSUME ResInv, LabelsStay, [Next]_vars
  PROVE  RecordsCarry'
<1>t. /\ TypeInv
      /\ \A m \in AgentMachines : am[m].ref \in AgentOrNone /\ amCache[m].ref \in AgentOrNone
      /\ \A c \in Controllers : worker[c].obj.ref \in AgentOrNone
  BY DEF ResInv, SelInv, ClaimInv, TypeInv, TypeOK, WorkerState, AgentMachineObj
<1> SUFFICES ASSUME NEW m \in AgentMachines, Staying(m)'
             PROVE  Carries(agent', am'[m].ref, m) /\ Carries(agent', amCache'[m].ref, m)
  BY DEF RecordsCarry
<1>0. Staying(m)
  BY <1>t, StayingStep
<1>1. Carries(agent', am[m].ref, m) /\ Carries(agent', amCache[m].ref, m)
  BY <1>0, <1>t, CarriesKept DEF ResInv, RecordsCarry
<1>2. Carries(agent', am'[m].ref, m)
  <2>1. Carries(agent', None, m)
    BY DEF Carries
  <2>2. ASSUME NEW c \in Controllers, worker[c].pc # "idle", worker[c].m = m
        PROVE  Carries(agent', worker[c].obj.ref, m)
    BY <1>0, <1>t, <2>2, CarriesKept DEF ResInv, CallsCarry
  <2> QED
    BY <1>1, <1>t, <2>1, <2>2, NewRecords
<1>3. amCache'[m] \in {amCache[m], am'[m]}
  BY <1>t, CachesFollow
<1> QED
  BY <1>1, <1>2, <1>3

LEMMA ResInit == Init => ResInv
<1> SUFFICES ASSUME Init PROVE ResInv
  OBVIOUS
<1>1. \A a \in Agents : agent[a].label = None /\ \A c \in Controllers : listCache[c][a].label = None
  BY DEF Init, NewAgent
<1>2. \A m \in AgentMachines : am[m].ref = None /\ amCache[m].ref = None /\ NameOf[m] # None
  BY ConstantTypes, NoneIsNoValue DEF Init, NewAgentMachine
<1>3. NobodyWaits
  <2>1. \A b : NewMachine(b).st = "live" /\ NewMachine(b).phase = "none"
    BY DEF NewMachine
  <2> QED
    BY <2>1 DEF Init, NobodyWaits
<1>4. \A c \in Controllers : worker[c].pc = "idle"
  BY IdleIsIdle DEF Init
<1> QED
  BY <1>1, <1>2, <1>3, <1>4, SelInit
     DEF ResInv, LabelsExist, LabelsMap, ListedLabels, RecordsCarry, CallsCarry, Carries

LEMMA ResStep ==
  ASSUME UniqueNames, DeletionsDoNotMeet, ResInv, [Next]_vars
  PROVE  ResInv'
<1>1. SelInv' /\ LabelsExist'
  BY SelStep, LabelsExistStep DEF ResInv, SelInv
<1>2. LabelsStay
  BY LabelsStayStep
<1> QED
  BY <1>1, <1>2, LabelsMapStep, RecordsCarryStep, NobodyWaitsStep, CallsCarryStep DEF ResInv

\* Through stale caches and lists, crashes, restores of the hub, failed calls and
\* lost answers, AgentRef names an Agent that is labelled, mapped and bound for
\* this AgentMachine: findAgent takes an Agent with the AgentMachine's name or
\* claims one under optimistic locking, and nothing takes the name off again.
\* handleDeletionHook, which gives the Agent of a deleted Machine back whoever
\* holds it by then, does no harm when no Agent is selected by two AgentMachines;
\* names do not repeat, and no Agent is deleted.
THEOREM ReferencesAreOwn ==
  ASSUME UniqueNames, DeletionsDoNotMeet, "deleteAgent" \notin Environment
  PROVE  Spec => []ReservationHolds
<1> DEFINE AllExist == \A a \in Agents : agent[a].exists
<1>1. Init => ResInv /\ AllExist
  <2>1. Init => AllExist
    BY DEF Init, NewAgent
  <2> QED
    BY <2>1, ResInit
<1>2. ResInv /\ AllExist /\ [Next]_vars => ResInv' /\ AllExist'
  BY ResStep, LabelsStayStep DEF LabelsStay, Kept
<1>3. ResInv /\ AllExist => ReservationHolds
  <2> SUFFICES ASSUME ResInv, AllExist, NEW m \in AgentMachines, am[m].ref # None,
                      machine[m].st = "live"
               PROVE  LET a == am[m].ref IN /\ agent[a].label = NameOf[m]
                                            /\ agent[a].namespace = NsOf[m]
                                            /\ agent[a].cd = NsOf[m]
    BY DEF ReservationHolds
  <2>1. am[m].ref \in Agents /\ Staying(m)
    BY DEF ResInv, SelInv, ClaimInv, TypeInv, TypeOK, AgentMachineObj, AgentOrNone, Staying
  <2>2. agent[am[m].ref].label = NameOf[m]
    BY <2>1 DEF ResInv, RecordsCarry, Carries
  <2> QED
    BY <2>1, <2>2 DEF ResInv, LabelsMap
<1> HIDE DEF AllExist
<1> QED
  BY <1>1, <1>2, <1>3, PTL DEF Spec

=============================================================================
