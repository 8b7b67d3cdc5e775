------------------------------ MODULE PoolProofs ------------------------------
(***************************************************************************)
(* The AgentMachine reconciler implements AgentPool: every step of         *)
(* AgentMachineSystem is a step of the pool or leaves it alone.            *)
(***************************************************************************)
EXTENDS ReservationProofs

\* The pool as it is read off labels, annotations and AgentRefs.
Members == {a \in Agents : agent[a].exists}
Holders == [a \in Agents |-> Holder(a)]
Recorded == [m \in AgentMachines |-> am[m].ref]
Leaving == {m \in AgentMachines : am[m].st # "live" \/ machine[m].st # "live"}

PoolStep == [Pool!Next]_(Pool!poolVars)

LEMMA StutterStep ==
  ASSUME Members' = Members, Holders' = Holders, Recorded' = Recorded, Leaving' = Leaving
  PROVE  PoolStep
BY DEF PoolStep, Pool!poolVars, Members, Holders, Recorded, Leaving

LEMMA ReserveStep ==
  ASSUME NEW m \in AgentMachines, NEW a \in Agents,
         a \in Members, Holders[a] = None, \A b \in Agents : Holders[b] # m,
         Recorded[m] = None, Holders' = [Holders EXCEPT ![a] = m],
         Members' = Members, Recorded' = Recorded, Leaving' = Leaving
  PROVE  PoolStep
<1>1. Pool!Reserve(m, a)
  BY DEF Pool!Reserve, Members, Holders, Recorded, Leaving
<1> QED
  BY <1>1 DEF PoolStep, Pool!Next

LEMMA RecordStep ==
  ASSUME NEW m \in AgentMachines, NEW a \in Agents,
         Holders[a] = m \/ a \notin Members, Recorded[m] = None,
         Recorded' = [Recorded EXCEPT ![m] = a],
         Members' = Members, Holders' = Holders, Leaving' = Leaving
  PROVE  PoolStep
<1>1. Pool!Record(m, a)
  BY DEF Pool!Record, Members, Holders, Recorded, Leaving
<1> QED
  BY <1>1 DEF PoolStep, Pool!Next

LEMMA ReleaseStep ==
  ASSUME NEW a \in Agents, Holders[a] \in Leaving,
         Holders' = [Holders EXCEPT ![a] = None],
         Members' = Members, Recorded' = Recorded, Leaving' = Leaving
  PROVE  PoolStep
<1>1. Pool!Release(a)
  BY DEF Pool!Release, Members, Holders, Recorded, Leaving
<1> QED
  BY <1>1 DEF PoolStep, Pool!Next

LEMMA LeaveStep ==
  ASSUME NEW m \in AgentMachines, Leaving' = Leaving \union {m},
         Members' = Members, Holders' = Holders, Recorded' = Recorded
  PROVE  PoolStep
<1>1. Pool!Leave(m)
  BY DEF Pool!Leave, Members, Holders, Recorded, Leaving
<1> QED
  BY <1>1 DEF PoolStep, Pool!Next

LEMMA ForgetStep ==
  ASSUME NEW m \in AgentMachines, Recorded[m] # None,
         Recorded' = [Recorded EXCEPT ![m] = None], Leaving' = Leaving \union {m},
         Members' = Members, Holders' = Holders
  PROVE  PoolStep
<1>1. Pool!Forget(m)
  BY DEF Pool!Forget, Members, Holders, Recorded, Leaving
<1> QED
  BY <1>1 DEF PoolStep, Pool!Next

LEMMA LoseRecordsStep ==
  ASSUME Recorded' = [m \in AgentMachines |-> None],
         Members' = Members, Holders' = Holders, Leaving' = Leaving
  PROVE  PoolStep
<1>1. Pool!LoseRecords
  BY DEF Pool!LoseRecords, Members, Holders, Recorded, Leaving
<1> QED
  BY <1>1 DEF PoolStep, Pool!Next

LEMMA VanishStep ==
  ASSUME NEW a \in Agents, Members' = Members \ {a},
         Holders' = [Holders EXCEPT ![a] = None],
         Recorded' = Recorded, Leaving' = Leaving
  PROVE  PoolStep
<1>1. Pool!Vanish(a)
  BY DEF Pool!Vanish, Members, Holders, Recorded, Leaving
<1> QED
  BY <1>1 DEF PoolStep, Pool!Next

-----------------------------------------------------------------------------
(* The AgentMachine an Agent is mapped to *)

\* Whom an Agent in version ag is mapped to.
HolderIn(ag) ==
  LET ms == {m \in AgentMachines : ag.label = NameOf[m] /\ ag.namespace = NsOf[m]}
  IN IF ms = {} THEN None ELSE CHOOSE m \in ms : TRUE

LEMMA HoldersAre ==
  /\ Holders = [a \in Agents |-> HolderIn(agent[a])]
  /\ Holders' = [a \in Agents |-> HolderIn(agent'[a])]
BY DEF Holders, Holder, HolderIn

LEMMA HolderFacts ==
  ASSUME NEW ag
  PROVE  /\ ag.label = None => HolderIn(ag) = None
         /\ \A m \in AgentMachines : ag.label = NameOf[m] /\ ag.namespace = NsOf[m] =>
              HolderIn(ag) = m
         /\ \A m \in AgentMachines : HolderIn(ag) = m =>
              ag.label = NameOf[m] /\ ag.namespace = NsOf[m]
<1> DEFINE ms == {m \in AgentMachines : ag.label = NameOf[m] /\ ag.namespace = NsOf[m]}
<1>1. \A m \in AgentMachines : NameOf[m] # None /\ m # None
  BY ConstantTypes, NoneIsNoValue
<1>2. \A m \in ms, n \in ms : m = n
  BY NamesAreUniqueInANamespace
<1>3. HolderIn(ag) = IF ms = {} THEN None ELSE CHOOSE m \in ms : TRUE
  BY DEF HolderIn
<1>4. ms # {} => (CHOOSE m \in ms : TRUE) \in ms
  OBVIOUS
<1>5. ms = {} => HolderIn(ag) = None
  BY <1>3
<1>6. ms # {} => HolderIn(ag) \in ms
  BY <1>3, <1>4
<1>7. ag.label = None => ms = {}
  BY <1>1
<1>8. \A m \in ms : HolderIn(ag) = m
  BY <1>2, <1>6
<1>9. \A m \in AgentMachines : HolderIn(ag) = m => m \in ms
  BY <1>1, <1>5, <1>6
<1> QED
  BY <1>5, <1>7, <1>8, <1>9

\* An Agent is mapped to an AgentMachine or to nobody.
LEMMA HolderIsMachine ==
  ASSUME NEW ag
  PROVE  HolderIn(ag) = None \/ HolderIn(ag) \in AgentMachines
<1> DEFINE ms == {m \in AgentMachines : ag.label = NameOf[m] /\ ag.namespace = NsOf[m]}
<1>1. HolderIn(ag) = IF ms = {} THEN None ELSE CHOOSE m \in ms : TRUE
  BY DEF HolderIn
<1>2. ms # {} => (CHOOSE m \in ms : TRUE) \in ms
  OBVIOUS
<1> QED
  BY <1>1, <1>2
-----------------------------------------------------------------------------
(* Reservations, also those of AgentMachines that leave *)

\* Agent a in ags is mapped to AgentMachine m.
MappedTo(ags, a, m) == ags[a].label = NameOf[m] /\ ags[a].namespace = NsOf[m]

\* An Agent without a label is not mapped.
MappedIsLabelled == \A a \in Agents : agent[a].namespace # None => agent[a].label # None

\* ensureAgentLabeled names an Agent again that has been given back; it is still
\* the one recorded in its AgentMachine.
NamedAgain ==
  \A a \in Agents, m \in AgentMachines :
    agent[a].label = NameOf[m] /\ ~MappedTo(agent, a, m) =>
      am[m].ref = a \/ am[m].st = "gone"

\* A Reconcile call that refers to an Agent which is not recorded yet has just
\* reserved or found it, and does not give it back.
CallsReserve ==
  \A c \in Controllers : worker[c].pc # "idle" =>
    LET w == worker[c] IN
    \/ am[w.m].ref = w.obj.ref \/ am[w.m].st = "gone"
    \/ /\ w.pc \notin {"addHook", "unbindGet", "unbind"}
       /\ agent[w.obj.ref].exists => MappedTo(agent, w.obj.ref, w.m)

PoolInv == OneInv /\ ResInv /\ MappedIsLabelled /\ NamedAgain /\ CallsReserve

\* handleDeletionHook comes first in a Reconcile call.
LEMMA HookComesFirst ==
  ASSUME TypeInv, NEW c \in Controllers, ReconcileStep(c)
  PROVE  /\ worker'[c].pc # "addHook"
         /\ worker'[c].pc = "unbindGet" => worker[c].pc = "addHook"
         /\ worker'[c].pc = "unbind" => worker[c].pc = "unbindGet"
<1> DEFINE w == worker[c]
           Late(r) == r.pc \notin {"addHook", "unbindGet", "unbind"}
<1>w. w \in WorkerState
  BY DEF TypeInv, TypeOK
<1>b. ASSUME NEW r, Become(c, r) PROVE worker'[c] = r
  BY <1>b DEF Become, TypeInv, TypeOK
<1>1. ASSUME NEW x \in WorkerState
      PROVE  /\ Late(Return(x)) /\ Late(Retry(x)) /\ Late(RemoveHookAndFinalizer(x))
             /\ \A e : Late(UpdateStatus(x, e))
             /\ \A ag, met : Late(MirrorConditions(x, ag, met))
             /\ \A s : Late(AfterUnbind(x, s))
  <2>1. Late(Return(x)) /\ Late(Retry(x))
    BY DEF Return, Retry, WorkerState
  <2>2. RemoveFinalizer(x) \in WorkerState
    BY RemoveFinalizerKeeps
  <2>3. Late(Return(RemoveFinalizer(x)))
    BY <2>2 DEF Return, WorkerState
  <2>4. Late([x EXCEPT !.pc = "removeHook"])
    BY DEF WorkerState
  <2>5. Late(RemoveHookAndFinalizer(x))
    BY <2>3, <2>4 DEF RemoveHookAndFinalizer
  <2>6. \A o : Late(Return([x EXCEPT !.obj = o])) /\ Late([x EXCEPT !.pc = "status", !.obj = o])
    BY DEF Return, WorkerState
  <2>7. \A e : Late(UpdateStatus(x, e))
    BY <2>6 DEF UpdateStatus
  <2>8. \A ag, met : Late(MirrorConditions(x, ag, met))
    BY <2>6 DEF MirrorConditions
  <2> HIDE DEF Late
  <2> QED
    BY <2>1, <2>5, <2>7, <2>8 DEF AfterUnbind
<1>2. CASE AddHook(c)
  <2>1. w.pc = "addHook"
    BY <1>2 DEF AddHook, At
  <2>2. GoesOn(c, w, worker'[c])
    BY <1>2, <2>1, RecordMoves DEF RecordMove
  <2>3. worker'[c].pc # "addHook"
    <3>1. [w EXCEPT !.mach.hook = TRUE] \in WorkerState
      <4>1. [w.mach EXCEPT !.hook = TRUE] \in MachineObj
        BY <1>w DEF WorkerState, MachineObj
      <4> QED
        BY <1>w, <4>1 DEF WorkerState
    <3>2. ASSUME NEW x \in WorkerState
          PROVE  HandleDeletionHook(x).pc # "addHook"
      <4> DEFINE y == IF x.obj.st = "live" THEN [x EXCEPT !.obj.fin = TRUE] ELSE x
      <4>1. y \in WorkerState
        <5>1. [x.obj EXCEPT !.fin = TRUE] \in AgentMachineObj
          BY DEF WorkerState, AgentMachineObj
        <5> QED
          BY <5>1 DEF WorkerState
      <4>2. RemoveFinalizer(y) \in WorkerState
        BY <4>1, RemoveFinalizerKeeps
      <4> HIDE DEF y
      <4>3. /\ Late(Return(y)) /\ Late(RemoveHookAndFinalizer(y))
            /\ Late(Return(RemoveFinalizer(y)))
        BY <1>1, <4>1, <4>2
      <4>4. /\ [y EXCEPT !.pc = "unbindGet"].pc # "addHook"
            /\ [y EXCEPT !.pc = "boot", !.obj.backup = TRUE].pc # "addHook"
        BY <4>1 DEF WorkerState
      <4> QED
        BY <4>3, <4>4 DEF HandleDeletionHook, y
    <3>3. HandleDeletionHook([w EXCEPT !.mach.hook = TRUE]).pc # "addHook" /\ Retry(w).pc # "addHook"
      BY <1>1, <1>w, <3>1, <3>2
    <3>4. \/ Become(c, HandleDeletionHook([w EXCEPT !.mach.hook = TRUE]))
          \/ Become(c, Retry(w))
      BY <1>2 DEF AddHook, CallMachine
    <3> QED
      BY <1>b, <3>3, <3>4
  <2> QED
    BY <2>1, <2>2, <2>3 DEF GoesOn
<1>3. CASE UnbindGet(c)
  <2>1. w.pc = "unbindGet"
    BY <1>3 DEF UnbindGet, At
  <2>2. [w EXCEPT !.pc = "unbind"].pc = "unbind"
    BY <1>w DEF WorkerState
  <2>3. \E r : Become(c, r) /\ (Late(r) \/ r = [w EXCEPT !.pc = "unbind"])
    BY <1>1, <1>3, <1>w DEF UnbindGet, ReadAgent
  <2> QED
    BY <1>b, <2>1, <2>2, <2>3
<1>4. CASE ~(AddHook(c) \/ UnbindGet(c))
  <2>1. \E r : Become(c, r) /\ Late(r)
    <3>1. CASE Unbind(c)
      BY <1>1, <1>w, <3>1 DEF Unbind, CallAgent
    <3>2. CASE RemoveHook(c)
      BY <1>1, <1>w, <3>2, RemoveFinalizerKeeps DEF RemoveHook, CallMachine
    <3>3. CASE ProcessBootstrapDataSecret(c)
      <4> DEFINE x == [w EXCEPT !.boot = w.mach.boot]
                 y == [x EXCEPT !.again = TRUE]
      <4>1. x \in WorkerState /\ y \in WorkerState
        BY <1>w DEF WorkerState, MachineObj
      <4> HIDE DEF x
      <4>2. Late([x EXCEPT !.pc = "find"]) /\ Late([x EXCEPT !.pc = "sync"])
        BY <4>1 DEF WorkerState
      <4>3. \A ref : Late(AfterBootstrap(x, ref))
        BY <1>1, <4>1, <4>2 DEF AfterBootstrap
      <4> HIDE DEF Late
      <4>4. \A o : Late(BootstrapProcessed(w, o, w.mach.boot))
        BY <1>1, <1>w, <4>3 DEF BootstrapProcessed, x
      <4> QED
        BY <3>3, <4>4 DEF ProcessBootstrapDataSecret
    <3>4. CASE FindAgent(c)
      <4>1. \A a \in Agents : Late(Found(w, a))
        BY <1>w, FoundRecord
      <4>2. \A cs : Late([w EXCEPT !.pc = "claim", !.cand = cs])
        BY <1>w DEF WorkerState
      <4>3. LabelledAgents(c, w.m) \subseteq Agents
        BY DEF LabelledAgents
      <4> HIDE DEF Late
      <4> QED
        BY <1>1, <1>w, <3>4, <4>1, <4>2, <4>3 DEF FindAgent
    <3>5. CASE UpdateFoundAgent(c)
      <4>1. w.pc = "claim"
        BY <3>5 DEF UpdateFoundAgent, At
      <4>2. PICK a \in w.cand :
              \/ Become(c, Found(w, a))
              \/ Become(c, UpdateStatus([w EXCEPT !.cand = @ \ {a}], FALSE))
              \/ Become(c, [w EXCEPT !.cand = @ \ {a}])
        BY <3>5 DEF UpdateFoundAgent, CallAgent
      <4>3. /\ a \in Agents /\ [w EXCEPT !.cand = @ \ {a}] \in WorkerState
            /\ [w EXCEPT !.cand = @ \ {a}].pc = "claim"
        BY <1>w, <4>1 DEF WorkerState
      <4>4. Late(Found(w, a))
        BY <1>w, <4>3, FoundRecord
      <4> QED
        BY <1>1, <4>2, <4>3, <4>4
    <3>6. CASE UpdateAgentIfNeeded(c)
      <4>1. Late([w EXCEPT !.pc = "syncUpdate"])
        BY <1>w DEF WorkerState
      <4> QED
        BY <1>1, <1>w, <3>6, <4>1 DEF UpdateAgentIfNeeded, ReadAgent
    <3>7. CASE UpdateBootstrapData(c)
      BY <1>1, <1>w, <3>7 DEF UpdateBootstrapData, CallAgent
    <3>8. CASE UpdateStatusGet(c)
      <4>1. Late([w EXCEPT !.pc = "label"])
        BY <1>w DEF WorkerState
      <4> QED
        BY <1>1, <1>w, <3>8, <4>1 DEF UpdateStatusGet, ReadAgent
    <3>9. CASE EnsureAgentLabeled(c)
      BY <1>1, <1>w, <3>9 DEF EnsureAgentLabeled, CallAgent
    <3>10. CASE PatchConditions(c) \/ PatchSpec(c) \/ PatchStatus(c)
      <4>1. \A pc \in {"patchSpec", "patchStatus", "done"} : Late([w EXCEPT !.pc = pc])
        BY <1>w DEF WorkerState
      <4>2. \E pc \in {"patchSpec", "patchStatus", "done"} : Become(c, [w EXCEPT !.pc = pc])
        BY <3>10 DEF PatchConditions, PatchSpec, PatchStatus, CallPatch
      <4> QED
        BY <4>1, <4>2
    <3>11. CASE Finish(c)
      BY <3>11, IdleIsIdle DEF Finish
    <3> HIDE DEF Late
    <3> QED
      BY <1>4, <3>1, <3>2, <3>3, <3>4, <3>5, <3>6, <3>7, <3>8, <3>9, <3>10, <3>11
         DEF ReconcileStep
  <2> QED
    BY <1>b, <2>1
<1> QED
  BY <1>2, <1>3, <1>4

\* A record stays until its AgentMachine has gone, or all are lost while no
\* Machine is under deletion.
LEMMA RecordsStay ==
  ASSUME PoolInv, [Next]_vars, NEW m \in AgentMachines
  PROVE  /\ am[m].st = "gone" => am'[m].st = "gone"
         /\ \/ am[m].ref = None \/ am'[m].ref = am[m].ref \/ am'[m].st = "gone"
            \/ /\ am'[m].ref = None /\ machine[m].st = "live" /\ UNCHANGED agent
               /\ \A c \in Controllers : worker'[c].pc = "idle"
<1>t. TypeInv /\ am \in [AgentMachines -> AgentMachineObj]
  BY DEF PoolInv, ResInv, SelInv, ClaimInv, TypeInv, TypeOK
<1> DEFINE Goal == /\ am[m].st = "gone" => am'[m].st = "gone"
                   /\ \/ am[m].ref = None \/ am'[m].ref = am[m].ref \/ am'[m].st = "gone"
                      \/ /\ am'[m].ref = None /\ machine[m].st = "live" /\ UNCHANGED agent
                         /\ \A c \in Controllers : worker'[c].pc = "idle"
<1>1. ASSUME NEW c \in Controllers, ReconcileStep(c) PROVE Goal
  <2>1. worker[c].m = m => am[m].ref = None \/ am[m].ref = worker[c].obj.ref
    BY <1>1, <1>t, RecordMoves DEF PoolInv, OneInv, CallsAgree
  <2>2. \/ am'[m] = am[m]
        \/ worker[c].m = m /\ am[m].st # "gone" /\ Patched(worker[c], am[m], am'[m])
    BY <1>1, <1>t, RecordWrites
  <2> QED
    BY <2>1, <2>2, GoneHasNoRecord DEF Patched
<1>2. ASSUME NEW cs \in SUBSET Controllers, Restarts(cs) PROVE Goal
  <2>1. [am[m] EXCEPT !.ref = None, !.ready = FALSE, !.conds = "none"].ref = None
    BY <1>t DEF AgentMachineObj
  <2>2. CASE UNCHANGED am
    BY <2>2
  <2>3. CASE /\ cs = Controllers
             /\ am[m].st = "live" /\ machine[m].st = "live"
             /\ am'[m] = [am[m] EXCEPT !.ref = None, !.ready = FALSE, !.conds = "none"]
    <3>1. UNCHANGED agent /\ \A c \in Controllers : worker'[c].pc = "idle"
      BY <1>2, <2>3, IdleIsIdle DEF Restarts
    <3> QED
      BY <2>1, <2>3, <3>1
  <2> QED
    BY <1>2, <2>2, <2>3 DEF Restarts
<1>3. OthersWrite => Goal
  BY <1>t, GoneHasNoRecord DEF OthersWrite, RecordKept
<1>4. UNCHANGED am => Goal
  OBVIOUS
<1> HIDE DEF Goal
<1>5. Goal
  BY <1>1, <1>2, <1>3, <1>4, <1>t, StepKinds, ReconcileBegins
<1> QED
  BY <1>5 DEF Goal

\* An Agent stays mapped until it is deleted or the call for its own AgentMachine
\* gives it back.
LEMMA MappedStays ==
  ASSUME UniqueNames, DeletionsDoNotMeet, PoolInv, [Next]_vars,
         NEW a \in Agents, NEW m \in AgentMachines, MappedTo(agent, a, m)
  PROVE  \/ agent'[a].label = None /\ ~agent'[a].exists
         \/ MappedTo(agent', a, m)
         \/ /\ agent'[a].label = None
            /\ \E c \in Controllers : /\ ReconcileStep(c) /\ worker[c].pc = "unbind"
                                      /\ worker[c].m = m /\ worker[c].obj.ref = a
<1>t. TypeInv /\ agent \in [Agents -> AgentObj] /\ NameOf[m] # None
  BY ConstantTypes, NoneIsNoValue DEF PoolInv, ResInv, SelInv, ClaimInv, TypeInv, TypeOK
<1>1. CASE agent'[a] = agent[a]
  BY <1>1 DEF MappedTo
<1>2. ASSUME NEW c \in Controllers, ReconcileStep(c), NEW v \in AgentObj, Writes(c, a, v),
             agent'[a] = v
      PROVE  \/ MappedTo(agent', a, m)
             \/ /\ agent'[a].label = None /\ worker[c].pc = "unbind"
                /\ worker[c].m = m /\ worker[c].obj.ref = a
  <2>0. agent[a] \in AgentObj
    BY <1>t
  <2>1. worker[c].pc \in {"unbind", "label"} /\ a = worker[c].obj.ref => worker[c].m = m
    BY LeavingCalls DEF PoolInv, MappedTo
  <2>2. /\ Released(agent[a]).label = None
        /\ [agent[a] EXCEPT !.boot = worker[c].boot].label = agent[a].label
        /\ [agent[a] EXCEPT !.boot = worker[c].boot].namespace = agent[a].namespace
        /\ [agent[a] EXCEPT !.label = NameOf[worker[c].m]].label = NameOf[worker[c].m]
        /\ [agent[a] EXCEPT !.label = NameOf[worker[c].m]].namespace = agent[a].namespace
    BY <2>0 DEF Released, AgentObj
  <2>3. ~(worker[c].pc = "claim" /\ a \in worker[c].cand \intersect agentHeld[c])
    BY <1>t DEF PoolInv, ResInv, SelInv, ClaimInv, CandidatesAreFree, MappedTo
  <2> QED
    BY <1>2, <2>1, <2>2, <2>3 DEF Writes, MappedTo
<1>3. CASE OthersWrite
  <2>1. /\ [NewAgent EXCEPT !.exists = FALSE].label = None
        /\ [NewAgent EXCEPT !.exists = FALSE].exists = FALSE
    BY DEF NewAgent
  <2>2. agent'[a] = agent[a] \/ LabelKept(agent[a], agent'[a])
    BY <1>3, <1>t DEF OthersWrite, WriteAgent
  <2> QED
    BY <1>1, <2>1, <2>2 DEF LabelKept, MappedTo
<1>4. ASSUME NEW c \in Controllers, ReconcileStep(c)
      PROVE  \/ agent'[a] = agent[a]
             \/ \E v \in AgentObj : Writes(c, a, v) /\ agent'[a] = v
  BY <1>4, <1>t, AgentWrites DEF WriteAgent
<1> QED
  BY <1>1, <1>2, <1>3, <1>4, <1>t, StepKinds, ReconcileBegins DEF Restarts

LEMMA MappedIsLabelledStep ==
  ASSUME PoolInv, [Next]_vars
  PROVE  MappedIsLabelled'
<1>t. TypeInv /\ agent \in [Agents -> AgentObj]
  BY DEF PoolInv, ResInv, SelInv, ClaimInv, TypeInv, TypeOK
<1> SUFFICES ASSUME NEW a \in Agents, agent'[a].label = None
             PROVE  agent'[a].namespace = None
  BY DEF MappedIsLabelled
<1>0. agent[a] \in AgentObj /\ (agent[a].label = None => agent[a].namespace = None)
  BY <1>t DEF PoolInv, MappedIsLabelled
<1>1. CASE agent'[a] = agent[a]
  BY <1>0, <1>1
<1>2. ASSUME NEW c \in Controllers, NEW v \in AgentObj, Writes(c, a, v), agent'[a] = v,
             worker[c].m \in AgentMachines
      PROVE  agent'[a].namespace = None
  <2>1. NameOf[worker[c].m] # None
    BY <1>2, ConstantTypes, NoneIsNoValue
  <2>2. /\ Released(agent[a]).namespace = None
        /\ [agent[a] EXCEPT !.boot = worker[c].boot].label = agent[a].label
        /\ [agent[a] EXCEPT !.boot = worker[c].boot].namespace = agent[a].namespace
        /\ [agent[a] EXCEPT !.label = NameOf[worker[c].m]].label = NameOf[worker[c].m]
        /\ Claimed(agent[a], worker[c].m, worker[c].boot).label = NameOf[worker[c].m]
    BY <1>0 DEF Released, Claimed, AgentObj
  <2> QED
    BY <1>0, <1>2, <2>1, <2>2 DEF Writes
<1>3. CASE OthersWrite
  <2>1. [NewAgent EXCEPT !.exists = FALSE].namespace = None
    BY DEF NewAgent
  <2>2. agent'[a] = agent[a] \/ LabelKept(agent[a], agent'[a])
    BY <1>3, <1>t DEF OthersWrite, WriteAgent
  <2> QED
    BY <1>0, <2>1, <2>2 DEF LabelKept
<1>4. ASSUME NEW c \in Controllers, ReconcileStep(c)
      PROVE  \/ agent'[a] = agent[a]
             \/ /\ worker[c].m \in AgentMachines
                /\ \E v \in AgentObj : Writes(c, a, v) /\ agent'[a] = v
  BY <1>4, <1>t, AgentWrites, RecordMoves DEF WriteAgent
<1> QED
  BY <1>1, <1>2, <1>3, <1>4, <1>t, StepKinds, ReconcileBegins DEF Restarts

LEMMA NamedAgainStep ==
  ASSUME UniqueNames, DeletionsDoNotMeet, PoolInv, [Next]_vars
  PROVE  NamedAgain'
<1>t. TypeInv /\ agent \in [Agents -> AgentObj]
  BY DEF PoolInv, ResInv, SelInv, ClaimInv, TypeInv, TypeOK
<1> SUFFICES ASSUME NEW a \in Agents, NEW m \in AgentMachines,
                    agent'[a].label = NameOf[m], ~MappedTo(agent', a, m)
             PROVE  am'[m].ref = a \/ am'[m].st = "gone"
  BY DEF NamedAgain, MappedTo
<1>0. NameOf[m] # None /\ a # None
  BY ConstantTypes, NoneIsNoValue
<1>1. ~MappedTo(agent, a, m)
  BY <1>0, MappedStays
<1>2. CASE agent[a].label = NameOf[m]
  <2>1. am[m].ref = a \/ am[m].st = "gone"
    BY <1>1, <1>2 DEF PoolInv, NamedAgain
  <2>2. machine[m].st # "live"
    BY <1>1, <1>2 DEF PoolInv, ResInv, LabelsMap, Staying, MappedTo
  <2> QED
    BY <1>0, <2>1, <2>2, RecordsStay
<1>3. ASSUME agent[a].label # NameOf[m], NEW c \in Controllers, ReconcileStep(c)
      PROVE  am'[m].ref = a \/ am'[m].st = "gone"
  <2>1. worker[c].pc # "idle" /\ worker[c].m \in AgentMachines
    BY <1>3, <1>t, RecordMoves
  <2>2. /\ agent'[a].label = NameOf[worker[c].m] /\ UNCHANGED am
        /\ \/ worker[c].pc = "label" /\ a = worker[c].obj.ref
           \/ agent'[a] = Claimed(agent[a], worker[c].m, worker[c].boot)
    BY <1>0, <1>3, <1>t, NewLabels
  <2>3. worker[c].m = m
    BY <2>1, <2>2 DEF UniqueNames
  <2>4. agent'[a] # Claimed(agent[a], m, worker[c].boot)
    <3>1. agent[a] \in AgentObj
      BY <1>t
    <3> QED
      BY <3>1 DEF Claimed, AgentObj, MappedTo
  <2>5. agent[a].exists
    <3>1. agent'[a].exists
      BY <1>0, <1>t, LabelsExistStep DEF PoolInv, ResInv, SelInv, LabelsExist
    <3>2. Kept(agent[a], agent'[a])
      BY <1>3, CallsKeepLabels DEF PoolInv
    <3> QED
      BY <3>1, <3>2 DEF Kept
  <2>6. am[m].ref = a \/ am[m].st = "gone"
    BY <1>1, <2>1, <2>2, <2>3, <2>4, <2>5 DEF PoolInv, CallsReserve
  <2> QED
    BY <2>2, <2>6
<1> QED
  BY <1>0, <1>2, <1>3, <1>t, StepKinds, LabelsOnlyLost, ReconcileBegins DEF Restarts

\* A call that refers to no Agent records none.
LEMMA RecordsKeepNone ==
  ASSUME PoolInv, [Next]_vars, NEW c \in Controllers, worker[c].pc # "idle",
         worker[c].obj.ref = None
  PROVE  am'[worker[c].m].ref = None
<1>t. TypeInv /\ worker[c].m \in AgentMachines
  BY DEF PoolInv, ResInv, SelInv, ClaimInv, TypeInv, WorkerHasMachine
<1>1. am[worker[c].m].ref = None
  BY DEF PoolInv, OneInv, CallsAgree
<1>2. \A d \in Controllers : worker[d].pc # "idle" /\ worker[d].m = worker[c].m => d = c
  BY OneCallPerMachine DEF PoolInv, OneInv
<1> QED
  BY <1>1, <1>2, <1>t, NewRecords

LEMMA CallsReserveStep ==
  ASSUME "stale" \notin Environment, UniqueNames, DeletionsDoNotMeet, PoolInv, [Next]_vars
  PROVE  CallsReserve'
<1>t. TypeInv /\ agent \in [Agents -> AgentObj]
  BY DEF PoolInv, ResInv, SelInv, ClaimInv, TypeInv, TypeOK
<1> SUFFICES ASSUME NEW c \in Controllers, worker'[c].pc # "idle"
             PROVE  LET r == worker'[c] IN
                    \/ am'[r.m].ref = r.obj.ref \/ am'[r.m].st = "gone"
                    \/ /\ r.pc \notin {"addHook", "unbindGet", "unbind"}
                       /\ agent'[r.obj.ref].exists => MappedTo(agent', r.obj.ref, r.m)
  BY DEF CallsReserve, MappedTo
<1> DEFINE w == worker[c]
           r == worker'[c]
           m == r.m
           Early == {"addHook", "unbindGet", "unbind"}
           Goal == \/ am'[m].ref = r.obj.ref \/ am'[m].st = "gone"
                   \/ /\ r.pc \notin Early
                      /\ agent'[r.obj.ref].exists => MappedTo(agent', r.obj.ref, m)
<1>m. /\ m \in AgentMachines
      /\ r.obj.ref \in Agents \union {None}
  <2>1. TypeInv'
    BY <1>t, NextType
  <2> QED
    BY <2>1 DEF TypeInv, TypeOK, WorkerHasMachine, WorkerState, AgentMachineObj, AgentOrNone
<1>s. /\ am[m].st = "gone" => am'[m].st = "gone"
      /\ am[m].ref = None \/ am'[m].ref = am[m].ref \/ am'[m].st = "gone"
  BY <1>m, RecordsStay
<1>g. am[m].ref # None /\ w.pc # "idle" /\ w.m = m => am[m].ref = w.obj.ref
  BY DEF PoolInv, OneInv, CallsAgree
\* The call goes on with the Agent it refers to.
<1>1. ASSUME w.pc # "idle", w.m = m, r.obj.ref = w.obj.ref, w.pc \notin Early => r.pc \notin Early
      PROVE  Goal
  <2>1. CASE am[m].st = "gone"
    BY <1>s, <2>1
  <2>2. CASE w.obj.ref = None
    BY <1>1, <1>g, <1>t, <1>m, <2>2, RecordsKeepNone
  <2>3. CASE am[m].ref = w.obj.ref /\ w.obj.ref # None
    BY <1>1, <1>s, <2>3
  <2>4. CASE /\ w.obj.ref # None /\ w.pc \notin Early
             /\ agent[w.obj.ref].exists => MappedTo(agent, w.obj.ref, m)
    <3>1. w.obj.ref \in Agents
      BY <1>1, <1>m, <2>4
    <3>2. agent'[w.obj.ref].exists => agent[w.obj.ref].exists
      BY <1>t, <3>1, LabelsStayStep DEF LabelsStay, Kept, NewAgent, PoolInv
    <3>3. ASSUME NEW d \in Controllers, worker[d].pc = "unbind", worker[d].m = m
          PROVE  FALSE
      <4>1. d = c
        BY <1>1, <3>3, OneCallPerMachine DEF PoolInv, OneInv
      <4> QED
        BY <2>4, <3>3, <4>1
    <3>4. agent'[w.obj.ref].exists => MappedTo(agent', w.obj.ref, m)
      BY <1>m, <2>4, <3>1, <3>2, <3>3, MappedStays
    <3> QED
      BY <1>1, <2>4, <3>4
  <2> QED
    BY <1>1, <2>1, <2>2, <2>3, <2>4 DEF PoolInv, CallsReserve
<1>2. ASSUME ReconcileStep(c) PROVE Goal
  <2>1. /\ w.pc # "idle" /\ RecordMove(c, w, r) /\ r # IdleWorker /\ w \in WorkerState
        /\ w.pc \notin Early => r.pc \notin Early
    BY <1>2, <1>t, RecordMoves, HookComesFirst, IdleIsIdle DEF TypeInv, TypeOK
  <2>2. CASE GoesOn(c, w, r)
    BY <1>1, <2>1, <2>2 DEF GoesOn, KeepsRecord
  <2>3. ASSUME NEW a \in Agents, r = Found(w, a)
        PROVE  r.pc = "sync" /\ r.obj.ref = a /\ w.m = m
    BY <2>1, <2>3, FoundRecord
  <2>4. ASSUME NEW a \in Agents, r = Found(w, a), w.pc = "find",
               a \in LabelledAgents(c, w.m), UNCHANGED agent
        PROVE  Goal
    <3>1. listCache[c][a] = agent[a]
      BY <1>2, <1>t, <2>4, ListsAreCurrent DEF PoolInv, OneInv, ClaimInv
    <3>2. agent[a].label = NameOf[m]
      BY <2>3, <2>4, <3>1 DEF LabelledAgents
    <3>3. MappedTo(agent, a, m) \/ am[m].ref = a \/ am[m].st = "gone"
      BY <1>m, <3>2 DEF PoolInv, NamedAgain
    <3>4. UNCHANGED am
      BY <1>2, <1>t, <2>4, RecordWrites DEF Patched
    <3> QED
      BY <2>3, <2>4, <3>3, <3>4 DEF MappedTo
  <2>5. ASSUME NEW a \in Agents, r = Found(w, a), WriteAgent(a, Claimed(agent[a], w.m, w.boot))
        PROVE  Goal
    <3>1. agent[a] \in AgentObj /\ agent'[a] = Claimed(agent[a], m, w.boot)
      BY <1>t, <2>3, <2>5 DEF WriteAgent
    <3>2. MappedTo(agent', a, m)
      BY <3>1 DEF Claimed, AgentObj, MappedTo
    <3> QED
      BY <2>3, <2>5, <3>2
  <2> HIDE DEF Goal, w, r
  <2> QED
    BY <2>1, <2>2, <2>4, <2>5 DEF RecordMove
<1>3. ASSUME NEW n \in AgentMachines, Reconcile(c, n), r # w PROVE Goal
  <2>1. Begins(c, n, r) /\ UNCHANGED am /\ Prompt
    BY <1>3, <1>t, ReconcileBegins
  <2>2. amCache = am
    BY <2>1 DEF Prompt, Settled
  <2> QED
    BY <2>1, <2>2 DEF Begins
<1>4. r = w => Goal
  BY <1>1
<1>5. ASSUME NEW d \in Controllers \ {c}, ReconcileStep(d) \/ \E n \in AgentMachines : Reconcile(d, n)
      PROVE  r = w
  BY <1>5, <1>t, RecordMoves, ReconcileBegins
<1>6. ASSUME NEW cs \in SUBSET Controllers, Restarts(cs)
      PROVE  r = w
  BY <1>6, IdleIsIdle DEF Restarts
<1>7. OthersWrite => r = w
  BY DEF OthersWrite
<1> HIDE DEF Goal, w, r, m
<1>8. Goal
  BY <1>2, <1>3, <1>4, <1>5, <1>6, <1>7, <1>t, StepKinds
<1> QED
  BY <1>8 DEF Goal, w, r, m

LEMMA PoolInvStep ==
  ASSUME "stale" \notin Environment, "separateCache" \notin Environment,
         "lostReply" \notin Environment, UniqueNames, DeletionsDoNotMeet, PoolInv, [Next]_vars
  PROVE  PoolInv'
<1>1. OneInv' /\ ResInv'
  BY OneStep, ResStep DEF PoolInv
<1> QED
  BY <1>1, MappedIsLabelledStep, NamedAgainStep, CallsReserveStep DEF PoolInv

LEMMA PoolInvInit == Init => PoolInv
<1> SUFFICES ASSUME Init PROVE PoolInv
  OBVIOUS
<1>1. \A a \in Agents : agent[a].label = None /\ agent[a].namespace = None
  BY DEF Init, NewAgent
<1>2. \A m \in AgentMachines : NameOf[m] # None
  BY ConstantTypes, NoneIsNoValue
<1>3. \A c \in Controllers : worker[c].pc = "idle"
  BY IdleIsIdle DEF Init
<1> QED
  BY <1>1, <1>2, <1>3, OneInit, ResInit DEF PoolInv, MappedIsLabelled, NamedAgain, CallsReserve

-----------------------------------------------------------------------------
(* Steps of a Reconcile call *)

\* updateFoundAgent reserves an Agent.
LEMMA ClaimReserves ==
  ASSUME PoolInv, NEW c \in Controllers, ReconcileStep(c), NEW a \in Agents,
         agent'[a].label # None, agent'[a].label # agent[a].label,
         worker[c].pc # "label", Leaving' = Leaving
  PROVE  PoolStep
<1> DEFINE m == worker[c].m
<1>t. TypeInv /\ agent \in [Agents -> AgentObj]
  BY DEF PoolInv, ResInv, SelInv, ClaimInv, TypeInv, TypeOK
<1>1. /\ worker[c].pc = "claim" /\ agent'[a] = Claimed(agent[a], m, worker[c].boot)
      /\ a \in worker[c].cand \intersect agentHeld[c]
      /\ \A b \in Agents \ {a} : agent'[b] = agent[b]
      /\ UNCHANGED am /\ m \in AgentMachines
  BY <1>t, NewLabels, RecordMoves
<1>2. agent[a].exists /\ agent[a].label = None /\ agent[a] \in AgentObj
  BY <1>1, <1>t DEF PoolInv, ResInv, SelInv, ClaimInv, CandidatesAreFree
<1>3. agent'[a].exists /\ agent'[a].label = NameOf[m] /\ agent'[a].namespace = NsOf[m]
  BY <1>1, <1>2 DEF Claimed, AgentObj
<1>4. Holders' = [Holders EXCEPT ![a] = m]
  <2>1. HolderIn(agent'[a]) = m
    BY <1>1, <1>3, HolderFacts
  <2> QED
    BY <1>1, <2>1, HoldersAre
<1>5. Holders[a] = None
  BY <1>2, HoldersAre, HolderFacts
<1>6. \A b \in Agents : Holders[b] # m
  <2>1. \A b \in Agents : agent[b].label # NameOf[m]
    BY <1>1 DEF PoolInv, OneInv, CallsCover
  <2> QED
    BY <1>1, <2>1, HoldersAre, HolderFacts
<1>7. Recorded[m] = None /\ Recorded' = Recorded
  <2>1. am[m].ref # None => am[m].ref = worker[c].obj.ref
    BY <1>1 DEF PoolInv, OneInv, CallsAgree
  <2>2. worker[c].obj.ref = None
    BY <1>1 DEF PoolInv, OneInv, CallsAgree
  <2> QED
    BY <1>1, <2>1, <2>2 DEF Recorded
<1>8. a \in Members /\ Members' = Members
  BY <1>1, <1>2, <1>3 DEF Members
<1> QED
  BY <1>1, <1>4, <1>5, <1>6, <1>7, <1>8, ReserveStep

\* The deferred Patch records the reservation, or lets the AgentMachine go.
LEMMA PatchRecords ==
  ASSUME PoolInv, NEW c \in Controllers, ReconcileStep(c),
         Members' = Members, Holders' = Holders
  PROVE  PoolStep
<1> DEFINE w == worker[c]
           m == worker[c].m
<1>t. /\ TypeInv /\ am \in [AgentMachines -> AgentMachineObj]
      /\ w \in WorkerState /\ w.pc # "idle" /\ m \in AgentMachines
      /\ w.obj.ref \in Agents \union {None}
  BY RecordMoves
     DEF PoolInv, ResInv, SelInv, ClaimInv, TypeInv, TypeOK, WorkerState, AgentMachineObj, AgentOrNone
<1>m. \A n \in AgentMachines : machine'[n].st = machine[n].st
  BY <1>t, HookWrites
<1>1. CASE UNCHANGED am
  <2>1. Recorded' = Recorded /\ Leaving' = Leaving
    BY <1>1, <1>m DEF Recorded, Leaving
  <2> QED
    BY <2>1, StutterStep
<1>2. ASSUME NEW v \in AgentMachineObj, am' = [am EXCEPT ![m] = v],
             am[m].st # "gone", Patched(w, am[m], v)
      PROVE  PoolStep
  <2>1. am'[m] = v /\ \A n \in AgentMachines \ {m} : am'[n] = am[n]
    BY <1>2, <1>t
  <2>2. ASSUME v.st = am[m].st
        PROVE  Leaving' = Leaving
    BY <1>m, <2>1, <2>2 DEF Leaving
  <2>3. ASSUME v.ref = am[m].ref
        PROVE  Recorded' = Recorded
    BY <2>1, <2>3 DEF Recorded
  <2>4. CASE v.st = am[m].st /\ v.ref = am[m].ref
    BY <2>2, <2>3, <2>4, StutterStep
  <2>5. CASE am[m].st = "deleting" /\ v = GoneAgentMachine
    <3>1. v.st = "gone" /\ v.ref = None
      BY <2>5, GoneHasNoRecord
    <3>2. Leaving' = Leaving /\ m \in Leaving
      BY <1>m, <1>t, <2>1, <2>5, <3>1 DEF Leaving
    <3>3. CASE am[m].ref = None
      BY <2>3, <3>1, <3>2, <3>3, StutterStep
    <3>4. CASE am[m].ref # None
      <4>1. Recorded[m] # None /\ Recorded' = [Recorded EXCEPT ![m] = None]
        BY <1>t, <2>1, <3>1, <3>4 DEF Recorded
      <4>2. Leaving' = Leaving \union {m}
        BY <3>2
      <4> QED
        BY <1>t, <4>1, <4>2, ForgetStep
    <3> QED
      BY <3>3, <3>4
  <2>6. CASE v.st = am[m].st /\ v.ref = w.obj.ref /\ v.ref # am[m].ref
    <3>1. am[m].ref = None
      BY <1>t, <2>6 DEF PoolInv, OneInv, CallsAgree
    <3>2. w.obj.ref \in Agents
      BY <1>t, <2>6, <3>1
    <3>3. Holders[w.obj.ref] = m \/ w.obj.ref \notin Members
      <4>1. agent[w.obj.ref].exists => MappedTo(agent, w.obj.ref, m)
        BY <1>2, <1>t, <2>6, <3>1 DEF PoolInv, CallsReserve
      <4>2. agent[w.obj.ref].exists => HolderIn(agent[w.obj.ref]) = m
        BY <1>t, <4>1, HolderFacts DEF MappedTo
      <4> QED
        BY <3>2, <4>2, HoldersAre DEF Members
    <3>4. Recorded[m] = None /\ Recorded' = [Recorded EXCEPT ![m] = w.obj.ref]
      BY <1>t, <2>1, <2>6, <3>1 DEF Recorded
    <3> QED
      BY <1>t, <2>2, <2>6, <3>2, <3>3, <3>4, RecordStep
  <2> QED
    BY <1>2, <2>4, <2>5, <2>6 DEF Patched
<1> QED
  BY <1>1, <1>2, <1>t, RecordWrites

\* handleDeletionHook gives an Agent back that is reserved for its own AgentMachine,
\* or for none.
LEMMA UnbindReleases ==
  ASSUME UniqueNames, DeletionsDoNotMeet, PoolInv, NEW c \in Controllers, ReconcileStep(c),
         worker[c].pc = "unbind", NEW a \in Agents, a = worker[c].obj.ref,
         WriteAgent(a, Released(agent[a]))
  PROVE  PoolStep
<1> DEFINE m == worker[c].m
<1>t. TypeInv /\ agent[a] \in AgentObj /\ agent \in [Agents -> AgentObj]
  BY DEF PoolInv, ResInv, SelInv, ClaimInv, TypeInv, TypeOK
<1>1. m \in AgentMachines /\ machine[m].st # "live"
      /\ \A n \in AgentMachines : agent[a].label = NameOf[n] => n = m
  BY LeavingCalls DEF PoolInv
<1>2. agent'[a] = Released(agent[a]) /\ \A b \in Agents \ {a} : agent'[b] = agent[b]
  BY <1>t DEF WriteAgent
<1>3. agent'[a].label = None /\ agent'[a].exists = agent[a].exists
  BY <1>2, <1>t DEF Released, AgentObj
<1>4. UNCHANGED am /\ \A n \in AgentMachines : machine'[n].st = machine[n].st
  BY <1>t, RecordWrites, HookWrites DEF Patched
<1>5. Members' = Members /\ Recorded' = Recorded /\ Leaving' = Leaving
  BY <1>2, <1>3, <1>4 DEF Members, Recorded, Leaving
<1>6. Holders' = [Holders EXCEPT ![a] = None]
  <2>1. HolderIn(agent'[a]) = None
    BY <1>3, HolderFacts
  <2> QED
    BY <1>2, <2>1, HoldersAre
<1>7. CASE Holders[a] = None
  <2>1. Holders' = Holders
    BY <1>6, <1>7 DEF Holders
  <2> QED
    BY <1>5, <2>1, StutterStep
<1>8. CASE Holders[a] # None
  <2>1. PICK n \in AgentMachines : Holders[a] = n
    BY <1>8, HoldersAre, HolderIsMachine
  <2>2. agent[a].label = NameOf[n]
    BY <2>1, HoldersAre, HolderFacts
  <2>3. Holders[a] \in Leaving
    BY <1>1, <2>1, <2>2 DEF Leaving
  <2> QED
    BY <1>5, <1>6, <2>3, ReleaseStep
<1> QED
  BY <1>7, <1>8

\* ensureAgentLabeled does not reserve an Agent: it writes no annotation.
LEMMA LabellingReservesNothing ==
  ASSUME UniqueNames, DeletionsDoNotMeet, PoolInv, NEW c \in Controllers, ReconcileStep(c),
         worker[c].pc = "label", NEW a \in Agents, a = worker[c].obj.ref,
         WriteAgent(a, [agent[a] EXCEPT !.label = NameOf[worker[c].m]])
  PROVE  PoolStep
<1> DEFINE m == worker[c].m
<1>t. TypeInv /\ agent[a] \in AgentObj /\ agent \in [Agents -> AgentObj]
  BY DEF PoolInv, ResInv, SelInv, ClaimInv, TypeInv, TypeOK
<1>1. m \in AgentMachines /\ \A n \in AgentMachines : agent[a].label = NameOf[n] => n = m
  BY LeavingCalls DEF PoolInv
<1>2. /\ agent'[a] = [agent[a] EXCEPT !.label = NameOf[m]]
      /\ \A b \in Agents \ {a} : agent'[b] = agent[b]
  BY <1>t DEF WriteAgent
<1>3. /\ agent'[a].label = NameOf[m] /\ agent'[a].exists = agent[a].exists
      /\ agent'[a].namespace = agent[a].namespace
  BY <1>2, <1>t DEF AgentObj
<1>4. UNCHANGED am /\ \A n \in AgentMachines : machine'[n].st = machine[n].st
  BY <1>t, RecordWrites, HookWrites DEF Patched
<1>5. Members' = Members /\ Recorded' = Recorded /\ Leaving' = Leaving
  BY <1>2, <1>3, <1>4 DEF Members, Recorded, Leaving
<1>6. HolderIn(agent'[a]) = HolderIn(agent[a])
  <2>1. CASE agent[a].label = None
    <3>1. agent'[a].namespace = None
      BY <1>3, <2>1 DEF PoolInv, MappedIsLabelled
    <3>2. \A n \in AgentMachines : agent'[a].namespace # NsOf[n]
      BY <3>1, ConstantTypes, NoneIsNoValue
    <3>3. HolderIn(agent'[a]) = None
      BY <3>2 DEF HolderIn
    <3> QED
      BY <2>1, <3>3, HolderFacts
  <2>2. CASE agent[a].label # None
    <3>1. agent[a].label = NameOf[m]
      BY <1>1, <2>2 DEF PoolInv, ResInv, SelInv, LabelsSelected
    <3> QED
      BY <1>3, <3>1 DEF HolderIn
  <2> QED
    BY <2>1, <2>2
<1>7. Holders' = Holders
  BY <1>2, <1>6, HoldersAre
<1> QED
  BY <1>5, <1>7, StutterStep

LEMMA CallsImplement ==
  ASSUME UniqueNames, DeletionsDoNotMeet, PoolInv, NEW c \in Controllers, ReconcileStep(c)
  PROVE  PoolStep
<1>t. TypeInv /\ agent \in [Agents -> AgentObj]
  BY DEF PoolInv, ResInv, SelInv, ClaimInv, TypeInv, TypeOK
<1>1. CASE UNCHANGED agent
  BY <1>1, HoldersAre, PatchRecords DEF Members
<1>2. ASSUME NEW a \in Agents, NEW v \in AgentObj, WriteAgent(a, v), Writes(c, a, v)
      PROVE  PoolStep
  <2>0. /\ agent[a] \in AgentObj /\ agent'[a] = v
        /\ \A b \in Agents \ {a} : agent'[b] = agent[b]
    BY <1>2, <1>t DEF WriteAgent
  <2>1. CASE worker[c].pc = "unbind" /\ a = worker[c].obj.ref /\ v = Released(agent[a])
    BY <1>2, <2>1, UnbindReleases
  <2>2. CASE v = [agent[a] EXCEPT !.boot = worker[c].boot]
    <3>1. /\ v.label = agent[a].label /\ v.namespace = agent[a].namespace
          /\ v.exists = agent[a].exists
      BY <2>0, <2>2 DEF AgentObj
    <3>2. HolderIn(v) = HolderIn(agent[a])
      BY <3>1 DEF HolderIn
    <3>3. Members' = Members /\ Holders' = Holders
      BY <2>0, <3>1, <3>2, HoldersAre DEF Members
    <3> QED
      BY <3>3, PatchRecords
  <2>3. CASE /\ worker[c].pc = "label" /\ a = worker[c].obj.ref
             /\ v = [agent[a] EXCEPT !.label = NameOf[worker[c].m]]
    BY <1>2, <2>3, LabellingReservesNothing
  <2>4. CASE /\ worker[c].pc = "claim" /\ a \in worker[c].cand \intersect agentHeld[c]
             /\ v = Claimed(agent[a], worker[c].m, worker[c].boot)
    <3>1. worker[c].m \in AgentMachines
      BY <1>t, RecordMoves
    <3>2. agent[a].label = None /\ NameOf[worker[c].m] # None
      BY <2>4, <3>1, ConstantTypes, NoneIsNoValue
         DEF PoolInv, ResInv, SelInv, ClaimInv, CandidatesAreFree
    <3>3. v.label = NameOf[worker[c].m]
      BY <2>0, <2>4 DEF Claimed, AgentObj
    <3>4. UNCHANGED am /\ \A n \in AgentMachines : machine'[n].st = machine[n].st
      BY <1>t, <2>4, RecordWrites, HookWrites DEF Patched
    <3>5. Leaving' = Leaving
      BY <3>4 DEF Leaving
    <3> QED
      BY <2>0, <2>4, <3>2, <3>3, <3>5, ClaimReserves
  <2> QED
    BY <1>2, <2>1, <2>2, <2>3, <2>4 DEF Writes
<1> QED
  BY <1>1, <1>2, <1>t, AgentWrites

-----------------------------------------------------------------------------
(* All other steps *)

LEMMA RestartsImplement ==
  ASSUME TypeInv, NEW cs \in SUBSET Controllers, Restarts(cs)
  PROVE  PoolStep
<1>1. UNCHANGED <<machine, agent>>
  BY DEF Restarts
<1>2. Members' = Members /\ Holders' = Holders
  BY <1>1, HoldersAre DEF Members
<1>3. CASE UNCHANGED am
  BY <1>1, <1>2, <1>3, StutterStep DEF Recorded, Leaving
<1>4. CASE am' = [m \in AgentMachines |->
                    [am[m] EXCEPT !.ref = None, !.ready = FALSE, !.conds = "none"]]
  <2>1. \A m \in AgentMachines : am[m] \in AgentMachineObj
    BY DEF TypeInv, TypeOK
  <2>2. \A m \in AgentMachines : am'[m].ref = None /\ am'[m].st = am[m].st
    BY <1>4, <2>1 DEF AgentMachineObj
  <2>3. Recorded' = [m \in AgentMachines |-> None]
    BY <2>2 DEF Recorded
  <2>4. Leaving' = Leaving
    BY <1>1, <2>2 DEF Leaving
  <2> QED
    BY <1>2, <2>3, <2>4, LoseRecordsStep
<1> QED
  BY <1>3, <1>4 DEF Restarts

LEMMA OthersImplement ==
  ASSUME TypeInv, OthersWrite
  PROVE  PoolStep
<1>t. /\ am \in [AgentMachines -> AgentMachineObj]
      /\ machine \in [AgentMachines -> MachineObj]
      /\ agent \in [Agents -> AgentObj]
  BY DEF TypeInv, TypeOK
<1>0. ASSUME UNCHANGED agent
      PROVE  Members' = Members /\ Holders' = Holders
  BY <1>0, HoldersAre DEF Members
<1>1. CASE UNCHANGED <<am, machine, agent>>
  BY <1>0, <1>1, StutterStep DEF Recorded, Leaving
<1>2. ASSUME NEW m \in AgentMachines, NEW v \in AgentMachineObj,
             am' = [am EXCEPT ![m] = v], RecordKept(am[m], v), UNCHANGED <<machine, agent>>
      PROVE  PoolStep
  <2>1. am'[m] = v /\ \A n \in AgentMachines \ {m} : am'[n] = am[n]
    BY <1>2, <1>t
  <2>2. v.ref = am[m].ref \/ (v.ref = None /\ v.st = "gone")
    BY <1>2, GoneHasNoRecord DEF RecordKept
  <2>3. v.st = "live" => am[m].st = "live"
    <3>1. am[m].st \in {"live", "deleting", "gone"}
      BY <1>t DEF AgentMachineObj
    <3> QED
      BY <1>2, <3>1, GoneHasNoRecord DEF RecordKept
  <2>m. UNCHANGED machine
    BY <1>2
  <2>4. v.st # "live" => Leaving' = Leaving \union {m}
    BY <2>m, <2>1 DEF Leaving
  <2>5. v.st = "live" => Leaving' = Leaving
    BY <2>m, <2>1, <2>3 DEF Leaving
  <2>6. CASE v.ref = am[m].ref
    <3>1. Recorded' = Recorded
      BY <2>1, <2>6 DEF Recorded
    <3> QED
      BY <1>0, <1>2, <2>4, <2>5, <3>1, StutterStep, LeaveStep
  <2>7. CASE v.ref = None /\ v.st = "gone" /\ am[m].ref # None
    <3>1. Recorded[m] # None /\ Recorded' = [Recorded EXCEPT ![m] = None]
      BY <2>1, <2>7 DEF Recorded
    <3> QED
      BY <1>0, <1>2, <2>4, <2>7, <3>1, ForgetStep
  <2> QED
    BY <2>2, <2>6, <2>7
<1>3. ASSUME NEW m \in AgentMachines, NEW v \in MachineObj,
             machine' = [machine EXCEPT ![m] = v], MachineMoves(machine[m], v),
             UNCHANGED <<am, agent>>
      PROVE  PoolStep
  <2>1. machine'[m] = v /\ \A n \in AgentMachines \ {m} : machine'[n] = machine[n]
    BY <1>3, <1>t
  <2>2. v.st # "live" => Leaving' = Leaving \union {m}
    BY <1>3, <2>1 DEF Leaving
  <2>3. v.st = "live" => Leaving' = Leaving
    BY <1>3, <2>1 DEF Leaving, MachineMoves
  <2>4. Recorded' = Recorded
    BY <1>3 DEF Recorded
  <2> QED
    BY <1>0, <1>3, <2>2, <2>3, <2>4, StutterStep, LeaveStep
<1>4. ASSUME NEW a \in Agents, NEW v \in AgentObj, agent[a].exists, WriteAgent(a, v),
             LabelKept(agent[a], v), UNCHANGED <<am, machine>>
      PROVE  PoolStep
  <2>1. agent'[a] = v /\ \A b \in Agents \ {a} : agent'[b] = agent[b]
    BY <1>4, <1>t DEF WriteAgent
  <2>2. Recorded' = Recorded /\ Leaving' = Leaving
    BY <1>4 DEF Recorded, Leaving
  <2>3. CASE v = [NewAgent EXCEPT !.exists = FALSE]
    <3>1. v.exists = FALSE /\ v.label = None
      BY <2>3 DEF NewAgent
    <3>2. Members' = Members \ {a}
      BY <2>1, <3>1 DEF Members
    <3>3. HolderIn(v) = None
      BY <3>1, HolderFacts
    <3>4. Holders' = [Holders EXCEPT ![a] = None]
      BY <2>1, <3>3, HoldersAre
    <3> QED
      BY <2>2, <3>2, <3>4, VanishStep
  <2>4. CASE v.exists = agent[a].exists /\ v.label = agent[a].label
               /\ v.namespace = agent[a].namespace
    <3>1. Members' = Members
      BY <2>1, <2>4 DEF Members
    <3>2. HolderIn(v) = HolderIn(agent[a])
      BY <2>4 DEF HolderIn
    <3>3. Holders' = Holders
      BY <2>1, <3>2, HoldersAre
    <3> QED
      BY <2>2, <3>1, <3>3, StutterStep
  <2> QED
    BY <1>4, <2>3, <2>4 DEF LabelKept
<1> QED
  BY <1>1, <1>2, <1>3, <1>4 DEF OthersWrite

LEMMA NextImplements ==
  ASSUME UniqueNames, DeletionsDoNotMeet, PoolInv, [Next]_vars
  PROVE  PoolStep
<1>t. TypeInv
  BY DEF PoolInv, ResInv, SelInv, ClaimInv
<1>1. ASSUME NEW c \in Controllers, NEW m \in AgentMachines, Reconcile(c, m)
      PROVE  PoolStep
  <2>1. UNCHANGED <<am, machine, agent>>
    BY <1>1, <1>t, ReconcileBegins
  <2> QED
    BY <2>1, HoldersAre, StutterStep DEF Members, Recorded, Leaving
<1> QED
  BY <1>1, <1>t, StepKinds, CallsImplement, RestartsImplement, OthersImplement

LEMMA InitImplements == Init => Pool!Init
<1> SUFFICES ASSUME Init PROVE Pool!Init
  OBVIOUS
<1>1. Members = Agents
  BY DEF Init, NewAgent, Members
<1>2. Holders = [a \in Agents |-> None]
  <2>1. \A a \in Agents : agent[a].label = None
    BY DEF Init, NewAgent
  <2> QED
    BY <2>1, HoldersAre, HolderFacts
<1>3. Recorded = [m \in AgentMachines |-> None]
  BY DEF Init, NewAgentMachine, Recorded
<1>4. Leaving = {}
  <2>1. \A b : NewMachine(b).st = "live"
    BY DEF NewMachine
  <2>2. \A m \in AgentMachines : machine[m].st = "live" /\ am[m].st = "live"
    BY <2>1 DEF Init, NewAgentMachine
  <2> QED
    BY <2>2 DEF Leaving
<1> QED
  BY <1>1, <1>2, <1>3, <1>4 DEF Pool!Init, Members, Holders, Recorded, Leaving

\* findAgent, updateFoundAgent, the deferred Patch and handleDeletionHook, cut into
\* single calls to the API server and run by any number of processes over a shared
\* set of Agents, with crashes, failed calls, a restored hub, Agents and Machines
\* that are deleted under way, together do what AgentPool says: they reserve a free
\* Agent of the pool for an AgentMachine that has none, record it once, never change
\* the record, and give the Agent back only when its own AgentMachine leaves.
\* As for OneAgentEach, lists are current, claims are answered and names do not
\* repeat.  If Machines are deleted, no Agent is selected by two AgentMachines: else
\* handleDeletionHook gives back an Agent that may have been reserved for another
\* AgentMachine in the meantime.
THEOREM ReconcilerImplementsPool ==
  ASSUME UniqueNames, "stale" \notin Environment, "separateCache" \notin Environment,
         "lostReply" \notin Environment, DeletionsDoNotMeet
  PROVE  Spec => ImplementsPool
<1>1. PoolInv /\ [Next]_vars => PoolInv'
  BY PoolInvStep
<1>2. PoolInv /\ [Next]_vars => [Pool!Next]_(Pool!poolVars)
  BY NextImplements DEF PoolStep
<1> QED
  BY <1>1, <1>2, PoolInvInit, InitImplements, PTL DEF Spec, ImplementsPool, Pool!Spec

=============================================================================
