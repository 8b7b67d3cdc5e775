-------------------------- MODULE AgentMachineProofs --------------------------
(***************************************************************************)
(* Theorems about AgentMachineSystem, for every number of AgentMachines,   *)
(* Agents and provider processes, every Environment and any number of      *)
(* faults.                                                                 *)
(***************************************************************************)
EXTENDS AgentMachineSystem, TLAPS

\* The calls that are about the Agent the AgentMachine refers to.
RefPcs == {"unbindGet", "unbind", "sync", "syncUpdate", "status", "label"}

\* What every computation between two calls preserves of the worker.
Follows(r, w) ==
  /\ r \in WorkerState
  /\ r.m = w.m
  /\ r.boot = w.boot
  /\ r.pc \notin {"idle", "claim"}
  /\ r.pc \in RefPcs => r.obj.ref \in Agents

USE DEF RefPcs, agentCaches

\* Results of the operators on the worker's state.
LEMMA ReturnFollows ==
  ASSUME NEW w \in WorkerState
  PROVE  Follows(Return(w), w) /\ Follows(Retry(w), w)
BY DEF Follows, Return, Retry, WorkerState, Pcs

LEMMA RemoveFinalizerType ==
  ASSUME NEW w \in WorkerState
  PROVE  /\ RemoveFinalizer(w) \in WorkerState
         /\ RemoveFinalizer(w).m = w.m
         /\ RemoveFinalizer(w).boot = w.boot
BY DEF RemoveFinalizer, WorkerState, AgentMachineObj

LEMMA UpdateStatusFollows ==
  ASSUME NEW w \in WorkerState, NEW err
  PROVE  Follows(UpdateStatus(w, err), w)
<1> DEFINE o(cs) == [w.obj EXCEPT !.ready = FALSE, !.conds = cs]
<1>1. ASSUME NEW cs \in {"none", "noAgent", "error", "reserved", "all"},
             NEW pc \in {"patchConds", "status"},
             pc = "status" => w.obj.ref # None
      PROVE  Follows([w EXCEPT !.pc = pc, !.obj = o(cs)], w)
  <2>1. /\ o(cs) \in AgentMachineObj
        /\ o(cs).ref = w.obj.ref
        /\ w.obj.ref \in Agents \union {None}
    <3>1. w.obj \in AgentMachineObj
      BY DEF WorkerState
    <3> QED
      BY <3>1 DEF AgentMachineObj, AgentOrNone
  <2> HIDE DEF o
  <2> QED
    BY <1>1, <2>1 DEF Follows, WorkerState, Pcs
<1>2. CASE w.obj.ref # None
  <2>1. \/ UpdateStatus(w, err) = [w EXCEPT !.pc = "status", !.obj = o("all")]
        \/ UpdateStatus(w, err) = [w EXCEPT !.pc = "status", !.obj = o("reserved")]
    BY <1>2 DEF UpdateStatus
  <2> QED
    BY <1>1, <1>2, <2>1
<1>3. CASE w.obj.ref = None
  <2>1. CASE err
    <3>1. UpdateStatus(w, err) = [w EXCEPT !.pc = "patchConds", !.obj = o("error")]
      BY <1>3, <2>1 DEF UpdateStatus, Return, WorkerState
    <3> QED
      BY <1>1, <3>1
  <2>2. CASE ~err
    <3>1. UpdateStatus(w, err) = [w EXCEPT !.pc = "patchConds", !.obj = o("noAgent")]
      BY <1>3, <2>2 DEF UpdateStatus, Return, WorkerState
    <3> QED
      BY <1>1, <3>1
  <2> QED
    BY <2>1, <2>2
<1> QED
  BY <1>2, <1>3

LEMMA MirrorFollows ==
  ASSUME NEW w \in WorkerState, NEW ag, NEW met \in BOOLEAN
  PROVE  Follows(MirrorConditions(w, ag, met), w)
<1> DEFINE all == met /\ ag.state = "installed"
           o == [w.obj EXCEPT !.ready = all,
                              !.conds = IF all THEN "all" ELSE "reserved"]
<1>1. o \in AgentMachineObj
  BY DEF WorkerState, AgentMachineObj
<1>2. MirrorConditions(w, ag, met) = [w EXCEPT !.pc = "patchConds", !.obj = o]
  BY DEF MirrorConditions, Return, WorkerState
<1> HIDE DEF o
<1> QED
  BY <1>1, <1>2 DEF Follows, WorkerState, Pcs

LEMMA RemoveHookFollows ==
  ASSUME NEW w \in WorkerState
  PROVE  Follows(RemoveHookAndFinalizer(w), w)
BY RemoveFinalizerType DEF Follows, RemoveHookAndFinalizer, Return, WorkerState, Pcs

LEMMA HandleDeletionHookFollows ==
  ASSUME NEW w \in WorkerState
  PROVE  Follows(HandleDeletionHook(w), w)
<1> DEFINE x == IF w.obj.st = "live" THEN [w EXCEPT !.obj.fin = TRUE] ELSE w
<1>1. x \in WorkerState /\ x.m = w.m /\ x.boot = w.boot
  <2>1. [w.obj EXCEPT !.fin = TRUE] \in AgentMachineObj
    BY DEF WorkerState, AgentMachineObj
  <2> QED
    BY <2>1 DEF WorkerState
<1> HIDE DEF x
<1>2. x.obj.ref # None => Follows([x EXCEPT !.pc = "unbindGet"], w)
  BY <1>1 DEF Follows, WorkerState, AgentMachineObj, AgentOrNone, Pcs
<1>3. Follows([x EXCEPT !.pc = "boot", !.obj.backup = TRUE], w)
  <2>1. [x.obj EXCEPT !.backup = TRUE] \in AgentMachineObj
    BY <1>1 DEF WorkerState, AgentMachineObj
  <2> QED
    BY <1>1, <2>1 DEF Follows, WorkerState, Pcs
<1>4. Follows(Return(x), w) /\ Follows(RemoveHookAndFinalizer(x), w)
  BY <1>1, ReturnFollows, RemoveHookFollows DEF Follows
<1>5. Follows(Return(RemoveFinalizer(x)), w)
  BY <1>1, ReturnFollows, RemoveFinalizerType DEF Follows
<1> QED
  BY <1>2, <1>3, <1>4, <1>5 DEF HandleDeletionHook, x

LEMMA BeginFollows ==
  ASSUME NEW w \in WorkerState
  PROVE  Follows(Begin(w), w)
<1>1. Follows([w EXCEPT !.pc = "addHook"], w)
  BY DEF Follows, WorkerState, Pcs
<1>2. Follows(Retry(IF w.obj.st = "deleting" THEN RemoveFinalizer(w) ELSE w), w)
  BY ReturnFollows, RemoveFinalizerType DEF Follows
<1> QED
  BY <1>1, <1>2, UpdateStatusFollows, HandleDeletionHookFollows DEF Begin

LEMMA AfterUnbindFollows ==
  ASSUME NEW w \in WorkerState, NEW state
  PROVE  Follows(AfterUnbind(w, state), w)
BY ReturnFollows, RemoveHookFollows DEF AfterUnbind

LEMMA AfterBootstrapFollows ==
  ASSUME NEW w \in WorkerState, NEW ref
  PROVE  Follows(AfterBootstrap(w, ref), w)
<1>1. Follows(UpdateStatus([w EXCEPT !.again = TRUE], TRUE), w)
  <2>1. [w EXCEPT !.again = TRUE] \in WorkerState
    BY DEF WorkerState
  <2> QED
    BY <2>1, UpdateStatusFollows DEF Follows, WorkerState
<1>2. Follows([w EXCEPT !.pc = IF w.obj.ref = None THEN "find" ELSE "sync"], w)
  BY DEF Follows, WorkerState, AgentMachineObj, AgentOrNone, Pcs
<1> QED
  BY <1>1, <1>2, ReturnFollows DEF AfterBootstrap

LEMMA FoundFollows ==
  ASSUME NEW w \in WorkerState, NEW a \in Agents
  PROVE  Follows(Found(w, a), w)
<1> DEFINE o == [w.obj EXCEPT !.pid = a, !.ref = a]
<1>1. o \in AgentMachineObj /\ o.ref = a
  BY DEF WorkerState, AgentMachineObj, AgentOrNone
<1>2. Found(w, a) = [w EXCEPT !.pc = "sync", !.obj = o, !.cand = {}]
  BY DEF Found
<1> HIDE DEF o
<1> QED
  BY <1>1, <1>2 DEF Follows, WorkerState, Pcs
-----------------------------------------------------------------------------
(* Types *)

\* A Reconcile call that runs has an AgentMachine, and an Agent where it acts on one.
WorkerHasMachine ==
  \A c \in Controllers :
    /\ worker[c].pc # "idle" => worker[c].m \in AgentMachines
    /\ worker[c].pc \in RefPcs => worker[c].obj.ref \in Agents

TypeInv == TypeOK /\ WorkerHasMachine

\* A call of c leaves the other workers alone and keeps c's bootstrap data; a
\* worker with candidates has been left them by an earlier call.
KeepsWorker(c) ==
  /\ \A d \in Controllers \ {c} : worker'[d] = worker[d]
  /\ worker'[c].boot = worker[c].boot
  /\ worker'[c].pc = "claim" =>
       /\ worker[c].pc = "claim"
       /\ worker'[c].m = worker[c].m
       /\ worker'[c].cand \subseteq worker[c].cand

\* The worker's part of the type invariant after a call of c.
LEMMA BecomeType ==
  ASSUME TypeInv, NEW c \in Controllers, worker[c].pc # "idle",
         NEW r, Follows(r, worker[c]), Become(c, r)
  PROVE  worker' \in [Controllers -> WorkerState] /\ WorkerHasMachine' /\ KeepsWorker(c)
BY DEF TypeInv, TypeOK, WorkerHasMachine, Follows, Become, KeepsWorker

LEMMA FaultType ==
  ASSUME TypeInv, NEW kind, Fault(kind)
  PROVE  faults' \in 0..MaxFaults
BY ConstantTypes DEF TypeInv, TypeOK, Fault

LEMMA OutcomeType ==
  ASSUME TypeInv, NEW o, Outcome(o)
  PROVE  faults' \in 0..MaxFaults
BY FaultType DEF Outcome, TypeInv, TypeOK

LEMMA NewObjectTypes ==
  /\ NewAgentMachine \in AgentMachineObj
  /\ GoneAgentMachine \in AgentMachineObj
  /\ NewAgent \in AgentObj
  /\ \A b \in BootOrNone : NewMachine(b) \in MachineObj
  /\ GoneMachine \in MachineObj
  /\ IdleWorker \in WorkerState /\ IdleWorker.pc = "idle" /\ IdleWorker.boot = None
<1>1. NewAgentMachine \in AgentMachineObj
  BY DEF NewAgentMachine, AgentMachineObj, AgentOrNone
<1>2. GoneAgentMachine \in AgentMachineObj
  BY <1>1 DEF GoneAgentMachine, AgentMachineObj
<1>3. NewAgent \in AgentObj
  BY DEF NewAgent, AgentObj, BootOrNone
<1>4. \A b \in BootOrNone : NewMachine(b) \in MachineObj
  BY DEF NewMachine, MachineObj
<1>5. None \in BootOrNone
  BY DEF BootOrNone
<1>6. GoneMachine \in MachineObj
  BY <1>4, <1>5 DEF GoneMachine, MachineObj
<1>7. IdleWorker \in WorkerState /\ IdleWorker.pc = "idle" /\ IdleWorker.boot = None
  BY <1>2, <1>4, <1>5 DEF IdleWorker, WorkerState, Pcs
<1> QED
  BY <1>1, <1>2, <1>3, <1>4, <1>6, <1>7

LEMMA InitType == Init => TypeInv
<1> SUFFICES ASSUME Init PROVE TypeInv
  OBVIOUS
<1>1. worker \in [Controllers -> WorkerState] /\ WorkerHasMachine
  BY NewObjectTypes DEF Init, WorkerHasMachine
<1>2. am \in [AgentMachines -> AgentMachineObj] /\ amCache \in [AgentMachines -> AgentMachineObj]
  BY NewObjectTypes DEF Init
<1>3. machine \in [AgentMachines -> MachineObj] /\ machineCache \in [AgentMachines -> MachineObj]
  BY NewObjectTypes DEF Init
<1>4. agent \in [Agents -> AgentObj] /\ agentCache \in [Controllers -> [Agents -> AgentObj]]
  BY NewObjectTypes DEF Init
<1>5. faults \in 0..MaxFaults
  BY ConstantTypes DEF Init
<1> QED
  BY <1>1, <1>2, <1>3, <1>4, <1>5 DEF TypeInv, TypeOK, Init

\* The three kinds of call preserve the types, whatever they write and however
\* they go on, as long as that is of the right type.
LEMMA CallAgentType ==
  ASSUME TypeInv, NEW c \in Controllers, worker[c].pc # "idle",
         NEW a, NEW v \in AgentObj, NEW accepted, NEW t, NEW e,
         Follows(t, worker[c]), e \in WorkerState, e.m = worker[c].m,
         e.pc # "idle", e.pc \in RefPcs => e.obj.ref \in Agents,
         e.boot = worker[c].boot,
         e.pc = "claim" => worker[c].pc = "claim" /\ e.cand \subseteq worker[c].cand,
         CallAgent(c, a, v, accepted, t, e)
  PROVE  TypeInv' /\ KeepsWorker(c)
<1>1. worker' \in [Controllers -> WorkerState] /\ WorkerHasMachine' /\ KeepsWorker(c)
  BY DEF CallAgent, Become, TypeInv, TypeOK, WorkerHasMachine, Follows, KeepsWorker
<1>2. /\ agent' \in [Agents -> AgentObj]
      /\ agentFresh' \in [Controllers -> SUBSET Agents]
      /\ listFresh' \in [Controllers -> SUBSET Agents]
      /\ agentHeld' \in [Controllers -> SUBSET Agents]
      /\ agentCache' = agentCache /\ listCache' = listCache
  <2>1. WriteAgent(a, v) \/ UNCHANGED agentVars
    BY DEF CallAgent
  <2>2. CASE WriteAgent(a, v)
    BY <2>2 DEF WriteAgent, TypeInv, TypeOK
  <2>3. CASE UNCHANGED agentVars
    BY <2>3 DEF agentVars, TypeInv, TypeOK
  <2> QED
    BY <2>1, <2>2, <2>3
<1>3. faults' \in 0..MaxFaults
  BY OutcomeType DEF CallAgent
<1> QED
  BY <1>1, <1>2, <1>3 DEF CallAgent, TypeInv, TypeOK, amVars, machineVars,
     clusterVars, queueVars

LEMMA CallMachineType ==
  ASSUME TypeInv, NEW c \in Controllers, worker[c].pc # "idle",
         NEW m \in AgentMachines, NEW v \in MachineObj, NEW t, NEW e,
         Follows(t, worker[c]), Follows(e, worker[c]), CallMachine(c, m, v, t, e)
  PROVE  TypeInv' /\ KeepsWorker(c)
<1>1. worker' \in [Controllers -> WorkerState] /\ WorkerHasMachine' /\ KeepsWorker(c)
  BY BecomeType DEF CallMachine
<1>2. /\ machine' \in [AgentMachines -> MachineObj]
      /\ machineFresh' \subseteq AgentMachines
      /\ machineHeld' \subseteq AgentMachines
      /\ machineCache' = machineCache
  BY DEF CallMachine, WriteMachine, machineVars, TypeInv, TypeOK
<1>3. faults' \in 0..MaxFaults
  BY OutcomeType DEF CallMachine
<1> QED
  BY <1>1, <1>2, <1>3 DEF CallMachine, TypeInv, TypeOK, amVars, agentVars,
     clusterVars, queueVars

LEMMA ReadAgentType ==
  ASSUME TypeInv, NEW c \in Controllers, worker[c].pc # "idle",
         NEW a \in Agents, NEW t, NEW e,
         Follows(t, worker[c]), Follows(e, worker[c]), ReadAgent(c, a, t, e)
  PROVE  TypeInv' /\ KeepsWorker(c)
<1>1. worker' \in [Controllers -> WorkerState] /\ WorkerHasMachine' /\ KeepsWorker(c)
  BY BecomeType DEF ReadAgent
<1>2. agentHeld' \in [Controllers -> SUBSET Agents]
  <2>1. UNCHANGED agentHeld \/ agentHeld' = [agentHeld EXCEPT ![c] = {a}]
    BY DEF ReadAgent
  <2>2. agentHeld \in [Controllers -> SUBSET Agents] /\ {a} \in SUBSET Agents
    BY DEF TypeInv, TypeOK
  <2>3. [agentHeld EXCEPT ![c] = {a}] \in [Controllers -> SUBSET Agents]
    BY <2>2
  <2> QED
    BY <2>1, <2>2, <2>3
<1>3. faults' \in 0..MaxFaults
  BY FaultType DEF ReadAgent, TypeInv, TypeOK
<1> QED
  BY <1>1, <1>2, <1>3 DEF ReadAgent, TypeInv, TypeOK, amVars, machineVars,
     clusterVars, queueVars

LEMMA CallPatchType ==
  ASSUME TypeInv, NEW c \in Controllers, worker[c].pc # "idle",
         NEW changed, NEW accepted, NEW v \in AgentMachineObj,
         NEW pc \in {"patchSpec", "patchStatus", "done"},
         CallPatch(c, changed, accepted, v, pc)
  PROVE  TypeInv' /\ KeepsWorker(c)
<1>1. worker' \in [Controllers -> WorkerState] /\ WorkerHasMachine' /\ KeepsWorker(c)
  <2>1. Follows([worker[c] EXCEPT !.pc = pc], worker[c])
    <3>1. worker[c] \in WorkerState
      BY DEF TypeInv, TypeOK
    <3>2. [worker[c] EXCEPT !.pc = pc] \in WorkerState
      BY <3>1 DEF WorkerState, Pcs
    <3> QED
      BY <3>1, <3>2 DEF Follows, WorkerState
  <2> QED
    BY <2>1, BecomeType DEF CallPatch
<1>2. am' \in [AgentMachines -> AgentMachineObj]
  BY DEF CallPatch, TypeInv, TypeOK
<1>3. faults' \in 0..MaxFaults
  BY OutcomeType DEF CallPatch
<1> QED
  BY <1>1, <1>2, <1>3 DEF CallPatch, TypeInv, TypeOK, machineVars, agentVars,
     clusterVars, queueVars
-----------------------------------------------------------------------------
(* Every action preserves the types *)

\* The steps of a Reconcile call: all but three of them keep the worker's
\* bootstrap data and candidates.
LEMMA ReconcileStepType ==
  ASSUME TypeInv, NEW c \in Controllers, ReconcileStep(c)
  PROVE  /\ TypeInv'
         /\ \/ KeepsWorker(c)
            \/ ProcessBootstrapDataSecret(c) \/ FindAgent(c) \/ Finish(c)
<1> DEFINE w == worker[c]
<1>w. /\ w \in WorkerState
      /\ w.pc # "idle" => w.m \in AgentMachines
      /\ w.pc \in RefPcs => w.obj.ref \in Agents
  BY DEF TypeInv, TypeOK, WorkerHasMachine
<1>m. w.pc # "idle" => machine[w.m] \in MachineObj /\ am[w.m] \in AgentMachineObj
  BY <1>w DEF TypeInv, TypeOK
<1>a. w.pc \in RefPcs => agent[w.obj.ref] \in AgentObj
  BY <1>w DEF TypeInv, TypeOK
<1>1. CASE AddHook(c)
  <2>1. w.pc = "addHook"
    BY <1>1 DEF AddHook, At
  <2>2. [machine[w.m] EXCEPT !.hook = TRUE] \in MachineObj
    BY <1>m, <2>1 DEF MachineObj
  <2>3. Follows(HandleDeletionHook([w EXCEPT !.mach.hook = TRUE]), w)
    <3>1. /\ [w EXCEPT !.mach.hook = TRUE] \in WorkerState
          /\ [w EXCEPT !.mach.hook = TRUE].m = w.m
          /\ [w EXCEPT !.mach.hook = TRUE].boot = w.boot
      BY <1>w DEF WorkerState, MachineObj
    <3> QED
      BY <3>1, HandleDeletionHookFollows DEF Follows
  <2>4. Follows(Retry(w), w)
    BY <1>w, ReturnFollows
  <2> QED
    BY <1>1, <1>w, <2>1, <2>2, <2>3, <2>4, CallMachineType DEF AddHook
<1>2. CASE UnbindGet(c)
  <2>1. w.pc = "unbindGet"
    BY <1>2 DEF UnbindGet, At
  <2>2. Follows([w EXCEPT !.pc = "unbind"], w)
    BY <1>w, <2>1 DEF Follows, WorkerState, Pcs
  <2> DEFINE t == IF ~agent[w.obj.ref].exists THEN RemoveHookAndFinalizer(w)
                  ELSE IF NeedsUnbind(agent[w.obj.ref]) THEN [w EXCEPT !.pc = "unbind"]
                  ELSE AfterUnbind(w, agent[w.obj.ref].state)
  <2>3. Follows(t, w) /\ Follows(Retry(w), w)
    BY <1>w, <2>2, ReturnFollows, RemoveHookFollows, AfterUnbindFollows
  <2>4. ReadAgent(c, w.obj.ref, t, Retry(w))
    BY <1>2 DEF UnbindGet
  <2> HIDE DEF t
  <2> QED
    BY <1>w, <2>1, <2>3, <2>4, ReadAgentType
<1>3. CASE Unbind(c)
  <2>1. w.pc = "unbind"
    BY <1>3 DEF Unbind, At
  <2>2. Released(agent[w.obj.ref]) \in AgentObj
    BY <1>a, <2>1 DEF Released, AgentObj, BootOrNone
  <2>3. Follows(AfterUnbind(w, agent[w.obj.ref].state), w) /\ Follows(Retry(w), w)
    BY <1>w, ReturnFollows, AfterUnbindFollows
  <2>4. CallAgent(c, w.obj.ref, Released(agent[w.obj.ref]), Latest(c, w.obj.ref),
                  AfterUnbind(w, agent[w.obj.ref].state), Retry(w))
    BY <1>3 DEF Unbind
  <2> QED
    BY <2>1, <2>2, <2>3, <2>4, CallAgentType DEF Follows
<1>4. CASE RemoveHook(c)
  <2>1. w.pc = "removeHook"
    BY <1>4 DEF RemoveHook, At
  <2>2. [machine[w.m] EXCEPT !.hook = FALSE] \in MachineObj
    BY <1>m, <2>1 DEF MachineObj
  <2>3. Follows(Return(RemoveFinalizer(w)), w) /\ Follows(Retry(w), w)
    BY <1>w, ReturnFollows, RemoveFinalizerType DEF Follows
  <2> QED
    BY <1>4, <1>w, <2>1, <2>2, <2>3, CallMachineType DEF RemoveHook
<1>5. CASE ProcessBootstrapDataSecret(c)
  <2>1. w.pc = "boot"
    BY <1>5 DEF ProcessBootstrapDataSecret, At
  <2>2. PICK o \in Outcomes :
          /\ Outcome(o)
          /\ tokens' = IF o = "error" THEN tokens
                       ELSE tokens \union ({w.mach.boot} \ {None})
          /\ Become(c, BootstrapProcessed(w, o, w.mach.boot))
    BY <1>5 DEF ProcessBootstrapDataSecret
  <2>3. w.mach.boot \in BootOrNone
    BY <1>w DEF WorkerState, MachineObj
  <2>4. /\ BootstrapProcessed(w, o, w.mach.boot) \in WorkerState
        /\ BootstrapProcessed(w, o, w.mach.boot).m = w.m
        /\ BootstrapProcessed(w, o, w.mach.boot).pc \in RefPcs =>
             BootstrapProcessed(w, o, w.mach.boot).obj.ref \in Agents
    <3>1. /\ [w EXCEPT !.boot = w.mach.boot] \in WorkerState
          /\ [w EXCEPT !.boot = w.mach.boot].m = w.m
      BY <1>w, <2>3 DEF WorkerState
    <3> QED
      BY <1>w, <3>1, AfterBootstrapFollows, ReturnFollows
         DEF BootstrapProcessed, Follows
  <2>5. worker' \in [Controllers -> WorkerState] /\ WorkerHasMachine'
    BY <1>w, <2>1, <2>2, <2>4 DEF Become, TypeInv, TypeOK, WorkerHasMachine
  <2>6. tokens' \subseteq Boots
    BY <2>2, <2>3 DEF BootOrNone, TypeInv, TypeOK
  <2>7. faults' \in 0..MaxFaults
    BY <2>2, OutcomeType
  <2> QED
    BY <1>5, <2>5, <2>6, <2>7 DEF ProcessBootstrapDataSecret, TypeInv, TypeOK,
       amVars, machineVars, agentVars, queueVars
<1>6. CASE FindAgent(c)
  <2>1. w.pc = "find"
    BY <1>6 DEF FindAgent, At
  <2>2. Candidates(c, w.m) \subseteq Agents
    BY <1>w, <2>1, ConstantTypes DEF Candidates
  <2>3. \A a \in Agents : Follows(Found(w, a), w)
    BY <1>w, FoundFollows
  <2>4. worker' \in [Controllers -> WorkerState] /\ WorkerHasMachine'
    <3>1. CASE \E a \in LabelledAgents(c, w.m) : Become(c, Found(w, a))
      BY <3>1, <2>1, <2>3, BecomeType DEF LabelledAgents
    <3>2. CASE Become(c, UpdateStatus(w, FALSE)) \/ Become(c, UpdateStatus(w, TRUE))
      BY <3>2, <1>w, <2>1, UpdateStatusFollows, BecomeType
    <3>3. CASE Become(c, [w EXCEPT !.pc = "claim", !.cand = Candidates(c, w.m)])
      <4>1. [w EXCEPT !.pc = "claim", !.cand = Candidates(c, w.m)] \in WorkerState
        BY <1>w, <2>2 DEF WorkerState, Pcs
      <4> QED
        BY <3>3, <4>1, <1>w, <2>1 DEF Become, TypeInv, TypeOK, WorkerHasMachine, WorkerState
    <3> QED
      BY <1>6, <3>1, <3>2, <3>3 DEF FindAgent
  <2>5. agentHeld' \in [Controllers -> SUBSET Agents]
    <3>1. agentHeld \in [Controllers -> SUBSET Agents]
      BY DEF TypeInv, TypeOK
    <3>2. Candidates(c, w.m) \intersect listFresh[c] \in SUBSET Agents
      BY <2>2
    <3> QED
      BY <1>6, <3>1, <3>2 DEF FindAgent
  <2>6. faults' \in 0..MaxFaults
    BY <1>6, FaultType DEF FindAgent, TypeInv, TypeOK
  <2> QED
    BY <1>6, <2>4, <2>5, <2>6 DEF FindAgent, TypeInv, TypeOK, amVars, machineVars,
       clusterVars, queueVars
<1>7. CASE UpdateFoundAgent(c)
  <2>1. w.pc = "claim"
    BY <1>7 DEF UpdateFoundAgent, At
  <2> DEFINE rest(a) == [w EXCEPT !.cand = @ \ {a}]
             e(a) == IF rest(a).cand = {} THEN UpdateStatus(rest(a), FALSE) ELSE rest(a)
  <2>2. PICK a \in w.cand :
          CallAgent(c, a, Claimed(agent[a], w.m, w.boot), Latest(c, a), Found(w, a), e(a))
    BY <1>7 DEF UpdateFoundAgent
  <2>3. a \in Agents
    BY <1>w DEF WorkerState
  <2>4. Claimed(agent[a], w.m, w.boot) \in AgentObj
    <3>1. NameOf[w.m] \in Names /\ NsOf[w.m] \in Namespaces
      BY <1>w, <2>1, ConstantTypes
    <3>2. w.boot \in BootOrNone /\ agent[a] \in AgentObj
      BY <1>w, <2>3 DEF WorkerState, TypeInv, TypeOK
    <3> QED
      BY <3>1, <3>2 DEF Claimed, AgentObj
  <2>5. /\ e(a) \in WorkerState /\ e(a).m = w.m /\ e(a).pc # "idle"
        /\ e(a).pc \in RefPcs => e(a).obj.ref \in Agents
        /\ e(a).boot = w.boot
        /\ e(a).pc = "claim" => e(a).cand \subseteq w.cand
    <3>1. /\ rest(a) \in WorkerState /\ rest(a).m = w.m /\ rest(a).pc = "claim"
          /\ rest(a).boot = w.boot /\ rest(a).cand \subseteq w.cand
      BY <1>w, <2>1 DEF WorkerState
    <3> HIDE DEF rest
    <3> QED
      BY <3>1, UpdateStatusFollows DEF Follows
  <2> HIDE DEF e
  <2> QED
    BY <1>w, <2>1, <2>2, <2>3, <2>4, <2>5, FoundFollows, CallAgentType
<1>8. CASE UpdateAgentIfNeeded(c)
  <2>1. w.pc = "sync"
    BY <1>8 DEF UpdateAgentIfNeeded, At
  <2> DEFINE ag == agent[w.obj.ref]
             t == IF ag.exists /\ NeedsUpdate(w, ag) THEN [w EXCEPT !.pc = "syncUpdate"]
                                                    ELSE UpdateStatus(w, ~ag.exists)
  <2>2. Follows([w EXCEPT !.pc = "syncUpdate"], w)
    BY <1>w, <2>1 DEF Follows, WorkerState, Pcs
  <2>3. Follows(t, w) /\ Follows(UpdateStatus(w, TRUE), w)
    BY <1>w, <2>2, UpdateStatusFollows
  <2>4. ReadAgent(c, w.obj.ref, t, UpdateStatus(w, TRUE))
    BY <1>8 DEF UpdateAgentIfNeeded
  <2> HIDE DEF t
  <2> QED
    BY <1>w, <2>1, <2>3, <2>4, ReadAgentType
<1>9. CASE UpdateBootstrapData(c)
  <2>1. w.pc = "syncUpdate"
    BY <1>9 DEF UpdateBootstrapData, At
  <2>2. [agent[w.obj.ref] EXCEPT !.boot = w.boot] \in AgentObj
    BY <1>w, <1>a, <2>1 DEF AgentObj, WorkerState
  <2>3. Follows(UpdateStatus(w, FALSE), w) /\ Follows(UpdateStatus(w, TRUE), w)
    BY <1>w, UpdateStatusFollows
  <2>4. CallAgent(c, w.obj.ref, [agent[w.obj.ref] EXCEPT !.boot = w.boot],
                  Latest(c, w.obj.ref), UpdateStatus(w, FALSE), UpdateStatus(w, TRUE))
    BY <1>9 DEF UpdateBootstrapData
  <2> QED
    BY <2>1, <2>2, <2>3, <2>4, CallAgentType DEF Follows
<1>10. CASE UpdateStatusGet(c)
  <2>1. w.pc = "status"
    BY <1>10 DEF UpdateStatusGet, At
  <2> DEFINE ag == agent[w.obj.ref]
             t(met) == IF ~ag.exists THEN Retry(w)
                       ELSE IF ag.label = NameOf[w.m] THEN MirrorConditions(w, ag, met)
                       ELSE [w EXCEPT !.pc = "label"]
  <2>2. Follows([w EXCEPT !.pc = "label"], w)
    BY <1>w, <2>1 DEF Follows, WorkerState, Pcs
  <2>3. PICK met \in BOOLEAN : ReadAgent(c, w.obj.ref, t(met), Retry(w))
    BY <1>10 DEF UpdateStatusGet, OtherConditions
  <2>4. Follows(t(met), w) /\ Follows(Retry(w), w)
    BY <1>w, <2>2, ReturnFollows, MirrorFollows
  <2> HIDE DEF t
  <2> QED
    BY <1>w, <2>1, <2>3, <2>4, ReadAgentType
<1>11. CASE EnsureAgentLabeled(c)
  <2>1. w.pc = "label"
    BY <1>11 DEF EnsureAgentLabeled, At
  <2>2. [agent[w.obj.ref] EXCEPT !.label = NameOf[w.m]] \in AgentObj
    BY <1>w, <1>a, <2>1, ConstantTypes DEF AgentObj
  <2>3. PICK met \in BOOLEAN :
          CallAgent(c, w.obj.ref, [agent[w.obj.ref] EXCEPT !.label = NameOf[w.m]],
                    agent[w.obj.ref].exists,
                    MirrorConditions(w, agent[w.obj.ref], met), Retry(w))
    BY <1>11 DEF EnsureAgentLabeled, OtherConditions
  <2>4. Follows(MirrorConditions(w, agent[w.obj.ref], met), w) /\ Follows(Retry(w), w)
    BY <1>w, ReturnFollows, MirrorFollows
  <2> QED
    BY <2>1, <2>2, <2>3, <2>4, CallAgentType DEF Follows
<1>12. CASE PatchConditions(c)
  <2>1. w.pc = "patchConds"
    BY <1>12 DEF PatchConditions, At
  <2>2. [am[w.m] EXCEPT !.conds = w.obj.conds] \in AgentMachineObj
    BY <1>w, <1>m, <2>1 DEF WorkerState, AgentMachineObj
  <2> QED
    BY <1>12, <2>1, <2>2, CallPatchType DEF PatchConditions
<1>13. CASE PatchSpec(c)
  <2>1. w.pc = "patchSpec"
    BY <1>13 DEF PatchSpec, At
  <2>2. MergeSpec(am[w.m], w.obj, w.before) \in AgentMachineObj
    BY <1>w, <1>m, <2>1 DEF MergeSpec, WorkerState, AgentMachineObj
  <2>3. Collect(MergeSpec(am[w.m], w.obj, w.before)) \in AgentMachineObj
    BY <2>2, NewObjectTypes DEF Collect
  <2> QED
    BY <1>13, <2>1, <2>3, CallPatchType DEF PatchSpec
<1>14. CASE PatchStatus(c)
  <2>1. w.pc = "patchStatus"
    BY <1>14 DEF PatchStatus, At
  <2>2. MergeStatus(am[w.m], w.obj, w.before) \in AgentMachineObj
    BY <1>w, <1>m, <2>1 DEF MergeStatus, WorkerState, AgentMachineObj
  <2> QED
    BY <1>14, <2>1, <2>2, CallPatchType DEF PatchStatus
<1>15. CASE Finish(c)
  <2>1. w.pc = "done"
    BY <1>15 DEF Finish, At
  <2>2. worker' \in [Controllers -> WorkerState] /\ WorkerHasMachine'
    BY <1>15, NewObjectTypes DEF Finish, Become, TypeInv, TypeOK, WorkerHasMachine
  <2> QED
    BY <1>15, <1>w, <2>1, <2>2 DEF Finish, TypeInv, TypeOK, amVars, clusterVars
<1> QED
  BY <1>1, <1>2, <1>3, <1>4, <1>5, <1>6, <1>7, <1>8, <1>9, <1>10, <1>11, <1>12,
     <1>13, <1>14, <1>15 DEF ReconcileStep

\* The worker takes an AgentMachine from the queue.
LEMMA ReconcileType ==
  ASSUME TypeInv, NEW c \in Controllers, NEW m \in AgentMachines, Reconcile(c, m)
  PROVE  TypeInv'
<1> DEFINE w == [IdleWorker EXCEPT !.m = m, !.obj = amCache[m],
                                   !.before = amCache[m], !.mach = machineCache[m]]
<1>1. w \in WorkerState /\ w.m = m
  <2>1. IdleWorker \in WorkerState /\ amCache[m] \in AgentMachineObj
        /\ machineCache[m] \in MachineObj
    BY NewObjectTypes DEF TypeInv, TypeOK
  <2> QED
    BY <2>1 DEF WorkerState
<1> HIDE DEF w
<1>2. worker' \in [Controllers -> WorkerState] /\ WorkerHasMachine'
  <2>1. CASE Become(c, Begin(w))
    BY <1>1, <2>1, BeginFollows DEF Become, Follows, TypeInv, TypeOK, WorkerHasMachine
  <2>2. CASE UNCHANGED worker
    BY <2>2 DEF TypeInv, TypeOK, WorkerHasMachine
  <2> QED
    BY <2>1, <2>2 DEF Reconcile, w
<1>3. machineHeld' \subseteq AgentMachines /\ queue' \subseteq AgentMachines
  BY DEF Reconcile, TypeInv, TypeOK
<1> QED
  BY <1>2, <1>3 DEF Reconcile, TypeInv, TypeOK, amVars, agentVars, clusterVars

\* Watches and timers.
LEMMA DeliverType ==
  ASSUME TypeInv,
         \/ \E m \in AgentMachines : Deliver(m) \/ Requeue(m) \/ Resync(m)
         \/ \E c \in Controllers, a \in Agents : DeliverAgent(c, a) \/ RefreshList(c, a)
  PROVE  TypeInv'
<1>1. ASSUME NEW m \in AgentMachines, DeliverAgentMachine(m)
      PROVE  TypeInv'
  BY <1>1 DEF DeliverAgentMachine, TypeInv, TypeOK, WorkerHasMachine, machineVars,
     agentVars, clusterVars
<1>2. ASSUME NEW m \in AgentMachines, DeliverMachine(m)
      PROVE  TypeInv'
  BY <1>2 DEF DeliverMachine, MapMachineToAgentMachine, TypeInv, TypeOK,
     WorkerHasMachine, amVars, agentVars, clusterVars
<1>l. ASSUME NEW c \in Controllers, NEW a \in Agents, Relist(c, a)
      PROVE  /\ listCache' \in [Controllers -> [Agents -> AgentObj]]
             /\ listFresh' \in [Controllers -> SUBSET Agents]
  <2>1. agent[a] \in AgentObj /\ listCache[c] \in [Agents -> AgentObj]
    BY DEF TypeInv, TypeOK
  <2>2. listCache' = [listCache EXCEPT ![c] = [listCache[c] EXCEPT ![a] = agent[a]]]
    BY <1>l DEF Relist, TypeInv, TypeOK
  <2>3. [listCache[c] EXCEPT ![a] = agent[a]] \in [Agents -> AgentObj]
    BY <2>1
  <2>4. listFresh' \in [Controllers -> SUBSET Agents]
    BY <1>l DEF Relist, TypeInv, TypeOK
  <2> QED
    BY <2>2, <2>3, <2>4 DEF TypeInv, TypeOK
<1>3. ASSUME NEW c \in Controllers, NEW a \in Agents, DeliverAgent(c, a)
      PROVE  TypeInv'
  <2>1. \A x, new : \A s \in MapAgentToAgentMachine(c, a, x, new) : s \subseteq AgentMachines
    BY DEF MapAgentToAgentMachine, Watched
  <2>2. queue' \subseteq AgentMachines
    BY <1>3, <2>1 DEF DeliverAgent, TypeInv, TypeOK
  <2>3. agentCache' \in [Controllers -> [Agents -> AgentObj]]
    <3>1. agent[a] \in AgentObj /\ agentCache[c] \in [Agents -> AgentObj]
      BY DEF TypeInv, TypeOK
    <3>2. agentCache' = [agentCache EXCEPT ![c] = [agentCache[c] EXCEPT ![a] = agent[a]]]
      BY <1>3 DEF DeliverAgent, TypeInv, TypeOK
    <3>3. [agentCache[c] EXCEPT ![a] = agent[a]] \in [Agents -> AgentObj]
      BY <3>1
    <3> QED
      BY <3>2, <3>3 DEF TypeInv, TypeOK
  <2>4. agentFresh' \in [Controllers -> SUBSET Agents]
    BY <1>3 DEF DeliverAgent, TypeInv, TypeOK
  <2>5. /\ listCache' \in [Controllers -> [Agents -> AgentObj]]
        /\ listFresh' \in [Controllers -> SUBSET Agents]
    BY <1>l, <1>3 DEF DeliverAgent, TypeInv, TypeOK
  <2> QED
    BY <1>3, <2>2, <2>3, <2>4, <2>5 DEF DeliverAgent, TypeInv, TypeOK, WorkerHasMachine,
       amVars, machineVars, clusterVars
<1>4. ASSUME NEW m \in AgentMachines, Requeue(m) \/ Resync(m)
      PROVE  TypeInv'
  BY <1>4 DEF Requeue, Resync, TypeInv, TypeOK, WorkerHasMachine, amVars,
     machineVars, agentVars, clusterVars
<1>5. ASSUME NEW c \in Controllers, NEW a \in Agents, RefreshList(c, a)
      PROVE  TypeInv'
  BY <1>l, <1>5 DEF RefreshList, TypeInv, TypeOK, WorkerHasMachine, amVars,
     machineVars, clusterVars, queueVars
<1> QED
  BY <1>1, <1>2, <1>3, <1>4, <1>5 DEF Deliver

\* Processes that start again.
LEMMA RestartType ==
  ASSUME TypeInv, NEW cs \in SUBSET Controllers,
         NEW now \in [AgentMachines -> AgentMachineObj], Restart(cs, now),
         am' = now, UNCHANGED <<machine, agent, tokens>>,
         cdRef' \in [Namespaces -> {"absent", "empty", "set"}],
         faults' \in 0..MaxFaults
  PROVE  TypeInv'
<1>1. worker' \in [Controllers -> WorkerState] /\ WorkerHasMachine'
  BY NewObjectTypes DEF Restart, TypeInv, TypeOK, WorkerHasMachine
<1>2. /\ amCache' \in [AgentMachines -> AgentMachineObj]
      /\ machineCache' \in [AgentMachines -> MachineObj]
  BY DEF Restart, TypeInv, TypeOK
<1>3. /\ agentCache' \in [Controllers -> [Agents -> AgentObj]]
      /\ listCache' \in [Controllers -> [Agents -> AgentObj]]
      /\ agentFresh' \in [Controllers -> SUBSET Agents]
      /\ listFresh' \in [Controllers -> SUBSET Agents]
      /\ agentHeld' \in [Controllers -> SUBSET Agents]
  BY DEF Restart, TypeInv, TypeOK
<1>4. UNION {Watched(c) : c \in cs} \subseteq AgentMachines
  BY DEF Watched
<1>5. /\ machineFresh' \subseteq AgentMachines /\ machineHeld' \subseteq AgentMachines
      /\ queue' \subseteq AgentMachines /\ delayed' \subseteq AgentMachines
  BY <1>4 DEF Restart, TypeInv, TypeOK
<1> QED
  BY <1>1, <1>2, <1>3, <1>5 DEF TypeInv, TypeOK

LEMMA FailureType ==
  ASSUME TypeInv, RestoreHub \/ \E c \in Controllers : Crash(c)
  PROVE  TypeInv'
<1>1. ASSUME NEW c \in Controllers, Crash(c)
      PROVE  TypeInv'
  BY <1>1, RestartType, FaultType DEF Crash, TypeInv, TypeOK, clusterVars
<1>2. CASE RestoreHub
  <2> DEFINE now == [m \in AgentMachines |->
                [am[m] EXCEPT !.ref = None, !.ready = FALSE, !.conds = "none"]]
  <2>1. now \in [AgentMachines -> AgentMachineObj]
    <3>1. ASSUME NEW m \in AgentMachines
          PROVE  [am[m] EXCEPT !.ref = None, !.ready = FALSE, !.conds = "none"]
                   \in AgentMachineObj
      <4>1. am[m] \in AgentMachineObj
        BY DEF TypeInv, TypeOK
      <4> QED
        BY <4>1 DEF AgentMachineObj, AgentOrNone
    <3> QED
      BY <3>1
  <2>2. am' = now /\ Restart(Controllers, now) /\ UNCHANGED <<machine, agent, tokens>>
    BY <1>2 DEF RestoreHub
  <2>3. cdRef' \in [Namespaces -> {"absent", "empty", "set"}]
    BY <1>2 DEF RestoreHub, TypeInv, TypeOK
  <2> HIDE DEF now
  <2> QED
    BY <1>2, <2>1, <2>2, <2>3, RestartType, FaultType DEF RestoreHub
<1> QED
  BY <1>1, <1>2

\* Changes made by others than the provider.
LEMMA ChangeType ==
  ASSUME TypeInv, faults' \in 0..MaxFaults,
         \/ \E m \in AgentMachines, v \in AgentMachineObj : ChangeAgentMachine(m, v)
         \/ \E m \in AgentMachines, v \in MachineObj : ChangeMachine(m, v)
         \/ \E a \in Agents, v \in AgentObj : ChangeAgent(a, v)
  PROVE  TypeInv'
<1>1. ASSUME NEW m \in AgentMachines, NEW v \in AgentMachineObj, ChangeAgentMachine(m, v)
      PROVE  TypeInv'
  BY <1>1 DEF ChangeAgentMachine, TypeInv, TypeOK, WorkerHasMachine, machineVars,
     agentVars, clusterVars, queueVars
<1>2. ASSUME NEW m \in AgentMachines, NEW v \in MachineObj, ChangeMachine(m, v)
      PROVE  TypeInv'
  BY <1>2 DEF ChangeMachine, WriteMachine, TypeInv, TypeOK, WorkerHasMachine, amVars,
     agentVars, clusterVars, queueVars
<1>3. ASSUME NEW a \in Agents, NEW v \in AgentObj, ChangeAgent(a, v)
      PROVE  TypeInv'
  BY <1>3 DEF ChangeAgent, WriteAgent, TypeInv, TypeOK, WorkerHasMachine, amVars,
     machineVars, clusterVars, queueVars
<1> QED
  BY <1>1, <1>2, <1>3

LEMMA CapiAndUsersType ==
  ASSUME TypeInv, NEW m \in AgentMachines, CapiProgress(m) \/ Users(m)
  PROVE  TypeInv'
<1>1. am[m] \in AgentMachineObj /\ machine[m] \in MachineObj
  BY DEF TypeInv, TypeOK
<1>2. faults' \in 0..MaxFaults
  BY FaultType DEF CapiProgress, Users, CapiSetOwner, CapiWaitForHook,
     CapiDeleteInfrastructure, CapiHookPassed, CapiMachineGone, DeleteMachine,
     ForceRemoveMachine, DeleteAgentMachine, Pause, RotateBootstrapData, TypeInv, TypeOK
<1>3. \/ \E v \in AgentMachineObj : ChangeAgentMachine(m, v)
      \/ \E v \in MachineObj : ChangeMachine(m, v)
  <2>1. CASE CapiSetOwner(m)
    <3>1. [am[m] EXCEPT !.owner = TRUE] \in AgentMachineObj
      BY <1>1 DEF AgentMachineObj
    <3> QED
      BY <2>1, <3>1 DEF CapiSetOwner
  <2>2. CASE CapiWaitForHook(m)
    <3>1. [machine[m] EXCEPT !.phase = "waiting"] \in MachineObj
      BY <1>1 DEF MachineObj
    <3> QED
      BY <2>2, <3>1 DEF CapiWaitForHook
  <2>3. CASE CapiDeleteInfrastructure(m) \/ DeleteAgentMachine(m)
    <3>1. [am[m] EXCEPT !.st = "deleting"] \in AgentMachineObj
      BY <1>1 DEF AgentMachineObj
    <3>2. Collect([am[m] EXCEPT !.st = "deleting"]) \in AgentMachineObj
      BY <3>1, NewObjectTypes DEF Collect
    <3> QED
      BY <2>3, <3>2 DEF CapiDeleteInfrastructure, DeleteAgentMachine
  <2>4. CASE CapiHookPassed(m)
    <3>1. [machine[m] EXCEPT !.phase = "passed"] \in MachineObj
      BY <1>1 DEF MachineObj
    <3> QED
      BY <2>4, <3>1 DEF CapiHookPassed
  <2>5. CASE CapiMachineGone(m) \/ ForceRemoveMachine(m)
    BY <2>5, NewObjectTypes DEF CapiMachineGone, ForceRemoveMachine
  <2>6. CASE DeleteMachine(m)
    <3>1. [machine[m] EXCEPT !.st = "deleting"] \in MachineObj
      BY <1>1 DEF MachineObj
    <3> QED
      BY <2>6, <3>1 DEF DeleteMachine
  <2>7. CASE Pause(m)
    <3>1. [am[m] EXCEPT !.paused = ~@] \in AgentMachineObj
      BY <1>1 DEF AgentMachineObj
    <3> QED
      BY <2>7, <3>1 DEF Pause
  <2>8. ASSUME NEW b \in Boots, RotateBootstrapData(m, b)
        PROVE  \E v \in MachineObj : ChangeMachine(m, v)
    <3>1. [machine[m] EXCEPT !.boot = b] \in MachineObj
      BY <1>1 DEF MachineObj, BootOrNone
    <3> QED
      BY <2>8, <3>1 DEF RotateBootstrapData
  <2> QED
    BY <2>1, <2>2, <2>3, <2>4, <2>5, <2>6, <2>7, <2>8 DEF CapiProgress, Users
<1> QED
  BY <1>2, <1>3, ChangeType

\* What others than the provider leave alone when Agent a becomes v.
OthersKeep(a, v) ==
  /\ v.boot \in {agent[a].boot, None}
  /\ \/ v.cd = None
     \/ v.cd = agent[a].cd /\ v.label = agent[a].label
     \/ v.cd = Foreign /\ "manualBind" \in Environment

LEMMA AgentChanges ==
  ASSUME TypeInv, NEW a \in Agents, AgentProgress(a) \/ AgentTrouble(a)
  PROVE  \E v \in AgentObj : ChangeAgent(a, v) /\ OthersKeep(a, v)
<1>1. agent[a] \in AgentObj
  BY DEF TypeInv, TypeOK
<1>2. CASE AgentBecomesValid(a)
  <2>1. [agent[a] EXCEPT !.ok = TRUE] \in AgentObj
    BY <1>1 DEF AgentObj
  <2> QED
    BY <1>1, <1>2, <2>1 DEF AgentBecomesValid, OthersKeep, AgentObj
<1>3. CASE AgentLosesValidity(a)
  <2>1. [agent[a] EXCEPT !.ok = FALSE] \in AgentObj
    BY <1>1 DEF AgentObj
  <2> QED
    BY <1>1, <1>3, <2>1 DEF AgentLosesValidity, OthersKeep, AgentObj
<1>4. CASE ManualBind(a)
  <2>1. [agent[a] EXCEPT !.cd = Foreign] \in AgentObj
    BY <1>1 DEF AgentObj
  <2> QED
    BY <1>1, <1>4, <2>1 DEF ManualBind, Fault, OthersKeep, AgentObj
<1>5. CASE DeleteAgent(a)
  <2>1. [NewAgent EXCEPT !.exists = FALSE] \in AgentObj
    BY NewObjectTypes DEF AgentObj
  <2> QED
    BY <1>5, <2>1 DEF DeleteAgent, NewAgent, OthersKeep
<1>6. CASE HostProgress(a)
  <2>1. PICK s \in HostNext(agent[a]) : ChangeAgent(a, [agent[a] EXCEPT !.state = s])
    BY <1>6 DEF HostProgress
  <2>2. s \in {"unbound", "installing", "installed", "unbinding", "pending"}
    BY <2>1 DEF HostNext
  <2>3. [agent[a] EXCEPT !.state = s] \in AgentObj
    BY <1>1, <2>2 DEF AgentObj
  <2> QED
    BY <1>1, <2>1, <2>3 DEF OthersKeep, AgentObj
<1> QED
  BY <1>2, <1>3, <1>4, <1>5, <1>6 DEF AgentProgress, AgentTrouble

LEMMA AgentsType ==
  ASSUME TypeInv, NEW a \in Agents, AgentProgress(a) \/ AgentTrouble(a)
  PROVE  TypeInv'
<1>1. faults' \in 0..MaxFaults
  BY FaultType DEF AgentProgress, AgentTrouble, AgentBecomesValid, HostProgress,
     AgentLosesValidity, ManualBind, DeleteAgent, TypeInv, TypeOK
<1> QED
  BY <1>1, AgentChanges, ChangeType

LEMMA ClusterProgressType ==
  ASSUME TypeInv, NEW n \in Namespaces, ClusterProgress(n)
  PROVE  TypeInv'
BY DEF ClusterProgress, TypeInv, TypeOK, WorkerHasMachine, amVars, machineVars,
   agentVars, queueVars

LEMMA NextType == TypeInv /\ [Next]_vars => TypeInv'
<1> SUFFICES ASSUME TypeInv, [Next]_vars PROVE TypeInv'
  OBVIOUS
<1>1. CASE UNCHANGED vars
  BY <1>1 DEF vars, amVars, machineVars, agentVars, clusterVars, queueVars, TypeInv,
     TypeOK, WorkerHasMachine
<1>2. CASE Next
  BY <1>2, ReconcileType, ReconcileStepType, DeliverType, FailureType,
     CapiAndUsersType, AgentsType, ClusterProgressType DEF Next, Progress, Failure
<1> QED
  BY <1>1, <1>2

\* Every variable keeps its type: in particular MirrorConditions and the patch
\* operators only ever produce AgentMachines with a Boolean Status.Ready.
THEOREM TypeCorrect == Spec => []TypeOK
<1>1. Init => TypeInv
  BY InitType
<1>2. TypeInv /\ [Next]_vars => TypeInv'
  BY NextType
<1>3. TypeInv => TypeOK
  BY DEF TypeInv
<1> QED
  BY <1>1, <1>2, <1>3, PTL DEF Spec
-----------------------------------------------------------------------------
(* What the provider writes into Agents *)

\* Version v of Agent a is one that a step of c may write.
Writes(c, a, v) ==
  \/ worker[c].pc = "unbind" /\ a = worker[c].obj.ref /\ v = Released(agent[a])
  \/ v = [agent[a] EXCEPT !.boot = worker[c].boot]
  \/ /\ worker[c].pc = "label" /\ a = worker[c].obj.ref /\ agent[a].exists
     /\ worker[c].m \in AgentMachines
     /\ v = [agent[a] EXCEPT !.label = NameOf[worker[c].m]]
  \/ /\ worker[c].pc = "claim"
     /\ a \in worker[c].cand \intersect agentHeld[c]
     /\ v = Claimed(agent[a], worker[c].m, worker[c].boot)
     /\ worker'[c] = Found(worker[c], a) \/ "lostReply" \in Environment

\* A step of c writes one Agent in one of four ways, or none.
LEMMA AgentWrites ==
  ASSUME TypeInv, NEW c \in Controllers, ReconcileStep(c)
  PROVE  \/ \E a \in Agents, v \in AgentObj : WriteAgent(a, v) /\ Writes(c, a, v)
         \/ /\ UNCHANGED <<agent, listCache, listFresh>>
            /\ \A d \in Controllers \ {c} : agentHeld'[d] = agentHeld[d]
            /\ worker[c].pc = "claim" => agentHeld' = agentHeld
<1> DEFINE w == worker[c]
           Goal == \/ \E a \in Agents, v \in AgentObj : WriteAgent(a, v) /\ Writes(c, a, v)
                   \/ /\ UNCHANGED <<agent, listCache, listFresh>>
                      /\ \A d \in Controllers \ {c} : agentHeld'[d] = agentHeld[d]
                      /\ worker[c].pc = "claim" => agentHeld' = agentHeld
<1>w. /\ w \in WorkerState
      /\ w.pc # "idle" => w.m \in AgentMachines
      /\ w.pc \in RefPcs => w.obj.ref \in Agents /\ agent[w.obj.ref] \in AgentObj
      /\ agentHeld \in [Controllers -> SUBSET Agents]
  BY DEF TypeInv, TypeOK, WorkerHasMachine
<1>1. CASE UNCHANGED agentVars
  BY <1>1 DEF agentVars
<1>2. ASSUME NEW a \in Agents, NEW t, NEW e, ReadAgent(c, a, t, e), w.pc # "claim"
      PROVE  Goal
  BY <1>2, <1>w DEF ReadAgent
<1>3. ASSUME NEW a \in Agents, NEW v \in AgentObj, NEW accepted, NEW t, NEW e,
             CallAgent(c, a, v, accepted, t, e), accepted => Writes(c, a, v)
      PROVE  Goal
  BY <1>1, <1>3 DEF CallAgent
<1>4. CASE AddHook(c) \/ RemoveHook(c) \/ ProcessBootstrapDataSecret(c)
           \/ PatchConditions(c) \/ PatchSpec(c) \/ PatchStatus(c)
  BY <1>1, <1>4 DEF AddHook, RemoveHook, ProcessBootstrapDataSecret, PatchConditions,
     PatchSpec, PatchStatus, CallMachine, CallPatch
<1>5. CASE UnbindGet(c) \/ UpdateAgentIfNeeded(c) \/ UpdateStatusGet(c)
  <2>1. w.pc \in {"unbindGet", "sync", "status"}
    BY <1>5 DEF UnbindGet, UpdateAgentIfNeeded, UpdateStatusGet, At
  <2>2. \E t, e : ReadAgent(c, w.obj.ref, t, e)
    BY <1>5 DEF UnbindGet, UpdateAgentIfNeeded, UpdateStatusGet
  <2> HIDE DEF Goal
  <2>3. Goal
    BY <1>2, <1>w, <2>1, <2>2
  <2> QED
    BY <2>3 DEF Goal
<1>6. CASE Unbind(c)
  <2>1. w.pc = "unbind"
    BY <1>6 DEF Unbind, At
  <2>2. Released(agent[w.obj.ref]) \in AgentObj
    BY <1>w, <2>1 DEF Released, AgentObj, BootOrNone
  <2> QED
    BY <1>3, <1>6, <1>w, <2>1, <2>2 DEF Unbind, Writes
<1>7. CASE UpdateFoundAgent(c)
  <2>1. w.pc = "claim"
    BY <1>7 DEF UpdateFoundAgent, At
  <2>2. PICK a \in w.cand : \E e :
          CallAgent(c, a, Claimed(agent[a], w.m, w.boot), Latest(c, a), Found(w, a), e)
    BY <1>7 DEF UpdateFoundAgent
  <2>3. a \in Agents /\ agent[a] \in AgentObj
    BY <1>w DEF WorkerState, TypeInv, TypeOK
  <2>4. Claimed(agent[a], w.m, w.boot) \in AgentObj
    <3>1. NameOf[w.m] \in Names /\ NsOf[w.m] \in Namespaces /\ w.boot \in BootOrNone
      BY <1>w, <2>1, ConstantTypes DEF WorkerState
    <3> QED
      BY <2>3, <3>1 DEF Claimed, AgentObj
  <2>5. \/ UNCHANGED agentVars
        \/ /\ a \in agentHeld[c] /\ WriteAgent(a, Claimed(agent[a], w.m, w.boot))
           /\ Become(c, Found(w, a)) \/ "lostReply" \in Environment
    BY <2>2 DEF CallAgent, Latest, Outcome, Outcomes, Fault
  <2>6. Become(c, Found(w, a)) => worker'[c] = Found(w, a)
    BY DEF Become, TypeInv, TypeOK
  <2>7. CASE a \in agentHeld[c] /\ WriteAgent(a, Claimed(agent[a], w.m, w.boot))
             /\ (worker'[c] = Found(w, a) \/ "lostReply" \in Environment)
    BY <2>1, <2>3, <2>4, <2>7 DEF Writes
  <2> QED
    BY <1>1, <2>5, <2>6, <2>7
<1>8. CASE UpdateBootstrapData(c)
  <2>1. w.pc = "syncUpdate"
    BY <1>8 DEF UpdateBootstrapData, At
  <2>2. [agent[w.obj.ref] EXCEPT !.boot = w.boot] \in AgentObj
    BY <1>w, <2>1 DEF AgentObj, WorkerState
  <2> QED
    BY <1>3, <1>8, <1>w, <2>1, <2>2 DEF UpdateBootstrapData, Writes
<1>9. CASE EnsureAgentLabeled(c)
  <2>1. w.pc = "label"
    BY <1>9 DEF EnsureAgentLabeled, At
  <2>2. [agent[w.obj.ref] EXCEPT !.label = NameOf[w.m]] \in AgentObj
    BY <1>w, <2>1, ConstantTypes DEF AgentObj
  <2> QED
    BY <1>3, <1>9, <1>w, <2>1, <2>2 DEF EnsureAgentLabeled, Writes
<1>10. CASE FindAgent(c) \/ Finish(c)
  <2>1. w.pc # "claim"
    BY <1>10 DEF FindAgent, Finish, At
  <2> QED
    BY <1>10, <1>w, <2>1 DEF FindAgent, Finish
<1> QED
  BY <1>4, <1>5, <1>6, <1>7, <1>8, <1>9, <1>10 DEF ReconcileStep

\* What a step that is not one of a running Reconcile call may do.
OtherStep ==
  /\ UNCHANGED tokens
  /\ \A c \in Controllers :
       worker'[c] = worker[c] \/ (worker'[c].boot = None /\ worker'[c].pc # "claim")
  /\ \/ UNCHANGED agent /\ \A c \in Controllers : agentHeld'[c] \subseteq agentHeld[c]
     \/ \E a \in Agents, v \in AgentObj : WriteAgent(a, v) /\ OthersKeep(a, v)

LEMMA OtherSteps ==
  ASSUME TypeInv, [Next]_vars
  PROVE  OtherStep \/ \E c \in Controllers : ReconcileStep(c)
<1>1. CASE UNCHANGED vars
  BY <1>1 DEF vars, OtherStep, clusterVars, agentVars
<1>2. ASSUME NEW c \in Controllers, NEW m \in AgentMachines, Reconcile(c, m)
      PROVE  OtherStep
  <2> DEFINE w == [IdleWorker EXCEPT !.m = m, !.obj = amCache[m],
                                     !.before = amCache[m], !.mach = machineCache[m]]
  <2>1. w \in WorkerState /\ w.boot = None
    <3>1. IdleWorker \in WorkerState /\ IdleWorker.boot = None
          /\ amCache[m] \in AgentMachineObj /\ machineCache[m] \in MachineObj
      BY NewObjectTypes DEF TypeInv, TypeOK
    <3> QED
      BY <3>1 DEF WorkerState
  <2> HIDE DEF w
  <2>2. Begin(w).boot = None /\ Begin(w).pc # "claim"
    BY <2>1, BeginFollows DEF Follows
  <2>3. UNCHANGED worker \/ worker' = [worker EXCEPT ![c] = Begin(w)]
    BY <1>2 DEF Reconcile, Become, w
  <2>4. UNCHANGED <<tokens, agent, agentHeld>>
    BY <1>2 DEF Reconcile, clusterVars, agentVars
  <2> QED
    BY <2>2, <2>3, <2>4 DEF OtherStep, TypeInv, TypeOK
<1>3. ASSUME NEW c \in Controllers, NEW a \in Agents,
             DeliverAgent(c, a) \/ RefreshList(c, a)
      PROVE  OtherStep
  BY <1>3 DEF DeliverAgent, RefreshList, OtherStep, clusterVars
<1>4. CASE RestoreHub \/ \E c \in Controllers : Crash(c)
  <2>1. PICK cs, now : Restart(cs, now)
    BY <1>4 DEF RestoreHub, Crash
  <2>2. UNCHANGED <<tokens, agent>>
    BY <1>4 DEF RestoreHub, Crash, clusterVars
  <2>3. \A c \in Controllers :
          worker'[c] = worker[c] \/ (worker'[c].boot = None /\ worker'[c].pc # "claim")
    BY <2>1, NewObjectTypes DEF Restart
  <2>4. \A c \in Controllers : agentHeld'[c] \subseteq agentHeld[c]
    BY <2>1 DEF Restart
  <2> QED
    BY <2>2, <2>3, <2>4 DEF OtherStep
<1>5. ASSUME NEW m \in AgentMachines, Deliver(m) \/ Requeue(m) \/ Resync(m)
      PROVE  OtherStep
  BY <1>5 DEF Deliver, DeliverAgentMachine, DeliverMachine, Requeue, Resync, OtherStep,
     clusterVars, agentVars
<1>6. ASSUME NEW m \in AgentMachines, CapiProgress(m) \/ Users(m)
      PROVE  OtherStep
  <2>1. \E v : ChangeAgentMachine(m, v) \/ ChangeMachine(m, v)
    BY <1>6 DEF CapiProgress, Users, CapiSetOwner, CapiWaitForHook,
       CapiDeleteInfrastructure, CapiHookPassed, CapiMachineGone, DeleteMachine,
       ForceRemoveMachine, DeleteAgentMachine, Pause, RotateBootstrapData
  <2> QED
    BY <2>1 DEF ChangeAgentMachine, ChangeMachine, OtherStep, clusterVars, agentVars
<1>7. ASSUME NEW a \in Agents, AgentProgress(a) \/ AgentTrouble(a)
      PROVE  OtherStep
  BY <1>7, AgentChanges DEF ChangeAgent, OtherStep, clusterVars
<1>8. ASSUME NEW n \in Namespaces, ClusterProgress(n)
      PROVE  OtherStep
  BY <1>8 DEF ClusterProgress, OtherStep, agentVars
<1> QED
  BY <1>1, <1>2, <1>3, <1>4, <1>5, <1>6, <1>7, <1>8 DEF Next, Progress, Failure
-----------------------------------------------------------------------------
(* Token secrets exist before Agents name them *)

\* The bootstrap data a Reconcile call works with has its token secret.
WorkerTokens ==
  \A c \in Controllers : worker[c].boot # None => worker[c].boot \in tokens

TokenInv == TypeInv /\ TokenBeforeReference /\ WorkerTokens

LEMMA TokensStay ==
  ASSUME NEW c \in Controllers, ReconcileStep(c)
  PROVE  tokens \subseteq tokens'
<1>1. CASE ProcessBootstrapDataSecret(c)
  BY <1>1 DEF ProcessBootstrapDataSecret
<1>2. CASE UNCHANGED tokens
  BY <1>2
<1>3. CASE AddHook(c) \/ RemoveHook(c) \/ PatchConditions(c) \/ PatchSpec(c)
           \/ PatchStatus(c) \/ FindAgent(c) \/ Finish(c)
  BY <1>2, <1>3 DEF AddHook, RemoveHook, PatchConditions, PatchSpec, PatchStatus,
     FindAgent, Finish, CallMachine, CallPatch, clusterVars
<1>4. CASE UnbindGet(c) \/ Unbind(c) \/ UpdateFoundAgent(c) \/ UpdateAgentIfNeeded(c)
           \/ UpdateBootstrapData(c) \/ UpdateStatusGet(c) \/ EnsureAgentLabeled(c)
  BY <1>2, <1>4 DEF UnbindGet, Unbind, UpdateFoundAgent, UpdateAgentIfNeeded,
     UpdateBootstrapData, UpdateStatusGet, EnsureAgentLabeled, CallAgent, ReadAgent,
     clusterVars
<1> QED
  BY <1>1, <1>3, <1>4 DEF ReconcileStep

LEMMA WorkerTokensStep ==
  ASSUME TokenInv, NEW c \in Controllers, ReconcileStep(c)
  PROVE  WorkerTokens'
<1> DEFINE w == worker[c]
<1>w. w \in WorkerState /\ worker \in [Controllers -> WorkerState]
  BY DEF TokenInv, TypeInv, TypeOK
<1>1. tokens \subseteq tokens'
  BY TokensStay
<1>2. SUFFICES /\ \A d \in Controllers \ {c} : worker'[d] = worker[d]
               /\ worker'[c].boot \in {w.boot, None} \union tokens'
  BY <1>1 DEF TokenInv, WorkerTokens
<1>3. CASE KeepsWorker(c)
  BY <1>3 DEF KeepsWorker
<1>4. CASE ProcessBootstrapDataSecret(c)
  <2>1. PICK o \in Outcomes :
          /\ tokens' = IF o = "error" THEN tokens
                       ELSE tokens \union ({w.mach.boot} \ {None})
          /\ Become(c, BootstrapProcessed(w, o, w.mach.boot))
    BY <1>4 DEF ProcessBootstrapDataSecret
  <2>2. o = "ok" => BootstrapProcessed(w, o, w.mach.boot).boot = w.mach.boot
    <3>1. /\ [w EXCEPT !.boot = w.mach.boot] \in WorkerState
          /\ [w EXCEPT !.boot = w.mach.boot].boot = w.mach.boot
      BY <1>w DEF WorkerState, MachineObj
    <3> QED
      BY <3>1, AfterBootstrapFollows DEF BootstrapProcessed, Follows
  <2>3. o # "ok" => BootstrapProcessed(w, o, w.mach.boot).boot = w.boot
    BY <1>w, ReturnFollows DEF BootstrapProcessed, Follows
  <2>4. worker' = [worker EXCEPT ![c] = BootstrapProcessed(w, o, w.mach.boot)]
    BY <2>1 DEF Become
  <2> QED
    BY <1>w, <2>1, <2>2, <2>3, <2>4
<1>5. CASE FindAgent(c)
  <2>1. \A a \in Agents : Found(w, a).boot = w.boot
    BY <1>w, FoundFollows DEF Follows
  <2>2. UpdateStatus(w, FALSE).boot = w.boot /\ UpdateStatus(w, TRUE).boot = w.boot
    BY <1>w, UpdateStatusFollows DEF Follows
  <2>3. \A cs : [w EXCEPT !.pc = "claim", !.cand = cs].boot = w.boot
    BY <1>w DEF WorkerState
  <2>4. PICK r : worker' = [worker EXCEPT ![c] = r] /\ r.boot = w.boot
    BY <1>5, <2>1, <2>2, <2>3 DEF FindAgent, LabelledAgents, Become
  <2> QED
    BY <1>w, <2>4
<1>6. CASE Finish(c)
  BY <1>6, <1>w, NewObjectTypes DEF Finish, Become
<1> QED
  BY <1>3, <1>4, <1>5, <1>6, ReconcileStepType DEF TokenInv

LEMMA TokenStep == TokenInv /\ [Next]_vars => TokenInv'
<1> SUFFICES ASSUME TokenInv, [Next]_vars PROVE TokenInv'
  OBVIOUS
<1>1. TypeInv'
  BY NextType DEF TokenInv
<1>2. ASSUME NEW a \in Agents, NEW v \in AgentObj, WriteAgent(a, v), tokens \subseteq tokens',
             v.boot \in {agent[a].boot, None} \union {worker[c].boot : c \in Controllers}
      PROVE  TokenBeforeReference'
  BY <1>2 DEF WriteAgent, TokenInv, TypeInv, TypeOK, TokenBeforeReference, WorkerTokens
<1>3. CASE OtherStep
  <2>1. WorkerTokens'
    BY <1>3 DEF OtherStep, TokenInv, WorkerTokens
  <2>2. TokenBeforeReference'
    <3>1. CASE UNCHANGED agent
      BY <1>3, <3>1 DEF OtherStep, TokenInv, TokenBeforeReference
    <3>2. CASE ~UNCHANGED agent
      BY <1>2, <1>3, <3>2 DEF OtherStep, OthersKeep
    <3> QED
      BY <3>1, <3>2
  <2> QED
    BY <1>1, <2>1, <2>2 DEF TokenInv
<1>4. ASSUME NEW c \in Controllers, ReconcileStep(c)
      PROVE  TokenInv'
  <2>1. WorkerTokens' /\ tokens \subseteq tokens'
    BY <1>4, WorkerTokensStep, TokensStay
  <2>2. TokenBeforeReference'
    <3>1. CASE UNCHANGED agent
      BY <2>1, <3>1 DEF TokenInv, TokenBeforeReference
    <3>2. ASSUME NEW a \in Agents, NEW v \in AgentObj, WriteAgent(a, v), Writes(c, a, v)
          PROVE  TokenBeforeReference'
      <4>1. agent[a] \in AgentObj
        BY DEF TokenInv, TypeInv, TypeOK
      <4>2. v.boot \in {agent[a].boot, None, worker[c].boot}
        BY <3>2, <4>1 DEF Writes, Released, Claimed, AgentObj
      <4> QED
        BY <1>2, <2>1, <3>2, <4>2
    <3> QED
      BY <1>4, <3>1, <3>2, AgentWrites DEF TokenInv
  <2> QED
    BY <1>1, <2>1, <2>2 DEF TokenInv
<1> QED
  BY <1>3, <1>4, OtherSteps DEF TokenInv

\* An Agent never names a token secret that processBootstrapDataSecret has not yet
\* created, whatever crashes, lost answers, rotations and restores happen.
THEOREM TokensFirst == Spec => []TokenBeforeReference
<1>1. Init => TokenInv
  <2>1. Init => TokenBeforeReference /\ WorkerTokens
    BY NewObjectTypes DEF Init, TokenBeforeReference, WorkerTokens, NewAgent
  <2> QED
    BY <2>1, InitType DEF TokenInv
<1>2. TokenInv /\ [Next]_vars => TokenInv'
  BY TokenStep
<1>3. TokenInv => TokenBeforeReference
  BY DEF TokenInv
<1> QED
  BY <1>1, <1>2, <1>3, PTL DEF Spec
-----------------------------------------------------------------------------
(* Only free Agents are claimed *)

\* A listed copy that counts as the latest is the object itself.
FreshIsCurrent ==
  \A c \in Controllers : \A a \in listFresh[c] : listCache[c][a] = agent[a]

\* The candidates whose latest copy Reconcile holds are still what findAgent saw.
CandidatesAreFree ==
  \A c \in Controllers : worker[c].pc = "claim" =>
    \A a \in worker[c].cand :
      /\ a \in Matches[worker[c].m]
      /\ a \in agentHeld[c] =>
           agent[a].exists /\ agent[a].label = None /\ IsValidAgent(agent[a])

ClaimInv == TypeInv /\ FreshIsCurrent /\ CandidatesAreFree

LEMMA FreshStep ==
  ASSUME TypeInv, FreshIsCurrent, [Next]_vars
  PROVE  FreshIsCurrent'
<1>1. ASSUME NEW a, NEW v, WriteAgent(a, v)
      PROVE  FreshIsCurrent'
  BY <1>1 DEF WriteAgent, FreshIsCurrent, TypeInv, TypeOK
<1>2. CASE UNCHANGED <<agent, listCache, listFresh>>
  BY <1>2 DEF FreshIsCurrent
<1>3. ASSUME NEW c \in Controllers, NEW a \in Agents,
             DeliverAgent(c, a) \/ RefreshList(c, a)
      PROVE  FreshIsCurrent'
  <2>1. CASE Relist(c, a) /\ agent' = agent
    <3>1. listCache' = [listCache EXCEPT ![c] = [listCache[c] EXCEPT ![a] = agent[a]]]
      BY <2>1 DEF Relist, TypeInv, TypeOK
    <3>2. listFresh' = [listFresh EXCEPT ![c] = listFresh[c] \union {a}]
      BY <2>1 DEF Relist, TypeInv, TypeOK
    <3>3. listCache[c] \in [Agents -> AgentObj] /\ listFresh[c] \subseteq Agents
      BY DEF TypeInv, TypeOK
    <3> QED
      BY <2>1, <3>1, <3>2, <3>3 DEF FreshIsCurrent, TypeInv, TypeOK
  <2> QED
    BY <1>2, <1>3, <2>1 DEF DeliverAgent, RefreshList
<1>4. ASSUME NEW cs, NEW now, Restart(cs, now), UNCHANGED agent
      PROVE  FreshIsCurrent'
  BY <1>4 DEF Restart, FreshIsCurrent, TypeInv, TypeOK
<1>5. ASSUME NEW c \in Controllers, ReconcileStep(c)
      PROVE  FreshIsCurrent'
  BY <1>1, <1>2, <1>5, AgentWrites
<1>6. CASE UNCHANGED vars
  BY <1>2, <1>6 DEF vars, agentVars
<1>7. ASSUME NEW c \in Controllers, NEW m \in AgentMachines, Reconcile(c, m)
      PROVE  FreshIsCurrent'
  BY <1>2, <1>7 DEF Reconcile, agentVars
<1>8. CASE RestoreHub \/ \E c \in Controllers : Crash(c)
  BY <1>4, <1>8 DEF RestoreHub, Crash
<1>9. ASSUME NEW m \in AgentMachines, Deliver(m) \/ Requeue(m) \/ Resync(m)
      PROVE  FreshIsCurrent'
  BY <1>2, <1>9 DEF Deliver, DeliverAgentMachine, DeliverMachine, Requeue, Resync, agentVars
<1>10. ASSUME NEW m \in AgentMachines, CapiProgress(m) \/ Users(m)
       PROVE  FreshIsCurrent'
  <2>1. \E v : ChangeAgentMachine(m, v) \/ ChangeMachine(m, v)
    BY <1>10 DEF CapiProgress, Users, CapiSetOwner, CapiWaitForHook,
       CapiDeleteInfrastructure, CapiHookPassed, CapiMachineGone, DeleteMachine,
       ForceRemoveMachine, DeleteAgentMachine, Pause, RotateBootstrapData
  <2> QED
    BY <1>2, <2>1 DEF ChangeAgentMachine, ChangeMachine, agentVars
<1>11. ASSUME NEW a \in Agents, AgentProgress(a) \/ AgentTrouble(a)
       PROVE  FreshIsCurrent'
  BY <1>1, <1>11, AgentChanges DEF ChangeAgent
<1>12. ASSUME NEW n \in Namespaces, ClusterProgress(n)
       PROVE  FreshIsCurrent'
  BY <1>2, <1>12 DEF ClusterProgress, agentVars
<1> QED
  BY <1>3, <1>5, <1>6, <1>7, <1>8, <1>9, <1>10, <1>11, <1>12 DEF Next, Progress, Failure

LEMMA CandidatesStep ==
  ASSUME ClaimInv, [Next]_vars
  PROVE  CandidatesAreFree'
<1> SUFFICES ASSUME NEW d \in Controllers, worker'[d].pc = "claim",
                    NEW b \in worker'[d].cand
             PROVE  /\ b \in Matches[worker'[d].m]
                    /\ b \in agentHeld'[d] => /\ agent'[b].exists /\ agent'[b].label = None
                                              /\ IsValidAgent(agent'[b])
  BY DEF CandidatesAreFree, IsValidAgent
<1> DEFINE Kept == /\ worker[d].pc = "claim" /\ worker'[d].m = worker[d].m
                   /\ b \in worker[d].cand
           Same == b \in agentHeld'[d] => b \in agentHeld[d] /\ agent'[b] = agent[b]
<1>t. TypeInv /\ TypeInv'
  BY NextType DEF ClaimInv
<1>1. CASE Kept /\ Same
  BY <1>1 DEF ClaimInv, CandidatesAreFree
<1>2. ASSUME NEW a, NEW v, WriteAgent(a, v)
      PROVE  Same
  BY <1>2, <1>t DEF WriteAgent, TypeInv, TypeOK
<1>3. CASE OtherStep
  <2>1. worker'[d] = worker[d]
    BY <1>3 DEF OtherStep
  <2>2. Same
    BY <1>2, <1>3 DEF OtherStep
  <2> QED
    BY <1>1, <2>1, <2>2
<1>4. ASSUME NEW c \in Controllers, ReconcileStep(c), d # c, Kept
      PROVE  Same
  BY <1>2, <1>4, <1>t, AgentWrites
<1>5. ASSUME NEW c \in Controllers, ReconcileStep(c), KeepsWorker(c)
      PROVE  Kept /\ Same
  <2>1. Kept
    BY <1>5 DEF KeepsWorker
  <2>2. CASE d = c
    BY <1>2, <1>5, <1>t, <2>1, <2>2, AgentWrites
  <2> QED
    BY <1>4, <1>5, <2>1, <2>2
<1>6. ASSUME NEW c \in Controllers, ReconcileStep(c), d # c, worker'[d] = worker[d]
      PROVE  Kept /\ Same
  BY <1>4, <1>6
<1>7. ASSUME NEW c \in Controllers, FindAgent(c), d = c
      PROVE  /\ b \in Matches[worker'[d].m]
             /\ b \in agentHeld'[d] => /\ agent'[b].exists /\ agent'[b].label = None
                                       /\ IsValidAgent(agent'[b])
  <2> DEFINE w == worker[c]
             cs == Candidates(c, w.m)
  <2>1. w \in WorkerState /\ worker \in [Controllers -> WorkerState]
    BY <1>t DEF TypeInv, TypeOK
  <2>2. \A a \in Agents : Found(w, a).pc # "claim"
    BY <2>1, FoundFollows DEF Follows
  <2>3. UpdateStatus(w, FALSE).pc # "claim" /\ UpdateStatus(w, TRUE).pc # "claim"
    BY <2>1, UpdateStatusFollows DEF Follows
  <2>4. /\ worker' = [worker EXCEPT ![c] = [w EXCEPT !.pc = "claim", !.cand = cs]]
        /\ agentHeld' = [agentHeld EXCEPT ![c] = cs \intersect listFresh[c]]
        /\ agent' = agent
    BY <1>7, <2>1, <2>2, <2>3 DEF FindAgent, LabelledAgents, Become
  <2>5. worker'[d].m = w.m /\ worker'[d].cand = cs
    BY <1>7, <2>1, <2>4 DEF WorkerState
  <2>6. agentHeld'[d] = cs \intersect listFresh[c]
    BY <1>7, <1>t, <2>4 DEF TypeInv, TypeOK
  <2> HIDE DEF w
  <2> QED
    BY <2>4, <2>5, <2>6 DEF Candidates, ClaimInv, FreshIsCurrent
<1>8. ASSUME NEW c \in Controllers, ProcessBootstrapDataSecret(c) \/ Finish(c)
      PROVE  d # c
  <2>w. worker[c] \in WorkerState /\ worker \in [Controllers -> WorkerState]
    BY <1>t DEF TypeInv, TypeOK
  <2>1. CASE Finish(c)
    BY <2>1, <2>w, NewObjectTypes DEF Finish, Become
  <2>2. CASE ProcessBootstrapDataSecret(c)
    <3>1. PICK o : Become(c, BootstrapProcessed(worker[c], o, worker[c].mach.boot))
      BY <2>2 DEF ProcessBootstrapDataSecret
    <3>2. [worker[c] EXCEPT !.boot = worker[c].mach.boot] \in WorkerState
      BY <2>w DEF WorkerState, MachineObj
    <3>3. BootstrapProcessed(worker[c], o, worker[c].mach.boot).pc # "claim"
      BY <2>w, <3>2, AfterBootstrapFollows, ReturnFollows DEF BootstrapProcessed, Follows
    <3> QED
      BY <2>w, <3>1, <3>3 DEF Become
  <2> QED
    BY <1>8, <2>1, <2>2
<1>9. ASSUME NEW c \in Controllers, ProcessBootstrapDataSecret(c) \/ FindAgent(c) \/ Finish(c),
             d # c
      PROVE  worker'[d] = worker[d]
  BY <1>9, <1>t DEF ProcessBootstrapDataSecret, FindAgent, Finish, Become, TypeInv, TypeOK
<1>10. ASSUME NEW c \in Controllers, ReconcileStep(c)
       PROVE  \/ Kept /\ Same
              \/ FindAgent(c) /\ d = c
  BY <1>5, <1>6, <1>8, <1>9, <1>10, <1>t, ReconcileStepType
<1> HIDE DEF Kept, Same
<1> QED
  BY <1>1, <1>3, <1>7, <1>10, <1>t, OtherSteps

LEMMA ClaimInit == Init => ClaimInv
<1>1. Init => FreshIsCurrent /\ CandidatesAreFree
  BY NewObjectTypes DEF Init, FreshIsCurrent, CandidatesAreFree
<1> QED
  BY <1>1, InitType DEF ClaimInv

LEMMA ClaimStep == ClaimInv /\ [Next]_vars => ClaimInv'
BY NextType, FreshStep, CandidatesStep DEF ClaimInv

\* The writes of a step of c that bind an Agent bind a free one.
LEMMA BindsFreeAgent ==
  ASSUME ClaimInv, NEW c \in Controllers, NEW a \in Agents, NEW v,
         Writes(c, a, v), v.cd # None, v.cd # agent[a].cd
  PROVE  /\ agent[a].exists /\ agent[a].label = None /\ IsValidAgent(agent[a])
         /\ \E m \in AgentMachines :
              a \in Matches[m] /\ v.label = NameOf[m] /\ v.cd = NsOf[m]
<1> DEFINE w == worker[c]
<1>1. agent[a] \in AgentObj
  BY DEF ClaimInv, TypeInv, TypeOK
<1>2. w.pc = "claim" /\ a \in w.cand \intersect agentHeld[c]
      /\ v = Claimed(agent[a], w.m, w.boot)
  BY <1>1 DEF Writes, Released, AgentObj
<1>3. w.m \in AgentMachines
  BY <1>2 DEF ClaimInv, TypeInv, WorkerHasMachine
<1>4. v.label = NameOf[w.m] /\ v.cd = NsOf[w.m]
  BY <1>1, <1>2 DEF Claimed, AgentObj
<1>5. /\ a \in Matches[w.m]
      /\ agent[a].exists /\ agent[a].label = None /\ IsValidAgent(agent[a])
  BY <1>2 DEF ClaimInv, CandidatesAreFree
<1> QED
  BY <1>3, <1>4, <1>5

\* Whatever is stale, crashes or is lost: at the moment a provider binds an Agent,
\* the Agent is unlabelled and valid in the API server, and selected by the
\* AgentMachine whose name it gets.
THEOREM ClaimsSafe == Spec => ClaimsOnlyFreeAgents
<1> DEFINE Safe == \A a \in Agents :
       agent'[a].cd \in Namespaces /\ agent'[a].cd # agent[a].cd =>
         /\ agent[a].exists /\ agent[a].label = None /\ IsValidAgent(agent[a])
         /\ \E m \in AgentMachines :
              /\ a \in Matches[m]
              /\ agent'[a].label = NameOf[m] /\ agent'[a].cd = NsOf[m]
<1>1. ASSUME ClaimInv, [Next]_vars
      PROVE  [Safe]_agent
  <2> SUFFICES ASSUME NEW b \in Agents, agent'[b].cd \in Namespaces,
                      agent'[b].cd # agent[b].cd
               PROVE  /\ agent[b].exists /\ agent[b].label = None
                      /\ IsValidAgent(agent[b])
                      /\ \E m \in AgentMachines :
                           /\ b \in Matches[m]
                           /\ agent'[b].label = NameOf[m] /\ agent'[b].cd = NsOf[m]
    OBVIOUS
  <2>1. TypeInv
    BY <1>1 DEF ClaimInv
  <2>2. ASSUME NEW a \in Agents, NEW v \in AgentObj, WriteAgent(a, v)
        PROVE  a = b /\ v = agent'[b]
    BY <2>1, <2>2 DEF WriteAgent, TypeInv, TypeOK
  <2>3. ~OtherStep
    <3>1. agent'[b].cd # None /\ agent'[b].cd # Foreign
      BY NoneIsNoValue
    <3> QED
      BY <2>2, <3>1 DEF OtherStep, OthersKeep
  <2>4. PICK c \in Controllers : ReconcileStep(c)
    BY <1>1, <2>1, <2>3, OtherSteps
  <2>5. Writes(c, b, agent'[b])
    BY <2>1, <2>2, <2>4, AgentWrites
  <2> QED
    BY <1>1, <2>5, BindsFreeAgent, NoneIsNoValue
<1> HIDE DEF Safe
<1>2. Spec => [][Safe]_agent
  BY <1>1, ClaimInit, ClaimStep, PTL DEF Spec
<1> QED
  BY <1>2 DEF ClaimsOnlyFreeAgents, Safe
-----------------------------------------------------------------------------
(* A bound Agent is not bound elsewhere, when only providers bind Agents *)

\* Bound Agents carry a label, so they are no candidates.
BoundIsLabelled == \A a \in Agents : agent[a].cd # None => agent[a].label # None

LEMMA BoundStep ==
  ASSUME "manualBind" \notin Environment, ClaimInv, BoundIsLabelled, [Next]_vars
  PROVE  /\ BoundIsLabelled'
         /\ \A a \in Agents : agent[a].cd # None /\ agent'[a].cd # None =>
                                agent'[a].cd = agent[a].cd
<1>t. TypeInv
  BY DEF ClaimInv
<1>1. CASE UNCHANGED agent
  BY <1>1 DEF BoundIsLabelled
<1>2. ASSUME NEW a \in Agents, NEW v \in AgentObj, WriteAgent(a, v),
             v.cd # None => v.label # None,
             agent[a].cd # None /\ v.cd # None => v.cd = agent[a].cd
      PROVE  /\ BoundIsLabelled'
             /\ \A x \in Agents : agent[x].cd # None /\ agent'[x].cd # None =>
                                    agent'[x].cd = agent[x].cd
  BY <1>2, <1>t DEF WriteAgent, BoundIsLabelled, TypeInv, TypeOK
<1>3. CASE OtherStep
  <2>1. ASSUME NEW a \in Agents, NEW v \in AgentObj, OthersKeep(a, v)
        PROVE  /\ v.cd # None => v.label # None
               /\ agent[a].cd # None /\ v.cd # None => v.cd = agent[a].cd
    BY <2>1 DEF OthersKeep, BoundIsLabelled
  <2> QED
    BY <1>1, <1>2, <1>3, <2>1 DEF OtherStep
<1>4. ASSUME NEW c \in Controllers, ReconcileStep(c)
      PROVE  /\ BoundIsLabelled'
             /\ \A a \in Agents : agent[a].cd # None /\ agent'[a].cd # None =>
                                    agent'[a].cd = agent[a].cd
  <2>1. ASSUME NEW a \in Agents, NEW v \in AgentObj, Writes(c, a, v)
        PROVE  /\ v.cd # None => v.label # None
               /\ agent[a].cd # None /\ v.cd # None => v.cd = agent[a].cd
    <3>1. agent[a] \in AgentObj
      BY <1>t DEF TypeInv, TypeOK
    <3>2. CASE v.cd # None /\ v.cd # agent[a].cd
      <4>1. agent[a].label = None /\ \E m \in AgentMachines : v.label = NameOf[m]
        BY <2>1, <3>2, BindsFreeAgent
      <4> QED
        BY <4>1, ConstantTypes, NoneIsNoValue DEF BoundIsLabelled
    <3>3. CASE v.cd # None /\ v.cd = agent[a].cd
      <4>1. CASE v.label = agent[a].label
        BY <3>3, <4>1 DEF BoundIsLabelled
      <4>2. CASE v.label # agent[a].label
        <5>1. /\ worker[c].m \in AgentMachines
              /\ \/ v = [agent[a] EXCEPT !.label = NameOf[worker[c].m]]
                 \/ v = Claimed(agent[a], worker[c].m, worker[c].boot)
          BY <1>t, <2>1, <3>1, <3>3, <4>2
             DEF Writes, Released, AgentObj, TypeInv, WorkerHasMachine
        <5>2. v.label = NameOf[worker[c].m]
          BY <3>1, <5>1 DEF Claimed, AgentObj
        <5> QED
          BY <3>3, <5>1, <5>2, ConstantTypes, NoneIsNoValue
      <4> QED
        BY <4>1, <4>2
    <3> QED
      BY <3>2, <3>3
  <2> QED
    BY <1>1, <1>2, <1>4, <1>t, <2>1, AgentWrites
<1> QED
  BY <1>3, <1>4, <1>t, OtherSteps

\* Where nobody binds Agents by hand, the providers' claims alone never move an
\* Agent from one ClusterDeployment to another without unbinding it in between.
THEOREM BoundStaysBound ==
  ASSUME "manualBind" \notin Environment
  PROVE  Spec => NeverRetargeted
<1> DEFINE Kept == \A a \in Agents :
       agent[a].cd # None /\ agent'[a].cd # None => agent'[a].cd = agent[a].cd
<1>1. Init => ClaimInv /\ BoundIsLabelled
  <2>1. Init => BoundIsLabelled
    BY DEF Init, NewAgent, BoundIsLabelled
  <2> QED
    BY <2>1, ClaimInit
<1>2. ClaimInv /\ BoundIsLabelled /\ [Next]_vars => ClaimInv' /\ BoundIsLabelled'
  BY ClaimStep, BoundStep
<1>3. ClaimInv /\ BoundIsLabelled /\ [Next]_vars => [Kept]_agent
  BY BoundStep
<1> HIDE DEF Kept
<1>4. Spec => [][Kept]_agent
  BY <1>1, <1>2, <1>3, PTL DEF Spec
<1> QED
  BY <1>4 DEF NeverRetargeted, Kept

=============================================================================
