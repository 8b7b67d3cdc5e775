---------------------------- MODULE HandoverProofs ----------------------------
(***************************************************************************)
(* Theorems about the deletion of Machines: the delete hook outlives the   *)
(* reservation, and a Machine that has gone leaves no Agent behind.  They  *)
(* hold where every call is answered and no process starts again: then the *)
(* claim of an Agent that is not recorded yet is in the hands of a running *)
(* Reconcile call, and no other call looks at the AgentMachine before it   *)
(* is recorded.                                                            *)
(***************************************************************************)
EXTENDS ProviderIDProofs

\* Every call is answered, caches are prompt, and no process starts again; names
\* do not repeat, and no AgentMachine is paused (the deletion of a paused one keeps
\* the Agent on purpose).
Undisturbed ==
  /\ UniqueNames
  /\ \A kind \in {"stale", "apiError", "lostReply", "crash", "restore", "pause"} :
       kind \notin Environment

-----------------------------------------------------------------------------
(* Reservations are known to whoever may end them *)

\* The Reconcile call of an AgentMachine refers to the Agent that carries its name.
CallsHold ==
  \A c \in Controllers : worker[c].pc # "idle" =>
    Covers(agent, worker[c].obj.ref, worker[c].m)

\* So does the record in the API server, when there is no such call or it is done.
RecordsHold ==
  \A m \in AgentMachines :
    \/ am[m].st = "gone"
    \/ \E c \in Controllers : worker[c].pc \notin {"idle", "done"} /\ worker[c].m = m
    \/ Covers(agent, am[m].ref, m)

\* No Agent carries the name of AgentMachine m.
Freed(ags, m) == \A a \in Agents : ags[a].label # NameOf[m]

\* The hook is about to be removed only from Machines that hold no Agent.
HooksFree ==
  \A c \in Controllers : worker[c].pc = "removeHook" => Freed(agent, worker[c].m)

\* Nothing is paused.
NonePaused ==
  /\ \A m \in AgentMachines : ~am[m].paused
  /\ \A c \in Controllers : worker[c].pc = "addHook" => ~worker[c].obj.paused

HookInv == RecordInv /\ ClaimInv /\ LabelsExist /\ CallsHold /\ RecordsHold /\ HooksFree /\ NonePaused

\* The calls of a Reconcile that may lead to a label on an Agent.
LabelPcs == {"boot", "find", "claim", "sync", "syncUpdate", "status", "label"}

-----------------------------------------------------------------------------
(* What Reconcile computes, seen from hook and finalizer *)

\* The finalizer is not taken away in r.
FinKept(r, w) == w.obj.fin => r.obj.fin

\* A call on the way to a label goes on, or returns.
OnItsWay(r, w) == r.pc \in LabelPcs \union {"patchConds"} /\ FinKept(r, w)

\* removeHookAndFinalizer: the finalizer goes after the hook.
GivesUp(r, w) == r.pc = "patchConds" \/ (r.pc = "removeHook" /\ FinKept(r, w))

\* handleDeletionHook, not paused.
Hooked(r, w) ==
  \/ r.pc = "boot" /\ w.mach.phase # "waiting" /\ ~HookDone(w) /\ FinKept(r, w)
  \/ r.pc = "unbindGet" /\ w.mach.phase = "waiting" /\ FinKept(r, w)
  \/ w.mach.phase = "waiting" /\ w.obj.ref = None /\ GivesUp(r, w)
  \/ HookDone(w) /\ r.pc = "patchConds"

\* The beginning of Reconcile, not paused.
Opens(r, w) ==
  \/ ~w.obj.owner /\ r.pc \in {"status", "patchConds"} /\ FinKept(r, w)
  \/ /\ w.obj.owner /\ w.mach.st = "gone" /\ r.pc = "patchConds"
     /\ w.obj.st = "deleting" \/ FinKept(r, w)
  \/ /\ w.obj.owner /\ w.mach.st = "live" /\ ~w.mach.hook
     /\ r = [w EXCEPT !.pc = "addHook"]
  \/ /\ w.obj.owner /\ w.mach.st # "gone" /\ (w.mach.st = "live" => w.mach.hook)
     /\ Hooked(r, w)

LEMMA ReturnKeepsFin ==
  ASSUME NEW w \in WorkerState
  PROVE  /\ Return(w).pc = "patchConds" /\ FinKept(Return(w), w)
         /\ Retry(w).pc = "patchConds" /\ FinKept(Retry(w), w)
BY DEF Return, Retry, FinKept, WorkerState

LEMMA RemoveHookGivesUp ==
  ASSUME NEW w \in WorkerState
  PROVE  GivesUp(RemoveHookAndFinalizer(w), w)
<1>1. Return(RemoveFinalizer(w)).pc = "patchConds"
  BY RemoveFinalizerKeeps, ReturnKeepsFin
<1>2. GivesUp([w EXCEPT !.pc = "removeHook"], w)
  BY DEF GivesUp, FinKept, WorkerState
<1> QED
  BY <1>1, <1>2 DEF RemoveHookAndFinalizer, GivesUp

LEMMA UpdateStatusReturns ==
  ASSUME NEW w \in WorkerState, NEW err
  PROVE  /\ UpdateStatus(w, err).pc \in {"status", "patchConds"}
         /\ FinKept(UpdateStatus(w, err), w)
<1> DEFINE o(cs) == [w.obj EXCEPT !.ready = FALSE, !.conds = cs]
           next(pc, cs) == [w EXCEPT !.pc = pc, !.obj = o(cs)]
<1>1. ASSUME NEW cs, NEW pc
      PROVE  next(pc, cs).pc = pc /\ FinKept(next(pc, cs), w)
  <2>1. o(cs).fin = w.obj.fin
    BY DEF WorkerState, AgentMachineObj
  <2> HIDE DEF o
  <2> QED
    BY <2>1 DEF FinKept, WorkerState
<1>2. \E cs : UpdateStatus(w, err) \in {next("status", cs), next("patchConds", cs)}
  <2>1. CASE w.obj.ref # None
    BY <2>1 DEF UpdateStatus
  <2>2. CASE w.obj.ref = None
    <3>1. UpdateStatus(w, err) = next("patchConds", IF err THEN "error" ELSE "noAgent")
      BY <2>2 DEF UpdateStatus, Return, WorkerState
    <3> QED
      BY <3>1
  <2> QED
    BY <2>1, <2>2
<1> HIDE DEF next
<1> QED
  BY <1>1, <1>2

LEMMA MirrorReturns ==
  ASSUME NEW w \in WorkerState, NEW ag, NEW met
  PROVE  /\ MirrorConditions(w, ag, met).pc = "patchConds"
         /\ FinKept(MirrorConditions(w, ag, met), w)
<1> DEFINE all == met /\ ag.state = "installed"
           o == [w.obj EXCEPT !.ready = all,
                              !.conds = IF all THEN "all" ELSE "reserved"]
<1>1. o.fin = w.obj.fin
  BY DEF WorkerState, AgentMachineObj
<1>2. MirrorConditions(w, ag, met) = [w EXCEPT !.pc = "patchConds", !.obj = o]
  BY DEF MirrorConditions, Return, WorkerState
<1> HIDE DEF o
<1> QED
  BY <1>1, <1>2 DEF FinKept, WorkerState

LEMMA HandleDeletionHooked ==
  ASSUME NEW w \in WorkerState, ~w.obj.paused
  PROVE  Hooked(HandleDeletionHook(w), w)
<1> DEFINE x == IF w.obj.st = "live" THEN [w EXCEPT !.obj.fin = TRUE] ELSE w
<1>1. /\ x \in WorkerState /\ FinKept(x, w) /\ x.mach = w.mach
      /\ x.obj.ref = w.obj.ref /\ ~x.obj.paused
  <2>1. /\ [w.obj EXCEPT !.fin = TRUE] \in AgentMachineObj
        /\ [w.obj EXCEPT !.fin = TRUE].fin = TRUE
        /\ [w.obj EXCEPT !.fin = TRUE].ref = w.obj.ref
        /\ [w.obj EXCEPT !.fin = TRUE].paused = w.obj.paused
    BY DEF WorkerState, AgentMachineObj
  <2> QED
    BY <2>1 DEF WorkerState, FinKept
<1>2. HandleDeletionHook(w) =
        IF x.mach.phase = "waiting"
          THEN IF x.obj.ref = None THEN RemoveHookAndFinalizer(x)
                                   ELSE [x EXCEPT !.pc = "unbindGet"]
        ELSE IF HookDone(x)
          THEN Return(RemoveFinalizer(x))
        ELSE [x EXCEPT !.pc = "boot", !.obj.backup = TRUE]
  BY <1>1 DEF HandleDeletionHook
<1> HIDE DEF x
<1>3. GivesUp(RemoveHookAndFinalizer(x), x)
  BY <1>1, RemoveHookGivesUp
<1>4. [x EXCEPT !.pc = "unbindGet"].pc = "unbindGet" /\ FinKept([x EXCEPT !.pc = "unbindGet"], x)
  BY <1>1 DEF FinKept, WorkerState
<1>5. Return(RemoveFinalizer(x)).pc = "patchConds"
  BY <1>1, RemoveFinalizerKeeps, ReturnKeepsFin
<1>6. /\ [x EXCEPT !.pc = "boot", !.obj.backup = TRUE].pc = "boot"
      /\ FinKept([x EXCEPT !.pc = "boot", !.obj.backup = TRUE], x)
  <2>1. [x.obj EXCEPT !.backup = TRUE].fin = x.obj.fin
    BY <1>1 DEF WorkerState, AgentMachineObj
  <2> QED
    BY <1>1, <2>1 DEF FinKept, WorkerState
<1>7. Hooked(HandleDeletionHook(w), x)
  BY <1>2, <1>3, <1>4, <1>5, <1>6 DEF Hooked
<1> QED
  BY <1>1, <1>7 DEF Hooked, GivesUp, FinKept, HookDone

LEMMA BeginOpens ==
  ASSUME NEW w \in WorkerState, ~w.obj.paused
  PROVE  Opens(Begin(w), w)
<1>1. /\ Retry(RemoveFinalizer(w)).pc = "patchConds"
      /\ Retry(w).pc = "patchConds" /\ FinKept(Retry(w), w)
  BY RemoveFinalizerKeeps, ReturnKeepsFin
<1>2. w.mach.st \in {"live", "deleting", "gone"}
  BY DEF WorkerState, MachineObj
<1> QED
  BY <1>1, <1>2, UpdateStatusReturns, HandleDeletionHooked DEF Begin, Opens

LEMMA AfterBootstrapGoesOn ==
  ASSUME NEW w \in WorkerState, NEW ref
  PROVE  OnItsWay(AfterBootstrap(w, ref), w)
<1>1. OnItsWay(UpdateStatus([w EXCEPT !.again = TRUE], TRUE), w)
  <2>1. [w EXCEPT !.again = TRUE] \in WorkerState /\ [w EXCEPT !.again = TRUE].obj = w.obj
    BY DEF WorkerState
  <2> QED
    BY <2>1, UpdateStatusReturns DEF OnItsWay, LabelPcs, FinKept
<1>2. OnItsWay([w EXCEPT !.pc = IF w.obj.ref = None THEN "find" ELSE "sync"], w)
  BY DEF OnItsWay, LabelPcs, FinKept, WorkerState
<1> QED
  BY <1>1, <1>2, ReturnKeepsFin DEF AfterBootstrap, OnItsWay

LEMMA FoundGoesOn ==
  ASSUME NEW w \in WorkerState, NEW a \in Agents
  PROVE  OnItsWay(Found(w, a), w)
<1> DEFINE o == [w.obj EXCEPT !.pid = a, !.ref = a]
<1>1. o.fin = w.obj.fin
  BY DEF WorkerState, AgentMachineObj
<1>2. Found(w, a) = [w EXCEPT !.pc = "sync", !.obj = o, !.cand = {}]
  BY DEF Found
<1> HIDE DEF o
<1> QED
  BY <1>1, <1>2 DEF OnItsWay, LabelPcs, FinKept, WorkerState

-----------------------------------------------------------------------------
(* The steps of a Reconcile call, seen from hook, finalizer and label *)

\* The hook of Machine m is set to b.
HookSet(m, b) == machine' = [machine EXCEPT ![m] = [machine[m] EXCEPT !.hook = b]]

\* A call that goes on from w with r.
HandoverMove(w, r) ==
  \/ /\ w.pc = "addHook" /\ UNCHANGED agent
     /\ \/ (UNCHANGED machine \/ HookSet(w.m, TRUE)) /\ r.pc = "patchConds" /\ FinKept(r, w)
        \/ HookSet(w.m, TRUE) /\ (~w.obj.paused => Hooked(r, w))
  \/ /\ w.pc = "unbindGet" /\ UNCHANGED <<agent, machine>>
     /\ \/ r.pc \in {"unbind", "patchConds"} /\ FinKept(r, w)
        \/ /\ ~agent[w.obj.ref].exists \/ agent[w.obj.ref].label = None
           /\ GivesUp(r, w)
  \/ /\ w.pc = "unbind" /\ UNCHANGED machine
     /\ \/ r.pc = "patchConds" /\ FinKept(r, w)
        \/ agent'[w.obj.ref].label = None /\ GivesUp(r, w)
  \/ /\ w.pc = "removeHook" /\ UNCHANGED agent /\ r.pc = "patchConds"
     /\ (UNCHANGED machine /\ FinKept(r, w)) \/ HookSet(w.m, FALSE)
  \/ w.pc \in LabelPcs /\ OnItsWay(r, w) /\ UNCHANGED machine
  \/ /\ w.pc \in {"patchConds", "patchSpec", "patchStatus"} /\ r.obj = w.obj
     /\ r.pc \in PatchPcs /\ UNCHANGED <<agent, machine>>
  \/ w.pc = "done" /\ r.pc = "idle" /\ UNCHANGED <<agent, machine>>

LEMMA HandoverMoves ==
  ASSUME TypeInv, NEW c \in Controllers, ReconcileStep(c)
  PROVE  HandoverMove(worker[c], worker'[c])
<1> DEFINE w == worker[c]
           r == worker'[c]
<1>w. /\ w \in WorkerState
      /\ w.pc \in RefPcs => w.obj.ref \in Agents
  BY DEF TypeInv, TypeOK, WorkerHasMachine
<1>b. ASSUME NEW x, Become(c, x)
      PROVE  r = x
  BY <1>b DEF Become, TypeInv, TypeOK
<1>r. Retry(w).pc = "patchConds" /\ FinKept(Retry(w), w)
  BY <1>w, ReturnKeepsFin
<1>1. CASE AddHook(c)
  <2> DEFINE y == [w EXCEPT !.mach.hook = TRUE]
  <2>1. ~w.obj.paused => Hooked(HandleDeletionHook(y), w)
    <3>1. /\ [w.mach EXCEPT !.hook = TRUE] \in MachineObj
          /\ [w.mach EXCEPT !.hook = TRUE].phase = w.mach.phase
      BY <1>w DEF WorkerState, MachineObj
    <3>2. y \in WorkerState /\ y.obj = w.obj /\ y.mach.phase = w.mach.phase
      BY <1>w, <3>1 DEF WorkerState
    <3> HIDE DEF y
    <3>3. ~w.obj.paused => Hooked(HandleDeletionHook(y), y)
      BY <3>2, HandleDeletionHooked
    <3> QED
      BY <3>2, <3>3 DEF Hooked, GivesUp, FinKept, HookDone
  <2> HIDE DEF y
  <2>2. /\ w.pc = "addHook" /\ UNCHANGED agent
        /\ \/ HookSet(w.m, TRUE) /\ Become(c, HandleDeletionHook(y))
           \/ (UNCHANGED machine \/ HookSet(w.m, TRUE)) /\ Become(c, Retry(w))
    BY <1>1 DEF AddHook, At, CallMachine, WriteMachine, machineVars, agentVars, HookSet, y
  <2> QED
    BY <1>b, <1>r, <2>1, <2>2 DEF HandoverMove
<1>2. CASE RemoveHook(c)
  <2>1. Return(RemoveFinalizer(w)).pc = "patchConds"
    BY <1>w, RemoveFinalizerKeeps, ReturnKeepsFin
  <2>2. /\ w.pc = "removeHook" /\ UNCHANGED agent
        /\ \/ HookSet(w.m, FALSE) /\ Become(c, Return(RemoveFinalizer(w)))
           \/ (UNCHANGED machine \/ HookSet(w.m, FALSE)) /\ Become(c, Retry(w))
    BY <1>2 DEF RemoveHook, At, CallMachine, WriteMachine, machineVars, agentVars, HookSet
  <2> QED
    BY <1>b, <1>r, <2>1, <2>2 DEF HandoverMove
<1>3. CASE UnbindGet(c)
  <2> DEFINE ag == agent[w.obj.ref]
  <2>1. /\ w.pc = "unbindGet" /\ UNCHANGED <<agent, machine>>
        /\ \/ Become(c, Retry(w))
           \/ ~ag.exists /\ Become(c, RemoveHookAndFinalizer(w))
           \/ Become(c, [w EXCEPT !.pc = "unbind"])
           \/ ag.label = None /\ Become(c, AfterUnbind(w, ag.state))
    BY <1>3 DEF UnbindGet, At, ReadAgent, machineVars, NeedsUnbind
  <2>2. [w EXCEPT !.pc = "unbind"].pc = "unbind" /\ FinKept([w EXCEPT !.pc = "unbind"], w)
    BY <1>w DEF WorkerState, FinKept
  <2>3. GivesUp(RemoveHookAndFinalizer(w), w)
    BY <1>w, RemoveHookGivesUp
  <2> HIDE DEF ag
  <2>4. GivesUp(AfterUnbind(w, ag.state), w)
    BY <1>r, <2>3 DEF AfterUnbind, GivesUp
  <2> QED
    BY <1>b, <1>r, <2>1, <2>2, <2>3, <2>4 DEF HandoverMove, ag
<1>4. CASE Unbind(c)
  <2> DEFINE a == w.obj.ref
  <2>1. w.pc = "unbind" /\ a \in Agents
    BY <1>4, <1>w DEF Unbind, At, RefPcs
  <2>2. /\ UNCHANGED machine
        /\ \/ Become(c, Retry(w))
           \/ WriteAgent(a, Released(agent[a])) /\ Become(c, AfterUnbind(w, agent[a].state))
    BY <1>4 DEF Unbind, CallAgent, machineVars
  <2>3. WriteAgent(a, Released(agent[a])) => agent'[a].label = None
    <3>1. agent \in [Agents -> AgentObj]
      BY DEF TypeInv, TypeOK
    <3>2. Released(agent[a]).label = None
      BY <2>1, <3>1 DEF Released, AgentObj
    <3> QED
      BY <2>1, <3>1, <3>2 DEF WriteAgent
  <2>4. GivesUp(AfterUnbind(w, agent[a].state), w)
    BY <1>r, <1>w, RemoveHookGivesUp DEF AfterUnbind, GivesUp
  <2> QED
    BY <1>b, <1>r, <2>1, <2>2, <2>3, <2>4 DEF HandoverMove
<1>l. ASSUME NEW x, Become(c, x), OnItsWay(x, w), w.pc \in LabelPcs, UNCHANGED machine
      PROVE  HandoverMove(w, r)
  BY <1>b, <1>l DEF HandoverMove
<1>o. /\ OnItsWay(Retry(w), w)
      /\ \A err : OnItsWay(UpdateStatus(w, err), w)
      /\ \A ag, met : OnItsWay(MirrorConditions(w, ag, met), w)
      /\ \A pc \in LabelPcs : OnItsWay([w EXCEPT !.pc = pc], w)
  <2>1. \A err : OnItsWay(UpdateStatus(w, err), w)
    BY <1>w, UpdateStatusReturns DEF OnItsWay, LabelPcs
  <2>2. \A ag, met : OnItsWay(MirrorConditions(w, ag, met), w)
    BY <1>w, MirrorReturns DEF OnItsWay
  <2>3. \A pc \in LabelPcs : OnItsWay([w EXCEPT !.pc = pc], w)
    BY <1>w DEF OnItsWay, FinKept, WorkerState
  <2> QED
    BY <1>r, <2>1, <2>2, <2>3 DEF OnItsWay
<1>5. CASE ProcessBootstrapDataSecret(c)
  <2> DEFINE y == [w EXCEPT !.boot = w.mach.boot]
  <2>1. w.pc \in LabelPcs /\ UNCHANGED machine
    BY <1>5 DEF ProcessBootstrapDataSecret, At, LabelPcs, machineVars
  <2>2. y \in WorkerState /\ y.obj = w.obj
    BY <1>w DEF WorkerState, MachineObj
  <2>3. \E x : Become(c, x) /\ (x = Retry(w) \/ \E ref : x = AfterBootstrap(y, ref))
    BY <1>5 DEF ProcessBootstrapDataSecret, BootstrapProcessed
  <2> HIDE DEF y
  <2>4. \A ref : OnItsWay(AfterBootstrap(y, ref), y)
    BY <2>2, AfterBootstrapGoesOn
  <2>5. \A ref : OnItsWay(AfterBootstrap(y, ref), w)
    BY <2>2, <2>4 DEF OnItsWay, FinKept
  <2> QED
    BY <1>l, <1>o, <2>1, <2>3, <2>5
<1>6. CASE FindAgent(c)
  <2>1. w.pc \in LabelPcs /\ UNCHANGED machine
    BY <1>6 DEF FindAgent, At, LabelPcs, machineVars
  <2>2. LabelledAgents(c, w.m) \subseteq Agents
    BY DEF LabelledAgents
  <2>3. OnItsWay([w EXCEPT !.pc = "claim", !.cand = Candidates(c, w.m)], w)
    BY <1>w DEF OnItsWay, LabelPcs, FinKept, WorkerState
  <2>4. \E x : /\ Become(c, x)
               /\ \/ \E a \in Agents : x = Found(w, a)
                  \/ \E err : x = UpdateStatus(w, err)
                  \/ x = [w EXCEPT !.pc = "claim", !.cand = Candidates(c, w.m)]
    BY <1>6, <2>2 DEF FindAgent
  <2> QED
    BY <1>l, <1>o, <1>w, <2>1, <2>3, <2>4, FoundGoesOn
<1>7. CASE UpdateFoundAgent(c)
  <2>1. w.pc \in LabelPcs /\ w.pc = "claim" /\ UNCHANGED machine
    BY <1>7 DEF UpdateFoundAgent, At, LabelPcs, CallAgent, machineVars
  <2>2. PICK a \in w.cand :
          LET rest == [w EXCEPT !.cand = @ \ {a}] IN
          CallAgent(c, a, Claimed(agent[a], w.m, w.boot), Latest(c, a), Found(w, a),
                    IF rest.cand = {} THEN UpdateStatus(rest, FALSE) ELSE rest)
    BY <1>7 DEF UpdateFoundAgent
  <2> DEFINE rest == [w EXCEPT !.cand = @ \ {a}]
  <2>3. a \in Agents
    BY <1>w DEF WorkerState
  <2>4. rest \in WorkerState /\ rest.obj = w.obj /\ rest.pc = "claim"
    BY <1>w, <2>1 DEF WorkerState
  <2>5. \E x : Become(c, x) /\ x \in {Found(w, a), UpdateStatus(rest, FALSE), rest}
    BY <2>2 DEF CallAgent
  <2> HIDE DEF rest
  <2>6. OnItsWay(UpdateStatus(rest, FALSE), w) /\ OnItsWay(rest, w)
    BY <2>4, UpdateStatusReturns DEF OnItsWay, LabelPcs, FinKept
  <2> QED
    BY <1>l, <1>w, <2>1, <2>3, <2>5, <2>6, FoundGoesOn
<1>8. CASE UpdateAgentIfNeeded(c)
  <2>1. w.pc \in LabelPcs /\ UNCHANGED machine /\ "syncUpdate" \in LabelPcs
    BY <1>8 DEF UpdateAgentIfNeeded, At, LabelPcs, ReadAgent, machineVars
  <2>2. \E x : Become(c, x) /\ (x = [w EXCEPT !.pc = "syncUpdate"] \/ \E err : x = UpdateStatus(w, err))
    BY <1>8 DEF UpdateAgentIfNeeded, ReadAgent
  <2> QED
    BY <1>l, <1>o, <2>1, <2>2
<1>9. CASE UpdateBootstrapData(c)
  <2>1. w.pc \in LabelPcs /\ UNCHANGED machine
    BY <1>9 DEF UpdateBootstrapData, At, LabelPcs, CallAgent, machineVars
  <2>2. \E x : Become(c, x) /\ \E err : x = UpdateStatus(w, err)
    BY <1>9 DEF UpdateBootstrapData, CallAgent
  <2> QED
    BY <1>l, <1>o, <2>1, <2>2
<1>10. CASE UpdateStatusGet(c)
  <2>1. w.pc \in LabelPcs /\ UNCHANGED machine /\ "label" \in LabelPcs
    BY <1>10 DEF UpdateStatusGet, At, LabelPcs, ReadAgent, machineVars
  <2>2. \E x : /\ Become(c, x)
               /\ \/ x = Retry(w) \/ x = [w EXCEPT !.pc = "label"]
                  \/ \E ag, met : x = MirrorConditions(w, ag, met)
    BY <1>10 DEF UpdateStatusGet, ReadAgent
  <2> QED
    BY <1>l, <1>o, <2>1, <2>2
<1>11. CASE EnsureAgentLabeled(c)
  <2>1. w.pc \in LabelPcs /\ UNCHANGED machine
    BY <1>11 DEF EnsureAgentLabeled, At, LabelPcs, CallAgent, machineVars
  <2>2. \E x : Become(c, x) /\ (x = Retry(w) \/ \E ag, met : x = MirrorConditions(w, ag, met))
    BY <1>11 DEF EnsureAgentLabeled, CallAgent
  <2> QED
    BY <1>l, <1>o, <2>1, <2>2
<1>12. CASE PatchConditions(c) \/ PatchSpec(c) \/ PatchStatus(c)
  <2> DEFINE next(pc) == [w EXCEPT !.pc = pc]
  <2>1. /\ w.pc \in {"patchConds", "patchSpec", "patchStatus"} /\ UNCHANGED <<agent, machine>>
        /\ \E pc \in PatchPcs : Become(c, next(pc))
    BY <1>12 DEF PatchConditions, PatchSpec, PatchStatus, CallPatch, At, PatchPcs,
       machineVars, agentVars
  <2>2. \A pc : next(pc).pc = pc /\ next(pc).obj = w.obj
    BY <1>w DEF WorkerState
  <2> HIDE DEF next
  <2> QED
    BY <1>b, <2>1, <2>2 DEF HandoverMove
<1>13. CASE Finish(c)
  <2>1. w.pc = "done" /\ Become(c, IdleWorker) /\ UNCHANGED <<agent, machine>>
    BY <1>13 DEF Finish, At
  <2> QED
    BY <1>b, <2>1, IdleIsIdle DEF HandoverMove
<1> QED
  BY <1>1, <1>2, <1>3, <1>4, <1>5, <1>6, <1>7, <1>8, <1>9, <1>10, <1>11, <1>12, <1>13
     DEF ReconcileStep

-----------------------------------------------------------------------------
(* The steps of all others *)

\* Someone else writes v where AgentMachine s was.
RecordMoved(s, v) ==
  /\ s.st # "gone"
  /\ \/ v = GoneAgentMachine /\ s.st = "live" /\ ~s.fin
     \/ /\ v.ref = s.ref /\ v.fin = s.fin /\ v.paused = s.paused
        /\ s.owner => v.owner
        /\ v.st = s.st \/ (s.st = "live" /\ v.st = "deleting")

\* Someone else writes v where Machine x was, the owner of AgentMachine s.
MachineMoved(s, x, v) ==
  \/ v.st = x.st /\ v.hook = x.hook /\ v.phase = x.phase
  \/ /\ x.st = "live" /\ (x.hook \/ "earlyDelete" \in Environment)
     /\ v.st = "deleting" /\ v.hook = x.hook /\ v.phase = x.phase
  \/ /\ x.st = "deleting" /\ x.hook /\ x.phase = "none"
     /\ v.st = "deleting" /\ v.hook = x.hook /\ v.phase = "waiting"
  \/ /\ x.st = "deleting" /\ ~x.hook /\ s.st # "live"
     /\ v.st = "deleting" /\ v.hook = x.hook /\ v.phase = "passed"
  \/ /\ x.st = "deleting" /\ x.phase = "passed" /\ s.st = "gone" /\ v = GoneMachine
  \/ "forceRemove" \in Environment /\ v = GoneMachine

RecordWritten(n, v) ==
  am' = [am EXCEPT ![n] = v] /\ RecordMoved(am[n], v) /\ UNCHANGED <<machine, agent>>
MachineWritten(n, v) ==
  machine' = [machine EXCEPT ![n] = v] /\ MachineMoved(am[n], machine[n], v)
    /\ UNCHANGED <<am, agent>>

OthersMove ==
  /\ UNCHANGED worker
  /\ \/ UNCHANGED <<am, machine>> /\ (OthersWrite \/ UNCHANGED agent)
     \/ \E n \in AgentMachines, v \in AgentMachineObj : RecordWritten(n, v)
     \/ \E n \in AgentMachines, v \in MachineObj : MachineWritten(n, v)

LEMMA CapiAndUsersMove ==
  ASSUME "pause" \notin Environment, TypeInv,
         NEW m \in AgentMachines, CapiProgress(m) \/ Users(m)
  PROVE  OthersMove
<1>1. am[m] \in AgentMachineObj /\ machine[m] \in MachineObj
  BY DEF TypeInv, TypeOK
<1>2. ASSUME NEW v \in AgentMachineObj, ChangeAgentMachine(m, v), RecordMoved(am[m], v)
      PROVE  OthersMove
  BY <1>2 DEF ChangeAgentMachine, OthersMove, RecordWritten, machineVars, agentVars
<1>3. ASSUME NEW v \in MachineObj, ChangeMachine(m, v), MachineMoved(am[m], machine[m], v)
      PROVE  OthersMove
  BY <1>3 DEF ChangeMachine, WriteMachine, OthersMove, MachineWritten, amVars, agentVars
<1>4. CASE CapiSetOwner(m)
  <2>1. [am[m] EXCEPT !.owner = TRUE] \in AgentMachineObj
    BY <1>1 DEF AgentMachineObj
  <2>2. am[m].st # "gone" => RecordMoved(am[m], [am[m] EXCEPT !.owner = TRUE])
    BY <1>1 DEF AgentMachineObj, RecordMoved
  <2> QED
    BY <1>2, <1>4, <2>1, <2>2 DEF CapiSetOwner
<1>5. CASE CapiDeleteInfrastructure(m) \/ DeleteAgentMachine(m)
  <2> DEFINE v == [am[m] EXCEPT !.st = "deleting"]
  <2>1. /\ v \in AgentMachineObj /\ v.st = "deleting" /\ v.fin = am[m].fin
        /\ v.ref = am[m].ref /\ v.paused = am[m].paused /\ v.owner = am[m].owner
    BY <1>1 DEF AgentMachineObj
  <2>2. am[m].st = "live" /\ ChangeAgentMachine(m, Collect(v))
    BY <1>5 DEF CapiDeleteInfrastructure, DeleteAgentMachine
  <2> HIDE DEF v
  <2>3. Collect(v) \in AgentMachineObj /\ RecordMoved(am[m], Collect(v))
    BY <2>1, <2>2, NewObjectTypes DEF Collect, RecordMoved
  <2> QED
    BY <1>2, <2>2, <2>3
<1>6. CASE CapiWaitForHook(m)
  <2> DEFINE v == [machine[m] EXCEPT !.phase = "waiting"]
  <2>1. v \in MachineObj /\ v.st = machine[m].st /\ v.hook = machine[m].hook /\ v.phase = "waiting"
    BY <1>1 DEF MachineObj
  <2>2. ChangeMachine(m, v) /\ machine[m].st = "deleting" /\ machine[m].hook /\ machine[m].phase = "none"
    BY <1>6 DEF CapiWaitForHook
  <2> HIDE DEF v
  <2> QED
    BY <1>3, <2>1, <2>2 DEF MachineMoved
<1>7. CASE CapiHookPassed(m)
  <2> DEFINE v == [machine[m] EXCEPT !.phase = "passed"]
  <2>1. v \in MachineObj /\ v.st = machine[m].st /\ v.hook = machine[m].hook /\ v.phase = "passed"
    BY <1>1 DEF MachineObj
  <2>2. ChangeMachine(m, v) /\ machine[m].st = "deleting" /\ ~machine[m].hook /\ am[m].st # "live"
    BY <1>7 DEF CapiHookPassed
  <2> HIDE DEF v
  <2> QED
    BY <1>3, <2>1, <2>2 DEF MachineMoved
<1>8. CASE CapiMachineGone(m) \/ ForceRemoveMachine(m)
  <2>1. GoneMachine \in MachineObj
    BY NewObjectTypes
  <2>2. ChangeMachine(m, GoneMachine) /\ MachineMoved(am[m], machine[m], GoneMachine)
    BY <1>8 DEF CapiMachineGone, ForceRemoveMachine, Fault, MachineMoved
  <2> QED
    BY <1>3, <2>1, <2>2
<1>9. CASE DeleteMachine(m)
  <2> DEFINE v == [machine[m] EXCEPT !.st = "deleting"]
  <2>1. v \in MachineObj /\ v.st = "deleting" /\ v.hook = machine[m].hook /\ v.phase = machine[m].phase
    BY <1>1 DEF MachineObj
  <2>2. /\ ChangeMachine(m, v) /\ machine[m].st = "live"
        /\ machine[m].hook \/ "earlyDelete" \in Environment
    BY <1>9 DEF DeleteMachine
  <2> HIDE DEF v
  <2> QED
    BY <1>3, <2>1, <2>2 DEF MachineMoved
<1>10. ASSUME NEW b \in Boots, RotateBootstrapData(m, b)
       PROVE  OthersMove
  <2> DEFINE v == [machine[m] EXCEPT !.boot = b]
  <2>1. /\ v \in MachineObj /\ v.st = machine[m].st /\ v.hook = machine[m].hook
        /\ v.phase = machine[m].phase
    BY <1>1 DEF MachineObj, BootOrNone
  <2>2. ChangeMachine(m, v)
    BY <1>10 DEF RotateBootstrapData
  <2> HIDE DEF v
  <2> QED
    BY <1>3, <2>1, <2>2 DEF MachineMoved
<1> QED
  BY <1>4, <1>5, <1>6, <1>7, <1>8, <1>9, <1>10 DEF CapiProgress, Users, Pause, Fault

\* Without failures and pauses every step is of one of three kinds.
LEMMA MoveKinds ==
  ASSUME Undisturbed, TypeInv, [Next]_vars
  PROVE  \/ \E c \in Controllers : ReconcileStep(c)
         \/ \E c \in Controllers, m \in AgentMachines : Reconcile(c, m)
         \/ OthersMove
<1>1. CASE UNCHANGED vars
  BY <1>1 DEF vars, amVars, machineVars, agentVars, OthersMove
<1>2. ASSUME NEW c \in Controllers, NEW a \in Agents, DeliverAgent(c, a) \/ RefreshList(c, a)
      PROVE  OthersMove
  BY <1>2 DEF DeliverAgent, RefreshList, OthersMove, amVars, machineVars
<1>3. ASSUME NEW m \in AgentMachines, Deliver(m) \/ Requeue(m) \/ Resync(m)
      PROVE  OthersMove
  BY <1>3 DEF Deliver, DeliverAgentMachine, DeliverMachine, Requeue, Resync, OthersMove,
     amVars, machineVars, agentVars
<1>4. ASSUME NEW n \in Namespaces, ClusterProgress(n)
      PROVE  OthersMove
  BY <1>4 DEF ClusterProgress, OthersMove, amVars, machineVars, agentVars
<1>5. ASSUME NEW a \in Agents, AgentProgress(a) \/ AgentTrouble(a)
      PROVE  OthersMove
  <2>1. UNCHANGED <<am, machine, worker>>
    BY <1>5 DEF AgentProgress, AgentTrouble, AgentBecomesValid, HostProgress,
       AgentLosesValidity, ManualBind, DeleteAgent, ChangeAgent, amVars, machineVars
  <2> QED
    BY <1>5, <2>1, HostsWrite DEF OthersMove
<1>6. ~\E cs \in SUBSET Controllers : Failure(cs)
  BY DEF Undisturbed, Failure, Crash, RestoreHub, Fault
<1>7. ASSUME NEW m \in AgentMachines, CapiProgress(m) \/ Users(m)
      PROVE  OthersMove
  BY <1>7, CapiAndUsersMove DEF Undisturbed
<1> QED
  BY <1>1, <1>2, <1>3, <1>4, <1>5, <1>6, <1>7 DEF Next, Progress

\* A step of a Reconcile call neither pauses an AgentMachine nor changes its owner.
LEMMA CallKeepsOwner ==
  ASSUME TypeInv, NEW c \in Controllers, ReconcileStep(c), NEW m \in AgentMachines
  PROVE  am'[m] = GoneAgentMachine \/ (am'[m].paused = am[m].paused /\ am'[m].owner = am[m].owner)
<1>t. am \in [AgentMachines -> AgentMachineObj]
  BY DEF TypeInv, TypeOK
<1> DEFINE w == worker[c]
           s == am[w.m]
           v1 == [s EXCEPT !.conds = w.obj.conds]
           v2 == MergeSpec(s, w.obj, w.before)
           v3 == MergeStatus(s, w.obj, w.before)
<1>1. w.m \in AgentMachines /\ s \in AgentMachineObj
  BY <1>t, RecordMoves
<1> DEFINE Moved == \/ UNCHANGED am
                    \/ \E v \in {v1, Collect(v2), v3} : am' = [am EXCEPT ![w.m] = v]
<1>2. Moved
  <2>1. CASE PatchConditions(c)
    BY <2>1 DEF PatchConditions, CallPatch, amVars
  <2>2. CASE PatchSpec(c)
    BY <2>2 DEF PatchSpec, CallPatch, amVars
  <2>3. CASE PatchStatus(c)
    BY <2>3 DEF PatchStatus, CallPatch, amVars
  <2>4. CASE AddHook(c) \/ RemoveHook(c) \/ UnbindGet(c) \/ Unbind(c) \/ Finish(c)
    <3> HIDE DEF v1, v2, v3
    <3> QED
      BY <2>4 DEF AddHook, UnbindGet, Unbind, RemoveHook, Finish, CallMachine,
         CallAgent, ReadAgent, amVars
  <2>5. CASE ProcessBootstrapDataSecret(c) \/ FindAgent(c) \/ UpdateFoundAgent(c)
    <3> HIDE DEF v1, v2, v3
    <3> QED
      BY <2>5 DEF ProcessBootstrapDataSecret, FindAgent, UpdateFoundAgent, CallAgent, amVars
  <2>6. CASE \/ UpdateAgentIfNeeded(c) \/ UpdateBootstrapData(c) \/ UpdateStatusGet(c)
             \/ EnsureAgentLabeled(c)
    <3> HIDE DEF v1, v2, v3
    <3> QED
      BY <2>6 DEF UpdateAgentIfNeeded, UpdateBootstrapData, UpdateStatusGet, EnsureAgentLabeled,
         CallAgent, ReadAgent, amVars
  <2> HIDE DEF Moved
  <2> QED
    BY <2>1, <2>2, <2>3, <2>4, <2>5, <2>6 DEF ReconcileStep
<1>3. \A v \in {v1, v2, v3} : v.paused = s.paused /\ v.owner = s.owner
  <2>1. v1.paused = s.paused /\ v1.owner = s.owner
    BY <1>1 DEF AgentMachineObj
  <2>2. v2.paused = s.paused /\ v2.owner = s.owner
    BY <1>1 DEF MergeSpec, AgentMachineObj
  <2>3. v3.paused = s.paused /\ v3.owner = s.owner
    BY <1>1 DEF MergeStatus, AgentMachineObj
  <2> HIDE DEF v1, v2, v3
  <2> QED
    BY <2>1, <2>2, <2>3
<1> HIDE DEF v1, v2, v3
<1>4. \A v \in {v1, Collect(v2), v3} :
        v = GoneAgentMachine \/ (v.paused = s.paused /\ v.owner = s.owner)
  BY <1>3 DEF Collect
<1> HIDE DEF w
<1> QED
  BY <1>t, <1>1, <1>2, <1>4

-----------------------------------------------------------------------------
(* A reservation is known to the call that made it, then to the record *)

\* The worker with which Reconcile begins on AgentMachine m.
Opening(m) ==
  [IdleWorker EXCEPT !.m = m, !.obj = amCache[m], !.before = amCache[m],
                     !.mach = machineCache[m]]

LEMMA ReconcileOpens ==
  ASSUME "stale" \notin Environment, TypeInv, NonePaused,
         NEW c \in Controllers, NEW m \in AgentMachines, Reconcile(c, m)
  PROVE  /\ UNCHANGED <<am, machine, agent>> /\ amCache = am /\ Settled
         /\ m \in Watched(c) /\ worker[c].pc = "idle"
         /\ \A d \in Controllers \ {c} : worker'[d] = worker[d]
         /\ \/ worker'[c] = worker[c]
            \/ /\ am[m].st # "gone" /\ Begins(c, m, worker'[c])
               /\ Opening(m) \in WorkerState
               /\ Opening(m).obj = am[m] /\ Opening(m).mach = machineCache[m]
               /\ Opens(worker'[c], Opening(m))
<1>1. /\ Settled /\ m \in Watched(c) /\ worker[c].pc = "idle"
      /\ \/ UNCHANGED worker
         \/ amCache[m].st # "gone" /\ Become(c, Begin(Opening(m)))
  BY DEF Reconcile, At, Prompt, Opening
<1>2. /\ UNCHANGED <<am, machine, agent>>
      /\ \A d \in Controllers \ {c} : worker'[d] = worker[d]
      /\ worker'[c] = worker[c] \/ Begins(c, m, worker'[c])
  BY ReconcileBegins
<1>3. /\ Opening(m) \in WorkerState
      /\ Opening(m).obj = amCache[m] /\ Opening(m).mach = machineCache[m]
  <2>1. amCache[m] \in AgentMachineObj /\ machineCache[m] \in MachineObj
    BY DEF TypeInv, TypeOK
  <2>2. IdleWorker \in WorkerState
    BY NewObjectTypes
  <2> QED
    BY <2>1, <2>2 DEF Opening, WorkerState
<1>4. amCache = am
  BY <1>1 DEF Settled
<1>5. Opens(Begin(Opening(m)), Opening(m))
  BY <1>3, <1>4, BeginOpens DEF NonePaused
<1>6. Become(c, Begin(Opening(m))) => worker'[c] = Begin(Opening(m))
  BY DEF Become, TypeInv, TypeOK
<1> QED
  BY <1>1, <1>2, <1>3, <1>4, <1>5, <1>6

\* A step of a Reconcile call puts no name on an Agent but that of its AgentMachine.
LEMMA OwnLabels ==
  ASSUME UniqueNames, TypeInv, NEW c \in Controllers, ReconcileStep(c),
         NEW n \in AgentMachines, n # worker[c].m, NEW a \in Agents, agent'[a].label = NameOf[n]
  PROVE  agent[a].label = NameOf[n]
<1>1. NameOf[n] # None
  BY ConstantTypes, NoneIsNoValue
<1>2. worker[c].m \in AgentMachines
  BY RecordMoves
<1>3. NameOf[worker[c].m] # NameOf[n]
  BY <1>2 DEF UniqueNames
<1> QED
  BY <1>1, <1>3, NewLabels

\* The Agent a call refers to is the one that carries its AgentMachine's name.
LEMMA CallHolds ==
  ASSUME UniqueNames, "lostReply" \notin Environment, TypeInv, CallsAgree, CallsHold,
         NEW c \in Controllers, ReconcileStep(c)
  PROVE  /\ worker'[c].pc = "idle" \/ worker'[c].m = worker[c].m
         /\ worker'[c].pc = "idle" \/ Covers(agent', worker'[c].obj.ref, worker[c].m)
<1> DEFINE w == worker[c]
           r == worker'[c]
           m == worker[c].m
<1>w. w \in WorkerState /\ w.pc # "idle" /\ m \in AgentMachines /\ RecordMove(c, w, r)
  BY RecordMoves DEF TypeInv, TypeOK
<1>1. Covers(agent, w.obj.ref, m)
  BY <1>w DEF CallsHold
<1>n. NameOf[m] # None
  BY <1>w, ConstantTypes, NoneIsNoValue
<1>2. CASE GoesOn(c, w, r)
  <2>1. r.m = m /\ r.obj.ref = w.obj.ref
    BY <1>2 DEF GoesOn, KeepsRecord
  <2>2. ASSUME NEW a \in Agents, agent'[a].label = NameOf[m]
        PROVE  a = r.obj.ref
    <3>1. CASE agent[a].label = NameOf[m]
      BY <1>1, <2>1, <3>1 DEF Covers
    <3>2. CASE agent[a].label # NameOf[m]
      <4>1. (w.pc = "label" /\ a = w.obj.ref) \/ r = Found(w, a)
        BY <1>n, <2>2, <3>2, NewLabels
      <4>2. r = Found(w, a) => r.obj.ref = a
        BY <1>w, FoundRecord
      <4> QED
        BY <2>1, <4>1, <4>2
    <3> QED
      BY <3>1, <3>2
  <2> QED
    BY <2>1, <2>2 DEF Covers
<1>3. ASSUME NEW b \in Agents, r = Found(w, b), w.pc \in {"find", "claim"},
             UNCHANGED agent \/ WriteAgent(b, Claimed(agent[b], m, w.boot))
      PROVE  r.m = m /\ Covers(agent', r.obj.ref, m)
  <2>1. r.m = m /\ r.obj.ref = b
    BY <1>3, <1>w, FoundRecord
  <2>2. w.obj.ref = None
    BY <1>3, <1>w DEF CallsAgree
  <2>3. \A a \in Agents : agent[a].label # NameOf[m]
    BY <1>1, <2>2, NoneIsNoValue DEF Covers
  <2>4. \A a \in Agents \ {b} : agent'[a] = agent[a]
    BY <1>3 DEF WriteAgent, TypeInv, TypeOK
  <2> QED
    BY <2>1, <2>3, <2>4 DEF Covers
<1>4. CASE r = IdleWorker
  BY <1>4, IdleIsIdle
<1> HIDE DEF r, w, m
<1> QED
  BY <1>w, <1>2, <1>3, <1>4 DEF RecordMove, r, w, m

\* The status is patched if no call fails: the record has the reference of the call.
LEMMA StatusIsPatched ==
  ASSUME "apiError" \notin Environment, RecordInv, NEW c \in Controllers, ReconcileStep(c),
         worker[c].pc = "patchStatus", am[worker[c].m].st # "gone"
  PROVE  am'[worker[c].m].ref = worker[c].obj.ref
<1> DEFINE w == worker[c]
           s == am[w.m]
<1>1. /\ w \in WorkerState /\ w.m \in AgentMachines /\ s \in AgentMachineObj
      /\ am \in [AgentMachines -> AgentMachineObj]
  BY RecordMoves DEF RecordInv, TypeInv, TypeOK
<1>2. PatchStatus(c)
  BY DEF ReconcileStep, AddHook, UnbindGet, Unbind, RemoveHook,
     ProcessBootstrapDataSecret, FindAgent, UpdateFoundAgent, UpdateAgentIfNeeded,
     UpdateBootstrapData, UpdateStatusGet, EnsureAgentLabeled, PatchConditions,
     PatchSpec, Finish, At
<1>3. \/ am' = [am EXCEPT ![w.m] = MergeStatus(s, w.obj, w.before)]
      \/ UNCHANGED am /\ ~StatusChanged(w)
  BY <1>2 DEF PatchStatus, CallPatch, Outcome, Fault
<1>4. s.ref = w.before.ref
  BY DEF RecordInv, CallsOK, CallOK
<1>5. MergeStatus(s, w.obj, w.before).ref = w.obj.ref
  BY <1>1, <1>4 DEF MergeStatus, AgentMachineObj
<1> HIDE DEF w, s
<1>6. am'[w.m].ref = w.obj.ref
  BY <1>1, <1>3, <1>4, <1>5 DEF StatusChanged, s
<1> QED
  BY <1>6 DEF w

\* The end of handleDeletionHook is reached only when no Agent carries the name.
LEMMA UnbindFrees ==
  ASSUME Undisturbed, HookInv, NEW c \in Controllers, ReconcileStep(c),
         worker[c].pc \in {"unbindGet", "unbind"},
         worker'[c].pc = "removeHook" \/ ~FinKept(worker'[c], worker[c])
  PROVE  Freed(agent', worker[c].m)
<1> DEFINE w == worker[c]
           r == worker'[c]
           m == worker[c].m
<1>t. TypeInv /\ CallsAgree
  BY DEF HookInv, RecordInv
<1>w. /\ w.pc # "idle" /\ m \in AgentMachines
      /\ w.obj.ref \in Agents
  BY <1>t, RecordMoves DEF TypeInv, WorkerHasMachine, RefPcs
<1>h. HandoverMove(w, r)
  BY <1>t, HandoverMoves
<1>n. NameOf[m] # None
  BY <1>w, ConstantTypes, NoneIsNoValue
<1>1. CASE w.pc = "unbindGet"
  <2>1. UNCHANGED agent
    BY <1>1, <1>h DEF HandoverMove, LabelPcs
  <2>2. ~agent[w.obj.ref].exists \/ agent[w.obj.ref].label = None
    BY <1>1, <1>h DEF HandoverMove, LabelPcs
  <2>3. agent[w.obj.ref].label = None
    BY <1>w, <2>2 DEF HookInv, LabelsExist
  <2>4. Covers(agent, w.obj.ref, m)
    BY <1>w DEF HookInv, CallsHold
  <2> QED
    BY <1>n, <2>1, <2>3, <2>4 DEF Covers, Freed
<1>2. CASE w.pc = "unbind"
  <2>1. agent'[w.obj.ref].label = None
    BY <1>2, <1>h DEF HandoverMove, LabelPcs
  <2>2. r.obj.ref = w.obj.ref /\ r.pc # "idle"
    BY <1>2, <1>t, RecordMoves DEF RecordMove, GoesOn, KeepsRecord
  <2>3. Covers(agent', r.obj.ref, m)
    BY <1>t, <2>2, CallHolds DEF HookInv, Undisturbed
  <2> QED
    BY <1>n, <2>1, <2>2, <2>3 DEF Covers, Freed
<1> QED
  BY <1>1, <1>2

\* A call is about to remove the hook only when no Agent carries the name.
LEMMA RemovesFree ==
  ASSUME Undisturbed, HookInv, NEW c \in Controllers, ReconcileStep(c),
         worker'[c].pc = "removeHook"
  PROVE  Freed(agent', worker[c].m)
<1> DEFINE w == worker[c]
           r == worker'[c]
           m == worker[c].m
<1>t. TypeInv
  BY DEF HookInv, RecordInv
<1>w. w.pc # "idle" /\ m \in AgentMachines
  BY <1>t, RecordMoves
<1>h. HandoverMove(w, r)
  BY <1>t, HandoverMoves
<1>1. CASE w.pc = "addHook"
  <2>1. Covers(agent, w.obj.ref, m) /\ ~w.obj.paused
    BY <1>1, <1>w DEF HookInv, CallsHold, NonePaused
  <2>2. w.obj.ref = None /\ UNCHANGED agent
    BY <1>1, <1>h, <2>1 DEF HandoverMove, Hooked, LabelPcs
  <2> QED
    BY <2>1, <2>2, NoneIsNoValue DEF Covers, Freed
<1>2. CASE w.pc \in {"unbindGet", "unbind"}
  BY <1>2, UnbindFrees
<1> QED
  BY <1>1, <1>2, <1>h DEF HandoverMove, OnItsWay, LabelPcs, PatchPcs

LEMMA CallKeepsHook ==
  ASSUME Undisturbed, HookInv, NEW c \in Controllers, ReconcileStep(c)
  PROVE  CallsHold' /\ RecordsHold' /\ HooksFree'
<1> DEFINE w == worker[c]
           r == worker'[c]
           m == worker[c].m
<1>t. /\ TypeInv /\ CallsWatch /\ CallsAgree /\ RecordInv /\ CallsHold /\ HooksFree
      /\ UniqueNames /\ "lostReply" \notin Environment /\ "apiError" \notin Environment
      /\ am \in [AgentMachines -> AgentMachineObj]
      /\ \A d \in Controllers : worker[d].pc # "idle" => worker[d].m \in AgentMachines
  BY DEF HookInv, RecordInv, Undisturbed, TypeInv, TypeOK, WorkerHasMachine
<1>w. /\ w.pc # "idle" /\ m \in AgentMachines /\ RecordMove(c, w, r)
      /\ \A d \in Controllers \ {c} : worker'[d] = worker[d] /\
           (worker[d].pc # "idle" => worker[d].m # m)
  BY <1>t, RecordMoves, OneCallPerMachine
<1>1. /\ r.pc = "idle" \/ r.m = m
      /\ r.pc = "idle" \/ Covers(agent', r.obj.ref, m)
  BY <1>t, CallHolds
<1>2. \A n \in AgentMachines \ {m}, a \in Agents :
        agent'[a].label = NameOf[n] => agent[a].label = NameOf[n]
  BY <1>t, OwnLabels
<1>3. CallsHold'
  <2>1. ASSUME NEW d \in Controllers, worker'[d].pc # "idle"
        PROVE  Covers(agent', worker'[d].obj.ref, worker'[d].m)
    <3>1. CASE d = c
      BY <1>1, <2>1, <3>1
    <3>2. CASE d # c
      <4>1. worker'[d] = worker[d] /\ worker[d].m \in AgentMachines \ {m}
        BY <1>t, <1>w, <2>1, <3>2
      <4>2. Covers(agent, worker[d].obj.ref, worker[d].m)
        BY <1>t, <2>1, <4>1 DEF CallsHold
      <4> QED
        BY <1>2, <4>1, <4>2 DEF Covers
    <3> QED
      BY <3>1, <3>2
  <2> QED
    BY <2>1 DEF CallsHold, Covers
<1>4. HooksFree'
  <2>1. ASSUME NEW d \in Controllers, worker'[d].pc = "removeHook"
        PROVE  Freed(agent', worker'[d].m)
    <3>1. CASE d = c
      BY <1>1, <2>1, <3>1, RemovesFree
    <3>2. CASE d # c
      <4>1. worker'[d] = worker[d] /\ worker[d].m \in AgentMachines \ {m}
        BY <1>t, <1>w, <2>1, <3>2
      <4>2. Freed(agent, worker[d].m)
        BY <1>t, <2>1, <4>1 DEF HooksFree
      <4> QED
        BY <1>2, <4>1, <4>2 DEF Freed
    <3> QED
      BY <3>1, <3>2
  <2> QED
    BY <2>1 DEF HooksFree, Freed
<1>5. ASSUME NEW n \in AgentMachines
      PROVE  \/ am'[n].st = "gone"
             \/ \E d \in Controllers : worker'[d].pc \notin {"idle", "done"} /\ worker'[d].m = n
             \/ Covers(agent', am'[n].ref, n)
  <2>1. \/ am[n].st = "gone"
        \/ \E d \in Controllers : worker[d].pc \notin {"idle", "done"} /\ worker[d].m = n
        \/ Covers(agent, am[n].ref, n)
    BY DEF HookInv, RecordsHold
  <2>2. CASE n # m
    <3>1. am'[n] = am[n]
      BY <1>t, <2>2, RecordWrites
    <3>2. Covers(agent, am[n].ref, n) => Covers(agent', am[n].ref, n)
      BY <1>2, <2>2 DEF Covers
    <3> QED
      BY <1>w, <2>1, <2>2, <3>1, <3>2
  <2>3. CASE n = m /\ r.pc \notin {"idle", "done"}
    BY <1>1, <2>3
  <2>4. CASE n = m /\ r.pc = "done"
    <3>1. w.pc = "patchStatus" /\ r.obj.ref = w.obj.ref
      <4>1. w \in WorkerState
        BY <1>t DEF TypeInv, TypeOK
      <4> QED
        BY <1>w, <2>4, <4>1, IdleIsIdle, FoundRecord DEF RecordMove, GoesOn, KeepsRecord
    <3>2. am[m].st # "gone" => am'[m].ref = w.obj.ref
      BY <1>t, <3>1, StatusIsPatched
    <3>3. am[m].st = "gone" => am'[m].st = "gone"
      BY <1>t, RecordWrites
    <3> QED
      BY <1>1, <2>4, <3>1, <3>2, <3>3
  <2>5. CASE n = m /\ r.pc = "idle"
    <3>1. w.pc = "done"
      <4>1. w \in WorkerState
        BY <1>t DEF TypeInv, TypeOK
      <4> QED
        BY <1>w, <2>5, <4>1, FoundRecord DEF RecordMove, GoesOn
    <3>2. UNCHANGED am
      BY <1>t, <3>1, RecordWrites DEF Patched
    <3>3. UNCHANGED agent
      BY <1>t, <3>1, HandoverMoves DEF HandoverMove, LabelPcs
    <3>4. am[m].st = "gone" \/ Covers(agent, am[m].ref, m)
      BY <1>w, <2>1, <2>5, <3>1
    <3> QED
      BY <2>5, <3>2, <3>3, <3>4
  <2> QED
    BY <2>2, <2>3, <2>4, <2>5
<1>6. RecordsHold'
  BY <1>5 DEF RecordsHold, Covers
<1> QED
  BY <1>3, <1>4, <1>6
LEMMA NotPausedStep ==
  ASSUME Undisturbed, HookInv, [Next]_vars
  PROVE  NonePaused'
<1>t. /\ TypeInv /\ NonePaused /\ "stale" \notin Environment
      /\ am \in [AgentMachines -> AgentMachineObj]
  BY DEF HookInv, RecordInv, Undisturbed, TypeInv, TypeOK
<1>k. \/ \E c \in Controllers : ReconcileStep(c)
      \/ \E c \in Controllers, m \in AgentMachines : Reconcile(c, m)
      \/ OthersMove
  BY <1>t, MoveKinds
<1>1. ASSUME NEW m \in AgentMachines
      PROVE  ~am'[m].paused
  <2>0. ~am[m].paused /\ ~GoneAgentMachine.paused
    BY <1>t DEF NonePaused, GoneAgentMachine, NewAgentMachine
  <2>1. CASE UNCHANGED am
    BY <2>0, <2>1
  <2>2. ASSUME NEW c \in Controllers, ReconcileStep(c)
        PROVE  ~am'[m].paused
    BY <1>t, <2>0, <2>2, CallKeepsOwner
  <2>3. ASSUME NEW n \in AgentMachines, NEW v, RecordWritten(n, v)
        PROVE  ~am'[m].paused
    <3>1. ~am[n].paused
      BY <1>t DEF NonePaused
    <3> QED
      BY <1>t, <2>0, <2>3, <3>1 DEF RecordWritten, RecordMoved
  <2> QED
    BY <1>t, <1>k, <2>1, <2>2, <2>3, ReconcileBegins DEF OthersMove, MachineWritten
<1>2. ASSUME NEW c \in Controllers, worker'[c].pc = "addHook"
      PROVE  ~worker'[c].obj.paused
  <2>1. CASE worker'[c] = worker[c]
    BY <1>t, <1>2, <2>1 DEF NonePaused
  <2>2. ASSUME NEW d \in Controllers, ReconcileStep(d)
        PROVE  ~worker'[c].obj.paused
    <3>1. CASE d # c
      BY <1>t, <2>1, <2>2, <3>1, RecordMoves
    <3>2. CASE d = c
      BY <1>t, <1>2, <2>2, <3>2, HandoverMoves
         DEF HandoverMove, Hooked, GivesUp, OnItsWay, LabelPcs, PatchPcs, NonePaused
    <3> QED
      BY <3>1, <3>2
  <2>3. ASSUME NEW d \in Controllers, NEW m \in AgentMachines, Reconcile(d, m)
        PROVE  ~worker'[c].obj.paused
    <3>1. CASE d # c
      BY <1>t, <2>1, <2>3, <3>1, ReconcileOpens
    <3>2. CASE d = c /\ worker'[c] # worker[c]
      <4>1. /\ Opening(m) \in WorkerState /\ Opening(m).obj = am[m]
            /\ Opens(worker'[c], Opening(m))
        BY <1>t, <2>3, <3>2, ReconcileOpens
      <4>2. worker'[c] = [Opening(m) EXCEPT !.pc = "addHook"]
        BY <1>2, <4>1 DEF Opens, Hooked, GivesUp
      <4>3. worker'[c].obj = am[m]
        BY <4>1, <4>2 DEF WorkerState
      <4> QED
        BY <1>t, <4>3 DEF NonePaused
    <3> QED
      BY <2>1, <3>1, <3>2
  <2>4. ASSUME OthersMove
        PROVE  ~worker'[c].obj.paused
    BY <2>1, <2>4 DEF OthersMove
  <2> QED
    BY <1>k, <2>2, <2>3, <2>4
<1> QED
  BY <1>1, <1>2 DEF NonePaused

\* Nobody but the provider puts a name on an Agent, and nobody else writes AgentRefs.
LEMMA OthersKeepHook ==
  ASSUME HookInv, OthersMove
  PROVE  CallsHold' /\ RecordsHold' /\ HooksFree'
<1>t. /\ TypeInv /\ am \in [AgentMachines -> AgentMachineObj]
      /\ \A d \in Controllers : worker[d].pc # "idle" => worker[d].m \in AgentMachines
  BY DEF HookInv, RecordInv, TypeInv, TypeOK, WorkerHasMachine
<1>1. UNCHANGED worker
  BY DEF OthersMove
<1>2. /\ \A ref : \A m \in AgentMachines : Covers(agent, ref, m) => Covers(agent', ref, m)
      /\ \A m \in AgentMachines : Freed(agent, m) => Freed(agent', m)
  <2>1. OthersWrite \/ UNCHANGED agent
    BY DEF OthersMove, RecordWritten, MachineWritten
  <2>2. \A a \in Agents : agent'[a].label \in {agent[a].label, None}
    BY <1>t, <2>1, LabelsOnlyLost
  <2> QED
    BY <2>2, CoversKept DEF Freed
<1>3. \A m \in AgentMachines :
        am'[m].st = "gone" \/ (am[m].st # "gone" /\ am'[m].ref = am[m].ref)
  BY <1>t, GoneHasNoRecord DEF OthersMove, RecordWritten, MachineWritten, RecordMoved
<1>4. CallsHold'
  <2>1. \A c \in Controllers : worker[c].pc # "idle" =>
          Covers(agent', worker[c].obj.ref, worker[c].m)
    BY <1>t, <1>2 DEF HookInv, CallsHold
  <2> QED
    BY <1>1, <2>1 DEF CallsHold, Covers
<1>5. HooksFree'
  <2>1. \A c \in Controllers : worker[c].pc = "removeHook" => Freed(agent', worker[c].m)
    BY <1>t, <1>2 DEF HookInv, HooksFree
  <2> QED
    BY <1>1, <2>1 DEF HooksFree, Freed
<1>6. RecordsHold'
  <2>1. ASSUME NEW m \in AgentMachines
        PROVE  \/ am'[m].st = "gone"
               \/ \E c \in Controllers : worker[c].pc \notin {"idle", "done"} /\ worker[c].m = m
               \/ Covers(agent', am'[m].ref, m)
    BY <1>2, <1>3 DEF HookInv, RecordsHold
  <2> QED
    BY <1>1, <2>1 DEF RecordsHold, Covers
<1> QED
  BY <1>4, <1>5, <1>6

LEMMA HookStep ==
  ASSUME Undisturbed, HookInv, [Next]_vars
  PROVE  HookInv'
<1> DEFINE Good == CallsHold' /\ RecordsHold' /\ HooksFree'
<1>t. /\ TypeInv /\ CallsWatch /\ NonePaused /\ CallsHold /\ RecordsHold /\ HooksFree
      /\ RecordInv /\ ClaimInv /\ LabelsExist
      /\ \A kind \in {"stale", "apiError", "crash", "restore"} : kind \notin Environment
  BY DEF HookInv, RecordInv, Undisturbed
<1>0. RecordInv' /\ ClaimInv' /\ LabelsExist' /\ NonePaused'
  BY <1>t, RecordStep, ClaimStep, LabelsExistStep, NotPausedStep
<1>1. ASSUME NEW c \in Controllers, ReconcileStep(c)
      PROVE  Good
  BY <1>1, CallKeepsHook
<1>2. ASSUME NEW c \in Controllers, NEW m \in AgentMachines, Reconcile(c, m)
      PROVE  Good
  <2> DEFINE r == worker'[c]
  <2>1. /\ UNCHANGED <<am, agent>> /\ m \in Watched(c) /\ worker[c].pc = "idle"
        /\ \A d \in Controllers \ {c} : worker'[d] = worker[d]
    BY <1>2, <1>t, ReconcileOpens
  <2>2. am[m].st = "gone" \/ Covers(agent, am[m].ref, m)
    <3>1. \A d \in Controllers : worker[d].pc # "idle" => worker[d].m # m
      BY <1>t, <2>1 DEF CallsWatch, Watched
    <3> QED
      BY <1>t, <3>1 DEF RecordsHold
  <2>3. CASE r = worker[c]
    BY <1>t, <2>1, <2>3 DEF CallsHold, RecordsHold, HooksFree
  <2>4. CASE r # worker[c]
    <3>1. /\ am[m].st # "gone" /\ Begins(c, m, r) /\ amCache = am
          /\ Opening(m).obj = am[m] /\ Opens(r, Opening(m)) /\ Opening(m) \in WorkerState
      BY <1>2, <1>t, <2>4, ReconcileOpens
    <3>2. r.m = m /\ r.obj.ref = am[m].ref /\ r.pc \notin {"idle", "done"}
      BY <3>1 DEF Begins, PatchPcs
    <3>3. r.pc = "removeHook" => am[m].ref = None
      <4>1. [Opening(m) EXCEPT !.pc = "addHook"].pc = "addHook"
        BY <3>1 DEF WorkerState
      <4> QED
        BY <3>1, <4>1 DEF Opens, Hooked, GivesUp
    <3>4. r.pc = "removeHook" => Freed(agent, m)
      BY <2>2, <3>1, <3>3, NoneIsNoValue DEF Covers, Freed
    <3> HIDE DEF r
    <3>5. worker'[c] = r
      BY DEF r
    <3>6. CallsHold'
      BY <1>t, <2>1, <2>2, <3>1, <3>2, <3>5 DEF CallsHold
    <3>7. HooksFree'
      BY <1>t, <2>1, <3>2, <3>4, <3>5 DEF HooksFree
    <3>8. RecordsHold'
      <4>1. ASSUME NEW n \in AgentMachines
            PROVE  \/ am[n].st = "gone"
                   \/ \E d \in Controllers : worker'[d].pc \notin {"idle", "done"} /\ worker'[d].m = n
                   \/ Covers(agent, am[n].ref, n)
        <5>1. CASE n = m
          BY <3>2, <3>5, <5>1
        <5>2. CASE n # m
          BY <1>t, <2>1, <5>2 DEF RecordsHold
        <5> QED
          BY <5>1, <5>2
      <4> QED
        BY <2>1, <4>1 DEF RecordsHold
    <3> QED
      BY <3>6, <3>7, <3>8
  <2> QED
    BY <2>3, <2>4
<1>3. ASSUME OthersMove
      PROVE  Good
  BY <1>3, OthersKeepHook
<1> HIDE DEF Good
<1>4. Good
  BY <1>1, <1>2, <1>3, <1>t, MoveKinds
<1> QED
  BY <1>0, <1>4 DEF HookInv, Good

LEMMA HookInit == Init => HookInv
<1> SUFFICES ASSUME Init PROVE HookInv
  OBVIOUS
<1>1. /\ \A m \in AgentMachines : am[m].paused = FALSE
      /\ \A a \in Agents : agent[a].label = None
  BY DEF Init, NewAgentMachine, NewAgent
<1>2. \A c \in Controllers : worker[c].pc = "idle"
  BY IdleIsIdle DEF Init
<1>3. \A m \in AgentMachines : NameOf[m] # None
  BY ConstantTypes, NoneIsNoValue
<1>4. RecordsHold /\ LabelsExist
  BY <1>1, <1>3 DEF RecordsHold, Covers, LabelsExist
<1> QED
  BY <1>1, <1>2, <1>4, RecordInit, ClaimInit DEF HookInv, CallsHold, HooksFree, NonePaused

\* The hook of a Machine under deletion is removed by removeHook alone.
LEMMA HookRemoved ==
  ASSUME Undisturbed, TypeInv, [Next]_vars, NEW m \in AgentMachines,
         machine[m].hook, ~machine'[m].hook, machine'[m].st = "deleting"
  PROVE  \E c \in Controllers : worker[c].pc = "removeHook" /\ worker[c].m = m
<1>t. machine \in [AgentMachines -> MachineObj] /\ GoneMachine.st = "gone"
  BY DEF TypeInv, TypeOK, GoneMachine, NewMachine
<1>0. machine' # machine
  OBVIOUS
<1>1. ASSUME NEW c \in Controllers, ReconcileStep(c)
      PROVE  worker[c].pc = "removeHook" /\ worker[c].m = m
  <2>1. worker[c].m \in AgentMachines
    BY <1>1, RecordMoves
  <2>2. ~HookSet(worker[c].m, TRUE)
    <3>1. [machine[worker[c].m] EXCEPT !.hook = TRUE].hook = TRUE
      BY <1>t, <2>1 DEF MachineObj
    <3> QED
      BY <1>t, <2>1, <3>1 DEF HookSet
  <2>3. HookSet(worker[c].m, FALSE) => worker[c].m = m
    BY <1>t, <2>1 DEF HookSet
  <2> QED
    BY <1>0, <1>1, <2>2, <2>3, HandoverMoves DEF HandoverMove
<1>2. ASSUME NEW n \in AgentMachines, NEW v, MachineWritten(n, v)
      PROVE  FALSE
  BY <1>t, <1>2 DEF MachineWritten, MachineMoved
<1>3. \/ \E c \in Controllers : ReconcileStep(c)
      \/ \E c \in Controllers, n \in AgentMachines : Reconcile(c, n)
      \/ OthersMove
  BY MoveKinds
<1> QED
  BY <1>0, <1>1, <1>2, <1>3, ReconcileBegins DEF OthersMove, RecordWritten

\* handleDeletionHook removes the delete hook from what one Reconcile call knows of
\* the AgentMachine: an Agent that another one had claimed or labelled would be lost.
\* Whatever the order in which Machines and AgentMachines are deleted, Agents are
\* claimed, bound by hand or deleted, and the calls of several processes interleave:
\* the hook is removed only when no Agent is mapped to the AgentMachine any more.
THEOREM HookOutlives ==
  ASSUME Undisturbed
  PROVE  Spec => HookOutlivesReservation
<1> DEFINE Step == \A m \in AgentMachines :
             machine[m].hook /\ ~machine'[m].hook /\ machine'[m].st = "deleting" =>
               ~\E a \in Agents : /\ agent[a].label = NameOf[m]
                                  /\ agent[a].namespace = NsOf[m]
<1>1. HookInv /\ [Next]_vars => HookInv'
  BY HookStep
<1>2. ASSUME HookInv, [Next]_vars
      PROVE  [Step]_machine
  <2> SUFFICES ASSUME NEW m \in AgentMachines,
                      machine[m].hook, ~machine'[m].hook, machine'[m].st = "deleting"
               PROVE  \A a \in Agents : agent[a].label # NameOf[m]
    OBVIOUS
  <2>1. TypeInv
    BY <1>2 DEF HookInv, RecordInv
  <2>2. \E c \in Controllers : worker[c].pc = "removeHook" /\ worker[c].m = m
    BY <1>2, <2>1, HookRemoved
  <2> QED
    BY <1>2, <2>2 DEF HookInv, HooksFree, Freed
<1> HIDE DEF Step
<1>3. Spec => [][Step]_machine
  BY <1>1, <1>2, HookInit, PTL DEF Spec
<1> QED
  BY <1>3 DEF HookOutlivesReservation, Step

-----------------------------------------------------------------------------
(* A Machine without its hook holds no Agent *)

\* The calls that give an Agent back.
UnbindPcs == {"unbindGet", "unbind", "removeHook"}

\* Past the hook.
Unhooked(x) == x.st = "deleting" /\ ~x.hook

\* The AgentMachine is under deletion after its Machine's hook, and its finalizer
\* is there for good, since the v1beta1 condition that would end it is missing.
Stuck(s, x) == ~LegacyConditions /\ x.phase = "passed" /\ s.st = "deleting"

\* AgentMachine s, named m, and its Machine x; ags are the Agents.  Past the hook
\* no Agent is left, unless s is stuck, and so the Machine stays.
PairOK(s, x, m, ags) ==
  /\ x.st = "live" => x.phase = "none"
  /\ Unhooked(x) => x.phase # "none"
  /\ x.phase = "passed" => Unhooked(x) /\ s.st # "live"
  /\ x.st = "gone" => s.st = "gone"
  /\ x.hook \/ x.st # "live" => s.owner \/ s.st = "gone"
  /\ Unhooked(x) => Freed(ags, m) \/ Stuck(s, x)
  /\ x.st = "gone" => Freed(ags, m)

PairsOK == \A m \in AgentMachines : PairOK(am[m], machine[m], m, agent)

\* A Reconcile call w on AgentMachine s and Machine x.  On the way to a label the
\* Machine still has its hook, and a finalizer is not removed before the Agent is
\* given back.
CallFits(w, s, x, ags) ==
  /\ w.pc = "addHook" =>
       /\ x.st = "live" /\ ~x.hook /\ w.mach.phase = "none"
       /\ s.owner \/ s.st = "gone"
  /\ w.pc \in LabelPcs => x.st # "gone" /\ (Unhooked(x) => Stuck(s, x))
  /\ w.pc \in UnbindPcs => x.st = "gone" \/ x.phase # "none"
  /\ w.pc \in LabelPcs \union UnbindPcs \union {"addHook"} => (w.before.fin => w.obj.fin)
  /\ w.pc \in {"patchConds", "patchSpec"} /\ w.before.fin /\ ~w.obj.fin => Freed(ags, w.m)

CallsFit ==
  \A c \in Controllers : worker[c].pc # "idle" =>
    CallFits(worker[c], am[worker[c].m], machine[worker[c].m], agent)

\* Cached copies of Machines that count as the latest are.
MachinesCurrent == \A m \in machineFresh : machineCache[m] = machine[m]

LeakInv == HookInv /\ MachinesCurrent /\ PairsOK /\ CallsFit

\* Nobody deletes a Machine that has no hook yet, or removes one by force.
Patient == "earlyDelete" \notin Environment /\ "forceRemove" \notin Environment

LEMMA MachinesCurrentStep ==
  ASSUME Undisturbed, TypeInv, MachinesCurrent, [Next]_vars
  PROVE  MachinesCurrent'
<1>t. /\ machine \in [AgentMachines -> MachineObj] /\ machineFresh \subseteq AgentMachines
      /\ machineCache \in [AgentMachines -> MachineObj]
  BY DEF TypeInv, TypeOK
<1>1. ASSUME UNCHANGED <<machine, machineCache, machineFresh>>
      PROVE  MachinesCurrent'
  BY <1>1 DEF MachinesCurrent
<1>2. ASSUME NEW m, NEW v, NEW held, WriteMachine(m, v, held)
      PROVE  MachinesCurrent'
  BY <1>2, <1>t DEF WriteMachine, MachinesCurrent
<1>3. ASSUME NEW c \in Controllers, ReconcileStep(c)
      PROVE  MachinesCurrent'
  <2>1. CASE AddHook(c) \/ RemoveHook(c)
    BY <1>1, <1>2, <2>1 DEF AddHook, RemoveHook, CallMachine, machineVars
  <2>2. CASE ~(AddHook(c) \/ RemoveHook(c))
    BY <1>1, <1>3, <2>2 DEF ReconcileStep, UnbindGet, Unbind, ProcessBootstrapDataSecret,
       FindAgent, UpdateFoundAgent, UpdateAgentIfNeeded, UpdateBootstrapData,
       UpdateStatusGet, EnsureAgentLabeled, PatchConditions, PatchSpec, PatchStatus, Finish,
       CallPatch, CallAgent, ReadAgent, machineVars
  <2> QED
    BY <2>1, <2>2
<1>4. ASSUME NEW m \in AgentMachines, CapiProgress(m) \/ Users(m)
      PROVE  MachinesCurrent'
  BY <1>1, <1>2, <1>4 DEF CapiProgress, Users, CapiSetOwner, CapiWaitForHook,
     CapiDeleteInfrastructure, CapiHookPassed, CapiMachineGone, DeleteMachine,
     ForceRemoveMachine, DeleteAgentMachine, Pause, RotateBootstrapData,
     ChangeAgentMachine, ChangeMachine, machineVars
<1>5. ASSUME NEW m \in AgentMachines, DeliverMachine(m)
      PROVE  MachinesCurrent'
  BY <1>5, <1>t DEF DeliverMachine, MachinesCurrent
<1>6. ~\E cs \in SUBSET Controllers : Failure(cs)
  BY DEF Undisturbed, Failure, Crash, RestoreHub, Fault
<1>7. \/ UNCHANGED <<machine, machineCache, machineFresh>>
      \/ \E c \in Controllers : ReconcileStep(c)
      \/ \E m \in AgentMachines : CapiProgress(m) \/ Users(m) \/ DeliverMachine(m)
  BY <1>6 DEF Next, Progress, vars, Reconcile, DeliverAgent, RefreshList, Deliver,
     DeliverAgentMachine, Requeue, Resync, AgentProgress, AgentTrouble,
     AgentBecomesValid, HostProgress, AgentLosesValidity, ManualBind, DeleteAgent,
     ChangeAgent, ClusterProgress, machineVars
<1> QED
  BY <1>1, <1>3, <1>4, <1>5, <1>7

LEMMA RecordMovedFits ==
  ASSUME NEW m, NEW ags, NEW s, NEW v, NEW x, RecordMoved(s, v), PairOK(s, x, m, ags)
  PROVE  /\ PairOK(v, x, m, ags)
         /\ \A w : CallFits(w, s, x, ags) => CallFits(w, v, x, ags)
<1>1. /\ v.st # "gone" => /\ v.st = s.st \/ (s.st = "live" /\ v.st = "deleting")
                          /\ s.owner => v.owner
      /\ v.st = "gone" => s.st = "live"
  BY GoneHasNoRecord DEF RecordMoved
<1>2. s.st # "gone"
  BY DEF RecordMoved
<1>3. Stuck(s, x) => Stuck(v, x)
  BY <1>1, <1>2 DEF Stuck, RecordMoved
<1>4. PairOK(v, x, m, ags)
  BY <1>1, <1>2, <1>3 DEF PairOK
<1>5. ASSUME NEW w, CallFits(w, s, x, ags)
      PROVE  CallFits(w, v, x, ags)
  BY <1>1, <1>2, <1>3, <1>5 DEF CallFits
<1> QED
  BY <1>4, <1>5

LEMMA MachineMovedFits ==
  ASSUME Patient, NEW m, NEW ags, NEW s, NEW x, NEW v, MachineMoved(s, x, v),
         PairOK(s, x, m, ags)
  PROVE  /\ PairOK(s, v, m, ags)
         /\ \A w : CallFits(w, s, x, ags) => CallFits(w, s, v, ags)
<1>g. GoneMachine.st = "gone" /\ GoneMachine.phase = "none" /\ GoneMachine.hook = FALSE
  BY DEF GoneMachine, NewMachine
<1>1. PairOK(s, v, m, ags)
  BY <1>g DEF PairOK, MachineMoved, Unhooked, Stuck, Patient
<1>2. ASSUME NEW w, CallFits(w, s, x, ags)
      PROVE  CallFits(w, s, v, ags)
  <2>1. x.st = "live" /\ ~x.hook => v.st = "live" /\ ~v.hook
    BY DEF MachineMoved, Patient
  <2>2. /\ Unhooked(v) => Unhooked(x)
        /\ v.st = "gone" => x.st = "gone" \/ (Unhooked(x) /\ ~Stuck(s, x))
    BY <1>g DEF MachineMoved, Unhooked, Stuck, Patient, PairOK
  <2>3. Stuck(s, x) => Stuck(s, v) \/ v.st = "gone"
    BY <1>g DEF MachineMoved, Stuck, Patient, PairOK, Unhooked
  <2>4. x.st = "gone" \/ x.phase # "none" => v.st = "gone" \/ v.phase # "none"
    BY <1>g DEF MachineMoved, Patient
  <2>5. ~(Unhooked(v) /\ v.st = "gone")
    BY DEF Unhooked
  <2> QED
    BY <1>2, <2>1, <2>2, <2>3, <2>4, <2>5 DEF CallFits
<1> QED
  BY <1>1, <1>2

\* An AgentMachine under deletion goes when its call takes the finalizer away.
LEMMA FinalizerGone ==
  ASSUME "apiError" \notin Environment, RecordInv, NEW c \in Controllers, ReconcileStep(c),
         am[worker[c].m].st = "deleting", am'[worker[c].m].st # "deleting"
  PROVE  worker[c].pc = "patchSpec" /\ worker[c].before.fin /\ ~worker[c].obj.fin
<1> DEFINE w == worker[c]
           s == am[w.m]
           y == MergeSpec(s, w.obj, w.before)
<1>t. TypeInv /\ w \in WorkerState /\ w.m \in AgentMachines /\ s \in AgentMachineObj
      /\ am \in [AgentMachines -> AgentMachineObj] /\ w.pc # "idle"
  BY RecordMoves DEF RecordInv, TypeInv, TypeOK
<1>1. w.pc = "patchSpec"
  BY <1>t, RecordWrites DEF Patched
<1>2. s.fin /\ w.before.fin
  <2>1. RecordOK(s) /\ CallOK(w, s)
    BY <1>t DEF RecordInv, RecordsOK, CallsOK
  <2> QED
    BY <1>1, <2>1 DEF RecordOK, CallOK
<1>3. \/ am' = [am EXCEPT ![w.m] = Collect(y)]
      \/ UNCHANGED am
  BY <1>t, <1>1, <1>2, SpecIsPatched
<1>4. y.st = "deleting" /\ y.fin = IF w.obj.fin # w.before.fin THEN w.obj.fin ELSE s.fin
  BY <1>t DEF MergeSpec, AgentMachineObj
<1>5. w.obj.fin \in BOOLEAN /\ w.before.fin \in BOOLEAN
  BY <1>t DEF WorkerState, AgentMachineObj
<1> HIDE DEF y
<1>6. Collect(y).st # "deleting"
  BY <1>t, <1>3
<1>7. ~y.fin
  BY <1>4, <1>6 DEF Collect
<1> QED
  BY <1>1, <1>2, <1>4, <1>5, <1>7

\* How a step of a Reconcile call moves its AgentMachine, its Machine and itself.
LEMMA CallStepFits ==
  ASSUME Undisturbed, LeakInv, NEW c \in Controllers, ReconcileStep(c)
  PROVE  LET m == worker[c].m IN
         /\ PairOK(am'[m], machine'[m], m, agent')
         /\ worker'[c].pc # "idle" =>
              worker'[c].m = m /\ CallFits(worker'[c], am'[m], machine'[m], agent')
<1> DEFINE w == worker[c]
           r == worker'[c]
           m == worker[c].m
           s == am[m]
           v == am'[m]
           x == machine[m]
           y == machine'[m]
           Good == PairOK(v, y, m, agent') /\ (r.pc # "idle" => r.m = m /\ CallFits(r, v, y, agent'))
<1>t. /\ TypeInv /\ RecordInv /\ CallsAgree /\ CallsHold /\ HookInv
      /\ UniqueNames /\ "lostReply" \notin Environment /\ "apiError" \notin Environment
      /\ am \in [AgentMachines -> AgentMachineObj] /\ machine \in [AgentMachines -> MachineObj]
  BY DEF LeakInv, HookInv, RecordInv, Undisturbed, TypeInv, TypeOK
<1>w. /\ w \in WorkerState /\ w.pc # "idle" /\ m \in AgentMachines
  BY <1>t, RecordMoves DEF TypeInv, TypeOK
<1>p. PairOK(s, x, m, agent) /\ CallFits(w, s, x, agent)
  BY <1>w DEF LeakInv, PairsOK, CallsFit
<1>h. HandoverMove(w, r)
  BY <1>t, HandoverMoves
<1>r. r.pc = "idle" \/ (r.m = m /\ r.before = w.before)
  BY <1>t, <1>w, RecordMoves, FoundRecord, IdleIsIdle DEF RecordMove, GoesOn, KeepsRecord
<1>y. y.st = x.st /\ y.phase = x.phase
  BY <1>t, <1>w, HookWrites
<1>v. /\ v.st = s.st \/ (s.st = "deleting" /\ v.st = "gone")
      /\ v.st = "gone" \/ v.owner = s.owner
      /\ w.pc \notin {"patchConds", "patchSpec", "patchStatus"} => v = s
      /\ s.st = "deleting" /\ v.st = "gone" =>
           w.pc = "patchSpec" /\ w.before.fin /\ ~w.obj.fin
  <2>1. v = s \/ (s.st # "gone" /\ Patched(w, s, v))
    BY <1>t, <1>w, RecordWrites
  <2>2. v.st = "gone" \/ v.owner = s.owner
    BY <1>t, <1>w, CallKeepsOwner, GoneHasNoRecord
  <2>3. s.st = "deleting" /\ v.st = "gone" => w.pc = "patchSpec" /\ w.before.fin /\ ~w.obj.fin
    BY <1>t, FinalizerGone
  <2> QED
    BY <2>1, <2>2, <2>3, GoneHasNoRecord DEF Patched
<1>f. Freed(agent, m) => Freed(agent', m) \/ w.pc \in {"label", "claim"}
  <2> SUFFICES ASSUME Freed(agent, m), w.pc \notin {"label", "claim"},
                      NEW a \in Agents, agent'[a].label = NameOf[m]
               PROVE  FALSE
    BY DEF Freed
  <2>1. NameOf[m] # None
    BY <1>w, ConstantTypes, NoneIsNoValue
  <2> QED
    BY <1>t, <2>1, NewLabels DEF Freed
<1>k. /\ HookSet(m, TRUE) => y.hook = TRUE
      /\ HookSet(m, FALSE) => y.hook = FALSE
      /\ UNCHANGED machine => y = x
  <2>1. [x EXCEPT !.hook = TRUE].hook = TRUE /\ [x EXCEPT !.hook = FALSE].hook = FALSE
    BY <1>t, <1>w DEF MachineObj
  <2> QED
    BY <1>t, <1>w, <2>1 DEF HookSet
<1>1. CASE w.pc = "addHook"
  <2>1. x.st = "live" /\ ~x.hook /\ w.mach.phase = "none" /\ (s.owner \/ s.st = "gone")
    BY <1>1, <1>p DEF CallFits
  <2>2. ~w.obj.paused
    BY <1>1, <1>t DEF HookInv, NonePaused
  <2>3. FinKept(r, w) /\ r.pc \in {"patchConds", "boot"} /\ UNCHANGED agent
    BY <1>1, <1>h, <2>1, <2>2 DEF HandoverMove, Hooked, HookDone, LabelPcs
  <2>4. w.before.fin => r.obj.fin
    BY <1>1, <1>p, <2>3 DEF CallFits, FinKept
  <2>5. v = s
    BY <1>1, <1>v
  <2>6. PairOK(v, y, m, agent')
    BY <1>p, <1>y, <2>1, <2>5 DEF PairOK, Unhooked
  <2>7. CallFits(r, v, y, agent')
    BY <1>r, <1>y, <2>1, <2>3, <2>4 DEF CallFits, Unhooked, UnbindPcs
  <2> QED
    BY <1>r, <2>6, <2>7
<1>2. CASE w.pc \in {"unbindGet", "unbind"}
  <2>1. UNCHANGED machine /\ r.pc \in {"unbind", "patchConds", "removeHook"}
    BY <1>2, <1>h DEF HandoverMove, GivesUp, LabelPcs
  <2>2. v = s /\ y = x
    BY <1>2, <1>k, <1>v, <2>1
  <2>3. r.pc = "removeHook" => FinKept(r, w)
    BY <1>2, <1>h DEF HandoverMove, GivesUp, LabelPcs
  <2>4. r.pc = "unbind" => FinKept(r, w)
    BY <1>2, <1>h DEF HandoverMove, GivesUp, LabelPcs
  <2>5. ~FinKept(r, w) => Freed(agent', m)
    BY <1>2, <1>t, UnbindFrees
  <2>6. w.before.fin => w.obj.fin
    BY <1>2, <1>p DEF CallFits, UnbindPcs
  <2>7. Freed(agent, m) => Freed(agent', m)
    BY <1>2, <1>f
  <2>8. PairOK(v, y, m, agent')
    BY <1>p, <2>2, <2>7 DEF PairOK
  <2>9. x.st = "gone" \/ x.phase # "none"
    BY <1>2, <1>p DEF CallFits, UnbindPcs
  <2>10. r.m = m /\ r.before = w.before
    BY <1>r, <2>1
  <2>11. /\ r.pc \in {"unbind", "removeHook"} => (r.before.fin => r.obj.fin)
         /\ r.before.fin /\ ~r.obj.fin => Freed(agent', r.m)
    BY <2>3, <2>4, <2>5, <2>6, <2>10 DEF FinKept
  <2>12. y.st = "gone" \/ y.phase # "none"
    BY <2>2, <2>9
  <2> HIDE DEF r, v, y
  <2>13. CallFits(r, v, y, agent')
    BY <2>1, <2>11, <2>12 DEF CallFits, LabelPcs, UnbindPcs
  <2> QED
    BY <2>8, <2>10, <2>13 DEF r, v, y
<1>3. CASE w.pc = "removeHook"
  <2>1. /\ r.pc = "patchConds" /\ UNCHANGED agent
        /\ UNCHANGED machine \/ HookSet(m, FALSE)
    BY <1>3, <1>h DEF HandoverMove, LabelPcs
  <2>2. Freed(agent, m)
    BY <1>3, <1>t DEF HookInv, HooksFree
  <2>3. Freed(agent', m)
    BY <2>1, <2>2
  <2>4. v = s
    BY <1>3, <1>v
  <2>5. x.st = "gone" \/ x.phase # "none"
    BY <1>3, <1>p DEF CallFits, UnbindPcs
  <2>6. y = x \/ y.hook = FALSE
    BY <1>k, <2>1
  <2>7. PairOK(v, y, m, agent')
    BY <1>p, <1>y, <2>3, <2>4, <2>5, <2>6 DEF PairOK, Unhooked
  <2>8. r.m = m
    BY <1>r, <2>1
  <2>9. CallFits(r, v, y, agent')
    BY <2>1, <2>3, <2>8 DEF CallFits, LabelPcs, UnbindPcs
  <2> QED
    BY <2>7, <2>8, <2>9
<1>4. CASE w.pc \in LabelPcs
  <2>1. UNCHANGED machine /\ OnItsWay(r, w)
    BY <1>4, <1>h DEF HandoverMove, LabelPcs
  <2>2. v = s /\ y = x
    BY <1>4, <1>k, <1>v, <2>1 DEF LabelPcs
  <2>3. x.st # "gone" /\ (Unhooked(x) => Stuck(s, x)) /\ (w.before.fin => w.obj.fin)
    BY <1>4, <1>p DEF CallFits
  <2>4. PairOK(v, y, m, agent')
    BY <1>p, <2>2, <2>3 DEF PairOK
  <2>5. r.m = m /\ r.before = w.before /\ r.pc \in LabelPcs \union {"patchConds"}
    BY <1>r, <2>1 DEF OnItsWay, LabelPcs
  <2>6. CallFits(r, v, y, agent')
    BY <2>1, <2>2, <2>3, <2>5 DEF CallFits, OnItsWay, FinKept, LabelPcs, UnbindPcs
  <2> QED
    BY <2>4, <2>5, <2>6
<1>5. CASE w.pc \in {"patchConds", "patchSpec", "patchStatus"}
  <2>1. UNCHANGED <<agent, machine>> /\ r.obj = w.obj /\ r.pc \in PatchPcs
    BY <1>5, <1>h DEF HandoverMove, LabelPcs
  <2>2. y = x
    BY <1>k, <2>1
  <2>3. s.st = "deleting" /\ v.st = "gone" => Freed(agent, m)
    BY <1>p, <1>v DEF CallFits
  <2>4. PairOK(v, y, m, agent)
    BY <1>p, <1>v, <2>2, <2>3 DEF PairOK, Stuck
  <2>5. r.m = m /\ r.before = w.before
    BY <1>r, <2>1 DEF PatchPcs
  <2>6. r.pc = "patchSpec" => w.pc = "patchConds"
    BY <1>5, <1>t, <2>1, <2>5, RecordMoves, FoundRecord, IdleIsIdle, <1>w DEF RecordMove, GoesOn
  <2>7. CallFits(r, v, y, agent)
    BY <1>p, <2>1, <2>5, <2>6 DEF CallFits, LabelPcs, UnbindPcs, PatchPcs
  <2> QED
    BY <2>1, <2>4, <2>5, <2>7
<1>6. CASE w.pc = "done"
  <2>1. r.pc = "idle" /\ UNCHANGED <<agent, machine>>
    BY <1>6, <1>h DEF HandoverMove, LabelPcs
  <2>2. v = s /\ y = x
    BY <1>6, <1>k, <1>v, <2>1
  <2> QED
    BY <1>p, <2>1, <2>2
<1> HIDE DEF Good
<1>7. Good
  BY <1>1, <1>2, <1>3, <1>4, <1>5, <1>6, <1>h DEF HandoverMove, Good
<1> QED
  BY <1>7 DEF Good

\* A Reconcile call that begins.
LEMMA BeginFits ==
  ASSUME Undisturbed, LeakInv, NEW c \in Controllers, NEW m \in AgentMachines,
         Reconcile(c, m), worker'[c] # worker[c]
  PROVE  worker'[c].m = m /\ CallFits(worker'[c], am[m], machine[m], agent)
<1> DEFINE w == Opening(m)
           r == worker'[c]
           s == am[m]
           x == machine[m]
<1>t. /\ TypeInv /\ CallsWatch /\ NonePaused /\ RecordsHold /\ PairOK(s, x, m, agent)
      /\ "stale" \notin Environment
  BY DEF LeakInv, HookInv, RecordInv, Undisturbed, PairsOK
<1>1. /\ s.st # "gone" /\ Begins(c, m, r) /\ Settled /\ amCache = am
      /\ w \in WorkerState /\ w.obj = s /\ w.mach = machineCache[m] /\ Opens(r, w)
      /\ m \in Watched(c) /\ worker[c].pc = "idle"
  BY <1>t, ReconcileOpens
<1>2. w.mach = x
  BY <1>1 DEF Settled, LeakInv, MachinesCurrent
<1>3. r.m = m /\ r.before = s
  BY <1>1 DEF Begins
<1>4. s.ref = None => Freed(agent, m)
  <2>1. \A d \in Controllers : worker[d].pc # "idle" => worker[d].m # m
    BY <1>1, <1>t DEF CallsWatch, Watched
  <2>2. Covers(agent, s.ref, m)
    BY <1>1, <1>t, <2>1 DEF RecordsHold
  <2> QED
    BY <2>2, NoneIsNoValue DEF Covers, Freed
<1>5. s.st \in {"live", "deleting", "gone"} /\ x.phase \in {"none", "waiting", "passed"}
  BY <1>t DEF TypeInv, TypeOK, AgentMachineObj, MachineObj
<1>6. x.st # "gone"
  BY <1>1, <1>t DEF PairOK
<1> HIDE DEF w, r, s, x
<1>7. CASE ~w.obj.owner
  <2>1. r.pc \in {"status", "patchConds"} /\ FinKept(r, w)
    BY <1>1, <1>7 DEF Opens
  <2>2. x.st = "live"
    BY <1>1, <1>7, <1>t DEF PairOK
  <2> QED
    BY <1>1, <1>3, <2>1, <2>2 DEF CallFits, Unhooked, UnbindPcs, LabelPcs, FinKept, r, s, x
<1>8. CASE r = [w EXCEPT !.pc = "addHook"] /\ w.mach.st = "live" /\ ~w.mach.hook /\ w.obj.owner
  <2>1. r.pc = "addHook" /\ r.obj = s /\ r.mach = x
    BY <1>1, <1>2, <1>8 DEF WorkerState
  <2>2. x.st = "live" /\ ~x.hook /\ x.phase = "none" /\ s.owner
    BY <1>1, <1>2, <1>8, <1>t DEF PairOK
  <2> QED
    BY <1>3, <2>1, <2>2 DEF CallFits, LabelPcs, UnbindPcs, r, s, x
<1>9. CASE Hooked(r, w)
  <2>1. CASE r.pc = "boot" /\ w.mach.phase # "waiting" /\ ~HookDone(w) /\ FinKept(r, w)
    <3>1. Unhooked(x) => x.phase = "passed" /\ s.st = "deleting" /\ ~LegacyConditions
      BY <1>1, <1>2, <1>5, <1>t, <2>1 DEF PairOK, HookDone
    <3>2. Unhooked(x) => Stuck(s, x)
      BY <3>1 DEF Stuck
    <3> QED
      BY <1>1, <1>3, <1>6, <2>1, <3>2 DEF CallFits, UnbindPcs, FinKept, r, s, x
  <2>2. CASE r.pc \in {"unbindGet", "removeHook"} /\ w.mach.phase = "waiting" /\ FinKept(r, w)
    BY <1>1, <1>2, <1>3, <2>2 DEF CallFits, LabelPcs, FinKept, r, s, x
  <2>3. CASE r.pc = "patchConds" /\ w.obj.ref = None
    BY <1>1, <1>3, <1>4, <2>3 DEF CallFits, LabelPcs, UnbindPcs, r, s, x
  <2>4. CASE r.pc = "patchConds" /\ HookDone(w)
    <3>1. Freed(agent, m)
      BY <1>2, <1>t, <2>4 DEF PairOK, HookDone, Stuck
    <3> QED
      BY <1>3, <2>4, <3>1 DEF CallFits, LabelPcs, UnbindPcs, r
  <2> QED
    BY <1>9, <2>1, <2>2, <2>3, <2>4 DEF Hooked, GivesUp
<1> QED
  BY <1>1, <1>2, <1>6, <1>7, <1>8, <1>9 DEF Opens

\* The steps of all others.
LEMMA OthersFit ==
  ASSUME Patient, LeakInv, OthersMove
  PROVE  PairsOK' /\ CallsFit'
<1>t. /\ TypeInv /\ PairsOK /\ CallsFit
      /\ am \in [AgentMachines -> AgentMachineObj] /\ machine \in [AgentMachines -> MachineObj]
      /\ \A c \in Controllers : worker[c].pc # "idle" => worker[c].m \in AgentMachines
  BY DEF LeakInv, HookInv, RecordInv, TypeInv, TypeOK, WorkerHasMachine
<1>s. ASSUME UNCHANGED worker,
             \A m \in AgentMachines :
               /\ PairOK(am'[m], machine'[m], m, agent')
               /\ \A c \in Controllers :
                    /\ worker[c].m = m
                    /\ CallFits(worker[c], am[m], machine[m], agent)
                    => CallFits(worker[c], am'[m], machine'[m], agent')
      PROVE  PairsOK' /\ CallsFit'
  <2>1. PairsOK'
    BY <1>s DEF PairsOK
  <2>2. \A c \in Controllers : worker[c].pc # "idle" =>
          CallFits(worker[c], am'[worker[c].m], machine'[worker[c].m], agent')
    BY <1>s, <1>t DEF CallsFit
  <2>3. CallsFit'
    BY <1>s, <2>2 DEF CallsFit
  <2> QED
    BY <2>1, <2>3
<1>1. UNCHANGED worker
  BY DEF OthersMove
<1>2. CASE UNCHANGED <<am, machine>> /\ (OthersWrite \/ UNCHANGED agent)
  <2>1. \A a \in Agents : agent'[a].label \in {agent[a].label, None}
    BY <1>2, <1>t, LabelsOnlyLost
  <2>2. \A m \in AgentMachines : Freed(agent, m) => Freed(agent', m)
    BY <2>1, CoversKept DEF Freed
  <2>3. ASSUME NEW m \in AgentMachines
        PROVE  /\ PairOK(am[m], machine[m], m, agent')
               /\ \A c \in Controllers :
                    /\ worker[c].m = m
                    /\ CallFits(worker[c], am[m], machine[m], agent)
                    => CallFits(worker[c], am[m], machine[m], agent')
    <3>1. Freed(agent, m) => Freed(agent', m)
      BY <2>2
    <3>2. PairOK(am[m], machine[m], m, agent)
      BY <1>t DEF PairsOK
    <3>3. PairOK(am[m], machine[m], m, agent')
      BY <3>1, <3>2 DEF PairOK
    <3>4. ASSUME NEW c \in Controllers, worker[c].m = m,
                 CallFits(worker[c], am[m], machine[m], agent)
          PROVE  CallFits(worker[c], am[m], machine[m], agent')
      BY <3>1, <3>4 DEF CallFits
    <3> QED
      BY <3>3, <3>4
  <2> QED
    BY <1>1, <1>2, <1>s, <2>3
<1>3. ASSUME NEW n \in AgentMachines, NEW v, RecordWritten(n, v)
      PROVE  PairsOK' /\ CallsFit'
  <2>1. /\ UNCHANGED <<machine, agent>> /\ am'[n] = v
        /\ \A m \in AgentMachines \ {n} : am'[m] = am[m]
    BY <1>3, <1>t DEF RecordWritten
  <2>2. PairOK(am[n], machine[n], n, agent) /\ RecordMoved(am[n], v)
    BY <1>3, <1>t DEF PairsOK, RecordWritten
  <2>3. /\ PairOK(v, machine[n], n, agent)
        /\ \A w : CallFits(w, am[n], machine[n], agent) => CallFits(w, v, machine[n], agent)
    BY <2>2, RecordMovedFits
  <2>4. ASSUME NEW m \in AgentMachines
        PROVE  /\ PairOK(am'[m], machine[m], m, agent)
               /\ \A c \in Controllers : CallFits(worker[c], am[m], machine[m], agent)
                    => CallFits(worker[c], am'[m], machine[m], agent)
    <3>1. CASE m = n
      BY <2>1, <2>3, <3>1
    <3>2. CASE m # n
      BY <1>t, <2>1, <3>2 DEF PairsOK
    <3> QED
      BY <3>1, <3>2
  <2> QED
    BY <1>1, <1>s, <2>1, <2>4
<1>4. ASSUME NEW n \in AgentMachines, NEW v, MachineWritten(n, v)
      PROVE  PairsOK' /\ CallsFit'
  <2>1. /\ UNCHANGED <<am, agent>> /\ machine'[n] = v
        /\ \A m \in AgentMachines \ {n} : machine'[m] = machine[m]
    BY <1>4, <1>t DEF MachineWritten
  <2>2. PairOK(am[n], machine[n], n, agent) /\ MachineMoved(am[n], machine[n], v)
    BY <1>4, <1>t DEF PairsOK, MachineWritten
  <2>3. /\ PairOK(am[n], v, n, agent)
        /\ \A w : CallFits(w, am[n], machine[n], agent) => CallFits(w, am[n], v, agent)
    BY <2>2, MachineMovedFits
  <2>4. ASSUME NEW m \in AgentMachines
        PROVE  /\ PairOK(am[m], machine'[m], m, agent)
               /\ \A c \in Controllers : CallFits(worker[c], am[m], machine[m], agent)
                    => CallFits(worker[c], am[m], machine'[m], agent)
    <3>1. CASE m = n
      BY <2>1, <2>3, <3>1
    <3>2. CASE m # n
      BY <1>t, <2>1, <3>2 DEF PairsOK
    <3> QED
      BY <3>1, <3>2
  <2> QED
    BY <1>1, <1>s, <2>1, <2>4
<1> QED
  BY <1>2, <1>3, <1>4 DEF OthersMove

LEMMA LeakStep ==
  ASSUME Undisturbed, Patient, LeakInv, [Next]_vars
  PROVE  LeakInv'
<1> DEFINE Good == PairsOK' /\ CallsFit'
<1>t. /\ TypeInv /\ CallsWatch /\ HookInv /\ MachinesCurrent /\ PairsOK /\ CallsFit
      /\ UniqueNames /\ NonePaused /\ "stale" \notin Environment
      /\ am \in [AgentMachines -> AgentMachineObj] /\ machine \in [AgentMachines -> MachineObj]
      /\ \A c \in Controllers : worker[c].pc # "idle" => worker[c].m \in AgentMachines
  BY DEF LeakInv, HookInv, RecordInv, Undisturbed, TypeInv, TypeOK, WorkerHasMachine
<1>0. HookInv' /\ MachinesCurrent'
  BY <1>t, HookStep, MachinesCurrentStep
<1>1. ASSUME NEW c \in Controllers, ReconcileStep(c)
      PROVE  Good
  <2> DEFINE m == worker[c].m
  <2>1. /\ worker[c].pc # "idle" /\ m \in AgentMachines
        /\ \A d \in Controllers \ {c} : worker'[d] = worker[d] /\
             (worker[d].pc # "idle" => worker[d].m # m)
    BY <1>1, <1>t, RecordMoves, OneCallPerMachine
  <2>2. /\ PairOK(am'[m], machine'[m], m, agent')
        /\ worker'[c].pc # "idle" =>
             worker'[c].m = m /\ CallFits(worker'[c], am'[m], machine'[m], agent')
    BY <1>1, CallStepFits
  <2>3. ASSUME NEW n \in AgentMachines, n # m
        PROVE  /\ am'[n] = am[n] /\ machine'[n] = machine[n]
               /\ Freed(agent, n) => Freed(agent', n)
    <3>1. am'[n] = am[n]
      BY <1>1, <1>t, <2>3, RecordWrites
    <3>2. machine'[n] = machine[n]
      <4>1. UNCHANGED machine \/ \E b : HookSet(m, b)
        BY <1>1, <1>t, HandoverMoves DEF HandoverMove
      <4> QED
        BY <1>t, <2>1, <2>3, <4>1 DEF HookSet
    <3>3. Freed(agent, n) => Freed(agent', n)
      BY <1>1, <1>t, <2>3, OwnLabels DEF Freed
    <3> QED
      BY <3>1, <3>2, <3>3
  <2>4. ASSUME NEW n \in AgentMachines
        PROVE  PairOK(am'[n], machine'[n], n, agent')
    <3>1. CASE n # m
      <4>1. PairOK(am[n], machine[n], n, agent)
        BY <1>t DEF PairsOK
      <4>2. PairOK(am[n], machine[n], n, agent')
        BY <2>3, <3>1, <4>1 DEF PairOK
      <4> QED
        BY <2>3, <3>1, <4>2
    <3>2. CASE n = m
      BY <2>2, <3>2
    <3> QED
      BY <3>1, <3>2
  <2>5. ASSUME NEW d \in Controllers, worker'[d].pc # "idle"
        PROVE  CallFits(worker'[d], am'[worker'[d].m], machine'[worker'[d].m], agent')
    <3>1. CASE d = c
      BY <2>2, <2>5, <3>1
    <3>2. CASE d # c
      <4>1. worker'[d] = worker[d] /\ worker[d].m \in AgentMachines \ {m}
        BY <1>t, <2>1, <2>5, <3>2
      <4>2. CallFits(worker[d], am[worker[d].m], machine[worker[d].m], agent)
        BY <1>t, <2>5, <4>1 DEF CallsFit
      <4>3. CallFits(worker[d], am[worker[d].m], machine[worker[d].m], agent')
        <5>1. Freed(agent, worker[d].m) => Freed(agent', worker[d].m)
          BY <2>3, <4>1
        <5> QED
          BY <4>2, <5>1 DEF CallFits
      <4> QED
        BY <2>3, <4>1, <4>3
    <3> QED
      BY <3>1, <3>2
  <2>6. PairsOK'
    BY <2>4 DEF PairsOK
  <2>7. CallsFit'
    BY <2>5 DEF CallsFit
  <2> QED
    BY <2>6, <2>7
<1>2. ASSUME NEW c \in Controllers, NEW m \in AgentMachines, Reconcile(c, m)
      PROVE  Good
  <2>1. /\ UNCHANGED <<am, machine, agent>>
        /\ \A d \in Controllers \ {c} : worker'[d] = worker[d]
    BY <1>2, <1>t, ReconcileOpens
  <2>2. worker'[c] # worker[c] =>
          worker'[c].m = m /\ CallFits(worker'[c], am[m], machine[m], agent)
    BY <1>2, BeginFits
  <2>3. PairsOK'
    BY <1>t, <2>1 DEF PairsOK
  <2>4. ASSUME NEW d \in Controllers, worker'[d].pc # "idle"
        PROVE  CallFits(worker'[d], am[worker'[d].m], machine[worker'[d].m], agent)
    <3>1. CASE worker'[d] = worker[d]
      BY <1>t, <2>4, <3>1 DEF CallsFit
    <3>2. CASE d = c /\ worker'[c] # worker[c]
      BY <2>2, <3>2
    <3> QED
      BY <2>1, <3>1, <3>2
  <2>5. CallsFit'
    BY <2>1, <2>4 DEF CallsFit
  <2> QED
    BY <2>3, <2>5
<1>3. ASSUME OthersMove
      PROVE  Good
  BY <1>3, OthersFit
<1> HIDE DEF Good
<1>4. Good
  BY <1>1, <1>2, <1>3, <1>t, MoveKinds
<1> QED
  BY <1>0, <1>4 DEF LeakInv, Good

LEMMA LeakInit == Init => LeakInv
<1> SUFFICES ASSUME Init PROVE LeakInv
  OBVIOUS
<1>1. \A m \in AgentMachines :
        machine[m].st = "live" /\ machine[m].hook = FALSE /\ machine[m].phase = "none"
  BY DEF Init, NewMachine
<1>2. PairsOK
  BY <1>1 DEF PairsOK, PairOK, Unhooked
<1>3. \A c \in Controllers : worker[c].pc = "idle"
  BY IdleIsIdle DEF Init
<1>4. MachinesCurrent
  BY DEF Init, MachinesCurrent
<1> QED
  BY <1>2, <1>3, <1>4, HookInit DEF LeakInv, CallsFit

\* A Machine passes its delete hook, then the AgentMachine's finalizer goes, then
\* the Machine: three objects, written by two controllers.  As long as every call is
\* answered and nobody deletes a Machine before it has its hook, or by force, no
\* Agent is mapped to the AgentMachine of a Machine that has gone: no Reconcile call
\* that began before the hook was removed labels one afterwards, and a finalizer put
\* back keeps the Machine until it is removed with nothing mapped.
THEOREM NoneLeaked ==
  ASSUME Undisturbed, Patient
  PROVE  Spec => []NoLeakedAgent
<1>1. LeakInv /\ [Next]_vars => LeakInv'
  BY LeakStep
<1>2. LeakInv => NoLeakedAgent
  BY DEF LeakInv, PairsOK, PairOK, Freed, NoLeakedAgent
<1> QED
  BY <1>1, <1>2, LeakInit, PTL DEF Spec

=============================================================================
