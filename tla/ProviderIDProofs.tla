--------------------------- MODULE ProviderIDProofs ---------------------------
(***************************************************************************)
(* A ready AgentMachine has the provider ID of its Agent, although spec    *)
(* and status are written by two calls of the deferred Patch.              *)
(***************************************************************************)
EXTENDS ReservationProofs

\* What holds of an AgentMachine in the API server.
RecordOK(s) ==
  /\ s.ref # None => s.pid = s.ref
  /\ s.ready => s.ref # None
  /\ s.st = "deleting" => s.fin

\* A Reconcile call w has a coherent copy of its AgentMachine s.  Until the call
\* of Patch that writes a field, s still has it as NewHelper saw it; a record
\* about to be written has its provider ID in place.
CallOK(w, s) ==
  /\ w.obj.ref # None => w.obj.pid = w.obj.ref
  /\ w.obj.ready => w.obj.ref # None
  /\ w.before.ref # None => w.obj.ref = w.before.ref
  /\ s.st # "gone" =>
       /\ w.pc \notin {"patchStatus", "done"} => s.pid = w.before.pid /\ s.fin = w.before.fin
       /\ w.pc # "done" => s.ref = w.before.ref /\ s.ready = w.before.ready
       /\ w.pc = "patchStatus" => s.pid = w.obj.pid

RecordsOK == \A m \in AgentMachines : RecordOK(am[m])
CallsOK == \A c \in Controllers : worker[c].pc # "idle" => CallOK(worker[c], am[worker[c].m])

RecordInv == TypeInv /\ CallsWatch /\ CallsAgree /\ RecordsOK /\ CallsOK

\* The patch of spec and metadata succeeds if no call fails: it never adds a
\* finalizer to an AgentMachine under deletion.
LEMMA SpecIsPatched ==
  ASSUME "apiError" \notin Environment, TypeInv, NEW c \in Controllers, ReconcileStep(c),
         worker[c].pc = "patchSpec", am[worker[c].m].st # "gone",
         am[worker[c].m].st = "deleting" => worker[c].before.fin
  PROVE  LET w == worker[c]
             v == Collect(MergeSpec(am[w.m], w.obj, w.before))
         IN \/ am' = [am EXCEPT ![w.m] = v] /\ Patched(w, am[w.m], v)
            \/ UNCHANGED am /\ w.obj.pid = w.before.pid /\ w.obj.fin = w.before.fin
<1> DEFINE w == worker[c]
           v == Collect(MergeSpec(am[w.m], w.obj, w.before))
<1>1. w \in WorkerState /\ w.m \in AgentMachines /\ am[w.m] \in AgentMachineObj
  BY RecordMoves DEF TypeInv, TypeOK
<1>2. PatchSpec(c)
  BY DEF ReconcileStep, AddHook, UnbindGet, Unbind, RemoveHook,
     ProcessBootstrapDataSecret, FindAgent, UpdateFoundAgent, UpdateAgentIfNeeded,
     UpdateBootstrapData, UpdateStatusGet, EnsureAgentLabeled, PatchConditions,
     PatchStatus, Finish, At
<1>3. \/ am' = [am EXCEPT ![w.m] = v]
      \/ UNCHANGED am /\ ~SpecChanged(w)
  BY <1>2 DEF PatchSpec, CallPatch, Outcome, Fault
<1>4. Patched(w, am[w.m], v)
  BY <1>1, PatchesRecord
<1> HIDE DEF v
<1>5. \/ am' = [am EXCEPT ![w.m] = v] /\ Patched(w, am[w.m], v)
      \/ UNCHANGED am /\ w.obj.pid = w.before.pid /\ w.obj.fin = w.before.fin
  BY <1>3, <1>4 DEF SpecChanged
<1> QED
  BY <1>5 DEF v

\* How a step of a Reconcile call moves its AgentMachine from s to v.
LEMMA CallStep ==
  ASSUME "apiError" \notin Environment, "stale" \notin Environment, RecordInv,
         NEW c \in Controllers, ReconcileStep(c)
  PROVE  RecordsOK' /\ CallsOK'
<1> DEFINE w == worker[c]
           r == worker'[c]
           m == worker[c].m
           s == am[m]
           v == am'[m]
<1>t. /\ TypeInv /\ CallsWatch /\ am \in [AgentMachines -> AgentMachineObj]
      /\ \A d \in Controllers : worker[d].pc # "idle" => worker[d].m \in AgentMachines
  BY DEF RecordInv, TypeInv, TypeOK, WorkerHasMachine
<1>w. /\ w \in WorkerState /\ w.pc # "idle" /\ m \in AgentMachines
      /\ RecordMove(c, w, r)
      /\ \A d \in Controllers \ {c} : worker'[d] = worker[d] /\
           (worker[d].pc # "idle" => worker[d].m # m)
  BY <1>t, RecordMoves, OneCallPerMachine DEF TypeInv, TypeOK
<1>1. \A n \in AgentMachines \ {m} : am'[n] = am[n]
  BY <1>t, <1>w, RecordWrites
<1>2. RecordOK(s) /\ CallOK(w, s)
  BY <1>w DEF RecordInv, RecordsOK, CallsOK
<1>3. v = s \/ (s.st # "gone" /\ Patched(w, s, v))
  BY <1>t, <1>w, RecordWrites
<1>4. w.pc = "patchSpec" =>
        \/ s.st = "gone" \/ Patched(w, s, v)
        \/ v = s /\ w.obj.pid = w.before.pid
  <2> SUFFICES ASSUME w.pc = "patchSpec", s.st # "gone"
               PROVE  Patched(w, s, v) \/ (v = s /\ w.obj.pid = w.before.pid)
    OBVIOUS
  <2>1. s.st = "deleting" => w.before.fin
    BY <1>2 DEF RecordOK, CallOK
  <2> QED
    BY <1>t, <1>w, <2>1, SpecIsPatched
<1>g. /\ GoneAgentMachine.ref = None /\ GoneAgentMachine.ready = FALSE
      /\ GoneAgentMachine.st = "gone"
  BY GoneHasNoRecord
<1> HIDE DEF w, r, m, s, v
<1>5. RecordOK(v)
  BY <1>2, <1>3, <1>g DEF RecordOK, CallOK, Patched
<1>6. v.st # "gone" =>
        /\ s.st # "gone"
        /\ w.pc \notin {"patchSpec", "patchStatus"} =>
             /\ v.pid = s.pid /\ v.fin = s.fin /\ v.ref = s.ref /\ v.ready = s.ready
        /\ w.pc = "patchSpec" =>
             v.pid = w.obj.pid /\ v.ref = s.ref /\ v.ready = s.ready
  BY <1>2, <1>3, <1>4, <1>g DEF Patched, CallOK
<1>7. r.pc # "idle" => r.m = m /\ CallOK(r, v)
  <2>1. CASE GoesOn(c, w, r)
    <3>1. /\ r.m = m /\ r.before = w.before
          /\ r.obj.ref = w.obj.ref /\ r.obj.pid = w.obj.pid
          /\ r.obj.ready => w.obj.ready \/ w.obj.ref # None
      BY <2>1 DEF GoesOn, KeepsRecord, m, w
    <3>2. /\ r.pc = "patchStatus" <=> w.pc = "patchSpec"
          /\ r.pc = "done" <=> w.pc = "patchStatus"
          /\ w.pc # "done"
      BY <2>1 DEF GoesOn
    <3> QED
      BY <1>2, <1>6, <3>1, <3>2 DEF CallOK
  <2>2. ASSUME NEW a \in Agents, r = Found(w, a), w.pc \in {"find", "claim"}
        PROVE  r.m = m /\ CallOK(r, v)
    <3>1. /\ r.pc = "sync" /\ r.m = w.m /\ r.before = w.before
          /\ r.obj.ref = a /\ r.obj.pid = a
      BY <1>w, <2>2, FoundRecord
    <3>2. a # None /\ w.obj.ref = None
      BY <1>w, <2>2, NoneIsNoValue DEF RecordInv, CallsAgree, w
    <3>3. w.before.ref = None
      BY <1>2, <3>2 DEF CallOK
    <3> QED
      BY <1>2, <1>6, <2>2, <3>1, <3>2, <3>3 DEF CallOK, m, w
  <2>3. CASE r = IdleWorker
    BY <2>3, IdleIsIdle
  <2> QED
    BY <1>w, <2>1, <2>2, <2>3 DEF RecordMove
<1>8. RecordsOK'
  BY <1>1, <1>5 DEF RecordInv, RecordsOK, v
<1>9. ASSUME NEW d \in Controllers, worker'[d].pc # "idle"
      PROVE  CallOK(worker'[d], am'[worker'[d].m])
  <2>1. CASE d = c
    BY <1>7, <1>9, <2>1 DEF r, v
  <2>2. CASE d # c
    <3>1. worker'[d] = worker[d] /\ worker[d].m \in AgentMachines \ {m}
      BY <1>t, <1>w, <1>9, <2>2
    <3> QED
      BY <1>1, <1>9, <3>1 DEF RecordInv, CallsOK
  <2> QED
    BY <2>1, <2>2
<1> QED
  BY <1>8, <1>9 DEF CallsOK

LEMMA RecordStep ==
  ASSUME "apiError" \notin Environment, "stale" \notin Environment, RecordInv, [Next]_vars
  PROVE  RecordInv'
<1> DEFINE Good == RecordsOK' /\ CallsOK'
<1>t. /\ TypeInv /\ am \in [AgentMachines -> AgentMachineObj]
      /\ \A d \in Controllers : worker[d].pc # "idle" => worker[d].m \in AgentMachines
  BY DEF RecordInv, TypeInv, TypeOK, WorkerHasMachine
<1>0. TypeInv' /\ CallsWatch' /\ CallsAgree'
  BY NextType, WatchStep, AgreeStep DEF RecordInv
<1>1. ASSUME NEW c \in Controllers, ReconcileStep(c)
      PROVE  Good
  BY <1>1, CallStep
<1>2. ASSUME NEW c \in Controllers, NEW m \in AgentMachines, Reconcile(c, m)
      PROVE  Good
  <2>1. amCache = am /\ UNCHANGED am
    BY <1>2, <1>t, ReconcileBegins DEF Prompt, Settled
  <2>2. RecordsOK'
    BY <2>1 DEF RecordInv, RecordsOK
  <2>3. ASSUME NEW d \in Controllers, worker'[d].pc # "idle"
        PROVE  CallOK(worker'[d], am'[worker'[d].m])
    <3>1. CASE worker'[d] = worker[d]
      BY <2>1, <2>3, <3>1 DEF RecordInv, CallsOK
    <3>2. CASE Begins(c, m, worker'[d])
      <4>1. RecordOK(am[m])
        BY DEF RecordInv, RecordsOK
      <4> QED
        BY <2>1, <3>2, <4>1 DEF Begins, PatchPcs, RecordOK, CallOK
    <3> QED
      BY <1>2, <1>t, <3>1, <3>2, ReconcileBegins
  <2> QED
    BY <2>2, <2>3 DEF CallsOK
<1>3. ASSUME NEW cs \in SUBSET Controllers, Restarts(cs)
      PROVE  Good
  <2>1. CASE UNCHANGED am
    BY <1>3, <2>1, IdleIsIdle DEF Restarts, RecordInv, RecordsOK, CallsOK
  <2>2. CASE /\ cs = Controllers
             /\ \A m \in AgentMachines : am[m].st = "live"
             /\ am' = [m \in AgentMachines |->
                         [am[m] EXCEPT !.ref = None, !.ready = FALSE, !.conds = "none"]]
    <3>1. \A m \in AgentMachines :
            am'[m].ref = None /\ am'[m].ready = FALSE /\ am'[m].st = "live"
      <4> SUFFICES ASSUME NEW m \in AgentMachines
                   PROVE  am'[m].ref = None /\ am'[m].ready = FALSE /\ am'[m].st = "live"
        OBVIOUS
      <4>1. am[m] \in AgentMachineObj /\ am[m].st = "live"
        BY <1>t, <2>2
      <4>2. am'[m] = [am[m] EXCEPT !.ref = None, !.ready = FALSE, !.conds = "none"]
        BY <2>2
      <4> QED
        BY <4>1, <4>2 DEF AgentMachineObj
    <3>2. \A c \in Controllers : worker'[c].pc = "idle"
      BY <1>3, <2>2, IdleIsIdle DEF Restarts
    <3> QED
      BY <3>1, <3>2 DEF RecordsOK, RecordOK, CallsOK
  <2> QED
    BY <1>3, <2>1, <2>2 DEF Restarts
<1>4. ASSUME OthersWrite
      PROVE  Good
  <2>1. UNCHANGED worker
    BY <1>4 DEF OthersWrite
  <2>2. CASE UNCHANGED am
    BY <2>1, <2>2 DEF RecordInv, RecordsOK, CallsOK
  <2>3. ASSUME NEW m \in AgentMachines, NEW v, am' = [am EXCEPT ![m] = v],
               RecordKept(am[m], v)
        PROVE  Good
    <3>1. am'[m] = v /\ \A n \in AgentMachines \ {m} : am'[n] = am[n]
      BY <1>t, <2>3
    <3>2. am[m].st \in {"live", "deleting", "gone"}
      BY <1>t DEF AgentMachineObj
    <3>3. RecordOK(am[m]) => RecordOK(v)
      BY <2>3, <3>2, GoneHasNoRecord DEF RecordKept, RecordOK
    <3>4. \A w : CallOK(w, am[m]) => CallOK(w, v)
      BY <2>3, GoneHasNoRecord DEF RecordKept, CallOK
    <3>5. RecordsOK'
      BY <3>1, <3>3 DEF RecordInv, RecordsOK
    <3>6. ASSUME NEW d \in Controllers, worker[d].pc # "idle"
          PROVE  CallOK(worker[d], am'[worker[d].m])
      <4>1. CallOK(worker[d], am[worker[d].m])
        BY <3>6 DEF RecordInv, CallsOK
      <4> QED
        BY <1>t, <3>1, <3>4, <3>6, <4>1
    <3> QED
      BY <2>1, <3>5, <3>6 DEF CallsOK
  <2> QED
    BY <1>4, <2>2, <2>3 DEF OthersWrite
<1> HIDE DEF Good
<1>5. Good
  BY <1>1, <1>2, <1>3, <1>4, <1>t, StepKinds
<1> QED
  BY <1>0, <1>5 DEF RecordInv, Good

LEMMA RecordInit == Init => RecordInv
<1> SUFFICES ASSUME Init PROVE RecordInv
  OBVIOUS
<1>1. \A m \in AgentMachines : am[m].ref = None /\ am[m].ready = FALSE /\ am[m].st = "live"
  BY DEF Init, NewAgentMachine
<1>2. \A c \in Controllers : worker[c].pc = "idle"
  BY IdleIsIdle DEF Init
<1> QED
  BY <1>1, <1>2, InitType, AgreeInit DEF RecordInv, RecordsOK, RecordOK, CallsOK

\* updateAgentMachineWithFoundAgent sets provider ID and AgentRef together, the
\* deferred Patch writes them by two calls: spec, then status.  Crashes between the
\* two, lost answers, restores, users who delete or pause the AgentMachine
\* meanwhile: whenever it is ready it has an AgentRef and the provider ID of that
\* Agent.  A failed patch of the spec is not among them: it does not stop the patch
\* of the status.
THEOREM ReadyIsNamed ==
  ASSUME "apiError" \notin Environment, "stale" \notin Environment
  PROVE  Spec => []ReadyHasProviderID
<1>1. RecordInv /\ [Next]_vars => RecordInv'
  BY RecordStep
<1>2. RecordInv => ReadyHasProviderID
  BY DEF RecordInv, RecordsOK, RecordOK, ReadyHasProviderID
<1> QED
  BY <1>1, <1>2, RecordInit, PTL DEF Spec

=============================================================================
