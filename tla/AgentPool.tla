------------------------------ MODULE AgentPool ------------------------------
(***************************************************************************)
(* What the provider promises about Agents, without caches, labels, calls  *)
(* and processes: AgentMachines reserve Agents of a pool.  A reservation   *)
(* and its record in the AgentMachine are two things, made in this order,  *)
(* and the record may be lost.                                             *)
(***************************************************************************)
CONSTANTS AgentMachines, Agents, None

VARIABLES
  members,    \* the Agents in the pool
  holder,     \* the AgentMachine each Agent is reserved for
  recorded,   \* the Agent each AgentMachine refers to
  leaving     \* AgentMachines on their way out

poolVars == <<members, holder, recorded, leaving>>

Init ==
  /\ members = Agents
  /\ holder = [a \in Agents |-> None]
  /\ recorded = [m \in AgentMachines |-> None]
  /\ leaving = {}

Reserve(m, a) ==
  /\ a \in members
  /\ holder[a] = None
  /\ \A b \in Agents : holder[b] # m
  /\ recorded[m] = None
  /\ holder' = [holder EXCEPT ![a] = m]
  /\ UNCHANGED <<members, recorded, leaving>>

\* An Agent may be taken from the pool while its reservation is being recorded.
Record(m, a) ==
  /\ holder[a] = m \/ a \notin members
  /\ recorded[m] = None
  /\ recorded' = [recorded EXCEPT ![m] = a]
  /\ UNCHANGED <<members, holder, leaving>>

Leave(m) ==
  /\ leaving' = leaving \union {m}
  /\ UNCHANGED <<members, holder, recorded>>

Release(a) ==
  /\ holder[a] \in leaving
  /\ holder' = [holder EXCEPT ![a] = None]
  /\ UNCHANGED <<members, recorded, leaving>>

\* An AgentMachine that leaves is gone, with its record.
Forget(m) ==
  /\ recorded[m] # None
  /\ recorded' = [recorded EXCEPT ![m] = None]
  /\ leaving' = leaving \union {m}
  /\ UNCHANGED <<members, holder>>

\* All records are lost at once, the reservations are not.
LoseRecords ==
  /\ recorded' = [m \in AgentMachines |-> None]
  /\ UNCHANGED <<members, holder, leaving>>

Vanish(a) ==
  /\ members' = members \ {a}
  /\ holder' = [holder EXCEPT ![a] = None]
  /\ UNCHANGED <<recorded, leaving>>

Next ==
  \/ \E m \in AgentMachines :
       Leave(m) \/ Forget(m) \/ \E a \in Agents : Reserve(m, a) \/ Record(m, a)
  \/ \E a \in Agents : Release(a) \/ Vanish(a)
  \/ LoseRecords

Spec == Init /\ [][Next]_poolVars

\* Records catch up with reservations.
RecordsCatchUp ==
  \A m \in AgentMachines, a \in Agents :
    holder[a] = m ~> recorded[m] = a \/ holder[a] # m \/ m \in leaving

FairSpec == Spec /\ RecordsCatchUp

=============================================================================
