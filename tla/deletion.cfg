SPECIFICATION FairSpec
CONSTANTS
  m1 = m1
  m2 = m2
  a1 = a1
  a2 = a2
  n1 = n1
  n2 = n2
  c1 = c1
  c2 = c2
  b1 = b1
  b2 = b2
  None = None
  Foreign = Foreign
  Controllers = {c1}
  Namespaces = {n1}
  AgentMachines = {m1}
  Names = {m1}
  Agents = {a1}
  NsOf <- OneNamespace
  NameOf <- OwnNames
  ControllerOf <- OneProvider
  Matches <- NoSelector
  Boots = {}
  LegacyConditions = TRUE
  Environment = {"deleteMachine", "earlyDelete", "crash", "apiError", "resync", "deleteAgent", "flap", "separateCache"}
  MaxFaults = 1
PROPERTIES DeletionCompletes ReadyInTheEnd
CHECK_DEADLOCK FALSE
