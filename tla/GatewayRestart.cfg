CONSTANTS
  n1 = n1
  n2 = n2
  c1 = c1
  c2 = c2
  c3 = c3
  a1 = a1
  ch1 = ch1
  k1 = k1
  m1 = m1
  alias = alias
  Nodes <- OneNode
  Identities = {}
  Agents = {a1}
  AgentIds <- MCAgentIds
  Conns <- ThreeConns
  ClientIds <- SameId
  Channels = {}
  Keys = {k1}
  Messages = {m1}
  DeviceAuth = TRUE
  CheckpointStore = TRUE
SPECIFICATION FairSpec
PROPERTIES
  SessionDiscipline
  UnreachableIsReaped
CHECK_DEADLOCK FALSE
