CONSTANTS
  n1 = n1
  n2 = n2
  c1 = c1
  c2 = c2
  c3 = c3
  a1 = a1
  ch1 = ch1
  k1 = k1
  m1 = m1
  alias = alias
  Nodes <- TwoNodes
  Identities = {alias}
  Agents = {a1}
  AgentIds <- MCAgentIds
  Conns <- ThreeConns
  ClientIds <- LastConnOther
  Channels = {ch1}
  Keys = {k1}
  Messages = {m1}
  DeviceAuth = TRUE
  CheckpointStore = FALSE
SPECIFICATION Spec
INVARIANTS
  TypeOK
  NodesAgree
  AgentsResolve
  RoutesAreLive
  AlwaysSavable
PROPERTIES
  NoForeignTeardown
CHECK_DEADLOCK FALSE
