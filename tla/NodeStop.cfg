CONSTANTS
  n1 = n1
  n2 = n2
  m1 = m1
  m2 = m2
  m3 = m3
  m4 = m4
  d1 = d1
  d2 = d2
  Nodes = {n1, n2}
  NodeIds = {n1, n2}
  Identities = {alias}
  Keys = {}
  Limits = {1}
  Ttl = 1
  MaxTime = 0
  MaxRetries = 2
  MaxStarts = 2
  MaxCalls = 3
  Capacity = 2
  EmptySlot = EmptySlot
  NoBuffer = NoBuffer
  Messages = {m1, m2, m3, m4}
  LaneNodes = {n1, n2}
  Senders = {n1}
  MaxSeq <- MCMaxSeq
  Lanes <- MCLanes
  Peers = {n1, n2}
  Delegations = {d1, d2}
  From <- MCFrom
  Route <- MCRoute
  MaxActive = 1
  MaxPerNode = 2
  Threshold = 1
  Versions <- MCVersions
  Initial <- MCInitial
  MaxEdits = 3
SPECIFICATION PartsSpec
PROPERTIES
  StopIsFinal
CHECK_DEADLOCK FALSE
