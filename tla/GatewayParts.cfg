CONSTANTS
  n1 = n1
  n2 = n2
  m1 = m1
  m2 = m2
  m3 = m3
  m4 = m4
  d1 = d1
  d2 = d2
  Nodes = {n1, n2}
  NodeIds = {n1, n2}
  Identities = {alias}
  Keys = {k1, k2, k3}
  Limits = {1, 2}
  Ttl = 1
  MaxTime = 2
  MaxRetries = 2
  MaxStarts = 2
  MaxCalls = 4
  Capacity = 2
  EmptySlot = EmptySlot
  NoBuffer = NoBuffer
  Messages = {m1, m2, m3, m4}
  LaneNodes = {n1, n2}
  Senders = {n1}
  MaxSeq <- MCMaxSeq
  Lanes <- MCLanes
  Peers = {n1, n2}
  Delegations = {d1, d2}
  From <- MCFrom
  Route <- MCRoute
  MaxActive = 1
  MaxPerNode = 2
  Threshold = 1
  Versions <- MCVersions
  Initial <- MCInitial
  MaxEdits = 3
SPECIFICATION PartsSpec
INVARIANTS
  PartsTypeOK
  SessionsAreWhole
  IndexAgrees
  ClientIsSound
  InProgressIsLive
  CountsAreSafe
  ConfigFollowsFile
PROPERTIES
  StaysTimed
  MakesRoom
  StartSettles
  PendingLeavesInTurn
  BuffersAreLaneQueues
  AbortedIsQuiet
  EveryRequestAnswered
CHECK_DEADLOCK FALSE
