CONSTANTS
  asker = asker
  n1 = n1
  d1 = d1
  d2 = d2
  d3 = d3
  d4 = d4
  Peers <- TwoNodes
  Delegations = {d1, d2, d3, d4}
  From <- MCFrom
  Route <- Primary
  MaxActive = 4
  MaxPerNode = 2
  Threshold = 1
SPECIFICATION DirectSpec
INVARIANTS
  PerNodeLimit
CHECK_DEADLOCK FALSE
