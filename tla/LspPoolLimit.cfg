CONSTANTS
  Requests = {"r1", "r2"}
  Providers = {"p1"}
  Chains <- MCChains
  PoolKeys <- MCPoolKeys
  Strategy <- MCStrategy
  Levels = {"standard"}
  thinkingDowngrade = TRUE
  maxRetries = 1
  FailureThreshold = 2
  HalfOpenMaxAttempts = 1
  NoRequest = "nobody"
  Servers = {"ts", "py"}
  MaxServers = 1
  MaxRestarts = 1
  MaxInits <- MCInits
  MaxClears = 1
  Evaluators <- MCEvaluators
  Capacity = 2
  MaxTicks = 4
  MaxTimers = 3
  MaxAttempts = 3
  MaxReconnectAttempts = 2
  BurstLimit = 1
  MaxQueue = 1
  DailyBudget = 3
  Credits = 4
  Costs = {0, 2}
  DefaultEstimate = 1
  Thresholds = {50, 100}
  CheckEvery = 2
  MaxTurns = 3
  MaxBuffer = 2
  FlushEvery = 2
  MaxEvents = 4
  Facts = {1, 2, 3, 4}
  HashOf <- MCHashOf
  MaxPending = 2
  SaveEvery = 2
  MaxExtracted = 2
  ObserveEvery = 2
  ReflectEvery = 3
  MaxObserverCalls = 2
  MaxObservations = 2
  MaxLoaded = 1
  MaxObservedTurns = 5
  MaxFound = 1
  Features = {101}
  MaxActiveFeatures = 1
  Window = 1
  MaxEntries = 3
  MaxSaves = 2
  MaxCrashes = 1
  ServerNames = {"web", "api"}
  MaxStops = 2
  Clients = {"c1", "c2", "c3"}
  MaxDisconnects = 2
  Patterns = {"git push", "make"}
  maxPatterns = 1
  Flagged = {"git push"}
  TimerFlushes = {1}
  MaxApprovals = 3
  MaxExecSessions = 2
  Tools = {"bash"}
  Calls = {1, 2}
  failureThreshold = 2
  cooldown = 1
  cacheTTL = 1
  checkTimeout = 1
  grantTimeout = 1
  progressiveThreshold = 1
  MaxClock = 2
  MaxCheckSessions = 2
  MaxAllowed = 1
  Codes = {1, 2, 3}
  Senders = {"s"}
  AllChannels = {"whatsapp"}
  Capacities = {1, 2}
  MaxPairAttempts = 2
  ExpiryMs = 1
  MaxPairingTime = 2
  MinedTools = {"read", "write"}
  MaxMined = 2
  MaxSessionCalls = 3
  Children = {"a1", "a2", "b1", "b2", "c1"}
  Parents = {"a", "b", "c"}
  Parent <- MCParent
  Depth <- MCDepth
  maxSpawnDepth = 1
  maxChildrenPerAgent = 1
  maxConcurrent = 2
  MaxResets = 2
  LoopConfigs <- MCLoopConfigs
  ToolNames = {"read", "write"}
  TurnCalls <- MCTurnCalls
  Outputs = {"x", "y"}
  MaxLoopTurns = 4
  Agents = {"a1", "a2", "a3"}
  maxEntries = 2
  ttl = 1
  Callers = {1, 2}
  MaxVersion <- MCMaxVersion
  MaxCardTime = 1
  taskTimeout = 5
  requestTimeout = 2
  pollInterval = 2
  pollMaxInterval = 5
  MaxTaskTime = 12
  Handlers = {"g", "h"}
  Priorities = {1, 2}
  Emits = {1, 2}
  MaxRegistrations = 2
  MaxEmits = 2
  SessionIds = {"s1", "s2", "s3"}
  maxSessions = 2
  Connects = {1, 2}
  Prompts = {"p1", "p2", "p3"}
SPECIFICATION AgentSpec
INVARIANTS
  PoolLimit
CHECK_DEADLOCK FALSE
