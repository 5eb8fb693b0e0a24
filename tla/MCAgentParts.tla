------------------------------ MODULE MCAgentParts ------------------------------
(***************************************************************************)
(* The parts that run in an agent's process.  They share no state: part    *)
(* says which one moves, and the others keep the values they start with.   *)
(***************************************************************************)
EXTENDS ModelRouter, LspPool, Heartbeat, WhatsAppChannel, Pay, AuditLog, Observer,
        SessionMemory, SideBySide, LongRunning, PairingGuard, PatternMining, TLC

VARIABLE part

-----------------------------------------------------------------------------
(* The fourth fact has the content of the first.                            *)
MCHashOf   == <<1, 2, 3, 1>>
MCInits    == [k \in Servers |-> IF k = "ts" THEN 3 ELSE 1]
MCChains   == {<<"unknown", "p1">>, <<"p1", "unknown">>}
MCPoolKeys == [p \in Providers |-> <<1, 2>>]
MCStrategy == [auth |-> "rotate_key", rate_limit |-> "backoff", timeout |-> "retry",
               context_overflow |-> "compact", thinking |-> "thinking_downgrade"]
MCEvaluators == <<"recommended", "required">>

(* Each of the three limits is met before the others by some spawn.         *)
MCParent == [c \in Children |->
  IF c \in {"a1", "a2"} THEN "a" ELSE IF c = "c1" THEN "c" ELSE "b"]
MCDepth == [c \in Children |-> IF c = "b2" THEN 2 ELSE 1]

MCLoopConfig(window, repeats, cycle) ==
  [windowSize |-> window, repeatThreshold |-> repeats, maxCycleLength |-> cycle]
MCLoopConfigs == {MCLoopConfig(1, 2, 2), MCLoopConfig(3, 2, 2), MCLoopConfig(3, 3, 1)}
MCTurnCalls   == {<<>>, <<"read">>, <<"write">>, <<"read", "write">>}

(* One card changes.                                                        *)
MCMaxVersion == [a \in Agents |-> IF a = "a1" THEN 2 ELSE 1]

-----------------------------------------------------------------------------
AgentInit ==
  /\ RouterInit /\ PoolInit /\ BeatInit /\ ChannelInit /\ PayInit
  /\ AuditInit /\ MemoryInit /\ ObserverInit /\ PairingInit
  /\ HarnessInit /\ DevServersInit /\ BridgeInit /\ GuardInit /\ LoopInit
  /\ CardsInit /\ TaskInit /\ ExecInit /\ PermissionInit /\ HooksInit
  /\ AcpInit
  /\ part \in {"router", "servers", "heartbeat", "channel", "pay", "audit", "memory",
               "observer", "pairing", "mining", "harness", "dev servers", "bridge",
               "spawn guard", "loop detector", "cards", "tasks", "approvals", "permissions",
               "hooks", "acp"}
  /\ part # "pay" => ~hardLimit /\ ~twoPhase
  /\ part # "pairing" => channelSet = {} /\ maxPendingCodes = 1
  /\ part # "spawn guard" => ~atomic
  /\ part # "loop detector" => loopConfig = MCLoopConfig(1, 2, 2)
  /\ IF part = "mining" THEN MiningInit
     ELSE /\ sequences = <<>> /\ minSupport = 1 /\ minLength = 1 /\ maxLength = 1
          /\ results = {} /\ mined = FALSE

AgentNext ==
  /\ \/ part = "router"    /\ RouterNext
     \/ part = "servers"   /\ PoolNext
     \/ part = "heartbeat" /\ BeatNext
     \/ part = "channel"   /\ ChannelNext
     \/ part = "pay"       /\ PayNext
     \/ part = "audit"     /\ AuditNext
     \/ part = "memory"    /\ MemoryNext
     \/ part = "observer"  /\ ObserverNext
     \/ part = "pairing"   /\ PairingNext
     \/ part = "mining"    /\ MiningNext
     \/ part = "harness"       /\ HarnessNext
     \/ part = "dev servers"   /\ DevServersNext
     \/ part = "bridge"        /\ BridgeNext
     \/ part = "spawn guard"   /\ GuardNext
     \/ part = "loop detector" /\ LoopNext
     \/ part = "cards"         /\ CardsNext
     \/ part = "tasks"         /\ TaskNext
     \/ part = "approvals"     /\ ExecNext
     \/ part = "permissions"   /\ PermissionNext
     \/ part = "hooks"         /\ HooksNext
     \/ part = "acp"           /\ AcpNext
  /\ part # "router"    => UNCHANGED routerVars
  /\ part # "servers"   => UNCHANGED poolVars
  /\ part # "heartbeat" => UNCHANGED heartbeatVars
  /\ part # "channel"   => UNCHANGED channelVars
  /\ part # "pay"       => UNCHANGED payVars
  /\ part # "audit"     => UNCHANGED auditVars
  /\ part # "memory"    => UNCHANGED memoryVars
  /\ part # "observer"  => UNCHANGED observerVars
  /\ part # "pairing"   => UNCHANGED pairingVars
  /\ part # "mining"    => UNCHANGED miningVars
  /\ part # "harness"       => UNCHANGED longRunningVars
  /\ part # "dev servers"   => UNCHANGED devServerVars
  /\ part # "bridge"        => UNCHANGED bridgeVars
  /\ part # "spawn guard"   => UNCHANGED guardVars
  /\ part # "loop detector" => UNCHANGED loopVars
  /\ part # "cards"         => UNCHANGED cardVars
  /\ part # "tasks"         => UNCHANGED taskVars
  /\ part # "approvals"     => UNCHANGED execVars
  /\ part # "permissions"   => UNCHANGED permissionVars
  /\ part # "hooks"         => UNCHANGED hookVars
  /\ part # "acp"           => UNCHANGED acpVars
  /\ UNCHANGED part

surroundings ==
  <<poolVars, heartbeatVars, channelVars, payVars, auditVars, memoryVars,
    observerVars, pairingVars, miningVars, longRunningVars, devServerVars, bridgeVars,
    guardVars, loopVars, cardVars, taskVars, execVars, permissionVars, hookVars, acpVars>>
agentVars == <<part, routerVars, surroundings>>

RouterProceeds ==
  /\ part = "router" /\ \E r \in Requests : Proceeds(r)
  /\ UNCHANGED <<part, surroundings>>

AgentSpec == AgentInit /\ [][AgentNext]_agentVars /\ WF_agentVars(RouterProceeds)

-----------------------------------------------------------------------------
(* Every part keeps its types.                                              *)
AgentTypeOK ==
  /\ RouterTypeOK /\ PoolTypeOK /\ BeatTypeOK /\ ChannelTypeOK /\ PayTypeOK
  /\ AuditTypeOK /\ MemoryTypeOK /\ ObserverTypeOK /\ PairingTypeOK
  /\ MiningTypeOK /\ HarnessTypeOK /\ DevServersTypeOK /\ BridgeTypeOK
  /\ GuardTypeOK /\ LoopTypeOK /\ CardsTypeOK /\ TaskTypeOK /\ ExecTypeOK
  /\ PermissionTypeOK /\ HooksTypeOK /\ AcpTypeOK
================================================================================
