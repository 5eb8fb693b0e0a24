-------------------------------- MODULE Gateway --------------------------------
(***************************************************************************)
(* The control plane (packages/gateway/src/gateway.ts): the one place that *)
(* ties a WebSocket connection to a node id and keeps the subsystems a     *)
(* node owns (registry entry, session, message buffer, channel and         *)
(* conversation bindings, pending deliveries) in step with each other      *)
(* while connections come and go, timers fire, the health sweep reaps and  *)
(* the process restarts from a checkpoint.                                 *)
(*                                                                         *)
(* Node runs one event loop, so a handler is one action.  The only handler *)
(* that spans two is node.register with device-key authentication, which   *)
(* awaits the verification (verifying).                                    *)
(***************************************************************************)
EXTENDS Naturals, FiniteSets

CONSTANTS
  Nodes, Identities,      \* as in SessionManager
  Agents, AgentIds,       \* as in NodeRegistry
  Conns,                  \* connection ids: each names one connection, once
  ClientIds,                    \* connection -> the node ids its client registers
  Channels, Keys,         \* channel ids, conversation keys
  Messages,               \* message ids
  DeviceAuth,             \* may registration await a device key check?
  CheckpointStore         \* was the gateway given a checkpoint store?

NoConn == "no connection"
NoNode == "no node"

ASSUME NodesAssumption ==
  /\ NoNode \notin Nodes
  /\ "default" \notin Identities
  /\ AgentIds \in [Nodes -> SUBSET Agents]
ASSUME ConnsAssumption == NoConn \notin Conns
ASSUME IdsAssumption == ClientIds \in [Conns -> SUBSET Nodes]
ASSUME OptionsAssumption == DeviceAuth \in BOOLEAN /\ CheckpointStore \in BOOLEAN

VARIABLES
  conns,             \* connection -> "new", "open" or "closed"
  up,                \* is the process running?
  verifying,         \* registrations that await verifyDeviceJwt
  connectionToNode, nodeToConnection,
  nodes, agentIndex,                                      \* NodeRegistry
  sessions, identities, idleTimers, suspendTimers, wired, \* SessionManager
  dispatchers,       \* nodes that have a message buffer in the router
  channelBindings,   \* channel -> node
  conversations,     \* conversation key -> node
  deliveries,        \* node -> unacknowledged messages tracked for it
  checkpoint         \* what the checkpoint store holds

Registry == INSTANCE NodeRegistry
Manager  == INSTANCE SessionManager WITH
              snapshot <- [sessions   |-> checkpoint.sessions,
                           identities |-> checkpoint.identities]

maps         == <<connectionToNode, nodeToConnection>>
registry     == <<nodes, agentIndex>>
sessionState == <<sessions, identities, idleTimers, suspendTimers>>
routing      == <<dispatchers, channelBindings, conversations, deliveries>>
subsystems   == <<registry, sessionState, routing>>
vars == <<conns, up, verifying, maps, subsystems, wired, checkpoint>>

HasSession(n) == Manager!HasSession(n)
Registered(n) == Registry!Registered(n)

(* A connection's node is alive to the gateway through it.                  *)
Open(c)       == conns[c] = "open"
NodeOf(c)     == connectionToNode[c]
Mapped(c)     == Open(c) /\ NodeOf(c) # NoNode

-----------------------------------------------------------------------------
(* cleanupNode, for every node of S, in the order of the code: whatever the *)
(* router, the stores, the sessions and the registry hold for the node goes *)
(* and then the mapping.  Only the connection on record for the node loses  *)
(* its entry.                                                               *)

ForgetRoutesChannels(S, bound) ==    \* mutant: channel bindings outlive the node
  /\ dispatchers' = dispatchers \ S
  /\ conversations' = [k \in Keys |-> IF bound[k] \in S THEN NoNode ELSE bound[k]]
  /\ deliveries' = [n \in Nodes |-> IF n \in S THEN {} ELSE deliveries[n]]
  /\ UNCHANGED channelBindings

ForgetRoutesDeliveries(S, bound) ==  \* mutant: pending deliveries outlive the node
  /\ dispatchers' = dispatchers \ S
  /\ channelBindings' = [ch \in Channels |->
       IF channelBindings[ch] \in S THEN NoNode ELSE channelBindings[ch]]
  /\ conversations' = [k \in Keys |-> IF bound[k] \in S THEN NoNode ELSE bound[k]]
  /\ UNCHANGED deliveries

ForgetRoutes(S, bound) ==       \* bound: the conversations there are so far
  /\ dispatchers' = dispatchers \ S
  /\ channelBindings' = [ch \in Channels |->
       IF channelBindings[ch] \in S THEN NoNode ELSE channelBindings[ch]]
  /\ conversations' = [k \in Keys |-> IF bound[k] \in S THEN NoNode ELSE bound[k]]
  /\ deliveries' = [n \in Nodes |-> IF n \in S THEN {} ELSE deliveries[n]]

Recorded(S) == {nodeToConnection[n] : n \in S}

ForgetMapsOneWay(C, S) ==  \* mutant: the connection keeps its entry
  /\ nodeToConnection' = [n \in Nodes |-> IF n \in S THEN NoConn ELSE nodeToConnection[n]]
  /\ UNCHANGED connectionToNode

ForgetMapsSwapped(C, S) ==   \* mutant: the wrong "nothing" is stored
  /\ connectionToNode' = [c \in Conns |-> IF c \in C THEN NoConn ELSE connectionToNode[c]]
  /\ nodeToConnection' = [n \in Nodes |-> IF n \in S THEN NoConn ELSE nodeToConnection[n]]

ForgetMaps(C, S) ==
  /\ connectionToNode' = [c \in Conns |-> IF c \in C THEN NoNode ELSE connectionToNode[c]]
  /\ nodeToConnection' = [n \in Nodes |-> IF n \in S THEN NoConn ELSE nodeToConnection[n]]

CleanupSubsystemsSome(S) ==  \* mutant: the registry entry is not removed
  /\ ForgetRoutes(S, conversations)
  /\ Manager!RemoveSessions(S)
  /\ UNCHANGED registry

CleanupSubsystems(S) ==
  /\ ForgetRoutes(S, conversations)
  /\ Manager!RemoveSessions(S)
  /\ Registry!Deregister(S \intersect Registry!RegisteredNodes)

-----------------------------------------------------------------------------
EmptyCheckpoint ==
  [exists |-> FALSE,
   sessions |-> [n \in Nodes |-> "none"],
   identities |-> [n \in Nodes |-> "default"],
   conversations |-> [k \in Keys |-> NoNode],
   deliveries |-> [n \in Nodes |-> {}]]

Init ==
  /\ conns = [c \in Conns |-> "new"]
  /\ up = TRUE
  /\ verifying = {}
  /\ connectionToNode = [c \in Conns |-> NoNode]
  /\ nodeToConnection = [n \in Nodes |-> NoConn]
  /\ dispatchers = {}
  /\ channelBindings = [ch \in Channels |-> NoNode]
  /\ conversations = [k \in Keys |-> NoNode]
  /\ deliveries = [n \in Nodes |-> {}]
  /\ checkpoint = EmptyCheckpoint
  /\ Registry!Init
  /\ Manager!Init

-----------------------------------------------------------------------------
(* Connections and registration.                                           *)

Connect(c) ==
  /\ up
  /\ conns[c] = "new"
  /\ conns' = [conns EXCEPT ![c] = "open"]
  /\ UNCHANGED <<up, verifying, maps, subsystems, wired, checkpoint>>

(* completeNodeRegister.  The entries the new mapping would contradict are  *)
(* deleted first, before registry.register may throw; a session restored    *)
(* from a checkpoint makes createSession throw once the node is registered  *)
(* and mapped, before it gets a message buffer.                             *)
CompleteRegister(c, n) ==
  LET staleNode == NodeOf(c) # NoNode /\ NodeOf(c) # n
      staleConn == nodeToConnection[n] # NoConn /\ nodeToConnection[n] # c
      toConn == IF staleNode THEN [nodeToConnection EXCEPT ![NodeOf(c)] = NoConn]
                             ELSE nodeToConnection
      toNode == IF staleConn THEN [connectionToNode EXCEPT ![nodeToConnection[n]] = NoNode]
                             ELSE connectionToNode
  IN \/ /\ Registered(n)
        /\ connectionToNode' = toNode
        /\ nodeToConnection' = toConn
        /\ UNCHANGED <<subsystems, wired>>
     \/ /\ Registry!Register(n)
        /\ connectionToNode' = [toNode EXCEPT ![c] = n]
        /\ nodeToConnection' = [toConn EXCEPT ![n] = c]
        /\ IF HasSession(n)
           THEN UNCHANGED <<sessionState, dispatchers>>
           ELSE /\ Manager!CreateSession(n)
                /\ dispatchers' = dispatchers \union {n}
        /\ UNCHANGED <<channelBindings, conversations, deliveries, wired>>

Register(c, n) ==
  /\ Open(c)
  /\ \/ CompleteRegister(c, n) /\ UNCHANGED verifying    \* legacy token
     \/ /\ DeviceAuth
        /\ verifying' = verifying \union {<<c, n>>}
        /\ UNCHANGED <<maps, subsystems, wired>>
  /\ UNCHANGED <<conns, up, checkpoint>>

(* The verification resolves.  Nothing looks whether the connection that    *)
(* asked is still there.                                                    *)
Verified(c, n) ==
  /\ <<c, n>> \in verifying
  /\ verifying' = verifying \ {<<c, n>>}
  /\ \/ CompleteRegister(c, n)
     \/ UNCHANGED <<maps, subsystems, wired>>      \* the key was refused
  /\ UNCHANGED <<conns, up, checkpoint>>

Deregister(c, n) ==
  /\ Open(c)
  /\ nodeToConnection[n] \in {NoConn, c}
  /\ CleanupSubsystems({n})
  /\ ForgetMaps(Recorded({n}), {n})
  /\ UNCHANGED <<conns, up, verifying, wired, checkpoint>>

(* The socket closed.  A session that was there is disconnected; the        *)
(* transition handler, when it is registered, cleans up the rest of the     *)
(* node.  The two entries of the mapping are deleted in every case.         *)
DisconnectNode(c, n) ==
  \/ /\ HasSession(n) /\ wired
     /\ CleanupSubsystems({n})
     /\ ForgetMaps(Recorded({n}) \union {c}, {n})
  \/ /\ HasSession(n) /\ ~wired
     /\ Manager!RemoveSessions({n})
     /\ ForgetMaps({c}, {n})
     /\ UNCHANGED <<registry, routing>>
  \/ /\ ~HasSession(n)
     /\ ForgetMaps({c}, {n})
     /\ UNCHANGED subsystems

Disconnect(c) ==
  /\ Open(c)
  /\ conns' = [conns EXCEPT ![c] = "closed"]
  /\ \/ NodeOf(c) = NoNode /\ UNCHANGED <<maps, subsystems>>
     \/ \E n \in Nodes : NodeOf(c) = n /\ DisconnectNode(c, n)
  /\ UNCHANGED <<up, verifying, wired, checkpoint>>

-----------------------------------------------------------------------------
(* Frames, calls and timers.                                               *)

Pong(c) ==
  /\ Mapped(c)
  /\ Registry!MarkAlive(NodeOf(c))
  /\ IF HasSession(NodeOf(c))
     THEN Manager!HandleEvent(NodeOf(c), "heartbeat")
     ELSE UNCHANGED sessionState
  /\ UNCHANGED <<conns, up, verifying, maps, routing, wired, checkpoint>>

(* Where router.route can send a message: to the node of an agent that a    *)
(* binding of the configuration matches, or of the channel it came on.      *)
(* A target without a message buffer makes route throw.                     *)
Targets == ({agentIndex[a] : a \in Agents} \union {channelBindings[ch] : ch \in Channels})
             \intersect dispatchers

(* A message is routed to its target and then tracked, under the node of    *)
(* the connection it came from.                                             *)
LaneMessage(c, m) ==
  /\ Mapped(c)
  /\ Targets # {}
  /\ deliveries' = [deliveries EXCEPT ![NodeOf(c)] = @ \union {m}]
  /\ UNCHANGED <<conns, up, verifying, maps, registry, sessionState, wired, checkpoint,
                 dispatchers, channelBindings, conversations>>

LaneMessageAck(c, m) ==
  /\ Mapped(c)
  /\ deliveries' = [deliveries EXCEPT ![NodeOf(c)] = @ \ {m}]
  /\ UNCHANGED <<conns, up, verifying, maps, registry, sessionState, wired, checkpoint,
                 dispatchers, channelBindings, conversations>>

(* A channel adapter's routeWithScope: dispatch first, bind after.          *)
RouteWithScope(k) ==
  /\ \E n \in Targets : conversations' = [conversations EXCEPT ![k] = n]
  /\ UNCHANGED <<conns, up, verifying, maps, registry, sessionState, wired, checkpoint,
                 dispatchers, channelBindings, deliveries>>

BindChannel(ch, n) ==
  /\ Registered(n)
  /\ channelBindings' = [channelBindings EXCEPT ![ch] = n]
  /\ UNCHANGED <<conns, up, verifying, maps, registry, sessionState, wired, checkpoint,
                 dispatchers, conversations, deliveries>>

UnbindChannel(ch) ==
  /\ channelBindings' = [channelBindings EXCEPT ![ch] = NoNode]
  /\ UNCHANGED <<conns, up, verifying, maps, registry, sessionState, wired, checkpoint,
                 dispatchers, conversations, deliveries>>

(* A reload that changes the conversation scope clears the bindings.        *)
ScopeChanged ==
  /\ up
  /\ conversations' = [k \in Keys |-> NoNode]
  /\ UNCHANGED <<conns, up, verifying, maps, registry, sessionState, wired, checkpoint,
                 dispatchers, channelBindings, deliveries>>

UpdateSessionIdentity(n) ==
  /\ \E i \in Identities \union {"default"} : Manager!UpdateIdentity(n, i)
  /\ UNCHANGED <<conns, up, verifying, maps, registry, routing, wired, checkpoint>>

Timeout(n) ==
  /\ Manager!IdleTimeout(n) \/ Manager!SuspendTimeout(n)
  /\ UNCHANGED <<conns, up, verifying, maps, registry, routing, wired, checkpoint>>

-----------------------------------------------------------------------------
(* Checkpoints, the health sweep, restarts.                                *)

(* checkInvariants, rules 1 and 2; the other rules are about timestamps and *)
(* duplicates, which this model does not represent.                         *)
Consistent(s, bound, pending) ==
  /\ \A k \in Keys : bound[k] # NoNode => s[bound[k]] # "none"
  /\ \A n \in Nodes : pending[n] # {} => s[n] # "none"

(* saveCheckpoint: skipped without a store or when the state is not         *)
(* consistent; a store that fails keeps what it had.                        *)
SaveCheckpoint(bound) ==
  \/ UNCHANGED checkpoint
  \/ /\ CheckpointStore
     /\ Consistent(sessions, bound, deliveries)
     /\ checkpoint' = [exists |-> TRUE, sessions |-> sessions, identities |-> identities,
                       conversations |-> bound, deliveries |-> deliveries]

(* HealthMonitor.sweep: conversations past their TTL go (any of them may    *)
(* be), the state is saved, and then the dead are reaped.                   *)
Sweep ==
  /\ up
  /\ \E expired \in SUBSET Keys :
       LET bound == [k \in Keys |-> IF k \in expired THEN NoNode ELSE conversations[k]] IN
       /\ SaveCheckpoint(bound)
       /\ ForgetRoutes(Registry!Dead, bound)
  /\ Manager!RemoveSessions(Registry!Dead)
  /\ Registry!SweepNodes
  /\ ForgetMaps(Recorded(Registry!Dead), Registry!Dead)
  /\ UNCHANGED <<conns, up, verifying, wired>>

(* stop() saves before it tears everything down; a crash does not.          *)
Down ==
  /\ up
  /\ up' = FALSE
  /\ verifying' = {}
  /\ ForgetMaps(Conns, Nodes)
  /\ ForgetRoutes(Nodes, conversations)
  /\ Registry!Clear
  /\ Manager!Dispose
  /\ conns' = [c \in Conns |-> IF conns[c] = "open" THEN "closed" ELSE conns[c]]

Crash == Down /\ UNCHANGED checkpoint
Stop  == Down /\ SaveCheckpoint(conversations)

StartTimed ==    \* mutant: every restored session gets an idle timer
  /\ ~up
  /\ up' = TRUE
  /\ \/ wired' = TRUE /\ UNCHANGED subsystems
     \/ /\ checkpoint.exists
        /\ sessions' = checkpoint.sessions
        /\ identities' = checkpoint.identities
        /\ idleTimers' = {n \in Nodes : checkpoint.sessions[n] # "none"}
        /\ suspendTimers' = {}
        /\ conversations' = checkpoint.conversations
        /\ deliveries' = checkpoint.deliveries
        /\ UNCHANGED <<registry, dispatchers, channelBindings, wired>>
  /\ UNCHANGED <<conns, verifying, maps, checkpoint>>

(* start: loadCheckpoint before the server accepts connections, a clean     *)
(* state when there is nothing to load or it cannot be read.                *)
Start ==
  /\ ~up
  /\ up' = TRUE
  /\ \/ /\ wired' = TRUE
        /\ UNCHANGED subsystems
     \/ /\ checkpoint.exists
        /\ Manager!FromSnapshot(checkpoint)
        /\ conversations' = checkpoint.conversations
        /\ deliveries' = checkpoint.deliveries
        /\ UNCHANGED <<registry, dispatchers, channelBindings>>
  /\ UNCHANGED <<conns, verifying, maps, checkpoint>>

-----------------------------------------------------------------------------
FrameStep(c) ==
  \/ \E n \in ClientIds[c] : Register(c, n) \/ Verified(c, n) \/ Deregister(c, n)
  \/ Pong(c)
  \/ \E m \in Messages : LaneMessage(c, m) \/ LaneMessageAck(c, m)

CallStep ==
  \/ \E ch \in Channels : UnbindChannel(ch) \/ \E n \in Nodes : BindChannel(ch, n)
  \/ \E k \in Keys : RouteWithScope(k)
  \/ \E n \in Nodes : UpdateSessionIdentity(n)

Next ==
  \/ \E c \in Conns : Connect(c) \/ Disconnect(c) \/ FrameStep(c)
  \/ \E n \in Nodes : Timeout(n)
  \/ CallStep \/ ScopeChanged \/ Sweep \/ Crash \/ Stop \/ Start

Spec == Init /\ [][Next]_vars

(* The health timer is an interval that runs for as long as the process is  *)
(* up.  Nothing is promised about clients, and no other timer is needed.    *)
FairSpec == Spec /\ WF_vars(Sweep)

-----------------------------------------------------------------------------
Snapshot == [exists : BOOLEAN, sessions : Manager!Sessions, identities : Manager!IdentityMaps,
             conversations : [Keys -> Nodes \union {NoNode}],
             deliveries : [Nodes -> SUBSET Messages]]

(* Type invariant. *)
TypeOK ==
  /\ conns \in [Conns -> {"new", "open", "closed"}]
  /\ up \in BOOLEAN
  /\ verifying \in SUBSET (Conns \X Nodes)
  /\ connectionToNode \in [Conns -> Nodes \union {NoNode}]
  /\ nodeToConnection \in [Nodes -> Conns \union {NoConn}]
  /\ Registry!TypeOK
  /\ Manager!TypeOK
  /\ dispatchers \in SUBSET Nodes
  /\ channelBindings \in [Channels -> Nodes \union {NoNode}]
  /\ conversations \in [Keys -> Nodes \union {NoNode}]
  /\ deliveries \in [Nodes -> SUBSET Messages]
  /\ checkpoint \in Snapshot

(* While the transition handler is registered, a node is registered, has a  *)
(* session and has a message buffer, or it is none of the three: no order   *)
(* of registrations, refusals, disconnects, sweeps and late verifications   *)
(* leaves half a node behind.                                               *)
NodesAreWhole ==
  wired => \A n \in Nodes : /\ Registered(n) <=> HasSession(n)
                            /\ Registered(n) <=> n \in dispatchers

(* A connection is only on record for a node that is registered.            *)
RecordedIsRegistered ==
  \A n \in Nodes : nodeToConnection[n] # NoConn => Registered(n)

(* A client process registers one node id on its connection (TemplarNode    *)
(* has one nodeId).                                                         *)
OneIdPerConnection == \A c \in Conns : \A n, m \in ClientIds[c] : n = m

(* Then a connection that maps to a node is the one on record for it, so    *)
(* two connections never speak for one node.                                *)
MappedIsRecorded ==
  OneIdPerConnection =>
    \A c \in Conns : NodeOf(c) # NoNode => nodeToConnection[NodeOf(c)] = c

(* The tables that hold a node agree about it, and about who speaks for it. *)
NodesAgree == NodesAreWhole /\ RecordedIsRegistered /\ MappedIsRecorded

(* and the close of a connection, however late it is noticed, never removes *)
(* a node, or its session, that another connection has registered since.    *)
NoForeignTeardown ==
  [][OneIdPerConnection =>
       \A c \in Conns, n \in Nodes :
         /\ up' /\ conns[c] = "open" /\ conns'[c] = "closed"
         /\ Registered(n) /\ nodeToConnection[n] # c
         => UNCHANGED <<nodes[n], sessions[n], nodeToConnection[n]>>]_vars

(* resolveAgent never answers with a node that has left: whatever the order *)
(* in which nodes that declare the same agent ids come and go.              *)
AgentsResolve == Registry!AgentIndexSound

(* Every route (channel binding, conversation, agent) leads to a node that  *)
(* has a message buffer, so a message that finds a route is never refused.  *)
RoutesAreLive ==
  wired => /\ \A ch \in Channels : channelBindings[ch] # NoNode
                                      => channelBindings[ch] \in dispatchers
           /\ \A k \in Keys : conversations[k] # NoNode => conversations[k] \in dispatchers
           /\ \A a \in Agents : agentIndex[a] # NoNode => agentIndex[a] \in dispatchers

(* The live state always passes the check saveCheckpoint makes, so a gateway *)
(* that has not been restored from a checkpoint never skips a save.         *)
AlwaysSavable ==
  wired /\ OneIdPerConnection => Consistent(sessions, conversations, deliveries)

(* The sessions the gateway drives behave as SessionManager specifies.      *)
SessionDiscipline == Manager!Spec

Reachable(n) == \E c \in Conns : Open(c) /\ NodeOf(c) = n

(* A registered node no open connection maps to, whatever left it so (a      *)
(* verification that outlived its connection, a refused registration that   *)
(* took the mapping away, a disconnect that was not cleaned up), does not    *)
(* stay: the sweeps remove it, and its id becomes free to register again.   *)
UnreachableIsReaped ==
  \A n \in Nodes : Registered(n) /\ ~Reachable(n) ~> ~Registered(n)

-----------------------------------------------------------------------------
(* What the source says and the code does not do.                          *)

(* gateway.ts:117: the two maps are a "bidirectional mapping".              *)
MapsAreInverse ==
  \A n \in Nodes : nodeToConnection[n] # NoConn => NodeOf(nodeToConnection[n]) = n

(* gateway.ts:650: "full subsystem cleanup on disconnect".                  *)
CleanupOnDisconnect ==
  [][\A c \in Conns, n \in Nodes : Disconnect(c) /\ NodeOf(c) = n
        => nodes'[n] = "absent" /\ n \notin dispatchers']_vars
=============================================================================
