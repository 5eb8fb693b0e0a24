----------------------------- MODULE Gateway_proofs -----------------------------
(***************************************************************************)
(* Proofs about Gateway, for every set of nodes, connections, agents,      *)
(* channels, conversation keys and messages.                               *)
(***************************************************************************)
EXTENDS Gateway, TLAPS

(* The node ids in the maps and in pending verifications are ids the client *)
(* of the connection uses.                                                  *)
IdsRespected ==
  /\ \A c \in Conns : NodeOf(c) # NoNode => NodeOf(c) \in ClientIds[c]
  /\ \A n \in Nodes : nodeToConnection[n] # NoConn => n \in ClientIds[nodeToConnection[n]]
  /\ \A c \in Conns, n \in Nodes : <<c, n>> \in verifying => n \in ClientIds[c]

(* Nothing survives in a process that is down.                              *)
DownIsEmpty ==
  ~up => /\ ~wired
         /\ \A c \in Conns : conns[c] # "open"
         /\ verifying = {}
         /\ sessions = [n \in Nodes |-> "none"]
         /\ nodes = [n \in Nodes |-> "absent"]
         /\ dispatchers = {}
         /\ connectionToNode = [c \in Conns |-> NoNode]
         /\ nodeToConnection = [n \in Nodes |-> NoConn]
         /\ agentIndex = [a \in Agents |-> NoNode]
         /\ channelBindings = [ch \in Channels |-> NoNode]
         /\ conversations = [k \in Keys |-> NoNode]
         /\ deliveries = [n \in Nodes |-> {}]

(* The mapping part and the subsystem part of the inductive invariant.      *)
MapInv  == RecordedIsRegistered /\ MappedIsRecorded /\ IdsRespected
NodeInv == NodesAreWhole /\ RoutesAreLive /\ AlwaysSavable /\ Registry!AgentIndexSound
GInv    == TypeOK /\ DownIsEmpty /\ MapInv /\ NodeInv

-----------------------------------------------------------------------------
LEMMA InitGInv == Init => GInv
  <1> SUFFICES ASSUME Init PROVE GInv
    OBVIOUS
  <1> USE NodesAssumption, ConnsAssumption, IdsAssumption DEF Init, Registry!Init, Manager!Init
  <1>1. TypeOK
    BY DEF TypeOK, Registry!TypeOK, Registry!NoNode, Manager!TypeOK, Manager!Sessions,
           Manager!IdentityMaps, Manager!States, Manager!NoSession, Manager!NoIdentity,
           Snapshot, EmptyCheckpoint, NoNode
  <1>2. DownIsEmpty
    BY DEF DownIsEmpty
  <1>3. MapInv
    BY DEF MapInv, RecordedIsRegistered, MappedIsRecorded, IdsRespected, NodeOf
  <1>4. NodeInv
    BY DEF NodeInv, NodesAreWhole, RoutesAreLive, AlwaysSavable, Consistent, Registered, HasSession,
           Registry!AgentIndexSound, Registry!Registered, Manager!HasSession, Manager!NoSession, Registry!NoNode, NoNode
  <1> QED BY <1>1, <1>2, <1>3, <1>4 DEF GInv

-----------------------------------------------------------------------------
(* Cleaning up a set of nodes.  What the subsystems satisfy afterwards.     *)
LEMMA CleanupNodes ==
  ASSUME TypeOK, NodeInv, NEW S \in SUBSET Nodes, CleanupSubsystems(S), wired' = wired
  PROVE  NodeInv'
  <1> USE NodesAssumption
          DEF CleanupSubsystems, ForgetRoutes, Manager!RemoveSessions, Registry!Deregister,
              TypeOK, Registry!TypeOK, Manager!TypeOK, Manager!Sessions, NodeInv,
              Registered, HasSession, Registry!Registered, Registry!RegisteredNodes,
              Manager!HasSession, Manager!NoSession, Registry!NoNode, NoNode
  <1>1. NodesAreWhole'
    BY DEF NodesAreWhole
  <1>2. Registry!AgentIndexSound'
    BY DEF Registry!AgentIndexSound
  <1>3. RoutesAreLive'
    <2>1. \A ch \in Channels : wired /\ channelBindings'[ch] # NoNode
                                 => channelBindings'[ch] \in dispatchers'
      BY DEF RoutesAreLive
    <2>2. \A k \in Keys : wired /\ conversations'[k] # NoNode
                             => conversations'[k] \in dispatchers'
      BY DEF RoutesAreLive
    <2>3. \A a \in Agents : wired /\ agentIndex'[a] # NoNode
                               => agentIndex'[a] \in dispatchers'
      BY DEF RoutesAreLive, Registry!AgentIndexSound
    <2> QED BY <2>1, <2>2, <2>3 DEF RoutesAreLive
  <1>4. AlwaysSavable'
    BY DEF AlwaysSavable, Consistent, OneIdPerConnection
  <1> QED BY <1>1, <1>2, <1>3, <1>4

-----------------------------------------------------------------------------
(* handleEvent, seen from the gateway: the type of the session state is     *)
(* kept, and only "disconnect" takes a session away.                        *)
LEMMA HandleEventKeeps ==
  ASSUME TypeOK, NEW n \in Nodes, NEW e, e # "disconnect", Manager!HandleEvent(n, e)
  PROVE  /\ sessions' \in Manager!Sessions
         /\ identities' \in Manager!IdentityMaps
         /\ idleTimers' \in SUBSET Nodes
         /\ suspendTimers' \in SUBSET Nodes
         /\ \A m \in Nodes : HasSession(m)' = HasSession(m)
  <1> USE DEF TypeOK, Manager!TypeOK, Manager!Sessions, Manager!States, Manager!NoSession,
              HasSession, Manager!HasSession
  <1>1. CASE UNCHANGED <<sessions, identities, idleTimers, suspendTimers>>
    BY <1>1
  <1>2. ASSUME NEW s \in Manager!States, sessions' = [sessions EXCEPT ![n] = s],
               Manager!UpdateTimers(n, s), identities' = identities
        PROVE  /\ sessions' \in Manager!Sessions
               /\ identities' \in Manager!IdentityMaps
               /\ idleTimers' \in SUBSET Nodes
               /\ suspendTimers' \in SUBSET Nodes
               /\ \A m \in Nodes : HasSession(m)' = HasSession(m)
    <2>1. HasSession(n)
      BY DEF Manager!HandleEvent
    <2> QED BY <1>2, <2>1 DEF Manager!UpdateTimers
  <1>3. \/ UNCHANGED <<sessions, identities, idleTimers, suspendTimers>>
        \/ \E s \in Manager!States : /\ sessions' = [sessions EXCEPT ![n] = s]
                                     /\ Manager!UpdateTimers(n, s)
                                     /\ identities' = identities
    BY DEF Manager!HandleEvent, Manager!timers, Manager!Transitions
  <1> QED BY <1>1, <1>2, <1>3

(* Registration.  A refused one changes the maps alone; an accepted one     *)
(* adds a node nobody else mapped to.                                       *)
LEMMA RegisterMaps ==
  ASSUME TypeOK, MapInv, NEW c \in Conns, NEW n \in ClientIds[c],
         CompleteRegister(c, n), verifying' \subseteq verifying
  PROVE  MapInv'
  <1> USE NodesAssumption, ConnsAssumption, IdsAssumption
          DEF TypeOK, Registry!TypeOK, MapInv, NodeOf, CompleteRegister, Registry!Register,
              Registered, Registry!Registered, subsystems, registry
  <1>1. RecordedIsRegistered'
    BY DEF RecordedIsRegistered
  <1>2. IdsRespected'
    BY DEF IdsRespected
  <1>3. MappedIsRecorded'
    <2> SUFFICES ASSUME OneIdPerConnection, NEW d \in Conns, connectionToNode'[d] # NoNode
                 PROVE  nodeToConnection'[connectionToNode'[d]] = d
      BY DEF MappedIsRecorded, OneIdPerConnection
    <2>1. NodeOf(c) \in {NoNode, n}
      BY DEF OneIdPerConnection, IdsRespected
    <2>2. CASE Registered(n)
      BY <2>1, <2>2 DEF MappedIsRecorded
    <2>3. CASE ~Registered(n)
      BY <2>1, <2>3 DEF MappedIsRecorded, RecordedIsRegistered
    <2> QED BY <2>2, <2>3
  <1> QED BY <1>1, <1>2, <1>3

LEMMA RegisterNodes ==
  ASSUME TypeOK, NodeInv, NEW c \in Conns, NEW n \in Nodes, CompleteRegister(c, n)
  PROVE  NodeInv'
  <1> USE NodesAssumption
  <1>1. CASE UNCHANGED <<subsystems, wired>>
    BY <1>1 DEF subsystems, registry, sessionState, routing, NodesAreWhole, RoutesAreLive,
                AlwaysSavable, Consistent, OneIdPerConnection, Registry!AgentIndexSound,
                NodeInv, Registered, HasSession, Registry!Registered, Manager!HasSession
  <1>2. CASE /\ Registry!Register(n)
             /\ IF HasSession(n)
                THEN UNCHANGED <<sessionState, dispatchers>>
                ELSE Manager!CreateSession(n) /\ dispatchers' = dispatchers \union {n}
             /\ UNCHANGED <<channelBindings, conversations, deliveries, wired>>
    <2>1. \A m \in Nodes : Registered(m)' <=> Registered(m) \/ m = n
      BY <1>2 DEF Registry!Register, TypeOK, Registry!TypeOK, Registered, Registry!Registered
    <2>2. wired => /\ \A m \in Nodes : HasSession(m)' <=> HasSession(m) \/ m = n
                   /\ dispatchers' = dispatchers \union {n}
      <3>1. CASE HasSession(n)
        <4>1. UNCHANGED <<sessions, dispatchers>>
          BY <1>2, <3>1 DEF sessionState
        <4>2. ~Registered(n)
          BY <1>2 DEF Registry!Register, Registered
        <4> QED BY <3>1, <4>1, <4>2 DEF NodesAreWhole, NodeInv
      <3>2. CASE ~HasSession(n)
        <4>1. /\ sessions' = [sessions EXCEPT ![n] = "connected"]
              /\ dispatchers' = dispatchers \union {n}
          BY <1>2, <3>2 DEF Manager!CreateSession
        <4>2. sessions \in [Nodes -> Manager!States \union {Manager!NoSession}]
          BY DEF TypeOK, Manager!TypeOK, Manager!Sessions
        <4> QED BY <4>1, <4>2 DEF HasSession, Manager!HasSession, Manager!NoSession
      <3> QED BY <3>1, <3>2
    <2>3. NodesAreWhole'
      BY <1>2, <2>1, <2>2 DEF NodesAreWhole, NodeInv
    <2>4. Registry!AgentIndexSound'
      BY <1>2, <2>1 DEF Registry!AgentIndexSound, Registry!Register, NodeInv, TypeOK,
                        Registry!TypeOK, Registered, Registry!NoNode, NoNode
    <2>5. RoutesAreLive'
      <3>1. wired => /\ \A ch \in Channels : channelBindings'[ch] # NoNode
                                      => channelBindings'[ch] \in dispatchers'
                     /\ \A k \in Keys : conversations'[k] # NoNode
                                      => conversations'[k] \in dispatchers'
        BY <1>2, <2>2 DEF RoutesAreLive, NodeInv
      <3>2. wired => \A a \in Agents : agentIndex'[a] # NoNode => agentIndex'[a] \in dispatchers'
        BY <1>2, <2>2 DEF RoutesAreLive, NodeInv, Registry!Register
      <3> QED BY <1>2, <3>1, <3>2 DEF RoutesAreLive
    <2>6. AlwaysSavable'
      <3> SUFFICES ASSUME wired, OneIdPerConnection
                   PROVE  Consistent(sessions', conversations', deliveries')
        BY <1>2 DEF AlwaysSavable, OneIdPerConnection
      <3>1. Consistent(sessions, conversations, deliveries)
        BY DEF AlwaysSavable, NodeInv
      <3>2. \A m \in Nodes : sessions[m] # "none" => sessions'[m] # "none"
        BY <2>2 DEF HasSession, Manager!HasSession, Manager!NoSession
      <3>3. conversations \in [Keys -> Nodes \union {NoNode}]
        BY DEF TypeOK
      <3> QED BY <1>2, <3>1, <3>2, <3>3 DEF Consistent
    <2> QED BY <2>3, <2>4, <2>5, <2>6 DEF NodeInv
  <1> QED BY <1>1, <1>2 DEF CompleteRegister

-----------------------------------------------------------------------------
(* The mapping part.  Entries that go together leave the rest related, and  *)
(* steps that leave the maps alone keep it if no registered node leaves.    *)
LEMMA ForgetKeepsMaps ==
  ASSUME TypeOK, MapInv, NEW S \in SUBSET Nodes, NEW C,
         OneIdPerConnection => Recorded(S) \subseteq C \union {NoConn},
         ForgetMaps(C, S), verifying' \subseteq verifying,
         \A n \in Nodes \ S : Registered(n) => Registered(n)'
  PROVE  MapInv'
  <1> USE ConnsAssumption, NodesAssumption DEF TypeOK, MapInv, ForgetMaps, NodeOf
  <1>1. RecordedIsRegistered'
    BY DEF RecordedIsRegistered
  <1>2. IdsRespected'
    BY DEF IdsRespected
  <1>3. MappedIsRecorded'
    <2> SUFFICES ASSUME OneIdPerConnection, NEW d \in Conns, connectionToNode'[d] # NoNode
                 PROVE  nodeToConnection'[connectionToNode'[d]] = d
      BY DEF MappedIsRecorded, OneIdPerConnection
    <2>1. connectionToNode'[d] = connectionToNode[d] /\ d \notin C
      OBVIOUS
    <2>2. nodeToConnection[connectionToNode[d]] = d
      BY <2>1 DEF MappedIsRecorded
    <2>3. connectionToNode[d] \notin S
      BY <2>1, <2>2 DEF Recorded
    <2> QED BY <2>1, <2>2, <2>3
  <1> QED BY <1>1, <1>2, <1>3

LEMMA OtherStepsKeepMaps ==
  ASSUME TypeOK, MapInv, UNCHANGED maps,
         \A c \in Conns, n \in Nodes : <<c, n>> \in verifying'
            => <<c, n>> \in verifying \/ n \in ClientIds[c],
         \A n \in Nodes : Registered(n) => Registered(n)'
  PROVE  MapInv'
  BY DEF MapInv, maps, NodeOf, RecordedIsRegistered, MappedIsRecorded, OneIdPerConnection,
         IdsRespected

(* Sweep and Down clean up nodes too, with the registry's own actions.      *)
LEMMA RegistryKeeps ==
  ASSUME TypeOK, NEW S \in SUBSET Nodes,
         \/ CleanupSubsystems(S)
         \/ Registry!SweepNodes /\ S = Registry!Dead
         \/ Registry!Clear /\ S = Nodes
  PROVE  \A n \in Nodes : Registered(n)' <=> Registered(n) /\ n \notin S
  BY DEF TypeOK, Registry!TypeOK, CleanupSubsystems, Registry!Deregister, Registry!SweepNodes,
         Registry!Clear, Registry!Dead, Registered, Registry!Registered, Registry!RegisteredNodes

LEMMA MapStep == TypeOK /\ MapInv /\ [Next]_vars => MapInv'
  <1> SUFFICES ASSUME TypeOK, MapInv, [Next]_vars PROVE MapInv'
    OBVIOUS
  <1> USE IdsAssumption
  <1>1. ASSUME UNCHANGED <<maps, verifying, registry>> PROVE MapInv'
    BY <1>1, OtherStepsKeepMaps DEF registry, Registered, Registry!Registered
  <1>2. ASSUME NEW c \in Conns, NEW n \in ClientIds[c], Register(c, n) PROVE MapInv'
    <2>1. CASE CompleteRegister(c, n) /\ UNCHANGED verifying
      BY <2>1, RegisterMaps
    <2>2. CASE verifying' = verifying \union {<<c, n>>} /\ UNCHANGED <<maps, subsystems>>
      BY <2>2, OtherStepsKeepMaps DEF subsystems, registry, Registered, Registry!Registered
    <2> QED BY <1>2, <2>1, <2>2 DEF Register
  <1>3. ASSUME NEW c \in Conns, NEW n \in ClientIds[c], Verified(c, n) PROVE MapInv'
    <2>1. verifying' \subseteq verifying
      BY <1>3 DEF Verified
    <2>2. CASE CompleteRegister(c, n)
      BY <2>1, <2>2, RegisterMaps
    <2>3. CASE UNCHANGED <<maps, subsystems>>
      BY <2>1, <2>3, OtherStepsKeepMaps DEF subsystems, registry, Registered, Registry!Registered
    <2> QED BY <1>3, <2>2, <2>3 DEF Verified
  <1>4. ASSUME NEW c \in Conns, NEW n \in Nodes, Deregister(c, n) PROVE MapInv'
    BY <1>4, ForgetKeepsMaps, RegistryKeeps DEF Deregister
  <1>5. ASSUME NEW c \in Conns, Disconnect(c) PROVE MapInv'
    <2>1. CASE UNCHANGED <<maps, subsystems>>
      BY <1>1, <1>5, <2>1 DEF Disconnect, subsystems
    <2>2. ASSUME NEW n \in Nodes, NodeOf(c) = n, DisconnectNode(c, n) PROVE MapInv'
      <3>1. OneIdPerConnection => Recorded({n}) = {c}
        BY <2>2, NodesAssumption DEF MapInv, MappedIsRecorded, Recorded
      <3>2. CASE CleanupSubsystems({n}) /\ ForgetMaps(Recorded({n}) \union {c}, {n})
        BY <1>5, <3>2, ForgetKeepsMaps, RegistryKeeps DEF Disconnect
      <3>3. CASE ForgetMaps({c}, {n}) /\ UNCHANGED registry
        BY <1>5, <3>1, <3>3, ForgetKeepsMaps DEF Disconnect, registry, Registered, Registry!Registered
      <3> QED BY <2>2, <3>2, <3>3 DEF DisconnectNode, subsystems
    <2> QED BY <1>5, <2>1, <2>2 DEF Disconnect
  <1>6. ASSUME NEW c \in Conns, Pong(c) PROVE MapInv'
    BY <1>6, OtherStepsKeepMaps
       DEF Pong, TypeOK, Registry!TypeOK, Registry!MarkAlive, Registered, Registry!Registered
  <1>7. CASE Sweep
    BY <1>7, ForgetKeepsMaps, RegistryKeeps DEF Sweep, Registry!Dead
  <1>8. CASE Down
    BY <1>8, ForgetKeepsMaps DEF Down, TypeOK, Recorded
  <1>9. CASE Start
    BY <1>1, <1>9 DEF Start, subsystems
  <1>10. CASE CallStep \/ ScopeChanged \/ \E n \in Nodes : Timeout(n)
    BY <1>1, <1>10 DEF CallStep, ScopeChanged, Timeout, UnbindChannel, BindChannel, RouteWithScope,
                       UpdateSessionIdentity
  <1>11. CASE UNCHANGED vars
    BY <1>1, <1>11 DEF vars, subsystems
  <1>12. ASSUME NEW c \in Conns, \/ Connect(c)
                                 \/ \E m \in Messages : LaneMessage(c, m) \/ LaneMessageAck(c, m)
         PROVE  MapInv'
    BY <1>1, <1>12 DEF Connect, LaneMessage, LaneMessageAck, subsystems
  <1> QED
    BY <1>2, <1>3, <1>4, <1>5, <1>6, <1>7, <1>8, <1>9, <1>10, <1>11, <1>12
       DEF Next, FrameStep, Crash, Stop

-----------------------------------------------------------------------------
(* The subsystem part.  A step that leaves the subsystems alone keeps it.   *)
LEMMA QuietStepsKeepNodes ==
  ASSUME NodeInv, UNCHANGED <<subsystems, wired>>
  PROVE  NodeInv'
  BY DEF subsystems, registry, sessionState, routing, NodesAreWhole, RoutesAreLive,
         AlwaysSavable, Consistent, OneIdPerConnection, Registry!AgentIndexSound,
         NodeInv, Registered, HasSession, Registry!Registered, Manager!HasSession

(* and so does one that keeps who is registered, who has a session and the  *)
(* agent index, and adds only routes that are live and deliveries of nodes  *)
(* with a session.                                                          *)
LEMMA RouteStepsKeepNodes ==
  ASSUME TypeOK, NodeInv, UNCHANGED <<agentIndex, dispatchers, wired>>,
         \A n \in Nodes : Registered(n)' = Registered(n),
         \A n \in Nodes : HasSession(n)' = HasSession(n),
         wired => \A ch \in Channels : channelBindings'[ch] = channelBindings[ch]
                    \/ channelBindings'[ch] \in dispatchers \union {NoNode},
         wired => \A k \in Keys : conversations'[k] = conversations[k]
                    \/ conversations'[k] \in dispatchers \union {NoNode},
         wired /\ OneIdPerConnection =>
           \A n \in Nodes : deliveries'[n] \subseteq deliveries[n] \/ HasSession(n)
  PROVE  NodeInv'
  <1> USE DEF NodeInv
  <1>1. NodesAreWhole'
    BY DEF NodesAreWhole
  <1>2. RoutesAreLive'
    BY DEF RoutesAreLive
  <1>3. Registry!AgentIndexSound'
    BY NodesAssumption DEF Registry!AgentIndexSound, TypeOK, Registry!TypeOK, Registered,
                           Registry!NoNode, NoNode
  <1>4. AlwaysSavable'
    <2> SUFFICES ASSUME wired, OneIdPerConnection
                 PROVE  Consistent(sessions', conversations', deliveries')
      BY DEF AlwaysSavable, OneIdPerConnection
    <2> USE DEF HasSession, Manager!HasSession, Manager!NoSession
    <2>1. Consistent(sessions, conversations, deliveries)
      BY DEF AlwaysSavable
    <2>2. \A n \in dispatchers : sessions'[n] # "none"
      BY DEF NodesAreWhole, TypeOK
    <2>3. \A k \in Keys : conversations'[k] # NoNode => sessions'[conversations'[k]] # "none"
      <3> SUFFICES ASSUME NEW k \in Keys, conversations'[k] # NoNode
                   PROVE  sessions'[conversations'[k]] # "none"
        OBVIOUS
      <3>1. CASE conversations'[k] = conversations[k]
        BY <2>1, <3>1 DEF Consistent, TypeOK
      <3> QED BY <2>2, <3>1
    <2>4. \A n \in Nodes : deliveries'[n] # {} => sessions'[n] # "none"
      BY <2>1 DEF Consistent
    <2> QED BY <2>3, <2>4 DEF Consistent
  <1> QED BY <1>1, <1>2, <1>3, <1>4

(* While the handler is wired a connection maps to a node with a session.   *)
LEMMA MappedHasSession ==
  ASSUME TypeOK, MapInv, NodeInv, wired, OneIdPerConnection, NEW c \in Conns, Mapped(c)
  PROVE  HasSession(NodeOf(c))
  <1>1. NodeOf(c) \in Nodes /\ nodeToConnection[NodeOf(c)] = c
    BY DEF TypeOK, NodeOf, Mapped, MapInv, MappedIsRecorded
  <1>2. Registered(NodeOf(c))
    BY <1>1, ConnsAssumption DEF MapInv, RecordedIsRegistered
  <1> QED BY <1>1, <1>2 DEF NodeInv, NodesAreWhole

LEMMA NodeStep == TypeOK /\ DownIsEmpty /\ MapInv /\ NodeInv /\ [Next]_vars => NodeInv'
  <1> SUFFICES ASSUME TypeOK, DownIsEmpty, MapInv, NodeInv, [Next]_vars PROVE NodeInv'
    OBVIOUS
  <1> USE IdsAssumption, NodesAssumption
  <1>1. ASSUME NEW c \in Conns, NEW n \in Nodes, Register(c, n) \/ Verified(c, n) PROVE NodeInv'
    BY <1>1, RegisterNodes, QuietStepsKeepNodes DEF Register, Verified
  <1>2. ASSUME NEW c \in Conns, NEW n \in Nodes, Deregister(c, n) PROVE NodeInv'
    BY <1>2, CleanupNodes DEF Deregister
  <1>3. ASSUME NEW c \in Conns, Disconnect(c) PROVE NodeInv'
    <2>1. CASE UNCHANGED subsystems
      BY <1>3, <2>1, QuietStepsKeepNodes DEF Disconnect
    <2>2. ASSUME NEW n \in Nodes, CleanupSubsystems({n}) PROVE NodeInv'
      BY <1>3, <2>2, CleanupNodes DEF Disconnect
    <2>3. CASE ~wired /\ UNCHANGED <<registry, wired>>
      BY <2>3 DEF NodeInv, NodesAreWhole, RoutesAreLive, AlwaysSavable, registry,
                  Registry!AgentIndexSound, Registry!Registered
    <2> QED BY <1>3, <2>1, <2>2, <2>3 DEF Disconnect, DisconnectNode
  <1>4. ASSUME NEW c \in Conns, Pong(c) PROVE NodeInv'
    <2>1. NodeOf(c) \in Nodes
      BY <1>4 DEF Pong, Mapped, TypeOK, NodeOf
    <2>2. \A n \in Nodes : HasSession(n)' = HasSession(n)
      BY <1>4, <2>1, HandleEventKeeps DEF Pong, sessionState, HasSession, Manager!HasSession
    <2>3. \A n \in Nodes : Registered(n)' = Registered(n)
      BY <1>4, <2>1 DEF Pong, Registry!MarkAlive, Registered, Registry!Registered, TypeOK, Registry!TypeOK
    <2> QED BY <1>4, <2>2, <2>3, RouteStepsKeepNodes DEF Pong, Registry!MarkAlive, routing
  <1>5. ASSUME NEW c \in Conns, NEW m \in Messages, LaneMessage(c, m) \/ LaneMessageAck(c, m)
        PROVE  NodeInv'
    <2>1. /\ UNCHANGED <<registry, sessionState, wired, dispatchers, channelBindings, conversations>>
          /\ Mapped(c)
      BY <1>5 DEF LaneMessage, LaneMessageAck
    <2>2. \A n \in Nodes : deliveries'[n] \subseteq deliveries[n] \/ n = NodeOf(c)
      BY <1>5 DEF LaneMessage, LaneMessageAck, TypeOK
    <2> QED
      BY <2>1, <2>2, MappedHasSession, RouteStepsKeepNodes
         DEF registry, sessionState, Registered, Registry!Registered, HasSession, Manager!HasSession
  <1>6. CASE CallStep \/ ScopeChanged
    <2>1. ASSUME NEW n \in Nodes, UpdateSessionIdentity(n) PROVE NodeInv'
      BY <2>1, RouteStepsKeepNodes
         DEF UpdateSessionIdentity, Manager!UpdateIdentity, registry, routing, Registered,
             Registry!Registered, HasSession, Manager!HasSession
    <2>2. ASSUME UNCHANGED <<registry, sessionState, wired, dispatchers, deliveries>>,
                 wired => \A ch \in Channels : channelBindings'[ch] = channelBindings[ch]
                            \/ channelBindings'[ch] \in dispatchers \union {NoNode},
                 wired => \A k \in Keys : conversations'[k] = conversations[k]
                            \/ conversations'[k] \in dispatchers \union {NoNode}
          PROVE  NodeInv'
      BY <2>2, RouteStepsKeepNodes
         DEF registry, sessionState, Registered, Registry!Registered, HasSession, Manager!HasSession
    <2>3. ASSUME NEW ch \in Channels, NEW n \in Nodes, BindChannel(ch, n) PROVE NodeInv'
      <3>1. wired => n \in dispatchers
        BY <2>3 DEF BindChannel, NodeInv, NodesAreWhole
      <3> QED BY <2>2, <2>3, <3>1 DEF BindChannel, TypeOK
    <2>4. ASSUME NEW ch \in Channels, UnbindChannel(ch) PROVE NodeInv'
      BY <2>2, <2>4 DEF UnbindChannel, TypeOK
    <2>5. ASSUME NEW k \in Keys, RouteWithScope(k) PROVE NodeInv'
      BY <2>2, <2>5 DEF RouteWithScope, Targets, TypeOK
    <2>6. CASE ScopeChanged
      BY <2>2, <2>6 DEF ScopeChanged
    <2> QED BY <1>6, <2>1, <2>3, <2>4, <2>5, <2>6 DEF CallStep
  <1>7. ASSUME NEW n \in Nodes, Timeout(n) PROVE NodeInv'
    <2>1. \A k \in Nodes : HasSession(k)' = HasSession(k)
      BY <1>7, HandleEventKeeps DEF Timeout, Manager!IdleTimeout, Manager!SuspendTimeout
    <2> QED BY <1>7, <2>1, RouteStepsKeepNodes
            DEF Timeout, registry, routing, Registered, Registry!Registered
  <1>8. CASE Sweep
    <2> DEFINE D == Registry!Dead
    <2> PICK expired \in SUBSET Keys :
          ForgetRoutes(D, [k \in Keys |-> IF k \in expired THEN NoNode ELSE conversations[k]])
      BY <1>8 DEF Sweep
    <2>1. \A n \in Nodes : Registered(n)' <=> Registered(n) /\ n \notin D
      BY <1>8, RegistryKeeps DEF Sweep, Registry!Dead
    <2>2. \A n \in Nodes : sessions'[n] = IF n \in D THEN "none" ELSE sessions[n]
      BY <1>8 DEF Sweep, Manager!RemoveSessions, Manager!NoSession
    <2>3. dispatchers' = dispatchers \ D /\ wired' = wired
      BY <1>8 DEF Sweep, ForgetRoutes
    <2>4. NodesAreWhole'
      BY <2>1, <2>2, <2>3 DEF NodeInv, NodesAreWhole, HasSession, Manager!HasSession, Manager!NoSession
    <2>5. \A a \in Agents : \/ agentIndex'[a] = NoNode
                            \/ agentIndex'[a] = agentIndex[a] /\ agentIndex[a] \notin D
      BY <1>8 DEF Sweep, Registry!SweepNodes, Registry!NoNode, NoNode, NodeInv,
                  Registry!AgentIndexSound
    <2>6. Registry!AgentIndexSound'
      BY <2>1, <2>5 DEF NodeInv, Registry!AgentIndexSound, Registered, Registry!NoNode, NoNode,
                        TypeOK, Registry!TypeOK
    <2>7. RoutesAreLive'
      BY <2>3, <2>5 DEF NodeInv, RoutesAreLive, ForgetRoutes
    <2>8. AlwaysSavable'
      <3> SUFFICES ASSUME wired, OneIdPerConnection
                   PROVE  Consistent(sessions', conversations', deliveries')
        BY <2>3 DEF AlwaysSavable, OneIdPerConnection
      <3> QED BY <2>2 DEF NodeInv, AlwaysSavable, Consistent, ForgetRoutes, TypeOK
    <2> QED BY <2>4, <2>6, <2>7, <2>8 DEF NodeInv
  <1>9. CASE Down
    BY <1>9 DEF Down, Manager!Dispose, Registry!Clear, NodeInv, NodesAreWhole, RoutesAreLive,
                AlwaysSavable, Registry!AgentIndexSound
  <1>10. CASE Start
    <2>1. CASE wired' = TRUE /\ UNCHANGED subsystems
      <3>1. /\ sessions' = [n \in Nodes |-> "none"]
            /\ nodes' = [n \in Nodes |-> "absent"]
            /\ agentIndex' = [a \in Agents |-> NoNode]
            /\ dispatchers' = {}
            /\ channelBindings' = [ch \in Channels |-> NoNode]
            /\ conversations' = [k \in Keys |-> NoNode]
            /\ deliveries' = [n \in Nodes |-> {}]
        BY <1>10, <2>1 DEF Start, DownIsEmpty, subsystems, registry, sessionState, routing
      <3>2. NodesAreWhole'
        BY <3>1 DEF NodesAreWhole, Registered, HasSession, Registry!Registered,
                    Manager!HasSession, Manager!NoSession
      <3>3. RoutesAreLive' /\ AlwaysSavable'
        BY <3>1 DEF RoutesAreLive, AlwaysSavable, Consistent
      <3>4. Registry!AgentIndexSound'
        BY <3>1 DEF Registry!AgentIndexSound, Registry!NoNode, NoNode
      <3> QED BY <3>2, <3>3, <3>4 DEF NodeInv
    <2>2. CASE ~wired' /\ UNCHANGED registry
      BY <2>2 DEF NodeInv, NodesAreWhole, RoutesAreLive, AlwaysSavable, registry,
                  Registry!AgentIndexSound, Registry!Registered
    <2> QED BY <1>10, <2>1, <2>2 DEF Start, Manager!FromSnapshot
  <1>11. CASE UNCHANGED vars
    BY <1>11, QuietStepsKeepNodes DEF vars
  <1>12. ASSUME NEW c \in Conns, Connect(c) PROVE NodeInv'
    BY <1>12, QuietStepsKeepNodes DEF Connect
  <1> QED
    BY <1>1, <1>2, <1>3, <1>4, <1>5, <1>6, <1>7, <1>8, <1>9, <1>10, <1>11, <1>12
       DEF Next, FrameStep, Crash, Stop

-----------------------------------------------------------------------------
(* A process that is down holds nothing, and starts only from a checkpoint. *)
LEMMA DownStep == TypeOK /\ DownIsEmpty /\ [Next]_vars => DownIsEmpty'
  <1> SUFFICES ASSUME TypeOK, DownIsEmpty, [Next]_vars, ~up' PROVE DownIsEmpty'
    BY DEF DownIsEmpty
  <1> USE IdsAssumption
  <1>1. CASE Down
    <2>1. /\ sessions' = [n \in Nodes |-> "none"]
          /\ wired' = FALSE
      BY <1>1 DEF Down, Manager!Dispose, Manager!RemoveSessions, Manager!NoSession
    <2>2. /\ dispatchers' = {}
          /\ channelBindings' = [ch \in Channels |-> NoNode]
          /\ conversations' = [k \in Keys |-> NoNode]
          /\ deliveries' = [n \in Nodes |-> {}]
      BY <1>1 DEF Down, ForgetRoutes, TypeOK
    <2>3. /\ nodes' = [n \in Nodes |-> "absent"]
          /\ agentIndex' = [a \in Agents |-> NoNode]
      BY <1>1 DEF Down, Registry!Clear, Registry!NoNode, NoNode
    <2>4. /\ connectionToNode' = [c \in Conns |-> NoNode]
          /\ nodeToConnection' = [n \in Nodes |-> NoConn]
          /\ verifying' = {}
          /\ \A c \in Conns : conns'[c] # "open"
      BY <1>1 DEF Down, ForgetMaps
    <2> QED BY <2>1, <2>2, <2>3, <2>4 DEF DownIsEmpty
  <1>2. CASE ~Down /\ up
    BY <1>2 DEF Next, Connect, Disconnect, FrameStep, Register, Verified, Deregister, Pong, LaneMessage,
                LaneMessageAck, CallStep, UnbindChannel, BindChannel, RouteWithScope,
                UpdateSessionIdentity, Timeout, ScopeChanged, Sweep, Crash, Stop, Start, vars
  <1>3. CASE ~up
    <2>1. ASSUME NEW c \in Conns PROVE ~(Connect(c) \/ Disconnect(c) \/ FrameStep(c))
      BY <1>3, <2>1 DEF DownIsEmpty, Open, Mapped, Connect, Disconnect, FrameStep, Register, Verified,
                        Deregister, Pong, LaneMessage, LaneMessageAck
    <2>2. ASSUME NEW n \in Nodes PROVE ~(Timeout(n) \/ UpdateSessionIdentity(n)
                                          \/ \E ch \in Channels : BindChannel(ch, n))
      BY <1>3, <2>2 DEF DownIsEmpty, Timeout, UpdateSessionIdentity, BindChannel, Manager!IdleTimeout,
                        Manager!SuspendTimeout, Manager!UpdateIdentity, Manager!HandleEvent,
                        Manager!HasSession, Manager!NoSession, Registered, Registry!Registered
    <2>3. ~\E k \in Keys : RouteWithScope(k)
      BY <1>3 DEF DownIsEmpty, RouteWithScope, Targets
    <2>4. ASSUME NEW ch \in Channels, UnbindChannel(ch) PROVE DownIsEmpty'
      BY <1>3, <2>4 DEF UnbindChannel, DownIsEmpty, TypeOK, maps, registry, sessionState
    <2>5. CASE UNCHANGED vars
      BY <1>3, <2>5 DEF DownIsEmpty, vars, maps, subsystems, registry, sessionState, routing
    <2> QED
      BY <1>3, <2>1, <2>2, <2>3, <2>4, <2>5
         DEF Next, CallStep, ScopeChanged, Sweep, Crash, Stop, Start, Down
  <1> QED BY <1>1, <1>2, <1>3 DEF TypeOK

-----------------------------------------------------------------------------
(* Type correctness, one group of variables at a time.                      *)
MapTypes ==
  /\ verifying \in SUBSET (Conns \X Nodes)
  /\ connectionToNode \in [Conns -> Nodes \union {NoNode}]
  /\ nodeToConnection \in [Nodes -> Conns \union {NoConn}]
SessionTypes ==
  /\ sessions \in Manager!Sessions
  /\ identities \in Manager!IdentityMaps
  /\ idleTimers \in SUBSET Nodes
  /\ suspendTimers \in SUBSET Nodes
RouteTypes ==
  /\ dispatchers \in SUBSET Nodes
  /\ channelBindings \in [Channels -> Nodes \union {NoNode}]
  /\ conversations \in [Keys -> Nodes \union {NoNode}]
  /\ deliveries \in [Nodes -> SUBSET Messages]

LEMMA TypeParts ==
  /\ TypeOK => /\ conns \in [Conns -> {"new", "open", "closed"}]
               /\ up \in BOOLEAN /\ wired \in BOOLEAN
               /\ MapTypes /\ Registry!TypeOK /\ SessionTypes /\ RouteTypes
               /\ checkpoint \in Snapshot
  /\ (/\ conns \in [Conns -> {"new", "open", "closed"}]
      /\ up \in BOOLEAN /\ wired \in BOOLEAN
      /\ MapTypes /\ Registry!TypeOK /\ SessionTypes /\ RouteTypes
      /\ checkpoint \in Snapshot)' => TypeOK'
  BY DEF TypeOK, Manager!TypeOK, MapTypes, SessionTypes, RouteTypes, Snapshot

LEMMA CompleteRegisterTypes ==
  ASSUME TypeOK, NEW c \in Conns, NEW n \in Nodes, CompleteRegister(c, n),
         verifying' \subseteq verifying
  PROVE  MapTypes' /\ Registry!TypeOK' /\ SessionTypes' /\ RouteTypes' /\ wired' = wired
  <1> USE NodesAssumption, ConnsAssumption DEF TypeOK
  <1>1. MapTypes'
    BY DEF MapTypes, CompleteRegister, NodeOf
  <1>2. CASE UNCHANGED <<subsystems, wired>>
    BY <1>1, <1>2 DEF subsystems, registry, sessionState, routing, Registry!TypeOK, SessionTypes,
                      RouteTypes, Manager!TypeOK
  <1>3. CASE /\ Registry!Register(n)
             /\ IF HasSession(n)
                THEN UNCHANGED <<sessionState, dispatchers>>
                ELSE Manager!CreateSession(n) /\ dispatchers' = dispatchers \union {n}
             /\ UNCHANGED <<channelBindings, conversations, deliveries, wired>>
    <2>1. Registry!TypeOK'
      BY <1>3 DEF Registry!TypeOK, Registry!Register, Registry!NoNode, NoNode
    <2>2. SessionTypes' /\ RouteTypes'
      <3>1. CASE HasSession(n)
        BY <1>3, <3>1 DEF SessionTypes, RouteTypes, sessionState, Manager!TypeOK
      <3>2. CASE ~HasSession(n)
        BY <1>3, <3>2 DEF SessionTypes, RouteTypes, Manager!CreateSession, Manager!TypeOK,
                          Manager!Sessions, Manager!States
      <3> QED BY <3>1, <3>2
    <2> QED BY <1>1, <1>3, <2>1, <2>2
  <1> QED BY <1>2, <1>3 DEF CompleteRegister

LEMMA CleanupTypes ==
  ASSUME TypeOK, NEW S \in SUBSET Nodes, NEW bound \in [Keys -> Nodes \union {NoNode}],
         ForgetRoutes(S, bound), Manager!RemoveSessions(S)
  PROVE  SessionTypes' /\ RouteTypes'
  BY DEF TypeOK, ForgetRoutes, Manager!RemoveSessions, SessionTypes, RouteTypes, Manager!TypeOK,
         Manager!Sessions, Manager!IdentityMaps

LEMMA TypeStep == TypeOK /\ [Next]_vars => TypeOK'
  <1> SUFFICES ASSUME TypeOK, [Next]_vars PROVE TypeOK'
    OBVIOUS
  <1> USE IdsAssumption
  <1>0. /\ conns \in [Conns -> {"new", "open", "closed"}]
        /\ up \in BOOLEAN /\ wired \in BOOLEAN /\ checkpoint \in Snapshot
        /\ MapTypes /\ Registry!TypeOK /\ SessionTypes /\ RouteTypes
    BY TypeParts
  <1>1. ASSUME UNCHANGED maps, verifying' \subseteq Conns \X Nodes PROVE MapTypes'
    BY <1>1 DEF TypeOK, MapTypes, maps
  <1>2. ASSUME NEW C, NEW S, ForgetMaps(C, S), verifying' \subseteq verifying PROVE MapTypes'
    BY <1>2 DEF TypeOK, MapTypes, ForgetMaps
  <1>3. ASSUME UNCHANGED sessionState PROVE SessionTypes'
    BY <1>0, <1>3 DEF SessionTypes, sessionState
  <1>4. ASSUME UNCHANGED registry PROVE Registry!TypeOK'
    BY <1>0, <1>4 DEF Registry!TypeOK, registry
  <1>5. ASSUME UNCHANGED routing PROVE RouteTypes'
    BY <1>0, <1>5 DEF RouteTypes, routing
  <1>6. ASSUME NEW S \in SUBSET Nodes, CleanupSubsystems(S)
        PROVE  Registry!TypeOK' /\ SessionTypes' /\ RouteTypes'
    <2>1. Registry!TypeOK'
      BY <1>0, <1>6 DEF CleanupSubsystems, Registry!Deregister, Registry!TypeOK, Registry!NoNode, NoNode
    <2> QED BY <1>6, <2>1, CleanupTypes DEF CleanupSubsystems, TypeOK
  <1>7. ASSUME NEW bound \in [Keys -> Nodes \union {NoNode}], SaveCheckpoint(bound)
        PROVE  checkpoint' \in Snapshot
    <2>1. /\ sessions \in Manager!Sessions
          /\ identities \in Manager!IdentityMaps
          /\ deliveries \in [Nodes -> SUBSET Messages]
      BY <1>0 DEF SessionTypes, RouteTypes
    <2>2. CASE UNCHANGED checkpoint
      BY <1>0, <2>2
    <2>3. CASE checkpoint' = [exists |-> TRUE, sessions |-> sessions, identities |-> identities,
                              conversations |-> bound, deliveries |-> deliveries]
      BY <1>7, <2>1, <2>3 DEF Snapshot
    <2> QED BY <1>7, <2>2, <2>3 DEF SaveCheckpoint
  <1>8. ASSUME NEW c \in Conns, Connect(c) PROVE TypeOK'
    <2>1. conns' \in [Conns -> {"new", "open", "closed"}]
      BY <1>0, <1>8 DEF Connect
    <2> QED BY <1>0, <1>1, <1>3, <1>4, <1>5, <1>8, <2>1, TypeParts DEF Connect, subsystems, MapTypes, TypeOK
  <1>9. ASSUME NEW c \in Conns, NEW n \in ClientIds[c], Register(c, n) PROVE TypeOK'
    <2>1. CASE CompleteRegister(c, n) /\ UNCHANGED verifying
      BY <1>0, <1>9, <2>1, CompleteRegisterTypes, TypeParts DEF Register
    <2>2. CASE /\ verifying' = verifying \union {<<c, n>>}
               /\ UNCHANGED <<maps, subsystems, wired>>
      BY <1>0, <1>1, <1>3, <1>4, <1>5, <1>9, <2>2, TypeParts DEF Register, subsystems, MapTypes
    <2> QED BY <1>9, <2>1, <2>2 DEF Register
  <1>10. ASSUME NEW c \in Conns, NEW n \in ClientIds[c], Verified(c, n) PROVE TypeOK'
    <2>1. CASE CompleteRegister(c, n)
      BY <1>0, <1>10, <2>1, CompleteRegisterTypes, TypeParts DEF Verified
    <2>2. CASE UNCHANGED <<maps, subsystems, wired>>
      BY <1>0, <1>1, <1>3, <1>4, <1>5, <1>10, <2>2, TypeParts DEF Verified, subsystems, MapTypes
    <2> QED BY <1>10, <2>1, <2>2 DEF Verified
  <1>11. ASSUME NEW c \in Conns, NEW n \in Nodes, Deregister(c, n) PROVE TypeOK'
    BY <1>0, <1>2, <1>6, <1>11, TypeParts DEF Deregister
  <1>12. ASSUME NEW c \in Conns, Disconnect(c) PROVE TypeOK'
    <2>1. conns' \in [Conns -> {"new", "open", "closed"}]
      BY <1>0, <1>12 DEF Disconnect
    <2>2. CASE UNCHANGED <<maps, subsystems>>
      BY <1>0, <1>1, <1>3, <1>4, <1>5, <1>12, <2>1, <2>2, TypeParts DEF Disconnect, subsystems, MapTypes
    <2>3. ASSUME NEW n \in Nodes, DisconnectNode(c, n) PROVE TypeOK'
      <3>1. MapTypes'
        BY <1>2, <1>12, <2>3 DEF Disconnect, DisconnectNode
      <3>2. Registry!TypeOK' /\ SessionTypes' /\ RouteTypes'
        <4>1. ASSUME Manager!RemoveSessions({n}) PROVE SessionTypes'
          BY <1>0, <4>1 DEF SessionTypes, Manager!RemoveSessions, Manager!Sessions, Manager!IdentityMaps
        <4> QED BY <1>3, <1>4, <1>5, <1>6, <2>3, <4>1 DEF DisconnectNode, subsystems
      <3> QED BY <1>0, <1>12, <2>1, <3>1, <3>2, TypeParts DEF Disconnect
    <2> QED BY <1>12, <2>2, <2>3 DEF Disconnect
  <1>13. ASSUME NEW c \in Conns, Pong(c) PROVE TypeOK'
    <2>1. NodeOf(c) \in Nodes
      BY <1>13 DEF Pong, Mapped, TypeOK, NodeOf
    <2>2. SessionTypes'
      BY <1>3, <1>13, <2>1, HandleEventKeeps DEF Pong, SessionTypes
    <2>3. Registry!TypeOK'
      BY <1>0, <1>13, <2>1 DEF Pong, Registry!MarkAlive, Registry!TypeOK
    <2> QED BY <1>0, <1>1, <1>5, <1>13, <2>2, <2>3, TypeParts DEF Pong, MapTypes
  <1>14. ASSUME NEW c \in Conns, NEW k \in Messages, LaneMessage(c, k) \/ LaneMessageAck(c, k)
         PROVE  TypeOK'
    <2>1. RouteTypes'
      BY <1>0, <1>14 DEF LaneMessage, LaneMessageAck, RouteTypes, Mapped, TypeOK, NodeOf
    <2>2. UNCHANGED <<conns, up, verifying, maps, registry, sessionState, wired, checkpoint>>
      BY <1>14 DEF LaneMessage, LaneMessageAck
    <2> QED BY <1>0, <1>1, <1>3, <1>4, <2>1, <2>2, TypeParts DEF MapTypes
  <1>15. ASSUME RouteTypes',
                UNCHANGED <<conns, up, verifying, maps, registry, sessionState, wired, checkpoint>>
         PROVE  TypeOK'
    BY <1>0, <1>1, <1>3, <1>4, <1>15, TypeParts DEF MapTypes
  <1>16. ASSUME NEW ch \in Channels, UnbindChannel(ch) \/ \E n \in Nodes : BindChannel(ch, n)
         PROVE  TypeOK'
    BY <1>0, <1>15, <1>16 DEF UnbindChannel, BindChannel, RouteTypes
  <1>17. ASSUME NEW k \in Keys, RouteWithScope(k) PROVE TypeOK'
    BY <1>0, <1>15, <1>17 DEF RouteWithScope, Targets, RouteTypes
  <1>18. CASE ScopeChanged
    BY <1>0, <1>15, <1>18 DEF ScopeChanged, RouteTypes
  <1>19. ASSUME NEW n \in Nodes, UpdateSessionIdentity(n) \/ Timeout(n) PROVE TypeOK'
    <2>1. SessionTypes'
      <3>1. CASE UpdateSessionIdentity(n)
        BY <1>0, <3>1 DEF UpdateSessionIdentity, Manager!UpdateIdentity, SessionTypes, Manager!IdentityMaps,
                          Manager!timers, Manager!NoIdentity
      <3>2. CASE Timeout(n)
        BY <3>2, HandleEventKeeps DEF Timeout, Manager!IdleTimeout, Manager!SuspendTimeout, SessionTypes
      <3> QED BY <1>19, <3>1, <3>2
    <2>2. UNCHANGED <<conns, up, verifying, maps, registry, routing, wired, checkpoint>>
      BY <1>19 DEF UpdateSessionIdentity, Timeout
    <2> QED BY <1>0, <1>1, <1>4, <1>5, <2>1, <2>2, TypeParts DEF MapTypes
  <1>20. CASE Sweep
    <2> PICK expired \in SUBSET Keys :
          LET bound == [k \in Keys |-> IF k \in expired THEN NoNode ELSE conversations[k]] IN
          SaveCheckpoint(bound) /\ ForgetRoutes(Registry!Dead, bound)
      BY <1>20 DEF Sweep
    <2> DEFINE bound == [k \in Keys |-> IF k \in expired THEN NoNode ELSE conversations[k]]
    <2>1. bound \in [Keys -> Nodes \union {NoNode}]
      BY <1>0 DEF RouteTypes
    <2>2. checkpoint' \in Snapshot
      BY <1>7, <2>1
    <2>3. SessionTypes' /\ RouteTypes'
      BY <1>20, <2>1, CleanupTypes DEF Sweep, Registry!Dead
    <2>4. Registry!TypeOK'
      BY <1>0, <1>20 DEF Sweep, Registry!SweepNodes, Registry!TypeOK, Registry!NoNode, NoNode
    <2>5. MapTypes'
      BY <1>2, <1>20 DEF Sweep
    <2> QED BY <1>0, <1>20, <2>2, <2>3, <2>4, <2>5, TypeParts DEF Sweep
  <1>21. ASSUME Down, checkpoint' \in Snapshot PROVE TypeOK'
    <2>1. conns' \in [Conns -> {"new", "open", "closed"}] /\ up' \in BOOLEAN
      BY <1>0, <1>21 DEF Down
    <2>2. MapTypes'
      BY <1>2, <1>21 DEF Down
    <2>3. SessionTypes' /\ RouteTypes' /\ wired' \in BOOLEAN
      BY <1>0, <1>21, CleanupTypes DEF Down, Manager!Dispose, RouteTypes
    <2>4. Registry!TypeOK'
      BY <1>21 DEF Down, Registry!Clear, Registry!TypeOK
    <2> QED BY <1>21, <2>1, <2>2, <2>3, <2>4, TypeParts
  <1>22. CASE Start
    <2>1. up' \in BOOLEAN /\ UNCHANGED <<conns, verifying, maps, checkpoint>>
      BY <1>22 DEF Start
    <2>2. CASE wired' = TRUE /\ UNCHANGED subsystems
      BY <1>0, <1>1, <1>3, <1>4, <1>5, <2>1, <2>2, TypeParts DEF subsystems, MapTypes
    <2>3. CASE /\ Manager!FromSnapshot(checkpoint)
               /\ conversations' = checkpoint.conversations
               /\ deliveries' = checkpoint.deliveries
               /\ UNCHANGED <<registry, dispatchers, channelBindings>>
      <3>1. SessionTypes' /\ RouteTypes' /\ wired' \in BOOLEAN
        BY <1>0, <2>3 DEF Manager!FromSnapshot, SessionTypes, RouteTypes, Snapshot
      <3> QED BY <1>0, <1>1, <1>4, <2>1, <2>3, <3>1, TypeParts DEF MapTypes
    <2> QED BY <1>22, <2>2, <2>3 DEF Start
  <1>23. CASE UNCHANGED vars
    BY <1>0, <1>1, <1>3, <1>4, <1>5, <1>23, TypeParts DEF vars, subsystems, MapTypes
  <1>24. CASE Crash \/ Stop
    BY <1>0, <1>7, <1>21, <1>24 DEF Crash, Stop, RouteTypes
  <1> QED
    BY <1>8, <1>9, <1>10, <1>11, <1>12, <1>13, <1>14, <1>16, <1>17, <1>18, <1>19, <1>20, <1>22,
       <1>23, <1>24
       DEF Next, FrameStep, CallStep

-----------------------------------------------------------------------------
LEMMA GInvariant == Spec => []GInv
  <1>1. GInv /\ [Next]_vars => GInv'
    BY TypeStep, DownStep, MapStep, NodeStep DEF GInv
  <1> QED BY InitGInv, <1>1, PTL DEF Spec

(* Type correctness of the whole control plane.                             *)
THEOREM TypeCorrect == Spec => []TypeOK
  <1>1. GInv => TypeOK
    BY DEF GInv
  <1> QED BY GInvariant, <1>1, PTL

(* No interleaving of connections, verifications, sweeps and restarts       *)
(* leaves half a node, or a node that two connections speak for.            *)
THEOREM NodesAlwaysAgree == Spec => []NodesAgree
  <1>1. GInv => NodesAgree
    BY DEF GInv, NodeInv, MapInv, NodesAgree
  <1> QED BY GInvariant, <1>1, PTL

(* Every route the router can take ends at a message buffer.                *)
THEOREM RoutesStayLive == Spec => []RoutesAreLive
  <1>1. GInv => RoutesAreLive
    BY DEF GInv, NodeInv
  <1> QED BY GInvariant, <1>1, PTL

(* A gateway that was not restored can always write its checkpoint.         *)
THEOREM StateIsSavable == Spec => []AlwaysSavable
  <1>1. GInv => AlwaysSavable
    BY DEF GInv, NodeInv
  <1> QED BY GInvariant, <1>1, PTL

(* An agent id resolves to a registered node that serves it, or to nothing. *)
THEOREM AgentsStayResolved == Spec => []AgentsResolve
  <1>1. GInv => AgentsResolve
    BY DEF GInv, NodeInv, AgentsResolve
  <1> QED BY GInvariant, <1>1, PTL

(* The close of a connection never tears down a node another connection     *)
(* holds.                                                                   *)
THEOREM OnlyOwnTeardown == Spec => NoForeignTeardown
  <1> DEFINE Own == OneIdPerConnection =>
                      \A c \in Conns, n \in Nodes :
                        /\ up' /\ conns[c] = "open" /\ conns'[c] = "closed"
                        /\ Registered(n) /\ nodeToConnection[n] # c
                        => UNCHANGED <<nodes[n], sessions[n], nodeToConnection[n]>>
  <1>1. GInv /\ [Next]_vars => [Own]_vars
    <2> SUFFICES ASSUME GInv, Next, OneIdPerConnection, NEW c \in Conns, NEW n \in Nodes,
                        up', conns[c] = "open", conns'[c] = "closed",
                        Registered(n), nodeToConnection[n] # c
                 PROVE  UNCHANGED <<nodes[n], sessions[n], nodeToConnection[n]>>
      OBVIOUS
    <2> USE NodesAssumption, ConnsAssumption, IdsAssumption DEF GInv
    <2>1. Disconnect(c)
      <3>1. conns' # conns
        OBVIOUS
      <3>2. CASE \E d \in Conns : Connect(d)
        BY <3>2 DEF Connect, TypeOK
      <3>3. CASE \E d \in Conns : Disconnect(d)
        <4> PICK d \in Conns : Disconnect(d)
          BY <3>3
        <4>1. d = c
          BY DEF Disconnect, TypeOK
        <4> QED BY <4>1
      <3>4. CASE Down
        BY <3>4 DEF Down
      <3> QED
        BY <3>1, <3>2, <3>3, <3>4
           DEF Next, FrameStep, Register, Verified, Deregister, Pong, LaneMessage, LaneMessageAck,
               CallStep, UnbindChannel, BindChannel, RouteWithScope, UpdateSessionIdentity,
               Timeout, ScopeChanged, Sweep, Crash, Stop, Start
    <2>2. CASE UNCHANGED <<maps, subsystems>>
      BY <2>2 DEF maps, subsystems, registry, sessionState
    <2>3. ASSUME NEW m \in Nodes, NodeOf(c) = m, DisconnectNode(c, m)
          PROVE  UNCHANGED <<nodes[n], sessions[n], nodeToConnection[n]>>
      <3>1. nodeToConnection[m] = c
        <4>1. NodeOf(c) # NoNode
          BY <2>3
        <4> QED BY <2>3, <4>1 DEF MapInv, MappedIsRecorded
      <3>2. m # n
        BY <3>1
      <3>3. nodeToConnection'[n] = nodeToConnection[n]
        BY <2>3, <3>2 DEF DisconnectNode, ForgetMaps
      <3>4. sessions'[n] = sessions[n]
        BY <2>3, <3>2 DEF DisconnectNode, CleanupSubsystems, Manager!RemoveSessions, subsystems,
                          sessionState
      <3>5. nodes'[n] = nodes[n]
        <4>1. CASE CleanupSubsystems({m})
          BY <3>2, <4>1 DEF CleanupSubsystems, Registry!Deregister
        <4>2. CASE UNCHANGED nodes
          BY <4>2
        <4>3. CleanupSubsystems({m}) \/ UNCHANGED nodes
          BY <2>3 DEF DisconnectNode, subsystems, registry
        <4> QED BY <4>1, <4>2, <4>3
      <3> QED BY <3>3, <3>4, <3>5
    <2> QED BY <2>1, <2>2, <2>3 DEF Disconnect
  <1> QED BY GInvariant, <1>1, PTL DEF NoForeignTeardown, Spec

-----------------------------------------------------------------------------
(* The gateway drives its session manager as SessionManager allows.  Two    *)
(* steps that look alike are not the same: cleanup removes sessions whether *)
(* there are any or not, SessionManager destroys only those there are.  For *)
(* the two to agree a node without a session must have neither timers nor   *)
(* an identity, now and in what a restart takes from the checkpoint.        *)
SavedIdentity ==
  \A n \in Nodes : checkpoint.sessions[n] = "none" => checkpoint.identities[n] = "default"

SessionsWhole == Manager!TimersMatchState /\ Manager!IdentityOnlyWithSession

LEMMA RemoveIsDestroy ==
  ASSUME TypeOK, SessionsWhole, NEW S \in SUBSET Nodes, Manager!RemoveSessions(S)
  PROVE  /\ SessionsWhole'
         /\ Manager!DestroySessions({n \in S : HasSession(n)})
  <1> DEFINE H == {n \in S : HasSession(n)}
  <1> USE DEF SessionsWhole, Manager!RemoveSessions, Manager!TimersMatchState,
              Manager!IdentityOnlyWithSession, Manager!HasSession, HasSession,
              Manager!NoSession, Manager!NoIdentity, TypeOK, Manager!TypeOK, Manager!Sessions,
              Manager!IdentityMaps
  <1>1. SessionsWhole'
    OBVIOUS
  <1>2. sessions' = [n \in Nodes |-> IF n \in H THEN "none" ELSE sessions[n]]
    OBVIOUS
  <1>3. identities' = [n \in Nodes |-> IF n \in H THEN "default" ELSE identities[n]]
    OBVIOUS
  <1>4. idleTimers' = idleTimers \ H /\ suspendTimers' = suspendTimers \ H
    OBVIOUS
  <1> QED BY <1>1, <1>2, <1>3, <1>4 DEF Manager!DestroySessions

LEMMA HandleEventKeepsWhole ==
  ASSUME TypeOK, SessionsWhole, NEW n \in Nodes, NEW e, e # "disconnect",
         Manager!HandleEvent(n, e)
  PROVE  SessionsWhole'
  <1> USE DEF SessionsWhole, Manager!TimersMatchState, Manager!IdentityOnlyWithSession,
              Manager!HasSession, Manager!NoSession, Manager!NoIdentity, TypeOK,
              Manager!TypeOK, Manager!Sessions, Manager!States
  <1>1. CASE UNCHANGED <<sessions, identities, idleTimers, suspendTimers>>
    BY <1>1
  <1>2. ASSUME NEW s \in Manager!States, sessions' = [sessions EXCEPT ![n] = s],
               Manager!UpdateTimers(n, s), identities' = identities, HasSession(n)
        PROVE  SessionsWhole'
    BY <1>2 DEF Manager!UpdateTimers, HasSession
  <1>3. Manager!HasSession(n)
    BY DEF Manager!HandleEvent
  <1> QED
    BY <1>1, <1>2, <1>3 DEF Manager!HandleEvent, Manager!Transitions, Manager!timers, HasSession

(* What the manager keeps as its snapshot follows the checkpoint alone.     *)
LEMMA SnapshotFollows ==
  ASSUME TypeOK, NEW bound, SaveCheckpoint(bound)
  PROVE  /\ [sessions |-> checkpoint'.sessions, identities |-> checkpoint'.identities]
              \in {[sessions |-> checkpoint.sessions, identities |-> checkpoint.identities],
                   Manager!ToSnapshot}
         /\ SavedIdentity /\ SessionsWhole => SavedIdentity'
  BY DEF SaveCheckpoint, Manager!ToSnapshot, SavedIdentity, SessionsWhole,
         Manager!IdentityOnlyWithSession, Manager!HasSession, Manager!NoSession,
         Manager!NoIdentity

ManagerInv == SessionsWhole /\ SavedIdentity

LEMMA ManagerStep ==
  ASSUME TypeOK, DownIsEmpty, ManagerInv, [Next]_vars
  PROVE  ManagerInv' /\ [Manager!Next]_(Manager!vars)
  <1> DEFINE Goal == ManagerInv' /\ [Manager!Next]_(Manager!vars)
  <1> USE IdsAssumption
  <1>1. ASSUME UNCHANGED <<sessionState, wired, checkpoint>> PROVE Goal
    BY <1>1 DEF ManagerInv, SessionsWhole, SavedIdentity, Manager!TimersMatchState,
                Manager!IdentityOnlyWithSession, Manager!HasSession, sessionState,
                Manager!vars, Manager!timers
  <1>2. ASSUME NEW S \in SUBSET Nodes, Manager!RemoveSessions(S),
               UNCHANGED <<wired, checkpoint>>
        PROVE  Goal
    <2>1. Manager!Destroy({n \in S : HasSession(n)})
      BY <1>2, RemoveIsDestroy DEF Manager!Destroy, ManagerInv
    <2>2. Manager!Next
      BY <2>1 DEF Manager!Next
    <2>3. ManagerInv'
      BY <1>2, RemoveIsDestroy DEF ManagerInv, SavedIdentity
    <2> QED BY <2>2, <2>3
  <1>3. ASSUME NEW n \in Nodes, NEW e \in {"heartbeat", "idle_timeout", "suspend_timeout"},
               Manager!HandleEvent(n, e),
               e = "idle_timeout" => n \in idleTimers,
               e = "suspend_timeout" => n \in suspendTimers,
               UNCHANGED <<wired, checkpoint>>
        PROVE  Goal
    <2>1. ManagerInv'
      BY <1>3, HandleEventKeepsWhole DEF ManagerInv, SavedIdentity
    <2>2. Manager!Next
      <3>1. "heartbeat" \in Manager!FrameEvents
        BY DEF Manager!FrameEvents, Manager!Events
      <3> QED
        BY <1>3, <3>1 DEF Manager!Next, Manager!Event, Manager!Idle, Manager!Suspend, Manager!IdleTimeout,
                    Manager!SuspendTimeout
    <2> QED BY <2>1, <2>2
  <1>4. ASSUME NEW c \in Conns, NEW n \in Nodes, CompleteRegister(c, n), UNCHANGED checkpoint
        PROVE  Goal
    <2>1. CASE Manager!CreateSession(n) /\ UNCHANGED wired
      <3>1. Manager!Next
        BY <1>4, <2>1 DEF Manager!Next, Manager!Create
      <3>2. ManagerInv'
        BY <1>4, <2>1 DEF ManagerInv, SessionsWhole, SavedIdentity, Manager!TimersMatchState,
                Manager!IdentityOnlyWithSession, Manager!HasSession, Manager!CreateSession,
                Manager!NoSession, Manager!NoIdentity, TypeOK, Manager!TypeOK, Manager!Sessions
      <3> QED BY <3>1, <3>2
    <2> QED BY <1>1, <1>4, <2>1 DEF CompleteRegister, subsystems
  <1>5. ASSUME NEW c \in Conns, NEW n \in Nodes, Register(c, n) \/ Verified(c, n) PROVE Goal
    BY <1>1, <1>4, <1>5 DEF Register, Verified, subsystems
  <1>6. ASSUME NEW c \in Conns, NEW n \in Nodes, Deregister(c, n) PROVE Goal
    BY <1>2, <1>6 DEF Deregister, CleanupSubsystems
  <1>7. ASSUME NEW c \in Conns, Disconnect(c) PROVE Goal
    BY <1>1, <1>2, <1>7 DEF Disconnect, DisconnectNode, CleanupSubsystems, subsystems
  <1>8. ASSUME NEW c \in Conns, Pong(c) PROVE Goal
    <2>1. NodeOf(c) \in Nodes
      BY <1>8 DEF Pong, Mapped, TypeOK, NodeOf
    <2> QED BY <1>1, <1>3, <1>8, <2>1 DEF Pong
  <1>9. ASSUME NEW n \in Nodes, UpdateSessionIdentity(n) PROVE Goal
    <2>1. Manager!Identify(n)
      BY <1>9 DEF UpdateSessionIdentity, Manager!Identify, Manager!NoIdentity
    <2>2. ManagerInv'
      BY <1>9 DEF UpdateSessionIdentity, Manager!UpdateIdentity, ManagerInv, SessionsWhole,
           SavedIdentity, Manager!TimersMatchState, Manager!IdentityOnlyWithSession,
           Manager!HasSession, Manager!timers, TypeOK, Manager!TypeOK, Manager!IdentityMaps
    <2> QED BY <2>1, <2>2 DEF Manager!Next
  <1>10. ASSUME NEW n \in Nodes, Timeout(n) PROVE Goal
    BY <1>3, <1>10 DEF Timeout, Manager!IdleTimeout, Manager!SuspendTimeout
  <1>11. CASE Sweep
    <2> DEFINE D == Registry!Dead
    <2>1. D \in SUBSET Nodes /\ Manager!RemoveSessions(D) /\ UNCHANGED wired
      BY <1>11 DEF Registry!Dead, Sweep
    <2>2. \E bound : SaveCheckpoint(bound)
      BY <1>11 DEF Sweep
    <2>3. Manager!Destroy({n \in D : HasSession(n)})
      BY <2>1, <2>2, RemoveIsDestroy, SnapshotFollows DEF Manager!Destroy, ManagerInv
    <2>4. ManagerInv'
      BY <2>1, <2>2, RemoveIsDestroy, SnapshotFollows DEF ManagerInv
    <2>5. Manager!Next
      BY <2>1, <2>3 DEF Manager!Next
    <2> QED BY <2>4, <2>5
  <1>12. ASSUME Down, UNCHANGED checkpoint \/ SaveCheckpoint(conversations) PROVE Goal
    <2>1. Manager!Dispose /\ Manager!RemoveSessions(Nodes)
      BY <1>12 DEF Down, Manager!Dispose
    <2>2. SaveCheckpoint(conversations)
      BY <1>12 DEF SaveCheckpoint
    <2>3. Manager!Shutdown
      BY <2>1, <2>2, SnapshotFollows DEF Manager!Shutdown
    <2>4. ManagerInv'
      BY <2>1, <2>2, RemoveIsDestroy, SnapshotFollows DEF ManagerInv
    <2> QED BY <2>3, <2>4 DEF Manager!Next
  <1>13. CASE Start
    <2>1. CASE wired' = TRUE /\ UNCHANGED subsystems
      <3>1. Manager!OnTransition
        BY <1>13, <2>1 DEF Start, Manager!OnTransition, subsystems, sessionState, Manager!timers
      <3>2. ManagerInv'
        BY <1>13, <2>1 DEF Start, subsystems, sessionState, ManagerInv, SessionsWhole,
           SavedIdentity, Manager!TimersMatchState, Manager!IdentityOnlyWithSession,
           Manager!HasSession
      <3> QED BY <3>1, <3>2 DEF Manager!Next
    <2>2. CASE Manager!FromSnapshot(checkpoint)
      <3>1. Manager!Restore
        BY <1>13, <2>2 DEF Start, Manager!Restore, Manager!FromSnapshot
      <3>2. ManagerInv'
        BY <1>13, <2>2 DEF Start, Manager!FromSnapshot, ManagerInv, SessionsWhole,
           SavedIdentity, Manager!TimersMatchState, Manager!IdentityOnlyWithSession,
           Manager!HasSession, Manager!NoSession, Manager!NoIdentity
      <3> QED BY <3>1, <3>2 DEF Manager!Next
    <2> QED BY <1>13, <2>1, <2>2 DEF Start
  <1>14. CASE UNCHANGED vars
    BY <1>1, <1>14 DEF vars, subsystems
  <1>15. ASSUME NEW c \in Conns, \/ Connect(c)
                                 \/ \E m \in Messages : LaneMessage(c, m) \/ LaneMessageAck(c, m)
         PROVE  Goal
    BY <1>1, <1>15 DEF Connect, LaneMessage, LaneMessageAck, subsystems
  <1>16. CASE \/ ScopeChanged
              \/ \E ch \in Channels : UnbindChannel(ch) \/ \E n \in Nodes : BindChannel(ch, n)
              \/ \E k \in Keys : RouteWithScope(k)
    BY <1>1, <1>16 DEF ScopeChanged, UnbindChannel, BindChannel, RouteWithScope
  <1> QED
    BY <1>5, <1>6, <1>7, <1>8, <1>9, <1>10, <1>11, <1>12, <1>13, <1>14, <1>15, <1>16
       DEF Next, FrameStep, CallStep, Crash, Stop

(* The control plane implements the session manager: whatever connections,  *)
(* verifications, sweeps, crashes and restarts do, the sessions change only *)
(* as SessionManager!Spec allows, the checkpoint in the part of the         *)
(* snapshot a caller keeps.                                                 *)
THEOREM SessionsFollowManager == Spec => SessionDiscipline
  <1>1. Init => Manager!Init /\ ManagerInv
    BY DEF Init, Manager!Init, EmptyCheckpoint, ManagerInv, SessionsWhole, SavedIdentity,
           Manager!TimersMatchState, Manager!IdentityOnlyWithSession, Manager!HasSession,
           Manager!NoSession, Manager!NoIdentity
  <1>2. GInv => TypeOK /\ DownIsEmpty
    BY DEF GInv
  <1>3. GInv /\ ManagerInv /\ [Next]_vars => ManagerInv' /\ [Manager!Next]_(Manager!vars)
    BY <1>2, ManagerStep
  <1> QED BY GInvariant, <1>1, <1>3, PTL DEF Spec, SessionDiscipline, Manager!Spec
=============================================================================
