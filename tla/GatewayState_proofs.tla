-------------------------- MODULE GatewayState_proofs --------------------------
(***************************************************************************)
(* Proofs about what the gateway keeps: the sessions, for every set of     *)
(* nodes and identities; the conversation store and its reverse index,     *)
(* whatever the nodes, keys, limits and times; the configuration in        *)
(* effect, for every number of edits and of reads; on the other side, the  *)
(* client of a node, for every number of calls and connections; and that   *)
(* all parts together keep their types.                                    *)
(***************************************************************************)
EXTENDS MCGatewayParts, Traffic_proofs

(* The session manager.                                                     *)

(* A snapshot is taken of sessions that satisfy IdentityOnlyWithSession, so *)
(* it satisfies it too, and restoring it does not break it.                 *)
SnapshotIdentity ==
  \A n \in Nodes : snapshot.sessions[n] = NoSession
                     => snapshot.identities[n] = NoIdentity

(* The inductive invariant.                                                 *)
SessionInv == TypeOK /\ TimersMatchState /\ IdentityOnlyWithSession /\ SnapshotIdentity

-----------------------------------------------------------------------------
(* What handleEvent can do to a session: nothing, remove it, or move it to  *)
(* a state and set the timers for that state.                               *)
LEMMA HandleEventCases ==
  ASSUME NEW n \in Nodes, NEW e, HandleEvent(n, e)
  PROVE  \/ UNCHANGED <<sessions, identities, idleTimers, suspendTimers>>
         \/ RemoveSessions({n})
         \/ \E s \in States : /\ sessions' = [sessions EXCEPT ![n] = s]
                              /\ UpdateTimers(n, s)
                              /\ identities' = identities
                              /\ sessions[n] # NoSession
  BY DEF HandleEvent, timers, HasSession, States, NoSession

(* Removing sessions preserves the invariant, whatever set is removed.      *)
LEMMA RemovePreserves ==
  ASSUME SessionInv, NEW S \in SUBSET Nodes, RemoveSessions(S)
  PROVE  /\ sessions' \in Sessions
         /\ identities' \in IdentityMaps
         /\ idleTimers' \in SUBSET Nodes
         /\ suspendTimers' \in SUBSET Nodes
         /\ TimersMatchState'
         /\ IdentityOnlyWithSession'
  <1>1. sessions' \in Sessions /\ identities' \in IdentityMaps
    BY DEF SessionInv, TypeOK, RemoveSessions, Sessions, IdentityMaps
  <1>2. idleTimers' \in SUBSET Nodes /\ suspendTimers' \in SUBSET Nodes
    BY DEF SessionInv, TypeOK, RemoveSessions
  <1>3. TimersMatchState'
    BY DEF SessionInv, TypeOK, RemoveSessions, TimersMatchState
  <1>4. IdentityOnlyWithSession'
    BY DEF SessionInv, RemoveSessions, IdentityOnlyWithSession, HasSession
  <1> QED BY <1>1, <1>2, <1>3, <1>4

(* Moving one session to a state, with the timers of that state, preserves  *)
(* the invariant.                                                           *)
LEMMA MovePreserves ==
  ASSUME SessionInv, NEW n \in Nodes, NEW s \in States,
         sessions' = [sessions EXCEPT ![n] = s],
         UpdateTimers(n, s),
         identities' \in IdentityMaps,
         \A m \in Nodes \ {n} : identities'[m] = identities[m]
  PROVE  /\ sessions' \in Sessions
         /\ idleTimers' \in SUBSET Nodes
         /\ suspendTimers' \in SUBSET Nodes
         /\ TimersMatchState'
         /\ IdentityOnlyWithSession'
  <1>1. sessions' \in Sessions
    BY DEF SessionInv, TypeOK, Sessions
  <1>2. idleTimers' \in SUBSET Nodes /\ suspendTimers' \in SUBSET Nodes
    BY DEF SessionInv, TypeOK, UpdateTimers
  <1>3. TimersMatchState'
    BY DEF SessionInv, TypeOK, Sessions, UpdateTimers, TimersMatchState
  <1>4. IdentityOnlyWithSession'
    <2> SUFFICES ASSUME NEW m \in Nodes, sessions'[m] = NoSession
                 PROVE  identities'[m] = NoIdentity
      BY DEF IdentityOnlyWithSession, HasSession
    <2>1. m # n
      BY DEF SessionInv, TypeOK, Sessions, States, NoSession
    <2>2. sessions[m] = NoSession
      BY <2>1 DEF SessionInv, TypeOK, Sessions
    <2> QED BY <2>1, <2>2 DEF SessionInv, IdentityOnlyWithSession, HasSession
  <1> QED BY <1>1, <1>2, <1>3, <1>4

-----------------------------------------------------------------------------
LEMMA SessionInvInit == Init => SessionInv
  BY IdentitiesAssumption
     DEF Init, SessionInv, TypeOK, TimersMatchState, IdentityOnlyWithSession, SnapshotIdentity,
         Sessions, IdentityMaps, HasSession

LEMMA SessionInvNext == SessionInv /\ [Next]_vars => SessionInv'
  <1> SUFFICES ASSUME SessionInv, [Next]_vars PROVE SessionInv'
    OBVIOUS
  <1> USE DEF timers
  <1>1. ASSUME NEW n \in Nodes, Create(n) PROVE SessionInv'
    <2>1. UpdateTimers(n, "connected")
      <3>1. n \notin suspendTimers
        BY <1>1 DEF Create, CreateSession, HasSession, SessionInv, TimersMatchState, NoSession
      <3> QED BY <1>1, <3>1 DEF Create, CreateSession, UpdateTimers
    <2>2. sessions' = [sessions EXCEPT ![n] = "connected"] /\ identities' = identities
      BY <1>1 DEF Create, CreateSession
    <2>3. identities' \in IdentityMaps /\ "connected" \in States
      BY <2>2 DEF SessionInv, TypeOK, States
    <2>4. wired' = wired /\ snapshot' = snapshot
      BY <1>1 DEF Create
    <2> QED BY <2>1, <2>2, <2>3, <2>4, MovePreserves DEF SessionInv, TypeOK, SnapshotIdentity
  <1>2. ASSUME NEW n \in Nodes, NEW e, HandleEvent(n, e), UNCHANGED <<wired, snapshot>>
        PROVE SessionInv'
    <2>1. CASE UNCHANGED <<sessions, identities, idleTimers, suspendTimers>>
      BY <2>1, <1>2 DEF SessionInv, TypeOK, TimersMatchState, IdentityOnlyWithSession,
                        SnapshotIdentity, HasSession
    <2>2. CASE RemoveSessions({n})
      BY <2>2, <1>2, RemovePreserves DEF SessionInv, TypeOK, SnapshotIdentity
    <2>3. ASSUME NEW s \in States, sessions' = [sessions EXCEPT ![n] = s],
                 UpdateTimers(n, s), identities' = identities
          PROVE  SessionInv'
      BY <2>3, <1>2, MovePreserves DEF SessionInv, TypeOK, SnapshotIdentity
    <2> QED BY <1>2, <2>1, <2>2, <2>3, HandleEventCases
  <1>3. ASSUME NEW n \in Nodes, Identify(n) PROVE SessionInv'
    <2> PICK i \in Identities \union {NoIdentity} : UpdateIdentity(n, i)
      BY <1>3 DEF Identify
    <2>1. identities' \in IdentityMaps
      BY DEF UpdateIdentity, SessionInv, TypeOK, IdentityMaps
    <2>2. UNCHANGED <<sessions, idleTimers, suspendTimers, wired, snapshot>>
      BY <1>3 DEF Identify, UpdateIdentity
    <2>3. IdentityOnlyWithSession'
      BY <2>2 DEF UpdateIdentity, SessionInv, TypeOK, IdentityMaps, IdentityOnlyWithSession, HasSession
    <2> QED BY <2>1, <2>2, <2>3 DEF SessionInv, TypeOK, TimersMatchState, SnapshotIdentity
  <1>4. ToSnapshot \in [sessions : Sessions, identities : IdentityMaps]
        /\ \A n \in Nodes : ToSnapshot.sessions[n] = NoSession
                              => ToSnapshot.identities[n] = NoIdentity
    BY DEF ToSnapshot, SessionInv, TypeOK, IdentityOnlyWithSession, HasSession
  <1>5. ASSUME NEW S \in SUBSET Nodes, RemoveSessions(S), wired' \in BOOLEAN,
               snapshot' \in {snapshot, ToSnapshot}
        PROVE  SessionInv'
    BY <1>4, <1>5, RemovePreserves DEF SessionInv, TypeOK, SnapshotIdentity
  <1>6. ASSUME NEW S \in SUBSET Nodes, Destroy(S) PROVE SessionInv'
    BY <1>5, <1>6 DEF Destroy, DestroySessions, SessionInv, TypeOK
  <1>7. CASE OnTransition
    BY <1>7 DEF OnTransition, SessionInv, TypeOK, TimersMatchState, IdentityOnlyWithSession,
                SnapshotIdentity, HasSession
  <1>8. CASE Capture
    BY <1>8, <1>4 DEF Capture, SessionInv, TypeOK, TimersMatchState, IdentityOnlyWithSession,
                      SnapshotIdentity, HasSession
  <1>9. CASE Restore
    BY <1>9 DEF Restore, FromSnapshot, SessionInv, TypeOK, TimersMatchState,
                IdentityOnlyWithSession, SnapshotIdentity, HasSession
  <1>10. CASE Shutdown
    BY <1>10, <1>5 DEF Shutdown, Dispose
  <1>11. CASE UNCHANGED vars
    BY <1>11 DEF vars, SessionInv, TypeOK, TimersMatchState, IdentityOnlyWithSession,
                 SnapshotIdentity, HasSession
  <1> QED
    BY <1>1, <1>2, <1>3, <1>6, <1>7, <1>8, <1>9, <1>10, <1>11
       DEF Next, Event, Idle, Suspend, IdleTimeout, SuspendTimeout

-----------------------------------------------------------------------------
(* The session manager is type correct, and so is everything it restores.   *)
THEOREM TypeCorrect == Spec => []TypeOK
  <1>1. SessionInv => TypeOK
    BY DEF SessionInv
  <1> QED BY SessionInvInit, SessionInvNext, <1>1, PTL DEF Spec

(* No timer ever fires on a session that is gone or in another state.       *)
THEOREM TimersAreSafe == Spec => []TimersMatchState
  <1>1. SessionInv => TimersMatchState
    BY DEF SessionInv
  <1> QED BY SessionInvInit, SessionInvNext, <1>1, PTL DEF Spec

(* No identity outlives its session, across snapshots and restores too.     *)
THEOREM IdentityIsScoped == Spec => []IdentityOnlyWithSession
  <1>1. SessionInv => IdentityOnlyWithSession
    BY DEF SessionInv
  <1> QED BY SessionInvInit, SessionInvNext, <1>1, PTL DEF Spec

(* Both: whatever a node's session leaves is gone with it.                  *)
THEOREM SessionsStayWhole == Spec => []SessionsAreWhole
  <1>1. SessionInv => SessionsAreWhole
    BY DEF SessionInv, SessionsAreWhole
  <1> QED BY SessionInvInit, SessionInvNext, <1>1, PTL DEF Spec

(* No step but a restore takes the timer of a session that stays connected  *)
(* or idle.                                                                 *)
THEOREM SessionsStayTimed == Spec => StaysTimed
  <1> DEFINE Stays == \A n \in Nodes : Timed(n) /\ sessions'[n] \in {"connected", "idle"}
                                          => Timed(n)' \/ Restoring
  <1>1. SessionInv /\ [Next]_vars => [Stays]_vars
    <2> SUFFICES ASSUME SessionInv, [Next]_vars, NEW n \in Nodes, Timed(n),
                        sessions'[n] \in {"connected", "idle"}
                 PROVE  Timed(n)' \/ Restoring
      OBVIOUS
    <2> USE DEF Timed, timers
    <2>1. ASSUME NEW m \in Nodes, NEW e, HandleEvent(m, e) PROVE Timed(n)'
      <3>1. CASE UNCHANGED <<sessions, identities, idleTimers, suspendTimers>>
        BY <3>1
      <3>2. CASE RemoveSessions({m})
        BY <3>2 DEF RemoveSessions, NoSession
      <3>3. ASSUME NEW s \in States, sessions' = [sessions EXCEPT ![m] = s],
                   UpdateTimers(m, s)
            PROVE  Timed(n)'
        BY <3>3 DEF UpdateTimers, SessionInv, TypeOK, Sessions
      <3> QED BY <2>1, <3>1, <3>2, <3>3, HandleEventCases
    <2>2. ASSUME NEW S, RemoveSessions(S) PROVE Timed(n)'
      BY <2>2 DEF RemoveSessions, NoSession
    <2>3. CASE \E m \in Nodes : Create(m)
      BY <2>3 DEF Create, CreateSession
    <2>4. CASE \E m \in Nodes : Identify(m)
      BY <2>4 DEF Identify, UpdateIdentity
    <2>5. CASE OnTransition \/ Capture \/ UNCHANGED vars
      BY <2>5 DEF OnTransition, Capture, vars
    <2>6. CASE Restore
      BY <2>6 DEF Restore, FromSnapshot, Restoring
    <2> QED
      BY <2>1, <2>2, <2>3, <2>4, <2>5, <2>6
         DEF Next, Event, Idle, Suspend, IdleTimeout, SuspendTimeout, Destroy, DestroySessions,
             Shutdown, Dispose
  <1> QED BY SessionInvInit, SessionInvNext, <1>1, PTL DEF Spec, StaysTimed

-----------------------------------------------------------------------------
(* The conversation store.                                                  *)

(* The bindings bind takes part in: an entry for a node is never Unbound.   *)
LEMMA EntryIsBound ==
  ASSUME NEW n \in NodeIds, NEW t
  PROVE  [node |-> n, lastActiveAt |-> t] # Unbound
BY NamesAssumption DEF Unbound

LEMMA BoundHasNode ==
  ASSUME NEW b \in [Keys -> Binding \union {Unbound}], NEW k \in BoundIn(b)
  PROVE  k \in Keys /\ b[k] \in Binding /\ b[k].node \in NodeIds
BY DEF BoundIn, Binding

(* Every step keeps the types.                                              *)
LEMMA StoreTypeStep == StoreTypeOK /\ [StoreNext]_storeVars => StoreTypeOK'
<1> SUFFICES ASSUME StoreTypeOK, [StoreNext]_storeVars PROVE StoreTypeOK'
  OBVIOUS
<1> USE DEF StoreTypeOK
<1>t. now \in 0..MaxTime /\ MaxTime \in Nat
  BY TimeAssumption
<1>e. \A n \in NodeIds : [node |-> n, lastActiveAt |-> now] \in Binding
  BY <1>t DEF Binding
<1>1. ASSUME NEW k \in Keys, NEW n \in NodeIds, Rebind(k, n) PROVE StoreTypeOK'
  BY <1>1, <1>e DEF Rebind, CheckCapacityWarning
<1>2. ASSUME NEW k \in Keys, NEW n \in NodeIds, BindNew(k, n) PROVE StoreTypeOK'
  <2>1. PICK evicted \in IF Cardinality(Bound) >= limit
                         THEN {{v} : v \in LeastActive} ELSE {{}} :
          /\ bindings' = [l \in Keys |->
               IF l = k THEN [node |-> n, lastActiveAt |-> now]
               ELSE IF l \in evicted THEN Unbound ELSE bindings[l]]
          /\ nodeIndex' = [m \in NodeIds |-> (nodeIndex[m] \ evicted)
                                           \union IF m = n THEN {k} ELSE {}]
    BY <1>2 DEF BindNew
  <2>2. bindings' \in [Keys -> Binding \union {Unbound}]
    BY <2>1, <1>e
  <2>3. nodeIndex' \in [NodeIds -> SUBSET Keys]
    BY <2>1
  <2> QED BY <1>2, <2>2, <2>3 DEF BindNew, CheckCapacityWarning
<1>3. ASSUME NEW n \in NodeIds, RemoveNode(n) PROVE StoreTypeOK'
  BY <1>3 DEF RemoveNode, CheckCapacityWarning
<1>4. CASE Sweep
  <2> DEFINE expired == {k \in Bound : bindings[k].lastActiveAt + Ttl < now}
  <2>1. bindings' = [k \in Keys |-> IF k \in expired THEN Unbound ELSE bindings[k]]
    BY <1>4 DEF Sweep
  <2>2. nodeIndex' = [n \in NodeIds |-> nodeIndex[n] \ expired]
    BY <1>4 DEF Sweep
  <2> HIDE DEF expired
  <2> QED BY <1>4, <2>1, <2>2 DEF Sweep, CheckCapacityWarning
<1>5. CASE Clear
  BY <1>5 DEF Clear
<1>6. CASE UpdateConfig
  BY <1>6 DEF UpdateConfig
<1>7. CASE Save
  BY <1>7 DEF Save
<1>8. CASE Restart
  BY <1>8 DEF Restart, BoundIn
<1>9. CASE Tick
  BY <1>9, <1>t DEF Tick
<1>10. CASE UNCHANGED storeVars
  BY <1>10 DEF storeVars
<1> HIDE DEF StoreTypeOK
<1> QED
  BY <1>1, <1>2, <1>3, <1>4, <1>5, <1>6, <1>7, <1>8, <1>9, <1>10 DEF StoreNext, Bind

LEMMA StoreTypeInit == StoreInit => StoreTypeOK
<1> SUFFICES ASSUME StoreInit PROVE StoreTypeOK
  OBVIOUS
<1>1. 0 \in 0..MaxTime
  BY TimeAssumption
<1>2. [k \in Keys |-> Unbound] \in [Keys -> Binding \union {Unbound}]
  OBVIOUS
<1> QED BY <1>1, <1>2 DEF StoreInit, StoreTypeOK

(* The state of the store keeps its type.                                   *)
THEOREM StoreTypeCorrect == StoreSpec => []StoreTypeOK
<1> QED BY StoreTypeInit, StoreTypeStep, PTL DEF StoreSpec

-----------------------------------------------------------------------------
(* What the index of every node should hold.                                *)
KeysOf(b, n) == {k \in BoundIn(b) : b[k].node = n}

LEMMA IndexIsKeysOf ==
  IndexAgrees <=> \A n \in NodeIds : nodeIndex[n] = KeysOf(bindings, n)
BY DEF IndexAgrees, KeysOf, Bound

LEMMA IndexIsKeysOfNext ==
  IndexAgrees' <=> \A n \in NodeIds : nodeIndex'[n] = KeysOf(bindings', n)
BY DEF IndexAgrees, KeysOf, Bound

LEMMA IndexStep == StoreTypeOK /\ IndexAgrees /\ [StoreNext]_storeVars => IndexAgrees'
<1> SUFFICES ASSUME StoreTypeOK, IndexAgrees, [StoreNext]_storeVars
             PROVE  \A m \in NodeIds : nodeIndex'[m] = KeysOf(bindings', m)
  BY IndexIsKeysOfNext
<1>i. \A m \in NodeIds : nodeIndex[m] = KeysOf(bindings, m)
  BY IndexIsKeysOf
<1>t. bindings \in [Keys -> Binding \union {Unbound}]
  BY DEF StoreTypeOK
<1>1. ASSUME NEW k \in Keys, NEW n \in NodeIds, Rebind(k, n), NEW m \in NodeIds
      PROVE  nodeIndex'[m] = KeysOf(bindings', m)
  <2>1. \A l \in Keys : bindings'[l] = IF l = k THEN [node |-> n, lastActiveAt |-> now]
                                                ELSE bindings[l]
    BY <1>1, <1>t DEF Rebind
  <2>2. nodeIndex'[m] = IF m = n THEN nodeIndex[m] \union {k} ELSE nodeIndex[m] \ {k}
    BY <1>1 DEF Rebind
  <2>3. KeysOf(bindings', m) = IF m = n THEN KeysOf(bindings, m) \union {k}
                                        ELSE KeysOf(bindings, m) \ {k}
    BY <2>1, EntryIsBound DEF KeysOf, BoundIn
  <2> QED BY <1>i, <2>2, <2>3
<1>2. ASSUME NEW k \in Keys, NEW n \in NodeIds, BindNew(k, n), NEW m \in NodeIds
      PROVE  nodeIndex'[m] = KeysOf(bindings', m)
  <2>1. PICK evicted :
          /\ bindings' = [l \in Keys |->
               IF l = k THEN [node |-> n, lastActiveAt |-> now]
               ELSE IF l \in evicted THEN Unbound ELSE bindings[l]]
          /\ nodeIndex' = [q \in NodeIds |-> (nodeIndex[q] \ evicted)
                                           \union IF q = n THEN {k} ELSE {}]
    BY <1>2 DEF BindNew
  <2>2. bindings[k] = Unbound
    BY <1>2 DEF BindNew, Bound, BoundIn
  <2>3. \A l \in Keys : bindings'[l] =
          IF l = k THEN [node |-> n, lastActiveAt |-> now]
          ELSE IF l \in evicted THEN Unbound ELSE bindings[l]
    BY <2>1
  <2>4. KeysOf(bindings', m) = (KeysOf(bindings, m) \ evicted)
                               \union IF m = n THEN {k} ELSE {}
    <3>1. \A l \in Keys : l # k =>
            (l \in KeysOf(bindings', m) <=> l \in KeysOf(bindings, m) \ evicted)
      BY <2>3 DEF KeysOf, BoundIn
    <3>2. k \in KeysOf(bindings', m) <=> m = n
      BY <2>3, EntryIsBound DEF KeysOf, BoundIn
    <3>3. k \notin KeysOf(bindings, m)
      BY <2>2 DEF KeysOf, BoundIn
    <3>4. KeysOf(bindings', m) \subseteq Keys /\ KeysOf(bindings, m) \subseteq Keys
      BY DEF KeysOf, BoundIn
    <3> QED BY <3>1, <3>2, <3>3, <3>4
  <2>5. nodeIndex'[m] = (nodeIndex[m] \ evicted) \union IF m = n THEN {k} ELSE {}
    BY <2>1
  <2> QED BY <1>i, <2>4, <2>5
<1>3. ASSUME NEW n \in NodeIds, RemoveNode(n), NEW m \in NodeIds
      PROVE  nodeIndex'[m] = KeysOf(bindings', m)
  <2>1. \A l \in Keys : bindings'[l] = IF l \in nodeIndex[n] THEN Unbound ELSE bindings[l]
    BY <1>3 DEF RemoveNode
  <2>2. nodeIndex'[m] = IF m = n THEN {} ELSE nodeIndex[m]
    BY <1>3 DEF RemoveNode, StoreTypeOK
  <2>3. KeysOf(bindings', m) = KeysOf(bindings, m) \ KeysOf(bindings, n)
    BY <2>1, <1>i DEF KeysOf, BoundIn
  <2>4. m # n => KeysOf(bindings, m) \ KeysOf(bindings, n) = KeysOf(bindings, m)
    BY DEF KeysOf
  <2> QED BY <1>i, <2>2, <2>3, <2>4
<1>4. ASSUME Sweep, NEW m \in NodeIds PROVE nodeIndex'[m] = KeysOf(bindings', m)
  <2> DEFINE expired == {k \in Bound : bindings[k].lastActiveAt + Ttl < now}
  <2>1. bindings' = [k \in Keys |-> IF k \in expired THEN Unbound ELSE bindings[k]]
    BY <1>4 DEF Sweep
  <2>2. nodeIndex' = [q \in NodeIds |-> nodeIndex[q] \ expired]
    BY <1>4 DEF Sweep
  <2> HIDE DEF expired
  <2>3. KeysOf(bindings', m) = KeysOf(bindings, m) \ expired
    BY <2>1 DEF KeysOf, BoundIn
  <2> QED BY <1>i, <2>2, <2>3
<1>5. ASSUME Clear, NEW m \in NodeIds PROVE nodeIndex'[m] = KeysOf(bindings', m)
  BY <1>5 DEF Clear, KeysOf, BoundIn
<1>6. ASSUME UpdateConfig \/ Save \/ Tick \/ UNCHANGED storeVars, NEW m \in NodeIds
      PROVE  nodeIndex'[m] = KeysOf(bindings', m)
  <2>1. bindings' = bindings /\ nodeIndex' = nodeIndex
    BY <1>6 DEF UpdateConfig, Save, Tick, storeVars
  <2> QED BY <2>1, <1>i
<1>7. ASSUME Restart, NEW m \in NodeIds PROVE nodeIndex'[m] = KeysOf(bindings', m)
  BY <1>7 DEF Restart, KeysOf
<1> QED
  BY <1>1, <1>2, <1>3, <1>4, <1>5, <1>6, <1>7 DEF StoreNext, Bind

LEMMA IndexInit == StoreInit => IndexAgrees
BY DEF StoreInit, IndexAgrees, Bound, BoundIn

(* The reverse index names exactly the conversations bound to each node, so *)
(* that removeNode leaves nothing of the node behind and takes nothing else.*)
THEOREM IndexIsExact == StoreSpec => []IndexAgrees
<1> QED BY StoreTypeInit, StoreTypeStep, IndexInit, IndexStep, PTL DEF StoreSpec
-----------------------------------------------------------------------------
LEMMA BoundIsFinite ==
  ASSUME NEW b PROVE IsFiniteSet(BoundIn(b)) /\ Cardinality(BoundIn(b)) \in Nat
BY NamesAssumption, FS_Subset, FS_CardinalityType DEF BoundIn

LEMMA FewerAreNotMore ==
  ASSUME NEW b, NEW c, BoundIn(c) \subseteq BoundIn(b)
  PROVE  ~(Cardinality(BoundIn(c)) > Cardinality(BoundIn(b)))
<1>1. Cardinality(BoundIn(c)) <= Cardinality(BoundIn(b))
  BY BoundIsFinite, FS_Subset
<1> QED BY <1>1, BoundIsFinite

(* A new conversation takes a free place or that of an evicted one.          *)
LEMMA NewStaysInLimit ==
  ASSUME NEW k \in Keys, NEW n \in NodeIds, StoreTypeOK, BindNew(k, n)
  PROVE  Cardinality(BoundIn(bindings')) > Cardinality(Bound)
           => Cardinality(BoundIn(bindings')) <= limit'
<1>1. PICK evicted \in IF Cardinality(Bound) >= limit
                       THEN {{v} : v \in LeastActive} ELSE {{}} :
        bindings' = [l \in Keys |->
             IF l = k THEN [node |-> n, lastActiveAt |-> now]
             ELSE IF l \in evicted THEN Unbound ELSE bindings[l]]
  BY DEF BindNew
<1>2. k \notin Bound /\ limit' = limit /\ limit \in Nat
  BY LimitsAssumption DEF BindNew, StoreTypeOK
<1>3. \A l \in Keys : bindings'[l] =
        IF l = k THEN [node |-> n, lastActiveAt |-> now]
        ELSE IF l \in evicted THEN Unbound ELSE bindings[l]
  BY <1>1
<1>4. BoundIn(bindings') = (Bound \ evicted) \union {k}
  <2>1. k \in BoundIn(bindings')
    BY <1>3, EntryIsBound DEF BoundIn
  <2>2. \A l \in Keys : l # k => (l \in BoundIn(bindings') <=> l \in Bound \ evicted)
    BY <1>3 DEF BoundIn, Bound
  <2>3. BoundIn(bindings') \subseteq Keys /\ Bound \subseteq Keys
    BY DEF BoundIn, Bound
  <2> QED BY <2>1, <2>2, <2>3
<1>5. IsFiniteSet(Bound) /\ Cardinality(Bound) \in Nat
  BY BoundIsFinite DEF Bound
<1>6. CASE Cardinality(Bound) >= limit
  <2>1. PICK v \in Bound : evicted = {v}
    BY <1>1, <1>6 DEF LeastActive
  <2>2. IsFiniteSet(Bound \ {v}) /\ Cardinality(Bound \ {v}) = Cardinality(Bound) - 1
    BY <1>5, <2>1, FS_RemoveElement
  <2>3. k \notin Bound \ {v}
    BY <1>2
  <2>4. Cardinality((Bound \ {v}) \union {k}) = Cardinality(Bound \ {v}) + 1
    BY <2>2, <2>3, FS_AddElement
  <2> QED BY <1>4, <1>5, <2>1, <2>2, <2>4
<1>7. CASE ~(Cardinality(Bound) >= limit)
  <2>1. evicted = {}
    BY <1>1, <1>7
  <2>2. BoundIn(bindings') = Bound \union {k}
    BY <1>4, <2>1
  <2>3. Cardinality(Bound \union {k}) = Cardinality(Bound) + 1
    BY <1>2, <1>5, FS_AddElement
  <2> QED BY <1>2, <1>5, <1>7, <2>2, <2>3
<1> QED BY <1>6, <1>7

(* Only binding a new conversation adds one, and a restart.                 *)
LEMMA WhoAdds ==
  ASSUME StoreTypeOK, [StoreNext]_storeVars
  PROVE  \/ BoundIn(bindings') \subseteq Bound
         \/ bindings' = saved
         \/ \E k \in Keys, n \in NodeIds : BindNew(k, n)
<1> DEFINE Goal == BoundIn(bindings') \subseteq Bound
<1>1. ASSUME NEW k \in Keys, NEW n \in NodeIds, Rebind(k, n) PROVE Goal
  <2>1. \A l \in Keys : l # k => bindings'[l] = bindings[l]
    BY <1>1 DEF Rebind, StoreTypeOK
  <2> QED BY <1>1, <2>1 DEF Rebind, Bound, BoundIn
<1>2. ASSUME NEW n \in NodeIds, RemoveNode(n) PROVE Goal
  BY <1>2 DEF RemoveNode, Bound, BoundIn
<1>3. CASE Sweep
  <2> DEFINE expired == {k \in Bound : bindings[k].lastActiveAt + Ttl < now}
  <2>1. bindings' = [k \in Keys |-> IF k \in expired THEN Unbound ELSE bindings[k]]
    BY <1>3 DEF Sweep
  <2> HIDE DEF expired
  <2> QED BY <2>1 DEF Bound, BoundIn
<1>4. CASE Clear
  BY <1>4 DEF Clear, Bound, BoundIn
<1>5. CASE UpdateConfig \/ Save \/ Tick \/ UNCHANGED storeVars
  BY <1>5 DEF UpdateConfig, Save, Tick, storeVars, Bound
<1>6. CASE Restart
  BY <1>6 DEF Restart
<1> QED
  BY <1>1, <1>2, <1>3, <1>4, <1>5, <1>6 DEF StoreNext, Bind

LEMMA GrowthStep == StoreTypeOK /\ [StoreNext]_storeVars => GrowsWithinLimit
<1> SUFFICES ASSUME StoreTypeOK, [StoreNext]_storeVars PROVE GrowsWithinLimit
  OBVIOUS
<1>1. CASE BoundIn(bindings') \subseteq Bound
  BY <1>1, FewerAreNotMore DEF GrowsWithinLimit, Bound
<1>2. CASE \E k \in Keys, n \in NodeIds : BindNew(k, n)
  BY <1>2, NewStaysInLimit DEF GrowsWithinLimit
<1> QED BY <1>1, <1>2, WhoAdds DEF GrowsWithinLimit

LEMMA RecencyStep ==
  StoreTypeOK /\ [StoreNext]_storeVars => EvictsLeastActive
<1> SUFFICES ASSUME StoreTypeOK, [StoreNext]_storeVars, NEW k \in Keys, NEW l \in Keys,
                    k \in Bound, bindings'[k] = Unbound, l \in Bound, bindings' # saved,
                    NEW new \in Keys \ Bound, new \in BoundIn(bindings')
             PROVE  bindings[k].lastActiveAt <= bindings[l].lastActiveAt
  BY DEF EvictsLeastActive
<1>1. PICK added \in Keys, n \in NodeIds : BindNew(added, n)
  BY WhoAdds
<1>2. PICK evicted \in IF Cardinality(Bound) >= limit
                       THEN {{v} : v \in LeastActive} ELSE {{}} :
        bindings' = [m \in Keys |->
             IF m = added THEN [node |-> n, lastActiveAt |-> now]
             ELSE IF m \in evicted THEN Unbound ELSE bindings[m]]
  BY <1>1 DEF BindNew
<1>3. k # added
  BY <1>1 DEF BindNew
<1>4. k \in evicted
  BY <1>2, <1>3 DEF Bound, BoundIn
<1>5. k \in LeastActive
  BY <1>2, <1>4
<1> QED BY <1>5 DEF LeastActive

(* Only a restart takes the store past its limit: a bind at the limit       *)
(* evicts before it adds, and no other operation adds; and what it evicts   *)
(* was active no later than anything that stays.                            *)
THEOREM RoomIsMade == StoreSpec => MakesRoom
<1>1. StoreTypeOK /\ [StoreNext]_storeVars => [GrowsWithinLimit /\ EvictsLeastActive]_storeVars
  BY GrowthStep, RecencyStep
<1> QED BY <1>1, StoreTypeInit, StoreTypeStep, PTL DEF StoreSpec, MakesRoom

-----------------------------------------------------------------------------
(* The configuration watcher.                                               *)

ConfigFields == {"port", "scope", "limit", "bindings"}

(* What may be reloaded of the file is what is in effect.                   *)
Follows == \A f \in Hot(file) : currentConfig[f] = file[f]

(* Reads that have not overlapped since one was alone are at most one, and  *)
(* the last one sees what the file holds unless another is on its way.      *)
ChangesArrive ==
  ~readsOverlapped =>
    /\ reads = {} \/ \E r : reads = {r}
    /\ watching = "yes" /\ events = 0 /\ ~debounce =>
         /\ \A r \in reads : r.content \in {NotRead, file}
         /\ reads = {} /\ file # NotAConfig => Follows

GatewayApplies ==
  /\ DOMAIN currentConfig = ConfigFields
  /\ watching # "no" => /\ scope = currentConfig.scope
                        /\ ~threw => /\ storeLimit = currentConfig.limit
                                     /\ compiled = currentConfig.bindings
  /\ currentConfig.port = Initial.port

(* Each change is read at most once.                                        *)
ReloadsAreEdits == reloads + events + (IF debounce THEN 1 ELSE 0) <= edits

WatcherInv == WatcherTypeOK /\ ChangesArrive /\ GatewayApplies /\ ReloadsAreEdits

-----------------------------------------------------------------------------
(* What the steps need of the numbers.                                      *)
LEMMA NumbersType ==
  ASSUME WatcherTypeOK
  PROVE  edits \in Nat /\ edits <= MaxEdits /\ events \in Nat /\ reloads \in Nat /\ MaxEdits \in Nat
BY WatcherAssumption DEF WatcherTypeOK

(* One lemma per kind of step.                                              *)
LEMMA EditStep ==
  ASSUME WatcherInv, NEW version \in Versions, Edit(version) PROVE WatcherInv'
<1>1. /\ edits < MaxEdits /\ file' = version /\ edits' = edits + 1 /\ events' = events + 1
      /\ UNCHANGED <<watching, debounce, reads, reloads, currentConfig, scope, storeLimit, compiled,
                     threw, readsOverlapped>>
  BY DEF Edit, appliedVars
<1>2. edits' \in 0..MaxEdits /\ events' \in 0..edits' /\ events' # 0 /\ ReloadsAreEdits'
  BY <1>1, NumbersType DEF WatcherInv, WatcherTypeOK, ReloadsAreEdits
<1>3. WatcherTypeOK'
  BY <1>1, <1>2 DEF WatcherInv, WatcherTypeOK
<1>4. ChangesArrive'
  BY <1>1, <1>2 DEF WatcherInv, ChangesArrive
<1> QED BY <1>1, <1>2, <1>3, <1>4 DEF WatcherInv, GatewayApplies

LEMMA HandleChangeStep == ASSUME WatcherInv, HandleChange PROVE WatcherInv'
<1>1. /\ events > 0 /\ events' = events - 1 /\ debounce' = TRUE
      /\ UNCHANGED <<file, edits, watching, reads, reloads, currentConfig, scope, storeLimit,
                     compiled, threw, readsOverlapped>>
  BY DEF HandleChange, appliedVars
<1>2. events' \in 0..edits' /\ ReloadsAreEdits'
  BY <1>1, NumbersType DEF WatcherInv, WatcherTypeOK, ReloadsAreEdits
<1>3. WatcherTypeOK'
  BY <1>1, <1>2 DEF WatcherInv, WatcherTypeOK
<1>4. ChangesArrive'
  BY <1>1 DEF WatcherInv, ChangesArrive
<1> QED BY <1>1, <1>2, <1>3, <1>4 DEF WatcherInv, GatewayApplies

LEMMA ReloadStep == ASSUME WatcherInv, Reload PROVE WatcherInv'
<1> DEFINE new == [number |-> reloads', content |-> NotRead]
<1>1. /\ debounce /\ debounce' = FALSE /\ reloads' = reloads + 1
      /\ reads' = reads \union {new} /\ readsOverlapped' = (reads # {})
      /\ UNCHANGED <<file, edits, events, watching, currentConfig, scope, storeLimit, compiled,
                     threw>>
  BY DEF Reload, fileVars, appliedVars
<1>2. reloads' \in 0..MaxEdits /\ ReloadsAreEdits'
  BY <1>1, NumbersType DEF WatcherInv, ReloadsAreEdits
<1>3. WatcherTypeOK'
  <2>1. readsOverlapped' \in BOOLEAN /\ debounce' \in BOOLEAN /\ new.content = NotRead
    BY <1>1
  <2> QED BY <1>1, <1>2, <2>1 DEF WatcherInv, WatcherTypeOK
<1>4. ChangesArrive'
  <2>1. CASE reads = {}
    <3>1. reads' = {new} /\ new.content = NotRead /\ debounce' = FALSE
      BY <1>1, <2>1
    <3> HIDE DEF new
    <3> QED BY <3>1 DEF ChangesArrive
  <2>2. CASE reads # {}
    BY <1>1, <2>2 DEF ChangesArrive
  <2> QED BY <2>1, <2>2
<1> QED BY <1>1, <1>2, <1>3, <1>4 DEF WatcherInv, GatewayApplies

LEMMA ReadStep == ASSUME WatcherInv, NEW r \in reads, Read(r) PROVE WatcherInv'
<1> DEFINE seen == [r EXCEPT !.content = file]
<1>1. /\ r.content = NotRead /\ reads' = (reads \ {r}) \union {seen}
      /\ UNCHANGED <<file, edits, events, watching, debounce, reloads, currentConfig, scope,
                     storeLimit, compiled, threw, readsOverlapped>>
  BY DEF Read, fileVars, appliedVars
<1>2. seen.content \in Versions \union {Initial, NotRead}
      /\ (seen.content = file \/ seen = r)
  BY <1>1 DEF WatcherInv, WatcherTypeOK
<1>3. WatcherTypeOK'
  BY <1>1, <1>2 DEF WatcherInv, WatcherTypeOK
<1>4. ChangesArrive'
  <2>1. reads # {} /\ reads' # {}
    BY <1>1
  <2> HIDE DEF seen
  <2> QED BY <1>1, <1>2, <2>1 DEF WatcherInv, ChangesArrive
<1>5. ReloadsAreEdits' /\ GatewayApplies'
  BY <1>1 DEF WatcherInv, ReloadsAreEdits, GatewayApplies
<1> QED BY <1>3, <1>4, <1>5 DEF WatcherInv

(* What was read is merged field by field, and the gateway is told.         *)
LEMMA ReloadedStep == ASSUME WatcherInv, NEW r \in reads, Reloaded(r) PROVE WatcherInv'
<1> DEFINE changed == Changed(r.content)
           new == [f \in DOMAIN currentConfig |->
                     IF f \in changed THEN r.content[f] ELSE currentConfig[f]]
<1>1. /\ r.content # NotRead /\ reads' = reads \ {r}
      /\ UNCHANGED <<file, edits, events, watching, debounce, reloads, readsOverlapped>>
  BY DEF Reloaded, fileVars
<1>2. changed \subseteq Hot(r.content) /\ Hot(r.content) \subseteq ConfigFields \ {"port"}
  BY DEF Changed, Hot, ConfigFields
<1>3. WatcherTypeOK' /\ ReloadsAreEdits'
  <2>1. threw' \in BOOLEAN
    BY DEF Reloaded, Apply, appliedVars, WatcherInv, WatcherTypeOK
  <2> QED BY <1>1, <2>1 DEF WatcherInv, WatcherTypeOK, ReloadsAreEdits
<1>4. CASE UNCHANGED appliedVars /\ (r.content = NotAConfig \/ changed = {})
  <2>1. GatewayApplies'
    BY <1>1, <1>4 DEF appliedVars, WatcherInv, GatewayApplies
  <2>2. r.content # NotAConfig => \A f \in Hot(r.content) : currentConfig[f] = r.content[f]
    BY <1>4 DEF Changed
  <2>3. ChangesArrive'
    BY <1>1, <1>4, <2>2 DEF appliedVars, WatcherInv, ChangesArrive, Follows, Hot
  <2> QED BY <1>3, <2>1, <2>3 DEF WatcherInv
<1>5. CASE /\ r.content # NotAConfig /\ currentConfig' = new
           /\ IF watching = "no" THEN UNCHANGED <<scope, storeLimit, compiled, threw>>
              ELSE Apply(new, changed)
  <2>1. /\ DOMAIN new = ConfigFields
        /\ \A f \in ConfigFields : new[f] = IF f \in changed THEN r.content[f] ELSE currentConfig[f]
    BY DEF WatcherInv, GatewayApplies
  <2>2. \A f \in Hot(r.content) : new[f] = r.content[f]
    BY <1>2, <2>1 DEF Changed
  <2> HIDE DEF new
  <2>3. ChangesArrive'
    BY <1>1, <1>5, <2>2 DEF WatcherInv, ChangesArrive, Follows, Hot
  <2>4. currentConfig'["port"] = Initial.port /\ DOMAIN currentConfig' = ConfigFields
    BY <1>2, <1>5, <2>1 DEF WatcherInv, GatewayApplies, ConfigFields
  <2>5. ASSUME watching' # "no"
        PROVE  /\ scope' = currentConfig'.scope
               /\ ~threw' => /\ storeLimit' = currentConfig'.limit
                             /\ compiled' = currentConfig'.bindings
    <3>1. /\ Apply(new, changed) /\ scope = currentConfig.scope
          /\ ~threw => storeLimit = currentConfig.limit /\ compiled = currentConfig.bindings
      BY <1>1, <1>5, <2>5 DEF WatcherInv, GatewayApplies
    <3>2. /\ "scope" \notin changed => new.scope = currentConfig.scope
          /\ "limit" \notin changed => new.limit = currentConfig.limit
          /\ "bindings" \notin changed => new.bindings = currentConfig.bindings
      BY <2>1 DEF ConfigFields
    <3> HIDE DEF changed
    <3> QED BY <1>5, <3>1, <3>2 DEF Apply
  <2>6. GatewayApplies'
    BY <2>4, <2>5 DEF GatewayApplies
  <2> QED BY <1>3, <2>3, <2>6 DEF WatcherInv
<1> QED BY <1>4, <1>5 DEF Reloaded

LEMMA StopStep ==
  ASSUME WatcherInv, StopWatching \/ Stopped PROVE WatcherInv'
<1>1. /\ watching # "no" /\ watching' \in {"closing", "no"} /\ debounce' \in {FALSE, debounce}
      /\ UNCHANGED <<file, edits, events, reads, reloads, currentConfig, scope, storeLimit, compiled,
                     threw, readsOverlapped>>
  BY DEF StopWatching, Stopped, fileVars, appliedVars
<1>2. WatcherTypeOK'
  <2>1. debounce' \in BOOLEAN
    BY <1>1 DEF WatcherInv, WatcherTypeOK
  <2> QED BY <1>1, <2>1 DEF WatcherInv, WatcherTypeOK
<1>3. ReloadsAreEdits'
  <2>1. CASE debounce' = debounce
    BY <1>1, <2>1 DEF WatcherInv, ReloadsAreEdits
  <2>2. CASE debounce' = FALSE
    BY <1>1, <2>2, NumbersType DEF WatcherInv, ReloadsAreEdits
  <2> QED BY <1>1, <2>1, <2>2
<1>4. ChangesArrive' /\ GatewayApplies'
  BY <1>1 DEF WatcherInv, ChangesArrive, GatewayApplies
<1> QED BY <1>2, <1>3, <1>4 DEF WatcherInv

-----------------------------------------------------------------------------
LEMMA WatcherInvInit == WatcherInit => WatcherInv
<1> SUFFICES ASSUME WatcherInit PROVE WatcherInv
  OBVIOUS
<1>1. WatcherTypeOK /\ ReloadsAreEdits
  <2>1. 0 \in 0..MaxEdits /\ 0 \in 0..0
    BY WatcherAssumption
  <2>2. WatcherTypeOK
    BY <2>1 DEF WatcherInit, WatcherTypeOK
  <2>3. reloads = 0 /\ events = 0 /\ edits = 0 /\ debounce = FALSE
    BY DEF WatcherInit
  <2> QED BY <2>2, <2>3 DEF ReloadsAreEdits
<1>2. ChangesArrive /\ GatewayApplies
  BY WatcherAssumption DEF WatcherInit, ChangesArrive, Follows, GatewayApplies, ConfigFields
<1> QED BY <1>1, <1>2 DEF WatcherInv

LEMMA WatcherInvStep == WatcherInv /\ [WatcherNext]_configVars => WatcherInv'
<1> SUFFICES ASSUME WatcherInv, [WatcherNext]_configVars PROVE WatcherInv'
  OBVIOUS
<1>1. CASE UNCHANGED configVars
  BY <1>1
     DEF configVars, fileVars, appliedVars, WatcherInv, WatcherTypeOK, ChangesArrive, Follows, Hot,
         GatewayApplies, ReloadsAreEdits
<1> QED BY <1>1, EditStep, HandleChangeStep, ReloadStep, ReadStep, ReloadedStep, StopStep
        DEF WatcherNext

(* The variables of the watcher keep their types: a reload needs a change   *)
(* of its own.                                                              *)
THEOREM WatcherTypeCorrect == WatcherSpec => []WatcherTypeOK
<1>1. WatcherInv => WatcherTypeOK
  BY DEF WatcherInv
<1> QED BY <1>1, WatcherInvInit, WatcherInvStep, PTL DEF WatcherSpec

(* Whatever the file is changed to, and however changes, timers, reads and  *)
(* stop() interleave: once all is quiet the hot fields are those of the     *)
(* file, the gateway works with them, and the others have never changed.    *)
THEOREM ConfigStaysCurrent == WatcherSpec => []ConfigFollowsFile
<1>1. WatcherInv => ConfigFollowsFile
  BY DEF WatcherInv, ConfigFollowsFile, FileIsQuiet, ChangesArrive, Follows, GatewayApplies
<1> QED BY <1>1, WatcherInvInit, WatcherInvStep, PTL DEF WatcherSpec

-----------------------------------------------------------------------------
(* The client of the gateway.  The types and the property itself are        *)
(* inductive: every way in which a call of connectAndRegister may end while *)
(* others are under way is a case of the proof.                             *)
ClientInv == ClientTypeOK /\ ClientIsSound

Stages  == {"token", "opening", "waiting"}
Records == [by : {"start", "reconnect"}, under : 0..MaxStarts, stage : Stages]

-----------------------------------------------------------------------------
LEMMA CallTypes ==
  ASSUME ClientTypeOK, NEW a \in Calls
  PROVE  /\ calls[a] \in Records \union {Unused, Over} /\ a \in Nat /\ a # None
         /\ calls[a].stage \in Stages => calls[a] \in Records
         /\ Over.stage = "over" /\ Unused.stage = "unused"
<1>1. calls[a] \in Records \union {Unused, Over}
  BY DEF ClientTypeOK, Records, Stages
<1>2. Over.stage = "over" /\ Unused.stage = "unused"
  BY DEF Over, Unused, Call
<1> QED BY <1>1, <1>2, ClientAssumption DEF Calls, None, Stages

LEMMA DisposedType ==
  ASSUME ClientTypeOK
  PROVE  Disposed \in [Calls -> {"none", "opening", "open", "closing", "closed"}]
BY DEF ClientTypeOK, Disposed

(* A new call is none that waits.                                           *)
LEMMA BeginStep ==
  ASSUME ClientInv, NEW by \in {"start", "reconnect"}, NEW under \in 0..MaxStarts,
         BeginCall(by, under)
  PROVE  /\ calls' \in [Calls -> Records \union {Unused, Over}]
         /\ pendingAck # None => calls'[pendingAck].stage = "waiting"
<1>1. PICK a \in Calls : /\ calls[a] = Unused
                         /\ calls' = [calls EXCEPT ![a] = Call(by, under, "token")]
  BY DEF BeginCall
<1>2. Call(by, under, "token") \in Records
  BY DEF Call, Records, Stages
<1>3. calls' \in [Calls -> Records \union {Unused, Over}]
  BY <1>1, <1>2 DEF ClientInv, ClientTypeOK, Records, Stages
<1>4. ASSUME pendingAck # None PROVE calls'[pendingAck].stage = "waiting"
  <2>1. pendingAck \in Calls /\ calls[pendingAck].stage = "waiting" /\ pendingAck # a
    BY <1>1, <1>4, CallTypes
       DEF ClientInv, ClientTypeOK, ClientIsSound, AckWaiterIsWaiting
  <2> QED BY <1>1, <2>1
<1> QED BY <1>3, <1>4

(* A schedule is made for a node that says it is reconnecting.              *)
LEMMA ScheduleStep ==
  ASSUME ClientInv, ScheduleReconnect("reconnecting")
  PROVE  /\ state' \in {"disconnected", "reconnecting"}
         /\ sessionId' \in Calls \union {None}
         /\ timer' \in 0..MaxStarts /\ tries' \in 0..MaxRetries
BY ClientAssumption DEF ClientInv, ClientTypeOK, ScheduleReconnect, retries

(* A call that fails before it waits, or whose timeout has cleared the      *)
(* waiter, leaves the rest of the node in order.                            *)
LEMMA FailStep ==
  ASSUME ClientInv, NEW a \in Calls, calls[a].stage \in Stages, Fail(a)
  PROVE  /\ state' \in {"disconnected", "connecting", "connected", "reconnecting"}
         /\ sessionId' \in Calls \union {None} /\ controller' \in 0..MaxStarts
         /\ timer' \in 0..MaxStarts /\ tries' \in 0..MaxRetries
         /\ calls' = [calls EXCEPT ![a] = Over]
         /\ calls' \in [Calls -> Records \union {Unused, Over}]
         /\ ConnectedIsSettled'
<1>1. calls' = [calls EXCEPT ![a] = Over]
  BY DEF Fail
<1>2. calls' \in [Calls -> Records \union {Unused, Over}]
  BY <1>1 DEF ClientInv, ClientTypeOK, Records, Stages
<1>3. 0 \in 0..MaxStarts
  BY ClientAssumption
<1>4. CASE calls[a].by = "start"
  <2>1. state' = "disconnected" /\ controller' = None /\ UNCHANGED <<sessionId, timer, tries>>
    BY <1>4 DEF Fail, retries
  <2> QED BY <1>1, <1>2, <1>3, <2>1
          DEF ClientInv, ClientTypeOK, ConnectedIsSettled, None
<1>5. CASE calls[a].by # "start" /\ calls[a].under # None /\ state = "reconnecting"
  <2>1. ScheduleReconnect("reconnecting") /\ UNCHANGED controller
    BY <1>5 DEF Fail
  <2> QED BY <1>1, <1>2, <2>1, ScheduleStep DEF ClientInv, ClientTypeOK, ConnectedIsSettled
<1>6. CASE calls[a].by # "start" /\ ~(calls[a].under # None /\ state = "reconnecting")
  <2>1. UNCHANGED <<state, sessionId, controller, timer, tries>>
    BY <1>6 DEF Fail, retries
  <2> QED BY <1>1, <1>2, <2>1
          DEF ClientInv, ClientTypeOK, ClientIsSound, ConnectedIsSettled
<1> QED BY <1>4, <1>5, <1>6

-----------------------------------------------------------------------------
(* One lemma per kind of step: what start() and stop() do,                  *)

LEMMA StartStep == ASSUME ClientInv, Start PROVE ClientInv'
<1>1. starts' \in 0..MaxStarts /\ controller' = starts' /\ state' = "connecting"
      /\ UNCHANGED <<sessionId, pendingAck, timer, tries, ws, sockets, wiredSockets, registering>>
  BY ClientAssumption DEF Start, ClientInv, ClientTypeOK, retries, wire
<1>2. /\ calls' \in [Calls -> Records \union {Unused, Over}]
      /\ pendingAck # None => calls'[pendingAck].stage = "waiting"
  <2>1. BeginCall("start", starts')
    BY DEF Start
  <2>2. starts' \in 0..MaxStarts /\ "start" \in {"start", "reconnect"}
    BY <1>1
  <2> QED BY <2>1, <2>2, BeginStep
<1>3. ClientTypeOK'
  BY <1>1, <1>2 DEF ClientInv, ClientTypeOK, Records, Stages
<1> QED BY <1>1, <1>2, <1>3
        DEF ClientInv, ClientIsSound, ConnectedIsSettled, AckWaiterIsWaiting

LEMMA ClientStopStep == ASSUME ClientInv, StopNode PROVE ClientInv'
<1> DEFINE mine == {a \in Calls : controller # None /\ calls[a].under = controller}
           opening == \E a \in mine : calls[a].stage = "opening"
           waiting == \E a \in mine : calls[a].stage = "waiting"
<1>1. /\ calls' = [a \in Calls |->
            IF a \notin mine THEN calls[a]
            ELSE IF calls[a].stage = "token" THEN [calls[a] EXCEPT !.under = None] ELSE Over]
      /\ pendingAck' = IF waiting THEN None ELSE pendingAck
      /\ timer' = IF timer = controller THEN None ELSE timer
      /\ sockets' = IF ws # None /\ sockets[ws] = "opening" /\ ~opening
                    THEN [sockets EXCEPT ![ws] = "closing"] ELSE Disposed
      /\ ws' = None
      /\ state' = "disconnected" /\ sessionId' = None /\ controller' = None
      /\ UNCHANGED <<starts, tries, wiredSockets, registering>>
  BY DEF StopNode
<1>2. calls' \in [Calls -> Records \union {Unused, Over}]
  <2> SUFFICES ASSUME NEW a \in Calls PROVE calls'[a] \in Records \union {Unused, Over}
    BY <1>1
  <2>1. CASE a \in mine /\ calls[a].stage = "token"
    <3>1. calls[a] \in Records /\ calls'[a] = [calls[a] EXCEPT !.under = None]
      BY <1>1, <2>1, CallTypes DEF ClientInv, Stages
    <3>2. None \in 0..MaxStarts
      BY ClientAssumption DEF None
    <3> QED BY <3>1, <3>2 DEF Records
  <2>2. CASE ~(a \in mine /\ calls[a].stage = "token")
    BY <1>1, <2>2, CallTypes DEF ClientInv
  <2> QED BY <2>1, <2>2
<1>3. sockets' \in [Calls -> {"none", "opening", "open", "closing", "closed"}]
  BY <1>1, DisposedType DEF ClientInv, ClientTypeOK
<1>4. timer' \in 0..MaxStarts /\ 0 \in 0..MaxStarts
  BY <1>1, ClientAssumption DEF ClientInv, ClientTypeOK, None
<1>5. ClientTypeOK'
  BY <1>1, <1>2, <1>3, <1>4 DEF ClientInv, ClientTypeOK, None, Records, Stages
<1>6. AckWaiterIsWaiting'
  <2> SUFFICES ASSUME pendingAck' # None PROVE calls'[pendingAck].stage = "waiting"
    BY <1>1 DEF AckWaiterIsWaiting
  <2>1. ~waiting /\ pendingAck # None /\ pendingAck \in Calls /\ calls[pendingAck].stage = "waiting"
    BY <1>1 DEF ClientInv, ClientTypeOK, ClientIsSound, AckWaiterIsWaiting
  <2>2. pendingAck \notin mine
    BY <2>1
  <2> QED BY <1>1, <2>1, <2>2
<1> QED BY <1>1, <1>5, <1>6 DEF ClientInv, ClientIsSound, ConnectedIsSettled

(* what a call does, or what becomes of it,                                 *)

LEMMA TokenReadyStep ==
  ASSUME ClientInv, NEW a \in Calls, TokenReady(a) PROVE ClientInv'
<1>1. calls[a].stage = "token" /\ calls[a] \in Records /\ UNCHANGED <<starts, pendingAck>>
  BY CallTypes DEF TokenReady, ClientInv, Stages
<1>2. pendingAck # None => pendingAck \in Calls /\ pendingAck # a /\ calls[pendingAck].stage = "waiting"
  BY <1>1 DEF ClientInv, ClientTypeOK, ClientIsSound, AckWaiterIsWaiting
<1>3. CASE Fail(a) /\ UNCHANGED wire
  <2>1. calls' = [calls EXCEPT ![a] = Over]
    BY <1>3 DEF Fail
  <2>2. AckWaiterIsWaiting'
    BY <1>1, <1>2, <2>1 DEF AckWaiterIsWaiting
  <2>3. ClientTypeOK'
    BY <1>1, <1>3, FailStep DEF ClientInv, ClientTypeOK, wire, Stages, Records
  <2>4. ConnectedIsSettled'
    BY <1>1, <1>3, FailStep DEF Stages
  <2> QED BY <2>2, <2>3, <2>4 DEF ClientInv, ClientIsSound
<1>4. CASE /\ calls' = [calls EXCEPT ![a].stage = "opening"]
           /\ sockets' = [Disposed EXCEPT ![a] = "opening"]
           /\ ws' = a
           /\ UNCHANGED <<client, retries, wiredSockets, registering>>
  <2>1. calls' = [calls EXCEPT ![a] = [calls[a] EXCEPT !.stage = "opening"]]
    BY <1>4
  <2>2. [calls[a] EXCEPT !.stage = "opening"] \in Records
    BY <1>1 DEF Records, Stages
  <2>3. calls' \in [Calls -> Records \union {Unused, Over}]
    BY <2>1, <2>2 DEF ClientInv, ClientTypeOK, Records, Stages
  <2>4. sockets' \in [Calls -> {"none", "opening", "open", "closing", "closed"}]
    BY <1>4, DisposedType DEF ClientInv
  <2>5. ClientTypeOK'
    BY <1>1, <1>4, <2>3, <2>4 DEF ClientInv, ClientTypeOK, client, retries, Records, Stages
  <2>6. ClientIsSound'
    BY <1>1, <1>2, <1>4, <2>1
       DEF ClientInv, ClientIsSound, ConnectedIsSettled, AckWaiterIsWaiting, client, retries
  <2> QED BY <2>5, <2>6 DEF ClientInv
<1> QED BY <1>3, <1>4 DEF TokenReady

LEMMA OpenedStep ==
  ASSUME ClientInv, NEW a \in Calls, Opened(a) PROVE ClientInv'
<1>1. /\ sockets' = [sockets EXCEPT ![a] = "open"]
      /\ UNCHANGED <<state, sessionId, controller, starts, timer, tries, ws>>
  BY DEF Opened, client, retries
<1>2. sockets' \in [Calls -> {"none", "opening", "open", "closing", "closed"}]
  BY <1>1 DEF ClientInv, ClientTypeOK
<1>3. CASE calls[a].stage = "opening"
  <2>1. /\ calls' = [calls EXCEPT ![a] = [calls[a] EXCEPT !.stage = "waiting"]]
        /\ pendingAck' = a
        /\ wiredSockets' = wiredSockets \union {a}
        /\ registering' = registering \union {s \in {ws} : s # None /\ sockets'[s] = "open"}
    BY <1>3 DEF Opened
  <2>2. calls[a] \in Records
    BY <1>3, CallTypes DEF ClientInv, Stages
  <2>3. [calls[a] EXCEPT !.stage = "waiting"] \in Records
    BY <2>2 DEF Records, Stages
  <2>4. calls' \in [Calls -> Records \union {Unused, Over}] /\ calls'[a].stage = "waiting"
    BY <2>1, <2>2, <2>3 DEF ClientInv, ClientTypeOK, Records, Stages
  <2>5. registering' \in SUBSET Calls /\ wiredSockets' \in SUBSET Calls
    BY <2>1 DEF ClientInv, ClientTypeOK
  <2>6. ClientTypeOK'
    BY <1>1, <1>2, <2>1, <2>4, <2>5 DEF ClientInv, ClientTypeOK, Records, Stages
  <2> QED BY <1>1, <2>1, <2>4, <2>6
          DEF ClientInv, ClientIsSound, ConnectedIsSettled, AckWaiterIsWaiting
<1>4. CASE calls[a].stage # "opening"
  <2>1. UNCHANGED <<calls, pendingAck, wiredSockets, registering>>
    BY <1>4 DEF Opened
  <2> QED BY <1>1, <1>2, <2>1
          DEF ClientInv, ClientTypeOK, ClientIsSound, ConnectedIsSettled, AckWaiterIsWaiting
<1> QED BY <1>3, <1>4

(* The ways to fail while the socket opens, and while an acknowledgement is *)
(* awaited.                                                                 *)
LEMMA FailingStep ==
  ASSUME ClientInv, NEW a \in Calls, Refused(a) \/ ConnectTimeout(a) \/ AckTimeout(a)
  PROVE  ClientInv'
<1>1. /\ sockets' \in [Calls -> {"none", "opening", "open", "closing", "closed"}]
      /\ ws' \in Calls \union {None}
      /\ UNCHANGED <<starts, wiredSockets, registering>>
  <2>1. CASE Refused(a)
    BY <2>1 DEF Refused, ClientInv, ClientTypeOK
  <2>2. CASE ConnectTimeout(a)
    BY <2>2, DisposedType DEF ConnectTimeout, ClientInv
  <2>3. CASE AckTimeout(a)
    BY <2>3 DEF AckTimeout, wire, ClientInv, ClientTypeOK
  <2> QED BY <2>1, <2>2, <2>3
<1>2. CASE /\ calls[a].stage \in Stages /\ Fail(a)
           /\ pendingAck' = None \/ (calls[a].stage # "waiting" /\ pendingAck' = pendingAck)
  <2>1. ClientTypeOK'
    BY <1>1, <1>2, FailStep DEF ClientInv, ClientTypeOK, Records, Stages
  <2>2. calls' = [calls EXCEPT ![a] = Over] /\ ConnectedIsSettled'
    BY <1>2, FailStep
  <2>3. AckWaiterIsWaiting'
    BY <1>2, <2>2 DEF ClientInv, ClientTypeOK, ClientIsSound, AckWaiterIsWaiting
  <2> QED BY <2>1, <2>2, <2>3 DEF ClientInv, ClientIsSound
<1>3. CASE UNCHANGED <<client, calls, retries, pendingAck>>
  BY <1>1, <1>3
     DEF client, retries, ClientInv, ClientTypeOK, ClientIsSound, ConnectedIsSettled,
         AckWaiterIsWaiting
<1> QED BY <1>2, <1>3 DEF Refused, ConnectTimeout, AckTimeout, Stages

(* and what the gateway, the network and the reconnection timer do.         *)

LEMMA RegisterAckStep ==
  ASSUME ClientInv, NEW s \in Calls, RegisterAck(s) PROVE ClientInv'
<1>1. registering' = registering \ {s} /\ s # None
      /\ UNCHANGED <<controller, starts, ws, sockets, wiredSockets>>
  BY CallTypes DEF RegisterAck, ClientInv
<1>2. CASE pendingAck # None
  <2>1. /\ calls' = [calls EXCEPT ![pendingAck] = Over]
        /\ pendingAck' = None /\ state' = "connected" /\ sessionId' = s
        /\ timer' = None /\ tries' = 0
    BY <1>2 DEF RegisterAck
  <2>2. 0 \in 0..MaxStarts /\ 0 \in 0..MaxRetries
    BY ClientAssumption
  <2>3. ClientTypeOK'
    BY <1>1, <2>1, <2>2 DEF ClientInv, ClientTypeOK, None
  <2> QED BY <1>1, <2>1, <2>3
          DEF ClientInv, ClientIsSound, ConnectedIsSettled, AckWaiterIsWaiting
<1>3. CASE pendingAck = None
  <2>1. UNCHANGED <<calls, pendingAck, state, sessionId, timer, tries>>
    BY <1>3 DEF RegisterAck, retries
  <2> QED BY <1>1, <2>1
          DEF ClientInv, ClientTypeOK, ClientIsSound, ConnectedIsSettled, AckWaiterIsWaiting
<1> QED BY <1>2, <1>3

LEMMA SocketClosesStep ==
  ASSUME ClientInv, NEW s \in Calls, SocketCloses(s) PROVE ClientInv'
<1>1. /\ sockets' = [sockets EXCEPT ![s] = "closed"] /\ registering' = registering \ {s}
      /\ UNCHANGED <<controller, starts, calls, pendingAck, ws, wiredSockets>>
  BY DEF SocketCloses
<1>2. /\ state' \in {"disconnected", "connecting", "connected", "reconnecting"}
      /\ sessionId' \in Calls \union {None}
      /\ timer' \in 0..MaxStarts /\ tries' \in 0..MaxRetries
      /\ ConnectedIsSettled'
  <2>1. ASSUME NEW authFailure \in BOOLEAN, HandleClose(authFailure)
        PROVE  /\ state' \in {"disconnected", "reconnecting"}
               /\ sessionId' \in Calls \union {None}
               /\ timer' \in 0..MaxStarts /\ tries' \in 0..MaxRetries
    BY <2>1, ScheduleStep DEF HandleClose, retries, ClientInv, ClientTypeOK
  <2>2. CASE s \in wiredSockets
    <3>1. \E authFailure \in BOOLEAN : HandleClose(authFailure)
      BY <2>2 DEF SocketCloses
    <3> QED BY <2>1, <3>1 DEF ConnectedIsSettled
  <2>3. CASE UNCHANGED <<state, sessionId, retries>>
    BY <2>3 DEF retries, ClientInv, ClientTypeOK, ClientIsSound, ConnectedIsSettled
  <2> QED BY <2>2, <2>3 DEF SocketCloses
<1>3. ClientTypeOK'
  BY <1>1, <1>2 DEF ClientInv, ClientTypeOK
<1> QED BY <1>1, <1>2, <1>3 DEF ClientInv, ClientIsSound, AckWaiterIsWaiting

LEMMA ReconnectTimerStep == ASSUME ClientInv, ReconnectTimer PROVE ClientInv'
<1>1. timer' = None /\ UNCHANGED <<state, sessionId, controller, starts, pendingAck, tries,
                                  wiredSockets, registering>>
  BY DEF ReconnectTimer, client
<1>2. /\ calls' \in [Calls -> Records \union {Unused, Over}]
      /\ pendingAck # None => calls'[pendingAck].stage = "waiting"
      /\ sockets' \in [Calls -> {"none", "opening", "open", "closing", "closed"}]
      /\ ws' \in Calls \union {None}
  <2>1. CASE controller = None
    BY <2>1
       DEF ReconnectTimer, ClientInv, ClientTypeOK, ClientIsSound, AckWaiterIsWaiting, Records,
           Stages
  <2>2. CASE controller # None
    <3>1. BeginCall("reconnect", controller) /\ sockets' = Disposed /\ ws' = None
      BY <2>2 DEF ReconnectTimer
    <3>2. controller \in 0..MaxStarts /\ "reconnect" \in {"start", "reconnect"}
      BY DEF ClientInv, ClientTypeOK
    <3> QED BY <3>1, <3>2, BeginStep, DisposedType DEF ClientInv
  <2> QED BY <2>1, <2>2
<1>3. ClientTypeOK'
  <2>1. 0 \in 0..MaxStarts
    BY ClientAssumption
  <2> QED BY <1>1, <1>2, <2>1 DEF ClientInv, ClientTypeOK, None, Records, Stages
<1> QED BY <1>1, <1>2, <1>3
        DEF ClientInv, ClientIsSound, ConnectedIsSettled, AckWaiterIsWaiting

-----------------------------------------------------------------------------
LEMMA ClientInvInit == ClientInit => ClientInv
<1>1. 0 \in 0..MaxStarts /\ 0 \in 0..MaxRetries
  BY ClientAssumption
<1> QED BY <1>1
        DEF ClientInit, ClientInv, ClientTypeOK, ClientIsSound, ConnectedIsSettled,
            AckWaiterIsWaiting, None

LEMMA ClientInvStep == ClientInv /\ [ClientNext]_nodeVars => ClientInv'
<1> SUFFICES ASSUME ClientInv, [ClientNext]_nodeVars PROVE ClientInv'
  OBVIOUS
<1>1. ASSUME NEW s \in Calls, RegisterRefused(s) PROVE ClientInv'
  BY <1>1
     DEF RegisterRefused, client, retries, ClientInv, ClientTypeOK, ClientIsSound,
         ConnectedIsSettled, AckWaiterIsWaiting
<1>2. CASE UNCHANGED nodeVars
  BY <1>2
     DEF nodeVars, client, retries, wire, ClientInv, ClientTypeOK, ClientIsSound,
         ConnectedIsSettled, AckWaiterIsWaiting
<1> QED BY <1>1, <1>2, StartStep, ClientStopStep, TokenReadyStep, OpenedStep, FailingStep,
           RegisterAckStep, SocketClosesStep, ReconnectTimerStep DEF ClientNext

(* The variables of the client keep their types, whatever calls overlap.    *)
THEOREM ClientTypeCorrect == ClientSpec => []ClientTypeOK
<1>1. ClientInv => ClientTypeOK
  BY DEF ClientInv
<1> QED BY <1>1, ClientInvInit, ClientInvStep, PTL DEF ClientSpec

(* However many calls of start() and reconnections overlap: a connected     *)
(* client has a session and no reconnection scheduled, and only a call that *)
(* waits is resolved by an acknowledgement.                                 *)
THEOREM ClientStaysSound == ClientSpec => []ClientIsSound
<1>1. ClientInv => ClientIsSound
  BY DEF ClientInv
<1> QED BY <1>1, ClientInvInit, ClientInvStep, PTL DEF ClientSpec

(* The parts of the gateway side by side are type correct: a step of one is  *)
(* no step of any other.                                                    *)
THEOREM PartsStayTyped == PartsSpec => []PartsTypeOK
<1>1. PartsInit => /\ Init /\ StoreInit /\ ClientInit /\ LaneInit /\ DelegationInit
                   /\ WatcherInit
  BY DEF PartsInit
<1>2. [PartsNext]_partsVars => /\ [Next]_vars /\ [StoreNext]_storeVars /\ [ClientNext]_nodeVars
                               /\ [LaneNext]_laneVars /\ [DelegationNext]_delegationVars
                               /\ [WatcherNext]_configVars
  <2>1. CASE UNCHANGED partsVars
    BY <2>1 DEF partsVars
  <2>2. CASE PartsNext
    BY <2>2 DEF PartsNext
  <2> QED BY <2>1, <2>2
<1>3. PartsInit /\ [][PartsNext]_partsVars
        => /\ Spec /\ StoreSpec /\ ClientSpec /\ LaneSpec /\ DelegationSpec /\ WatcherSpec
  BY <1>1, <1>2, PTL DEF Spec, StoreSpec, ClientSpec, LaneSpec, DelegationSpec, WatcherSpec
<1>4. PartsInit /\ [][PartsNext]_partsVars
        => /\ []TypeOK /\ []StoreTypeOK /\ []ClientTypeOK /\ []LaneTypeOK
           /\ []DelegationTypeOK /\ []WatcherTypeOK
  BY <1>3, TypeCorrect, StoreTypeCorrect, ClientTypeCorrect, LaneTypeCorrect,
     DelegationTypeCorrect, WatcherTypeCorrect
<1>5. PartsInit /\ [][PartsNext]_partsVars => []PartsTypeOK
  BY <1>4, PTL DEF PartsTypeOK
<1> QED BY <1>5, PTL DEF PartsSpec
================================================================================
