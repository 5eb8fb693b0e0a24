---------------------------- MODULE Attached_proofs ----------------------------
(***************************************************************************)
(* Proofs about what is attached to an agent.  A key of the pool of        *)
(* language servers has one initialisation under way, and one more for     *)
(* each clear(), for every number of keys, servers and attempts; an MCP    *)
(* bridge loses a client only to calls that overlap and to a close() that  *)
(* throws, for every number of calls; the process manager forgets a dev    *)
(* server that runs only after a signal it outlived or when it was spawned *)
(* during a stop(), for every number of starts and stops; a prompt of an   *)
(* editor is settled unless its session was wedged; and the handlers of an *)
(* event stay in their order, each until it is removed or has run, if it   *)
(* is registered once.                                                     *)
(***************************************************************************)
EXTENDS LspPool, SideBySide, Lists_proofs

(* The pool.                                                                *)

(* Whoever asks for the key waits for an initialisation it finds.           *)
AwaitedBy(k) == pending \intersect Of(k) # {}

(* Every initialisation but the one that is found was forgotten by a        *)
(* clear().  This is what makes the bound inductive: a key whose promise is *)
(* off the map has room for another initialisation.                         *)
Forgotten(k) ==
  /\ ~AwaitedBy(k) => Cardinality(InFlight(k)) <= clears
  /\ Cardinality(InFlight(k)) <= 1 + clears

PoolInv ==
  /\ stage \in [Inits -> Stages] /\ clears \in Nat
  /\ \A k \in Servers : Forgotten(k)

LEMMA PoolIsBounded == PoolInv => OneInitPerKey
BY DEF PoolInv, Forgotten, OneInitPerKey

(* The attempts for a key are finitely many.                                *)
LEMMA InFlightIsFinite ==
  ASSUME NEW k \in Servers, PoolInv
  PROVE  IsFiniteSet(InFlight(k)) /\ Cardinality(InFlight(k)) \in Nat
<1>1. IsFiniteSet({k}) /\ IsFiniteSet(1..MaxInits[k])
  <2>1. MaxInits[k] \in Int
    BY PoolAssumption
  <2>2. IsFiniteSet(1..MaxInits[k])
    BY <2>1, FS_Interval
  <2> QED BY <2>2, FS_Singleton
<1>2. IsFiniteSet({k} \X (1..MaxInits[k]))
  BY <1>1, FS_Product
<1>3. InFlight(k) \subseteq {k} \X (1..MaxInits[k])
  <2> SUFFICES ASSUME NEW a \in InFlight(k) PROVE a \in {k} \X (1..MaxInits[k])
    OBVIOUS
  <2>1. a \in Inits /\ a[1] = k
    BY DEF InFlight, Of
  <2>2. PICK j \in Servers : a \in {j} \X (1..MaxInits[j])
    BY <2>1 DEF Inits
  <2>3. j = k
    BY <2>1, <2>2
  <2> QED BY <2>2, <2>3
<1>4. IsFiniteSet(InFlight(k))
  BY <1>2, <1>3, FS_Subset
<1> QED BY <1>4, FS_CardinalityType

LEMMA AttemptHasKey == ASSUME NEW a \in Inits PROVE a[1] \in Servers /\ a \in Of(a[1])
<1>1. PICK j \in Servers : a \in {j} \X (1..MaxInits[j])
  BY DEF Inits
<1>2. a[1] = j
  BY <1>1
<1> QED BY <1>2 DEF Of

(* The steps of the pool.                                                   *)
LEMMA PoolInitially == PoolInit => PoolInv
<1> SUFFICES ASSUME PoolInit PROVE PoolInv
  OBVIOUS
<1>1. stage \in [Inits -> Stages] /\ clears \in Nat
  BY DEF PoolInit, Stages
<1>2. ASSUME NEW k \in Servers PROVE Forgotten(k)
  <2>1. InFlight(k) = {}
    BY DEF PoolInit, InFlight, Of
  <2>2. Cardinality(InFlight(k)) = 0
    BY <2>1, FS_EmptySet
  <2> QED BY <2>2 DEF Forgotten, PoolInit
<1> QED BY <1>1, <1>2 DEF PoolInv

-----------------------------------------------------------------------------
(* A key is unaffected by what starts none of its initialisations and       *)
(* leaves its promise and the calls of clear() alone.                       *)
LEMMA Unaffected ==
  ASSUME PoolInv, NEW k \in Servers, UNCHANGED clears,
         stage' \in [Inits -> Stages],
         InFlight(k)' \subseteq InFlight(k),
         pending' \intersect Of(k) = pending \intersect Of(k)
  PROVE  Forgotten(k)'
<1>1. Cardinality(InFlight(k)') <= Cardinality(InFlight(k)) /\ IsFiniteSet(InFlight(k)')
  BY InFlightIsFinite, FS_Subset
<1>2. Cardinality(InFlight(k)') \in Nat /\ Cardinality(InFlight(k)) \in Nat /\ clears \in Nat
  BY <1>1, InFlightIsFinite, FS_CardinalityType DEF PoolInv
<1>3. AwaitedBy(k)' = AwaitedBy(k)
  BY DEF AwaitedBy, Of
<1>4. Forgotten(k)
  BY DEF PoolInv
<1> HIDE DEF AwaitedBy
<1> QED BY <1>1, <1>2, <1>3, <1>4 DEF Forgotten

(* An initialisation ends, and with it the promise of the key, whichever it *)
(* is.                                                                      *)
LEMMA EndsOne ==
  ASSUME PoolInv, NEW a \in Inits, a \in InFlight(a[1]), UNCHANGED clears,
         NEW to \in Stages \ {"evicting", "starting"},
         stage' = [stage EXCEPT ![a] = to],
         pending' = pending \ Of(a[1])
  PROVE  PoolInv'
<1> DEFINE k == a[1]
<1>1. stage' \in [Inits -> Stages] /\ clears' \in Nat
  BY DEF PoolInv
<1>2. k \in Servers /\ a \in Of(k)
  BY AttemptHasKey
<1>3. InFlight(k)' = InFlight(k) \ {a}
  BY DEF InFlight, Of, PoolInv
<1>4. ASSUME NEW j \in Servers, j # k PROVE Forgotten(j)'
  <2>1. InFlight(j)' \subseteq InFlight(j)
    BY <1>4 DEF InFlight, Of, PoolInv
  <2>2. pending' \intersect Of(j) = pending \intersect Of(j)
    BY <1>4 DEF Of
  <2> QED BY <1>1, <2>1, <2>2, Unaffected
<1>5. Forgotten(k)'
  <2>1. Cardinality(InFlight(k)') = Cardinality(InFlight(k)) - 1
    BY <1>2, <1>3, InFlightIsFinite, FS_RemoveElement
  <2>2. Forgotten(k) /\ clears \in Nat /\ Cardinality(InFlight(k)) \in Nat
    BY <1>2, InFlightIsFinite DEF PoolInv
  <2> HIDE DEF k
  <2>3. Cardinality(InFlight(k)') <= clears
    BY <2>1, <2>2 DEF Forgotten
  <2>4. Cardinality(InFlight(k)') \in Int
    BY <2>1, <2>2
  <2> QED BY <2>2, <2>3, <2>4 DEF Forgotten
<1> QED BY <1>1, <1>4, <1>5 DEF PoolInv

-----------------------------------------------------------------------------
(* An initialisation starts only if none is found.                          *)
LEMMA InitializeKeeps ==
  ASSUME PoolInv, NEW k \in Servers, pending \intersect Of(k) = {}, Initialize(k),
         UNCHANGED clears
  PROVE  PoolInv'
<1>1. PICK a \in Of(k) :
        /\ stage[a] = "unused"
        /\ pending' = pending \union {a}
        /\ \/ stage' = [stage EXCEPT ![a] = "starting"]
           \/ stage' = [i \in Inits |->
                IF i = a THEN "evicting"
                ELSE IF i \in clients \intersect Of(Head(lastUsed)) /\ stage[i] = "up"
                     THEN "leaving" ELSE stage[i]]
  BY DEF Initialize
<1>2. a \in Inits /\ a[1] = k
  BY DEF Of
<1>3. stage' \in [Inits -> Stages] /\ clears' \in Nat
  BY <1>1, <1>2 DEF PoolInv, Stages
<1>4. ASSUME NEW j \in Servers, j # k PROVE Forgotten(j)'
  <2>1. InFlight(j)' \subseteq InFlight(j)
    BY <1>1, <1>2, <1>4 DEF InFlight, Of, PoolInv
  <2>2. pending' \intersect Of(j) = pending \intersect Of(j)
    BY <1>1, <1>2, <1>4 DEF Of
  <2> QED BY <1>3, <2>1, <2>2, Unaffected
<1>5. Forgotten(k)'
  <2>1. InFlight(k)' = InFlight(k) \union {a}
    BY <1>1, <1>2 DEF InFlight, Of, PoolInv
  <2>2. a \notin InFlight(k)
    BY <1>1 DEF InFlight
  <2>3. Cardinality(InFlight(k)') = Cardinality(InFlight(k)) + 1
    BY <2>1, <2>2, InFlightIsFinite, FS_AddElement
  <2>4. Cardinality(InFlight(k)) <= clears
    BY DEF PoolInv, Forgotten, AwaitedBy
  <2>5. AwaitedBy(k)'
    BY <1>1 DEF AwaitedBy, Of
  <2>6. clears \in Nat /\ Cardinality(InFlight(k)) \in Nat
    BY InFlightIsFinite DEF PoolInv
  <2> QED BY <2>3, <2>4, <2>5, <2>6 DEF Forgotten
<1> QED BY <1>3, <1>4, <1>5 DEF PoolInv

LEMMA GetClientKeeps ==
  ASSUME PoolInv, NEW k \in Servers, GetClient(k), UNCHANGED clears
  PROVE  PoolInv'
<1>1. CASE UNCHANGED <<stage, pending>>
  <2>1. ASSUME NEW j \in Servers PROVE Forgotten(j)'
    BY <1>1, Unaffected DEF InFlight, Of, PoolInv
  <2> QED BY <1>1, <2>1 DEF PoolInv
<1>2. CASE pending \intersect Of(k) = {} /\ Initialize(k)
  BY <1>2, InitializeKeeps
<1> QED BY <1>1, <1>2 DEF GetClient, maps

(* Steps that neither start nor end an initialisation.                      *)
LEMMA QuietKeeps ==
  ASSUME PoolInv, stage' \in [Inits -> Stages], UNCHANGED <<pending, clears>>,
         \A i \in Inits : stage'[i] \in {"evicting", "starting"} =>
                            stage[i] \in {"evicting", "starting"}
  PROVE  PoolInv'
<1>1. ASSUME NEW k \in Servers PROVE Forgotten(k)'
  <2>1. InFlight(k)' \subseteq InFlight(k)
    BY DEF InFlight, Of
  <2> QED BY <2>1, Unaffected
<1> QED BY <1>1 DEF PoolInv

LEMMA ClearedKeeps == ASSUME PoolInv, Cleared PROVE PoolInv'
<1>1. stage' = stage /\ clears' = clears + 1 /\ clears \in Nat
  BY DEF Cleared, PoolInv
<1>2. ASSUME NEW k \in Servers PROVE Forgotten(k)'
  <2>1. InFlight(k)' = InFlight(k)
    BY <1>1 DEF InFlight, Of
  <2>2. Cardinality(InFlight(k)) <= 1 + clears /\ Cardinality(InFlight(k)) \in Nat
    BY InFlightIsFinite DEF PoolInv, Forgotten
  <2> QED BY <1>1, <2>1, <2>2 DEF Forgotten
<1> QED BY <1>1, <1>2 DEF PoolInv

LEMMA PoolStepKeeps == ASSUME PoolInv, [PoolNext]_poolVars PROVE PoolInv'
<1>1. CASE UNCHANGED poolVars
  BY <1>1, QuietKeeps DEF poolVars, maps, PoolInv
<1>2. ASSUME NEW k \in Servers, Ask(k) PROVE PoolInv'
  BY <1>2, GetClientKeeps DEF Ask
<1>3. ASSUME NEW a \in Inits, AutoRestart(a) PROVE PoolInv'
  BY <1>3, AttemptHasKey, GetClientKeeps DEF AutoRestart
<1>4. ASSUME NEW a \in Inits, Evicted(a) PROVE PoolInv'
  <2>1. stage' \in [Inits -> Stages]
    BY <1>4 DEF Evicted, PoolInv, Stages
  <2> QED BY <1>4, <2>1, QuietKeeps DEF Evicted, maps, PoolInv
<1>5. ASSUME NEW a \in Inits, Ready(a) PROVE PoolInv'
  <2>1. a \in InFlight(a[1])
    BY <1>5, AttemptHasKey DEF Ready, InFlight
  <2>2. "up" \in Stages \ {"evicting", "starting"}
    BY DEF Stages
  <2> QED BY <1>5, <2>1, <2>2, EndsOne DEF Ready
<1>6. ASSUME NEW a \in Inits, Failed(a) PROVE PoolInv'
  <2>1. a \in InFlight(a[1])
    BY <1>6, AttemptHasKey DEF Failed, InFlight
  <2>2. "over" \in Stages \ {"evicting", "starting"}
    BY DEF Stages
  <2> QED BY <1>6, <2>1, <2>2, EndsOne DEF Failed
<1>7. ASSUME NEW a \in Inits, Crash(a) \/ Exit(a) \/ EvictIdle(a) PROVE PoolInv'
  <2>1. stage' \in [Inits -> Stages]
    BY <1>7 DEF Crash, Exit, EvictIdle, PoolInv, Stages
  <2>2. UNCHANGED <<pending, clears>>
    BY <1>7 DEF Crash, Exit, EvictIdle, maps
  <2>3. ASSUME NEW i \in Inits, stage'[i] \in {"evicting", "starting"}
        PROVE  stage[i] \in {"evicting", "starting"}
    BY <1>7, <2>3 DEF Crash, Exit, EvictIdle, PoolInv
  <2> QED BY <2>1, <2>2, <2>3, QuietKeeps
<1>8. CASE StartIdleChecker
  BY <1>8, QuietKeeps DEF StartIdleChecker, maps, PoolInv
<1>9. CASE ClearAll
  <2>1. /\ UNCHANGED <<pending, clears>>
        /\ stage' = [a \in Inits |->
                       IF a \in clients /\ stage[a] = "up" THEN "leaving" ELSE stage[a]]
    BY <1>9 DEF ClearAll, maps
  <2>2. stage' \in [Inits -> Stages]
    BY <2>1 DEF PoolInv, Stages
  <2> QED BY <2>1, <2>2, QuietKeeps
<1> QED BY <1>1, <1>2, <1>3, <1>4, <1>5, <1>6, <1>7, <1>8, <1>9, ClearedKeeps DEF PoolNext

(* getClient starts a second server for a key only when a clear() made it   *)
(* forget the first, whatever the order of handshakes, failures, crashes,   *)
(* restarts and evictions.                                                  *)
THEOREM PoolInitialisesOnce == PoolSpec => []OneInitPerKey
<1>1. PoolInv /\ [PoolNext]_poolVars => PoolInv'
  BY PoolStepKeeps
<1> QED BY <1>1, PoolInitially, PoolIsBounded, PTL DEF PoolSpec

-----------------------------------------------------------------------------
(* The bridge.                                                              *)

(* A connect() that overlapped nothing is the only call under way, on a     *)
(* bridge that is not connected.                                            *)
AloneIsAlone ==
  \A c \in Connecting \ overlapped : Connecting = {c} /\ closing = {} /\ ~bridgeConnected

(* Whatever the bridge has while another call is under way was installed by *)
(* one that overlapped it, or is being closed.                              *)
InstalledMeanwhile ==
  /\ Connecting \union closing # {} =>
       client \in overlapped \union closing \union {NoClient}
  /\ Connecting # {} => exitHandler \in overlapped \union {NoClient}

(* The inductive invariant.  The bridge has an exit handler only while it   *)
(* is connected, and is connected during a close only after an overlap.     *)
BridgeInv ==
  /\ connects \in [Clients -> {"idle", "transport", "handshake", "done"}]
  /\ open \union listeners \subseteq Clients
  /\ BridgeHoldsItsClient /\ AloneIsAlone /\ InstalledMeanwhile
  /\ ~bridgeConnected => exitHandler = NoClient
  /\ bridgeConnected /\ closing # {} => overlapped # {}

(* The steps of the bridge.                                                 *)
LEMMA BridgeInitially == BridgeInit => BridgeInv
BY DEF BridgeInit, BridgeInv, BridgeHoldsItsClient, AloneIsAlone, InstalledMeanwhile, Connecting

(* connect(): one more call, which overlaps what it finds.                  *)
LEMMA ConnectStep == ASSUME BridgeInv, NEW c \in Clients, BridgeConnect(c) PROVE BridgeInv'
<1> USE DEF BridgeInv
<1>1. CASE bridgeConnected
  <2>1. Connecting' = Connecting
    BY <1>1 DEF BridgeConnect, Connecting
  <2> QED
    BY <1>1, <2>1 DEF BridgeConnect, exits, BridgeHoldsItsClient, AloneIsAlone, InstalledMeanwhile
<1>2. CASE ~bridgeConnected
  <2>1. Connecting' = Connecting \union {c}
    BY <1>2 DEF BridgeConnect, Connecting
  <2>2. CASE Connecting \union closing = {}
    BY <1>2, <2>1, <2>2
       DEF BridgeConnect, exits, BridgeHoldsItsClient, AloneIsAlone, InstalledMeanwhile
  <2>3. CASE Connecting \union closing # {}
    <3>1. overlapped' = overlapped \union Connecting \union {c}
      BY <1>2, <2>3 DEF BridgeConnect
    <3>2. client \in overlapped \union closing \union {NoClient}
      BY <1>2 DEF BridgeHoldsItsClient, InstalledMeanwhile
    <3>3. UNCHANGED <<bridgeConnected, client, open, exitHandler, listeners, closing, unclosed>>
      BY DEF BridgeConnect, exits
    <3>4. BridgeHoldsItsClient'
      BY <1>2, <3>1, <3>3 DEF BridgeHoldsItsClient
    <3>5. AloneIsAlone'
      BY <2>1, <3>1 DEF AloneIsAlone
    <3>6. InstalledMeanwhile'
      BY <1>2, <3>1, <3>2, <3>3 DEF InstalledMeanwhile
    <3> QED
      BY <1>2, <3>3, <3>4, <3>5, <3>6 DEF BridgeConnect
  <2> QED BY <2>2, <2>3
<1> QED BY <1>1, <1>2

(* The transport is there: the call goes on.                                *)
LEMMA TransportStep == ASSUME BridgeInv, NEW c \in Clients, TransportMade(c) PROVE BridgeInv'
<1>1. Connecting' = Connecting
  BY DEF BridgeInv, TransportMade, Connecting
<1> QED
  BY <1>1 DEF BridgeInv, TransportMade, exits, BridgeHoldsItsClient, AloneIsAlone,
              InstalledMeanwhile

(* The handshake is done.  The client that is replaced is in overlapped or  *)
(* is being closed.                                                         *)
LEMMA ConnectedStep == ASSUME BridgeInv, NEW c \in Clients, Connected(c) PROVE BridgeInv'
<1> USE ClientsAssumption DEF BridgeInv
<1>1. c \in Connecting /\ Connecting' = Connecting \ {c}
  BY DEF Connected, Connecting
<1>2. client' = c /\ exitHandler' = c /\ bridgeConnected'
  BY DEF Connected
<1>3. UNCHANGED <<closing, overlapped, unclosed>> /\ open' = open \union {c}
      /\ listeners' = listeners \union {c}
  BY DEF Connected
<1>4. /\ client \in overlapped \union closing \union {NoClient}
      /\ exitHandler \in overlapped \union {NoClient}
  BY <1>1 DEF InstalledMeanwhile
<1>5. BridgeHoldsItsClient'
  <2>1. open' \subseteq {client'} \union closing' \union overlapped' \union unclosed'
    BY <1>2, <1>3, <1>4 DEF BridgeHoldsItsClient
  <2>2. listeners' \subseteq {exitHandler'} \union overlapped'
    BY <1>2, <1>3, <1>4 DEF BridgeHoldsItsClient
  <2> QED
    BY <1>2, <2>1, <2>2 DEF BridgeHoldsItsClient
<1>6. c \notin overlapped => Connecting = {c} /\ closing = {} /\ ~bridgeConnected
  BY <1>1 DEF AloneIsAlone
<1>7. AloneIsAlone'
  BY <1>1, <1>3, <1>6 DEF AloneIsAlone
<1>8. InstalledMeanwhile'
  BY <1>1, <1>2, <1>6, <1>3 DEF InstalledMeanwhile
<1> QED
  BY <1>2, <1>3, <1>5, <1>6, <1>7, <1>8 DEF Connected

(* The calls that end without a client.                                     *)
LEMMA FailStep == ASSUME BridgeInv, NEW c \in Clients, ConnectFails(c) PROVE BridgeInv'
<1> USE DEF BridgeInv
<1>1. Connecting' = Connecting \ {c}
  BY DEF ConnectFails, Connecting
<1>2. UNCHANGED <<bridgeConnected, client, open, exitHandler, listeners, closing, overlapped,
                  unclosed>>
  BY DEF ConnectFails, exits
<1>3. BridgeHoldsItsClient'
  BY <1>2 DEF BridgeHoldsItsClient
<1>4. AloneIsAlone'
  BY <1>1, <1>2 DEF AloneIsAlone, ConnectFails
<1>5. InstalledMeanwhile'
  BY <1>1, <1>2 DEF InstalledMeanwhile
<1> QED
  BY <1>2, <1>3, <1>4, <1>5 DEF ConnectFails

(* disconnect(): its client is being closed from now on.                    *)
LEMMA DisconnectStep == ASSUME BridgeInv, BridgeDisconnect PROVE BridgeInv'
<1> USE DEF BridgeInv
<1>1. Connecting' = Connecting
  BY DEF BridgeDisconnect, Connecting
<1>2. BridgeHoldsItsClient'
  BY DEF BridgeDisconnect, BridgeHoldsItsClient
<1>3. AloneIsAlone'
  BY <1>1 DEF BridgeDisconnect, AloneIsAlone
<1>4. InstalledMeanwhile'
  BY <1>1 DEF BridgeDisconnect, InstalledMeanwhile
<1> QED
  BY <1>2, <1>3, <1>4 DEF BridgeDisconnect

(* The close is done, or has failed: then it is in unclosed if it is open.  *)
LEMMA ClosedStep ==
  ASSUME BridgeInv, NEW c \in Clients \union {NoClient},
         ClientClosed(c) \/ (c \in Clients /\ CloseFails(c))
  PROVE  BridgeInv'
<1> USE DEF BridgeInv
<1>0. CloseOver(c)
  BY DEF ClientClosed, CloseFails
<1>1. Connecting' = Connecting
  BY <1>0 DEF CloseOver, exits, Connecting
<1>2. UNCHANGED <<bridgeConnected, exitHandler, listeners, overlapped>>
  BY <1>0 DEF CloseOver, exits
<1>3. /\ c \in closing /\ closing' = closing \ {c} /\ client' = NoClient
      /\ UNCHANGED connects
  BY <1>0 DEF CloseOver
<1>4. open' \subseteq open /\ unclosed \subseteq unclosed'
      /\ (c \in open' => c \in unclosed')
  BY DEF ClientClosed, CloseFails
<1>5. BridgeHoldsItsClient'
  <2>1. client \in overlapped \union closing \union {NoClient}
    BY <1>3 DEF InstalledMeanwhile
  <2>2. open' \subseteq {client'} \union closing' \union overlapped' \union unclosed'
    BY <1>2, <1>3, <1>4, <2>1 DEF BridgeHoldsItsClient
  <2>3. bridgeConnected' => overlapped' # {}
    BY <1>2, <1>3
  <2> QED
    BY <1>2, <1>3, <2>2, <2>3 DEF BridgeHoldsItsClient
<1>6. AloneIsAlone'
  BY <1>1, <1>2, <1>3 DEF AloneIsAlone
<1>7. InstalledMeanwhile'
  BY <1>1, <1>2, <1>3 DEF InstalledMeanwhile
<1> QED
  BY <1>2, <1>3, <1>4, <1>5, <1>6, <1>7

LEMMA GoneStep == ASSUME BridgeInv, NEW c \in open, ServerGone(c) PROVE BridgeInv'
<1>1. Connecting' = Connecting
  BY DEF ServerGone, Connecting
<1> QED
  BY <1>1 DEF BridgeInv, ServerGone, exits, BridgeHoldsItsClient, AloneIsAlone,
              InstalledMeanwhile

LEMMA BridgeStep == ASSUME BridgeInv, [BridgeNext]_bridgeVars PROVE BridgeInv'
<1>1. CASE UNCHANGED bridgeVars
  BY <1>1 DEF BridgeInv, bridgeVars, exits, Connecting, BridgeHoldsItsClient, AloneIsAlone,
              InstalledMeanwhile
<1>2. CASE BridgeNext
  BY <1>2, ConnectStep, TransportStep, ConnectedStep, FailStep, DisconnectStep,
     ClosedStep, GoneStep DEF BridgeNext
<1> QED BY <1>1, <1>2

-----------------------------------------------------------------------------
(* mcp-bridge.ts: a bridge that is disconnected has no client once its      *)
(* closes are over; every open connection is that of the bridge's client,   *)
(* of one being closed, of a call that overlapped another, or its close()   *)
(* threw (disconnect() swallows that and forgets the client); and every     *)
(* exit handler is the bridge's or that of a call that overlapped.          *)
THEOREM BridgeKeepsHold == BridgeSpec => []BridgeHoldsItsClient
<1>1. BridgeInit => BridgeInv
  BY BridgeInitially
<1>2. BridgeInv /\ [BridgeNext]_bridgeVars => BridgeInv'
  BY BridgeStep
<1>3. BridgeInv => BridgeHoldsItsClient
  BY DEF BridgeInv
<1> QED BY <1>1, <1>2, <1>3, PTL DEF BridgeSpec

-----------------------------------------------------------------------------
(* The dev servers.                                                         *)

(* A server that start() kills has its five seconds or had them.            *)
KillingIsTimed ==
  \A s \in ServerNames :
    starts[s] = "killing" /\ s \in runningServers => s \in killTimers \union givenUp

(* While a stop() waits, whatever runs has its five seconds, had them or    *)
(* was spawned meanwhile: this is what lets that stop() forget everything.  *)
StopsHaveSignalled ==
  stopping # {} => runningServers \subseteq killTimers \union givenUp \union late

(* What a stop() sent a signal never gets a second timer, and has been      *)
(* given up when it outlived the first.                                     *)
StopsAwaitTheirs ==
  /\ \A k \in 1..MaxStops :
       /\ stopAwaits[k] \subseteq signalled
       /\ stopAwaits[k] \intersect runningServers \subseteq killTimers \union givenUp
       /\ k > stops => stopAwaits[k] = {}
  /\ \A k \in (1..stops) \ stopping : stopAwaits[k] \intersect killTimers = {}

(* Only what was spawned has been sent a signal.                            *)
OnlyTheSpawned == \A s \in signalled : starts[s] \notin {"idle", "asking"}

(* The inductive invariant.                                                 *)
ServersInv ==
  /\ DevServersTypeOK /\ NoneForgotten /\ KillingIsTimed /\ StopsHaveSignalled
  /\ StopsAwaitTheirs /\ OnlyTheSpawned

LEMMA ServerSpawnKeeps ==
  ASSUME ServersInv, NEW s \in ServerNames, starts[s] \in {"idle", "asking"}, Spawn(s)
  PROVE  ServersInv'
<1> USE StopsAssumption DEF ServersInv, DevServersTypeOK, Spawn, killVars, stopVars
<1>0. s \notin signalled
  BY DEF OnlyTheSpawned
<1>1. DevServersTypeOK'
  OBVIOUS
<1>2. NoneForgotten'
  BY <1>0 DEF NoneForgotten, StopsAwaitTheirs
<1>3. KillingIsTimed'
  BY DEF KillingIsTimed
<1>4. StopsHaveSignalled'
  BY DEF StopsHaveSignalled
<1>5. StopsAwaitTheirs'
  BY <1>0 DEF StopsAwaitTheirs
<1>6. OnlyTheSpawned'
  BY DEF OnlyTheSpawned
<1> QED BY <1>1, <1>2, <1>3, <1>4, <1>5, <1>6

LEMMA ServerPollKeeps ==
  ASSUME ServersInv, NEW s \in ServerNames,
         Polled(s) \/ Killed(s) \/ ProcessExits(s) \/ ForceKill(s)
  PROVE  ServersInv'
<1> USE StopsAssumption
    DEF ServersInv, DevServersTypeOK, Become, ToKill, KillProcess, killVars, stopVars
<1>1. CASE Polled(s)
  <2> USE <1>1 DEF Polled
  <2>a. /\ \E state \in {"up", "killing"} : starts' = [starts EXCEPT ![s] = state]
        /\ UNCHANGED <<runningServers, processes, stopping, stopAwaits, stops, late,
                       forceKilled>>
    OBVIOUS
  <2>b. \/ UNCHANGED <<signalled, killTimers, givenUp>>
        \/ /\ signalled' = signalled \union (({s} \intersect runningServers) \ signalled)
           /\ killTimers' = killTimers \union (({s} \intersect runningServers) \ signalled)
           /\ givenUp' = givenUp \union ({s} \intersect runningServers \intersect signalled)
    OBVIOUS
  <2>1. DevServersTypeOK'
    <3> HIDE <1>1 DEF Polled, KillProcess, ToKill, Become
    <3>1. /\ starts' \in [ServerNames ->
               {"idle", "asking", "polling", "killing", "up", "failed"}]
          /\ \A r \in runningServers : starts'[r] \notin {"idle", "asking"}
      BY <2>a
    <3>2. /\ killTimers' \subseteq runningServers \intersect signalled'
          /\ UNION {signalled', forceKilled', givenUp', late'} \subseteq ServerNames
      BY <2>a, <2>b
    <3> QED BY <2>a, <3>1, <3>2
  <2>2. NoneForgotten'
    BY DEF NoneForgotten
  <2>3. KillingIsTimed'
    BY DEF KillingIsTimed
  <2>4. StopsHaveSignalled'
    BY DEF StopsHaveSignalled
  <2>5. StopsAwaitTheirs'
    BY DEF StopsAwaitTheirs
  <2>6. OnlyTheSpawned'
    BY DEF OnlyTheSpawned
  <2> QED BY <2>1, <2>2, <2>3, <2>4, <2>5, <2>6
<1>2. CASE Killed(s)
  <2> USE <1>2 DEF Killed
  <2>1. DevServersTypeOK'
    OBVIOUS
  <2>2. NoneForgotten'
    BY DEF NoneForgotten, KillingIsTimed
  <2>3. KillingIsTimed'
    BY DEF KillingIsTimed
  <2>4. StopsHaveSignalled' /\ StopsAwaitTheirs' /\ OnlyTheSpawned'
    BY DEF StopsHaveSignalled, StopsAwaitTheirs, OnlyTheSpawned
  <2> QED BY <2>1, <2>2, <2>3, <2>4
<1>3. CASE ProcessExits(s)
  <2> USE <1>3 DEF ProcessExits
  <2>1. DevServersTypeOK'
    OBVIOUS
  <2>2. NoneForgotten'
    BY DEF NoneForgotten
  <2>3. KillingIsTimed'
    BY DEF KillingIsTimed
  <2>4. StopsHaveSignalled' /\ StopsAwaitTheirs' /\ OnlyTheSpawned'
    BY DEF StopsHaveSignalled, StopsAwaitTheirs, OnlyTheSpawned
  <2> QED BY <2>1, <2>2, <2>3, <2>4
<1>4. CASE ForceKill(s)
  <2> USE <1>4 DEF ForceKill
  <2>1. DevServersTypeOK'
    OBVIOUS
  <2>2. NoneForgotten'
    BY DEF NoneForgotten
  <2>3. KillingIsTimed'
    BY DEF KillingIsTimed
  <2>4. StopsHaveSignalled' /\ StopsAwaitTheirs' /\ OnlyTheSpawned'
    BY DEF StopsHaveSignalled, StopsAwaitTheirs, OnlyTheSpawned
  <2> QED BY <2>1, <2>2, <2>3, <2>4
<1> QED BY <1>1, <1>2, <1>3, <1>4

LEMMA StopKeeps == ASSUME ServersInv, StopServers PROVE ServersInv'
<1> USE StopsAssumption DEF ServersInv, DevServersTypeOK, StopServers, ToKill, KillProcess
<1>0. stops' \in 1..MaxStops /\ stopAwaits[stops'] = {} /\ stops' \in stopping'
  BY DEF StopsAwaitTheirs
<1>1. DevServersTypeOK'
  BY <1>0
<1>2. ASSUME NEW k \in 1..MaxStops, k # stops' PROVE stopAwaits'[k] = stopAwaits[k]
  BY <1>0, <1>2
<1>3. stopAwaits'[stops'] = (processes \intersect runningServers) \ signalled
  BY <1>0
<1>4. StopsAwaitTheirs'
  BY <1>0, <1>2, <1>3 DEF StopsAwaitTheirs
<1>5. NoneForgotten'
  BY <1>0, <1>2 DEF NoneForgotten
<1>6. KillingIsTimed' /\ OnlyTheSpawned'
  BY DEF KillingIsTimed, OnlyTheSpawned
<1>7. StopsHaveSignalled'
  BY DEF StopsHaveSignalled, NoneForgotten
<1> QED BY <1>1, <1>4, <1>5, <1>6, <1>7

LEMMA StoppedKeeps == ASSUME ServersInv, NEW k \in stopping, Stopped(k) PROVE ServersInv'
<1> USE StopsAssumption DEF ServersInv, DevServersTypeOK, Stopped, killVars
<1>1. DevServersTypeOK'
  OBVIOUS
<1>2. NoneForgotten'
  BY DEF NoneForgotten, StopsHaveSignalled, StopsAwaitTheirs
<1>3. KillingIsTimed' /\ StopsHaveSignalled' /\ StopsAwaitTheirs' /\ OnlyTheSpawned'
  BY DEF KillingIsTimed, StopsHaveSignalled, StopsAwaitTheirs, OnlyTheSpawned
<1> QED BY <1>1, <1>2, <1>3

LEMMA CleanupKeeps == ASSUME ServersInv, Cleanup PROVE ServersInv'
<1> USE StopsAssumption DEF ServersInv, DevServersTypeOK, Cleanup, ToKill, stopVars
<1>1. DevServersTypeOK'
  OBVIOUS
<1>2. NoneForgotten'
  BY DEF NoneForgotten
<1>3. KillingIsTimed' /\ StopsHaveSignalled' /\ StopsAwaitTheirs' /\ OnlyTheSpawned'
  BY DEF KillingIsTimed, StopsHaveSignalled, StopsAwaitTheirs, OnlyTheSpawned
<1> QED BY <1>1, <1>2, <1>3

LEMMA ServersStep == ASSUME ServersInv, [DevServersNext]_devServerVars PROVE ServersInv'
<1> USE DEF ServersInv
<1>1. ASSUME NEW s \in ServerNames, StartServer(s) \/ UrlAnswers(s) PROVE ServersInv'
  <2>1. CASE Spawn(s)
    BY <1>1, <2>1, ServerSpawnKeeps DEF StartServer, UrlAnswers
  <2>2. ASSUME NEW state \in {"asking", "up"}, Become(s, state), state = "up" => starts[s] = "asking",
               starts[s] \in {"idle", "asking"}, UNCHANGED <<processes, killVars>>
        PROVE  ServersInv'
    <3> USE <2>2 DEF Become, killVars, stopVars, DevServersTypeOK
    <3>1. DevServersTypeOK'
      OBVIOUS
    <3>2. NoneForgotten' /\ KillingIsTimed' /\ StopsHaveSignalled'
      BY DEF NoneForgotten, KillingIsTimed, StopsHaveSignalled
    <3>3. StopsAwaitTheirs' /\ OnlyTheSpawned'
      BY DEF StopsAwaitTheirs, OnlyTheSpawned
    <3> QED BY <3>1, <3>2, <3>3
  <2> QED BY <1>1, <2>1, <2>2 DEF StartServer, UrlAnswers
<1>2. CASE UNCHANGED devServerVars
  BY <1>2 DEF devServerVars, killVars, stopVars, DevServersTypeOK, NoneForgotten,
              KillingIsTimed, StopsHaveSignalled, StopsAwaitTheirs, OnlyTheSpawned
<1> QED
  BY <1>1, <1>2, ServerPollKeeps, StopKeeps, StoppedKeeps, CleanupKeeps DEF DevServersNext

LEMMA ServersInvariant == DevServersSpec => []ServersInv
<1>1. DevServersInit => ServersInv
  BY StopsAssumption
     DEF DevServersInit, ServersInv, DevServersTypeOK, NoneForgotten, KillingIsTimed,
         StopsHaveSignalled, StopsAwaitTheirs, OnlyTheSpawned
<1>2. ServersInv /\ [DevServersNext]_devServerVars => ServersInv'
  BY ServersStep
<1> QED BY <1>1, <1>2, PTL DEF DevServersSpec

(* What process-manager.ts tracks are processes that run.                   *)
THEOREM DevServersTypeCorrect == DevServersSpec => []DevServersTypeOK
<1>1. ServersInv => DevServersTypeOK
  BY DEF ServersInv
<1> QED BY <1>1, ServersInvariant, PTL

(* The agent's tool programs together: whatever order of starts, polls,     *)
(* stops, exits, connects, disconnects and failures, a dev server that runs *)
(* is tracked or waited for, was left running after a signal it had been    *)
(* sent, or was spawned during a stop(); a stop() that returned has waited  *)
(* five seconds for whatever it sent a signal; and a connection to an MCP   *)
(* server is the bridge's, is being closed, comes of an overlap, or could   *)
(* not be closed.                                                           *)
THEOREM NothingStaysForgotten == ToolServersSpec => []NothingIsForgotten
<1>1. ServersInv => NoneForgotten
  BY DEF ServersInv
<1> QED
  BY <1>1, ServersInvariant, BridgeKeepsHold, PTL DEF ToolServersSpec, NothingIsForgotten
-----------------------------------------------------------------------------
(* The sessions of an editor.  Streams are of different calls of connect()  *)
(* that are done.                                                           *)
ConnectStates == {"idle", "importing", "done", "refused"}
DoneConnects == {c \in Connects : acpConnects[c] = "done"}
ConnectionInv ==
  /\ acpConnects \in [Connects -> ConnectStates]
  /\ serverConnected \in BOOLEAN /\ acpConnection \in BOOLEAN /\ transportClosed \in BOOLEAN
  /\ streams \in Nat /\ streams <= Cardinality(DoneConnects)
  /\ serverConnected <=> acpConnection
  /\ serverConnected => streams > 0

LEMMA ConnectsKeep ==
  ASSUME ConnectionInv,
         \/ \E c \in Connects : ConnectEditor(c) \/ Imported(c)
         \/ DisconnectEditor
         \/ UNCHANGED connectionVars
  PROVE  ConnectionInv'
<1>0. IsFiniteSet(DoneConnects) /\ Cardinality(DoneConnects) \in Nat
  BY AcpAssumption, FS_Subset, FS_CardinalityType DEF DoneConnects
<1>1. ASSUME NEW c \in Connects, acpConnects[c] # "done", NEW to \in ConnectStates,
             acpConnects' = [acpConnects EXCEPT ![c] = to]
      PROVE  /\ acpConnects' \in [Connects -> ConnectStates]
             /\ Cardinality(DoneConnects') =
                  IF to = "done" THEN Cardinality(DoneConnects) + 1 ELSE Cardinality(DoneConnects)
  <2>1. acpConnects' \in [Connects -> ConnectStates]
    BY <1>1 DEF ConnectionInv
  <2>2. DoneConnects' = IF to = "done" THEN DoneConnects \union {c} ELSE DoneConnects
    BY <1>1 DEF ConnectionInv, DoneConnects
  <2>3. c \notin DoneConnects
    BY <1>1 DEF DoneConnects
  <2> QED BY <1>0, <2>1, <2>2, <2>3, FS_AddElement
<1>2. ASSUME NEW c \in Connects, ConnectEditor(c) PROVE ConnectionInv'
  <2> DEFINE to == IF serverConnected THEN "done" ELSE "importing"
  <2>1. acpConnects[c] # "done" /\ to \in ConnectStates
        /\ acpConnects' = [acpConnects EXCEPT ![c] = to]
        /\ UNCHANGED <<serverConnected, acpConnection, transportClosed, streams>>
    BY <1>2 DEF ConnectEditor, ConnectStates
  <2> HIDE DEF to
  <2>0. /\ acpConnects' \in [Connects -> ConnectStates]
        /\ Cardinality(DoneConnects') =
             IF to = "done" THEN Cardinality(DoneConnects) + 1 ELSE Cardinality(DoneConnects)
    BY <1>1, <2>1
  <2>2. /\ acpConnects' \in [Connects -> ConnectStates]
        /\ Cardinality(DoneConnects') \in Nat
        /\ Cardinality(DoneConnects) <= Cardinality(DoneConnects')
    BY <1>0, <2>0
  <2>3. streams' <= Cardinality(DoneConnects')
    BY <1>0, <2>1, <2>2 DEF ConnectionInv
  <2> QED BY <2>1, <2>2, <2>3 DEF ConnectionInv
<1>3. ASSUME NEW c \in Connects, Imported(c) PROVE ConnectionInv'
  <2>1. CASE transportClosed
    <3>1. acpConnects[c] # "done" /\ "refused" \in ConnectStates
          /\ acpConnects' = [acpConnects EXCEPT ![c] = "refused"]
          /\ UNCHANGED <<serverConnected, acpConnection, transportClosed, streams>>
      BY <1>3, <2>1 DEF Imported, ConnectStates
    <3>2. acpConnects' \in [Connects -> ConnectStates]
          /\ Cardinality(DoneConnects') = Cardinality(DoneConnects)
      BY <1>1, <3>1
    <3> QED BY <3>1, <3>2 DEF ConnectionInv
  <2>2. CASE ~transportClosed
    <3>1. acpConnects[c] # "done" /\ "done" \in ConnectStates
          /\ acpConnects' = [acpConnects EXCEPT ![c] = "done"]
          /\ serverConnected' = TRUE /\ acpConnection' = TRUE /\ streams' = streams + 1
          /\ UNCHANGED transportClosed
      BY <1>3, <2>2 DEF Imported, ConnectStates
    <3>2. acpConnects' \in [Connects -> ConnectStates]
          /\ Cardinality(DoneConnects') = Cardinality(DoneConnects) + 1
      BY <1>1, <3>1
    <3>3. streams \in Nat /\ streams <= Cardinality(DoneConnects)
      BY DEF ConnectionInv
    <3>4. streams' \in Nat /\ streams' <= Cardinality(DoneConnects') /\ streams' > 0
      BY <1>0, <3>1, <3>2, <3>3
    <3> QED BY <3>1, <3>2, <3>4 DEF ConnectionInv
  <2> QED BY <2>1, <2>2 DEF ConnectionInv
<1>4. CASE DisconnectEditor
  BY <1>4 DEF DisconnectEditor, ConnectionInv, DoneConnects
<1>5. CASE UNCHANGED connectionVars
  BY <1>5 DEF connectionVars, ConnectionInv, DoneConnects
<1> QED BY <1>2, <1>3, <1>4, <1>5

-----------------------------------------------------------------------------
(* A handler runs for the prompt whose controller the open session has; one *)
(* whose session is gone was told so.                                       *)
HandlerSet == [session : SessionIds \union {"none"}, aborted : BOOLEAN]
SessionStates == {"unused", "idle", "prompting", "gone"}
PromptTypes ==
  /\ acpSessions \in [SessionIds -> SessionStates]
  /\ controllerOf \in [SessionIds -> Prompts \union {NoPrompt}]
  /\ handling \in [Prompts -> HandlerSet]
  /\ \A p \in Prompts : handling[p].session = "none" => handling[p] = NoHandler
ControllersAreTrue ==
  /\ \A s \in SessionIds : acpSessions[s] = "prompting" <=> controllerOf[s] # NoPrompt
  /\ \A s \in SessionIds : controllerOf[s] # NoPrompt =>
       /\ controllerOf[s] \in prompted
       /\ IF s \in wedged THEN handling[controllerOf[s]] = NoHandler
          ELSE handling[controllerOf[s]].session = s
  /\ \A s \in wedged : s \in SessionIds => acpSessions[s] \in {"prompting", "gone"}
HandlersAreTrue ==
  \A p \in Prompts : \A s \in SessionIds : handling[p].session = s =>
    /\ p \in prompted
    /\ (acpSessions[s] = "prompting" /\ controllerOf[s] = p) \/ acpSessions[s] = "gone"
SignalsAreTrue ==
  \A p \in Prompts : /\ handling[p].aborted <=> p \in cancelled
                     /\ \A s \in SessionIds :
                          handling[p].session = s /\ acpSessions[s] = "gone" => handling[p].aborted
SessionsAreFew == IsFiniteSet(OpenSessions) /\ Cardinality(OpenSessions) <= maxSessions
PromptInv == /\ PromptTypes /\ ControllersAreTrue /\ HandlersAreTrue
             /\ SignalsAreTrue /\ SessionsAreFew
AcpInv == ConnectionInv /\ PromptInv

LEMMA AcpStarts == AcpInit => AcpInv
<1> SUFFICES ASSUME AcpInit PROVE AcpInv
  OBVIOUS
<1>1. ConnectionInv
  <2>1. IsFiniteSet(DoneConnects) /\ Cardinality(DoneConnects) \in Nat
    BY AcpAssumption, FS_Subset, FS_CardinalityType DEF DoneConnects
  <2>2. acpConnects \in [Connects -> ConnectStates]
    BY DEF AcpInit, ConnectStates
  <2>3. streams \in Nat /\ streams <= Cardinality(DoneConnects)
    BY <2>1 DEF AcpInit
  <2> QED BY <2>2, <2>3 DEF AcpInit, ConnectionInv
<1>2. PromptTypes
  BY DEF AcpInit, PromptTypes, HandlerSet, SessionStates, NoHandler
<1>3. \A p \in Prompts : handling[p] = NoHandler /\ handling[p].session = "none"
                         /\ handling[p].aborted = FALSE
  BY DEF AcpInit, NoHandler
<1>4. ControllersAreTrue /\ HandlersAreTrue /\ SignalsAreTrue
  BY <1>3, AcpAssumption DEF AcpInit, ControllersAreTrue, HandlersAreTrue, SignalsAreTrue
<1>5. SessionsAreFew
  <2>1. OpenSessions = {}
    BY DEF AcpInit, OpenSessions
  <2>2. maxSessions \in Nat
    BY AcpAssumption
  <2> QED BY <2>1, <2>2, FS_EmptySet DEF SessionsAreFew
<1> QED BY <1>1, <1>2, <1>4, <1>5 DEF AcpInv, PromptInv

(* The open sessions stay the same set: so few they stay.                   *)
LEMMA SameSessions ==
  ASSUME SessionsAreFew, OpenSessions' = OpenSessions
  PROVE  SessionsAreFew'
  BY DEF SessionsAreFew

LEMMA SessionOpens ==
  ASSUME PromptInv, NEW s \in SessionIds, NewSession(s)
  PROVE  PromptInv'
<1>0. PromptTypes /\ ControllersAreTrue /\ HandlersAreTrue /\ SignalsAreTrue /\ SessionsAreFew
  BY DEF PromptInv
<1>1. /\ acpSessions[s] = "unused" /\ Cardinality(OpenSessions) < maxSessions
      /\ acpSessions' = [acpSessions EXCEPT ![s] = "idle"]
      /\ UNCHANGED <<controllerOf, handling, prompted, cancelled, wedged>>
  BY DEF NewSession
<1>2. acpSessions' \in [SessionIds -> SessionStates]
      /\ \A t \in SessionIds : acpSessions'[t] = IF t = s THEN "idle" ELSE acpSessions[t]
  BY <1>0, <1>1 DEF PromptTypes, SessionStates
<1>3. PromptTypes'
  BY <1>0, <1>1, <1>2 DEF PromptTypes
<1>4. ControllersAreTrue'
  BY <1>0, <1>1, <1>2 DEF ControllersAreTrue
<1>5. HandlersAreTrue'
  BY <1>0, <1>1, <1>2 DEF HandlersAreTrue
<1>6. SignalsAreTrue'
  BY <1>0, <1>1, <1>2 DEF SignalsAreTrue
<1>7. SessionsAreFew'
  <2>1. OpenSessions' = OpenSessions \union {s} /\ s \notin OpenSessions
    BY <1>1, <1>2 DEF OpenSessions
  <2>2. IsFiniteSet(OpenSessions') /\ Cardinality(OpenSessions') = Cardinality(OpenSessions) + 1
    BY <1>0, <2>1, FS_AddElement DEF SessionsAreFew
  <2>3. Cardinality(OpenSessions) \in Nat /\ maxSessions \in Nat
    BY <1>0, FS_CardinalityType, AcpAssumption DEF SessionsAreFew
  <2>4. Cardinality(OpenSessions') <= maxSessions
    BY <1>1, <2>2, <2>3
  <2> QED BY <2>2, <2>4 DEF SessionsAreFew
<1> QED BY <1>3, <1>4, <1>5, <1>6, <1>7 DEF PromptInv

LEMMA PromptStarts ==
  ASSUME PromptInv, NEW s \in SessionIds, NEW p \in Prompts, Prompt(p, s)
  PROVE  PromptInv'
<1>0. PromptTypes /\ ControllersAreTrue /\ HandlersAreTrue /\ SignalsAreTrue /\ SessionsAreFew
  BY DEF PromptInv
<1> DEFINE handler == [session |-> s, aborted |-> FALSE]
<1>1. /\ p \notin prompted /\ acpSessions[s] = "idle" /\ prompted' = prompted \union {p}
      /\ acpSessions' = [acpSessions EXCEPT ![s] = "prompting"]
      /\ controllerOf' = [controllerOf EXCEPT ![s] = p]
      /\ UNCHANGED cancelled
      /\ \/ handling' = [handling EXCEPT ![p] = handler] /\ UNCHANGED wedged
         \/ wedged' = wedged \union {s} /\ UNCHANGED handling
  BY DEF Prompt
<1>2. p # NoPrompt /\ "none" \notin SessionIds
  BY AcpAssumption DEF NoPrompt
<1>3. /\ acpSessions' \in [SessionIds -> SessionStates]
      /\ \A t \in SessionIds : acpSessions'[t] = IF t = s THEN "prompting" ELSE acpSessions[t]
      /\ controllerOf' \in [SessionIds -> Prompts \union {NoPrompt}]
      /\ \A t \in SessionIds : controllerOf'[t] = IF t = s THEN p ELSE controllerOf[t]
  BY <1>0, <1>1 DEF PromptTypes, SessionStates
<1>4. /\ handling[p] = NoHandler /\ p \notin cancelled /\ s \notin wedged
      /\ controllerOf[s] = NoPrompt
      /\ \A q \in Prompts : handling[q].session # s
  <2>1. handling[p].session = "none"
    BY <1>0, <1>1 DEF PromptTypes, HandlerSet, HandlersAreTrue
  <2>2. handling[p] = NoHandler /\ ~handling[p].aborted
    BY <1>0, <2>1 DEF PromptTypes, NoHandler
  <2>3. p \notin cancelled
    BY <1>0, <2>2 DEF SignalsAreTrue
  <2>4. s \notin wedged /\ controllerOf[s] = NoPrompt
    BY <1>0, <1>1 DEF ControllersAreTrue
  <2>5. \A q \in Prompts : handling[q].session # s
    BY <1>0, <1>1 DEF HandlersAreTrue
  <2> QED BY <2>2, <2>3, <2>4, <2>5
<1>5. OpenSessions' = OpenSessions
  BY <1>1, <1>3 DEF OpenSessions
<1>6. CASE handling' = [handling EXCEPT ![p] = handler] /\ UNCHANGED wedged
  <2>1. /\ handling' \in [Prompts -> HandlerSet]
        /\ \A q \in Prompts : handling'[q] = IF q = p THEN handler ELSE handling[q]
    BY <1>0, <1>6 DEF PromptTypes, HandlerSet
  <2>2. handler.session = s /\ handler.aborted = FALSE
    OBVIOUS
  <2> HIDE DEF handler
  <2>3. PromptTypes'
    BY <1>0, <1>2, <1>3, <2>1, <2>2 DEF PromptTypes
  <2>4. ControllersAreTrue'
    <3>1. \A t \in SessionIds : t # s => controllerOf[t] # p
      BY <1>0, <1>1, <1>2 DEF ControllersAreTrue
    <3>2. \A t \in SessionIds : t # s /\ controllerOf[t] # NoPrompt => controllerOf[t] \in Prompts
      BY <1>0 DEF PromptTypes
    <3>3. \A t \in SessionIds : t # s /\ controllerOf[t] # NoPrompt =>
            handling'[controllerOf[t]] = handling[controllerOf[t]]
      BY <2>1, <3>1, <3>2
    <3> QED BY <1>0, <1>1, <1>2, <1>3, <1>4, <1>6, <2>1, <2>2, <3>3 DEF ControllersAreTrue
  <2>5. HandlersAreTrue'
    BY <1>0, <1>1, <1>3, <1>4, <2>1, <2>2 DEF HandlersAreTrue
  <2>6. SignalsAreTrue'
    BY <1>0, <1>1, <1>3, <1>4, <2>1, <2>2 DEF SignalsAreTrue
  <2> QED BY <1>0, <1>5, <2>3, <2>4, <2>5, <2>6, SameSessions DEF PromptInv
<1>7. CASE wedged' = wedged \union {s} /\ UNCHANGED handling
  <2>1. PromptTypes'
    BY <1>0, <1>3, <1>7 DEF PromptTypes
  <2>2. ControllersAreTrue'
    BY <1>0, <1>1, <1>2, <1>3, <1>4, <1>7 DEF ControllersAreTrue
  <2>3. HandlersAreTrue'
    BY <1>0, <1>1, <1>3, <1>4, <1>7 DEF HandlersAreTrue
  <2>4. SignalsAreTrue'
    BY <1>0, <1>1, <1>3, <1>4, <1>7 DEF SignalsAreTrue
  <2> QED BY <1>0, <1>5, <2>1, <2>2, <2>3, <2>4, SameSessions DEF PromptInv
<1> QED BY <1>1, <1>6, <1>7

(* Aborting the controllers of open sessions tells exactly their handlers.  *)
LEMMA AbortsTell ==
  ASSUME PromptInv, NEW S \in SUBSET OpenSessions, Aborted(S)
  PROVE  /\ handling' \in [Prompts -> HandlerSet]
         /\ \A p \in Prompts :
              /\ handling'[p].session = handling[p].session
              /\ handling[p] = NoHandler => handling'[p] = NoHandler
              /\ handling[p].aborted => handling'[p].aborted
              /\ handling'[p].aborted <=> p \in cancelled'
              /\ handling[p].session \in S => handling'[p].aborted
<1>0. PromptTypes /\ ControllersAreTrue /\ HandlersAreTrue /\ SignalsAreTrue
  BY DEF PromptInv
<1> DEFINE told(p) == handling[p] # NoHandler /\ \E s \in S : controllerOf[s] = p
<1>1. /\ handling' = [p \in Prompts |-> IF told(p) THEN [handling[p] EXCEPT !.aborted = TRUE]
                                        ELSE handling[p]]
      /\ cancelled' = cancelled \union UNION {HandlersOf(s) : s \in S}
  BY DEF Aborted
<1>2. \A p \in Prompts : handling[p] \in HandlerSet
  BY <1>0 DEF PromptTypes
<1>3. ASSUME NEW p \in Prompts
      PROVE  told(p) <=> handling[p].session \in S
  <2>0. \A s \in S : s \in SessionIds /\ acpSessions[s] \in {"idle", "prompting"}
    BY DEF OpenSessions
  <2>1. ASSUME handling[p] # NoHandler, NEW s \in S, controllerOf[s] = p
        PROVE  handling[p].session \in S
    <3>1. p # NoPrompt
      BY AcpAssumption DEF NoPrompt
    <3>2. handling[p].session = s
      BY <1>0, <2>0, <2>1, <3>1 DEF ControllersAreTrue
    <3> QED BY <3>2
  <2>2. ASSUME handling[p].session \in S PROVE told(p)
    <3> DEFINE s == handling[p].session
    <3>1. s \in SessionIds /\ acpSessions[s] # "gone"
      BY <2>0, <2>2
    <3>2. controllerOf[s] = p
      BY <1>0, <3>1 DEF HandlersAreTrue
    <3>3. handling[p] # NoHandler
      <4>1. NoHandler.session = "none" /\ s # "none"
        BY <3>1, AcpAssumption DEF NoHandler
      <4> QED BY <4>1
    <3> QED BY <2>2, <3>2, <3>3
  <2> QED BY <2>1, <2>2
<1> HIDE DEF told
<1>4. \A p \in Prompts : p \in cancelled' <=> p \in cancelled \/ told(p)
  <2>1. \A p \in Prompts : p \in UNION {HandlersOf(s) : s \in S} <=> handling[p].session \in S
    BY DEF HandlersOf
  <2> QED BY <1>1, <1>3, <2>1
<1>5. ASSUME NEW p \in Prompts
      PROVE  /\ handling'[p] \in HandlerSet
             /\ handling'[p].session = handling[p].session
             /\ handling'[p].aborted <=> told(p) \/ handling[p].aborted
             /\ ~told(p) => handling'[p] = handling[p]
  <2>1. handling[p] \in HandlerSet
    BY <1>2
  <2>2. CASE told(p)
    <3>1. handling'[p] = [handling[p] EXCEPT !.aborted = TRUE]
      BY <1>1, <2>2
    <3> QED BY <2>1, <2>2, <3>1 DEF HandlerSet
  <2>3. CASE ~told(p)
    BY <1>1, <2>1, <2>3
  <2> QED BY <2>2, <2>3
<1>6. handling' \in [Prompts -> HandlerSet]
  BY <1>1, <1>5
<1>7. \A p \in Prompts : handling[p] = NoHandler => ~told(p)
  BY DEF told
<1> QED BY <1>0, <1>3, <1>4, <1>5, <1>6, <1>7 DEF SignalsAreTrue

LEMMA SessionIsCancelled ==
  ASSUME PromptInv, NEW s \in SessionIds, Cancel(s)
  PROVE  PromptInv'
<1>0. PromptTypes /\ ControllersAreTrue /\ HandlersAreTrue /\ SignalsAreTrue /\ SessionsAreFew
  BY DEF PromptInv
<1>1. /\ controllerOf[s] # NoPrompt /\ Aborted({s})
      /\ UNCHANGED <<acpSessions, controllerOf, prompted, wedged>>
  BY DEF Cancel
<1>2. {s} \in SUBSET OpenSessions
  BY <1>0, <1>1 DEF ControllersAreTrue, OpenSessions
<1>3. /\ handling' \in [Prompts -> HandlerSet]
      /\ \A p \in Prompts :
           /\ handling'[p].session = handling[p].session
           /\ handling[p] = NoHandler => handling'[p] = NoHandler
           /\ handling[p].aborted => handling'[p].aborted
           /\ handling'[p].aborted <=> p \in cancelled'
  BY <1>1, <1>2, AbortsTell
<1>4. PromptTypes'
  BY <1>0, <1>1, <1>3 DEF PromptTypes
<1>5. ControllersAreTrue'
  <2>1. \A t \in SessionIds : controllerOf[t] # NoPrompt => controllerOf[t] \in Prompts
    BY <1>0 DEF PromptTypes
  <2> QED BY <1>0, <1>1, <1>3, <2>1 DEF ControllersAreTrue
<1>6. HandlersAreTrue' /\ SignalsAreTrue'
  BY <1>0, <1>1, <1>3 DEF HandlersAreTrue, SignalsAreTrue
<1>7. OpenSessions' = OpenSessions
  BY <1>1 DEF OpenSessions
<1> QED BY <1>0, <1>4, <1>5, <1>6, <1>7, SameSessions DEF PromptInv

LEMMA EditorLeaves ==
  ASSUME PromptInv, DisconnectEditor
  PROVE  PromptInv'
<1>0. PromptTypes /\ ControllersAreTrue /\ HandlersAreTrue /\ SignalsAreTrue /\ SessionsAreFew
  BY DEF PromptInv
<1>1. /\ Aborted(OpenSessions)
      /\ acpSessions' = [s \in SessionIds |-> IF s \in OpenSessions THEN "gone" ELSE acpSessions[s]]
      /\ controllerOf' = [s \in SessionIds |-> NoPrompt]
      /\ UNCHANGED <<prompted, wedged>>
  BY DEF DisconnectEditor
<1>2. /\ handling' \in [Prompts -> HandlerSet]
      /\ \A p \in Prompts :
           /\ handling'[p].session = handling[p].session
           /\ handling[p] = NoHandler => handling'[p] = NoHandler
           /\ handling[p].aborted => handling'[p].aborted
           /\ handling'[p].aborted <=> p \in cancelled'
           /\ handling[p].session \in OpenSessions => handling'[p].aborted
  BY <1>1, AbortsTell
<1>3. /\ acpSessions' \in [SessionIds -> SessionStates]
      /\ \A s \in SessionIds : acpSessions'[s] =
           IF acpSessions[s] \in {"idle", "prompting"} THEN "gone" ELSE acpSessions[s]
  BY <1>0, <1>1 DEF PromptTypes, SessionStates, OpenSessions
<1>4. PromptTypes'
  BY <1>0, <1>1, <1>2, <1>3 DEF PromptTypes
<1>5. ControllersAreTrue'
  BY <1>0, <1>1, <1>3 DEF ControllersAreTrue
<1>6. HandlersAreTrue'
  BY <1>0, <1>1, <1>2, <1>3 DEF HandlersAreTrue
<1>7. SignalsAreTrue'
  BY <1>0, <1>2, <1>3 DEF SignalsAreTrue, OpenSessions
<1>8. OpenSessions' = {}
  BY <1>3 DEF OpenSessions
<1>9. SessionsAreFew'
  <2>1. maxSessions \in Nat
    BY AcpAssumption
  <2> QED BY <1>8, <2>1, FS_EmptySet DEF SessionsAreFew
<1> QED BY <1>4, <1>5, <1>6, <1>7, <1>9 DEF PromptInv

LEMMA PromptIsOver ==
  ASSUME PromptInv, NEW p \in Prompts, PromptEnds(p)
  PROVE  PromptInv'
<1>0. PromptTypes /\ ControllersAreTrue /\ HandlersAreTrue /\ SignalsAreTrue /\ SessionsAreFew
  BY DEF PromptInv
<1> DEFINE s == handling[p].session
           to == IF acpSessions[s] = "gone" THEN "gone" ELSE "idle"
<1>1. /\ handling[p] # NoHandler /\ handling' = [handling EXCEPT ![p] = NoHandler]
      /\ cancelled' = cancelled \ {p}
      /\ acpSessions' = [acpSessions EXCEPT ![s] = to]
      /\ controllerOf' = [controllerOf EXCEPT ![s] = NoPrompt]
      /\ UNCHANGED <<prompted, wedged>>
  BY DEF PromptEnds
<1>2. s \in SessionIds
  BY <1>0, <1>1 DEF PromptTypes, HandlerSet
<1>3. /\ (acpSessions[s] = "prompting" /\ controllerOf[s] = p) \/ acpSessions[s] = "gone"
      /\ acpSessions[s] = "gone" => controllerOf[s] = NoPrompt
  BY <1>0, <1>2 DEF HandlersAreTrue, ControllersAreTrue
<1>4. /\ handling' \in [Prompts -> HandlerSet]
      /\ \A q \in Prompts : handling'[q] = IF q = p THEN NoHandler ELSE handling[q]
      /\ NoHandler.session = "none" /\ NoHandler.aborted = FALSE
  BY <1>0, <1>1 DEF PromptTypes, HandlerSet, NoHandler
<1> HIDE DEF s, to
<1>5. /\ acpSessions' \in [SessionIds -> SessionStates]
      /\ \A t \in SessionIds : acpSessions'[t] = IF t = s THEN to ELSE acpSessions[t]
      /\ controllerOf' \in [SessionIds -> Prompts \union {NoPrompt}]
      /\ \A t \in SessionIds : controllerOf'[t] = IF t = s THEN NoPrompt ELSE controllerOf[t]
  <2>1. to \in SessionStates
    BY DEF to, SessionStates
  <2> QED BY <1>0, <1>1, <1>2, <2>1 DEF PromptTypes
<1>6. to = IF acpSessions[s] = "gone" THEN "gone" ELSE "idle"
  BY DEF to
<1>7. PromptTypes'
  BY <1>0, <1>4, <1>5 DEF PromptTypes
<1>8. ASSUME acpSessions[s] # "gone" PROVE s \notin wedged
  <2>1. controllerOf[s] = p /\ p # NoPrompt
    BY <1>3, <1>8, AcpAssumption DEF NoPrompt
  <2> QED BY <1>0, <1>1, <1>2, <2>1 DEF ControllersAreTrue
<1>9. ControllersAreTrue'
  <2>1. \A t \in SessionIds : t # s /\ controllerOf[t] # NoPrompt =>
          controllerOf[t] \in Prompts \ {p} \/ (t \in wedged /\ controllerOf[t] \in Prompts)
    BY <1>0 DEF PromptTypes, ControllersAreTrue, s
  <2>2. \A t \in SessionIds : t # s /\ controllerOf[t] # NoPrompt =>
          IF t \in wedged THEN handling'[controllerOf[t]] = NoHandler
          ELSE handling'[controllerOf[t]].session = t
    BY <1>0, <1>4, <2>1 DEF ControllersAreTrue
  <2> QED BY <1>0, <1>1, <1>2, <1>3, <1>5, <1>6, <1>8, <2>2 DEF ControllersAreTrue
<1>10. HandlersAreTrue'
  <2>1. \A q \in Prompts : q # p /\ handling[q].session = s => acpSessions[s] = "gone"
    BY <1>0, <1>2, <1>3 DEF HandlersAreTrue
  <2> SUFFICES ASSUME NEW q \in Prompts, NEW t \in SessionIds, handling'[q].session = t
               PROVE  /\ q \in prompted
                      /\ \/ acpSessions'[t] = "prompting" /\ controllerOf'[t] = q
                         \/ acpSessions'[t] = "gone"
    BY <1>1 DEF HandlersAreTrue
  <2>2. q # p /\ handling[q].session = t
    BY <1>4, AcpAssumption
  <2>3. q \in prompted /\ ((acpSessions[t] = "prompting" /\ controllerOf[t] = q) \/ acpSessions[t] = "gone")
    BY <1>0, <2>2 DEF HandlersAreTrue
  <2>4. CASE t = s
    BY <1>5, <1>6, <2>1, <2>2, <2>3, <2>4
  <2>5. CASE t # s
    BY <1>5, <2>3, <2>5
  <2> QED BY <2>4, <2>5
<1>11. SignalsAreTrue'
  <2>1. \A t \in SessionIds : acpSessions'[t] = "gone" => acpSessions[t] = "gone"
    BY <1>5, <1>6
  <2>2. \A q \in Prompts : handling'[q].aborted <=> q \in cancelled'
    BY <1>0, <1>1, <1>4 DEF SignalsAreTrue
  <2>3. ASSUME NEW q \in Prompts, NEW t \in SessionIds,
               handling'[q].session = t, acpSessions'[t] = "gone"
        PROVE  handling'[q].aborted
    <3>1. q # p /\ handling'[q] = handling[q]
      BY <1>4, <2>3, AcpAssumption
    <3> QED BY <1>0, <2>1, <2>3, <3>1 DEF SignalsAreTrue
  <2> QED BY <2>2, <2>3 DEF SignalsAreTrue
<1>12. OpenSessions' = OpenSessions
  BY <1>2, <1>3, <1>5, <1>6 DEF OpenSessions
<1> QED BY <1>0, <1>7, <1>9, <1>10, <1>11, <1>12, SameSessions DEF PromptInv

LEMMA AcpInvariant == AcpSpec => []AcpInv
<1>1. ASSUME AcpInv, [AcpNext]_acpVars PROVE AcpInv'
  <2>0. ConnectionInv /\ PromptInv
    BY <1>1 DEF AcpInv
  <2>1. ASSUME NEW c \in Connects, ConnectEditor(c) \/ Imported(c) PROVE AcpInv'
    <3>1. ConnectionInv'
      BY <2>0, <2>1, ConnectsKeep
    <3>2. UNCHANGED promptVars
      BY <2>1 DEF ConnectEditor, Imported
    <3>3. PromptInv'
      BY <2>0, <3>2 DEF promptVars, PromptInv, PromptTypes, ControllersAreTrue, HandlersAreTrue,
           SignalsAreTrue, SessionsAreFew, OpenSessions
    <3> QED BY <3>1, <3>3 DEF AcpInv
  <2>2. ASSUME UNCHANGED connectionVars, PromptInv' PROVE AcpInv'
    BY <2>0, <2>2, ConnectsKeep DEF AcpInv
  <2>3. ASSUME NEW s \in SessionIds, NewSession(s) PROVE AcpInv'
    BY <2>0, <2>2, <2>3, SessionOpens DEF NewSession
  <2>4. ASSUME NEW s \in SessionIds, Cancel(s) PROVE AcpInv'
    BY <2>0, <2>2, <2>4, SessionIsCancelled DEF Cancel
  <2>5. ASSUME NEW s \in SessionIds, NEW p \in Prompts, Prompt(p, s) PROVE AcpInv'
    BY <2>0, <2>2, <2>5, PromptStarts DEF Prompt
  <2>6. ASSUME NEW p \in Prompts, PromptEnds(p) PROVE AcpInv'
    BY <2>0, <2>2, <2>6, PromptIsOver DEF PromptEnds
  <2>7. CASE DisconnectEditor
    BY <2>0, <2>7, ConnectsKeep, EditorLeaves DEF AcpInv
  <2>8. CASE UNCHANGED acpVars
    <3>1. UNCHANGED connectionVars /\ UNCHANGED promptVars
      BY <2>8 DEF acpVars
    <3>2. PromptInv'
      BY <2>0, <3>1 DEF promptVars, PromptInv, PromptTypes, ControllersAreTrue, HandlersAreTrue,
           SignalsAreTrue, SessionsAreFew, OpenSessions
    <3> QED BY <2>2, <3>1, <3>2
  <2> QED BY <1>1, <2>1, <2>3, <2>4, <2>5, <2>6, <2>7, <2>8 DEF AcpNext
<1> QED BY <1>1, AcpStarts, PTL DEF AcpSpec

(* Sessions, handlers and streams are well-formed; the server has a         *)
(* connection exactly while it is connected, and then there is a stream.    *)
THEOREM AcpTypeCorrect == AcpSpec => []AcpTypeOK
<1>1. AcpInv => AcpTypeOK
  <2> SUFFICES ASSUME AcpInv PROVE AcpTypeOK
    OBVIOUS
  <2>1. /\ Cardinality(DoneConnects) <= Cardinality(Connects)
        /\ Cardinality(DoneConnects) \in Nat /\ Cardinality(Connects) \in Nat
    BY AcpAssumption, FS_Subset, FS_CardinalityType DEF DoneConnects
  <2>2. streams \in 0..Cardinality(Connects)
    BY <2>1 DEF AcpInv, ConnectionInv
  <2>3. PromptTypes
    BY DEF AcpInv, PromptInv
  <2> QED BY <2>2, <2>3 DEF AcpInv, ConnectionInv, PromptTypes, HandlerSet, SessionStates, AcpTypeOK
<1> QED BY <1>1, AcpInvariant, PTL

(* An open session is busy exactly while its one handler runs, or for ever  *)
(* if it was prompted without a connection; a handler knows when it was     *)
(* cancelled or its session is gone, and only then.                         *)
THEOREM PromptsStaySettled == AcpSpec => []PromptsAreSettled
<1>1. AcpInv => PromptsAreSettled
  <2> SUFFICES ASSUME AcpInv PROVE PromptsAreSettled
    OBVIOUS
  <2>0. PromptTypes /\ ControllersAreTrue /\ HandlersAreTrue /\ SignalsAreTrue /\ SessionsAreFew
    BY DEF AcpInv, PromptInv
  <2>1. ASSUME NEW s \in OpenSessions \ wedged
        PROVE  /\ Cardinality(HandlersOf(s)) <= 1
               /\ acpSessions[s] = "prompting" <=> HandlersOf(s) # {}
    <3>1. s \in SessionIds /\ acpSessions[s] # "gone"
      BY DEF OpenSessions
    <3>2. CASE acpSessions[s] = "prompting"
      <4>1. controllerOf[s] \in Prompts /\ handling[controllerOf[s]].session = s
        BY <2>0, <3>1, <3>2 DEF PromptTypes, ControllersAreTrue
      <4>2. HandlersOf(s) = {controllerOf[s]}
        BY <2>0, <3>1, <4>1 DEF HandlersOf, HandlersAreTrue
      <4>3. Cardinality(HandlersOf(s)) = 1 /\ HandlersOf(s) # {}
        BY <4>2, FS_Singleton
      <4> QED BY <3>2, <4>3
    <3>3. CASE acpSessions[s] # "prompting"
      <4>1. HandlersOf(s) = {}
        BY <2>0, <3>1, <3>3 DEF HandlersOf, HandlersAreTrue
      <4> QED BY <3>3, <4>1, FS_EmptySet
    <3> QED BY <3>2, <3>3
  <2>2. \A s \in SessionIds \ OpenSessions : \A p \in HandlersOf(s) : handling[p].aborted
    BY <2>0 DEF HandlersOf, OpenSessions, HandlersAreTrue, SignalsAreTrue
  <2> QED BY <2>0, <2>1, <2>2 DEF PromptsAreSettled, SignalsAreTrue, SessionsAreFew
<1> QED BY <1>1, AcpInvariant, PTL
-----------------------------------------------------------------------------
(* The handlers of an event.  They are listed by priority, then by          *)
(* registration.                                                            *)
HookEntries == [id : Nat, handler : Handlers, priority : Priorities, once : BOOLEAN]
EmitStates == [entries : Seq(HookEntries), at : Nat, fired : Seq(HookEntries)]
Ahead == {p \in HookEntries \X HookEntries :
            \/ p[1].priority < p[2].priority
            \/ p[1].priority = p[2].priority /\ p[1].id < p[2].id}

LEMMA AheadIsStrict == \A x : <<x, x>> \notin Ahead
<1> SUFFICES ASSUME NEW x, <<x, x>> \in Ahead PROVE FALSE
  OBVIOUS
<1>1. x \in HookEntries /\ (x.priority < x.priority \/ x.id < x.id)
  BY DEF Ahead
<1>2. x.priority \in Int /\ x.id \in Nat
  BY <1>1, HooksAssumption DEF HookEntries
<1> QED BY <1>1, <1>2

(* The ids of a list are those of its elements.                             *)
LEMMA IdsOf ==
  ASSUME NEW S, NEW s \in Seq(S)
  PROVE  Ids(s) = {x.id : x \in Range(s)}
  BY LenProperties DEF Ids, Range

(* In a list by priority and registration, an element is in one place.      *)
LEMMA OncePlaced ==
  ASSUME NEW S, NEW s \in Seq(S), InOrder(s, Ahead)
  PROVE  \A i, j \in 1..Len(s) : s[i] = s[j] => i = j
<1> SUFFICES ASSUME NEW i \in 1..Len(s), NEW j \in 1..Len(s), s[i] = s[j], i # j PROVE FALSE
  OBVIOUS
<1>1. Len(s) \in Nat
  BY LenProperties
<1>2. i < j \/ j < i
  BY <1>1
<1>3. <<s[i], s[j]>> \in Ahead \/ <<s[j], s[i]>> \in Ahead
  BY <1>2 DEF InOrder
<1> QED BY <1>3, AheadIsStrict

(* removeHandler takes one entry of the handler, and no other.              *)
LEMMA RemovedOf ==
  ASSUME NEW s \in Seq(HookEntries), InOrder(s, Ahead), NEW h
  PROVE  /\ Removed(s, h) \in Seq(HookEntries)
         /\ InOrder(Removed(s, h), Ahead)
         /\ Range(Removed(s, h)) \subseteq Range(s)
         /\ \A x \in Range(s) : x.handler # h => x \in Range(Removed(s, h))
         /\ \A x \in Range(Removed(s, h)) : x.handler = h =>
              \E z \in Range(s) : z.handler = h /\ z # x
<1> DEFINE its == {i \in DOMAIN s : s[i].handler = h}
           k == CHOOSE i \in its : \A j \in its : i <= j
<1>1. Len(s) \in Nat /\ DOMAIN s = 1..Len(s)
  BY LenProperties
<1>2. CASE its = {}
  <2>1. Removed(s, h) = s
    BY <1>2 DEF Removed
  <2>2. \A x \in Range(s) : x.handler # h
    BY <1>1, <1>2, RangeOf
  <2> QED BY <2>1, <2>2
<1>3. CASE its # {}
  <2>1. k \in its
    <3>1. its \subseteq Nat
      BY <1>1
    <3>2. \E i \in its : \A j \in its : i <= j
      <4> HIDE DEF its
      <4> QED BY <1>3, <3>1, LeastIn
    <3> HIDE DEF its
    <3> QED BY <3>2
  <2>2. k \in 1..Len(s) /\ s[k].handler = h
    BY <1>1, <2>1
  <2>3. Removed(s, h) = RemoveAt(s, k)
    BY <1>3 DEF Removed
  <2> HIDE DEF k
  <2> DEFINE t == RemoveAt(s, k)
  <2>4. /\ t \in Seq(HookEntries) /\ InOrder(t, Ahead)
        /\ Range(t) = {s[i] : i \in 1..Len(s) \ {k}}
    BY <2>2, RemoveAtAt
  <2> HIDE DEF t
  <2>5. Range(t) = Range(s) \ {s[k]}
    <3>1. Range(s) = {s[i] : i \in 1..Len(s)}
      BY <1>1 DEF Range
    <3>2. \A i \in 1..Len(s) : s[i] = s[k] <=> i = k
      BY <2>2, OncePlaced
    <3> QED BY <2>2, <2>4, <3>1, <3>2
  <2>6. s[k] \in Range(s)
    BY <2>2, RangeOf
  <2>7. Removed(s, h) = t
    BY <2>3 DEF t
  <2> QED BY <2>2, <2>4, <2>5, <2>6, <2>7
<1> QED BY <1>2, <1>3

(* cleanupOnceEntries, one after the other.                                 *)
LeftOf(s, f, left) == left = [n \in 0..Len(f) |->
  IF n = 0 THEN s ELSE Removed(left[n - 1], f[n].handler)]

LEMMA CleaningIsDefined ==
  ASSUME NEW S, NEW s, NEW f \in Seq(S)
  PROVE  \E left : LeftOf(s, f, left)
<1> DEFINE Follows(g, k) == g = [n \in 0..k |->
             IF n = 0 THEN s ELSE Removed(g[n - 1], f[n].handler)]
           Lengths == {k \in Nat : \E g : Follows(g, k)}
<1>1. 0 \in Lengths
  <2> DEFINE g == [i \in 0..0 |-> s]
  <2>1. Follows(g, 0)
    OBVIOUS
  <2> QED BY <2>1
<1>2. ASSUME NEW k \in Nat, k \in Lengths PROVE k + 1 \in Lengths
  <2>1. PICK g : Follows(g, k)
    BY <1>2
  <2> DEFINE last == Removed(g[k], f[k + 1].handler)
             m == [i \in 0..(k + 1) |-> IF i <= k THEN g[i] ELSE last]
  <2>2. ASSUME NEW i \in 0..(k + 1)
        PROVE  m[i] = IF i = 0 THEN s ELSE Removed(m[i - 1], f[i].handler)
    <3> HIDE DEF last
    <3>1. CASE i <= k
      <4>1. m[i] = g[i] /\ (i # 0 => m[i - 1] = g[i - 1])
        BY <3>1
      <4>2. g[i] = IF i = 0 THEN s ELSE Removed(g[i - 1], f[i].handler)
        <5>1. i \in 0..k
          BY <3>1
        <5>2. \A n \in 0..k : g[n] = IF n = 0 THEN s ELSE Removed(g[n - 1], f[n].handler)
          BY <2>1
        <5> QED BY <5>1, <5>2
      <4> HIDE DEF m
      <4> QED BY <3>1, <4>1, <4>2
    <3>2. CASE i = k + 1
      <4>1. m[i] = last /\ m[i - 1] = g[k] /\ i # 0
        BY <3>2
      <4> HIDE DEF m
      <4> QED BY <3>2, <4>1 DEF last
    <3> QED BY <3>1, <3>2
  <2>3. m = [i \in 0..(k + 1) |-> m[i]]
    OBVIOUS
  <2> HIDE DEF m
  <2>4. Follows(m, k + 1)
    BY <2>2, <2>3, Zenon
  <2> HIDE DEF Follows
  <2> QED BY <2>4
<1> HIDE DEF Follows
<1>3. Nat \subseteq Lengths
  <2> HIDE DEF Lengths
  <2> QED BY <1>1, <1>2, InductionInSet
<1>4. Len(f) \in Nat
  BY LenProperties
<1> QED BY <1>3, <1>4 DEF Follows, LeftOf

(* It leaves the entries of other handlers, and none that is the only one   *)
(* of its handler.                                                          *)
LEMMA CleanedOf ==
  ASSUME NEW s \in Seq(HookEntries), InOrder(s, Ahead), NEW f \in Seq(HookEntries)
  PROVE  /\ Cleaned(s, f) \in Seq(HookEntries)
         /\ InOrder(Cleaned(s, f), Ahead)
         /\ Range(Cleaned(s, f)) \subseteq Range(s)
         /\ \A x \in Range(s) : (\A y \in Range(f) : y.handler # x.handler) =>
              x \in Range(Cleaned(s, f))
         /\ \A x \in Range(Cleaned(s, f)) : \A y \in Range(f) : y.handler = x.handler =>
              \E z \in Range(s) : z.handler = x.handler /\ z # x
<1> DEFINE left == CHOOSE g : LeftOf(s, f, g)
           Right(n) ==
             /\ left[n] \in Seq(HookEntries) /\ InOrder(left[n], Ahead)
             /\ Range(left[n]) \subseteq Range(s)
             /\ \A x \in Range(s) : (\A i \in 1..n : f[i].handler # x.handler) =>
                  x \in Range(left[n])
             /\ \A x \in Range(left[n]) : \A i \in 1..n : f[i].handler = x.handler =>
                  \E z \in Range(s) : z.handler = x.handler /\ z # x
           Lengths == {n \in Nat : n <= Len(f) => Right(n)}
<1>1. LeftOf(s, f, left)
  BY CleaningIsDefined
<1>2. Cleaned(s, f) = left[Len(f)]
  BY DEF Cleaned, LeftOf
<1> HIDE DEF left
<1>3. \A n \in 0..Len(f) : left[n] = IF n = 0 THEN s ELSE Removed(left[n - 1], f[n].handler)
  BY <1>1 DEF LeftOf
<1>4. Len(f) \in Nat
  BY LenProperties
<1>5. 0 \in Lengths
  <2>1. left[0] = s
    BY <1>3, <1>4
  <2> QED BY <2>1
<1>6. ASSUME NEW n \in Nat, n \in Lengths PROVE n + 1 \in Lengths
  <2> SUFFICES ASSUME n + 1 <= Len(f) PROVE Right(n + 1)
    OBVIOUS
  <2> DEFINE a == left[n]
             b == left[n + 1]
             h == f[n + 1].handler
  <2>1. Right(n)
    BY <1>4, <1>6
  <2>2. b = Removed(a, h)
    <3>1. n + 1 \in 0..Len(f) /\ n + 1 # 0 /\ (n + 1) - 1 = n
      BY <1>4
    <3> QED BY <1>3, <3>1
  <2>3. 1..(n + 1) = 1..n \union {n + 1}
    OBVIOUS
  <2>4. /\ b \in Seq(HookEntries) /\ InOrder(b, Ahead)
        /\ Range(b) \subseteq Range(a)
        /\ \A x \in Range(a) : x.handler # h => x \in Range(b)
        /\ \A x \in Range(b) : x.handler = h => \E z \in Range(a) : z.handler = h /\ z # x
    <3> HIDE DEF h, b
    <3> QED BY <2>1, <2>2, RemovedOf
  <2>5. ASSUME NEW x \in Range(s), \A i \in 1..(n + 1) : f[i].handler # x.handler
        PROVE  x \in Range(b)
    <3>1. x.handler # h /\ \A i \in 1..n : f[i].handler # x.handler
      BY <2>3, <2>5
    <3>2. x \in Range(a)
      BY <2>1, <3>1
    <3> QED BY <2>4, <3>1, <3>2
  <2>6. ASSUME NEW x \in Range(b), NEW i \in 1..(n + 1), f[i].handler = x.handler
        PROVE  \E z \in Range(s) : z.handler = x.handler /\ z # x
    <3>1. CASE i \in 1..n
      BY <2>1, <2>4, <2>6, <3>1
    <3>2. CASE i = n + 1
      <4>1. x.handler = h
        BY <2>6, <3>2
      <4>2. PICK z \in Range(a) : z.handler = h /\ z # x
        BY <2>4, <4>1
      <4> QED BY <2>1, <4>1, <4>2
    <3> QED BY <2>3, <3>1, <3>2
  <2>7. Range(b) \subseteq Range(s)
    BY <2>1, <2>4
  <2> QED BY <2>4, <2>5, <2>6, <2>7
<1>7. Nat \subseteq Lengths
  <2> HIDE DEF Lengths
  <2> QED BY <1>5, <1>6, InductionInSet
<1>8. Right(Len(f))
  <2>1. Len(f) \in Lengths
    <3> HIDE DEF Lengths
    <3> QED BY <1>4, <1>7
  <2>2. Len(f) <= Len(f)
    BY <1>4
  <2> HIDE DEF Right
  <2> QED BY <2>1, <2>2
<1>9. /\ \A i \in 1..Len(f) : f[i] \in Range(f)
      /\ \A y \in Range(f) : \E i \in 1..Len(f) : y = f[i]
  BY RangeOf
<1>10. \A x \in Range(s) : (\A y \in Range(f) : y.handler # x.handler) =>
         x \in Range(left[Len(f)])
  BY <1>8, <1>9
<1>11. \A x \in Range(left[Len(f)]) : \A y \in Range(f) : y.handler = x.handler =>
         \E z \in Range(s) : z.handler = x.handler /\ z # x
  BY <1>8, <1>9
<1> QED BY <1>2, <1>8, <1>10, <1>11

(* findInsertIndex finds the place behind all that run before.              *)
LEMMA InsertIndexIs ==
  ASSUME handlers \in Seq(HookEntries), InOrder(handlers, Ahead), NEW priority \in Priorities
  PROVE  /\ InsertIndex(priority) \in 1..Len(handlers) + 1
         /\ \A j \in 1..InsertIndex(priority) - 1 : handlers[j].priority <= priority
         /\ \A j \in InsertIndex(priority)..Len(handlers) : handlers[j].priority > priority
<1> DEFINE later == {j \in 1..Len(handlers) : handlers[j].priority > priority}
           Right(i) == /\ \A j \in 1..i - 1 : handlers[j].priority <= priority
                       /\ \A j \in i..Len(handlers) : handlers[j].priority > priority
<1>1. Len(handlers) \in Nat
  BY LenProperties
<1>2. \A j \in 1..Len(handlers) : handlers[j].priority \in Int
  <2>1. \A j \in 1..Len(handlers) : handlers[j] \in HookEntries
    BY ElementOfSeq
  <2> QED BY <2>1, HooksAssumption DEF HookEntries
<1>3. priority \in Int
  BY HooksAssumption
<1>4. \E i \in 1..Len(handlers) + 1 : Right(i)
  <2>1. CASE later = {}
    <3>1. \A j \in 1..Len(handlers) : ~(handlers[j].priority > priority)
      BY <2>1
    <3>2. \A j \in 1..Len(handlers) : handlers[j].priority <= priority
      BY <1>2, <1>3, <3>1
    <3>3. (Len(handlers) + 1) - 1 = Len(handlers) /\ (Len(handlers) + 1)..Len(handlers) = {}
          /\ Len(handlers) + 1 \in 1..Len(handlers) + 1
      BY <1>1
    <3> QED BY <3>2, <3>3
  <2>2. CASE later # {}
    <3>1. PICK i \in later : \A j \in later : i <= j
      <4>1. later \subseteq Nat
        BY <1>1
      <4> HIDE DEF later
      <4> QED BY <2>2, <4>1, LeastIn
    <3>2. i \in 1..Len(handlers) /\ handlers[i].priority > priority
      BY <3>1
    <3>3. ASSUME NEW j \in 1..i - 1 PROVE handlers[j].priority <= priority
      <4>1. j \in 1..Len(handlers) /\ ~(i <= j)
        BY <1>1, <3>2
      <4>2. ~(handlers[j].priority > priority)
        BY <3>1, <4>1
      <4> QED BY <1>2, <1>3, <4>1, <4>2
    <3>4. ASSUME NEW j \in i..Len(handlers) PROVE handlers[j].priority > priority
      <4>1. j \in 1..Len(handlers) /\ (i < j \/ j = i)
        BY <1>1, <3>2
      <4>2. CASE j = i
        BY <3>2, <4>2
      <4>3. CASE i < j
        <5>1. <<handlers[i], handlers[j]>> \in Ahead
          BY <3>2, <4>1, <4>3 DEF InOrder
        <5>2. handlers[i].priority < handlers[j].priority
              \/ handlers[i].priority = handlers[j].priority
          BY <5>1 DEF Ahead
        <5> QED BY <1>2, <1>3, <3>2, <4>1, <5>2
      <4> QED BY <4>1, <4>2, <4>3
    <3>5. i \in 1..Len(handlers) + 1
      BY <1>1, <3>2
    <3> QED BY <3>3, <3>4, <3>5
  <2> QED BY <2>1, <2>2
<1>5. InsertIndex(priority) = CHOOSE i \in 1..Len(handlers) + 1 : Right(i)
  BY DEF InsertIndex
<1>6. InsertIndex(priority) \in 1..Len(handlers) + 1 /\ Right(InsertIndex(priority))
  <2> HIDE DEF Right
  <2> QED BY <1>4, <1>5
<1> QED BY <1>6
(* An id is of one entry, of one handler.  An emit has run the entry it is  *)
(* at and, of those before, the one-shot ones it remembers.                 *)
HookTypes ==
  /\ registrations \in Nat /\ handlers \in Seq(HookEntries)
  /\ emits \in [Emits -> EmitStates]
  /\ runs \in Seq(Nat) /\ Len(runs) = registrations
  /\ handlerOf \in Seq(Handlers) /\ Len(handlerOf) = registrations
  /\ released \subseteq 1..registrations /\ unsettled \subseteq 1..registrations
  /\ disposed \subseteq 1..registrations
KnownHooks == Range(handlers) \union UNION {Range(emits[e].entries) : e \in Emits}
HooksAreKnown ==
  /\ \A x \in KnownHooks : x.id \in 1..registrations /\ handlerOf[x.id] = x.handler
  /\ \A x, y \in KnownHooks : x.id = y.id => x = y
EmitIsTrue(m) ==
  m # NoEmit => /\ m.at \in 1..Len(m.entries) /\ InOrder(m.entries, Ahead)
                /\ \A x \in Range(m.fired) : \E i \in 1..m.at - 1 : x = m.entries[i]
EmitsAreTrue ==
  /\ \A e \in Emits : EmitIsTrue(emits[e])
  /\ \A e, f \in Emits : e # f =>
       Ids(emits[e].entries) \intersect Ids(emits[f].entries) \subseteq unsettled
AloneStay ==
  \A id \in 1..registrations : Alone(id) => (id \in Ids(handlers) <=> id \notin released)
HasRun(m, x) == m # NoEmit /\ (x = m.entries[m.at] \/ x \in Range(m.fired))
RunsAreTrue ==
  \A x \in Range(handlers) : x.once /\ Alone(x.id) /\ x.id \notin unsettled =>
    runs[x.id] = 0 \/ (runs[x.id] = 1 /\ \E e \in Emits : HasRun(emits[e], x))
HooksInv == /\ HookTypes /\ InOrder(handlers, Ahead) /\ HooksAreKnown
            /\ EmitsAreTrue /\ AloneStay /\ RunsAreTrue

LEMMA HooksStart == HooksInit => HooksInv
<1> SUFFICES ASSUME HooksInit PROVE HooksInv
  OBVIOUS
<1>1. /\ handlers = <<>> /\ runs = <<>> /\ handlerOf = <<>> /\ registrations = 0
      /\ disposed = {} /\ released = {} /\ unsettled = {} /\ emits = [e \in Emits |-> NoEmit]
  BY DEF HooksInit
<1>2. NoEmit \in EmitStates /\ NoEmit.entries = <<>>
  BY DEF NoEmit, EmitStates
<1>3. HookTypes
  BY <1>1, <1>2 DEF HookTypes
<1>4. InOrder(handlers, Ahead)
  BY <1>1 DEF InOrder
<1>5. Range(handlers) = {} /\ \A e \in Emits : emits[e] = NoEmit /\ emits[e].entries = <<>>
  BY <1>1, <1>2, RangeEmpty
<1>6. KnownHooks = {}
  BY <1>5, RangeEmpty DEF KnownHooks
<1>7. HooksAreKnown /\ RunsAreTrue
  BY <1>5, <1>6 DEF HooksAreKnown, RunsAreTrue
<1>8. EmitsAreTrue
  <2>1. Ids(<<>>) = {}
    BY DEF Ids
  <2> QED BY <1>5, <2>1 DEF EmitsAreTrue, EmitIsTrue
<1>9. AloneStay
  BY <1>1 DEF AloneStay
<1> QED BY <1>3, <1>4, <1>7, <1>8, <1>9 DEF HooksInv

(* The entry of a handler that was registered once is the only known one.   *)
LEMMA AloneIsOne ==
  ASSUME HooksInv, NEW x \in KnownHooks, Alone(x.id), NEW y \in KnownHooks, y.handler = x.handler
  PROVE  y = x
<1>1. /\ x.id \in 1..registrations /\ handlerOf[x.id] = x.handler
      /\ y.id \in 1..registrations /\ handlerOf[y.id] = y.handler
      /\ x.id = y.id => x = y
  BY DEF HooksInv, HooksAreKnown
<1> QED BY <1>1 DEF Alone

(* What a removal takes is what was asked for: of the handlers registered   *)
(* once exactly those whose ids are named.                                  *)
LEMMA RemovalKeepsAlone ==
  ASSUME HooksInv, handlers' \in Seq(HookEntries), Range(handlers') \subseteq Range(handlers),
         UNCHANGED <<registrations, handlerOf>>,
         NEW gone, released' = released \union gone,
         \A x \in Range(handlers) : Alone(x.id) => (x \in Range(handlers') <=> x.id \notin gone)
  PROVE  AloneStay'
<1>1. HookTypes /\ AloneStay
  BY DEF HooksInv
<1>2. Ids(handlers) = {x.id : x \in Range(handlers)} /\ Ids(handlers') = {x.id : x \in Range(handlers')}
  BY <1>1, IdsOf DEF HookTypes
<1> SUFFICES ASSUME NEW id \in 1..registrations, Alone(id)
             PROVE  id \in Ids(handlers') <=> id \notin released'
  BY DEF AloneStay, Alone
<1>3. id \in Ids(handlers) <=> id \notin released
  BY <1>1 DEF AloneStay
<1>4. ASSUME id \in Ids(handlers') PROVE id \notin released'
  <2>1. PICK x \in Range(handlers') : x.id = id
    BY <1>2, <1>4
  <2>2. x \in Range(handlers) /\ id \in Ids(handlers)
    BY <1>2, <2>1
  <2>3. x.id \notin gone
    BY <2>1, <2>2
  <2> QED BY <1>3, <2>1, <2>2, <2>3
<1>5. ASSUME id \notin released' PROVE id \in Ids(handlers')
  <2>1. PICK x \in Range(handlers) : x.id = id
    BY <1>2, <1>3, <1>5
  <2>2. x \in Range(handlers')
    BY <1>5, <2>1
  <2> QED BY <1>2, <2>1, <2>2
<1> QED BY <1>4, <1>5

(* A removal outside an emit: what is left was there, and what ran, ran.    *)
LEMMA RemovalStep ==
  ASSUME HooksInv, handlers' \in Seq(HookEntries), InOrder(handlers', Ahead),
         Range(handlers') \subseteq Range(handlers),
         UNCHANGED <<emits, registrations, runs, handlerOf, unsettled>>,
         disposed' \subseteq 1..registrations,
         NEW gone \in SUBSET (1..registrations), released' = released \union gone,
         \A x \in Range(handlers) : Alone(x.id) => (x \in Range(handlers') <=> x.id \notin gone)
  PROVE  HooksInv'
<1>0. HookTypes /\ HooksAreKnown /\ EmitsAreTrue /\ RunsAreTrue
  BY DEF HooksInv
<1>1. HookTypes'
  BY <1>0 DEF HookTypes
<1>2. HooksAreKnown'
  <2>1. KnownHooks' \subseteq KnownHooks
    BY DEF KnownHooks
  <2> QED BY <1>0, <2>1 DEF HooksAreKnown
<1>3. EmitsAreTrue'
  BY <1>0 DEF EmitsAreTrue, EmitIsTrue
<1>4. AloneStay'
  BY RemovalKeepsAlone
<1>5. RunsAreTrue'
  BY <1>0 DEF RunsAreTrue, Alone, HasRun
<1>6. InOrder(handlers, Ahead)'
  BY DEF Ahead, HookEntries, InOrder
<1> QED BY <1>1, <1>2, <1>3, <1>4, <1>5, <1>6 DEF HooksInv

LEMMA HandlerIsDisposed ==
  ASSUME HooksInv, NEW id \in 1..registrations, Dispose(id)
  PROVE  HooksInv'
<1>0. HookTypes /\ InOrder(handlers, Ahead) /\ HooksAreKnown
  BY DEF HooksInv
<1> DEFINE h == handlerOf[id]
<1>1. /\ handlers' = Removed(handlers, h) /\ released' = released \union {id}
      /\ UNCHANGED <<emits, registrations, runs, handlerOf, unsettled>>
      /\ disposed' \subseteq 1..registrations
  BY <1>0 DEF Dispose, HookTypes
<1>2. /\ handlers' \in Seq(HookEntries) /\ InOrder(handlers', Ahead)
      /\ Range(handlers') \subseteq Range(handlers)
      /\ \A x \in Range(handlers) : x.handler # h => x \in Range(handlers')
      /\ \A x \in Range(handlers') : x.handler = h => \E z \in Range(handlers) : z.handler = h /\ z # x
  <2> HIDE DEF h
  <2> QED BY <1>0, <1>1, RemovedOf DEF HookTypes
<1>3. ASSUME NEW x \in Range(handlers), Alone(x.id)
      PROVE  x \in Range(handlers') <=> x.id \notin {id}
  <2>1. x \in KnownHooks /\ handlerOf[x.id] = x.handler /\ x.id \in 1..registrations
    BY <1>0 DEF KnownHooks, HooksAreKnown
  <2>2. CASE x.id = id
    <3>1. ASSUME x \in Range(handlers') PROVE FALSE
      <4>1. PICK z \in Range(handlers) : z.handler = h /\ z # x
        BY <1>2, <2>1, <2>2, <3>1
      <4> QED BY <1>3, <2>1, <2>2, <4>1, AloneIsOne DEF KnownHooks
    <3> QED BY <2>2, <3>1
  <2>3. CASE x.id # id
    <3>1. handlerOf[id] # handlerOf[x.id]
      BY <1>3, <2>3 DEF Alone
    <3> QED BY <1>2, <2>1, <2>3, <3>1
  <2> QED BY <2>2, <2>3
<1>4. {id} \in SUBSET (1..registrations)
  OBVIOUS
<1> HIDE DEF h
<1> QED BY <1>1, <1>2, <1>3, <1>4, RemovalStep

LEMMA HandlerIsOff ==
  ASSUME HooksInv, NEW h \in Handlers, Off(h)
  PROVE  HooksInv'
<1>0. HookTypes /\ InOrder(handlers, Ahead) /\ HooksAreKnown
  BY DEF HooksInv
<1> DEFINE gone == {id \in 1..registrations : handlerOf[id] = h}
<1>1. /\ handlers' = Removed(handlers, h) /\ released' = released \union gone
      /\ UNCHANGED <<emits, registrations, runs, handlerOf, unsettled>>
      /\ disposed' \subseteq 1..registrations
  BY <1>0 DEF Off, HookTypes
<1>2. /\ handlers' \in Seq(HookEntries) /\ InOrder(handlers', Ahead)
      /\ Range(handlers') \subseteq Range(handlers)
      /\ \A x \in Range(handlers) : x.handler # h => x \in Range(handlers')
      /\ \A x \in Range(handlers') : x.handler = h => \E z \in Range(handlers) : z.handler = h /\ z # x
  BY <1>0, <1>1, RemovedOf DEF HookTypes
<1>3. ASSUME NEW x \in Range(handlers), Alone(x.id)
      PROVE  x \in Range(handlers') <=> x.id \notin gone
  <2>1. x \in KnownHooks /\ handlerOf[x.id] = x.handler /\ x.id \in 1..registrations
    BY <1>0 DEF KnownHooks, HooksAreKnown
  <2>2. CASE x.handler = h
    <3>1. ASSUME x \in Range(handlers') PROVE FALSE
      <4>1. PICK z \in Range(handlers) : z.handler = h /\ z # x
        BY <1>2, <2>2, <3>1
      <4> QED BY <1>3, <2>1, <2>2, <4>1, AloneIsOne DEF KnownHooks
    <3> QED BY <2>1, <2>2, <3>1
  <2>3. CASE x.handler # h
    BY <1>2, <2>1, <2>3
  <2> QED BY <2>2, <2>3
<1>4. gone \in SUBSET (1..registrations)
  OBVIOUS
<1> HIDE DEF gone
<1> QED BY <1>1, <1>2, <1>3, <1>4, RemovalStep

LEMMA HandlersAreCleared ==
  ASSUME HooksInv, Clear
  PROVE  HooksInv'
<1>0. HookTypes /\ HooksAreKnown
  BY DEF HooksInv
<1>1. /\ handlers' = <<>> /\ released' = released \union Ids(handlers)
      /\ UNCHANGED <<emits, registrations, runs, handlerOf, unsettled>>
      /\ disposed' \subseteq 1..registrations
  BY <1>0 DEF Clear, HookTypes
<1>2. /\ handlers' \in Seq(HookEntries) /\ InOrder(handlers', Ahead)
      /\ Range(handlers') \subseteq Range(handlers)
  BY <1>1, RangeEmpty DEF InOrder
<1>3. Ids(handlers) = {x.id : x \in Range(handlers)}
  BY <1>0, IdsOf DEF HookTypes
<1>4. Ids(handlers) \in SUBSET (1..registrations)
  BY <1>0, <1>3 DEF HooksAreKnown, KnownHooks
<1>5. \A x \in Range(handlers) : Alone(x.id) => (x \in Range(handlers') <=> x.id \notin Ids(handlers))
  BY <1>1, <1>3, RangeEmpty
<1> QED BY <1>1, <1>2, <1>4, <1>5, RemovalStep

LEMMA HandlerIsRegistered ==
  ASSUME HooksInv, NEW h \in Handlers, NEW priority \in Priorities, NEW once \in BOOLEAN,
         RegisterHandler(h, priority, once)
  PROVE  HooksInv'
<1>0. /\ HookTypes /\ InOrder(handlers, Ahead) /\ HooksAreKnown
      /\ EmitsAreTrue /\ AloneStay /\ RunsAreTrue
  BY DEF HooksInv
<1> DEFINE n == registrations + 1
           x == [id |-> n, handler |-> h, priority |-> priority, once |-> once]
           k == InsertIndex(priority)
<1>1. /\ registrations' = n /\ handlers' = InsertAt(handlers, k, x)
      /\ runs' = Append(runs, 0) /\ handlerOf' = Append(handlerOf, h)
      /\ UNCHANGED <<emits, disposed, released, unsettled>>
  BY DEF RegisterHandler
<1>2. /\ x \in HookEntries /\ x.id = n /\ x.handler = h /\ x.priority = priority
      /\ registrations \in Nat /\ n \in Nat
  BY <1>0 DEF HookEntries, HookTypes
<1>3. /\ k \in 1..Len(handlers) + 1
      /\ \A j \in 1..k - 1 : handlers[j].priority <= priority
      /\ \A j \in k..Len(handlers) : handlers[j].priority > priority
  BY <1>0, InsertIndexIs DEF HookTypes
<1> HIDE DEF x, k
<1>4. handlers \in Seq(HookEntries) /\ Len(handlers) \in Nat
      /\ \A j \in 1..Len(handlers) : handlers[j] \in HookEntries /\ handlers[j] \in Range(handlers)
  BY <1>0, LenProperties, ElementOfSeq, RangeOf DEF HookTypes
<1>5. \A y \in Range(handlers) : y.id \in 1..registrations
  BY <1>0 DEF HooksAreKnown, KnownHooks
<1>6. /\ handlers' \in Seq(HookEntries)
      /\ Range(handlers') = Range(handlers) \union {x}
  BY <1>1, <1>2, <1>3, <1>4, InsertAtAt, InsertAtElements
<1>7. InOrder(handlers', Ahead)
  <2>0. priority \in Int /\ \A y \in HookEntries : y.priority \in Int
    BY HooksAssumption DEF HookEntries
  <2>1. ASSUME NEW i \in 1..k - 1 PROVE <<handlers[i], x>> \in Ahead
    <3>1. i \in 1..Len(handlers)
      BY <1>3, <1>4
    <3>2. handlers[i].priority < priority \/ handlers[i].priority = priority
      BY <1>3, <1>4, <2>0, <3>1
    <3>3. handlers[i].id < n
      BY <1>2, <1>4, <1>5, <3>1
    <3> QED BY <1>2, <1>4, <3>1, <3>2, <3>3 DEF Ahead
  <2>2. ASSUME NEW i \in k..Len(handlers) PROVE <<x, handlers[i]>> \in Ahead
    <3>1. i \in 1..Len(handlers)
      BY <1>3, <1>4
    <3>2. priority < handlers[i].priority
      BY <1>3, <1>4, <2>0, <3>1
    <3> QED BY <1>2, <1>4, <3>1, <3>2 DEF Ahead
  <2> QED BY <1>0, <1>1, <1>2, <1>3, <1>4, <2>1, <2>2, InsertInOrder
<1>8. /\ runs' \in Seq(Nat) /\ Len(runs') = n /\ runs'[n] = 0
      /\ \A i \in 1..registrations : runs'[i] = runs[i]
      /\ handlerOf' \in Seq(Handlers) /\ Len(handlerOf') = n /\ handlerOf'[n] = h
      /\ \A i \in 1..registrations : handlerOf'[i] = handlerOf[i]
  <2>1. /\ runs \in Seq(Nat) /\ Len(runs) = registrations /\ registrations \in Nat
        /\ handlerOf \in Seq(Handlers) /\ Len(handlerOf) = registrations
    BY <1>0 DEF HookTypes
  <2> QED BY <1>1, <2>1, AppendProperties
<1>9. 1..n = 1..registrations \union {n} /\ n \notin 1..registrations
  BY <1>2
<1> HIDE DEF n
<1>10. HookTypes'
  BY <1>0, <1>1, <1>2, <1>6, <1>8, <1>9 DEF HookTypes
<1>11. HooksAreKnown'
  <2>1. KnownHooks' = KnownHooks \union {x}
    BY <1>1, <1>6 DEF KnownHooks
  <2>2. \A y \in KnownHooks : y.id \in 1..registrations /\ handlerOf'[y.id] = y.handler
    BY <1>0, <1>8 DEF HooksAreKnown
  <2>3. \A y \in KnownHooks : y.id # x.id
    BY <1>2, <1>9, <2>2
  <2> QED BY <1>0, <1>1, <1>2, <1>8, <1>9, <2>1, <2>2, <2>3 DEF HooksAreKnown
<1>12. EmitsAreTrue'
  BY <1>0, <1>1 DEF EmitsAreTrue, EmitIsTrue
<1>13. \A id \in 1..registrations : Alone(id)' => Alone(id)
  BY <1>1, <1>8, <1>9 DEF Alone
<1>14. AloneStay'
  <2>1. Ids(handlers') = Ids(handlers) \union {n}
    <3>1. Ids(handlers') = {y.id : y \in Range(handlers')} /\ Ids(handlers) = {y.id : y \in Range(handlers)}
      BY <1>4, <1>6, IdsOf
    <3> QED BY <1>2, <1>6, <3>1
  <2>2. n \notin released
    BY <1>0, <1>9 DEF HookTypes
  <2> QED BY <1>0, <1>1, <1>9, <1>13, <2>1, <2>2 DEF AloneStay
<1>15. RunsAreTrue'
  <2> SUFFICES ASSUME NEW y \in Range(handlers'), y.once, Alone(y.id)', y.id \notin unsettled'
               PROVE  \/ runs'[y.id] = 0
                      \/ runs'[y.id] = 1 /\ \E e \in Emits : HasRun(emits'[e], y)
    BY DEF RunsAreTrue, HasRun
  <2>1. CASE y = x
    BY <1>2, <1>8, <2>1
  <2>2. CASE y \in Range(handlers)
    <3>1. y.id \in 1..registrations
      BY <1>5, <2>2
    <3>2. runs[y.id] = 0 \/ (runs[y.id] = 1 /\ \E e \in Emits : HasRun(emits[e], y))
      BY <1>0, <1>1, <1>13, <2>2, <3>1 DEF RunsAreTrue
    <3> QED BY <1>1, <1>8, <3>1, <3>2
  <2> QED BY <1>6, <2>1, <2>2
<1>16. InOrder(handlers, Ahead)'
  BY <1>7 DEF Ahead, HookEntries, InOrder
<1> QED BY <1>10, <1>11, <1>12, <1>14, <1>15, <1>16 DEF HooksInv
(* An emit under way, and what it has run once the entry it is at is done.  *)
LEMMA EmitStands ==
  ASSUME HooksInv, NEW e \in Emits, emits[e] # NoEmit
  PROVE  /\ emits[e].entries \in Seq(HookEntries) /\ emits[e].fired \in Seq(HookEntries)
         /\ Len(emits[e].entries) \in Nat /\ emits[e].at \in 1..Len(emits[e].entries)
         /\ InOrder(emits[e].entries, Ahead)
         /\ \A i \in 1..Len(emits[e].entries) :
              /\ emits[e].entries[i] \in HookEntries
              /\ emits[e].entries[i] \in Range(emits[e].entries)
              /\ emits[e].entries[i] \in KnownHooks
         /\ \A x \in Range(emits[e].fired) : \E i \in 1..emits[e].at - 1 : x = emits[e].entries[i]
<1>1. emits[e] \in EmitStates /\ EmitIsTrue(emits[e])
  BY DEF HooksInv, HookTypes, EmitsAreTrue
<1>2. emits[e].entries \in Seq(HookEntries) /\ emits[e].fired \in Seq(HookEntries)
  BY <1>1 DEF EmitStates
<1>3. \A i \in 1..Len(emits[e].entries) :
        emits[e].entries[i] \in HookEntries /\ emits[e].entries[i] \in Range(emits[e].entries)
  BY <1>2, ElementOfSeq, RangeOf
<1>4. Range(emits[e].entries) \subseteq KnownHooks
  BY DEF KnownHooks
<1> QED BY <1>1, <1>2, <1>3, <1>4, LenProperties DEF EmitIsTrue

LEMMA FiredOf ==
  ASSUME HooksInv, NEW e \in Emits, emits[e] # NoEmit
  PROVE  /\ Fired(e) \in Seq(HookEntries)
         /\ Range(emits[e].fired) \subseteq Range(Fired(e))
         /\ Range(Fired(e)) \subseteq Range(emits[e].fired) \union {emits[e].entries[emits[e].at]}
         /\ emits[e].entries[emits[e].at].once => emits[e].entries[emits[e].at] \in Range(Fired(e))
<1> DEFINE x == emits[e].entries[emits[e].at]
<1>1. x \in HookEntries /\ emits[e].fired \in Seq(HookEntries)
  BY EmitStands
<1>2. Fired(e) = IF x.once THEN Append(emits[e].fired, x) ELSE emits[e].fired
  BY DEF Fired
<1> HIDE DEF x
<1>3. /\ Append(emits[e].fired, x) \in Seq(HookEntries)
      /\ Range(Append(emits[e].fired, x)) = Range(emits[e].fired) \union {x}
  BY <1>1, RangeAppend
<1>4. /\ Fired(e) \in Seq(HookEntries)
      /\ Range(emits[e].fired) \subseteq Range(Fired(e))
      /\ Range(Fired(e)) \subseteq Range(emits[e].fired) \union {x}
      /\ x.once => x \in Range(Fired(e))
  <2>1. CASE x.once
    BY <1>1, <1>2, <1>3, <2>1
  <2>2. CASE ~x.once
    BY <1>1, <1>2, <2>2
  <2> QED BY <2>1, <2>2
<1> QED BY <1>4 DEF x

(* One more run of an entry.                                                *)
LEMMA RunOf ==
  ASSUME HooksInv, NEW x, x.id \in 1..registrations, Runs(x)
  PROVE  /\ runs' \in Seq(Nat) /\ Len(runs') = registrations
         /\ runs'[x.id] = runs[x.id] + 1
         /\ \A i \in 1..registrations : i # x.id => runs'[i] = runs[i]
<1>1. runs \in Seq(Nat) /\ Len(runs) = registrations
  BY DEF HooksInv, HookTypes
<1>2. runs[x.id] \in Nat /\ runs[x.id] + 1 \in Nat
  BY <1>1, ElementOfSeq
<1>3. runs' = [runs EXCEPT ![x.id] = runs[x.id] + 1]
  BY DEF Runs
<1> QED BY <1>1, <1>2, <1>3, ExceptSeq

LEMMA EmitStarts ==
  ASSUME HooksInv, NEW e \in Emits, Emit(e)
  PROVE  HooksInv'
<1>0. /\ HookTypes /\ InOrder(handlers, Ahead) /\ HooksAreKnown
      /\ EmitsAreTrue /\ AloneStay /\ RunsAreTrue
  BY DEF HooksInv
<1>1. handlers \in Seq(HookEntries) /\ Len(handlers) \in Nat /\ DOMAIN handlers = 1..Len(handlers)
  BY <1>0, LenProperties DEF HookTypes
<1> DEFINE shared == Ids(handlers) \intersect UNION {Ids(emits[f].entries) : f \in Emits}
           new(i) == [entries |-> handlers, at |-> i, fired |-> <<>>]
<1>2. PICK i \in 1..Len(handlers) :
        /\ emits' = [emits EXCEPT ![e] = new(i)] /\ Runs(handlers[i])
  BY <1>1 DEF Emit
<1>3. /\ emits[e] = NoEmit /\ unsettled' = unsettled \union shared
      /\ UNCHANGED <<handlers, registrations, disposed, released, handlerOf>>
  BY DEF Emit
<1> DEFINE m == new(i)
<1>4. /\ m.entries = handlers /\ m.at = i /\ m.fired = <<>> /\ m \in EmitStates
      /\ m # NoEmit /\ NoEmit.entries = <<>>
  <2>1. m.entries = handlers /\ m.at = i /\ m.fired = <<>> /\ m \in EmitStates
    BY <1>1 DEF EmitStates
  <2>2. NoEmit.at = 0 /\ NoEmit.entries = <<>>
    BY DEF NoEmit
  <2>3. i # 0
    OBVIOUS
  <2> HIDE DEF m
  <2> QED BY <2>1, <2>2, <2>3
<1>5. emits' = [emits EXCEPT ![e] = m]
  BY <1>2
<1> HIDE DEF m, new
<1>6. emits' \in [Emits -> EmitStates]
      /\ \A f \in Emits : emits'[f] = IF f = e THEN m ELSE emits[f]
  BY <1>0, <1>4, <1>5 DEF HookTypes
<1> DEFINE x == handlers[i]
<1>7. x \in Range(handlers) /\ x.id \in 1..registrations
  <2>1. x \in Range(handlers)
    BY <1>1, RangeOf
  <2> QED BY <1>0, <2>1 DEF HooksAreKnown, KnownHooks
<1>8. /\ runs' \in Seq(Nat) /\ Len(runs') = registrations
      /\ runs'[x.id] = runs[x.id] + 1
      /\ \A j \in 1..registrations : j # x.id => runs'[j] = runs[j]
  <2>1. Runs(x)
    BY <1>2
  <2> HIDE DEF x
  <2> QED BY <1>7, <2>1, RunOf
<1> HIDE DEF x
<1>9. Ids(handlers) = {y.id : y \in Range(handlers)}
  BY <1>1, IdsOf
<1>10. shared \subseteq 1..registrations
  BY <1>0, <1>9 DEF HooksAreKnown, KnownHooks
<1>11. HookTypes'
  BY <1>0, <1>3, <1>6, <1>8, <1>10 DEF HookTypes
<1>12. HooksAreKnown'
  <2>1. KnownHooks' \subseteq KnownHooks
    BY <1>3, <1>4, <1>6 DEF KnownHooks
  <2> QED BY <1>0, <1>3, <2>1 DEF HooksAreKnown
<1>13. EmitsAreTrue'
  <2>1. EmitIsTrue(m)
    BY <1>0, <1>4, RangeEmpty DEF EmitIsTrue
  <2>2. \A f \in Emits : EmitIsTrue(emits'[f])
    BY <1>0, <1>6, <2>1 DEF EmitsAreTrue
  <2>3. \A f, g \in Emits : f # g => Ids(emits'[f].entries) \intersect Ids(emits'[g].entries) \subseteq unsettled'
    BY <1>0, <1>3, <1>4, <1>6 DEF EmitsAreTrue
  <2>4. \A f \in Emits : EmitIsTrue(emits[f])'
    BY <2>2 DEF EmitIsTrue, Ahead, HookEntries, InOrder
  <2> QED BY <2>3, <2>4 DEF EmitsAreTrue
<1>14. AloneStay'
  BY <1>0, <1>3 DEF AloneStay, Alone
<1>15. RunsAreTrue'
  <2> SUFFICES ASSUME NEW y \in Range(handlers), y.once, Alone(y.id), y.id \notin unsettled'
               PROVE  \/ runs'[y.id] = 0
                      \/ runs'[y.id] = 1 /\ \E f \in Emits : HasRun(emits'[f], y)
    BY <1>3 DEF RunsAreTrue, HasRun, Alone
  <2>1. y.id \in 1..registrations /\ y \in KnownHooks /\ x \in KnownHooks
    BY <1>0, <1>7 DEF HooksAreKnown, KnownHooks
  <2>2. runs[y.id] = 0 \/ (runs[y.id] = 1 /\ \E f \in Emits : HasRun(emits[f], y))
    BY <1>0, <1>3 DEF RunsAreTrue
  <2>3. CASE y.id # x.id
    <3>1. runs'[y.id] = runs[y.id]
      BY <1>8, <2>1, <2>3
    <3>2. \A f \in Emits : HasRun(emits[f], y) => HasRun(emits'[f], y)
      BY <1>3, <1>6 DEF HasRun
    <3> QED BY <2>2, <3>1, <3>2
  <2>4. CASE y.id = x.id
    <3>1. y = x
      BY <1>0, <2>1, <2>4 DEF HooksAreKnown
    <3>2. runs[y.id] = 0
      <4>1. ASSUME NEW f \in Emits, HasRun(emits[f], y) PROVE FALSE
        <5>1. y \in Range(emits[f].entries) /\ emits[f].entries \in Seq(HookEntries)
          <6>1. emits[f] # NoEmit /\ (y = emits[f].entries[emits[f].at] \/ y \in Range(emits[f].fired))
            BY <4>1 DEF HasRun
          <6>2. /\ emits[f].entries \in Seq(HookEntries)
                /\ Len(emits[f].entries) \in Nat /\ emits[f].at \in 1..Len(emits[f].entries)
                /\ \A j \in 1..Len(emits[f].entries) : emits[f].entries[j] \in Range(emits[f].entries)
                /\ \A z \in Range(emits[f].fired) : \E j \in 1..emits[f].at - 1 : z = emits[f].entries[j]
            BY <6>1, EmitStands
          <6>3. \A j \in 1..emits[f].at - 1 : j \in 1..Len(emits[f].entries)
            BY <6>2
          <6> QED BY <6>1, <6>2, <6>3
        <5>2. y.id \in Ids(emits[f].entries)
          BY <5>1, IdsOf
        <5>3. y.id \in Ids(handlers)
          BY <1>9
        <5>4. y.id \in shared
          BY <5>2, <5>3
        <5> QED BY <1>3, <5>4
      <4> QED BY <2>2, <4>1
    <3>3. runs'[y.id] = 1
      <4>1. runs'[y.id] = runs[y.id] + 1
        BY <1>8, <2>4
      <4> QED BY <3>2, <4>1
    <3>4. HasRun(emits'[e], y)
      <4>1. emits'[e] = m
        BY <1>6
      <4> QED BY <1>4, <3>1, <4>1 DEF HasRun, x
    <3> QED BY <3>3, <3>4
  <2> QED BY <2>3, <2>4
<1>16. InOrder(handlers, Ahead)'
  BY <1>0, <1>3 DEF Ahead, HookEntries, InOrder
<1> QED BY <1>11, <1>12, <1>13, <1>14, <1>15, <1>16 DEF HooksInv

LEMMA EmitGoesOn ==
  ASSUME HooksInv, NEW e \in Emits, NextRuns(e)
  PROVE  HooksInv'
<1>0. /\ HookTypes /\ InOrder(handlers, Ahead) /\ HooksAreKnown
      /\ EmitsAreTrue /\ AloneStay /\ RunsAreTrue
  BY DEF HooksInv
<1>1. /\ emits[e] # NoEmit
      /\ UNCHANGED <<handlers, registrations, emitStarts, disposed, released, handlerOf,
                     unsettled>>
  BY DEF NextRuns
<1> DEFINE old == emits[e]
           last == old.entries[old.at]
<1>2. PICK i \in old.at + 1..Len(old.entries) :
        /\ emits' = [emits EXCEPT ![e].at = i, ![e].fired = Fired(e)]
        /\ Runs(old.entries[i])
  BY DEF NextRuns
<1>3. /\ old.entries \in Seq(HookEntries)
      /\ Len(old.entries) \in Nat /\ old.at \in 1..Len(old.entries)
      /\ InOrder(old.entries, Ahead)
      /\ \A j \in 1..Len(old.entries) :
           old.entries[j] \in HookEntries /\ old.entries[j] \in KnownHooks
      /\ \A y \in Range(old.fired) : \E j \in 1..old.at - 1 : y = old.entries[j]
  BY <1>1, EmitStands
<1>4. /\ Fired(e) \in Seq(HookEntries)
      /\ Range(old.fired) \subseteq Range(Fired(e))
      /\ Range(Fired(e)) \subseteq Range(old.fired) \union {last}
      /\ last.once => last \in Range(Fired(e))
  BY <1>1, FiredOf
<1>5. i \in 1..Len(old.entries) /\ i \in Nat /\ i # 0 /\ old.at < i /\ old.at \in 1..i - 1
      /\ \A j \in 1..old.at - 1 : j \in 1..i - 1
  BY <1>3
<1> DEFINE m == [old EXCEPT !.at = i, !.fired = Fired(e)]
           x == old.entries[i]
<1>6. /\ emits' = [emits EXCEPT ![e] = m]
      /\ m \in EmitStates /\ m.entries = old.entries /\ m.at = i /\ m.fired = Fired(e)
  <2>1. emits' = [emits EXCEPT ![e] = m]
    BY <1>2
  <2>2. old \in EmitStates
    BY <1>0 DEF HookTypes
  <2> HIDE DEF old
  <2>3. m \in EmitStates /\ m.entries = old.entries /\ m.at = i /\ m.fired = Fired(e)
    BY <1>4, <1>5, <2>2 DEF EmitStates
  <2> QED BY <2>1, <2>3
<1>7. m # NoEmit
  <2>1. NoEmit.at = 0
    BY DEF NoEmit
  <2> HIDE DEF m
  <2> QED BY <1>5, <1>6, <2>1
<1> HIDE DEF m
<1>8. emits' \in [Emits -> EmitStates]
      /\ \A f \in Emits : emits'[f] = IF f = e THEN m ELSE emits[f]
  BY <1>0, <1>6 DEF HookTypes
<1>9. x.id \in 1..registrations /\ x \in KnownHooks
  BY <1>0, <1>3, <1>5 DEF HooksAreKnown
<1>10. /\ runs' \in Seq(Nat) /\ Len(runs') = registrations
       /\ runs'[x.id] = runs[x.id] + 1
       /\ \A j \in 1..registrations : j # x.id => runs'[j] = runs[j]
  <2>1. Runs(x)
    BY <1>2
  <2> HIDE DEF x
  <2> QED BY <1>9, <2>1, RunOf
<1>11. HookTypes'
  BY <1>0, <1>1, <1>8, <1>10 DEF HookTypes
<1>12. HooksAreKnown'
  <2>1. KnownHooks' \subseteq KnownHooks
    BY <1>1, <1>6, <1>8 DEF KnownHooks
  <2> QED BY <1>0, <1>1, <2>1 DEF HooksAreKnown
<1>13. \A y \in Range(Fired(e)) : \E j \in 1..i - 1 : y = old.entries[j]
  <2> SUFFICES ASSUME NEW y \in Range(Fired(e)) PROVE \E j \in 1..i - 1 : y = old.entries[j]
    OBVIOUS
  <2>1. CASE y = last
    BY <1>5, <2>1
  <2>2. CASE y \in Range(old.fired)
    <3>1. PICK j \in 1..old.at - 1 : y = old.entries[j]
      BY <1>3, <2>2
    <3> QED BY <1>5, <3>1
  <2> QED BY <1>4, <2>1, <2>2
<1>14. EmitsAreTrue'
  <2>1. EmitIsTrue(m)
    BY <1>3, <1>5, <1>6, <1>13 DEF EmitIsTrue
  <2>2. \A f \in Emits : EmitIsTrue(emits'[f])
    BY <1>0, <1>8, <2>1 DEF EmitsAreTrue
  <2>3. \A f \in Emits : emits'[f].entries = emits[f].entries
    BY <1>6, <1>8
  <2>4. \A f, g \in Emits : f # g => Ids(emits'[f].entries) \intersect Ids(emits'[g].entries) \subseteq unsettled'
    BY <1>0, <1>1, <2>3 DEF EmitsAreTrue
  <2>5. \A f \in Emits : EmitIsTrue(emits[f])'
    BY <2>2 DEF EmitIsTrue, Ahead, HookEntries, InOrder
  <2> QED BY <2>4, <2>5 DEF EmitsAreTrue
<1>15. AloneStay'
  BY <1>0, <1>1 DEF AloneStay, Alone
<1>16. RunsAreTrue'
  <2> SUFFICES ASSUME NEW y \in Range(handlers), y.once, Alone(y.id), y.id \notin unsettled
               PROVE  \/ runs'[y.id] = 0
                      \/ runs'[y.id] = 1 /\ \E f \in Emits : HasRun(emits'[f], y)
    BY <1>1 DEF RunsAreTrue, HasRun, Alone
  <2>1. y.id \in 1..registrations /\ y \in KnownHooks
    BY <1>0 DEF HooksAreKnown, KnownHooks
  <2>2. runs[y.id] = 0 \/ (runs[y.id] = 1 /\ \E f \in Emits : HasRun(emits[f], y))
    BY <1>0 DEF RunsAreTrue
  <2>3. CASE y.id # x.id
    <3>1. runs'[y.id] = runs[y.id]
      BY <1>10, <2>1, <2>3
    <3>2. ASSUME NEW f \in Emits, HasRun(emits[f], y) PROVE HasRun(emits'[f], y)
      <4>1. CASE f # e
        BY <1>8, <3>2, <4>1
      <4>2. CASE f = e
        <5>1. y = last \/ y \in Range(old.fired)
          BY <3>2, <4>2 DEF HasRun
        <5>2. y \in Range(Fired(e))
          BY <1>4, <5>1
        <5> QED BY <1>6, <1>7, <1>8, <4>2, <5>2 DEF HasRun
      <4> QED BY <4>1, <4>2
    <3> QED BY <2>2, <3>1, <3>2
  <2>4. CASE y.id = x.id
    <3>1. y = x
      BY <1>0, <1>9, <2>1, <2>4 DEF HooksAreKnown
    <3>2. ASSUME NEW f \in Emits, HasRun(emits[f], y) PROVE FALSE
      <4>1. emits[f] # NoEmit /\ (y = emits[f].entries[emits[f].at] \/ y \in Range(emits[f].fired))
        BY <3>2 DEF HasRun
      <4>2. /\ emits[f].entries \in Seq(HookEntries)
            /\ Len(emits[f].entries) \in Nat /\ emits[f].at \in 1..Len(emits[f].entries)
            /\ \A j \in 1..Len(emits[f].entries) : emits[f].entries[j] \in Range(emits[f].entries)
            /\ \A z \in Range(emits[f].fired) : \E j \in 1..emits[f].at - 1 : z = emits[f].entries[j]
        BY <4>1, EmitStands
      <4>3. PICK j \in 1..emits[f].at : y = emits[f].entries[j]
        <5>1. emits[f].at \in 1..emits[f].at /\ \A j \in 1..emits[f].at - 1 : j \in 1..emits[f].at
          BY <4>2
        <5> QED BY <4>1, <4>2, <5>1
      <4>4. j \in 1..Len(emits[f].entries)
        BY <4>2
      <4>5. CASE f = e
        <5>1. old.entries[j] = old.entries[i] /\ j \in 1..Len(old.entries)
          BY <3>1, <4>3, <4>4, <4>5
        <5>2. j = i
          BY <1>3, <1>5, <5>1, OncePlaced
        <5>3. j \in 1..old.at
          BY <4>3, <4>5
        <5> QED BY <1>3, <1>5, <5>2, <5>3
      <4>6. CASE f # e
        <5>1. y.id \in Ids(emits[f].entries)
          BY <4>2, <4>3, <4>4, IdsOf
        <5>2. y.id \in Ids(old.entries)
          <6>1. x \in Range(old.entries)
            BY <1>3, <1>5, RangeOf
          <6> QED BY <1>3, <3>1, <6>1, IdsOf
        <5> QED BY <1>0, <4>6, <5>1, <5>2 DEF EmitsAreTrue
      <4> QED BY <4>5, <4>6
    <3>3. runs[y.id] = 0
      BY <2>2, <3>2
    <3>4. runs'[y.id] = 1
      <4>1. runs'[y.id] = runs[y.id] + 1
        BY <1>10, <2>4
      <4> QED BY <3>3, <4>1
    <3>5. HasRun(emits'[e], y)
      <4>1. emits'[e] = m
        BY <1>8
      <4> QED BY <1>6, <1>7, <3>1, <4>1 DEF HasRun
    <3> QED BY <3>4, <3>5
  <2> QED BY <2>3, <2>4
<1>17. InOrder(handlers, Ahead)'
  BY <1>0, <1>1 DEF Ahead, HookEntries, InOrder
<1> QED BY <1>11, <1>12, <1>14, <1>15, <1>16, <1>17 DEF HooksInv

(* The end of an emit: of the handlers it names in fired those registered   *)
(* once are gone, so that whatever ran and is listed still was not settled. *)
LEMMA EmitIsOver ==
  ASSUME HooksInv, NEW e \in Emits, NEW fired \in Seq(HookEntries),
         Range(emits[e].fired) \subseteq Range(fired),
         Range(fired) \subseteq Range(emits[e].fired) \union {emits[e].entries[emits[e].at]},
         NEW odd \in SUBSET (1..registrations), unsettled' = unsettled \union odd,
         EmitOver(e, fired),
         LET last == emits[e].entries[emits[e].at]
         IN last.once => last \in Range(fired) \/ last.id \in odd
  PROVE  HooksInv'
<1>0. /\ HookTypes /\ InOrder(handlers, Ahead) /\ HooksAreKnown
      /\ EmitsAreTrue /\ AloneStay /\ RunsAreTrue
  BY DEF HooksInv
<1> DEFINE last == emits[e].entries[emits[e].at]
<1>1. /\ emits[e] # NoEmit /\ emits' = [emits EXCEPT ![e] = NoEmit]
      /\ handlers' = Cleaned(handlers, fired) /\ released' = released \union Ids(fired)
      /\ UNCHANGED <<registrations, emitStarts, disposed, runs, handlerOf>>
  BY DEF EmitOver
<1>2. /\ handlers' \in Seq(HookEntries) /\ InOrder(handlers', Ahead)
      /\ Range(handlers') \subseteq Range(handlers)
      /\ \A x \in Range(handlers) : (\A y \in Range(fired) : y.handler # x.handler) =>
           x \in Range(handlers')
      /\ \A x \in Range(handlers') : \A y \in Range(fired) : y.handler = x.handler =>
           \E z \in Range(handlers) : z.handler = x.handler /\ z # x
  BY <1>0, <1>1, CleanedOf DEF HookTypes
<1>3. \A x \in Range(fired) : x \in KnownHooks
  <2>1. /\ Len(emits[e].entries) \in Nat /\ emits[e].at \in 1..Len(emits[e].entries)
        /\ \A i \in 1..Len(emits[e].entries) : emits[e].entries[i] \in KnownHooks
        /\ \A x \in Range(emits[e].fired) : \E i \in 1..emits[e].at - 1 : x = emits[e].entries[i]
    BY <1>1, EmitStands
  <2>2. \A i \in 1..emits[e].at - 1 : i \in 1..Len(emits[e].entries)
    BY <2>1
  <2> QED BY <2>1, <2>2
<1>4. Ids(fired) = {x.id : x \in Range(fired)}
  BY IdsOf
<1>5. Ids(fired) \subseteq 1..registrations
  BY <1>0, <1>3, <1>4 DEF HooksAreKnown
<1>6. NoEmit \in EmitStates /\ NoEmit.entries = <<>>
  BY DEF NoEmit, EmitStates
<1>7. emits' \in [Emits -> EmitStates]
      /\ \A f \in Emits : emits'[f] = IF f = e THEN NoEmit ELSE emits[f]
  BY <1>0, <1>1, <1>6 DEF HookTypes
<1>8. HookTypes'
  BY <1>0, <1>1, <1>2, <1>5, <1>7 DEF HookTypes
<1>9. HooksAreKnown'
  <2>1. KnownHooks' \subseteq KnownHooks
    BY <1>2, <1>6, <1>7, RangeEmpty DEF KnownHooks
  <2> QED BY <1>0, <1>1, <2>1 DEF HooksAreKnown
<1>10. EmitsAreTrue'
  <2>1. \A f \in Emits : EmitIsTrue(emits'[f])
    <3>1. EmitIsTrue(NoEmit)
      BY DEF EmitIsTrue
    <3> QED BY <1>0, <1>7, <3>1 DEF EmitsAreTrue
  <2>2. Ids(<<>>) = {}
    BY DEF Ids
  <2>3. \A f, g \in Emits : f # g => Ids(emits'[f].entries) \intersect Ids(emits'[g].entries) \subseteq unsettled'
    BY <1>0, <1>6, <1>7, <2>2 DEF EmitsAreTrue
  <2>4. \A f \in Emits : EmitIsTrue(emits[f])'
    BY <2>1 DEF EmitIsTrue, Ahead, HookEntries, InOrder
  <2> QED BY <2>3, <2>4 DEF EmitsAreTrue
<1>11. ASSUME NEW x \in Range(handlers), Alone(x.id)
       PROVE  x \in Range(handlers') <=> x.id \notin Ids(fired)
  <2>1. x \in KnownHooks /\ x.id \in 1..registrations /\ handlerOf[x.id] = x.handler
    BY <1>0 DEF KnownHooks, HooksAreKnown
  <2>2. \A y \in Range(fired) : y.handler = x.handler => y = x
    BY <1>3, <1>11, <2>1, AloneIsOne
  <2>3. ASSUME x \in Range(handlers'), x.id \in Ids(fired) PROVE FALSE
    <3>1. PICK y \in Range(fired) : y.id = x.id
      BY <1>4, <2>3
    <3>2. y = x
      BY <1>0, <1>3, <2>1, <3>1 DEF HooksAreKnown
    <3>3. PICK z \in Range(handlers) : z.handler = x.handler /\ z # x
      BY <1>2, <2>3, <3>1, <3>2
    <3> QED BY <1>11, <2>1, <3>3, AloneIsOne DEF KnownHooks
  <2>4. ASSUME x.id \notin Ids(fired) PROVE x \in Range(handlers')
    <3>1. x \notin Range(fired)
      BY <1>4, <2>4
    <3> QED BY <1>2, <2>2, <3>1
  <2> QED BY <2>3, <2>4
<1>12. AloneStay'
  BY <1>1, <1>2, <1>11, RemovalKeepsAlone
<1>13. RunsAreTrue'
  <2> SUFFICES ASSUME NEW y \in Range(handlers'), y.once, Alone(y.id), y.id \notin unsettled'
               PROVE  \/ runs[y.id] = 0
                      \/ runs[y.id] = 1 /\ \E f \in Emits : HasRun(emits'[f], y)
    BY <1>1 DEF RunsAreTrue, HasRun, Alone
  <2>1. y \in Range(handlers)
    BY <1>2
  <2>2. runs[y.id] = 0 \/ (runs[y.id] = 1 /\ \E f \in Emits : HasRun(emits[f], y))
    BY <1>0, <2>1 DEF RunsAreTrue
  <2>3. y.id \notin Ids(fired)
    BY <1>11, <2>1
  <2>4. ~HasRun(emits[e], y)
    <3>1. y \notin Range(fired)
      BY <1>4, <2>3
    <3>2. y # last
      BY <3>1
    <3> QED BY <3>1, <3>2 DEF HasRun
  <2>5. \A f \in Emits : HasRun(emits[f], y) => HasRun(emits'[f], y)
    BY <1>7, <2>4
  <2> QED BY <2>2, <2>5
<1>14. InOrder(handlers, Ahead)'
  BY <1>2 DEF Ahead, HookEntries, InOrder
<1> QED BY <1>8, <1>9, <1>10, <1>12, <1>13, <1>14 DEF HooksInv

LEMMA HooksInvariant == HooksSpec => []HooksInv
<1>1. ASSUME HooksInv, [HooksNext]_hookVars PROVE HooksInv'
  <2>1. ASSUME NEW h \in Handlers, NEW priority \in Priorities, NEW once \in BOOLEAN,
               RegisterHandler(h, priority, once)
        PROVE  HooksInv'
    BY <1>1, <2>1, HandlerIsRegistered
  <2>2. ASSUME NEW id \in 1..registrations, Dispose(id) PROVE HooksInv'
    BY <1>1, <2>2, HandlerIsDisposed
  <2>3. ASSUME NEW h \in Handlers, Off(h) PROVE HooksInv'
    BY <1>1, <2>3, HandlerIsOff
  <2>4. CASE Clear
    BY <1>1, <2>4, HandlersAreCleared
  <2>5. ASSUME NEW e \in Emits, Emit(e) PROVE HooksInv'
    BY <1>1, <2>5, EmitStarts
  <2>6. ASSUME NEW e \in Emits, NextRuns(e) PROVE HooksInv'
    BY <1>1, <2>6, EmitGoesOn
  <2>7. ASSUME NEW e \in Emits, EmitEnds(e) PROVE HooksInv'
    <3>1. emits[e] # NoEmit /\ EmitOver(e, Fired(e)) /\ unsettled' = unsettled \union {}
      BY <2>7 DEF EmitEnds, EmitOver
    <3>2. {} \in SUBSET (1..registrations)
      OBVIOUS
    <3> QED BY <1>1, <3>1, <3>2, FiredOf, EmitIsOver
  <2>8. ASSUME NEW e \in Emits, Rejected(e) PROVE HooksInv'
    <3> DEFINE last == emits[e].entries[emits[e].at]
    <3>1. emits[e] # NoEmit /\ EmitOver(e, emits[e].fired) /\ unsettled' = unsettled \union {last.id}
      BY <2>8 DEF Rejected, EmitOver
    <3>2. emits[e].fired \in Seq(HookEntries) /\ last \in KnownHooks
      BY <1>1, <3>1, EmitStands
    <3>3. {last.id} \in SUBSET (1..registrations)
      BY <1>1, <3>2 DEF HooksInv, HooksAreKnown
    <3> QED BY <1>1, <3>1, <3>2, <3>3, EmitIsOver
  <2>9. CASE UNCHANGED hookVars
    BY <1>1, <2>9 DEF hookVars, HooksInv, HookTypes, HooksAreKnown, KnownHooks, EmitsAreTrue,
         EmitIsTrue, AloneStay, Alone, RunsAreTrue, HasRun
  <2> QED BY <1>1, <2>1, <2>2, <2>3, <2>4, <2>5, <2>6, <2>7, <2>8, <2>9 DEF HooksNext
<1> QED BY <1>1, HooksStart, PTL DEF HooksSpec

(* Listed handlers have been registered, and an emit under way is at one of *)
(* its entries, for any handlers, priorities and overlapping emits.         *)
THEOREM HooksTypeCorrect == HooksSpec => []HooksTypeOK
<1>1. HooksInv => HooksTypeOK
  <2> SUFFICES ASSUME HooksInv PROVE HooksTypeOK
    OBVIOUS
  <2>1. HookTypes /\ HooksAreKnown
    BY DEF HooksInv
  <2>2. Ids(handlers) \subseteq 1..registrations
    <3>1. Ids(handlers) = {x.id : x \in Range(handlers)}
      BY <2>1, IdsOf DEF HookTypes
    <3> QED BY <2>1, <3>1 DEF HooksAreKnown, KnownHooks
  <2>3. ASSUME NEW e \in Emits, emits[e] # NoEmit PROVE emits[e].at \in DOMAIN emits[e].entries
    <3>1. emits[e].entries \in Seq(HookEntries) /\ emits[e].at \in 1..Len(emits[e].entries)
      BY <2>3, EmitStands
    <3> QED BY <3>1, LenProperties
  <2> QED BY <2>1, <2>2, <2>3 DEF HookTypes, HooksTypeOK
<1> QED BY <1>1, HooksInvariant, PTL

(* Handlers stay in their order; one registered once stays exactly until it *)
(* is removed or, one-shot, has run, and then it has run once, unless two   *)
(* emits had it or its result was rejected.                                 *)
THEOREM HandlersStayed == HooksSpec => []HandlersStay
<1>1. HooksInv => HandlersStay
  <2> SUFFICES ASSUME HooksInv PROVE HandlersStay
    OBVIOUS
  <2>1. /\ HookTypes /\ InOrder(handlers, Ahead) /\ AloneStay /\ RunsAreTrue
    BY DEF HooksInv
  <2>2. DOMAIN handlers = 1..Len(handlers) /\ \A i \in 1..Len(handlers) : handlers[i] \in Range(handlers)
    BY <2>1, LenProperties, RangeOf DEF HookTypes
  <2>3. ASSUME NEW i \in DOMAIN handlers, NEW j \in DOMAIN handlers, i < j
        PROVE  \/ handlers[i].priority < handlers[j].priority
               \/ /\ handlers[i].priority = handlers[j].priority
                  /\ handlers[i].id < handlers[j].id
    <3>1. <<handlers[i], handlers[j]>> \in Ahead
      BY <2>1, <2>2, <2>3 DEF InOrder
    <3> QED BY <3>1 DEF Ahead
  <2>4. ASSUME NEW i \in DOMAIN handlers,
               handlers[i].once, Alone(handlers[i].id), handlers[i].id \notin unsettled
        PROVE  /\ runs[handlers[i].id] <= 1
               /\ runs[handlers[i].id] = 1 =>
                    \E e \in Emits : handlers[i].id \in Ids(emits[e].entries)
    <3> DEFINE x == handlers[i]
    <3>1. runs[x.id] = 0 \/ (runs[x.id] = 1 /\ \E e \in Emits : HasRun(emits[e], x))
      BY <2>1, <2>2, <2>4 DEF RunsAreTrue
    <3> HIDE DEF x
    <3>2. ASSUME NEW e \in Emits, HasRun(emits[e], x) PROVE x.id \in Ids(emits[e].entries)
      <4>1. emits[e] # NoEmit /\ (x = emits[e].entries[emits[e].at] \/ x \in Range(emits[e].fired))
        BY <3>2 DEF HasRun
      <4>2. /\ emits[e].entries \in Seq(HookEntries)
            /\ Len(emits[e].entries) \in Nat /\ emits[e].at \in 1..Len(emits[e].entries)
            /\ \A j \in 1..Len(emits[e].entries) : emits[e].entries[j] \in Range(emits[e].entries)
            /\ \A z \in Range(emits[e].fired) : \E j \in 1..emits[e].at - 1 : z = emits[e].entries[j]
        BY <4>1, EmitStands
      <4>3. \A j \in 1..emits[e].at - 1 : j \in 1..Len(emits[e].entries)
        BY <4>2
      <4>4. x \in Range(emits[e].entries)
        BY <4>1, <4>2, <4>3
      <4> QED BY <4>2, <4>4, IdsOf
    <3>3. runs[x.id] <= 1 /\ (runs[x.id] = 1 => \E e \in Emits : HasRun(emits[e], x))
      BY <3>1
    <3> QED BY <3>2, <3>3 DEF x
  <2> QED BY <2>1, <2>3, <2>4 DEF HandlersStay, AloneStay
<1> QED BY <1>1, HooksInvariant, PTL

(* Hooks and editor prompts side by side: a handler registered once stays   *)
(* until it is removed or, one-shot, has run (once, unless two emits had it *)
(* or its result was rejected), and a session that no prompt after a        *)
(* disconnect() wedged is busy exactly while its one handler runs.          *)
THEOREM HandlersStaySettled == HandlersSpec => []HandlersAreSettled
  BY HandlersStayed, PromptsStaySettled, PTL DEF HandlersSpec, HandlersAreSettled
(* The maps of the pool agree: lastUsed lists the keys of the clients, each  *)
(* once, and so there is one to evict whenever the pool is full.            *)
KeysOf(S) == {a[1] : a \in S}

PoolMaps ==
  /\ \A a, b \in clients : a[1] = b[1] => a = b
  /\ Range(lastUsed) = KeysOf(clients)
  /\ InOrder(lastUsed, Different(Servers))
  /\ clearing => clears < MaxClears

LEMMA KeysWithout ==
  ASSUME PoolTypeOK, PoolMaps, NEW k \in Servers
  PROVE  /\ Without(lastUsed, k) \in Seq(Servers)
         /\ Range(Without(lastUsed, k)) = KeysOf(clients \ Of(k))
         /\ InOrder(Without(lastUsed, k), Different(Servers))
<1>1. /\ Without(lastUsed, k) \in Seq(Servers)
      /\ Range(Without(lastUsed, k)) = Range(lastUsed) \ {k}
      /\ InOrder(Without(lastUsed, k), Different(Servers))
  BY FilteredOf DEF Without, PoolTypeOK, PoolMaps
<1>2. KeysOf(clients) \ {k} = KeysOf(clients \ Of(k))
  BY DEF KeysOf, Of, PoolTypeOK
<1> QED BY <1>1, <1>2 DEF PoolMaps

LEMMA KeyLast ==
  ASSUME PoolTypeOK, PoolMaps, NEW k \in Servers
  PROVE  /\ Append(Without(lastUsed, k), k) \in Seq(Servers)
         /\ Range(Append(Without(lastUsed, k), k)) = KeysOf(clients \ Of(k)) \union {k}
         /\ InOrder(Append(Without(lastUsed, k), k), Different(Servers))
<1> DEFINE w == Without(lastUsed, k)
<1>1. w \in Seq(Servers) /\ Range(w) = KeysOf(clients \ Of(k)) /\ InOrder(w, Different(Servers))
  BY KeysWithout
<1> HIDE DEF w
<1>2. ASSUME NEW y \in Range(w) PROVE <<y, k>> \in Different(Servers)
  <2>1. y # k
    BY <1>1 DEF KeysOf, Of, PoolTypeOK
  <2> QED BY <1>1, <2>1, RangeOf DEF Different
<1>3. Append(w, k) \in Seq(Servers) /\ Range(Append(w, k)) = Range(w) \union {k}
  BY <1>1, RangeAppend
<1>4. InOrder(Append(w, k), Different(Servers))
  BY <1>1, <1>2, AppendInOrder
<1> QED BY <1>1, <1>3, <1>4 DEF w

(* Making room: a full pool has clients, so lastUsed has a key to evict.     *)
LEMMA OldestIsAKey ==
  ASSUME PoolTypeOK, PoolMaps, Cardinality(clients) >= MaxServers
  PROVE  /\ Head(lastUsed) \in Servers /\ Tail(lastUsed) \in Seq(Servers)
         /\ Range(Tail(lastUsed)) = KeysOf(clients \ Of(Head(lastUsed)))
         /\ InOrder(Tail(lastUsed), Different(Servers))
<1>1. clients # {}
  BY PoolAssumption, FS_EmptySet
<1>2. lastUsed # <<>> /\ lastUsed \in Seq(Servers)
  <2>1. PICK a \in clients : TRUE
    BY <1>1
  <2>2. a[1] \in Range(lastUsed)
    BY DEF PoolMaps, KeysOf
  <2>3. lastUsed # <<>>
    BY <2>2, RangeEmpty
  <2> QED BY <2>3 DEF PoolTypeOK
<1>3. \A x : <<x, x>> \notin Different(Servers)
  BY DEF Different
<1>4. /\ Head(lastUsed) \in Range(lastUsed) /\ Tail(lastUsed) \in Seq(Servers)
      /\ Range(Tail(lastUsed)) = Range(lastUsed) \ {Head(lastUsed)}
      /\ InOrder(Tail(lastUsed), Different(Servers))
  BY <1>2, <1>3, TailInOrder DEF PoolMaps
<1> DEFINE k == Head(lastUsed)
<1>5. k \in Servers
  BY <1>2, <1>4, RangeOf
<1> HIDE DEF k
<1>6. KeysOf(clients) \ {k} = KeysOf(clients \ Of(k))
  BY DEF KeysOf, Of, PoolTypeOK
<1> QED BY <1>4, <1>5, <1>6 DEF PoolMaps, k

LEMMA GetClientTypes ==
  ASSUME PoolTypeOK, PoolMaps, NEW k \in Servers, GetClient(k),
         UNCHANGED <<restarts, tracker, checking, clearing, clears>>,
         restartTimers' \subseteq Inits
  PROVE  PoolTypeOK' /\ PoolMaps'
<1>1. CASE UNCHANGED <<stage, maps>>
  BY <1>1 DEF PoolTypeOK, PoolMaps, maps
<1>2. ASSUME NEW a \in clients \intersect Of(k),
             lastUsed' = Append(Without(lastUsed, k), k), UNCHANGED <<stage, clients, pending>>
      PROVE  PoolTypeOK' /\ PoolMaps'
  <2>1. KeysOf(clients \ Of(k)) \union {k} = KeysOf(clients)
    BY DEF KeysOf, Of, PoolTypeOK
  <2> QED BY <1>2, <2>1, KeyLast DEF PoolTypeOK, PoolMaps
<1>3. CASE Initialize(k)
  <2>1. PICK a \in Of(k) :
          /\ pending' = pending \union {a}
          /\ \/ /\ stage' = [stage EXCEPT ![a] = "starting"]
                /\ UNCHANGED <<clients, lastUsed>>
             \/ /\ Cardinality(clients) >= MaxServers
                /\ stage' = [i \in Inits |->
                     IF i = a THEN "evicting"
                     ELSE IF i \in clients \intersect Of(Head(lastUsed)) /\ stage[i] = "up"
                          THEN "leaving" ELSE stage[i]]
                /\ clients' = clients \ Of(Head(lastUsed))
                /\ lastUsed' = Tail(lastUsed)
    BY <1>3 DEF Initialize
  <2>2. a \in Inits
    BY DEF Of
  <2>3. stage' \in [Inits -> Stages] /\ pending' \subseteq Inits
    BY <2>1, <2>2 DEF PoolTypeOK, Stages
  <2>4. CASE UNCHANGED <<clients, lastUsed>>
    BY <2>3, <2>4 DEF PoolTypeOK, PoolMaps
  <2>5. CASE /\ Cardinality(clients) >= MaxServers
             /\ clients' = clients \ Of(Head(lastUsed)) /\ lastUsed' = Tail(lastUsed)
    BY <2>3, <2>5, OldestIsAKey DEF PoolTypeOK, PoolMaps
  <2> QED BY <2>1, <2>4, <2>5
<1> QED BY <1>1, <1>2, <1>3 DEF GetClient

LEMMA PoolTypesStart == PoolInit => PoolTypeOK /\ PoolMaps
<1> SUFFICES ASSUME PoolInit PROVE PoolTypeOK /\ PoolMaps
  OBVIOUS
<1>1. PoolTypeOK
  <2>1. tracker \in [Inits -> Servers \X (0..MaxClears)]
    BY AttemptHasKey, PoolAssumption DEF PoolInit
  <2>2. restarts \in [Servers \X (0..MaxClears) -> 0..MaxRestarts]
    BY PoolAssumption DEF PoolInit
  <2>3. stage \in [Inits -> Stages]
    BY DEF PoolInit, Stages
  <2>4. clears \in 0..MaxClears
    BY PoolAssumption DEF PoolInit
  <2>5. lastUsed \in Seq(Servers)
    BY DEF PoolInit
  <2> QED BY <2>1, <2>2, <2>3, <2>4, <2>5 DEF PoolInit, PoolTypeOK
<1>2. PoolMaps
  BY RangeEmpty DEF PoolInit, PoolMaps, KeysOf, InOrder
<1> QED BY <1>1, <1>2

LEMMA PoolTypesStep ==
  ASSUME PoolTypeOK, PoolMaps, [PoolNext]_poolVars PROVE PoolTypeOK' /\ PoolMaps'
<1>1. CASE UNCHANGED poolVars
  BY <1>1 DEF poolVars, maps, PoolTypeOK, PoolMaps
<1>2. ASSUME NEW k \in Servers, Ask(k) PROVE PoolTypeOK' /\ PoolMaps'
  BY <1>2, GetClientTypes DEF Ask, PoolTypeOK
<1>3. ASSUME NEW a \in Inits, AutoRestart(a) PROVE PoolTypeOK' /\ PoolMaps'
  BY <1>3, AttemptHasKey, GetClientTypes DEF AutoRestart, PoolTypeOK
<1>4. ASSUME NEW a \in Inits, Evicted(a) \/ Exit(a) PROVE PoolTypeOK' /\ PoolMaps'
  <2>1. stage' \in [Inits -> Stages]
    BY <1>4 DEF Evicted, Exit, PoolTypeOK, Stages
  <2>2. UNCHANGED <<maps, restarts, tracker, restartTimers, checking, clearing, clears>>
    BY <1>4 DEF Evicted, Exit
  <2> QED BY <2>1, <2>2 DEF maps, PoolTypeOK, PoolMaps
<1>5. ASSUME NEW a \in Inits, Ready(a) PROVE PoolTypeOK' /\ PoolMaps'
  <2>0. a[1] \in Servers /\ clears \in 0..MaxClears
    BY AttemptHasKey DEF PoolTypeOK
  <2>1. /\ clients' = (clients \ Of(a[1])) \union {a}
        /\ lastUsed' = Append(Without(lastUsed, a[1]), a[1])
        /\ stage' \in [Inits -> Stages] /\ pending' \subseteq Inits
        /\ UNCHANGED <<restartTimers, checking, clearing, clears>>
    BY <1>5 DEF Ready, PoolTypeOK, Stages
  <2>2. tracker' \in [Inits -> Servers \X (0..MaxClears)]
    BY <1>5, <2>0 DEF Ready, PoolTypeOK
  <2>3. restarts' \in [Servers \X (0..MaxClears) -> 0..MaxRestarts]
    BY <1>5, <2>0, PoolAssumption DEF Ready, PoolTypeOK
  <2>4. KeysOf(clients') = KeysOf(clients \ Of(a[1])) \union {a[1]}
    BY <2>1 DEF KeysOf
  <2>5. \A b, c \in clients' : b[1] = c[1] => b = c
    BY <2>1 DEF Of, PoolMaps, PoolTypeOK
  <2> QED BY <2>0, <2>1, <2>2, <2>3, <2>4, <2>5, KeyLast DEF PoolTypeOK, PoolMaps
<1>6. ASSUME NEW a \in Inits, Failed(a) PROVE PoolTypeOK' /\ PoolMaps'
  BY <1>6 DEF Failed, PoolTypeOK, PoolMaps, Stages
<1>7. ASSUME NEW a \in Inits, Crash(a) PROVE PoolTypeOK' /\ PoolMaps'
  <2>0. a[1] \in Servers /\ tracker[a] \in Servers \X (0..MaxClears)
    BY AttemptHasKey DEF PoolTypeOK
  <2>1. /\ clients' = clients \ Of(a[1]) /\ lastUsed' = Without(lastUsed, a[1])
        /\ stage' \in [Inits -> Stages]
        /\ UNCHANGED <<pending, tracker, checking, clearing, clears>>
    BY <1>7 DEF Crash, PoolTypeOK, Stages
  <2>2. /\ restarts' \in [Servers \X (0..MaxClears) -> 0..MaxRestarts]
        /\ restartTimers' \subseteq Inits
    <3>1. PICK recent \in 0..restarts[tracker[a]] :
            \/ /\ recent < MaxRestarts
               /\ restarts' = [restarts EXCEPT ![tracker[a]] = recent + 1]
               /\ restartTimers' = restartTimers \union {a}
            \/ /\ recent >= MaxRestarts
               /\ restarts' = [restarts EXCEPT ![tracker[a]] = recent]
               /\ UNCHANGED restartTimers
      BY <1>7 DEF Crash
    <3>2. restarts[tracker[a]] \in 0..MaxRestarts /\ MaxRestarts \in Nat
      BY <2>0, PoolAssumption DEF PoolTypeOK
    <3>3. recent \in 0..MaxRestarts /\ (recent < MaxRestarts => recent + 1 \in 0..MaxRestarts)
      BY <3>2
    <3>4. /\ recent \in 0..MaxRestarts
             => [restarts EXCEPT ![tracker[a]] = recent]
                  \in [Servers \X (0..MaxClears) -> 0..MaxRestarts]
          /\ recent + 1 \in 0..MaxRestarts
             => [restarts EXCEPT ![tracker[a]] = recent + 1]
                  \in [Servers \X (0..MaxClears) -> 0..MaxRestarts]
      BY DEF PoolTypeOK
    <3>5. restartTimers \union {a} \subseteq Inits /\ restartTimers \subseteq Inits
      BY DEF PoolTypeOK
    <3> QED BY <3>1, <3>3, <3>4, <3>5
  <2> QED BY <2>0, <2>1, <2>2, KeysWithout DEF PoolTypeOK, PoolMaps
<1>8. ASSUME NEW a \in Inits, EvictIdle(a) PROVE PoolTypeOK' /\ PoolMaps'
  <2>0. a[1] \in Servers
    BY AttemptHasKey
  <2>1. clients \ {a} = clients \ Of(a[1])
    BY <1>8 DEF EvictIdle, Of, PoolMaps, PoolTypeOK
  <2>2. stage' \in [Inits -> Stages]
    BY <1>8 DEF EvictIdle, PoolTypeOK, Stages
  <2> QED BY <1>8, <2>0, <2>1, <2>2, KeysWithout DEF EvictIdle, PoolTypeOK, PoolMaps
<1>9. CASE StartIdleChecker
  BY <1>9 DEF StartIdleChecker, maps, PoolTypeOK, PoolMaps
<1>10. CASE ClearAll
  <2>1. stage' \in [Inits -> Stages]
    BY <1>10 DEF ClearAll, PoolTypeOK, Stages
  <2> QED BY <1>10, <2>1 DEF ClearAll, maps, PoolTypeOK, PoolMaps
<1>11. CASE Cleared
  <2>1. clears' \in 0..MaxClears
    BY <1>11, PoolAssumption DEF Cleared, PoolTypeOK, PoolMaps
  <2>2. Range(lastUsed') = KeysOf(clients')
    BY <1>11, RangeEmpty DEF Cleared, KeysOf
  <2>3. lastUsed' \in Seq(Servers) /\ InOrder(lastUsed', Different(Servers))
    BY <1>11 DEF Cleared, InOrder
  <2> QED BY <1>11, <2>1, <2>2, <2>3 DEF Cleared, PoolTypeOK, PoolMaps
<1> QED BY <1>1, <1>2, <1>3, <1>4, <1>5, <1>6, <1>7, <1>8, <1>9, <1>10, <1>11 DEF PoolNext

(* The variables of the pool keep their types.                              *)
THEOREM PoolTypeCorrect == PoolSpec => []PoolTypeOK
<1>1. PoolTypeOK /\ PoolMaps /\ [PoolNext]_poolVars => PoolTypeOK' /\ PoolMaps'
  BY PoolTypesStep
<1> QED BY <1>1, PoolTypesStart, PTL DEF PoolSpec

(* clients and lastUsed of pool.ts never part: a key has one client, and    *)
(* lastUsed names the keys of the clients, each once.  So evictLRU finds a  *)
(* client to evict whenever the pool is full, however initialisations,      *)
(* evictions, crashes and clear() overlap.                                  *)
THEOREM FullPoolEvicts ==
  PoolSpec => [](/\ PoolMaps
                 /\ Cardinality(clients) >= MaxServers =>
                      lastUsed # <<>> /\ Head(lastUsed) \in KeysOf(clients))
<1>1. PoolTypeOK /\ PoolMaps /\ [PoolNext]_poolVars => PoolTypeOK' /\ PoolMaps'
  BY PoolTypesStep
<1>2. ASSUME PoolTypeOK, PoolMaps, Cardinality(clients) >= MaxServers
      PROVE  lastUsed # <<>> /\ Head(lastUsed) \in KeysOf(clients)
  <2>1. clients # {}
    BY <1>2, PoolAssumption, FS_EmptySet
  <2>2. PICK a \in clients : a[1] \in Range(lastUsed)
    BY <1>2, <2>1 DEF PoolMaps, KeysOf
  <2>3. lastUsed # <<>> /\ lastUsed \in Seq(Servers)
    BY <1>2, <2>2, RangeEmpty DEF PoolTypeOK
  <2>4. Head(lastUsed) \in Range(lastUsed)
    <3>1. Len(lastUsed) \in Nat /\ 1 \in 1..Len(lastUsed) /\ Head(lastUsed) = lastUsed[1]
      BY <2>3
    <3> QED BY <2>3, <3>1, RangeOf
  <2> QED BY <1>2, <2>3, <2>4 DEF PoolMaps
<1> QED BY <1>1, <1>2, PoolTypesStart, PTL DEF PoolSpec

(* A bridge has at most one client, of a call that is done, as are those    *)
(* with an open connection and those being closed.                          *)
THEOREM BridgeTypeCorrect == BridgeSpec => []BridgeTypeOK
<1>1. BridgeInit => BridgeTypeOK
  <2>1. 0 \in 0..MaxDisconnects
    BY ClientsAssumption
  <2> QED BY <2>1 DEF BridgeInit, BridgeTypeOK
<1>2. BridgeTypeOK /\ [BridgeNext]_bridgeVars => BridgeTypeOK'
  <2> SUFFICES ASSUME BridgeTypeOK, [BridgeNext]_bridgeVars PROVE BridgeTypeOK'
    OBVIOUS
  <2> USE DEF BridgeTypeOK, exits
  <2>1. CASE UNCHANGED bridgeVars
    BY <2>1 DEF bridgeVars
  <2>2. ASSUME NEW c \in Clients, BridgeConnect(c) PROVE BridgeTypeOK'
    BY <2>2 DEF BridgeConnect
  <2>3. ASSUME NEW c \in Clients, TransportMade(c) PROVE BridgeTypeOK'
    BY <2>3 DEF TransportMade
  <2>4. ASSUME NEW c \in Clients, Connected(c) PROVE BridgeTypeOK'
    BY <2>4 DEF Connected
  <2>5. ASSUME NEW c \in Clients, ConnectFails(c) PROVE BridgeTypeOK'
    BY <2>5 DEF ConnectFails, Connecting
  <2>6. ASSUME NEW c \in Clients \union {NoClient}, ClientClosed(c) \/ (c \in Clients /\ CloseFails(c))
        PROVE  BridgeTypeOK'
    <3>1. c \in Clients => c \in {d \in Clients : connects[d] = "done"}
      BY <2>6, ClientsAssumption DEF ClientClosed, CloseFails, CloseOver
    <3>2. UNCHANGED connects
      BY <2>6 DEF ClientClosed, CloseFails, CloseOver
    <3> QED BY <2>6, <3>1, <3>2, ClientsAssumption DEF ClientClosed, CloseFails, CloseOver
  <2>7. CASE BridgeDisconnect
    <3>1. disconnects' \in 0..MaxDisconnects
      BY <2>7, ClientsAssumption DEF BridgeDisconnect
    <3>2. bridgeConnected' \in BOOLEAN
      BY <2>7 DEF BridgeDisconnect
    <3> QED BY <2>7, <3>1, <3>2 DEF BridgeDisconnect
  <2>8. ASSUME NEW c \in open, ServerGone(c) PROVE BridgeTypeOK'
    BY <2>8 DEF ServerGone
  <2> QED BY <2>1, <2>2, <2>3, <2>4, <2>5, <2>6, <2>7, <2>8 DEF BridgeNext
<1> QED BY <1>1, <1>2, PTL DEF BridgeSpec
================================================================================
