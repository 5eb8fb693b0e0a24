---------------------------- MODULE Traffic_proofs ----------------------------
(***************************************************************************)
(* Proofs about what the gateway passes on.  Delegations: the inductive    *)
(* invariant adds to the types how a delegation's phase is tied to the     *)
(* map, to its route and to the count that was read for it.  Lane          *)
(* messages: the ring buffers, their counters and the sort when they are   *)
(* drained implement bounded queues, and the tracker forgets in turn, for  *)
(* every capacity and every number of nodes and messages.                  *)
(***************************************************************************)
EXTENDS Delegation, LaneMessages, Lists_proofs

(* Delegations.                                                             *)

Of(n, S) == {d \in S : From[d] = n}

(* A delegation that waits is in the map, so whoever removes it there wakes *)
(* it; the node it waits for, or heard from, is one of its route.           *)
WaitingIsEntered ==
  \A d \in Delegations :
    /\ phase[d] = "waiting" => d \in delegations
    /\ phase[d] \in {"waiting", "settled"} => attempt[d] <= Len(Route[d])

(* Only with a store is anything done between the reading of the count and  *)
(* its use.                                                                 *)
StoreIsAsked ==
  \A d \in Delegations :
    phase[d] = "storing" => useStore /\ fromCount[d] < MaxPerNode

CountsAreCovered ==
  /\ IsFiniteSet(delegations)
  /\ ~useStore => /\ \A n \in Peers : counts[n] <= Cardinality(Of(n, delegations))
                  /\ Cardinality(delegations) <= MaxActive

DelegationInv ==
  /\ DelegationTypeOK /\ NoOrphans /\ WaitingIsEntered /\ WaitsForRegistered
  /\ StoreIsAsked /\ CountsAreCovered

-----------------------------------------------------------------------------
(* Facts about routes, and about the two operators every ending goes        *)
(* through.                                                                 *)

LEMMA RouteType ==
  ASSUME NEW d \in Delegations
  PROVE  /\ Len(Route[d]) \in Nat \ {0} /\ From[d] \in Peers
         /\ \A i \in 1 .. Len(Route[d]) : Route[d][i] \in Peers
<1>1. Route[d] \in Seq(Peers) /\ Route[d] # <<>> /\ From[d] \in Peers
  BY RequestsAssumption
<1>2. Len(Route[d]) \in Nat /\ Len(Route[d]) # 0
  BY <1>1
<1> QED BY <1>1, <1>2

LEMMA SettleStep ==
  ASSUME DelegationTypeOK, NEW S, NEW value \in {NoReply} \union [status : Statuses, node : Peers],
         Settle(S, value)
  PROVE  /\ phase' \in [Delegations -> {"idle", "storing", "next", "waiting", "settled", "done"}]
         /\ reply' \in [Delegations -> {NoReply} \union [status : Statuses, node : Peers]]
         /\ \A d \in Delegations :
              phase'[d] = IF d \in S /\ phase[d] = "waiting" THEN "settled" ELSE phase[d]
<1> DEFINE waiting == {d \in S : phase[d] = "waiting"}
<1>1. /\ phase' = [d \in Delegations |-> IF d \in waiting THEN "settled" ELSE phase[d]]
      /\ reply' = [d \in Delegations |-> IF d \in waiting THEN value ELSE reply[d]]
  BY DEF Settle
<1>2. phase' \in [Delegations -> {"idle", "storing", "next", "waiting", "settled", "done"}]
  BY <1>1 DEF DelegationTypeOK
<1>3. reply' \in [Delegations -> {NoReply} \union [status : Statuses, node : Peers]]
  BY <1>1 DEF DelegationTypeOK
<1> QED BY <1>1, <1>2, <1>3

(* Whoever leaves the map takes at most its share of the counts along: the  *)
(* counts stay numbers, and stay covered by the entries that remain.        *)
LEMMA CleanupStep ==
  ASSUME DelegationTypeOK, CountsAreCovered, NEW S, IsFiniteSet(S), Cleanup(S),
         UNCHANGED useStore
  PROVE  /\ delegations' \in SUBSET Delegations /\ delegations' = delegations \ S
         /\ counts' \in [Peers -> 0 .. MaxPerNode]
         /\ CountsAreCovered'
<1>1. /\ delegations' = delegations \ S
      /\ counts' = [n \in Peers |->
           IF counts[n] > Cardinality(Of(n, S)) THEN counts[n] - Cardinality(Of(n, S)) ELSE 0]
  BY DEF Cleanup, Of
<1>2. ASSUME NEW n \in Peers, NEW T, IsFiniteSet(T)
      PROVE  IsFiniteSet(Of(n, T)) /\ Cardinality(Of(n, T)) \in Nat
  <2>1. Of(n, T) \subseteq T
    BY DEF Of
  <2> QED BY <1>2, <2>1, FS_Subset, FS_CardinalityType
<1>3. \A n \in Peers : counts[n] \in Nat /\ counts[n] <= MaxPerNode /\ MaxPerNode \in Nat
  BY BoundsAssumption DEF DelegationTypeOK
<1>4. counts' \in [Peers -> 0 .. MaxPerNode]
  <2>1. ASSUME NEW n \in Peers
        PROVE (IF counts[n] > Cardinality(Of(n, S))
               THEN counts[n] - Cardinality(Of(n, S)) ELSE 0) \in 0 .. MaxPerNode
    BY <1>2, <1>3
  <2> QED BY <1>1, <2>1
<1>5. IsFiniteSet(delegations) /\ IsFiniteSet(delegations')
      /\ Cardinality(delegations') <= Cardinality(delegations)
  <2>1. IsFiniteSet(delegations) /\ delegations' \subseteq delegations
    BY <1>1 DEF CountsAreCovered
  <2> QED BY <2>1, FS_Subset
<1>6. ASSUME ~useStore, NEW n \in Peers
      PROVE  counts'[n] <= Cardinality(Of(n, delegations'))
  <2> DEFINE mine == Of(n, delegations)
             left == Of(n, delegations')
             gone == Of(n, S)
  <2>1. IsFiniteSet(mine) /\ IsFiniteSet(left) /\ IsFiniteSet(gone)
    BY <1>2, <1>5
  <2>2. mine \subseteq left \union gone
    BY <1>1 DEF Of
  <2>3. Cardinality(mine) <= Cardinality(left) + Cardinality(gone)
    <3>1. IsFiniteSet(left \union gone) /\ Cardinality(mine) <= Cardinality(left \union gone)
      BY <2>1, <2>2, FS_Union, FS_Subset
    <3>2. IsFiniteSet(left \cap gone) /\ Cardinality(left \cap gone) \in Nat
      BY <2>1, FS_Intersection, FS_CardinalityType
    <3>3. Cardinality(left \union gone)
            = Cardinality(left) + Cardinality(gone) - Cardinality(left \cap gone)
      BY <2>1, FS_Union
    <3>4. Cardinality(left) \in Nat /\ Cardinality(gone) \in Nat /\ Cardinality(mine) \in Nat
      BY <2>1, FS_CardinalityType
    <3> HIDE DEF mine, left, gone
    <3> QED BY <3>1, <3>2, <3>3, <3>4
  <2>4. counts[n] <= Cardinality(mine)
    BY <1>6 DEF CountsAreCovered
  <2>5. counts'[n] = IF counts[n] > Cardinality(gone) THEN counts[n] - Cardinality(gone) ELSE 0
    BY <1>1
  <2>6. Cardinality(left) \in Nat /\ Cardinality(gone) \in Nat /\ Cardinality(mine) \in Nat
        /\ counts[n] \in Nat
    BY <1>3, <2>1, FS_CardinalityType
  <2> HIDE DEF mine, left, gone
  <2>7. counts'[n] <= Cardinality(left)
    BY <2>3, <2>4, <2>5, <2>6
  <2> QED BY <2>7 DEF left
<1>7. ~useStore => Cardinality(delegations') <= MaxActive
  <2>1. Cardinality(delegations) \in Nat /\ Cardinality(delegations') \in Nat /\ MaxActive \in Nat
    BY <1>5, FS_CardinalityType, BoundsAssumption
  <2> QED BY <1>5, <2>1 DEF CountsAreCovered
<1>8. CountsAreCovered'
  BY <1>5, <1>6, <1>7 DEF CountsAreCovered, Of
<1> QED BY <1>1, <1>4, <1>8 DEF DelegationTypeOK

(* Without a store the count that was read is still the current one.        *)
LEMMA EnterStep ==
  ASSUME DelegationTypeOK, CountsAreCovered, NEW d \in Delegations, d \notin delegations,
         NEW count \in Nat, count < MaxPerNode, Enter(d, count), UNCHANGED useStore,
         ~useStore => count = counts[From[d]] /\ Cardinality(delegations) < MaxActive
  PROVE  /\ delegations' \in SUBSET Delegations /\ delegations' = delegations \union {d}
         /\ counts' \in [Peers -> 0 .. MaxPerNode]
         /\ phase' = [phase EXCEPT ![d] = "next"]
         /\ CountsAreCovered'
<1>1. /\ delegations' = delegations \union {d} /\ phase' = [phase EXCEPT ![d] = "next"]
      /\ counts' = [counts EXCEPT ![From[d]] = count + 1]
  BY DEF Enter
<1>2. From[d] \in Peers /\ MaxPerNode \in Nat /\ MaxActive \in Nat
  BY RouteType, BoundsAssumption
<1>3. counts' \in [Peers -> 0 .. MaxPerNode]
  <2>1. count + 1 \in 0 .. MaxPerNode
    BY <1>2
  <2> QED BY <1>1, <1>2, <2>1 DEF DelegationTypeOK
<1>4. /\ IsFiniteSet(delegations) /\ IsFiniteSet(delegations')
      /\ Cardinality(delegations') = Cardinality(delegations) + 1
      /\ Cardinality(delegations) \in Nat
  BY <1>1, FS_AddElement, FS_CardinalityType DEF CountsAreCovered
<1>5. ASSUME ~useStore, NEW n \in Peers
      PROVE  counts'[n] <= Cardinality(Of(n, delegations'))
  <2> DEFINE mine == Of(n, delegations)
             more == Of(n, delegations')
  <2>1. IsFiniteSet(mine) /\ IsFiniteSet(more) /\ mine \subseteq more /\ d \notin mine
    <3>1. mine \subseteq delegations /\ more \subseteq delegations' /\ mine \subseteq more
      BY <1>1 DEF Of
    <3> QED BY <1>4, <3>1, FS_Subset
  <2>2. counts[n] <= Cardinality(mine) /\ counts[n] \in Nat
    <3>1. counts[n] \in 0 .. MaxPerNode
      BY DEF DelegationTypeOK
    <3> QED BY <1>5, <3>1 DEF CountsAreCovered
  <2>3. CASE n = From[d]
    <3>1. counts'[n] = counts[n] + 1
      BY <1>1, <1>2, <1>5, <2>3 DEF DelegationTypeOK
    <3>2. more = mine \union {d}
      BY <1>1, <2>3 DEF Of
    <3>3. Cardinality(more) = Cardinality(mine) + 1 /\ Cardinality(mine) \in Nat
      BY <2>1, <3>2, FS_AddElement, FS_CardinalityType
    <3> QED BY <2>2, <3>1, <3>3
  <2>4. CASE n # From[d]
    <3>1. counts'[n] = counts[n]
      BY <1>1, <1>2, <2>4 DEF DelegationTypeOK
    <3>2. more = mine
      BY <1>1, <2>4 DEF Of
    <3> QED BY <2>2, <3>1, <3>2
  <2> QED BY <2>3, <2>4
<1>6. ~useStore => Cardinality(delegations') <= MaxActive
  BY <1>2, <1>4
<1>7. CountsAreCovered'
  BY <1>4, <1>5, <1>6 DEF CountsAreCovered, Of
<1> QED BY <1>1, <1>3, <1>7 DEF DelegationTypeOK

-----------------------------------------------------------------------------
(* One lemma per kind of step.  Those that begin and continue a delegation: *)

LEMMA DelegateStep ==
  ASSUME DelegationInv, NEW d \in Delegations, Delegate(d), UNCHANGED useStore
  PROVE  DelegationInv'
<1>1. /\ phase[d] = "idle"
      /\ UNCHANGED <<useStore, nodes, attempt, reply, aborted, askedNodes, failures, cooling>>
  BY DEF Delegate, breakers
<1>2. d \notin delegations /\ From[d] \in Peers
  BY <1>1, RouteType DEF DelegationInv, NoOrphans, Running
<1>3. CASE /\ phase' = [phase EXCEPT ![d] = "done"]
           /\ answer' = [answer EXCEPT ![d] = "failed"]
           /\ UNCHANGED <<delegations, counts, fromCount, late>>
  <2>1. DelegationTypeOK'
    BY <1>1, <1>3 DEF DelegationInv, DelegationTypeOK, Statuses
  <2>2. NoOrphans' /\ WaitingIsEntered' /\ StoreIsAsked' /\ CountsAreCovered'
    BY <1>1, <1>2, <1>3
       DEF DelegationInv, DelegationTypeOK, NoOrphans, Running, WaitingIsEntered, StoreIsAsked,
           CountsAreCovered
  <2>3. WaitsForRegistered'
    BY <1>1, <1>3
       DEF DelegationInv, DelegationTypeOK, WaitsForRegistered, Target, Registry!Registered
  <2> QED BY <2>1, <2>2, <2>3 DEF DelegationInv
<1>4. CASE /\ Cardinality(delegations) < MaxActive /\ counts[From[d]] < MaxPerNode
           /\ fromCount' = [fromCount EXCEPT ![d] = counts[From[d]]]
           /\ IF useStore THEN /\ phase' = [phase EXCEPT ![d] = "storing"]
                               /\ UNCHANGED <<delegations, counts>>
                          ELSE Enter(d, counts[From[d]])
           /\ late' \in {late, late \union {d}}
           /\ UNCHANGED answer
  <2>1. counts[From[d]] \in 0 .. MaxPerNode /\ counts[From[d]] \in Nat
    BY <1>2, BoundsAssumption DEF DelegationInv, DelegationTypeOK
  <2>2. /\ fromCount' \in [Delegations -> 0 .. MaxPerNode] /\ late' \in SUBSET Delegations
        /\ fromCount'[d] = counts[From[d]] /\ \A e \in Delegations \ {d} : fromCount'[e] = fromCount[e]
    BY <1>4, <2>1 DEF DelegationInv, DelegationTypeOK
  <2>3. CASE useStore
    <3>1. phase' = [phase EXCEPT ![d] = "storing"] /\ UNCHANGED <<delegations, counts>>
      BY <1>4, <2>3
    <3>2. DelegationTypeOK'
      BY <1>1, <1>4, <2>2, <3>1 DEF DelegationInv, DelegationTypeOK
    <3>3. NoOrphans' /\ WaitingIsEntered' /\ CountsAreCovered'
      BY <1>1, <1>2, <3>1, <2>3
         DEF DelegationInv, DelegationTypeOK, NoOrphans, Running, WaitingIsEntered,
             CountsAreCovered
    <3>4. StoreIsAsked'
      BY <1>1, <1>4, <2>2, <2>3, <3>1 DEF DelegationInv, DelegationTypeOK, StoreIsAsked
    <3>5. WaitsForRegistered'
      BY <1>1, <3>1
         DEF DelegationInv, DelegationTypeOK, WaitsForRegistered, Target, Registry!Registered
    <3> QED BY <3>2, <3>3, <3>4, <3>5 DEF DelegationInv
  <2>4. CASE ~useStore
    <3>1. /\ delegations' \in SUBSET Delegations /\ delegations' = delegations \union {d}
          /\ counts' \in [Peers -> 0 .. MaxPerNode]
          /\ phase' = [phase EXCEPT ![d] = "next"] /\ CountsAreCovered'
      BY <1>1, <1>2, <1>4, <2>1, <2>4, EnterStep DEF DelegationInv
    <3>2. DelegationTypeOK'
      BY <1>1, <1>4, <2>2, <3>1 DEF DelegationInv, DelegationTypeOK
    <3>3. NoOrphans' /\ WaitingIsEntered'
      BY <1>1, <1>2, <3>1 DEF DelegationInv, DelegationTypeOK, NoOrphans, Running, WaitingIsEntered
    <3>4. StoreIsAsked'
      BY <1>1, <2>2, <3>1 DEF DelegationInv, DelegationTypeOK, StoreIsAsked
    <3>5. WaitsForRegistered'
      BY <1>1, <3>1
         DEF DelegationInv, DelegationTypeOK, WaitsForRegistered, Target, Registry!Registered
    <3> QED BY <3>1, <3>2, <3>3, <3>4, <3>5 DEF DelegationInv
  <2> QED BY <2>3, <2>4
<1> QED BY <1>3, <1>4 DEF Delegate

LEMMA StoreCreatedStep ==
  ASSUME DelegationInv, NEW d \in Delegations, StoreCreated(d), UNCHANGED useStore
  PROVE  DelegationInv'
<1>1. /\ phase[d] = "storing" /\ Enter(d, fromCount[d])
      /\ UNCHANGED <<useStore, nodes, attempt, reply, answer, late, aborted, fromCount, askedNodes,
                     failures, cooling>>
  BY DEF StoreCreated, breakers
<1>2. useStore /\ fromCount[d] \in Nat /\ fromCount[d] < MaxPerNode /\ d \notin delegations
  <2>1. fromCount[d] \in 0 .. MaxPerNode /\ MaxPerNode \in Nat
    BY BoundsAssumption DEF DelegationInv, DelegationTypeOK
  <2>2. useStore /\ fromCount[d] < MaxPerNode
    BY <1>1 DEF DelegationInv, StoreIsAsked
  <2>3. d \notin delegations
    BY <1>1 DEF DelegationInv, NoOrphans, Running
  <2> QED BY <2>1, <2>2, <2>3
<1>3. /\ delegations' \in SUBSET Delegations /\ delegations' = delegations \union {d}
      /\ counts' \in [Peers -> 0 .. MaxPerNode]
      /\ phase' = [phase EXCEPT ![d] = "next"] /\ CountsAreCovered'
  BY <1>1, <1>2, EnterStep DEF DelegationInv
<1>4. DelegationTypeOK'
  BY <1>1, <1>3 DEF DelegationInv, DelegationTypeOK
<1>5. NoOrphans' /\ WaitingIsEntered' /\ StoreIsAsked'
  BY <1>1, <1>3
     DEF DelegationInv, DelegationTypeOK, NoOrphans, Running, WaitingIsEntered, StoreIsAsked
<1>6. WaitsForRegistered'
  BY <1>1, <1>3
     DEF DelegationInv, DelegationTypeOK, WaitsForRegistered, Target, Registry!Registered
<1> QED BY <1>3, <1>4, <1>5, <1>6 DEF DelegationInv

LEMMA TryStep ==
  ASSUME DelegationInv, NEW d \in Delegations, Try(d), UNCHANGED useStore
  PROVE  DelegationInv'
<1>1. /\ phase[d] = "next" /\ attempt[d] <= Len(Route[d]) /\ d \notin aborted
      /\ UNCHANGED <<useStore, nodes, reply, answer, late, aborted, fromCount, delegations, counts>>
  BY DEF Try
<1>2. /\ d \in delegations /\ attempt[d] \in 1 .. Len(Route[d]) /\ Target(d) \in Peers
      /\ Len(Route[d]) \in Nat
  BY <1>1, RouteType DEF DelegationInv, DelegationTypeOK, NoOrphans, Running, Target
<1>3. failures' \in [Peers -> 0 .. Threshold] /\ cooling' \in SUBSET Peers
  <2>1. CASE RecordFailure(Target(d))
    <3>1. failures[Target(d)] \in 0 .. Threshold /\ Threshold \in Nat
      BY <1>2, BoundsAssumption DEF DelegationInv, DelegationTypeOK
    <3>2. (IF failures[Target(d)] < Threshold THEN failures[Target(d)] + 1
           ELSE failures[Target(d)]) \in 0 .. Threshold
      BY <3>1
    <3> QED BY <1>2, <2>1, <3>2 DEF RecordFailure, DelegationInv, DelegationTypeOK
  <2>2. CASE UNCHANGED breakers
    BY <2>2 DEF breakers, DelegationInv, DelegationTypeOK
  <2> QED BY <2>1, <2>2 DEF Try
<1>4. CASE Skip(d)
  <2>1. attempt' = [attempt EXCEPT ![d] = @ + 1] /\ UNCHANGED <<phase, askedNodes>>
    BY <1>4 DEF Skip
  <2>2. attempt'[d] \in 1 .. Len(Route[d]) + 1
        /\ \A e \in Delegations \ {d} : attempt'[e] = attempt[e]
    BY <1>2, <2>1 DEF DelegationInv, DelegationTypeOK
  <2>3. DelegationTypeOK'
    BY <1>1, <1>3, <2>1, <2>2 DEF DelegationInv, DelegationTypeOK
  <2>4. NoOrphans' /\ WaitingIsEntered' /\ StoreIsAsked' /\ CountsAreCovered'
    BY <1>1, <2>1, <2>2
       DEF DelegationInv, NoOrphans, Running, WaitingIsEntered, StoreIsAsked, CountsAreCovered
  <2>5. WaitsForRegistered'
    BY <1>1, <2>1, <2>2
       DEF DelegationInv, WaitsForRegistered, Target, Registry!Registered
  <2> QED BY <2>3, <2>4, <2>5 DEF DelegationInv
<1>5. CASE Ask(d) /\ nodes[Target(d)] = "alive"
  <2>1. /\ phase' = [phase EXCEPT ![d] = "waiting"] /\ UNCHANGED attempt
        /\ askedNodes' = [askedNodes EXCEPT ![d] = @ \union {Target(d)}]
    BY <1>5 DEF Ask
  <2>2. DelegationTypeOK'
    BY <1>1, <1>2, <1>3, <2>1 DEF DelegationInv, DelegationTypeOK
  <2>3. NoOrphans' /\ WaitingIsEntered' /\ StoreIsAsked' /\ CountsAreCovered'
    BY <1>1, <1>2, <2>1
       DEF DelegationInv, DelegationTypeOK, NoOrphans, Running, WaitingIsEntered, StoreIsAsked,
           CountsAreCovered
  <2>4. WaitsForRegistered'
    BY <1>1, <1>5, <2>1
       DEF DelegationInv, DelegationTypeOK, WaitsForRegistered, Target, Registry!Registered
  <2> QED BY <2>2, <2>3, <2>4 DEF DelegationInv
<1> QED BY <1>4, <1>5 DEF Try

-----------------------------------------------------------------------------
(* Those that end one, or its wait for a node:                              *)

LEMMA FinishStep ==
  ASSUME DelegationInv, NEW d \in Delegations, Finish(d), UNCHANGED useStore
  PROVE  DelegationInv'
<1>1. /\ phase[d] = "next" /\ Cleanup({d}) /\ phase' = [phase EXCEPT ![d] = "done"]
      /\ answer' = [answer EXCEPT ![d] = IF d \in aborted THEN "timeout" ELSE "failed"]
      /\ UNCHANGED <<useStore, nodes, attempt, reply, late, aborted, fromCount, askedNodes,
                     failures, cooling>>
  BY DEF Finish, breakers
<1>2. /\ delegations' \in SUBSET Delegations /\ delegations' = delegations \ {d}
      /\ counts' \in [Peers -> 0 .. MaxPerNode] /\ CountsAreCovered'
  BY <1>1, FS_Singleton, CleanupStep DEF DelegationInv
<1>3. DelegationTypeOK'
  BY <1>1, <1>2 DEF DelegationInv, DelegationTypeOK, Statuses
<1>4. NoOrphans' /\ WaitingIsEntered' /\ StoreIsAsked'
  BY <1>1, <1>2
     DEF DelegationInv, DelegationTypeOK, NoOrphans, Running, WaitingIsEntered, StoreIsAsked
<1>5. WaitsForRegistered'
  BY <1>1 DEF DelegationInv, DelegationTypeOK, WaitsForRegistered, Target, Registry!Registered
<1> QED BY <1>2, <1>3, <1>4, <1>5 DEF DelegationInv

LEMMA ResumeStep ==
  ASSUME DelegationInv, NEW d \in Delegations, Resume(d), UNCHANGED useStore
  PROVE  DelegationInv'
<1>1. phase[d] = "settled"
      /\ UNCHANGED <<useStore, nodes, reply, aborted, fromCount, askedNodes>>
  BY DEF Resume
<1>2. attempt[d] \in 1 .. Len(Route[d]) /\ Len(Route[d]) \in Nat /\ Target(d) \in Peers
  BY <1>1, RouteType DEF DelegationInv, DelegationTypeOK, WaitingIsEntered, Target
<1>3. CASE /\ RecordSuccess(Target(d)) /\ Cleanup({d})
           /\ phase' = [phase EXCEPT ![d] = "done"]
           /\ answer' = [answer EXCEPT ![d] = "completed"]
           /\ UNCHANGED <<attempt, late>>
  <2>1. /\ delegations' \in SUBSET Delegations /\ delegations' = delegations \ {d}
        /\ counts' \in [Peers -> 0 .. MaxPerNode] /\ CountsAreCovered'
    BY <1>1, <1>3, FS_Singleton, CleanupStep DEF DelegationInv
  <2>2. failures' \in [Peers -> 0 .. Threshold] /\ cooling' \in SUBSET Peers
    <3>1. 0 \in 0 .. Threshold
      BY BoundsAssumption
    <3> QED BY <1>3, <3>1 DEF RecordSuccess, DelegationInv, DelegationTypeOK
  <2>3. DelegationTypeOK'
    BY <1>1, <1>3, <2>1, <2>2 DEF DelegationInv, DelegationTypeOK, Statuses
  <2>4. NoOrphans' /\ WaitingIsEntered' /\ StoreIsAsked'
    BY <1>1, <1>3, <2>1
       DEF DelegationInv, DelegationTypeOK, NoOrphans, Running, WaitingIsEntered, StoreIsAsked
  <2>5. WaitsForRegistered'
    BY <1>1, <1>3
       DEF DelegationInv, DelegationTypeOK, WaitsForRegistered, Target, Registry!Registered
  <2> QED BY <2>1, <2>3, <2>4, <2>5 DEF DelegationInv
<1>4. CASE /\ RecordFailure(Target(d))
           /\ phase' = [phase EXCEPT ![d] = "next"]
           /\ attempt' = [attempt EXCEPT ![d] = @ + 1]
           /\ late' \in {late, late \union {d}}
           /\ UNCHANGED <<delegations, counts, answer>>
  <2>1. failures' \in [Peers -> 0 .. Threshold] /\ cooling' \in SUBSET Peers
    <3>1. failures[Target(d)] \in 0 .. Threshold /\ Threshold \in Nat
      BY <1>2, BoundsAssumption DEF DelegationInv, DelegationTypeOK
    <3>2. (IF failures[Target(d)] < Threshold THEN failures[Target(d)] + 1
           ELSE failures[Target(d)]) \in 0 .. Threshold
      BY <3>1
    <3> QED BY <1>2, <1>4, <3>2 DEF RecordFailure, DelegationInv, DelegationTypeOK
  <2>2. attempt'[d] \in 1 .. Len(Route[d]) + 1
        /\ \A e \in Delegations \ {d} : attempt'[e] = attempt[e]
    BY <1>2, <1>4 DEF DelegationInv, DelegationTypeOK
  <2>3. DelegationTypeOK'
    BY <1>1, <1>4, <2>1, <2>2 DEF DelegationInv, DelegationTypeOK
  <2>4. NoOrphans' /\ WaitingIsEntered' /\ StoreIsAsked' /\ CountsAreCovered'
    BY <1>1, <1>4, <2>2
       DEF DelegationInv, DelegationTypeOK, NoOrphans, Running, WaitingIsEntered, StoreIsAsked,
           CountsAreCovered
  <2>5. WaitsForRegistered'
    BY <1>1, <1>4, <2>2
       DEF DelegationInv, DelegationTypeOK, WaitsForRegistered, Target, Registry!Registered
  <2> QED BY <2>3, <2>4, <2>5 DEF DelegationInv
<1> QED BY <1>3, <1>4 DEF Resume

(* A wait that ends leaves the map alone; nothing begins to wait.           *)
LEMMA WaitEnds ==
  ASSUME DelegationInv, NEW S, NEW value \in {NoReply} \union [status : Statuses, node : Peers],
         Settle(S, value), aborted' \in SUBSET Delegations, aborted \subseteq aborted',
         askedNodes' \in [Delegations -> SUBSET Peers],
         UNCHANGED <<useStore, nodes, attempt, answer, late, fromCount, delegations, counts,
                     failures, cooling>>
  PROVE  DelegationInv'
<1>1. /\ phase' \in [Delegations -> {"idle", "storing", "next", "waiting", "settled", "done"}]
      /\ reply' \in [Delegations -> {NoReply} \union [status : Statuses, node : Peers]]
      /\ \A d \in Delegations :
           phase'[d] = IF d \in S /\ phase[d] = "waiting" THEN "settled" ELSE phase[d]
  BY SettleStep DEF DelegationInv
<1>2. DelegationTypeOK'
  BY <1>1 DEF DelegationInv, DelegationTypeOK
<1>3. NoOrphans' /\ WaitingIsEntered' /\ StoreIsAsked' /\ CountsAreCovered'
  BY <1>1 DEF DelegationInv, NoOrphans, Running, WaitingIsEntered, StoreIsAsked, CountsAreCovered
<1>4. WaitsForRegistered'
  BY <1>1 DEF DelegationInv, WaitsForRegistered, Target, Registry!Registered
<1> QED BY <1>2, <1>3, <1>4 DEF DelegationInv

(* The nodes that go take with them every delegation that waits for them.   *)
LEMMA CancelStep ==
  ASSUME DelegationInv, NEW S \in SUBSET delegations, CancelAll(S), UNCHANGED useStore,
         nodes' \in [Peers -> {"absent", "alive", "suspect"}],
         \A d \in delegations \ S :
           Target(d) \in Peers /\ nodes[Target(d)] # "absent" => nodes'[Target(d)] # "absent"
  PROVE  DelegationInv'
<1>1. /\ aborted' = aborted \union S /\ Settle(S, NoReply) /\ Cleanup(S)
      /\ UNCHANGED <<attempt, answer, late, fromCount, askedNodes, failures, cooling>>
  BY DEF CancelAll, breakers
<1>2. IsFiniteSet(S) /\ S \subseteq Delegations
  BY FS_Subset DEF DelegationInv, CountsAreCovered, DelegationTypeOK
<1>3. /\ phase' \in [Delegations -> {"idle", "storing", "next", "waiting", "settled", "done"}]
      /\ reply' \in [Delegations -> {NoReply} \union [status : Statuses, node : Peers]]
      /\ \A d \in Delegations :
           phase'[d] = IF d \in S /\ phase[d] = "waiting" THEN "settled" ELSE phase[d]
  BY <1>1, SettleStep DEF DelegationInv
<1>4. /\ delegations' \in SUBSET Delegations /\ delegations' = delegations \ S
      /\ counts' \in [Peers -> 0 .. MaxPerNode] /\ CountsAreCovered'
  BY <1>1, <1>2, CleanupStep DEF DelegationInv
<1>5. DelegationTypeOK'
  BY <1>1, <1>2, <1>3, <1>4 DEF DelegationInv, DelegationTypeOK
<1>6. NoOrphans' /\ WaitingIsEntered' /\ StoreIsAsked'
  BY <1>1, <1>3, <1>4 DEF DelegationInv, NoOrphans, Running, WaitingIsEntered, StoreIsAsked
<1>7. WaitsForRegistered'
  <2> SUFFICES ASSUME NEW d \in Delegations, phase'[d] = "waiting"
               PROVE  nodes'[Target(d)'] # "absent"
    BY DEF WaitsForRegistered, Registry!Registered
  <2>1. phase[d] = "waiting" /\ d \in delegations \ S /\ Target(d)' = Target(d)
    BY <1>1, <1>3 DEF DelegationInv, WaitingIsEntered, Target
  <2>2. nodes[Target(d)] # "absent" /\ Target(d) \in Peers
    <3>1. attempt[d] \in 1 .. Len(Route[d])
      <4>1. attempt[d] \in 1 .. Len(Route[d]) + 1 /\ attempt[d] <= Len(Route[d])
        BY <2>1 DEF DelegationInv, DelegationTypeOK, WaitingIsEntered
      <4> QED BY <4>1, RouteType
    <3>2. Target(d) \in Peers
      BY <3>1, RouteType DEF Target
    <3>3. nodes[Target(d)] # "absent"
      BY <2>1 DEF DelegationInv, WaitsForRegistered, Registry!Registered
    <3> QED BY <3>2, <3>3
  <2> QED BY <2>1, <2>2
<1> QED BY <1>4, <1>5, <1>6, <1>7 DEF DelegationInv

LEMMA DisposeStep ==
  ASSUME DelegationInv, DisposeDelegations, UNCHANGED useStore
  PROVE  DelegationInv'
<1>1. /\ aborted' = aborted \union delegations /\ Settle(delegations, NoReply)
      /\ delegations' = {} /\ counts' = [n \in Peers |-> 0]
      /\ UNCHANGED <<nodes, attempt, answer, late, fromCount, askedNodes, failures, cooling>>
  BY DEF DisposeDelegations, breakers
<1>2. /\ phase' \in [Delegations -> {"idle", "storing", "next", "waiting", "settled", "done"}]
      /\ reply' \in [Delegations -> {NoReply} \union [status : Statuses, node : Peers]]
      /\ \A d \in Delegations :
           phase'[d] = IF d \in delegations /\ phase[d] = "waiting" THEN "settled" ELSE phase[d]
  BY <1>1, SettleStep DEF DelegationInv
<1>3. counts' \in [Peers -> 0 .. MaxPerNode]
  BY <1>1, BoundsAssumption
<1>4. DelegationTypeOK'
  BY <1>1, <1>2, <1>3 DEF DelegationInv, DelegationTypeOK
<1>5. NoOrphans' /\ WaitingIsEntered' /\ StoreIsAsked' /\ WaitsForRegistered'
  BY <1>1, <1>2
     DEF DelegationInv, NoOrphans, Running, WaitingIsEntered, StoreIsAsked, WaitsForRegistered
<1>6. CountsAreCovered'
  <2>1. IsFiniteSet({}) /\ Cardinality({}) = 0 /\ MaxActive \in Nat
    BY FS_EmptySet, BoundsAssumption
  <2>2. \A n \in Peers : Of(n, {}) = {} /\ counts'[n] = 0
    BY <1>1 DEF Of
  <2> QED BY <1>1, <2>1, <2>2 DEF CountsAreCovered, Of
<1> QED BY <1>4, <1>5, <1>6 DEF DelegationInv

-----------------------------------------------------------------------------
LEMMA DelegationInvInit == DelegationInit => DelegationInv
<1> SUFFICES ASSUME DelegationInit PROVE DelegationInv
  OBVIOUS
<1>1. DelegationTypeOK
  <2>1. MaxPerNode \in Nat /\ Threshold \in Nat
    BY BoundsAssumption
  <2>2. \A d \in Delegations : attempt[d] \in 1 .. Len(Route[d]) + 1
    <3>1. \A d \in Delegations : attempt[d] = 1 /\ Len(Route[d]) \in Nat
      BY RouteType DEF DelegationInit
    <3> QED BY <3>1
  <2> QED BY <2>1, <2>2 DEF DelegationInit, DelegationTypeOK
<1>2. NoOrphans /\ WaitingIsEntered /\ StoreIsAsked /\ WaitsForRegistered
  BY DEF DelegationInit, NoOrphans, Running, WaitingIsEntered, StoreIsAsked, WaitsForRegistered
<1>3. CountsAreCovered
  <2>1. IsFiniteSet({}) /\ Cardinality({}) = 0 /\ MaxActive \in Nat
    BY FS_EmptySet, BoundsAssumption
  <2>2. \A n \in Peers : Of(n, {}) = {} /\ counts[n] = 0
    BY DEF Of, DelegationInit
  <2>3. delegations = {}
    BY DEF DelegationInit
  <2> QED BY <2>1, <2>2, <2>3 DEF CountsAreCovered
<1> QED BY <1>1, <1>2, <1>3 DEF DelegationInv

LEMMA DelegationInvStep ==
  DelegationInv /\ [DelegationNext]_delegationVars => DelegationInv'
<1> SUFFICES ASSUME DelegationInv, [DelegationNext]_delegationVars PROVE DelegationInv'
  OBVIOUS
<1> USE DEF breakers
<1>1. ASSUME NEW d \in Delegations, Step(d), UNCHANGED useStore PROVE DelegationInv'
  <2>1. CASE Delegate(d) \/ StoreCreated(d) \/ Try(d) \/ Finish(d) \/ Resume(d)
    BY <1>1, <2>1, DelegateStep, StoreCreatedStep, TryStep, FinishStep, ResumeStep
  <2>2. CASE NodeTimeout(d)
    <3>1. askedNodes' \in [Delegations -> SUBSET Peers] /\ aborted \in SUBSET Delegations
      BY <2>2 DEF NodeTimeout, DelegationInv, DelegationTypeOK
    <3> QED BY <1>1, <2>2, <3>1, WaitEnds DEF NodeTimeout
  <2>3. CASE OverallTimeout(d)
    <3>1. /\ askedNodes' \in [Delegations -> SUBSET Peers]
          /\ aborted' \in SUBSET Delegations /\ aborted \subseteq aborted'
      BY <2>3 DEF OverallTimeout, DelegationInv, DelegationTypeOK
    <3> QED BY <1>1, <2>3, <3>1, WaitEnds DEF OverallTimeout
  <2>4. CASE Cancel(d)
    <3>1. {d} \in SUBSET delegations /\ CancelAll({d}) /\ nodes' = nodes
      BY <2>4 DEF Cancel
    <3>2. nodes' \in [Peers -> {"absent", "alive", "suspect"}]
      BY <3>1 DEF DelegationInv, DelegationTypeOK
    <3> QED BY <1>1, <3>1, <3>2, CancelStep
  <2>5. ASSUME NEW n \in Peers, NEW status \in Statuses, Result(d, n, status)
        PROVE  DelegationInv'
    <3>1. /\ askedNodes' \in [Delegations -> SUBSET Peers]
          /\ aborted' = aborted /\ aborted \in SUBSET Delegations
      BY <2>5 DEF Result, DelegationInv, DelegationTypeOK
    <3>2. CASE Settle({d}, [status |-> status, node |-> n])
      BY <1>1, <2>5, <3>1, <3>2, WaitEnds DEF Result
    <3>3. CASE UNCHANGED <<phase, reply>>
      <4>1. DelegationTypeOK'
        BY <1>1, <2>5, <3>1, <3>3 DEF Result, DelegationInv, DelegationTypeOK
      <4>2. NoOrphans' /\ WaitingIsEntered' /\ StoreIsAsked' /\ CountsAreCovered'
        BY <1>1, <2>5, <3>3
           DEF Result, DelegationInv, NoOrphans, Running, WaitingIsEntered, StoreIsAsked,
               CountsAreCovered
      <4>3. WaitsForRegistered'
        BY <2>5, <3>3 DEF Result, DelegationInv, WaitsForRegistered, Target, Registry!Registered
      <4> QED BY <4>1, <4>2, <4>3 DEF DelegationInv
    <3> QED BY <2>5, <3>2, <3>3 DEF Result
  <2> QED BY <1>1, <2>1, <2>2, <2>3, <2>4, <2>5 DEF Step
<1>2. ASSUME NEW n \in Peers, NodeJoins(n) \/ Pong(n), UNCHANGED useStore
      PROVE  DelegationInv'
  <2>1. /\ nodes' \in [Peers -> {"absent", "alive", "suspect"}]
        /\ \A m \in Peers : nodes[m] # "absent" => nodes'[m] # "absent"
        /\ UNCHANGED <<progress, delegations, counts, breakers>>
    BY <1>2
       DEF NodeJoins, Pong, Registry!Register, Registry!MarkAlive, DelegationInv, DelegationTypeOK
  <2>2. DelegationTypeOK'
    BY <1>2, <2>1 DEF DelegationInv, DelegationTypeOK, progress
  <2>3. NoOrphans' /\ WaitingIsEntered' /\ StoreIsAsked' /\ CountsAreCovered'
    BY <1>2, <2>1
       DEF DelegationInv, NoOrphans, Running, WaitingIsEntered, StoreIsAsked, CountsAreCovered,
           progress
  <2>4. WaitsForRegistered'
    <3> SUFFICES ASSUME NEW d \in Delegations, phase'[d] = "waiting"
                 PROVE  nodes'[Target(d)'] # "absent"
      BY DEF WaitsForRegistered, Registry!Registered
    <3>1. phase[d] = "waiting" /\ Target(d)' = Target(d)
      BY <2>1 DEF Target, progress
    <3>2. nodes[Target(d)] # "absent" /\ Target(d) \in Peers
      BY <3>1, RouteType
         DEF DelegationInv, DelegationTypeOK, WaitingIsEntered, WaitsForRegistered, Target,
             Registry!Registered
    <3> QED BY <2>1, <3>1, <3>2
  <2> QED BY <2>2, <2>3, <2>4 DEF DelegationInv
<1>3. ASSUME NEW n \in Peers, NodeLeaves(n), UNCHANGED useStore PROVE DelegationInv'
  <2>1. CancelAll(Involving({n})) /\ Involving({n}) \in SUBSET delegations
    BY <1>3 DEF NodeLeaves, Involving
  <2>2. /\ nodes' \in [Peers -> {"absent", "alive", "suspect"}]
        /\ \A m \in Peers : m # n => nodes'[m] = nodes[m]
    BY <1>3 DEF NodeLeaves, Registry!Deregister, DelegationInv, DelegationTypeOK
  <2>3. \A d \in delegations \ Involving({n}) : Target(d) # n
    BY DEF Involving
  <2> QED BY <1>3, <2>1, <2>2, <2>3, CancelStep
<1>4. ASSUME HealthSweep, UNCHANGED useStore PROVE DelegationInv'
  <2>1. PICK expired \in SUBSET delegations : CancelAll(expired \union Involving(Registry!Dead))
    BY <1>4 DEF HealthSweep
  <2>2. expired \union Involving(Registry!Dead) \in SUBSET delegations
    BY DEF Involving
  <2>3. /\ nodes' \in [Peers -> {"absent", "alive", "suspect"}]
        /\ \A m \in Peers : nodes[m] # "absent" /\ m \notin Registry!Dead => nodes'[m] # "absent"
    BY <1>4
       DEF HealthSweep, Registry!SweepNodes, Registry!Dead, DelegationInv, DelegationTypeOK
  <2>4. \A d \in delegations \ (expired \union Involving(Registry!Dead)) :
          Target(d) \notin Registry!Dead
    BY DEF Involving
  <2> QED BY <1>4, <2>1, <2>2, <2>3, <2>4, CancelStep
<1>5. ASSUME NEW n \in Peers, Cooldown(n), UNCHANGED useStore PROVE DelegationInv'
  <2>1. cooling' \in SUBSET Peers
    BY <1>5 DEF Cooldown, DelegationInv, DelegationTypeOK
  <2>2. DelegationTypeOK'
    BY <1>5, <2>1 DEF Cooldown, progress, DelegationInv, DelegationTypeOK
  <2>3. NoOrphans' /\ WaitingIsEntered' /\ StoreIsAsked' /\ CountsAreCovered'
    BY <1>5
       DEF Cooldown, progress, DelegationInv, NoOrphans, Running, WaitingIsEntered, StoreIsAsked,
           CountsAreCovered
  <2>4. WaitsForRegistered'
    BY <1>5 DEF Cooldown, progress, DelegationInv, WaitsForRegistered, Target, Registry!Registered
  <2> QED BY <2>2, <2>3, <2>4 DEF DelegationInv
<1>6. CASE UNCHANGED delegationVars
  <2>1. DelegationTypeOK'
    BY <1>6 DEF delegationVars, progress, DelegationInv, DelegationTypeOK
  <2>2. NoOrphans' /\ WaitingIsEntered' /\ StoreIsAsked' /\ CountsAreCovered'
    BY <1>6
       DEF delegationVars, progress, DelegationInv, NoOrphans, Running, WaitingIsEntered,
           StoreIsAsked, CountsAreCovered
  <2>3. WaitsForRegistered'
    BY <1>6
       DEF delegationVars, progress, DelegationInv, WaitsForRegistered, Target,
           Registry!Registered
  <2> QED BY <2>1, <2>2, <2>3 DEF DelegationInv
<1> QED BY <1>1, <1>2, <1>3, <1>4, <1>5, <1>6, DisposeStep DEF DelegationNext

(* The variables of the delegation manager keep their types: counts never    *)
(* go below zero or above the limit of a node, and an attempt stays on its   *)
(* route or just behind it.                                                 *)
THEOREM DelegationTypeCorrect == DelegationSpec => []DelegationTypeOK
<1>1. DelegationInv => DelegationTypeOK
  BY DEF DelegationInv
<1> QED BY <1>1, DelegationInvInit, DelegationInvStep, PTL DEF DelegationSpec

(* Whoever ends a delegation, for any number of nodes, routes and           *)
(* delegations: the map holds those in progress and no others, and none     *)
(* waits for a node that has left.                                          *)
THEOREM DelegationsStayLive == DelegationSpec => []InProgressIsLive
<1>1. DelegationInv => InProgressIsLive
  BY DEF DelegationInv, InProgressIsLive
<1> QED BY <1>1, DelegationInvInit, DelegationInvStep, PTL DEF DelegationSpec

(* Without a store the count of a node is never above what it has in the    *)
(* map, and the gateway keeps to its total, although a cancelled delegation *)
(* is counted off twice.                                                    *)
THEOREM CountsStaySafe == DelegationSpec => []CountsAreSafe
<1>1. DelegationInv => CountsAreSafe
  BY DEF DelegationInv, CountsAreCovered, CountsAreSafe, Of
<1> QED BY <1>1, DelegationInvInit, DelegationInvStep, PTL DEF DelegationSpec

(* No step makes a delegation whose signal has fired ask another node.      *)
THEOREM AbortedStaysQuiet == DelegationSpec => AbortedIsQuiet
<1>1. DelegationInv /\ [DelegationNext]_delegationVars
        => [\A d \in aborted : askedNodes'[d] \subseteq askedNodes[d]]_delegationVars
  <2> SUFFICES ASSUME DelegationInv, DelegationNext, NEW d \in aborted
               PROVE  askedNodes'[d] \subseteq askedNodes[d]
    OBVIOUS
  <2>0. d \in Delegations /\ askedNodes \in [Delegations -> SUBSET Peers]
    BY DEF DelegationInv, DelegationTypeOK
  <2>1. ASSUME NEW e \in Delegations, Try(e) PROVE askedNodes'[d] \subseteq askedNodes[d]
    BY <2>0, <2>1 DEF Try, Skip, Ask
  <2>2. ASSUME NEW e \in Delegations, NEW n \in Peers, NEW status \in Statuses,
               Result(e, n, status)
        PROVE  askedNodes'[d] \subseteq askedNodes[d]
    BY <2>0, <2>2 DEF Result
  <2>3. ASSUME NEW e \in Delegations, Step(e) PROVE askedNodes'[d] \subseteq askedNodes[d]
    BY <2>1, <2>2, <2>3
       DEF Step, Delegate, StoreCreated, Finish, Resume, NodeTimeout, OverallTimeout, Cancel,
           CancelAll
  <2> QED BY <2>3
       DEF DelegationNext, NodeJoins, NodeLeaves, Pong, Cooldown, HealthSweep, DisposeDelegations,
           CancelAll, progress
<1> QED BY <1>1, DelegationInvInit, DelegationInvStep, PTL DEF DelegationSpec, AbortedIsQuiet

-----------------------------------------------------------------------------
(* Message buffers.  The ring: the slots from the head on, counted round.   *)

LEMMA SlotOf ==
  ASSUME NEW a \in Nat, a < 2 * Capacity
  PROVE  a % Capacity = IF a < Capacity THEN a ELSE a - Capacity
<1>1. CASE a < Capacity
  BY <1>1, LaneAssumption
<1>2. CASE a >= Capacity
  <2>1. a - Capacity \in Nat /\ a - Capacity < Capacity
    BY <1>2, LaneAssumption
  <2> QED BY <1>2, <2>1, LaneAssumption
<1> QED BY <1>1, <1>2, LaneAssumption

(* Within one round every slot is met once, and the round ends where it     *)
(* began.                                                                   *)
LEMMA SlotsDiffer ==
  ASSUME NEW h \in Slots, NEW i \in 0..(Capacity - 1), NEW j \in 0..(Capacity - 1)
  PROVE  /\ (h + i) % Capacity \in Slots
         /\ (h + i) % Capacity = (h + j) % Capacity => i = j
<1> DEFINE a == h + i
           b == h + j
<1>1. a \in Nat /\ a < 2 * Capacity /\ b \in Nat /\ b < 2 * Capacity
  BY LaneAssumption DEF Slots
<1>2. /\ a % Capacity = IF a < Capacity THEN a ELSE a - Capacity
      /\ b % Capacity = IF b < Capacity THEN b ELSE b - Capacity
  <2> HIDE DEF a, b
  <2> QED BY <1>1, SlotOf
<1> DEFINE x == a % Capacity
           y == b % Capacity
<1>3. x = (IF a < Capacity THEN a ELSE a - Capacity) /\ y = IF b < Capacity THEN b ELSE b - Capacity
  BY <1>2
<1> HIDE DEF x, y
<1>4. x \in Slots /\ (x = y => i = j)
  BY <1>3, LaneAssumption DEF Slots
<1> QED BY <1>4 DEF x, y

LEMMA NextSlot ==
  ASSUME NEW h \in Slots, NEW i \in 0..(Capacity - 1)
  PROVE  /\ (((h + i) % Capacity) + 1) % Capacity = (h + (i + 1)) % Capacity
         /\ (((h + 1) % Capacity) + i) % Capacity = (h + (i + 1)) % Capacity
         /\ (h + Capacity) % Capacity = h /\ (h + 0) % Capacity = h
<1> DEFINE C == Capacity
<1>0. C \in Nat \ {0} /\ h \in 0..(C - 1) /\ i \in 0..(C - 1)
  BY LaneAssumption DEF Slots
<1> HIDE DEF C
<1>1. \A a \in Nat : a < 2 * C => a % C = IF a < C THEN a ELSE a - C
  BY SlotOf DEF C
<1>2. (2 * C) % C = 0
  <2>1. 2 * C = C + C /\ (C + C) % C = C % C
    BY <1>0
  <2>2. C % C = C - C
    BY <1>0, <1>1
  <2> QED BY <2>1, <2>2, <1>0
<1>3. (h + C) % C = h /\ (h + 0) % C = h
  <2>1. /\ h + C \in Nat /\ h + C < 2 * C /\ ~(h + C < C) /\ (h + C) - C = h
        /\ h + 0 \in Nat /\ h + 0 < 2 * C /\ h + 0 < C /\ h + 0 = h
    BY <1>0
  <2> QED BY <2>1, <1>1
<1> DEFINE s == h + i
           t == h + (i + 1)
           u == h + 1
<1>4. /\ s \in Nat /\ s < 2 * C /\ t \in Nat /\ (t < 2 * C \/ t = 2 * C)
      /\ u \in Nat /\ (u < 2 * C \/ u = 2 * C)
  BY <1>0
<1>5. ((s % C) + 1) % C = t % C
  <2>1. CASE s < C
    <3>1. s % C = s /\ s + 1 = t
      BY <1>0, <1>1, <1>4, <2>1
    <3> QED BY <3>1
  <2>2. CASE ~(s < C)
    <3>1. s % C = s - C
      <4> HIDE DEF s
      <4> QED BY <1>1, <1>4, <2>2
    <3>2. (s - C) + 1 \in Nat /\ (s - C) + 1 < 2 * C /\ (s - C) + 1 = t - C
      BY <1>0, <2>2
    <3>3. CASE t < 2 * C
      <4>1. t % C = t - C /\ t - C < C /\ t - C \in Nat
        <5>1. t \in Nat /\ ~(t < C)
          BY <1>0, <2>2
        <5> HIDE DEF t
        <5> QED BY <1>0, <1>1, <3>3, <5>1
      <4>2. (t - C) % C = t - C
        <5> HIDE DEF t
        <5> QED BY <1>0, <1>1, <4>1
      <4> HIDE DEF t, s
      <4> QED BY <3>1, <3>2, <4>1, <4>2
    <3>4. CASE t = 2 * C
      <4>1. t - C = C /\ C % C = 0
        <5> HIDE DEF t
        <5> QED BY <3>4, <1>0, <1>1
      <4> HIDE DEF t, s
      <4> QED BY <1>2, <3>1, <3>2, <3>4, <4>1
    <3> QED BY <1>4, <3>3, <3>4
  <2> QED BY <2>1, <2>2
<1>6. ((u % C) + i) % C = t % C
  <2>1. CASE u < C
    <3>1. u % C = u /\ u + i = t
      BY <1>0, <1>1, <1>4, <2>1
    <3> QED BY <3>1
  <2>2. CASE ~(u < C)
    <3>1. u = C /\ C % C = 0 /\ t = C + i /\ i < C /\ i \in Nat
      BY <1>0, <1>1, <2>2
    <3>2. (C + i) % C = i /\ i % C = i
      <4>1. C + i \in Nat /\ C + i < 2 * C /\ ~(C + i < C) /\ (C + i) - C = i
            /\ i \in Nat /\ i < 2 * C /\ i < C
        BY <1>0, <3>1
      <4>2. (C + i) % C = i
        BY <1>1, <4>1
      <4>3. i % C = i
        BY <1>1, <4>1
      <4> QED BY <4>2, <4>3
    <3>3. 0 + i = i
      BY <3>1
    <3> HIDE DEF u, t
    <3> QED BY <3>1, <3>2, <3>3
  <2> QED BY <2>1, <2>2
<1> QED BY <1>3, <1>5, <1>6 DEF C

(* The items are those of the slots in turn; a queue that is full drops the *)
(* first of them before it takes one in.                                    *)
LEMMA RingItems ==
  ASSUME NEW S, EmptySlot \notin S, NEW q \in Rings(S), RingIsSound(q)
  PROVE  /\ Items(q) \in [1..q.count -> S]
         /\ \A s \in Slots : q.buffer[s] # EmptySlot <=>
              \E i \in 0..(q.count - 1) : s = (q.head + i) % Capacity
<1>1. /\ q.buffer \in [Slots -> S \union {EmptySlot}] /\ q.head \in Slots
      /\ q.count \in 0..Capacity /\ Capacity \in Nat \ {0}
  BY LaneAssumption DEF Rings
<1>2. \A i \in 0..(q.count - 1) : (q.head + i) % Capacity \in Slots
  <2> TAKE i \in 0..(q.count - 1)
  <2>1. i \in 0..(Capacity - 1)
    BY <1>1
  <2> QED BY <1>1, <2>1, SlotsDiffer
<1>3. \A s \in Slots : q.buffer[s] # EmptySlot <=>
              \E i \in 0..(q.count - 1) : s = (q.head + i) % Capacity
  <2>1. {s \in Slots : q.buffer[s] # EmptySlot} =
          {(q.head + i) % Capacity : i \in 0..(q.count - 1)}
    BY DEF RingIsSound
  <2> QED BY <2>1
<1>4. ASSUME NEW i \in 1..q.count PROVE q.buffer[(q.head + i - 1) % Capacity] \in S
  <2>1. i - 1 \in 0..(q.count - 1) /\ q.head + i - 1 = q.head + (i - 1)
    BY <1>1 DEF Slots
  <2>2. (q.head + i - 1) % Capacity = (q.head + (i - 1)) % Capacity
    BY <2>1
  <2> HIDE DEF Items
  <2>3. q.buffer[(q.head + (i - 1)) % Capacity] # EmptySlot
    BY <1>2, <1>3, <2>1
  <2> QED BY <1>1, <1>2, <2>1, <2>2, <2>3
<1> QED BY <1>3, <1>4 DEF Items

LEMMA RingTakes ==
  ASSUME NEW S, EmptySlot \notin S, NEW q \in Rings(S), RingIsSound(q), NEW e \in S
  PROVE  LET after == Enqueue(q, e) IN
         /\ after \in Rings(S) /\ RingIsSound(after)
         /\ after.count = IF IsFull(q) THEN q.count ELSE q.count + 1
         /\ \A i \in 1..after.count :
              Items(after)[i] = IF i = after.count THEN e
                                ELSE IF IsFull(q) THEN Items(q)[i + 1] ELSE Items(q)[i]
         /\ after.buffer = [q.buffer EXCEPT ![q.tail] = e]
         /\ q.tail \in Slots /\ q.buffer[q.tail] = Dropped(q)
<1> DEFINE after == Enqueue(q, e)
           C == Capacity
           Slot(i) == (q.head + i) % C
<1>0. C \in Nat \ {0}
  BY LaneAssumption
<1>1. /\ q.buffer \in [Slots -> S \union {EmptySlot}] /\ q.head \in Slots /\ q.tail \in Slots
      /\ q.count \in 0..C
      /\ q = [buffer |-> q.buffer, head |-> q.head, tail |-> q.tail, count |-> q.count]
  BY DEF Rings
<1>2. q.tail = Slot(q.count)
  BY DEF RingIsSound
<1>3. \A s \in Slots : q.buffer[s] # EmptySlot <=> \E i \in 0..(q.count - 1) : s = Slot(i)
  BY RingItems
<1>4. \A i \in 1..q.count : Items(q)[i] = q.buffer[Slot(i - 1)]
  <2> TAKE i \in 1..q.count
  <2>1. q.head + i - 1 = q.head + (i - 1)
    BY <1>1 DEF Slots
  <2>2. (q.head + i - 1) % C = Slot(i - 1)
    BY <2>1
  <2> QED BY <2>2 DEF Items
<1>5. /\ \A i \in 0..(C - 1) : Slot(i) \in Slots /\ ((Slot(i) + 1) % C) = Slot(i + 1)
      /\ \A i, j \in 0..(C - 1) : Slot(i) = Slot(j) => i = j
      /\ Slot(C) = q.head /\ Slot(0) = q.head
      /\ \A i \in 0..(C - 1) : (((q.head + 1) % C) + i) % C = Slot(i + 1)
  BY <1>0, <1>1, SlotsDiffer, NextSlot
<1>6. CASE ~IsFull(q)
  <2>1. q.count \in 0..(C - 1)
    BY <1>0, <1>1, <1>6 DEF IsFull
  <2>2. after = [buffer |-> [q.buffer EXCEPT ![q.tail] = e], head |-> q.head,
                 tail |-> (q.tail + 1) % C, count |-> q.count + 1]
    <3>1. DropOldest(q) = q
      BY <1>6 DEF DropOldest
    <3>2. after = [q EXCEPT !.buffer[q.tail] = e, !.tail = (@ + 1) % C, !.count = @ + 1]
      BY <3>1, Zenon DEF Enqueue
    <3> HIDE DEF after
    <3> QED BY <1>1, <3>2
  <2>3. (q.tail + 1) % C = Slot(q.count + 1) /\ Slot(q.count + 1) \in Slots
    <3>1. q.count + 1 = C => Slot(q.count + 1) \in Slots
      BY <1>1, <1>5
    <3>2. q.count + 1 # C => q.count + 1 \in 0..(C - 1)
      BY <1>0, <2>1
    <3> HIDE DEF Slot
    <3> QED BY <1>2, <1>5, <2>1, <3>1, <3>2
  <2> HIDE DEF Slot, after
  <2>4. after \in Rings(S)
    <3>1. q.count + 1 \in 0..C
      BY <1>0, <2>1
    <3> QED BY <1>1, <2>2, <2>3, <3>1 DEF Rings
  <2>5. q.buffer[q.tail] = EmptySlot
    <3> SUFFICES ASSUME NEW i \in 0..(q.count - 1), q.tail = Slot(i) PROVE FALSE
      BY <1>1, <1>3
    <3>1. i \in 0..(C - 1) /\ i # q.count
      BY <1>0, <2>1
    <3> QED BY <1>2, <1>5, <2>1, <3>1
  <2>6. RingIsSound(after)
    <3>1. ASSUME NEW s \in Slots
          PROVE  after.buffer[s] # EmptySlot <=> \E i \in 0..((q.count + 1) - 1) : s = Slot(i)
      <4>1. after.buffer[s] # EmptySlot <=> s = q.tail \/ \E i \in 0..(q.count - 1) : s = Slot(i)
        BY <1>1, <1>3, <2>2
      <4>2. 0..((q.count + 1) - 1) = 0..(q.count - 1) \union {q.count}
        BY <2>1
      <4> QED BY <1>2, <4>1, <4>2
    <3>2. \A i \in 0..((q.count + 1) - 1) : Slot(i) \in Slots
      BY <1>0, <1>5, <2>1
    <3>3. {s \in Slots : after.buffer[s] # EmptySlot} = {Slot(i) : i \in 0..((q.count + 1) - 1)}
      BY <3>1, <3>2
    <3>4. after.head = q.head /\ after.count = q.count + 1 /\ after.tail = Slot(q.count + 1)
      BY <2>2, <2>3
    <3> QED BY <3>3, <3>4 DEF RingIsSound, Slot
  <2>7. ASSUME NEW i \in 1..after.count
        PROVE  Items(after)[i] = IF i = after.count THEN e ELSE Items(q)[i]
    <3>1. after.count = q.count + 1 /\ after.head = q.head
      BY <2>2
    <3>2. Items(after)[i] = after.buffer[Slot(i - 1)]
      <4>1. q.head + i - 1 = q.head + (i - 1)
        BY <1>1, <3>1 DEF Slots
      <4>2. (q.head + i - 1) % C = Slot(i - 1)
        BY <4>1 DEF Slot
      <4> QED BY <3>1, <4>2 DEF Items
    <3>3. CASE i = after.count
      <4>1. i - 1 = q.count
        BY <2>1, <3>1, <3>3
      <4> QED BY <1>1, <1>2, <2>2, <3>2, <3>3, <4>1
    <3>4. CASE i # after.count
      <4>1. i \in 1..q.count /\ i - 1 \in 0..(C - 1) /\ i - 1 # q.count
        BY <1>0, <2>1, <3>1, <3>4
      <4>2. Slot(i - 1) # q.tail /\ Slot(i - 1) \in Slots
        BY <1>2, <1>5, <2>1, <4>1
      <4> QED BY <1>1, <1>4, <2>2, <3>2, <3>4, <4>1, <4>2
    <3> QED BY <3>3, <3>4
  <2> QED BY <1>1, <1>6, <2>2, <2>4, <2>5, <2>6, <2>7 DEF after, Dropped
<1>7. CASE IsFull(q)
  <2>1. q.count = C /\ q.tail = q.head
    BY <1>0, <1>1, <1>2, <1>5, <1>7 DEF IsFull
  <2>2. after = [buffer |-> [[q.buffer EXCEPT ![q.head] = EmptySlot] EXCEPT ![q.tail] = e],
                 head |-> (q.head + 1) % C, tail |-> (q.tail + 1) % C, count |-> q.count - 1 + 1]
    <3> DEFINE room == [q EXCEPT !.buffer[q.head] = EmptySlot, !.head = (@ + 1) % C,
                                 !.count = @ - 1]
    <3>1. DropOldest(q) = room
      BY <1>7, Zenon DEF DropOldest
    <3>2. room = [buffer |-> [q.buffer EXCEPT ![q.head] = EmptySlot],
                  head |-> (q.head + 1) % C, tail |-> q.tail, count |-> q.count - 1]
      <4>1. room = [q EXCEPT !.buffer = [q.buffer EXCEPT ![q.head] = EmptySlot],
                             !.head = (q.head + 1) % C, !.count = q.count - 1]
        BY Zenon
      <4> HIDE DEF room
      <4> QED BY <1>1, <4>1
    <3> HIDE DEF room
    <3>3. after = [room EXCEPT !.buffer[room.tail] = e, !.tail = (@ + 1) % C, !.count = @ + 1]
      BY <3>1, Zenon DEF Enqueue
    <3> HIDE DEF after
    <3> QED BY <3>2, <3>3
  <2>3. [[q.buffer EXCEPT ![q.head] = EmptySlot] EXCEPT ![q.tail] = e]
          = [q.buffer EXCEPT ![q.tail] = e]
    BY <1>1, <2>1
  <2>4. q.count - 1 + 1 = C
    BY <1>0, <2>1
  <2> DEFINE head == (q.head + 1) % C
  <2>5. after = [buffer |-> [q.buffer EXCEPT ![q.tail] = e], head |-> head, tail |-> head,
                 count |-> C]
    BY <2>1, <2>2, <2>3, <2>4
  <2>6. head \in Slots /\ Slot(1) = head /\ (head + C) % C = head
    <3>1. 0 \in 0..(C - 1) /\ 0 + 1 = 1
      BY <1>0
    <3>2. head = Slot(0 + 1)
      <4>1. (Slot(0) + 1) % C = Slot(0 + 1)
        <5>1. 0 \in 0..(C - 1)
          BY <1>0
        <5> HIDE DEF Slot
        <5> QED BY <1>5, <5>1
      <4> HIDE DEF Slot
      <4> QED BY <1>5, <4>1
    <3>3. head \in Slots
      <4>1. C = 1 \/ 1 \in 0..(C - 1)
        BY <1>0
      <4> HIDE DEF Slot, head
      <4>2. CASE C = 1
        BY <1>1, <1>5, <3>1, <3>2, <4>2
      <4>3. CASE 1 \in 0..(C - 1)
        BY <1>5, <3>1, <3>2, <4>3
      <4> QED BY <4>1, <4>2, <4>3
    <3>4. (head + C) % C = head
      <4>1. 0 \in 0..(C - 1)
        BY <1>0
      <4> HIDE DEF head
      <4> QED BY <3>3, <4>1, NextSlot
    <3> HIDE DEF Slot, head
    <3> QED BY <3>2, <3>3, <3>4
  <2> HIDE DEF after
  <2>7. after \in Rings(S)
    <3>1. C \in 0..C
      BY <1>0
    <3> HIDE DEF head
    <3> QED BY <1>1, <2>5, <2>6, <3>1 DEF Rings
  <2>8. \A i \in 0..(C - 1) : (head + i) % C = Slot(i + 1)
    BY <1>5
  <2>9. \A s \in Slots : q.buffer[s] # EmptySlot
    <3> SUFFICES ASSUME NEW s \in Slots PROVE \E i \in 0..(C - 1) : s = Slot(i)
      <4> HIDE DEF Slot
      <4> QED BY <1>3, <2>1
    <3> DEFINE i == IF s >= q.head THEN s - q.head ELSE s - q.head + C
    <3>1. i \in 0..(C - 1) /\ (q.head + i = s \/ q.head + i = s + C) /\ s \in 0..(C - 1)
      BY <1>0, <1>1 DEF Slots
    <3>2. CASE q.head + i = s
      <4>1. s \in Nat /\ s < 2 * C /\ s < C
        BY <1>0, <3>1
      <4>2. s % C = s
        BY <4>1, SlotOf
      <4> HIDE DEF i
      <4> QED BY <3>1, <3>2, <4>2
    <3>3. CASE q.head + i = s + C
      <4>1. s + C \in Nat /\ s + C < 2 * C /\ ~(s + C < C) /\ (s + C) - C = s
        BY <1>0, <3>1
      <4>2. (s + C) % C = s
        BY <4>1, SlotOf
      <4> HIDE DEF i
      <4> QED BY <3>1, <3>3, <4>2
    <3> QED BY <3>1, <3>2, <3>3
  <2>10. RingIsSound(after)
    <3>1. \A s \in Slots : after.buffer[s] # EmptySlot
      BY <1>1, <2>5, <2>9
    <3>2. ASSUME NEW s \in Slots PROVE \E i \in 0..(C - 1) : s = (head + i) % C
      <4>1. PICK j \in 0..(C - 1) : s = Slot(j)
        <5> HIDE DEF Slot
        <5> QED BY <1>3, <2>1, <2>9
      <4>2. CASE j = 0
        <5>1. s = Slot((C - 1) + 1) /\ C - 1 \in 0..(C - 1)
          <6>1. (C - 1) + 1 = C /\ C - 1 \in 0..(C - 1)
            BY <1>0
          <6> HIDE DEF Slot
          <6> QED BY <1>5, <4>1, <4>2, <6>1
        <5> HIDE DEF Slot, head
        <5> QED BY <2>8, <5>1
      <4>3. CASE j # 0
        <5>1. j - 1 \in 0..(C - 1) /\ (j - 1) + 1 = j
          BY <1>0, <4>3
        <5> HIDE DEF Slot, head
        <5> QED BY <2>8, <4>1, <5>1
      <4> QED BY <4>2, <4>3
    <3>3. \A i \in 0..(C - 1) : (head + i) % C \in Slots
      <4> HIDE DEF head
      <4> QED BY <2>6, SlotsDiffer
    <3> HIDE DEF head
    <3>4. {s \in Slots : after.buffer[s] # EmptySlot} = {(head + i) % C : i \in 0..(C - 1)}
      BY <3>1, <3>2, <3>3
    <3>5. after.head = head /\ after.count = C /\ after.tail = (head + C) % C
      BY <2>5, <2>6
    <3> QED BY <3>4, <3>5 DEF RingIsSound
  <2>11. ASSUME NEW i \in 1..after.count
        PROVE  Items(after)[i] = IF i = after.count THEN e ELSE Items(q)[i + 1]
    <3>1. after.count = C /\ after.head = head
      BY <2>5
    <3>2. Items(after)[i] = after.buffer[Slot(i)]
      <4>1. head + i - 1 = head + (i - 1) /\ i - 1 \in 0..(C - 1) /\ (i - 1) + 1 = i
        <5> HIDE DEF head
        <5> QED BY <1>0, <2>6, <3>1 DEF Slots
      <4>2. (head + i - 1) % C = Slot(i)
        <5> HIDE DEF head, Slot
        <5> QED BY <2>8, <4>1
      <4> HIDE DEF head
      <4> QED BY <3>1, <4>2 DEF Items
    <3> HIDE DEF head, Slot
    <3>3. CASE i = after.count
      BY <1>1, <1>5, <2>1, <2>5, <3>1, <3>2, <3>3
    <3>4. CASE i # after.count
      <4>1. i + 1 \in 1..q.count /\ i \in 0..(C - 1) /\ i # 0 /\ 0 \in 0..(C - 1) /\ (i + 1) - 1 = i
        BY <1>0, <2>1, <3>1, <3>4
      <4>2. Slot(i) # q.tail /\ Slot(i) \in Slots
        BY <1>5, <2>1, <4>1
      <4>3. Items(q)[i + 1] = q.buffer[Slot(i)]
        BY <1>4, <4>1
      <4> QED BY <1>1, <2>5, <3>2, <3>4, <4>2, <4>3
    <3> QED BY <3>3, <3>4
  <2> QED BY <1>1, <1>7, <2>1, <2>5, <2>7, <2>10, <2>11 DEF after, Dropped
<1> QED BY <1>6, <1>7

-----------------------------------------------------------------------------
(* Sorting what a buffer holds.  The entries are numbered in the order they *)
(* came and each is on the lane of its message; what is left of each lane,  *)
(* one lane after the other, is sorted already, so it is what the sort      *)
(* makes of them.                                                           *)
LaneEntries == [seq : Nat, lane : QUEUED_LANES, message : Messages]
Earlier == {p \in LaneEntries \X LaneEntries : p[1].seq < p[2].seq}
Drains  == {p \in LaneEntries \X LaneEntries : DrainsBefore(p[1], p[2])}
OffLane(l) == {e \in LaneEntries : e.lane # l}

LEMMA LanesAre ==
  /\ QUEUED_LANES = {"steer", "collect", "followup"}
  /\ LANE_PRIORITY["steer"] = 0 /\ LANE_PRIORITY["collect"] = 1 /\ LANE_PRIORITY["followup"] = 2
BY DEF QUEUED_LANES, LANE_PRIORITY

LEMMA DrainsOneWay ==
  \A x, y : <<x, y>> \in Drains => <<y, x>> \notin Drains /\ x # y
<1> SUFFICES ASSUME NEW x, NEW y, <<x, y>> \in Drains PROVE <<y, x>> \notin Drains /\ x # y
  OBVIOUS
<1>1. x \in LaneEntries /\ y \in LaneEntries /\ DrainsBefore(x, y)
  BY DEF Drains
<1>2. /\ x.seq \in Nat /\ LANE_PRIORITY[x.lane] \in Nat
      /\ y.seq \in Nat /\ LANE_PRIORITY[y.lane] \in Nat
  BY <1>1, LanesAre DEF LaneEntries
<1>3. ~DrainsBefore(y, x)
  BY <1>1, <1>2 DEF DrainsBefore
<1> QED BY <1>1, <1>3 DEF Drains

(* One lane of the entries.                                                 *)
LEMMA LaneIsDrained ==
  ASSUME NEW s \in Seq(LaneEntries), InOrder(s, Earlier), NEW l \in QUEUED_LANES
  PROVE  LET f == Filtered(s, OffLane(l)) IN
         /\ f \in Seq(LaneEntries) /\ InOrder(f, Drains)
         /\ Range(f) = {e \in Range(s) : e.lane = l}
<1> DEFINE f == Filtered(s, OffLane(l))
<1>1. f \in Seq(LaneEntries) /\ Range(f) = Range(s) \ OffLane(l) /\ InOrder(f, Earlier)
  BY FilteredOf
<1>2. Range(s) \subseteq LaneEntries
  BY RangeOf
<1>3. \A i \in 1..Len(f) : f[i] \in Range(f)
  BY <1>1, RangeOf
<1> HIDE DEF f
<1>4. Range(f) = {e \in Range(s) : e.lane = l}
  BY <1>1, <1>2 DEF OffLane
<1>5. ASSUME NEW i \in 1..Len(f), NEW j \in 1..Len(f), i < j PROVE <<f[i], f[j]>> \in Drains
  <2>1. <<f[i], f[j]>> \in Earlier
    BY <1>1, <1>5 DEF InOrder
  <2>2. f[i].lane = l /\ f[j].lane = l
    BY <1>3, <1>4
  <2> QED BY <2>1, <2>2 DEF Earlier, Drains, DrainsBefore
<1> QED BY <1>1, <1>4, <1>5 DEF InOrder, f

ByLane(s) == (Filtered(s, OffLane("steer")) \o Filtered(s, OffLane("collect")))
               \o Filtered(s, OffLane("followup"))

LEMMA ByLaneIsSorted ==
  ASSUME NEW s \in Seq(LaneEntries), InOrder(s, Earlier)
  PROVE  /\ ByLane(s) \in Seq(LaneEntries) /\ Range(ByLane(s)) = Range(s)
         /\ InOrder(ByLane(s), Drains)
<1> DEFINE a == Filtered(s, OffLane("steer"))
           b == Filtered(s, OffLane("collect"))
           c == Filtered(s, OffLane("followup"))
<1>1. /\ a \in Seq(LaneEntries) /\ InOrder(a, Drains)
      /\ Range(a) = {e \in Range(s) : e.lane = "steer"}
      /\ b \in Seq(LaneEntries) /\ InOrder(b, Drains)
      /\ Range(b) = {e \in Range(s) : e.lane = "collect"}
      /\ c \in Seq(LaneEntries) /\ InOrder(c, Drains)
      /\ Range(c) = {e \in Range(s) : e.lane = "followup"}
  BY LaneIsDrained, LanesAre
<1>2. Range(s) \subseteq LaneEntries
  BY RangeOf
<1>3. ASSUME NEW x \in Range(s), NEW y \in Range(s), LANE_PRIORITY[x.lane] < LANE_PRIORITY[y.lane]
      PROVE  <<x, y>> \in Drains
  BY <1>2, <1>3 DEF Drains, DrainsBefore
<1> HIDE DEF a, b, c
<1>4. /\ a \o b \in Seq(LaneEntries) /\ Range(a \o b) = Range(a) \union Range(b)
      /\ InOrder(a \o b, Drains)
  <2>1. ASSUME NEW x \in Range(a), NEW y \in Range(b) PROVE <<x, y>> \in Drains
    <3>1. x \in Range(s) /\ y \in Range(s) /\ x.lane = "steer" /\ y.lane = "collect"
      BY <1>1
    <3>2. LANE_PRIORITY[x.lane] < LANE_PRIORITY[y.lane]
      BY <3>1, LanesAre
    <3> QED BY <1>3, <3>1, <3>2
  <2> QED BY <1>1, <2>1, ConcatInOrder
<1>5. /\ (a \o b) \o c \in Seq(LaneEntries) /\ Range((a \o b) \o c) = Range(a \o b) \union Range(c)
      /\ InOrder((a \o b) \o c, Drains)
  <2>1. ASSUME NEW x \in Range(a \o b), NEW y \in Range(c) PROVE <<x, y>> \in Drains
    <3>1. /\ x \in Range(s) /\ x.lane \in {"steer", "collect"}
          /\ y \in Range(s) /\ y.lane = "followup"
      BY <1>1, <1>4
    <3>2. LANE_PRIORITY[x.lane] < LANE_PRIORITY[y.lane]
      BY <3>1, LanesAre
    <3> QED BY <1>3, <3>1, <3>2
  <2> QED BY <1>1, <1>4, <2>1, ConcatInOrder
<1>6. \A e \in Range(s) : e.lane \in {"steer", "collect", "followup"}
  BY <1>2, LanesAre DEF LaneEntries
<1>7. Range((a \o b) \o c) = Range(s)
  BY <1>1, <1>4, <1>5, <1>6
<1> QED BY <1>5, <1>7 DEF ByLane, a, b, c

(* No entry occurs twice, so each sorted list of them is as long as they    *)
(* are, and their places in it are an order.                                *)
LEMMA SortIsByLane ==
  ASSUME NEW s \in Seq(LaneEntries), InOrder(s, Earlier)
  PROVE  LET order == CHOOSE p \in [DOMAIN s -> DOMAIN s] : Sorts(p, s) IN
         /\ Len(ByLane(s)) = Len(s) /\ DOMAIN s = 1..Len(s)
         /\ \A i \in 1..Len(s) : s[order[i]] = ByLane(s)[i]
<1> DEFINE t == ByLane(s)
           N == Len(s)
<1>1. t \in Seq(LaneEntries) /\ Range(t) = Range(s) /\ InOrder(t, Drains)
  BY ByLaneIsSorted
<1>2. /\ N \in Nat /\ Len(t) \in Nat /\ DOMAIN s = 1..N
      /\ s \in [1..N -> LaneEntries] /\ t \in [1..Len(t) -> LaneEntries]
  BY <1>1, LenProperties
<1>3. \A i, j \in 1..N : s[i] = s[j] => i = j
  <2> SUFFICES ASSUME NEW i \in 1..N, NEW j \in 1..N, s[i] = s[j], i < j PROVE FALSE
    BY <1>2
  <2>1. <<s[i], s[j]>> \in Earlier
    BY DEF InOrder
  <2>2. s[i].seq \in Nat
    BY <1>2 DEF LaneEntries
  <2> QED BY <2>1, <2>2 DEF Earlier
<1>4. \A u \in Seq(LaneEntries) : InOrder(u, Drains) =>
        \A i, j \in 1..Len(u) : u[i] = u[j] => i = j
  <2> SUFFICES ASSUME NEW u \in Seq(LaneEntries), InOrder(u, Drains),
                      NEW i \in 1..Len(u), NEW j \in 1..Len(u), u[i] = u[j], i < j
               PROVE  FALSE
    <3>1. \A u \in Seq(LaneEntries) : Len(u) \in Nat
      BY LenProperties
    <3> QED BY <3>1
  <2>1. <<u[i], u[j]>> \in Drains
    BY DEF InOrder
  <2> QED BY <2>1, DrainsOneWay
<1> HIDE DEF t
<1>5. Len(t) = N
  <2>1. IsFiniteSet(Range(s)) /\ Cardinality(Range(s)) = N
    BY <1>2, <1>3, ListCounts
  <2>2. Cardinality(Range(t)) = Len(t)
    BY <1>1, <1>2, <1>4, ListCounts
  <2> QED BY <1>1, <2>1, <2>2
<1>6. \E p \in [DOMAIN s -> DOMAIN s] : Sorts(p, s)
  <2> DEFINE p == [i \in 1..N |-> CHOOSE k \in 1..N : s[k] = t[i]]
  <2>1. ASSUME NEW i \in 1..N PROVE \E k \in 1..N : s[k] = t[i]
    <3>1. t[i] \in Range(s)
      BY <1>1, <1>5, RangeOf
    <3> QED BY <3>1, RangeOf
  <2>2. \A i \in 1..N : p[i] \in 1..N /\ s[p[i]] = t[i]
    BY <2>1
  <2>3. p \in [1..N -> 1..N]
    BY <2>2
  <2> HIDE DEF p
  <2>4. Sorts(p, s)
    <3> SUFFICES ASSUME NEW i \in 1..N, NEW j \in 1..N, i < j PROVE DrainsBefore(s[p[i]], s[p[j]])
      BY <1>2 DEF Sorts
    <3>1. <<t[i], t[j]>> \in Drains
      BY <1>1, <1>5 DEF InOrder
    <3> QED BY <2>2, <3>1 DEF Drains
  <2> QED BY <1>2, <2>3, <2>4
<1> DEFINE order == CHOOSE p \in [DOMAIN s -> DOMAIN s] : Sorts(p, s)
<1>7. order \in [1..N -> 1..N] /\ Sorts(order, s)
  BY <1>2, <1>6
<1> HIDE DEF order
<1> DEFINE r == [i \in 1..N |-> s[order[i]]]
<1>8. r \in Seq(LaneEntries) /\ Len(r) = N
  <2>1. r \in [1..N -> LaneEntries]
    BY <1>2, <1>7
  <2>2. DOMAIN r = 1..N
    OBVIOUS
  <2> HIDE DEF r
  <2>3. r \in Seq(LaneEntries)
    BY <1>2, <2>1, SeqDef
  <2> QED BY <1>2, <2>2, <2>3, LenProperties
<1>9. InOrder(r, Drains)
  <2> SUFFICES ASSUME NEW i \in 1..N, NEW j \in 1..N, i < j
               PROVE  <<s[order[i]], s[order[j]]>> \in Drains
    BY <1>8 DEF InOrder
  <2>1. DrainsBefore(s[order[i]], s[order[j]])
    BY <1>2, <1>7 DEF Sorts
  <2>2. s[order[i]] \in LaneEntries /\ s[order[j]] \in LaneEntries
    BY <1>2, <1>7
  <2> QED BY <2>1, <2>2 DEF Drains
<1>10. Range(r) = Range(s)
  <2>1. \A i, j \in 1..N : order[i] = order[j] => i = j
    <3>1. \A i, j \in 1..N : r[i] = r[j] => i = j
      BY <1>4, <1>8, <1>9
    <3> QED BY <3>1
  <2>2. order \in Injection(1..N, 1..N)
    BY <1>7, <2>1 DEF Injection, IsInjective
  <2>3. IsFiniteSet(1..N)
    BY <1>2, FS_Interval
  <2>4. order \in Surjection(1..N, 1..N)
    BY <2>2, <2>3, FS_Injection
  <2>5. \A k \in 1..N : \E i \in 1..N : order[i] = k
    BY <2>4 DEF Surjection
  <2>6. DOMAIN r = 1..N /\ \A i \in 1..N : r[i] = s[order[i]]
    OBVIOUS
  <2>7. Range(r) = {s[order[i]] : i \in 1..N}
    <3> HIDE DEF r
    <3> QED BY <2>6 DEF Range
  <2>8. Range(s) = {s[k] : k \in 1..N}
    BY <1>2 DEF Range
  <2>9. \A i \in 1..N : order[i] \in 1..N
    BY <1>7
  <2>10. {s[order[i]] : i \in 1..N} = {s[k] : k \in 1..N}
    BY <2>5, <2>9
  <2> HIDE DEF r
  <2> QED BY <2>7, <2>8, <2>10
<1>11. r = t
  <2> HIDE DEF r
  <2> QED BY <1>1, <1>8, <1>9, <1>10, DrainsOneWay, OneOrder
<1>12. \A i \in 1..N : s[order[i]] = t[i]
  BY <1>11
<1> QED BY <1>2, <1>5, <1>12 DEF t, order

-----------------------------------------------------------------------------
(* What holds of a buffer: its entries are numbered in the order in which   *)
(* they are listed, each is on the lane of its message, and the counter of  *)
(* a lane counts the slots that hold an entry of it.                        *)
OnLane(q, l) == {s \in Slots : q.buffer[s] # EmptySlot /\ q.buffer[s].lane = l}

BufferIsTrue(b) ==
  /\ RingIsSound(b.queue)
  /\ \A i \in 1..b.queue.count :
       /\ Items(b.queue)[i].seq < b.seq
       /\ Items(b.queue)[i].lane = Lane(Items(b.queue)[i].message)
  /\ \A i, j \in 1..b.queue.count : i < j => Items(b.queue)[i].seq < Items(b.queue)[j].seq
  /\ \A l \in QUEUED_LANES : b.laneCounts[l] = Cardinality(OnLane(b.queue, l))

LEMMA OnLaneIsFinite ==
  ASSUME NEW q, NEW l
  PROVE  IsFiniteSet(OnLane(q, l)) /\ Cardinality(OnLane(q, l)) \in 0..Capacity
<1>1. Capacity \in Nat \ {0}
  BY LaneAssumption
<1>2. IsFiniteSet(Slots) /\ Cardinality(Slots) = Capacity
  BY <1>1, FS_Interval DEF Slots
<1>3. OnLane(q, l) \subseteq Slots
  BY DEF OnLane
<1>4. IsFiniteSet(OnLane(q, l)) /\ Cardinality(OnLane(q, l)) <= Capacity
  BY <1>2, <1>3, FS_Subset
<1> QED BY <1>1, <1>4, FS_CardinalityType

LEMMA NewIsTrue ==
  ASSUME NEW n \in LaneNodes
  PROVE  /\ NewBuffer \in Buffers(n) /\ BufferIsTrue(NewBuffer)
         /\ NewQueue \in Rings(Entries(n)) /\ Waiting(NewBuffer) = <<>>
<1>1. Capacity \in Nat \ {0} /\ MaxSeq[n] \in Nat
  BY LaneAssumption
<1>2. 0 \in Slots /\ 0 \in 0..Capacity /\ 0 % Capacity = 0
  BY <1>1, NextSlot DEF Slots
<1>3. NewQueue \in Rings(Entries(n))
  BY <1>2 DEF NewQueue, Rings
<1>4. RingIsSound(NewQueue)
  <2>1. 0..(0 - 1) = {} /\ 0 + 0 = 0
    OBVIOUS
  <2>2. NewQueue.tail = 0 /\ NewQueue.head = 0 /\ NewQueue.count = 0
        /\ \A s \in Slots : NewQueue.buffer[s] = EmptySlot
    BY DEF NewQueue
  <2> QED BY <1>2, <2>1, <2>2 DEF RingIsSound
<1>5. NewBuffer \in Buffers(n)
  BY <1>1, <1>2, <1>3 DEF NewBuffer, Buffers
<1>6. \A l \in QUEUED_LANES : NewBuffer.laneCounts[l] = Cardinality(OnLane(NewBuffer.queue, l))
  <2> TAKE l \in QUEUED_LANES
  <2>1. OnLane(NewBuffer.queue, l) = {}
    BY DEF OnLane, NewBuffer, NewQueue
  <2> QED BY <2>1, FS_EmptySet DEF NewBuffer
<1>7. NewBuffer.queue = NewQueue /\ NewQueue.count = 0 /\ \A i \in 1..0 : FALSE
  BY DEF NewBuffer, NewQueue
<1>8. BufferIsTrue(NewBuffer)
  BY <1>4, <1>6, <1>7 DEF BufferIsTrue
<1>9. Waiting(NewBuffer) = <<>>
  <2>1. Waiting(NewBuffer) \in [1..0 -> Messages]
    BY <1>7 DEF Waiting
  <2>2. Waiting(NewBuffer) \in Seq(Messages) /\ DOMAIN Waiting(NewBuffer) = 1..0
    BY <2>1, SeqDef
  <2>3. Len(Waiting(NewBuffer)) = 0
    BY <2>2, LenProperties
  <2> QED BY <2>2, <2>3, EmptySeq
<1> QED BY <1>3, <1>5, <1>8, <1>9

(* The entries of a buffer, and the messages that wait in it.               *)
LEMMA EntriesAre ==
  ASSUME NEW n \in LaneNodes, NEW b \in Buffers(n), BufferIsTrue(b)
  PROVE  /\ Items(b.queue) \in Seq(LaneEntries) /\ Len(Items(b.queue)) = b.queue.count
         /\ InOrder(Items(b.queue), Earlier)
         /\ Waiting(b) \in Seq(Messages) /\ Len(Waiting(b)) = b.queue.count
         /\ \A i \in 1..b.queue.count :
              /\ Items(b.queue)[i] \in Entries(n) /\ Waiting(b)[i] = Items(b.queue)[i].message
              /\ Items(b.queue)[i].lane = Lane(Items(b.queue)[i].message)
<1> DEFINE s == Items(b.queue)
           N == b.queue.count
<1>1. b.queue \in Rings(Entries(n)) /\ N \in Nat
  BY LaneAssumption DEF Buffers, Rings
<1>2. s \in [1..N -> Entries(n)]
  BY <1>1, LaneAssumption, RingItems DEF BufferIsTrue
<1>3. Entries(n) \subseteq LaneEntries
  BY LaneAssumption DEF Entries, LaneEntries
<1>4. s \in [1..N -> LaneEntries] /\ Waiting(b) \in [1..N -> Messages]
  BY <1>2, <1>3 DEF Waiting, Entries
<1>5. /\ s \in Seq(LaneEntries) /\ DOMAIN s = 1..N
      /\ Waiting(b) \in Seq(Messages) /\ DOMAIN Waiting(b) = 1..N
  <2> HIDE DEF s, N
  <2> QED BY <1>1, <1>4, SeqDef
<1>6. Len(s) = N /\ Len(Waiting(b)) = N
  <2> HIDE DEF s, N
  <2> QED BY <1>1, <1>5, LenProperties
<1>7. InOrder(s, Earlier)
  BY <1>4, <1>6 DEF InOrder, Earlier, BufferIsTrue
<1> QED BY <1>2, <1>5, <1>6, <1>7 DEF Waiting, BufferIsTrue

(* MessageBuffer.dispatch takes a message in as the queue would.            *)
LEMMA DispatchIsAccept ==
  ASSUME NEW n \in LaneNodes, NEW b \in Buffers(n), BufferIsTrue(b), b.seq < MaxSeq[n],
         NEW m \in Messages, Lane(m) # Interrupt
  PROVE  /\ Dispatch(b, m) \in Buffers(n) /\ BufferIsTrue(Dispatch(b, m))
         /\ Waiting(Dispatch(b, m)) = Queues!LastOf(Append(Waiting(b), m))
<1> DEFINE q == b.queue
           e == [seq |-> b.seq, lane |-> Lane(m), message |-> m]
           after == Enqueue(q, e)
           dropped == Dropped(q)
           Off(l) == IF dropped # EmptySlot /\ dropped.lane = l THEN 1 ELSE 0
           On(l) == IF Lane(m) = l THEN 1 ELSE 0
           counters == [l \in QUEUED_LANES |-> b.laneCounts[l] - Off(l) + On(l)]
           d == Dispatch(b, m)
<1>0. Capacity \in Nat \ {0} /\ MaxSeq[n] \in Nat /\ EmptySlot \notin Entries(n)
  BY LaneAssumption
<1>1. d = [queue |-> after, seq |-> b.seq + 1, laneCounts |-> counters]
  BY Zenon DEF Dispatch
<1>2. /\ q \in Rings(Entries(n)) /\ b.seq \in 0..MaxSeq[n]
      /\ b.laneCounts \in [QUEUED_LANES -> 0..Capacity]
      /\ RingIsSound(q)
  BY DEF Buffers, BufferIsTrue
<1>3. Lane(m) \in QUEUED_LANES
  BY LaneAssumption DEF Lane
<1>4. e \in Entries(n)
  BY <1>0, <1>2, <1>3 DEF Entries
<1> HIDE DEF e
<1>5. /\ after \in Rings(Entries(n)) /\ RingIsSound(after)
      /\ after.count = IF IsFull(q) THEN q.count ELSE q.count + 1
      /\ \A i \in 1..after.count :
              Items(after)[i] = IF i = after.count THEN e
                                ELSE IF IsFull(q) THEN Items(q)[i + 1] ELSE Items(q)[i]
      /\ after.buffer = [q.buffer EXCEPT ![q.tail] = e]
      /\ q.tail \in Slots /\ q.buffer[q.tail] = dropped
  BY <1>0, <1>2, <1>4, RingTakes
<1>6. /\ q.count \in 0..Capacity /\ (IsFull(q) <=> q.count = Capacity)
      /\ q.buffer \in [Slots -> Entries(n) \union {EmptySlot}]
  BY <1>0, <1>2 DEF Rings, IsFull
<1>7. e.seq = b.seq /\ e.lane = Lane(m) /\ e.message = m
  BY DEF e
<1> HIDE DEF after, q, dropped
<1>8. ASSUME NEW l \in QUEUED_LANES
      PROVE  counters[l] = Cardinality(OnLane(after, l)) /\ counters[l] \in 0..Capacity
  <2> DEFINE A == OnLane(q, l)
             B == A \ {q.tail}
  <2>1. IsFiniteSet(A) /\ Cardinality(A) = b.laneCounts[l] /\ Cardinality(A) \in Nat
    BY OnLaneIsFinite, FS_CardinalityType DEF BufferIsTrue, q
  <2>2. q.tail \in A <=> dropped # EmptySlot /\ dropped.lane = l
    BY <1>5 DEF OnLane
  <2>3. OnLane(after, l) = IF Lane(m) = l THEN B \union {q.tail} ELSE B
    BY <1>0, <1>4, <1>5, <1>6, <1>7 DEF OnLane
  <2> HIDE DEF A
  <2>4. IsFiniteSet(B) /\ Cardinality(B) = Cardinality(A) - Off(l)
    <3>1. Off(l) = IF q.tail \in A THEN 1 ELSE 0
      BY <2>2
    <3>2. /\ IsFiniteSet(B)
          /\ Cardinality(B) = IF q.tail \in A THEN Cardinality(A) - 1 ELSE Cardinality(A)
      BY <2>1, FS_RemoveElement
    <3> QED BY <2>1, <3>1, <3>2
  <2>5. q.tail \notin B
    OBVIOUS
  <2> HIDE DEF B
  <2>6. Cardinality(B \union {q.tail}) = Cardinality(B) + 1
    BY <2>4, <2>5, FS_AddElement
  <2>7. Cardinality(OnLane(after, l)) = Cardinality(A) - Off(l) + On(l)
    BY <2>1, <2>3, <2>4, <2>6
  <2>8. counters[l] = Cardinality(OnLane(after, l))
    BY <2>1, <2>7
  <2> QED BY <2>8, OnLaneIsFinite
<1>9. counters \in [QUEUED_LANES -> 0..Capacity]
  BY <1>8
<1>10. b.seq + 1 \in 0..MaxSeq[n]
  BY <1>0, <1>2
<1>11. /\ d \in Buffers(n) /\ d.queue = after /\ d.seq = b.seq + 1 /\ d.laneCounts = counters
  <2> HIDE DEF d, counters
  <2> QED BY <1>1, <1>5, <1>9, <1>10 DEF Buffers
<1>12. ASSUME NEW i \in 1..q.count
       PROVE  /\ Items(q)[i].seq < b.seq /\ Items(q)[i].seq \in Nat
              /\ Items(q)[i].lane = Lane(Items(q)[i].message)
              /\ \A j \in 1..q.count : i < j => Items(q)[i].seq < Items(q)[j].seq
  <2>1. Items(q)[i] \in Entries(n)
    BY EntriesAre DEF q
  <2>2. Items(q)[i].seq \in Nat
    BY <1>0, <2>1 DEF Entries
  <2> QED BY <2>2 DEF BufferIsTrue, q
<1>13. BufferIsTrue(d)
  <2>1. ASSUME NEW i \in 1..after.count
        PROVE  /\ Items(after)[i].seq < b.seq + 1
               /\ Items(after)[i].lane = Lane(Items(after)[i].message)
    <3>1. CASE i = after.count
      BY <1>2, <1>5, <1>7, <3>1
    <3>2. CASE i # after.count /\ IsFull(q)
      <4>1. i + 1 \in 1..q.count
        BY <1>5, <1>6, <3>2
      <4> QED BY <1>2, <1>5, <1>12, <3>2, <4>1
    <3>3. CASE i # after.count /\ ~IsFull(q)
      <4>1. i \in 1..q.count
        BY <1>5, <1>6, <3>3
      <4> QED BY <1>2, <1>5, <1>12, <3>3, <4>1
    <3> QED BY <3>1, <3>2, <3>3
  <2>2. ASSUME NEW i \in 1..after.count, NEW j \in 1..after.count, i < j
        PROVE  Items(after)[i].seq < Items(after)[j].seq
    <3>0. i # after.count
      BY <1>5, <1>6, <2>2
    <3>1. CASE IsFull(q)
      <4>1. i + 1 \in 1..q.count /\ Items(after)[i] = Items(q)[i + 1]
        BY <1>5, <1>6, <3>0, <3>1
      <4>2. CASE j = after.count
        BY <1>5, <1>7, <1>12, <4>1, <4>2
      <4>3. CASE j # after.count
        <5>1. j + 1 \in 1..q.count /\ Items(after)[j] = Items(q)[j + 1] /\ i + 1 < j + 1
          BY <1>5, <1>6, <2>2, <3>1, <4>3
        <5> QED BY <1>12, <4>1, <5>1
      <4> QED BY <4>2, <4>3
    <3>2. CASE ~IsFull(q)
      <4>1. i \in 1..q.count /\ Items(after)[i] = Items(q)[i]
        BY <1>5, <1>6, <3>0, <3>2
      <4>2. CASE j = after.count
        BY <1>5, <1>7, <1>12, <4>1, <4>2
      <4>3. CASE j # after.count
        <5>1. j \in 1..q.count /\ Items(after)[j] = Items(q)[j]
          BY <1>5, <1>6, <3>2, <4>3
        <5> QED BY <1>12, <2>2, <4>1, <5>1
      <4> QED BY <4>2, <4>3
    <3> QED BY <3>1, <3>2
  <2> HIDE DEF d, counters
  <2> QED BY <1>5, <1>8, <1>11, <2>1, <2>2 DEF BufferIsTrue
<1>14. Waiting(d) = Queues!LastOf(Append(Waiting(b), m))
  <2> DEFINE w == Waiting(b)
             v == Append(w, m)
             last == Queues!LastOf(v)
  <2>1. /\ w \in Seq(Messages) /\ Len(w) = q.count
        /\ \A i \in 1..q.count : w[i] = Items(q)[i].message
    BY EntriesAre DEF q
  <2>2. /\ Waiting(d) \in Seq(Messages) /\ Len(Waiting(d)) = after.count
        /\ \A i \in 1..after.count : Waiting(d)[i] = Items(after)[i].message
    <3> HIDE DEF d
    <3> QED BY <1>11, <1>13, EntriesAre
  <2>3. /\ v \in Seq(Messages) /\ Len(v) = q.count + 1 /\ v[q.count + 1] = m
        /\ \A i \in 1..q.count : v[i] = w[i]
    <3> HIDE DEF w
    <3> QED BY <2>1, AppendProperties
  <2> HIDE DEF w, v, d
  <2>4. last = IF IsFull(q) THEN Tail(v) ELSE v
    BY <1>0, <1>6, <2>3 DEF Queues!LastOf
  <2> HIDE DEF last
  <2>5. CASE IsFull(q)
    <3>1. v # <<>>
      BY <1>6, <2>3
    <3>2. /\ Tail(v) \in Seq(Messages) /\ Len(Tail(v)) = q.count
          /\ \A i \in 1..q.count : Tail(v)[i] = v[i + 1]
      <4>1. /\ Tail(v) \in Seq(Messages) /\ Len(Tail(v)) = Len(v) - 1
            /\ \A i \in 1..Len(Tail(v)) : Tail(v)[i] = v[i + 1]
        BY <2>3, <3>1, HeadTailProperties
      <4> QED BY <1>6, <2>3, <4>1
    <3>3. ASSUME NEW i \in 1..q.count PROVE Waiting(d)[i] = Tail(v)[i]
      <4>1. CASE i = q.count
        BY <1>5, <1>7, <2>2, <2>3, <2>5, <3>2, <4>1
      <4>2. CASE i # q.count
        <5>1. i + 1 \in 1..q.count
          BY <1>6, <4>2
        <5>2. Waiting(d)[i] = Items(after)[i].message
          BY <1>5, <2>2, <2>5
        <5>3. Items(after)[i] = Items(q)[i + 1]
          BY <1>5, <2>5, <4>2
        <5>4. Tail(v)[i] = v[i + 1]
          BY <3>2
        <5> QED BY <2>1, <2>3, <5>1, <5>2, <5>3, <5>4
      <4> QED BY <4>1, <4>2
    <3>4. Waiting(d) = Tail(v)
      BY <1>5, <2>2, <2>5, <3>2, <3>3, SeqEqual
    <3> QED BY <2>4, <2>5, <3>4 DEF last, v, w
  <2>6. CASE ~IsFull(q)
    <3>1. ASSUME NEW i \in 1..(q.count + 1) PROVE Waiting(d)[i] = v[i]
      <4>1. CASE i = q.count + 1
        BY <1>5, <1>7, <2>2, <2>3, <2>6, <4>1
      <4>2. CASE i # q.count + 1
        <5>1. i \in 1..q.count
          BY <1>6, <4>2
        <5>2. Waiting(d)[i] = Items(after)[i].message
          BY <1>5, <2>2, <2>6
        <5>3. Items(after)[i] = Items(q)[i]
          BY <1>5, <2>6, <4>2
        <5> QED BY <2>1, <2>3, <5>1, <5>2, <5>3
      <4> QED BY <4>1, <4>2
    <3>2. Waiting(d) = v
      BY <1>5, <2>2, <2>3, <2>6, <3>1, SeqEqual
    <3> QED BY <2>4, <2>6, <3>2 DEF last, v, w
  <2> QED BY <2>5, <2>6
<1> QED BY <1>11, <1>13, <1>14 DEF d

(* drain hands over the messages that wait, lane by lane.                   *)
LEMMA DrainIsByPriority ==
  ASSUME NEW n \in LaneNodes, NEW b \in Buffers(n), BufferIsTrue(b)
  PROVE  /\ DrainOrder(b) = Queues!ByPriority(Waiting(b))
         /\ DrainOrder(b) \in Seq(Messages)
<1> DEFINE s == Items(b.queue)
           w == Waiting(b)
           N == b.queue.count
           In(l) == Queues!InLane(w, l)
           On(l) == Filtered(s, OffLane(l))
           g == [e \in LaneEntries |-> e.message]
<1>1. /\ s \in Seq(LaneEntries) /\ Len(s) = N /\ InOrder(s, Earlier)
      /\ w \in Seq(Messages) /\ Len(w) = N /\ N \in Nat
      /\ \A i \in 1..N : w[i] = s[i].message /\ s[i].lane = Lane(s[i].message)
                          /\ s[i] \in LaneEntries /\ w[i] \in Messages
  <2>1. /\ s \in Seq(LaneEntries) /\ Len(s) = N /\ InOrder(s, Earlier)
        /\ w \in Seq(Messages) /\ Len(w) = N
        /\ \A i \in 1..N : w[i] = s[i].message /\ s[i].lane = Lane(s[i].message)
    BY EntriesAre
  <2> HIDE DEF s, w, N
  <2> QED BY <2>1, ElementOfSeq, LenProperties
<1> HIDE DEF s, w, N
<1>2. ASSUME NEW l
      PROVE  /\ On(l) \in Seq(LaneEntries) /\ In(l) \in Seq(Messages) /\ Len(In(l)) = Len(On(l))
             /\ \A i \in 1..Len(On(l)) : In(l)[i] = On(l)[i].message
  <2> DEFINE left == {m \in Messages : Lane(m) # l}
             gone == OffLane(l)
  <2>1. \A i \in 1..Len(s) : w[i] = g[s[i]] /\ (w[i] \in left <=> s[i] \in gone)
    BY <1>1 DEF OffLane
  <2>2. In(l) = Filtered(w, left)
    BY Zenon DEF Queues!InLane, Queues!Filtered, Filtered
  <2>0. g \in [LaneEntries -> Messages]
    BY DEF LaneEntries
  <2> HIDE DEF left, gone, g
  <2>3. /\ Filtered(s, gone) \in Seq(LaneEntries) /\ Filtered(w, left) \in Seq(Messages)
        /\ Len(Filtered(w, left)) = Len(Filtered(s, gone))
        /\ \A i \in 1..Len(Filtered(s, gone)) : Filtered(w, left)[i] = g[Filtered(s, gone)[i]]
    <3>1. s \in Seq(LaneEntries) /\ w \in Seq(Messages) /\ Len(w) = Len(s)
      BY <1>1
    <3>2. \A i \in 1..Len(s) : w[i] = g[s[i]] /\ (w[i] \in left <=> s[i] \in gone)
      BY <2>1
    <3> QED BY <2>0, <3>1, <3>2, FilteredOff
  <2>4. \A i \in 1..Len(Filtered(s, gone)) : g[Filtered(s, gone)[i]] = Filtered(s, gone)[i].message
    <3>1. \A i \in 1..Len(Filtered(s, gone)) : Filtered(s, gone)[i] \in LaneEntries
      BY <2>3, ElementOfSeq
    <3> QED BY <3>1 DEF g
  <2> QED BY <2>2, <2>3, <2>4 DEF gone
<1> HIDE DEF On, In
<1> DEFINE Read(u, v) == /\ u \in Seq(LaneEntries) /\ v \in Seq(Messages) /\ Len(v) = Len(u)
                         /\ \A i \in 1..Len(u) : v[i] = u[i].message
<1>3. ASSUME NEW a, NEW b1, NEW c, NEW d, Read(a, b1), Read(c, d) PROVE Read(a \o c, b1 \o d)
  <2>1. /\ a \o c \in Seq(LaneEntries) /\ Len(a \o c) = Len(a) + Len(c)
        /\ Len(a) \in Nat /\ Len(c) \in Nat
        /\ \A i \in 1..Len(a) + Len(c) : (a \o c)[i] = IF i <= Len(a) THEN a[i] ELSE c[i - Len(a)]
    BY <1>3, ConcatProperties, LenProperties
  <2>2. /\ b1 \o d \in Seq(Messages) /\ Len(b1 \o d) = Len(a) + Len(c)
        /\ \A i \in 1..Len(a) + Len(c) : (b1 \o d)[i] = IF i <= Len(a) THEN b1[i] ELSE d[i - Len(a)]
    <3>1. /\ b1 \in Seq(Messages) /\ d \in Seq(Messages) /\ Len(b1) = Len(a) /\ Len(d) = Len(c)
      BY <1>3
    <3>2. /\ b1 \o d \in Seq(Messages) /\ Len(b1 \o d) = Len(b1) + Len(d)
          /\ \A i \in 1..Len(b1) + Len(d) :
               (b1 \o d)[i] = IF i <= Len(b1) THEN b1[i] ELSE d[i - Len(b1)]
      BY <3>1, ConcatProperties
    <3> QED BY <3>1, <3>2
  <2>3. ASSUME NEW i \in 1..Len(a) + Len(c) PROVE (b1 \o d)[i] = (a \o c)[i].message
    <3>1. CASE i <= Len(a)
      <4>1. i \in 1..Len(a)
        BY <2>1, <3>1
      <4> QED BY <1>3, <2>1, <2>2, <3>1, <4>1
    <3>2. CASE ~(i <= Len(a))
      <4>1. i - Len(a) \in 1..Len(c)
        BY <2>1, <3>2
      <4> QED BY <1>3, <2>1, <2>2, <3>2, <4>1
    <3> QED BY <3>1, <3>2
  <2> QED BY <2>1, <2>2, <2>3
<1>4. Read(ByLane(s), Queues!ByPriority(w))
  <2> DEFINE a == On("steer")
             b1 == In("steer")
             c == On("collect")
             d == In("collect")
             e == On("followup")
             f == In("followup")
  <2>1. Read(a, b1) /\ Read(c, d) /\ Read(e, f)
    BY <1>2
  <2>2. ByLane(s) = (a \o c) \o e
    BY DEF ByLane, On
  <2>3. Queues!ByPriority(w) = (b1 \o d) \o f
    BY DEF Queues!ByPriority, Queues!QueuedLanes, In
  <2> HIDE DEF Read, a, b1, c, d, e, f
  <2>4. Read(a \o c, b1 \o d)
    BY <1>3, <2>1
  <2>5. Read((a \o c) \o e, (b1 \o d) \o f)
    BY <1>3, <2>1, <2>4
  <2> QED BY <2>2, <2>3, <2>5
<1> DEFINE order == CHOOSE p \in [DOMAIN s -> DOMAIN s] : Sorts(p, s)
           r == DrainOrder(b)
<1>5. /\ Len(ByLane(s)) = N /\ DOMAIN s = 1..N
      /\ \A i \in 1..N : s[order[i]] = ByLane(s)[i]
  BY <1>1, SortIsByLane
<1>6. r = [i \in DOMAIN s |-> s[order[i]].message]
  BY DEF DrainOrder, s
<1> HIDE DEF order, r
<1>7. /\ Queues!ByPriority(w) \in Seq(Messages) /\ Len(Queues!ByPriority(w)) = N
      /\ \A i \in 1..N : Queues!ByPriority(w)[i] = ByLane(s)[i].message
  BY <1>4, <1>5
<1>8. r = [i \in 1..N |-> Queues!ByPriority(w)[i]]
  BY <1>5, <1>6, <1>7
<1>9. Queues!ByPriority(w) = [i \in 1..N |-> Queues!ByPriority(w)[i]]
  <2> DEFINE v == Queues!ByPriority(w)
  <2>1. v \in Seq(Messages) /\ Len(v) = N
    BY <1>7
  <2> HIDE DEF v
  <2>2. v \in [1..N -> Messages]
    BY <2>1, LenProperties
  <2>3. v = [i \in 1..N |-> v[i]]
    BY <2>2
  <2> QED BY <2>3 DEF v
<1>10. r = Queues!ByPriority(w)
  <2> DEFINE v == Queues!ByPriority(w)
  <2> HIDE DEF v
  <2> SUFFICES r = v
    BY DEF v
  <2> QED BY <1>8, <1>9 DEF v
<1> QED BY <1>7, <1>10 DEF r, w

-----------------------------------------------------------------------------
(* The inductive invariant.                                                 *)
BuffersAreTrue ==
  /\ buffers = [n \in LaneNodes |-> buffers[n]]
  /\ \A n \in LaneNodes : HasBuffer(n) => buffers[n] \in Buffers(n) /\ BufferIsTrue(buffers[n])
TrackerIsTrue ==
  /\ pending \in [LaneNodes -> Seq(Messages)]
  /\ \A n \in LaneNodes : Len(pending[n]) <= Capacity
LaneInv == BuffersAreTrue /\ drained \in Seq(Messages) /\ TrackerIsTrue

LEMMA LaneInvInit == LaneInit => LaneInv
<1> SUFFICES ASSUME LaneInit PROVE LaneInv
  OBVIOUS
<1>1. <<>> \in Seq(Messages) /\ Len(<<>>) = 0 /\ Capacity \in Nat
  BY EmptySeq, LaneAssumption
<1> QED BY <1>1 DEF LaneInit, LaneInv, BuffersAreTrue, TrackerIsTrue, HasBuffer

(* What track and ack do to the messages of a sender.                       *)
LEMMA TrackKeeps ==
  ASSUME NEW p \in Seq(Messages), Len(p) <= Capacity, NEW m \in Messages
  PROVE  /\ Track(p, m) \in Seq(Messages) /\ Len(Track(p, m)) <= Capacity
         /\ \A i \in 1..Len(p) : (\E j \in 1..Len(Track(p, m)) : Track(p, m)[j] = p[i])
                                  \/ (i = 1 /\ Len(p) = Capacity)
<1> DEFINE room == IF Len(p) >= Capacity THEN Tail(p) ELSE p
           t == Track(p, m)
<1>0. Capacity \in Nat \ {0} /\ Len(p) \in Nat
  BY LaneAssumption, LenProperties
<1>1. t = IF \E i \in DOMAIN room : room[i] = m THEN room ELSE Append(room, m)
  BY DEF Track
<1>2. /\ room \in Seq(Messages) /\ Len(room) < Capacity /\ Len(room) \in Nat
      /\ \A i \in 1..Len(p) :
           (\E j \in 1..Len(room) : room[j] = p[i]) \/ (i = 1 /\ Len(p) = Capacity)
  <2>1. CASE Len(p) < Capacity
    <3>1. room = p
      BY <1>0, <2>1
    <3> HIDE DEF room
    <3>2. ASSUME NEW i \in 1..Len(p) PROVE \E j \in 1..Len(room) : room[j] = p[i]
      BY <3>1
    <3>3. room \in Seq(Messages) /\ Len(room) < Capacity /\ Len(room) \in Nat
      BY <1>0, <2>1, <3>1
    <3> QED BY <3>2, <3>3
  <2>2. CASE Len(p) >= Capacity
    <3>1. p # <<>>
      BY <1>0, <2>2, EmptySeq
    <3>2. /\ room \in Seq(Messages) /\ Len(room) = Len(p) - 1
          /\ \A i \in 1..Len(room) : room[i] = p[i + 1]
      BY <2>2, <3>1, HeadTailProperties
    <3> HIDE DEF room
    <3>4. Len(p) = Capacity
      BY <1>0, <2>2
    <3>3. ASSUME NEW i \in 1..Len(p), i # 1 PROVE \E j \in 1..Len(room) : room[j] = p[i]
      <4>1. i - 1 \in 1..Len(room) /\ (i - 1) + 1 = i
        BY <1>0, <3>2, <3>3
      <4> QED BY <3>2, <4>1
    <3>5. Len(room) < Capacity /\ Len(room) \in Nat
      BY <1>0, <3>2, <3>4
    <3> QED BY <3>2, <3>3, <3>4, <3>5
  <2> HIDE DEF room
  <2> QED BY <1>0, <2>1, <2>2
<1> HIDE DEF room, t
<1> DEFINE Kept == /\ t \in Seq(Messages) /\ Len(t) <= Capacity
                   /\ \A i \in 1..Len(p) : (\E j \in 1..Len(t) : t[j] = p[i])
                                           \/ (i = 1 /\ Len(p) = Capacity)
<1>3. ASSUME t = room PROVE Kept
  <2>1. Len(room) <= Capacity
    BY <1>0, <1>2
  <2> QED BY <1>2, <1>3, <2>1
<1>4. ASSUME t = Append(room, m) PROVE Kept
  <2>1. t \in Seq(Messages) /\ Len(t) = Len(room) + 1 /\ \A i \in 1..Len(room) : t[i] = room[i]
    BY <1>2, <1>4, AppendProperties
  <2>2. Len(t) <= Capacity /\ \A j \in 1..Len(room) : j \in 1..Len(t)
    BY <1>0, <1>2, <2>1
  <2>3. ASSUME NEW i \in 1..Len(p)
        PROVE  (\E j \in 1..Len(t) : t[j] = p[i]) \/ (i = 1 /\ Len(p) = Capacity)
    <3>1. CASE i = 1 /\ Len(p) = Capacity
      BY <3>1
    <3>2. CASE ~(i = 1 /\ Len(p) = Capacity)
      <4>1. PICK j \in 1..Len(room) : room[j] = p[i]
        BY <1>2, <3>2
      <4> QED BY <2>1, <2>2, <4>1
    <3> QED BY <3>1, <3>2
  <2> QED BY <2>1, <2>2, <2>3
<1> HIDE DEF Kept
<1>5. Kept
  BY <1>1, <1>3, <1>4
<1> QED BY <1>5 DEF Kept, t

LEMMA AckKeeps ==
  ASSUME NEW p \in Seq(Messages), Len(p) <= Capacity, NEW m
  PROVE  /\ Without(p, m) \in Seq(Messages) /\ Len(Without(p, m)) <= Capacity
         /\ \A i \in 1..Len(p) :
              (\E j \in 1..Len(Without(p, m)) : Without(p, m)[j] = p[i]) \/ p[i] = m
<1> DEFINE g == [x \in Messages |-> x]
           f == Filtered(p, {m})
           R == {q \in Messages \X Messages : TRUE}
<1>0. Capacity \in Nat /\ Len(p) \in Nat /\ \A i \in 1..Len(p) : p[i] \in Messages
  BY LaneAssumption, LenProperties, ElementOfSeq
<1>1. \A i \in 1..Len(p) : p[i] = g[p[i]]
  BY <1>0
<1>7. g \in [Messages -> Messages]
  OBVIOUS
<1> HIDE DEF g
<1>2. f \in Seq(Messages) /\ Len(f) <= Len(p)
  BY <1>1, <1>7, FilteredOff
<1>3. InOrder(p, R)
  BY <1>0 DEF InOrder
<1> HIDE DEF R
<1>4. Range(f) = Range(p) \ {m}
  BY <1>3, FilteredOf
<1>5. Len(f) <= Capacity
  <2>1. Len(f) \in Nat
    BY <1>2, LenProperties
  <2> HIDE DEF f
  <2> QED BY <1>0, <1>2, <2>1
<1> HIDE DEF f
<1>6. ASSUME NEW i \in 1..Len(p), p[i] # m PROVE \E j \in 1..Len(f) : f[j] = p[i]
  <2>1. p[i] \in Range(f)
    BY <1>4, <1>6, RangeOf
  <2> QED BY <1>2, <2>1, RangeOf
<1> QED BY <1>2, <1>5, <1>6 DEF f, Without

(* A buffer that was drained.                                               *)
LEMMA DrainedIsTrue ==
  ASSUME NEW n \in LaneNodes, NEW b \in Buffers(n)
  PROVE  LET d == [b EXCEPT !.queue = NewQueue, !.laneCounts = NewBuffer.laneCounts]
         IN  d \in Buffers(n) /\ BufferIsTrue(d) /\ Waiting(d) = <<>>
<1> DEFINE d == [b EXCEPT !.queue = NewQueue, !.laneCounts = NewBuffer.laneCounts]
<1>1. /\ NewBuffer \in Buffers(n) /\ BufferIsTrue(NewBuffer) /\ Waiting(NewBuffer) = <<>>
      /\ NewQueue \in Rings(Entries(n))
  BY NewIsTrue
<1>2. NewBuffer.queue = NewQueue /\ NewQueue.count = 0
  BY DEF NewBuffer, NewQueue
<1>3. d \in Buffers(n) /\ d.queue = NewQueue /\ d.laneCounts = NewBuffer.laneCounts
  BY <1>1, <1>2 DEF Buffers
<1> HIDE DEF d
<1>4. BufferIsTrue(d)
  <2>1. \A i \in 1..0 : FALSE
    OBVIOUS
  <2> QED BY <1>1, <1>2, <1>3, <2>1 DEF BufferIsTrue
<1>5. Waiting(d) = Waiting(NewBuffer)
  BY <1>2, <1>3 DEF Waiting
<1> QED BY <1>1, <1>3, <1>4, <1>5 DEF d

WaitingOf(bs) == [n \in LaneNodes |-> IF bs[n] # NoBuffer THEN Waiting(bs[n]) ELSE <<>>]

(* What a step does, buffers and tracker: the buffers take a step of the    *)
(* queues, or one that the queues do not see; and what is no longer tracked *)
(* was acknowledged, gone with its sender, or first in a full tracker.      *)
BuffersStep ==
  /\ BuffersAreTrue' /\ drained' \in Seq(Messages)
  /\ Queues!Next \/ UNCHANGED <<WaitingOf(buffers), drained>>
TrackerStep ==
  /\ TrackerIsTrue'
  /\ \A n \in LaneNodes : \A i \in DOMAIN pending[n] :
       (~ \E j \in DOMAIN pending'[n] : pending'[n][j] = pending[n][i])
       => \/ buffers' = buffers /\ pending'[n] = Without(pending[n], pending[n][i])
          \/ buffers'[n] = NoBuffer
          \/ i = 1 /\ Len(pending[n]) = Capacity

(* One buffer changes: the others are as they were.                         *)
LEMMA OneBuffer ==
  ASSUME BuffersAreTrue, NEW n \in LaneNodes, NEW b,
         buffers' = [buffers EXCEPT ![n] = b],
         b = NoBuffer \/ (b \in Buffers(n) /\ BufferIsTrue(b))
  PROVE  /\ BuffersAreTrue'
         /\ WaitingOf(buffers') =
              [WaitingOf(buffers) EXCEPT ![n] = IF b = NoBuffer THEN <<>> ELSE Waiting(b)]
<1>1. buffers' = [k \in LaneNodes |-> IF k = n THEN b ELSE buffers[k]]
  BY DEF BuffersAreTrue
<1>2. \A k \in LaneNodes : buffers'[k] = IF k = n THEN b ELSE buffers[k]
  BY <1>1
<1>3. buffers' = [k \in LaneNodes |-> buffers'[k]]
  BY <1>1
<1>4. BuffersAreTrue'
  BY <1>2, <1>3 DEF BuffersAreTrue, HasBuffer
<1>5. WaitingOf(buffers') =
              [WaitingOf(buffers) EXCEPT ![n] = IF b = NoBuffer THEN <<>> ELSE Waiting(b)]
  <2> DEFINE v == [k \in LaneNodes |-> IF buffers[k] # NoBuffer THEN Waiting(buffers[k]) ELSE <<>>]
             v1 == [k \in LaneNodes |->
                      IF buffers'[k] # NoBuffer THEN Waiting(buffers'[k]) ELSE <<>>]
             new == IF b = NoBuffer THEN <<>> ELSE Waiting(b)
  <2>1. \A k \in LaneNodes : v1[k] = IF k = n THEN new ELSE v[k]
    BY <1>2
  <2>2. v1 = [k \in LaneNodes |-> v1[k]] /\ v = [k \in LaneNodes |-> v[k]]
    OBVIOUS
  <2>3. WaitingOf(buffers) = v /\ WaitingOf(buffers') = v1
    BY DEF WaitingOf
  <2> HIDE DEF v, v1
  <2>4. v1 = [v EXCEPT ![n] = new]
    BY <2>1, <2>2
  <2> QED BY <2>3, <2>4
<1> QED BY <1>4, <1>5

LEMMA RefinedWaiting ==
  [n \in LaneNodes |-> IF HasBuffer(n) THEN Waiting(buffers[n]) ELSE <<>>] = WaitingOf(buffers)
BY DEF WaitingOf, HasBuffer

LEMMA BuffersMove ==
  ASSUME LaneInv, LaneNext
  PROVE  BuffersStep
<1> DEFINE w == WaitingOf(buffers)
           w1 == WaitingOf(buffers')
<1>0. /\ BuffersAreTrue /\ drained \in Seq(Messages)
      /\ \A n \in LaneNodes : w[n] = IF HasBuffer(n) THEN Waiting(buffers[n]) ELSE <<>>
      /\ w = [n \in LaneNodes |-> w[n]]
  BY DEF LaneInv, WaitingOf, HasBuffer
<1>1. ASSUME NEW n \in LaneNodes, Register(n) PROVE BuffersStep
  <2>1. buffers' = [buffers EXCEPT ![n] = NewBuffer] /\ drained' = drained /\ ~HasBuffer(n)
    BY <1>1 DEF Register
  <2>2. NewBuffer \in Buffers(n) /\ BufferIsTrue(NewBuffer) /\ Waiting(NewBuffer) = <<>>
    BY NewIsTrue
  <2>3. BuffersAreTrue' /\ w1 = [w EXCEPT ![n] = <<>>]
    BY <1>0, <2>1, <2>2, OneBuffer
  <2>4. w1 = w
    BY <1>0, <2>1, <2>3
  <2> QED BY <1>0, <2>1, <2>3, <2>4 DEF BuffersStep
<1>2. ASSUME NEW n \in LaneNodes, NEW t \in LaneNodes, NEW m \in Messages,
             HandleLaneMessage(n, t, m)
      PROVE  BuffersStep
  <2>1. /\ HasBuffer(t) /\ buffers[t].seq < MaxSeq[t] /\ drained' = drained
        /\ buffers' = [buffers EXCEPT ![t] = Dispatch(buffers[t], m)]
        /\ buffers[t] \in Buffers(t) /\ BufferIsTrue(buffers[t])
    BY <1>0, <1>2 DEF HandleLaneMessage, BuffersAreTrue
  <2>2. CASE Lane(m) = Interrupt
    <3>1. Dispatch(buffers[t], m) = buffers[t]
      BY <2>2 DEF Dispatch
    <3>2. buffers' = buffers
      BY <1>0, <2>1, <3>1 DEF BuffersAreTrue
    <3>3. BuffersAreTrue'
      BY <1>0, <3>2 DEF BuffersAreTrue, HasBuffer
    <3> QED BY <1>0, <2>1, <3>2, <3>3 DEF BuffersStep
  <2>3. CASE Lane(m) # Interrupt
    <3> DEFINE d == Dispatch(buffers[t], m)
    <3>1. /\ d \in Buffers(t) /\ BufferIsTrue(d)
          /\ Waiting(d) = Queues!LastOf(Append(Waiting(buffers[t]), m))
      BY <2>1, <2>3, DispatchIsAccept
    <3>2. d # NoBuffer
      BY <3>1, LaneAssumption
    <3> HIDE DEF d
    <3>3. BuffersAreTrue' /\ w1 = [w EXCEPT ![t] = Waiting(d)]
      <4>1. buffers' = [buffers EXCEPT ![t] = d]
        BY <2>1 DEF d
      <4> QED BY <1>0, <3>1, <3>2, <4>1, OneBuffer
    <3>4. w1 = [w EXCEPT ![t] = Queues!LastOf(Append(w[t], m))]
      BY <1>0, <2>1, <3>1, <3>3
    <3>5. Queues!Accept(t)
      <4>1. m \in {x \in Messages : Lane(x) # "interrupt"}
        BY <2>3 DEF Interrupt
      <4> HIDE DEF w, w1
      <4> QED BY <2>1, <3>4, <4>1, RefinedWaiting DEF Queues!Accept, w, w1, WaitingOf, HasBuffer
    <3> QED BY <1>0, <2>1, <3>3, <3>5 DEF BuffersStep, Queues!Next
  <2> QED BY <2>2, <2>3
<1>3. ASSUME NEW n \in LaneNodes, NEW m \in Messages, HandleLaneMessageAck(n, m) PROVE BuffersStep
  <2>1. buffers' = buffers /\ drained' = drained
    BY <1>3 DEF HandleLaneMessageAck
  <2>2. BuffersAreTrue'
    BY <1>0, <2>1 DEF BuffersAreTrue, HasBuffer
  <2> QED BY <1>0, <2>1, <2>2 DEF BuffersStep
<1>4. ASSUME NEW n \in LaneNodes, DrainNode(n) PROVE BuffersStep
  <2> DEFINE d == [buffers[n] EXCEPT !.queue = NewQueue, !.laneCounts = NewBuffer.laneCounts]
  <2>1. /\ HasBuffer(n) /\ drained' = DrainOrder(buffers[n])
        /\ buffers[n] \in Buffers(n) /\ BufferIsTrue(buffers[n])
        /\ buffers' = [buffers EXCEPT ![n].queue = NewQueue, ![n].laneCounts = NewBuffer.laneCounts]
    BY <1>0, <1>4 DEF DrainNode, BuffersAreTrue
  <2>2. buffers' = [buffers EXCEPT ![n] = d]
    BY <1>0, <2>1 DEF BuffersAreTrue
  <2>3. d \in Buffers(n) /\ BufferIsTrue(d) /\ Waiting(d) = <<>> /\ d # NoBuffer
    <3>1. d \in Buffers(n) /\ BufferIsTrue(d) /\ Waiting(d) = <<>>
      BY <2>1, DrainedIsTrue
    <3> HIDE DEF d
    <3> QED BY <3>1, LaneAssumption
  <2> HIDE DEF d
  <2>4. BuffersAreTrue' /\ w1 = [w EXCEPT ![n] = <<>>]
    BY <1>0, <2>2, <2>3, OneBuffer
  <2>5. drained' = Queues!ByPriority(w[n]) /\ drained' \in Seq(Messages)
    BY <1>0, <2>1, DrainIsByPriority
  <2>6. Queues!Deliver(n)
    BY <2>4, <2>5, RefinedWaiting DEF Queues!Deliver, WaitingOf, HasBuffer
  <2> QED BY <2>4, <2>5, <2>6 DEF BuffersStep, Queues!Next
<1>5. ASSUME NEW n \in LaneNodes, CleanupNode(n) PROVE BuffersStep
  <2>1. buffers' = [buffers EXCEPT ![n] = NoBuffer] /\ drained' = drained
    BY <1>5 DEF CleanupNode
  <2>2. BuffersAreTrue' /\ w1 = [w EXCEPT ![n] = <<>>]
    BY <1>0, <2>1, OneBuffer
  <2>3. w1 = [k \in LaneNodes |-> IF k \in {n} THEN <<>> ELSE w[k]]
    BY <1>0, <2>2
  <2>4. Queues!Discard({n})
    BY <2>1, <2>3, RefinedWaiting DEF Queues!Discard, WaitingOf, HasBuffer
  <2> QED BY <1>0, <2>1, <2>2, <2>4 DEF BuffersStep, Queues!Next
<1>6. ASSUME RestartFromCheckpoint PROVE BuffersStep
  <2>1. buffers' = [n \in LaneNodes |-> NoBuffer] /\ drained' = drained
    BY <1>6 DEF RestartFromCheckpoint
  <2>2. BuffersAreTrue'
    BY <2>1 DEF BuffersAreTrue, HasBuffer
  <2>3. w1 = [k \in LaneNodes |-> IF k \in LaneNodes THEN <<>> ELSE w[k]]
    BY <2>1 DEF WaitingOf
  <2>4. Queues!Discard(LaneNodes)
    BY <2>1, <2>3, RefinedWaiting DEF Queues!Discard, WaitingOf, HasBuffer
  <2> QED BY <1>0, <2>1, <2>2, <2>4 DEF BuffersStep, Queues!Next
<1> QED BY <1>1, <1>2, <1>3, <1>4, <1>5, <1>6 DEF LaneNext

LEMMA TrackerMoves ==
  ASSUME LaneInv, LaneNext
  PROVE  TrackerStep
<1>0. /\ BuffersAreTrue /\ TrackerIsTrue /\ Capacity \in Nat
      /\ \A n \in LaneNodes : DOMAIN pending[n] = 1..Len(pending[n])
  BY LaneAssumption, LenProperties DEF LaneInv, TrackerIsTrue
<1> DEFINE Left(n, i) == ~ \E j \in DOMAIN pending'[n] : pending'[n][j] = pending[n][i]
           Right(n, i) == \/ buffers' = buffers /\ pending'[n] = Without(pending[n], pending[n][i])
                          \/ buffers'[n] = NoBuffer
                          \/ i = 1 /\ Len(pending[n]) = Capacity
<1>1. ASSUME UNCHANGED pending PROVE TrackerStep
  BY <1>0, <1>1 DEF TrackerStep, TrackerIsTrue
<1>2. ASSUME NEW n \in LaneNodes, NEW p \in Seq(Messages), Len(p) <= Capacity,
             pending' = [pending EXCEPT ![n] = p],
             \A i \in 1..Len(pending[n]) :
               (\E j \in 1..Len(p) : p[j] = pending[n][i]) \/ Right(n, i)
      PROVE  TrackerStep
  <2>1. TrackerIsTrue'
    BY <1>0, <1>2 DEF TrackerIsTrue
  <2>2. \A k \in LaneNodes : pending'[k] = IF k = n THEN p ELSE pending[k]
    BY <1>0, <1>2 DEF TrackerIsTrue
  <2>3. DOMAIN p = 1..Len(p)
    BY <1>2, LenProperties
  <2>4. ASSUME NEW k \in LaneNodes, NEW i \in DOMAIN pending[k], Left(k, i) PROVE Right(k, i)
    <3>1. CASE k = n
      <4>1. pending'[n] = p /\ i \in 1..Len(pending[n])
        BY <1>0, <2>2, <3>1
      <4>2. ~ \E j \in 1..Len(p) : p[j] = pending[n][i]
        BY <2>3, <2>4, <3>1, <4>1
      <4> HIDE DEF Right
      <4> QED BY <1>2, <3>1, <4>1, <4>2
    <3>2. CASE k # n
      BY <2>2, <2>4, <3>2
    <3> QED BY <3>1, <3>2
  <2> QED BY <2>1, <2>4 DEF TrackerStep
<1>3. ASSUME NEW n \in LaneNodes, NEW t \in LaneNodes, NEW m \in Messages,
             HandleLaneMessage(n, t, m)
      PROVE  TrackerStep
  <2>1. pending' = [pending EXCEPT ![n] = Track(pending[n], m)]
    BY <1>3 DEF HandleLaneMessage
  <2>2. /\ Track(pending[n], m) \in Seq(Messages) /\ Len(Track(pending[n], m)) <= Capacity
        /\ \A i \in 1..Len(pending[n]) :
             \/ \E j \in 1..Len(Track(pending[n], m)) : Track(pending[n], m)[j] = pending[n][i]
             \/ i = 1 /\ Len(pending[n]) = Capacity
    BY <1>0, TrackKeeps DEF TrackerIsTrue
  <2>3. \A i \in 1..Len(pending[n]) :
             \/ \E j \in 1..Len(Track(pending[n], m)) : Track(pending[n], m)[j] = pending[n][i]
             \/ Right(n, i)
    BY <2>2
  <2> HIDE DEF Right
  <2> QED BY <1>2, <2>1, <2>2, <2>3
<1>4. ASSUME NEW n \in LaneNodes, NEW m \in Messages, HandleLaneMessageAck(n, m) PROVE TrackerStep
  <2> DEFINE p == Without(pending[n], m)
  <2>1. pending' = [pending EXCEPT ![n] = p] /\ buffers' = buffers
    BY <1>4 DEF HandleLaneMessageAck
  <2>2. /\ p \in Seq(Messages) /\ Len(p) <= Capacity
        /\ \A i \in 1..Len(pending[n]) :
             (\E j \in 1..Len(p) : p[j] = pending[n][i]) \/ pending[n][i] = m
    BY <1>0, AckKeeps DEF TrackerIsTrue
  <2>3. pending'[n] = p
    BY <1>0, <2>1 DEF TrackerIsTrue
  <2>4. \A i \in 1..Len(pending[n]) : pending[n][i] = m => Right(n, i)
    BY <2>1, <2>3
  <2> HIDE DEF Right, p
  <2>5. \A i \in 1..Len(pending[n]) : (\E j \in 1..Len(p) : p[j] = pending[n][i]) \/ Right(n, i)
    BY <2>2, <2>4
  <2> QED BY <1>2, <2>1, <2>2, <2>5
<1>5. ASSUME NEW n \in LaneNodes, CleanupNode(n) PROVE TrackerStep
  <2>1. pending' = [pending EXCEPT ![n] = <<>>] /\ buffers' = [buffers EXCEPT ![n] = NoBuffer]
    BY <1>5 DEF CleanupNode
  <2>2. buffers'[n] = NoBuffer
    BY <1>0, <2>1 DEF BuffersAreTrue
  <2>3. <<>> \in Seq(Messages) /\ Len(<<>>) <= Capacity
    BY <1>0, EmptySeq
  <2> QED BY <1>2, <2>1, <2>2, <2>3
<1>6. ASSUME NEW n \in LaneNodes, Register(n) \/ DrainNode(n) PROVE TrackerStep
  BY <1>1, <1>6 DEF Register, DrainNode
<1>7. ASSUME RestartFromCheckpoint PROVE TrackerStep
  BY <1>1, <1>7 DEF RestartFromCheckpoint
<1> HIDE DEF TrackerStep
<1> QED BY <1>3, <1>4, <1>5, <1>6, <1>7 DEF LaneNext

LEMMA LaneInvStep ==
  ASSUME LaneInv, [LaneNext]_laneVars
  PROVE  LaneInv'
<1>1. CASE LaneNext
  BY <1>1, BuffersMove, TrackerMoves DEF BuffersStep, TrackerStep, LaneInv
<1>2. CASE UNCHANGED laneVars
  BY <1>2 DEF laneVars, LaneInv, BuffersAreTrue, TrackerIsTrue, HasBuffer
<1> QED BY <1>1, <1>2

LEMMA LaneInvHolds == LaneSpec => []LaneInv
<1> QED BY LaneInvInit, LaneInvStep, PTL DEF LaneSpec

(* The message buffers and the tracker keep their types: head, tail and     *)
(* counters of a ring stay in bounds and agree with its slots.              *)
THEOREM LaneTypeCorrect == LaneSpec => []LaneTypeOK
<1>1. LaneInv => LaneTypeOK
  BY DEF LaneInv, BuffersAreTrue, TrackerIsTrue, BufferIsTrue, LaneTypeOK
<1> QED BY <1>1, LaneInvHolds, PTL

(* A message leaves the tracker in turn: acknowledged, gone with its        *)
(* sender, or as the one tracked longest when the tracker is full           *)
(* (DeliveryTracker.track, ack and cleanupNode).                            *)
THEOREM PendingStaysInTurn == LaneSpec => PendingLeavesInTurn
<1> DEFINE InTurn == \A n \in LaneNodes : \A i \in DOMAIN pending[n] :
             (~ \E j \in DOMAIN pending'[n] : pending'[n][j] = pending[n][i])
             => \/ buffers' = buffers /\ pending'[n] = Without(pending[n], pending[n][i])
                \/ buffers'[n] = NoBuffer
                \/ i = 1 /\ Len(pending[n]) = Capacity
<1>1. ASSUME LaneInv, [LaneNext]_laneVars PROVE [InTurn]_laneVars
  <2>1. CASE LaneNext
    BY <1>1, <2>1, TrackerMoves DEF TrackerStep
  <2> QED BY <1>1, <2>1
<1> HIDE DEF InTurn
<1>2. LaneSpec => [][InTurn]_laneVars
  BY <1>1, LaneInvHolds, PTL DEF LaneSpec
<1> QED BY <1>2 DEF PendingLeavesInTurn, InTurn

(* The message buffers implement bounded queues: ring, counters and the     *)
(* sort when they are drained hand over the last messages, lane by lane and *)
(* in the order they came, whatever the capacity (message-buffer.ts).       *)
THEOREM BuffersStayLaneQueues == LaneSpec => BuffersAreLaneQueues
<1>1. LaneInit => Queues!Init
  BY DEF LaneInit, Queues!Init, HasBuffer
<1>2. ASSUME LaneInv, [LaneNext]_laneVars
      PROVE  [Queues!Next]_<<WaitingOf(buffers), drained>>
  <2>1. CASE LaneNext
    BY <1>2, <2>1, BuffersMove DEF BuffersStep
  <2>2. CASE UNCHANGED laneVars
    BY <2>2 DEF laneVars
  <2> QED BY <1>2, <2>1, <2>2
<1>3. ASSUME LaneInv, [LaneNext]_laneVars
      PROVE  [Queues!Next]_<<[n \in LaneNodes |->
                IF HasBuffer(n) THEN Waiting(buffers[n]) ELSE <<>>], drained>>
  BY <1>2, <1>3, RefinedWaiting DEF WaitingOf, HasBuffer
<1> QED BY <1>1, <1>3, LaneInvHolds, PTL DEF LaneSpec, BuffersAreLaneQueues, Queues!Spec
================================================================================
