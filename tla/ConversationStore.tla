--------------------------- MODULE ConversationStore ---------------------------
(***************************************************************************)
(* The conversation store of the gateway                                   *)
(* (packages/gateway/src/conversations/conversation-store.ts): which node  *)
(* a conversation is bound to, the reverse index from nodes to their       *)
(* conversations that cleanup relies on, eviction at the limit, expiry,    *)
(* and the capacity warning with its hysteresis.  The limit may be changed *)
(* while the gateway runs and the store is refilled from a checkpoint      *)
(* after a restart.                                                        *)
(***************************************************************************)
EXTENDS Naturals, FiniteSets

CONSTANTS
  NodeIds, Keys,
  Limits,           \* the values config.maxConversations takes
  Ttl,              \* config.conversationTtl
  MaxTime           \* bound on the clock

ASSUME NamesAssumption == "no node" \notin NodeIds /\ IsFiniteSet(Keys)
ASSUME LimitsAssumption == Limits # {} /\ Limits \subseteq Nat \ {0}
ASSUME TimeAssumption == Ttl \in Nat \ {0} /\ MaxTime \in Nat

VARIABLES
  bindings,         \* conversation -> its node and its last activity, or Unbound
  nodeIndex,        \* node -> its conversations ({}: the node has no entry)
  limit,            \* config.maxConversations
  capacityWarningEmitted,
  now,              \* Date.now()
  saved             \* the bindings of the last checkpoint

storeVars == <<bindings, nodeIndex, limit, capacityWarningEmitted, now, saved>>

Unbound == [node |-> "no node", lastActiveAt |-> 0]
Binding == [node : NodeIds, lastActiveAt : 0..MaxTime]

BoundIn(b) == {k \in Keys : b[k] # Unbound}
Bound == BoundIn(bindings)

StoreInit ==
  /\ bindings = [k \in Keys |-> Unbound]
  /\ nodeIndex = [n \in NodeIds |-> {}]
  /\ limit \in Limits
  /\ capacityWarningEmitted = FALSE
  /\ now = 0
  /\ saved = [k \in Keys |-> Unbound]

-----------------------------------------------------------------------------
(* The warning is given at 80% of the limit and armed again below 70%.     *)
CheckCapacityWarning ==
  LET size == Cardinality(BoundIn(bindings'))
  IN capacityWarningEmitted' =
       \/ 10 * size >= 8 * limit
       \/ capacityWarningEmitted /\ 10 * size >= 7 * limit

(* Those evictOldest may pick: of several that were active in the same      *)
(* millisecond it takes the one that comes first in the map.                *)
LeastActive == {k \in Bound : \A l \in Bound :
                  bindings[k].lastActiveAt <= bindings[l].lastActiveAt}

(* bind a known conversation: it moves to the node's entry of the index.    *)
RebindLeavesIndex(k, n) ==     \* mutant: the old node keeps the conversation
  /\ k \in Bound
  /\ bindings' = [bindings EXCEPT ![k] = [node |-> n, lastActiveAt |-> now]]
  /\ nodeIndex' = [nodeIndex EXCEPT ![n] = @ \union {k}]
  /\ CheckCapacityWarning
  /\ UNCHANGED <<limit, now, saved>>

Rebind(k, n) ==
  /\ k \in Bound
  /\ bindings' = [bindings EXCEPT ![k] = [node |-> n, lastActiveAt |-> now]]
  /\ nodeIndex' = [m \in NodeIds |-> IF m = n THEN nodeIndex[m] \union {k}
                                            ELSE nodeIndex[m] \ {k}]
  /\ CheckCapacityWarning
  /\ UNCHANGED <<limit, now, saved>>

(* bind a new one: at the limit the least active conversation makes room.   *)
BindNewAny(k, n) ==            \* mutant: any conversation is evicted
  /\ k \notin Bound
  /\ \E evicted \in IF Cardinality(Bound) >= limit
                    THEN {{v} : v \in Bound} ELSE {{}} :
       /\ bindings' = [l \in Keys |->
            IF l = k THEN [node |-> n, lastActiveAt |-> now]
            ELSE IF l \in evicted THEN Unbound ELSE bindings[l]]
       /\ nodeIndex' = [m \in NodeIds |-> (nodeIndex[m] \ evicted)
                                        \union IF m = n THEN {k} ELSE {}]
  /\ CheckCapacityWarning
  /\ UNCHANGED <<limit, now, saved>>

BindNewLate(k, n) ==           \* mutant: > instead of >=
  /\ k \notin Bound
  /\ \E evicted \in IF Cardinality(Bound) > limit
                    THEN {{v} : v \in LeastActive} ELSE {{}} :
       /\ bindings' = [l \in Keys |->
            IF l = k THEN [node |-> n, lastActiveAt |-> now]
            ELSE IF l \in evicted THEN Unbound ELSE bindings[l]]
       /\ nodeIndex' = [m \in NodeIds |-> (nodeIndex[m] \ evicted)
                                        \union IF m = n THEN {k} ELSE {}]
  /\ CheckCapacityWarning
  /\ UNCHANGED <<limit, now, saved>>

BindNew(k, n) ==
  /\ k \notin Bound
  /\ \E evicted \in IF Cardinality(Bound) >= limit
                    THEN {{v} : v \in LeastActive} ELSE {{}} :
       /\ bindings' = [l \in Keys |->
            IF l = k THEN [node |-> n, lastActiveAt |-> now]
            ELSE IF l \in evicted THEN Unbound ELSE bindings[l]]
       /\ nodeIndex' = [m \in NodeIds |-> (nodeIndex[m] \ evicted)
                                        \union IF m = n THEN {k} ELSE {}]
  /\ CheckCapacityWarning
  /\ UNCHANGED <<limit, now, saved>>

(* removeNode: the index alone says which conversations go.                 *)
RemoveNode(n) ==
  /\ nodeIndex[n] # {}
  /\ bindings' = [k \in Keys |-> IF k \in nodeIndex[n] THEN Unbound ELSE bindings[k]]
  /\ nodeIndex' = [nodeIndex EXCEPT ![n] = {}]
  /\ CheckCapacityWarning
  /\ UNCHANGED <<limit, now, saved>>

Sweep ==
  LET expired == {k \in Bound : bindings[k].lastActiveAt + Ttl < now}
  IN /\ bindings' = [k \in Keys |-> IF k \in expired THEN Unbound ELSE bindings[k]]
     /\ nodeIndex' = [n \in NodeIds |-> nodeIndex[n] \ expired]
     /\ CheckCapacityWarning
     /\ UNCHANGED <<limit, now, saved>>

(* clear, when the configured scope changes: the warning stays given.       *)
Clear ==
  /\ bindings' = [k \in Keys |-> Unbound]
  /\ nodeIndex' = [n \in NodeIds |-> {}]
  /\ UNCHANGED <<limit, capacityWarningEmitted, now, saved>>

(* updateConfig: a lower limit evicts nothing.                              *)
UpdateConfig ==
  /\ limit' \in Limits
  /\ UNCHANGED <<bindings, nodeIndex, capacityWarningEmitted, now, saved>>

Save ==
  /\ saved' = bindings
  /\ UNCHANGED <<bindings, nodeIndex, limit, capacityWarningEmitted, now>>

(* A new process, perhaps configured anew, calls fromSnapshot, which takes   *)
(* in every binding whatever the limit.                                     *)
Restart ==
  /\ bindings' = saved
  /\ nodeIndex' = [n \in NodeIds |-> {k \in BoundIn(saved) : saved[k].node = n}]
  /\ limit' \in Limits
  /\ capacityWarningEmitted' = FALSE
  /\ UNCHANGED <<now, saved>>

Tick ==
  /\ now < MaxTime
  /\ now' = now + 1
  /\ UNCHANGED <<bindings, nodeIndex, limit, capacityWarningEmitted, saved>>

Bind(k, n) == Rebind(k, n) \/ BindNew(k, n)

StoreNext ==
  \/ \E k \in Keys, n \in NodeIds : Bind(k, n)
  \/ \E n \in NodeIds : RemoveNode(n)
  \/ Sweep \/ Clear \/ UpdateConfig \/ Save \/ Restart \/ Tick

StoreSpec == StoreInit /\ [][StoreNext]_storeVars

-----------------------------------------------------------------------------
StoreTypeOK ==
  /\ bindings \in [Keys -> Binding \union {Unbound}]
  /\ nodeIndex \in [NodeIds -> SUBSET Keys]
  /\ limit \in Limits
  /\ capacityWarningEmitted \in BOOLEAN
  /\ now \in 0..MaxTime
  /\ saved \in [Keys -> Binding \union {Unbound}]

(* The reverse index names exactly the conversations bound to each node:    *)
(* bind, eviction, expiry and cleanup each change the two separately, and   *)
(* removeNode, which trusts the index, would leave or lose bindings if they *)
(* ever differed.                                                           *)
IndexAgrees == \A n \in NodeIds : nodeIndex[n] = {k \in Bound : bindings[k].node = n}

(* Only a restart puts more conversations into the store than the limit     *)
(* allows; while the gateway runs, a store over its limit (because the      *)
(* limit was lowered) does not grow.                                        *)
GrowsWithinLimit ==
  Cardinality(BoundIn(bindings')) > Cardinality(Bound)
    => Cardinality(BoundIn(bindings')) <= limit' \/ bindings' = saved

(* A conversation that makes room for another one was active no later than  *)
(* every conversation that stays.                                           *)
EvictsLeastActive ==
  \A k, l \in Keys :
    /\ k \in Bound /\ bindings'[k] = Unbound
    /\ l \in Bound /\ bindings'[l] = bindings[l]
    /\ \E new \in Keys \ Bound : new \in BoundIn(bindings')
    /\ bindings' # saved
    => bindings[k].lastActiveAt <= bindings[l].lastActiveAt

(* A full store makes room, for one conversation and with the least active  *)
(* one, whatever the limit and however it has changed.                      *)
MakesRoom == [][GrowsWithinLimit /\ EvictsLeastActive]_storeVars
=============================================================================
