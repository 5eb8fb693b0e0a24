------------------------------- MODULE SpawnGuard --------------------------------
(***************************************************************************)
(* The limits on sub-agents (packages/engine/src/spawn-guard.ts, and the   *)
(* middleware over it): a guard counts the children that are active, per   *)
(* parent and in all.  A caller checks and records at once, or checks,     *)
(* waits (for hooks, for the artifact of the agent) and records then.  A   *)
(* new session resets the counts while children of the last one may still  *)
(* be running, and they report their completion all the same.              *)
(***************************************************************************)
EXTENDS FiniteSets, Functions, Naturals

CONSTANTS
  Children,         \* spawns, each made once
  Parents, Parent,  \* Parent[c]: the agent that spawns c
  Depth,            \* Depth[c]: how deep c is
  maxSpawnDepth, maxChildrenPerAgent, maxConcurrent,
  MaxResets         \* bound on the sessions

ASSUME GuardAssumption ==
  /\ IsFiniteSet(Children) /\ IsFiniteSet(Parents)
  /\ Parent \in [Children -> Parents] /\ Depth \in [Children -> Nat]
  /\ maxSpawnDepth \in Nat /\ maxChildrenPerAgent \in Nat /\ maxConcurrent \in Nat
  /\ MaxResets \in Nat

VARIABLES
  atomic,           \* does the caller use checkAndRecord?
  child,            \* child -> "new", "checked", "refused", "running" or "done"
  activeConcurrent, activeByParent,
  resets,
  strangers         \* history: children that ran when the counts were reset

guardVars == <<atomic, child, activeConcurrent, activeByParent, resets, strangers>>

GuardInit ==
  /\ atomic \in BOOLEAN
  /\ child = [c \in Children |-> "new"]
  /\ activeConcurrent = 0
  /\ activeByParent = [p \in Parents |-> 0]
  /\ resets = 0 /\ strangers = {}

RunningOf(p) == {c \in Children : child[c] = "running" /\ Parent[c] = p}

-----------------------------------------------------------------------------
Allowed(c) ==
  /\ Depth[c] <= maxSpawnDepth
  /\ activeByParent[Parent[c]] < maxChildrenPerAgent
  /\ activeConcurrent < maxConcurrent

RecordSpawn(c) ==
  /\ child' = [child EXCEPT ![c] = "running"]
  /\ activeByParent' = [activeByParent EXCEPT ![Parent[c]] = @ + 1]
  /\ activeConcurrent' = activeConcurrent + 1
  /\ UNCHANGED <<atomic, resets, strangers>>

Becomes(c, state) ==
  /\ child' = [child EXCEPT ![c] = state]
  /\ UNCHANGED <<atomic, activeConcurrent, activeByParent, resets, strangers>>

CheckAndRecord(c) == atomic /\ Allowed(c) /\ RecordSpawn(c)

CheckSpawn(c) ==
  \/ ~Allowed(c) /\ Becomes(c, "refused")
  \/ Allowed(c) /\ ~atomic /\ Becomes(c, "checked")

(* What was awaited says yes or no.                                         *)
Resolved(c) == child[c] = "checked" /\ (RecordSpawn(c) \/ Becomes(c, "refused"))

(* recordCompletion: nothing is counted down for a parent without children. *)
RecordCompletionBlind(c) ==     \* mutant: the total is counted down in any case
  /\ child[c] = "running"
  /\ child' = [child EXCEPT ![c] = "done"]
  /\ activeConcurrent' = IF activeConcurrent = 0 THEN 0 ELSE activeConcurrent - 1
  /\ activeByParent' = [activeByParent EXCEPT ![Parent[c]] = IF @ = 0 THEN 0 ELSE @ - 1]
  /\ UNCHANGED <<atomic, resets, strangers>>

RecordCompletion(c) ==
  /\ child[c] = "running"
  /\ child' = [child EXCEPT ![c] = "done"]
  /\ IF activeByParent[Parent[c]] = 0 THEN UNCHANGED <<activeConcurrent, activeByParent>>
     ELSE /\ activeByParent' = [activeByParent EXCEPT ![Parent[c]] = @ - 1]
          /\ activeConcurrent' = IF activeConcurrent = 0 THEN 0 ELSE activeConcurrent - 1
  /\ UNCHANGED <<atomic, resets, strangers>>

(* onSessionStart.                                                          *)
Reset ==
  /\ resets < MaxResets
  /\ resets' = resets + 1
  /\ activeConcurrent' = 0
  /\ activeByParent' = [p \in Parents |-> 0]
  /\ strangers' = strangers \union {c \in Children : child[c] = "running"}
  /\ UNCHANGED <<atomic, child>>

GuardNext ==
  \/ \E c \in Children :
       \/ child[c] = "new" /\ (CheckAndRecord(c) \/ CheckSpawn(c))
       \/ Resolved(c) \/ RecordCompletion(c)
  \/ Reset

GuardSpec == GuardInit /\ [][GuardNext]_guardVars

-----------------------------------------------------------------------------
GuardTypeOK ==
  /\ atomic \in BOOLEAN
  /\ child \in [Children -> {"new", "checked", "refused", "running", "done"}]
  /\ activeConcurrent \in 0..Cardinality(Children)
  /\ activeByParent \in [Parents -> 0..Cardinality(Children)]
  /\ resets \in 0..MaxResets /\ strangers \subseteq Children

(* The total is the sum over the parents.  A parent's count is never more   *)
(* than its running children, it leaves out at most as many as ran when the *)
(* counts were reset, and is exact before any reset.  With checkAndRecord   *)
(* the counts keep the limits whatever is reset, and so do the children     *)
(* themselves while nothing is.                                             *)
CountsAreOfChildren ==
  /\ activeConcurrent = SumFunction(activeByParent)
  /\ \A p \in Parents :
       LET running == Cardinality(RunningOf(p))
           unknown == Cardinality({c \in strangers : Parent[c] = p})
       IN activeByParent[p] <= running /\ running <= activeByParent[p] + unknown
  /\ atomic => /\ activeConcurrent <= maxConcurrent
               /\ \A p \in Parents : activeByParent[p] <= maxChildrenPerAgent
=============================================================================
