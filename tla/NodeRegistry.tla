----------------------------- MODULE NodeRegistry -----------------------------
(***************************************************************************)
(* The registry of connected nodes (packages/gateway/src/registry): which  *)
(* nodes are registered, whether each answered the last ping, and the      *)
(* reverse index from a logical agent id to the node that serves it.       *)
(***************************************************************************)
EXTENDS Naturals

CONSTANTS Nodes, Agents,
          AgentIds      \* node -> the agent ids its capabilities declare

NoNode == "no node"

VARIABLES
  nodes,       \* node -> "absent", or registered: "alive", or "suspect"
               \*   when it has not answered since it was last pinged
  agentIndex   \* agent -> node serving it, or NoNode

vars == <<nodes, agentIndex>>

Registered(n) == nodes[n] # "absent"
RegisteredNodes == {n \in Nodes : Registered(n)}

Init ==
  /\ nodes = [n \in Nodes |-> "absent"]
  /\ agentIndex = [a \in Agents |-> NoNode]

(* register throws on a registered node; otherwise the last registrant of   *)
(* an agent id takes its entry over.                                        *)
Register(n) ==
  /\ ~Registered(n)
  /\ nodes' = [nodes EXCEPT ![n] = "alive"]
  /\ agentIndex' = [a \in Agents |-> IF a \in AgentIds[n] THEN n ELSE agentIndex[a]]

DeregisterStale(S) ==    \* mutant: the reverse index keeps the entries
  /\ S \subseteq RegisteredNodes
  /\ nodes' = [n \in Nodes |-> IF n \in S THEN "absent" ELSE nodes[n]]
  /\ UNCHANGED agentIndex

(* deregister, for every node of S: the entries each still owns go with it. *)
Deregister(S) ==
  /\ S \subseteq RegisteredNodes
  /\ nodes' = [n \in Nodes |-> IF n \in S THEN "absent" ELSE nodes[n]]
  /\ agentIndex' = [a \in Agents |->
       IF \E n \in S : agentIndex[a] = n /\ a \in AgentIds[n]
       THEN NoNode ELSE agentIndex[a]]

MarkAlive(n) ==
  /\ nodes' = IF Registered(n) THEN [nodes EXCEPT ![n] = "alive"] ELSE nodes
  /\ UNCHANGED agentIndex

(* HealthMonitor.sweep: a node still "suspect" since the previous sweep is   *)
(* dead and its handler deregisters it; every other one is pinged and has   *)
(* until the next sweep to answer.                                          *)
Dead == {n \in Nodes : nodes[n] = "suspect"}

SweepNodesMarked ==      \* mutant: a dead node is marked again and never reaped
  /\ nodes' = [n \in Nodes |-> IF Registered(n) THEN "suspect" ELSE "absent"]
  /\ UNCHANGED agentIndex

SweepNodes ==
  /\ nodes' = [n \in Nodes |-> IF nodes[n] = "alive" THEN "suspect" ELSE "absent"]
  /\ agentIndex' = [a \in Agents |->
       IF \E n \in Dead : agentIndex[a] = n /\ a \in AgentIds[n]
       THEN NoNode ELSE agentIndex[a]]

Clear ==
  /\ nodes' = [n \in Nodes |-> "absent"]
  /\ agentIndex' = [a \in Agents |-> NoNode]

Next ==
  \/ \E n \in Nodes : Register(n) \/ MarkAlive(n)
  \/ \E n \in Nodes : Deregister({n})
  \/ SweepNodes
  \/ Clear

Spec == Init /\ [][Next]_vars

-----------------------------------------------------------------------------
(* Type invariant. *)
TypeOK ==
  /\ nodes \in [Nodes -> {"absent", "alive", "suspect"}]
  /\ agentIndex \in [Agents -> Nodes \union {NoNode}]

(* resolveAgent never answers with a node that has left, or that does not   *)
(* serve the agent: whatever the order in which nodes that share agent ids  *)
(* came and went, routing by agent reaches a registered node.               *)
AgentIndexSound ==
  \A a \in Agents : agentIndex[a] # NoNode =>
    Registered(agentIndex[a]) /\ a \in AgentIds[agentIndex[a]]
=============================================================================
