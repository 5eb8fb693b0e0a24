------------------------------ MODULE Delegation ------------------------------
(***************************************************************************)
(* Task delegation (packages/gateway/src/delegation-manager.ts): a node    *)
(* asks the gateway to have a task done by a primary node, or by the first *)
(* of its fallbacks that does it.  One promise per delegation walks along  *)
(* the route; frames, timers, cancellations and departing nodes settle the *)
(* attempt it waits for.                                                   *)
(*                                                                         *)
(* The event loop runs every continuation of a settled promise before the  *)
(* next frame or timer: a delegation that is "next" or "settled" goes on   *)
(* before anything else may happen (Quiet).                                *)
(***************************************************************************)
EXTENDS Naturals, Sequences, FiniteSets

CONSTANTS Peers,
          Delegations,            \* delegation ids; each is requested once
          From,                   \* delegation -> the node that asks
          Route,                  \* delegation -> primary and fallback nodes
          MaxActive, MaxPerNode,  \* maxActiveDelegations, maxPerNodeDelegations
          Threshold               \* of the circuit breakers

ASSUME RequestsAssumption == /\ From \in [Delegations -> Peers]
                             /\ Route \in [Delegations -> Seq(Peers) \ {<<>>}]
ASSUME BoundsAssumption == /\ MaxActive \in Nat /\ MaxPerNode \in Nat
                           /\ Threshold \in Nat \ {0}

VARIABLES
  useStore,     \* was a DelegationStore injected?
  nodes,        \* as in NodeRegistry
  phase,        \* delegation -> "idle", "storing" (awaits storeCreate), "next"
                \*   (about to try a node), "waiting" (for the node), "settled"
                \*   (the wait is over) or "done"
  attempt,      \* delegation -> index in its route
  reply,        \* delegation -> what settled the wait
  answer,       \* delegation -> status of the result sent to the requester
  late,         \* delegations with less than minNodeTimeoutMs left
  aborted,      \* delegations whose abort signal fired
  delegations,  \* the map of active delegations
  counts,       \* node -> nodeActiveCounts
  fromCount,    \* delegation -> the count read before storeCreate
  askedNodes,   \* delegation -> nodes that were sent the request and not heard
  failures,     \* node -> consecutive failures, up to Threshold
  cooling       \* nodes whose last failure is less than cooldownMs ago

progress == <<phase, attempt, reply, answer, late, aborted, fromCount, askedNodes>>
breakers == <<failures, cooling>>
delegationVars == <<useStore, nodes, progress, delegations, counts, breakers>>

Registry == INSTANCE NodeRegistry WITH
              Nodes <- Peers, Agents <- {}, AgentIds <- [n \in Peers |-> {}], agentIndex <- <<>>

Running(d) == phase[d] \in {"next", "waiting", "settled"}
Quiet      == \A d \in Delegations : phase[d] \notin {"next", "settled"}
Target(d)  == Route[d][attempt[d]]
NoReply    == [status |-> "none"]

-----------------------------------------------------------------------------
(* circuit-breaker.ts.  An open breaker becomes half-open when its cooldown *)
(* is over, and tryNode, which asks whether it is open, lets all through.   *)
BreakerOpen(n) == failures[n] = Threshold /\ n \in cooling

RecordFailure(n) ==
  /\ failures' = [failures EXCEPT ![n] = IF @ < Threshold THEN @ + 1 ELSE @]
  /\ cooling' = cooling \union {n}

RecordSuccess(n) ==
  /\ failures' = [failures EXCEPT ![n] = 0]
  /\ cooling' = cooling \ {n}

-----------------------------------------------------------------------------
DelegationInit ==
  /\ useStore \in BOOLEAN
  /\ nodes = [n \in Peers |-> "absent"]
  /\ phase = [d \in Delegations |-> "idle"]
  /\ attempt = [d \in Delegations |-> 1]
  /\ reply = [d \in Delegations |-> NoReply]
  /\ answer = [d \in Delegations |-> "none"]
  /\ late = {}
  /\ aborted = {}
  /\ delegations = {}
  /\ counts = [n \in Peers |-> 0]
  /\ fromCount = [d \in Delegations |-> 0]
  /\ askedNodes = [d \in Delegations |-> {}]
  /\ failures = [n \in Peers |-> 0]
  /\ cooling = {}

(* cleanup, for every delegation of S.                                      *)
CleanupKeepsEntry(S) ==   \* mutant: the entry of the map is not deleted
  /\ UNCHANGED delegations
  /\ counts' = [n \in Peers |->
       LET ended == Cardinality({d \in S : From[d] = n})
       IN IF counts[n] > ended THEN counts[n] - ended ELSE 0]

CleanupKeepsCount(S) ==   \* mutant: the count is not decremented
  /\ delegations' = delegations \ S
  /\ UNCHANGED counts

CleanupUnfloored(S) ==    \* mutant: the count is not kept from going below zero
  /\ delegations' = delegations \ S
  /\ counts' = [n \in Peers |-> counts[n] - Cardinality({d \in S : From[d] = n})]

Cleanup(S) ==
  /\ delegations' = delegations \ S
  /\ counts' = [n \in Peers |->
       LET ended == Cardinality({d \in S : From[d] = n})
       IN IF counts[n] > ended THEN counts[n] - ended ELSE 0]

(* delegate, once it may go on: the delegation is entered with the count    *)
(* that was read before the store was asked, and tries its primary next.    *)
Enter(d, count) ==
  /\ delegations' = delegations \union {d}
  /\ counts' = [counts EXCEPT ![From[d]] = count + 1]
  /\ phase' = [phase EXCEPT ![d] = "next"]

DelegateUnchecked(d) ==  \* mutant: the total is not limited
  /\ Quiet
  /\ phase[d] = "idle" /\ Registry!Registered(From[d])
  /\ \/ /\ counts[From[d]] >= MaxPerNode
        /\ phase' = [phase EXCEPT ![d] = "done"]
        /\ answer' = [answer EXCEPT ![d] = "failed"]
        /\ UNCHANGED <<delegations, counts, fromCount, late>>
     \/ /\ counts[From[d]] < MaxPerNode
        /\ fromCount' = [fromCount EXCEPT ![d] = counts[From[d]]]
        /\ Enter(d, counts[From[d]])
        /\ late' \in {late, late \union {d}}
        /\ UNCHANGED answer
  /\ UNCHANGED <<nodes, attempt, reply, aborted, askedNodes, breakers>>

(* handleDelegationRequest and delegate up to its first await.              *)
Delegate(d) ==
  /\ Quiet
  /\ phase[d] = "idle" /\ Registry!Registered(From[d])
  /\ \/ /\ Cardinality(delegations) >= MaxActive \/ counts[From[d]] >= MaxPerNode
        /\ phase' = [phase EXCEPT ![d] = "done"]
        /\ answer' = [answer EXCEPT ![d] = "failed"]
        /\ UNCHANGED <<delegations, counts, fromCount, late>>
     \/ /\ Cardinality(delegations) < MaxActive /\ counts[From[d]] < MaxPerNode
        /\ fromCount' = [fromCount EXCEPT ![d] = counts[From[d]]]
        /\ IF useStore THEN /\ phase' = [phase EXCEPT ![d] = "storing"]
                            /\ UNCHANGED <<delegations, counts>>
                       ELSE Enter(d, counts[From[d]])
        /\ late' \in {late, late \union {d}}
        /\ UNCHANGED answer
  /\ UNCHANGED <<nodes, attempt, reply, aborted, askedNodes, breakers>>

(* storeCreate is over: created, refused, or timed out.                     *)
StoreCreated(d) ==
  /\ Quiet
  /\ phase[d] = "storing"
  /\ Enter(d, fromCount[d])
  /\ UNCHANGED <<nodes, attempt, reply, answer, late, aborted, fromCount, askedNodes,
                 breakers>>

-----------------------------------------------------------------------------
(* tryNode and the loop around it.                                          *)

Skip(d) == attempt' = [attempt EXCEPT ![d] = @ + 1] /\ UNCHANGED <<phase, askedNodes>>

Ask(d) ==
  /\ phase' = [phase EXCEPT ![d] = "waiting"]
  /\ askedNodes' = [askedNodes EXCEPT ![d] = @ \union {Target(d)}]
  /\ UNCHANGED attempt

TryUnaborted(d) ==  \* mutant: the abort signal is not looked at
  /\ phase[d] = "next"
  /\ attempt[d] <= Len(Route[d])
  /\ \/ BreakerOpen(Target(d)) /\ Skip(d) /\ UNCHANGED breakers
     \/ ~BreakerOpen(Target(d)) /\ nodes[Target(d)] # "alive" /\ Skip(d) /\ RecordFailure(Target(d))
     \/ /\ ~BreakerOpen(Target(d)) /\ nodes[Target(d)] = "alive"
        /\ IF d \in late THEN Skip(d) ELSE Ask(d)
        /\ UNCHANGED breakers
  /\ UNCHANGED <<nodes, reply, answer, late, aborted, fromCount, delegations, counts>>

Try(d) ==
  /\ phase[d] = "next"
  /\ attempt[d] <= Len(Route[d]) /\ d \notin aborted
  /\ \/ BreakerOpen(Target(d)) /\ Skip(d) /\ UNCHANGED breakers
     \/ ~BreakerOpen(Target(d)) /\ nodes[Target(d)] # "alive" /\ Skip(d) /\ RecordFailure(Target(d))
     \/ /\ ~BreakerOpen(Target(d)) /\ nodes[Target(d)] = "alive"
        /\ IF d \in late THEN Skip(d) ELSE Ask(d)
        /\ UNCHANGED breakers
  /\ UNCHANGED <<nodes, reply, answer, late, aborted, fromCount, delegations, counts>>

(* Nobody is left to try, or the signal fired.                              *)
Finish(d) ==
  /\ phase[d] = "next"
  /\ attempt[d] > Len(Route[d]) \/ d \in aborted
  /\ Cleanup({d})
  /\ phase' = [phase EXCEPT ![d] = "done"]
  /\ answer' = [answer EXCEPT ![d] = IF d \in aborted THEN "timeout" ELSE "failed"]
  /\ UNCHANGED <<nodes, attempt, reply, late, aborted, fromCount, askedNodes, breakers>>

(* The wait is over: a completed task ends the delegation, anything else is *)
(* a failure of the node it waited for.                                     *)
Resume(d) ==
  /\ phase[d] = "settled"
  /\ \/ /\ reply[d].status = "completed"
        /\ RecordSuccess(Target(d))
        /\ Cleanup({d})
        /\ phase' = [phase EXCEPT ![d] = "done"]
        /\ answer' = [answer EXCEPT ![d] = "completed"]
        /\ UNCHANGED <<attempt, late>>
     \/ /\ reply[d].status # "completed"
        /\ RecordFailure(Target(d))
        /\ phase' = [phase EXCEPT ![d] = "next"]
        /\ attempt' = [attempt EXCEPT ![d] = @ + 1]
        /\ late' \in {late, late \union {d}}
        /\ UNCHANGED <<delegations, counts, answer>>
  /\ UNCHANGED <<nodes, reply, aborted, fromCount, askedNodes>>

-----------------------------------------------------------------------------
(* What settles a wait.                                                     *)

Settle(S, value) ==
  LET waiting == {d \in S : phase[d] = "waiting"} IN
  /\ phase' = [d \in Delegations |-> IF d \in waiting THEN "settled" ELSE phase[d]]
  /\ reply' = [d \in Delegations |-> IF d \in waiting THEN value ELSE reply[d]]

(* A result frame of a node that was asked.  The manager looks only at the  *)
(* delegation it names.                                                     *)
Result(d, n, status) ==
  /\ Quiet
  /\ n \in askedNodes[d] /\ Registry!Registered(n)
  /\ askedNodes' = [askedNodes EXCEPT ![d] = @ \ {n}]
  /\ IF d \in delegations THEN Settle({d}, [status |-> status, node |-> n])
                          ELSE UNCHANGED <<phase, reply>>
  /\ UNCHANGED <<nodes, attempt, answer, late, aborted, fromCount, delegations, counts,
                 breakers>>

NodeTimeout(d) ==
  /\ Quiet
  /\ phase[d] = "waiting"
  /\ Settle({d}, NoReply)
  /\ UNCHANGED <<nodes, attempt, answer, late, aborted, fromCount, askedNodes, delegations,
                 counts, breakers>>

OverallTimeoutUnheard(d) ==  \* mutant: the wait does not listen to the signal
  /\ Quiet
  /\ phase[d] = "waiting"
  /\ aborted' = aborted \union {d}
  /\ UNCHANGED <<nodes, phase, reply, attempt, answer, late, fromCount, askedNodes, delegations,
                 counts, breakers>>

OverallTimeout(d) ==
  /\ Quiet
  /\ phase[d] = "waiting"
  /\ aborted' = aborted \union {d}
  /\ Settle({d}, NoReply)
  /\ UNCHANGED <<nodes, attempt, answer, late, fromCount, askedNodes, delegations, counts,
                 breakers>>

(* cancel, for every delegation of S.                                       *)
CancelAll(S) ==
  /\ aborted' = aborted \union S
  /\ Settle(S, NoReply)
  /\ Cleanup(S)
  /\ UNCHANGED <<attempt, answer, late, fromCount, askedNodes, breakers>>

Cancel(d) ==
  /\ Quiet
  /\ d \in delegations
  /\ \E n \in Peers : Registry!Registered(n)
  /\ CancelAll({d})
  /\ UNCHANGED nodes

(* cleanupNode: the delegations a node has asked for or is working on.      *)
InvolvingAsker(S) == {d \in delegations : From[d] \in S}  \* mutant: only those it asked for

Involving(S) ==
  {d \in delegations : From[d] \in S \/ Target(d) \in S}

DisposeDelegations ==
  /\ Quiet
  /\ aborted' = aborted \union delegations
  /\ Settle(delegations, NoReply)
  /\ delegations' = {}
  /\ counts' = [n \in Peers |-> 0]
  /\ UNCHANGED <<nodes, attempt, answer, late, fromCount, askedNodes, breakers>>

-----------------------------------------------------------------------------
(* The rest of the gateway: nodes come, leave, answer pings; the health     *)
(* sweep cancels delegations past their TTL (any may be) and reaps nodes.   *)

NodeJoins(n) ==
  /\ Quiet
  /\ Registry!Register(n)
  /\ UNCHANGED <<progress, delegations, counts, breakers>>

NodeLeaves(n) ==
  /\ Quiet
  /\ CancelAll(Involving({n}))
  /\ Registry!Deregister({n})

Pong(n) ==
  /\ Quiet
  /\ nodes[n] = "suspect"
  /\ Registry!MarkAlive(n)
  /\ UNCHANGED <<progress, delegations, counts, breakers>>

HealthSweep ==
  /\ Quiet
  /\ \E expired \in SUBSET delegations : CancelAll(expired \union Involving(Registry!Dead))
  /\ Registry!SweepNodes

Cooldown(n) ==
  /\ n \in cooling
  /\ cooling' = cooling \ {n}
  /\ UNCHANGED <<nodes, progress, delegations, counts, failures>>

-----------------------------------------------------------------------------
Statuses == {"completed", "refused", "failed"}

Step(d) ==
  \/ Delegate(d) \/ StoreCreated(d) \/ Try(d) \/ Finish(d) \/ Resume(d)
  \/ NodeTimeout(d) \/ OverallTimeout(d) \/ Cancel(d)
  \/ \E n \in Peers, s \in Statuses : Result(d, n, s)

DelegationNext ==
  /\ \/ \E d \in Delegations : Step(d)
     \/ \E n \in Peers : NodeJoins(n) \/ NodeLeaves(n) \/ Pong(n) \/ Cooldown(n)
     \/ HealthSweep \/ DisposeDelegations
  /\ UNCHANGED useStore

DelegationSpec == DelegationInit /\ [][DelegationNext]_delegationVars

(* Continuations run, and the timers around the store and the delegation    *)
(* fire.  Nothing is promised about nodes, frames or the store.             *)
Continues(d) == (Try(d) \/ Finish(d) \/ Resume(d)) /\ UNCHANGED useStore
StoreAnswers(d) == StoreCreated(d) /\ UNCHANGED useStore
Expires(d) == OverallTimeout(d) /\ UNCHANGED useStore
DelegationFairness ==
  \A d \in Delegations : /\ WF_delegationVars(Continues(d))
                         /\ WF_delegationVars(StoreAnswers(d))
                         /\ WF_delegationVars(Expires(d))
FairDelegationSpec == DelegationSpec /\ DelegationFairness

-----------------------------------------------------------------------------
(* Type invariant. *)
DelegationTypeOK ==
  /\ useStore \in BOOLEAN
  /\ nodes \in [Peers -> {"absent", "alive", "suspect"}]
  /\ phase \in [Delegations -> {"idle", "storing", "next", "waiting", "settled", "done"}]
  /\ \A d \in Delegations : attempt[d] \in 1 .. Len(Route[d]) + 1
  /\ reply \in [Delegations -> {NoReply} \union [status : Statuses, node : Peers]]
  /\ answer \in [Delegations -> {"none", "timeout"} \union Statuses]
  /\ late \in SUBSET Delegations /\ aborted \in SUBSET Delegations
  /\ delegations \in SUBSET Delegations
  /\ counts \in [Peers -> 0 .. MaxPerNode]
  /\ fromCount \in [Delegations -> 0 .. MaxPerNode]
  /\ askedNodes \in [Delegations -> SUBSET Peers]
  /\ failures \in [Peers -> 0 .. Threshold]
  /\ cooling \in SUBSET Peers

(* The map holds exactly the delegations in progress, the aborted ones       *)
(* excepted: an entry never outlives its promise, whoever ended it (result, *)
(* timeout, cancel, departure, sweep, dispose), so it cannot use up the     *)
(* capacity of the gateway for good.                                        *)
NoOrphans ==
  \A d \in Delegations : /\ d \in delegations => Running(d)
                         /\ Running(d) => d \in delegations \union aborted

(* A delegation never waits for a node that has left the gateway.           *)
WaitsForRegistered ==
  \A d \in Delegations : phase[d] = "waiting" => Registry!Registered(Target(d))

(* The delegations in progress are those of the map, and wait for nodes      *)
(* that are there.                                                           *)
InProgressIsLive == NoOrphans /\ WaitsForRegistered

(* When no store is asked before a delegation is counted, a node is never    *)
(* refused for its own limit without having that many in progress, and the   *)
(* gateway as a whole keeps to its limit.                                   *)
CountsAreSafe ==
  ~useStore => /\ \A n \in Peers :
                    counts[n] <= Cardinality({d \in delegations : From[d] = n})
               /\ Cardinality(delegations) <= MaxActive

(* Once its signal has fired a delegation asks nobody else.                 *)
AbortedIsQuiet ==
  [][\A d \in aborted : askedNodes'[d] \subseteq askedNodes[d]]_delegationVars

(* Every request gets its result, whatever the nodes and the store do: a     *)
(* moment comes at which none is without.                                   *)
Unanswered == \E d \in Delegations : phase[d] # "idle" /\ answer[d] = "none"
EveryRequestAnswered == Unanswered ~> ~Unanswered

-----------------------------------------------------------------------------
(* What the source says and the code does not do.                           *)

(* delegation-manager.ts:28: maxPerNodeDelegations.                         *)
PerNodeLimit ==
  \A n \in Peers : Cardinality({d \in delegations : From[d] = n}) <= MaxPerNode
=============================================================================
