---------------------------- MODULE PermissionChecks ----------------------------
(***************************************************************************)
(* The permission checks of a session (NexusPermissionsMiddleware,         *)
(* packages/middleware/src/permissions/middleware.ts): decisions are asked *)
(* of Nexus, cached for a time, and given up behind a circuit breaker; the *)
(* approvals of a person may be turned into a grant.  Calls under way      *)
(* outlive the session they were made for.  Timeouts are punctual.         *)
(***************************************************************************)
EXTENDS Integers

CONSTANTS
  Tools, Calls,
  failureThreshold, cooldown, cacheTTL, checkTimeout, grantTimeout,
  progressiveThreshold,
  MaxClock, MaxCheckSessions, MaxAllowed     \* bounds of this model

NoTime == -1

(* As validatePermissionsConfig and CIRCUIT_BREAKER_DEFAULTS have them.      *)
ASSUME PermissionAssumption ==
  /\ failureThreshold \in Nat \ {0} /\ cacheTTL \in Nat
  /\ checkTimeout \in Nat \ {0} /\ grantTimeout \in Nat \ {0}
  /\ MaxClock \in Nat /\ MaxCheckSessions \in Nat \ {0}

NoCall == [kind |-> "none", tool |-> "none", answer |-> "none", startedAt |-> 0,
           session |-> 0]
NoDecision == [result |-> "none", expiresAt |-> 0, session |-> 0]
ClosedCircuit == [state |-> "closed", consecutiveFailures |-> 0, lastFailureAt |-> 0]

VARIABLES
  clock,
  checkSession,     \* how many sessions have started
  policy,           \* (external) tool -> what Nexus says of the session's subject
  policyChangedAt,  \* history: tool -> when it last changed in this session
  permissionCache,  \* tool -> the decision kept
  approvalCounts,
  permissionBreaker,
  permissionCalls   \* call -> the check or grant it makes

permissionVars == <<clock, checkSession, policy, policyChangedAt, permissionCache,
                    approvalCounts, permissionBreaker, permissionCalls>>

PermissionInit ==
  /\ clock = 0 /\ checkSession = 1
  /\ policy = [t \in Tools |-> "deny"]
  /\ policyChangedAt = [t \in Tools |-> NoTime]
  /\ permissionCache = [t \in Tools |-> NoDecision]
  /\ approvalCounts = [t \in Tools |-> 0]
  /\ permissionBreaker = ClosedCircuit
  /\ permissionCalls = [c \in Calls |-> NoCall]

Timeout(call) == IF call.kind = "check" THEN checkTimeout ELSE grantTimeout

-----------------------------------------------------------------------------
(* resetState(), at the end of a session and the start of the next; what    *)
(* Nexus says of the new subject is independent of the old.                 *)
NextSession ==
  /\ checkSession < MaxCheckSessions
  /\ checkSession' = checkSession + 1
  /\ policy' \in [Tools -> {"allow", "deny"}]
  /\ policyChangedAt' = [t \in Tools |-> NoTime]
  /\ permissionCache' = [t \in Tools |-> NoDecision]
  /\ approvalCounts' = [t \in Tools |-> 0]
  /\ permissionBreaker' = ClosedCircuit
  /\ UNCHANGED <<clock, permissionCalls>>

-----------------------------------------------------------------------------
Starts(c, kind, t) ==
  /\ permissionCalls[c] = NoCall
  /\ permissionCalls' = [permissionCalls EXCEPT ![c] =
       [kind |-> kind, tool |-> t, answer |-> "none", startedAt |-> clock,
        session |-> checkSession]]

CoolsDown == permissionBreaker.state = "open" /\
               clock - permissionBreaker.lastFailureAt < cooldown
Cached(t) == permissionCache[t] # NoDecision /\ clock < permissionCache[t].expiresAt

(* A check the cache answers, or the breaker keeps from Nexus: only an      *)
(* expired entry goes.                                                      *)
CheckAnsweredHere(t) ==
  /\ permissionCache[t] # NoDecision /\ ~Cached(t) /\ CoolsDown
  /\ permissionCache' = [permissionCache EXCEPT ![t] = NoDecision]
  /\ UNCHANGED <<clock, checkSession, policy, policyChangedAt, approvalCounts,
                 permissionBreaker, permissionCalls>>

(* isCircuitOpen lets the check through: after the cooldown, and for as     *)
(* long as the breaker is half-open.                                        *)
Check(c, t) ==
  /\ ~Cached(t) /\ ~CoolsDown
  /\ Starts(c, "check", t)
  /\ permissionCache' = [permissionCache EXCEPT ![t] = NoDecision]
  /\ permissionBreaker' =
       [permissionBreaker EXCEPT !.state = IF @ = "open" THEN "half-open" ELSE @]
  /\ UNCHANGED <<clock, checkSession, policy, policyChangedAt, approvalCounts>>

(* A person allows a tool with the pattern "ask": the approvals are turned  *)
(* into a grant, again each time once there are enough.                     *)
AskAllowed(c, t) ==
  /\ approvalCounts[t] < MaxAllowed
  /\ approvalCounts' = [approvalCounts EXCEPT ![t] = @ + 1]
  /\ IF approvalCounts'[t] >= progressiveThreshold THEN Starts(c, "grant", t)
     ELSE UNCHANGED permissionCalls
  /\ UNCHANGED <<clock, checkSession, policy, policyChangedAt, permissionCache,
                 permissionBreaker>>

-----------------------------------------------------------------------------
Says(t, decision) ==
  /\ policy' = [policy EXCEPT ![t] = decision]
  /\ policyChangedAt' = [policyChangedAt EXCEPT ![t] = IF policy[t] = decision THEN @
                                                       ELSE clock]

(* (external) Nexus answers; a grant changes what it says of the subject    *)
(* the grant was asked for.                                                 *)
NexusAnswers(c) ==
  LET call == permissionCalls[c] IN
  /\ call # NoCall /\ call.answer = "none"
  /\ permissionCalls' = [permissionCalls EXCEPT ![c].answer =
       IF call.kind = "grant" THEN "allow" ELSE policy[call.tool]]
  /\ IF call.kind = "grant" /\ call.session = checkSession THEN Says(call.tool, "allow")
     ELSE UNCHANGED <<policy, policyChangedAt>>
  /\ UNCHANGED <<clock, checkSession, permissionCache, approvalCounts, permissionBreaker>>

PolicyChanges(t) ==
  /\ Says(t, IF policy[t] = "allow" THEN "deny" ELSE "allow")
  /\ UNCHANGED <<clock, checkSession, permissionCache, approvalCounts, permissionBreaker,
                 permissionCalls>>

CachePermissionByAnswer(call) ==   \* mutant: a grant is cached for ever
  permissionCache' = [permissionCache EXCEPT ![call.tool] =
    [result |-> call.answer, session |-> call.session,
     expiresAt |-> IF call.kind = "grant" THEN MaxClock + cacheTTL ELSE clock + cacheTTL]]

CachePermission(call) ==
  permissionCache' = [permissionCache EXCEPT ![call.tool] =
    [result |-> call.answer, session |-> call.session, expiresAt |-> clock + cacheTTL]]

CheckAnswered(c) ==
  LET call == permissionCalls[c] IN
  /\ call # NoCall /\ call.answer # "none"
  /\ permissionCalls' = [permissionCalls EXCEPT ![c] = NoCall]
  /\ CachePermission(call)
  /\ permissionBreaker' = IF call.kind = "check" THEN ClosedCircuit ELSE permissionBreaker
  /\ UNCHANGED <<clock, checkSession, policy, policyChangedAt, approvalCounts>>

CountFailureOnce(b) ==    \* mutant: only the failure that reaches the threshold opens
  [state |-> IF b.consecutiveFailures + 1 = failureThreshold THEN "open" ELSE b.state,
   consecutiveFailures |-> b.consecutiveFailures + 1, lastFailureAt |-> clock]

CountFailure(b) ==
  [state |-> IF b.consecutiveFailures + 1 >= failureThreshold THEN "open" ELSE b.state,
   consecutiveFailures |-> b.consecutiveFailures + 1, lastFailureAt |-> clock]

(* An error or the timeout, whether Nexus did what it was asked or not.     *)
CheckFails(c) ==
  /\ permissionCalls[c] # NoCall
  /\ permissionCalls' = [permissionCalls EXCEPT ![c] = NoCall]
  /\ permissionBreaker' = IF permissionCalls[c].kind = "check"
                          THEN CountFailure(permissionBreaker) ELSE permissionBreaker
  /\ UNCHANGED <<clock, checkSession, policy, policyChangedAt, permissionCache,
                 approvalCounts>>

ClockTicks ==
  /\ clock < MaxClock
  /\ \A c \in Calls : permissionCalls[c] # NoCall =>
       clock < permissionCalls[c].startedAt + Timeout(permissionCalls[c])
  /\ clock' = clock + 1
  /\ UNCHANGED <<checkSession, policy, policyChangedAt, permissionCache, approvalCounts,
                 permissionBreaker, permissionCalls>>

PermissionNext ==
  \/ NextSession \/ ClockTicks
  \/ \E t \in Tools : CheckAnsweredHere(t) \/ PolicyChanges(t)
  \/ \E c \in Calls, t \in Tools : Check(c, t) \/ AskAllowed(c, t)
  \/ \E c \in Calls : NexusAnswers(c) \/ CheckAnswered(c) \/ CheckFails(c)

PermissionSpec == PermissionInit /\ [][PermissionNext]_permissionVars

-----------------------------------------------------------------------------
PermissionTypeOK ==
  /\ clock \in 0..MaxClock /\ checkSession \in 1..MaxCheckSessions
  /\ policy \in [Tools -> {"allow", "deny"}]
  /\ \A t \in Tools : permissionCache[t].result \in {"none", "allow", "deny"}
  /\ permissionBreaker.state \in {"closed", "open", "half-open"}
  /\ \A c \in Calls : permissionCalls[c] # NoCall =>
       permissionCalls[c].kind \in {"check", "grant"}

(* A decision still in force was Nexus's no longer ago than the time it is  *)
(* cached and a call takes, unless the call was made for an earlier session.*)
(* The breaker is closed only below the threshold, and half-open only while *)
(* a check of the session is under way that will settle it.                 *)
PermissionsAreFresh ==
  /\ \A t \in Tools :
       LET entry == permissionCache[t] IN
       Cached(t) /\ entry.session = checkSession =>
         \/ policy[t] = entry.result
         \/ /\ policyChangedAt[t] # NoTime
            /\ clock < policyChangedAt[t] + cacheTTL
                        + (IF checkTimeout > grantTimeout THEN checkTimeout ELSE grantTimeout)
  /\ permissionBreaker.state = "closed" =>
       permissionBreaker.consecutiveFailures < failureThreshold
  /\ permissionBreaker.state = "half-open" =>
       \E c \in Calls : /\ permissionCalls[c].kind = "check"
                        /\ permissionCalls[c].session = checkSession
=============================================================================
