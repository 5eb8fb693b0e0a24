------------------------------ MODULE ModelRouter ------------------------------
(***************************************************************************)
(* The model router (packages/model-router/src/router.ts) with its circuit *)
(* breakers (circuit-breaker.ts) and key pools (key-pool.ts), and several  *)
(* requests at a time, complete() and stream() alike.                      *)
(*                                                                         *)
(* A request runs alone from one await to the next: `active' is the one   *)
(* that does.  It awaits the provider and the backoff.  Timeouts, windows  *)
(* and cooldowns have run out or not, whenever the code looks.             *)
(***************************************************************************)
EXTENDS Lists

CONSTANTS
  Requests,
  Providers,            \* those with an implementation
  Chains,               \* what the strategy and onPreModelSelect may choose
  PoolKeys,             \* the keys of each provider, by priority
  Strategy,             \* failoverStrategy: an action for each category
  Levels,               \* the thinking levels a request may ask for
  thinkingDowngrade,
  maxRetries,
  FailureThreshold, HalfOpenMaxAttempts,
  NoRequest

ASSUME BreakerAssumption == /\ FailureThreshold \in Nat \ {0}
                            /\ HalfOpenMaxAttempts \in Nat \ {0}
ASSUME RequestsAssumption == NoRequest \notin Requests

NoKey   == 0
Lower   == [adaptive |-> "standard", extended |-> "standard", standard |-> "none"]

(* What the configuration is validated for: a provider has a key.           *)
ASSUME RouterAssumption ==
  /\ maxRetries \in Nat
  /\ Levels \subseteq DOMAIN Lower \union {"none"}
  /\ PoolKeys \in [Providers -> Seq(Nat \ {NoKey}) \ {<<>>}]
  /\ \A c \in Chains : c \in Seq({c[i] : i \in DOMAIN c})

VARIABLES
  phase,                \* where each request is; the rest is reset at its end
  chain, target,        \* its targets, and which one it is at
  attempt,
  level,                \* currentThinkingLevel
  key,                  \* the key of its call
  aborted,              \* its signal
  active,
  breaker,              \* state, failures in the window, halfOpenAttempts
  cooling,              \* keys in cooldown, the oldest mark first
  index                 \* next round-robin index

request    == <<phase, chain, target, attempt, level, key, aborted>>
routerVars == <<request, active, breaker, cooling, index>>

Ended  == {"done", "failed", "aborted"}
Held   == {"attempting", "calling", "streaming", "sleeping"}     \* to one target
Phases == Ended \union {"idle", "targeting"} \union Held

RouterInit ==
  /\ phase = [r \in Requests |-> "idle"]
  /\ chain = [r \in Requests |-> <<>>] /\ target = [r \in Requests |-> 1]
  /\ attempt = [r \in Requests |-> 0] /\ level = [r \in Requests |-> "none"]
  /\ key = [r \in Requests |-> NoKey] /\ aborted = [r \in Requests |-> FALSE]
  /\ active = NoRequest
  /\ breaker = [p \in Providers |-> [state |-> "closed", failures |-> 0, attempts |-> 0]]
  /\ cooling = [p \in Providers |-> <<>>]
  /\ index = [p \in Providers |-> 1]

At(r) == chain[r][target[r]]

(* The request ends in one of three ways.                                   *)
End(r, how) ==
  /\ phase' = [phase EXCEPT ![r] = how]
  /\ chain' = [chain EXCEPT ![r] = <<>>] /\ target' = [target EXCEPT ![r] = 1]
  /\ attempt' = [attempt EXCEPT ![r] = 0] /\ level' = [level EXCEPT ![r] = "none"]
  /\ key' = [key EXCEPT ![r] = NoKey] /\ aborted' = [aborted EXCEPT ![r] = FALSE]
  /\ active' = NoRequest

-----------------------------------------------------------------------------
(* The circuit breaker.                                                     *)
ProbeKeepsAttempts(b) ==   \* mutant: the attempts of the last probe stay
  [b EXCEPT !.state = "half-open"]

(* The reset timeout of an open breaker has elapsed.                        *)
Probe(b) == [b EXCEPT !.state = "half-open", !.attempts = 0]

(* canExecute: the breakers it may leave behind, and whether it lets pass.  *)
CanExecute(b) ==
  CASE b.state = "closed"    -> {<<b, TRUE>>}
    [] b.state = "open"      -> {<<b, FALSE>>, <<Probe(b), TRUE>>}
    [] b.state = "half-open" -> {<<b, b.attempts < HalfOpenMaxAttempts>>}

RecordSuccess(p) ==
  breaker' = [breaker EXCEPT ![p] = [state |-> "closed", failures |-> 0, attempts |-> 0]]

(* recordFailure; recent failures are inside the window.  A breaker that is *)
(* open counts those of requests it let pass before.                        *)
AfterFailure(b, recent) ==
  IF b.state = "half-open"
  THEN [b EXCEPT !.attempts = @ + 1,
                 !.state = IF b.attempts + 1 >= HalfOpenMaxAttempts THEN "open" ELSE @]
  ELSE IF recent + 1 >= FailureThreshold
  THEN [b EXCEPT !.state = "open", !.failures = 0]
  ELSE [b EXCEPT !.failures = recent + 1]

RecordFailure(p) ==
  \E recent \in 0..breaker[p].failures :
    breaker' = [breaker EXCEPT ![p] = AfterFailure(@, recent)]

(* getProviderState looks at a breaker, which may half-open it.             *)
Inspect(p) ==
  /\ active = NoRequest
  /\ breaker[p].state = "open"
  /\ breaker' = [breaker EXCEPT ![p] = Probe(@)]
  /\ UNCHANGED <<request, active, cooling, index>>

-----------------------------------------------------------------------------
(* The key pool.  Cooldowns of a provider last equally long: pruneExpired   *)
(* drops the oldest marks.                                                  *)
Pruned(marks) == {SubSeq(marks, n, Len(marks)) : n \in 1..(Len(marks) + 1)}

Cools(marks, k) == \E i \in DOMAIN marks : marks[i] = k

markCooldown(p, k) ==
  cooling' = [cooling EXCEPT ![p] = Append(Filtered(@, {k}), k)]

(* The first key from start that is not in cooldown, NoKey if there is none. *)
FirstFree(p, start, marks) ==
  LET count == Len(PoolKeys[p])
      Nth(i) == ((start + i - 1) % count) + 1
      free == {i \in 0..(count - 1) : ~Cools(marks, PoolKeys[p][Nth(i)])}
  IN  IF free = {} THEN NoKey ELSE Nth(CHOOSE i \in free : \A j \in free : i <= j)

-----------------------------------------------------------------------------
(* A request has its chain, after the hook was awaited, and begins.         *)
Begin(r) ==
  /\ active = NoRequest /\ phase[r] = "idle"
  /\ \E c \in Chains, l \in Levels :
       chain' = [chain EXCEPT ![r] = c] /\ level' = [level EXCEPT ![r] = l]
  /\ phase' = [phase EXCEPT ![r] = "targeting"]
  /\ active' = r
  /\ UNCHANGED <<target, attempt, key, aborted, breaker, cooling, index>>

NextTarget(r) ==
  /\ target' = [target EXCEPT ![r] = @ + 1]
  /\ phase' = [phase EXCEPT ![r] = "targeting"]

(* The loop over the targets: the provider is asked for, then its breaker;  *)
(* after the last one, all providers failed.                                *)
Target(r) ==
  /\ active = r /\ phase[r] = "targeting"
  /\ \/ /\ target[r] > Len(chain[r])
        /\ End(r, "failed")
        /\ UNCHANGED breaker
     \/ /\ target[r] <= Len(chain[r]) /\ At(r) \notin Providers
        /\ NextTarget(r)
        /\ UNCHANGED <<chain, attempt, level, key, aborted, active, breaker>>
     \/ /\ target[r] <= Len(chain[r]) /\ At(r) \in Providers
        /\ \E after \in CanExecute(breaker[At(r)]) :
             /\ breaker' = [breaker EXCEPT ![At(r)] = after[1]]
             /\ \/ /\ after[2]
                   /\ attempt' = [attempt EXCEPT ![r] = 0]
                   /\ phase' = [phase EXCEPT ![r] = "attempting"]
                   /\ UNCHANGED target
                \/ ~after[2] /\ NextTarget(r) /\ UNCHANGED attempt
        /\ UNCHANGED <<chain, level, key, aborted, active>>
  /\ UNCHANGED <<cooling, index>>

(* The loop over the attempts: an aborted request throws, one without a key *)
(* goes to the next target, and the others call the provider.               *)
Attempt(r) ==
  /\ active = r /\ phase[r] = "attempting"
  /\ \/ /\ attempt[r] > maxRetries
        /\ NextTarget(r)
        /\ attempt' = [attempt EXCEPT ![r] = 0]
        /\ UNCHANGED <<chain, level, key, aborted, active, cooling, index>>
     \/ /\ attempt[r] <= maxRetries /\ aborted[r]
        /\ End(r, "aborted")
        /\ UNCHANGED <<cooling, index>>
     \/ /\ attempt[r] <= maxRetries /\ ~aborted[r]
        /\ \E marks \in Pruned(cooling[At(r)]) :
             LET first == FirstFree(At(r), index[At(r)], marks) IN
             /\ cooling' = [cooling EXCEPT ![At(r)] = marks]
             /\ \/ /\ first = NoKey
                   /\ NextTarget(r)
                   /\ attempt' = [attempt EXCEPT ![r] = 0]
                   /\ UNCHANGED <<key, active, index>>
                \/ /\ first # NoKey
                   /\ key' = [key EXCEPT ![r] = PoolKeys[At(r)][first]]
                   /\ index' = [index EXCEPT ![At(r)] = (first % Len(PoolKeys[At(r)])) + 1]
                   /\ phase' = [phase EXCEPT ![r] = "calling"] /\ active' = NoRequest
                   /\ UNCHANGED <<target, attempt>>
        /\ UNCHANGED <<chain, level, aborted>>
  /\ UNCHANGED breaker

(* The provider answers, or its stream comes to its end.                    *)
Answered(r) ==
  /\ active = NoRequest /\ phase[r] \in {"calling", "streaming"}
  /\ End(r, "done")
  /\ RecordSuccess(At(r))
  /\ UNCHANGED <<cooling, index>>

FirstChunk(r) ==
  /\ active = NoRequest /\ phase[r] = "calling"
  /\ phase' = [phase EXCEPT ![r] = "streaming"]
  /\ UNCHANGED <<chain, target, attempt, level, key, aborted, active, breaker, cooling, index>>

(* An error in mid-stream goes to the consumer, who may also stop reading.  *)
StreamBreaks(r) ==
  /\ active = NoRequest /\ phase[r] = "streaming"
  /\ End(r, "failed")
  /\ UNCHANGED <<breaker, cooling, index>>

-----------------------------------------------------------------------------
(* The outcomes of resolveFailoverAction.                                   *)
ContinueSameAttempt(r) ==   \* mutant: a failover that continues is no attempt
  /\ phase' = [phase EXCEPT ![r] = "attempting"] /\ active' = r
  /\ UNCHANGED <<chain, target, attempt, aborted>>

Continue(r) ==
  /\ phase' = [phase EXCEPT ![r] = "attempting"] /\ active' = r
  /\ attempt' = [attempt EXCEPT ![r] = @ + 1]
  /\ UNCHANGED <<chain, target, aborted>>

BreakTarget(r) ==
  /\ RecordFailure(At(r))
  /\ NextTarget(r) /\ active' = r
  /\ attempt' = [attempt EXCEPT ![r] = 0]
  /\ UNCHANGED <<chain, level, aborted>>

(* sleep rejects at once when the signal is aborted.                        *)
SleepContinue(r) ==
  /\ RecordFailure(At(r))
  /\ \/ aborted[r] /\ End(r, "aborted")
     \/ /\ ~aborted[r]
        /\ phase' = [phase EXCEPT ![r] = "sleeping"]
        /\ UNCHANGED <<chain, target, attempt, level, aborted, active>>

Downgrades(r, category) ==
  /\ thinkingDowngrade /\ level[r] # "none"
  /\ category \in {"thinking", "context_overflow"} \/ Strategy[category] = "thinking_downgrade"

(* The call fails before its first chunk with an error of a category; the   *)
(* abort of its signal is an unknown error.                                 *)
CallFails(r, category) ==
  /\ active = NoRequest /\ phase[r] = "calling"
  /\ key' = [key EXCEPT ![r] = NoKey]
  /\ \/ /\ Downgrades(r, category)
        /\ level' = [level EXCEPT ![r] = Lower[@]]
        /\ Continue(r)
        /\ UNCHANGED <<breaker, cooling>>
     \/ /\ ~Downgrades(r, category)
        /\ Strategy[category] \in {"thinking_downgrade", "fallback", "compact"}
        /\ BreakTarget(r) /\ UNCHANGED cooling
     \/ /\ ~Downgrades(r, category) /\ Strategy[category] = "rotate_key"
        /\ markCooldown(At(r), key[r])
        /\ Continue(r)
        /\ UNCHANGED <<level, breaker>>
     \/ /\ ~Downgrades(r, category) /\ Strategy[category] = "backoff"
        /\ markCooldown(At(r), key[r])
        /\ SleepContinue(r)
     \/ /\ ~Downgrades(r, category) /\ Strategy[category] = "retry"
        /\ SleepContinue(r) /\ UNCHANGED cooling
  /\ UNCHANGED index

WakeUp(r) ==
  /\ active = NoRequest /\ phase[r] = "sleeping"
  /\ Continue(r)
  /\ UNCHANGED <<level, key, breaker, cooling, index>>

(* The caller aborts; a sleeping request throws.                            *)
Abort(r) ==
  /\ active = NoRequest /\ ~aborted[r] /\ phase[r] \in {"calling", "streaming", "sleeping"}
  /\ \/ phase[r] = "sleeping" /\ End(r, "aborted")
     \/ /\ phase[r] # "sleeping"
        /\ aborted' = [aborted EXCEPT ![r] = TRUE]
        /\ UNCHANGED <<phase, chain, target, attempt, level, key, active>>
  /\ UNCHANGED <<breaker, cooling, index>>

Proceeds(r) ==
  \/ Target(r) \/ Attempt(r) \/ Answered(r) \/ StreamBreaks(r) \/ WakeUp(r)
  \/ \E category \in DOMAIN Strategy : CallFails(r, category)

RouterNext ==
  \/ \E r \in Requests : Begin(r) \/ Proceeds(r) \/ FirstChunk(r) \/ Abort(r)
  \/ \E p \in Providers : Inspect(p)

(* Providers end their calls, and timers fire.                              *)
RouterSpec ==
  /\ RouterInit /\ [][RouterNext]_routerVars
  /\ WF_routerVars(\E r \in Requests : Proceeds(r))

-----------------------------------------------------------------------------
(* A request that tries a target has one, and it is a known provider.       *)
HeldByProvider ==
  \A r \in Requests :
    phase[r] \in Held => target[r] <= Len(chain[r]) /\ At(r) \in Providers

(* The variables keep their types.                                          *)
RouterTypeOK ==
  /\ phase \in [Requests -> Phases]
  /\ \A r \in Requests : /\ chain[r] \in Chains \union {<<>>}
                         /\ target[r] \in 1..(Len(chain[r]) + 1)
  /\ HeldByProvider
  /\ attempt \in [Requests -> 0..(maxRetries + 1)]
  /\ level \in [Requests -> Levels \union {"standard", "none"}]
  /\ aborted \in [Requests -> BOOLEAN]
  /\ active \in Requests \union {NoRequest}
  /\ \A p \in Providers :
       /\ index[p] \in 1..Len(PoolKeys[p])
       /\ \A i \in DOMAIN cooling[p] : Cools(PoolKeys[p], cooling[p][i])

(* Failures of late requests, probes and successes in any order: a breaker  *)
(* never comes to rest where it would let nothing pass and wait for no      *)
(* timeout, half-open with its attempts used up, nor closed with as many    *)
(* failures as open it.                                                     *)
BreakerNeverWedges ==
  \A p \in Providers :
    /\ breaker[p].state = "half-open" => breaker[p].attempts < HalfOpenMaxAttempts
    /\ breaker[p].failures < FailureThreshold

(* Every request that calls a provider ends, whatever its failovers do:     *)
(* rotated keys come back from their cooldown, and it does not go on.       *)
RequestsEnd == \A r \in Requests : phase[r] = "calling" ~> phase[r] \in Ended
================================================================================
