---------------------------- MODULE Services_proofs ----------------------------
(***************************************************************************)
(* Proofs about services of the agent: the heartbeat keeps its ring within *)
(* bounds and always has a tick to come; the circuit breakers of the model *)
(* router never come to rest where they let nothing pass, and no request   *)
(* is tried on a target it does not have; the flags of the WhatsApp        *)
(* channel are held by somebody who will clear them; the cache of agent    *)
(* cards is in the order of use and a remote task is reported as it ended; *)
(* loops are seen and sub-agents counted.                                  *)
(***************************************************************************)
EXTENDS Heartbeat, ModelRouter, WhatsAppChannel, SideBySide, Lists_proofs

(* The heartbeat.                                                           *)

(* The slot a result is read from is a slot of the ring.                    *)
LEMMA SlotInRing ==
  ASSUME NEW k \in Nat
  PROVE  k % Capacity \in 0..(Capacity - 1)
BY BeatAssumption

(* What a look at the ring finds is a result of a tick.                     *)
LEMMA HealthIsHealth ==
  ASSUME ring \in [0..(Capacity - 1) -> Health], head \in 0..(Capacity - 1),
         size \in 0..Capacity
  PROVE  health \in Health
<1>1. CASE size = 0
  BY <1>1 DEF health, Health
<1>2. CASE size # 0
  <2> DEFINE from == IF size < Capacity THEN 0 ELSE head
             at == from + size - 1
  <2>1. size \in 1..size /\ at \in Nat
    BY <1>2, BeatAssumption
  <2>2. Diagnostics[size] = ring[at % Capacity]
    BY <2>1 DEF Diagnostics
  <2>3. at % Capacity \in 0..(Capacity - 1)
    BY <2>1, SlotInRing
  <2>4. health = ring[at % Capacity]
    BY <1>2, <2>2 DEF health
  <2> QED BY <2>3, <2>4
<1> QED BY <1>1, <1>2

(* The pipeline reports a health for every outcome of its evaluators.       *)
LEMMA PipelineReports == ASSUME NEW outcomes \in Outcomes PROVE HealthAfter(outcomes) \in Health
BY DEF HealthAfter, Health

(* The ring of results keeps its shape.                                     *)
LEMMA PushKeepsRing ==
  ASSUME ring \in [0..(Capacity - 1) -> Health], head \in 0..(Capacity - 1),
         size \in 0..Capacity, NEW h \in Health, Push(h)
  PROVE  /\ ring' \in [0..(Capacity - 1) -> Health] /\ head' \in 0..(Capacity - 1)
         /\ size' \in 0..Capacity
<1>1. head + 1 \in Nat
  BY BeatAssumption
<1>2. head' \in 0..(Capacity - 1)
  BY <1>1, SlotInRing DEF Push
<1>3. ring' \in [0..(Capacity - 1) -> Health]
  BY DEF Push
<1>4. size' \in 0..Capacity
  BY BeatAssumption DEF Push
<1> QED BY <1>2, <1>3, <1>4

(* Scheduling keeps the types of the timers, and leaves one that is set.    *)
LEMMA ScheduleSets ==
  ASSUME timers \subseteq Timers, Schedule
  PROVE  timers' \subseteq Timers /\ timerId' \in timers' /\ timers' # {}
BY DEF Schedule

(* The types but for health, which follows from them.                       *)
BeatFields ==
  /\ running \in BOOLEAN /\ tickInProgress \in BOOLEAN /\ stopResolve \in BOOLEAN
  /\ timers \subseteq Timers /\ timerId \in timers \union {NoTimer}
  /\ tickNumber \in 0..MaxTicks /\ ticks \subseteq 1..tickNumber
  /\ ring \in [0..(Capacity - 1) -> Health]
  /\ head \in 0..(Capacity - 1) /\ size \in 0..Capacity

LEMMA FieldsInit == BeatInit => BeatFields
<1> SUFFICES ASSUME BeatInit PROVE BeatFields
  OBVIOUS
<1>1. /\ head \in 0..(Capacity - 1) /\ size \in 0..Capacity
      /\ tickNumber \in 0..MaxTicks
  BY BeatAssumption DEF BeatInit
<1>2. ring \in [0..(Capacity - 1) -> Health]
  BY DEF BeatInit, Health
<1>3. timers \subseteq Timers /\ timerId \in timers \union {NoTimer}
      /\ ticks \subseteq 1..tickNumber
  BY DEF BeatInit
<1> QED BY <1>1, <1>2, <1>3 DEF BeatInit, BeatFields

(* Every step keeps the types.                                              *)
LEMMA FieldsStep == BeatFields /\ [BeatNext]_heartbeatVars => BeatFields'
<1> SUFFICES ASSUME BeatFields, [BeatNext]_heartbeatVars PROVE BeatFields'
  OBVIOUS
<1>1. CASE Start
  <2>1. timers' \subseteq Timers /\ timerId' \in timers'
    BY <1>1, ScheduleSets DEF Start, BeatFields
  <2> QED BY <1>1, <2>1 DEF Start, BeatFields, diagnostics
<1>2. CASE Stop
  BY <1>2 DEF Stop, BeatFields, diagnostics
<1>3. ASSUME NEW t \in Timers, Fire(t) PROVE BeatFields'
  <2>1. timers' \subseteq Timers /\ timerId' \in timers' \union {NoTimer}
    BY <1>3 DEF Fire, BeatFields
  <2>2. CASE running /\ tickNumber < MaxTicks /\ tickNumber' = tickNumber + 1
             /\ ticks' = ticks \union {tickNumber'} /\ tickInProgress' = TRUE
    <3>1. tickNumber' \in 0..MaxTicks /\ ticks' \subseteq 1..tickNumber'
      BY <2>2, BeatAssumption DEF BeatFields
    <3> QED BY <1>3, <2>1, <2>2, <3>1 DEF Fire, BeatFields, diagnostics
  <2>3. CASE UNCHANGED <<tickNumber, ticks, tickInProgress>>
    BY <1>3, <2>1, <2>3 DEF Fire, BeatFields, diagnostics
  <2> QED BY <1>3, <2>2, <2>3 DEF Fire
<1>4. ASSUME NEW n \in 1..MaxTicks, TickEnds(n) PROVE BeatFields'
  <2>1. /\ ring' \in [0..(Capacity - 1) -> Health]
        /\ head' \in 0..(Capacity - 1) /\ size' \in 0..Capacity
    <3>1. CASE UNCHANGED diagnostics
      BY <3>1 DEF BeatFields, diagnostics
    <3>2. CASE \E outcomes \in Outcomes : Push(HealthAfter(outcomes))
      BY <3>2, PipelineReports, PushKeepsRing DEF BeatFields
    <3> QED BY <1>4, <3>1, <3>2 DEF TickEnds
  <2>2. /\ timers' \subseteq Timers /\ timerId' \in timers' \union {NoTimer}
        /\ stopResolve' \in BOOLEAN
    BY <1>4, ScheduleSets DEF TickEnds, BeatFields
  <2>3. /\ ticks' \subseteq 1..tickNumber' /\ tickNumber' = tickNumber
        /\ running' = running /\ tickInProgress' = FALSE
    BY <1>4 DEF TickEnds, BeatFields
  <2> QED BY <2>1, <2>2, <2>3 DEF BeatFields
<1>5. CASE UNCHANGED heartbeatVars
  BY <1>5 DEF heartbeatVars, diagnostics, BeatFields
<1> QED BY <1>1, <1>2, <1>3, <1>4, <1>5 DEF BeatNext

LEMMA FieldsAreTypes == BeatFields => BeatTypeOK
BY HealthIsHealth DEF BeatFields, BeatTypeOK

(* The heartbeat is type correct, its ring and its health included.         *)
THEOREM BeatTypeCorrect == BeatSpec => []BeatTypeOK
<1>1. BeatSpec => []BeatFields
  BY FieldsInit, FieldsStep, PTL DEF BeatSpec
<1> QED BY <1>1, FieldsAreTypes, PTL

-----------------------------------------------------------------------------
LEMMA AliveInit == BeatInit => NeverDies
BY DEF BeatInit, NeverDies

LEMMA AliveStep == BeatFields /\ NeverDies /\ [BeatNext]_heartbeatVars => NeverDies'
<1> SUFFICES ASSUME BeatFields, NeverDies, [BeatNext]_heartbeatVars PROVE NeverDies'
  OBVIOUS
<1>1. CASE Start
  BY <1>1, ScheduleSets DEF Start, BeatFields, NeverDies
<1>2. CASE Stop
  BY <1>2 DEF Stop, NeverDies
<1>3. ASSUME NEW t \in Timers, Fire(t) PROVE NeverDies'
  BY <1>3 DEF Fire, NeverDies
<1>4. ASSUME NEW n \in 1..MaxTicks, TickEnds(n) PROVE NeverDies'
  BY <1>4, ScheduleSets DEF TickEnds, BeatFields, NeverDies
<1>5. CASE UNCHANGED heartbeatVars
  BY <1>5 DEF heartbeatVars, NeverDies
<1> QED BY <1>1, <1>2, <1>3, <1>4, <1>5 DEF BeatNext

(* A heartbeat that runs has a tick to come or under way, however starts,    *)
(* stops and failures fall between its ticks.                               *)
THEOREM HeartbeatNeverDies == BeatSpec => []NeverDies
<1>1. BeatSpec => []BeatFields
  BY FieldsInit, FieldsStep, PTL DEF BeatSpec
<1>2. BeatFields /\ NeverDies /\ [BeatNext]_heartbeatVars => NeverDies'
  BY AliveStep
<1> QED BY <1>1, <1>2, AliveInit, PTL DEF BeatSpec

-----------------------------------------------------------------------------
(* The model router.                                                        *)

(* A breaker that can be left again.                                        *)
Breakers ==
  {b \in [state : {"closed", "open", "half-open"}, failures : Nat, attempts : Nat] :
     /\ b.state = "half-open" => b.attempts < HalfOpenMaxAttempts
     /\ b.failures < FailureThreshold}

BreakersOK == breaker \in [Providers -> Breakers]

LEMMA ClosedIsSound ==
  [state |-> "closed", failures |-> 0, attempts |-> 0] \in Breakers
BY BreakerAssumption DEF Breakers

LEMMA ProbeIsSound == ASSUME NEW b \in Breakers PROVE Probe(b) \in Breakers
<1>1. /\ b.failures \in Nat /\ b.failures < FailureThreshold
      /\ b \in [state : {"closed", "open", "half-open"}, failures : Nat, attempts : Nat]
  BY DEF Breakers
<1>2. /\ Probe(b) \in [state : {"closed", "open", "half-open"}, failures : Nat,
                         attempts : Nat]
      /\ Probe(b).attempts = 0 /\ Probe(b).failures = b.failures
  BY <1>1 DEF Probe
<1> QED BY <1>1, <1>2, BreakerAssumption DEF Breakers

LEMMA CanExecuteIsSound ==
  ASSUME NEW b \in Breakers, NEW after \in CanExecute(b)
  PROVE  after[1] \in Breakers
<1>1. CASE b.state = "closed"
  BY <1>1 DEF CanExecute
<1>2. CASE b.state = "open"
  <2>1. CanExecute(b) = {<<b, FALSE>>, <<Probe(b), TRUE>>}
    BY <1>2 DEF CanExecute
  <2>2. CASE after = <<b, FALSE>>
    BY <2>2
  <2>3. CASE after = <<Probe(b), TRUE>>
    BY <2>3, ProbeIsSound
  <2> QED BY <2>1, <2>2, <2>3
<1>3. CASE b.state = "half-open"
  BY <1>3 DEF CanExecute
<1> QED BY <1>1, <1>2, <1>3 DEF Breakers

(* Neither a failed probe nor a late failure takes a breaker to a standstill.*)
LEMMA AfterFailureIsSound ==
  ASSUME NEW b \in Breakers, NEW recent \in 0..b.failures
  PROVE  AfterFailure(b, recent) \in Breakers
<1> DEFINE opened == b.attempts + 1 >= HalfOpenMaxAttempts
<1>0. /\ b.failures \in Nat /\ b.attempts \in Nat /\ recent \in Nat
      /\ recent <= b.failures /\ b.failures < FailureThreshold
      /\ b.state \in {"closed", "open", "half-open"}
      /\ FailureThreshold \in Nat \ {0} /\ HalfOpenMaxAttempts \in Nat \ {0}
      /\ b = [state |-> b.state, failures |-> b.failures, attempts |-> b.attempts]
  BY BreakerAssumption DEF Breakers
<1>1. CASE b.state = "half-open"
  <2>1. AfterFailure(b, recent) =
          [state |-> IF opened THEN "open" ELSE "half-open",
           failures |-> b.failures, attempts |-> b.attempts + 1]
    BY <1>0, <1>1 DEF AfterFailure
  <2> QED BY <1>0, <2>1 DEF Breakers
<1>2. CASE b.state # "half-open" /\ recent + 1 >= FailureThreshold
  <2>1. AfterFailure(b, recent) =
          [state |-> "open", failures |-> 0, attempts |-> b.attempts]
    BY <1>0, <1>2 DEF AfterFailure
  <2> QED BY <1>0, <2>1 DEF Breakers
<1>3. CASE b.state # "half-open" /\ recent + 1 < FailureThreshold
  <2>1. AfterFailure(b, recent) =
          [state |-> b.state, failures |-> recent + 1, attempts |-> b.attempts]
    BY <1>0, <1>3 DEF AfterFailure
  <2> QED BY <1>0, <1>3, <2>1 DEF Breakers
<1> QED BY <1>0, <1>1, <1>2, <1>3

(* One breaker is replaced by a sound one; a target that is no provider has  *)
(* none.                                                                    *)
LEMMA ReplaceIsSound ==
  ASSUME BreakersOK, NEW p, NEW b, p \in Providers => b \in Breakers,
         breaker' = [breaker EXCEPT ![p] = b]
  PROVE  BreakersOK'
BY DEF BreakersOK

LEMMA RecordSuccessIsSound ==
  ASSUME BreakersOK, NEW p, RecordSuccess(p) PROVE BreakersOK'
BY ClosedIsSound, ReplaceIsSound DEF RecordSuccess

LEMMA RecordFailureIsSound ==
  ASSUME BreakersOK, NEW p, RecordFailure(p) PROVE BreakersOK'
<1>1. PICK recent \in 0..breaker[p].failures :
        breaker' = [breaker EXCEPT ![p] = AfterFailure(breaker[p], recent)]
  BY DEF RecordFailure
<1>2. p \in Providers => AfterFailure(breaker[p], recent) \in Breakers
  BY AfterFailureIsSound DEF BreakersOK
<1> QED BY <1>1, <1>2, ReplaceIsSound

(* The steps of the breakers.                                               *)
LEMMA BreakersInit == RouterInit => BreakersOK
BY ClosedIsSound DEF RouterInit, BreakersOK

(* Every step leaves sound breakers behind.                                 *)
LEMMA BreakersStep == BreakersOK /\ [RouterNext]_routerVars => BreakersOK'
<1> SUFFICES ASSUME BreakersOK, [RouterNext]_routerVars PROVE BreakersOK'
  OBVIOUS
<1>0. breaker' = breaker => BreakersOK'
  BY DEF BreakersOK
<1>1. ASSUME NEW r \in Requests, Begin(r) PROVE BreakersOK'
  BY <1>0, <1>1 DEF Begin
<1>2. ASSUME NEW r \in Requests, Target(r) PROVE BreakersOK'
  <2>1. CASE At(r) \in Providers /\ \E after \in CanExecute(breaker[At(r)]) :
               breaker' = [breaker EXCEPT ![At(r)] = after[1]]
    <3>1. PICK after \in CanExecute(breaker[At(r)]) :
            breaker' = [breaker EXCEPT ![At(r)] = after[1]]
      BY <2>1
    <3>2. breaker[At(r)] \in Breakers
      BY <2>1 DEF BreakersOK
    <3>3. after[1] \in Breakers
      BY <3>2, CanExecuteIsSound
    <3> QED BY <3>1, <3>3, ReplaceIsSound
  <2> QED BY <1>0, <1>2, <2>1 DEF Target
<1>3. ASSUME NEW r \in Requests, Attempt(r) PROVE BreakersOK'
  BY <1>0, <1>3 DEF Attempt
<1>4. ASSUME NEW r \in Requests, Answered(r) PROVE BreakersOK'
  BY <1>4, RecordSuccessIsSound DEF Answered
<1>5. ASSUME NEW r \in Requests, StreamBreaks(r) PROVE BreakersOK'
  BY <1>0, <1>5 DEF StreamBreaks
<1>6. ASSUME NEW r \in Requests, WakeUp(r) PROVE BreakersOK'
  BY <1>0, <1>6 DEF WakeUp
<1>7. ASSUME NEW r \in Requests, NEW category \in DOMAIN Strategy, CallFails(r, category)
      PROVE  BreakersOK'
  <2>1. breaker' = breaker \/ RecordFailure(At(r))
    BY <1>7 DEF CallFails, BreakTarget, SleepContinue
  <2> QED BY <1>0, <2>1, RecordFailureIsSound
<1>8. ASSUME NEW r \in Requests, FirstChunk(r) \/ Abort(r) PROVE BreakersOK'
  BY <1>0, <1>8 DEF FirstChunk, Abort
<1>9. ASSUME NEW p \in Providers, Inspect(p) PROVE BreakersOK'
  <2>1. breaker[p] \in Breakers
    BY DEF BreakersOK
  <2>2. breaker' = [breaker EXCEPT ![p] = Probe(breaker[p])]
    BY <1>9 DEF Inspect
  <2> QED BY <2>1, <2>2, ProbeIsSound, ReplaceIsSound
<1>10. CASE UNCHANGED routerVars
  BY <1>0, <1>10 DEF routerVars
<1> QED BY <1>1, <1>2, <1>3, <1>4, <1>5, <1>6, <1>7, <1>8, <1>9, <1>10
        DEF RouterNext, Proceeds

LEMMA BreakersAreFree == BreakersOK => BreakerNeverWedges
BY DEF BreakersOK, Breakers, BreakerNeverWedges

(* No order of late failures, probes and successes leaves a breaker half-   *)
(* open with its attempts used up, or with as many failures as open it.     *)
THEOREM BreakersNeverWedge == RouterSpec => []BreakerNeverWedges
<1>1. RouterSpec => []BreakersOK
  BY BreakersInit, BreakersStep, PTL DEF RouterSpec
<1> QED BY <1>1, BreakersAreFree, PTL

-----------------------------------------------------------------------------
(* What the requests are functions of.                                      *)
RequestsOK == phase \in [Requests -> Phases] /\ DOMAIN chain = Requests /\ DOMAIN target = Requests

(* A step of request r leaves the other requests where they are.            *)
OthersStay(r) ==
  \A s \in Requests \ {r} : phase'[s] = phase[s] /\ chain'[s] = chain[s]
                            /\ target'[s] = target[s]

(* Request r keeps its target, or is not held to one.                       *)
StaysHeld(r) ==
  phase'[r] \in Held => /\ phase[r] \in Held
                        /\ chain'[r] = chain[r] /\ target'[r] = target[r]

LEMMA EndFrees ==
  ASSUME RequestsOK, NEW r \in Requests, NEW how \in Ended, End(r, how)
  PROVE  RequestsOK' /\ OthersStay(r) /\ StaysHeld(r)
BY DEF RequestsOK, End, OthersStay, StaysHeld, Ended, Held, Phases

LEMMA NextTargetFrees ==
  ASSUME RequestsOK, NEW r \in Requests, NextTarget(r), chain' = chain
  PROVE  RequestsOK' /\ OthersStay(r) /\ StaysHeld(r)
BY DEF RequestsOK, NextTarget, OthersStay, StaysHeld, Held, Phases

LEMMA ContinueHolds ==
  ASSUME RequestsOK, NEW r \in Requests, Continue(r), phase[r] \in Held
  PROVE  RequestsOK' /\ OthersStay(r) /\ StaysHeld(r)
BY DEF RequestsOK, Continue, OthersStay, StaysHeld, Held, Phases

LEMMA SleepHolds ==
  ASSUME RequestsOK, NEW r \in Requests, SleepContinue(r), phase[r] \in Held
  PROVE  RequestsOK' /\ OthersStay(r) /\ StaysHeld(r)
<1>1. CASE End(r, "aborted")
  BY <1>1, EndFrees DEF Ended
<1>2. CASE /\ phase' = [phase EXCEPT ![r] = "sleeping"]
           /\ UNCHANGED <<chain, target, attempt, level, aborted, active>>
  BY <1>2 DEF RequestsOK, OthersStay, StaysHeld, Held, Phases
<1> QED BY <1>1, <1>2 DEF SleepContinue

(* Such a step keeps every request with a provider.                         *)
LEMMA HeldAsBefore ==
  ASSUME HeldByProvider, NEW r \in Requests, OthersStay(r), StaysHeld(r)
  PROVE  HeldByProvider'
<1> SUFFICES ASSUME NEW s \in Requests, phase'[s] \in Held
             PROVE  target'[s] <= Len(chain'[s]) /\ chain'[s][target'[s]] \in Providers
  BY DEF HeldByProvider, At
<1>1. phase[s] \in Held /\ chain'[s] = chain[s] /\ target'[s] = target[s]
  BY DEF OthersStay, StaysHeld
<1> QED BY <1>1 DEF HeldByProvider, At

LEMMA HeldInit == RouterInit => RequestsOK /\ HeldByProvider
BY DEF RouterInit, RequestsOK, HeldByProvider, Held, Phases

(* Every step does, and so does the one that chooses a target.              *)
LEMMA HeldStep ==
  RequestsOK /\ HeldByProvider /\ [RouterNext]_routerVars => RequestsOK' /\ HeldByProvider'
<1> SUFFICES ASSUME RequestsOK, HeldByProvider, [RouterNext]_routerVars
             PROVE  RequestsOK' /\ HeldByProvider'
  OBVIOUS
<1>0. ASSUME NEW r \in Requests, phase' = phase, chain' = chain, target' = target
      PROVE  RequestsOK' /\ HeldByProvider'
  BY <1>0 DEF RequestsOK, HeldByProvider, At
<1>1. ASSUME NEW r \in Requests, Begin(r) PROVE RequestsOK' /\ HeldByProvider'
  <2>1. RequestsOK' /\ OthersStay(r) /\ StaysHeld(r)
    BY <1>1 DEF Begin, RequestsOK, OthersStay, StaysHeld, Held, Phases
  <2> QED BY <2>1, HeldAsBefore
<1>2. ASSUME NEW r \in Requests, Target(r) PROVE RequestsOK' /\ HeldByProvider'
  <2>1. CASE End(r, "failed")
    BY <2>1, EndFrees, HeldAsBefore DEF Ended
  <2>2. CASE NextTarget(r) /\ chain' = chain
    BY <2>2, NextTargetFrees, HeldAsBefore
  <2>3. CASE /\ target[r] <= Len(chain[r]) /\ At(r) \in Providers
             /\ phase' = [phase EXCEPT ![r] = "attempting"]
             /\ chain' = chain /\ target' = target
    <3>1. RequestsOK'
      BY <2>3 DEF RequestsOK, Phases, Held
    <3>2. HeldByProvider'
      BY <2>3 DEF HeldByProvider, At, RequestsOK
    <3> QED BY <3>1, <3>2
  <2> QED BY <1>2, <2>1, <2>2, <2>3 DEF Target
<1>3. ASSUME NEW r \in Requests, Attempt(r) PROVE RequestsOK' /\ HeldByProvider'
  <2>1. CASE End(r, "aborted")
    BY <2>1, EndFrees, HeldAsBefore DEF Ended
  <2>2. CASE NextTarget(r) /\ chain' = chain
    BY <2>2, NextTargetFrees, HeldAsBefore
  <2>3. CASE phase' = [phase EXCEPT ![r] = "calling"] /\ chain' = chain /\ target' = target
    <3>1. RequestsOK' /\ OthersStay(r) /\ StaysHeld(r)
      BY <1>3, <2>3 DEF Attempt, RequestsOK, OthersStay, StaysHeld, Held, Phases
    <3> QED BY <3>1, HeldAsBefore
  <2> QED BY <1>3, <2>1, <2>2, <2>3 DEF Attempt
<1>4. ASSUME NEW r \in Requests, Answered(r) PROVE RequestsOK' /\ HeldByProvider'
  BY <1>4, EndFrees, HeldAsBefore DEF Answered, Ended
<1>5. ASSUME NEW r \in Requests, StreamBreaks(r) PROVE RequestsOK' /\ HeldByProvider'
  BY <1>5, EndFrees, HeldAsBefore DEF StreamBreaks, Ended
<1>6. ASSUME NEW r \in Requests, WakeUp(r) PROVE RequestsOK' /\ HeldByProvider'
  BY <1>6, ContinueHolds, HeldAsBefore DEF WakeUp, Held
<1>7. ASSUME NEW r \in Requests, NEW category \in DOMAIN Strategy, CallFails(r, category)
      PROVE  RequestsOK' /\ HeldByProvider'
  <2>1. phase[r] \in Held
    BY <1>7 DEF CallFails, Held
  <2>2. Continue(r) \/ (NextTarget(r) /\ chain' = chain) \/ SleepContinue(r)
    BY <1>7 DEF CallFails, BreakTarget
  <2> QED BY <2>1, <2>2, ContinueHolds, NextTargetFrees, SleepHolds, HeldAsBefore
<1>8. ASSUME NEW r \in Requests, FirstChunk(r) PROVE RequestsOK' /\ HeldByProvider'
  <2>1. RequestsOK' /\ OthersStay(r) /\ StaysHeld(r)
    BY <1>8 DEF FirstChunk, RequestsOK, OthersStay, StaysHeld, Held, Phases
  <2> QED BY <2>1, HeldAsBefore
<1>9. ASSUME NEW r \in Requests, Abort(r) PROVE RequestsOK' /\ HeldByProvider'
  <2>1. CASE End(r, "aborted")
    BY <2>1, EndFrees, HeldAsBefore DEF Ended
  <2> QED BY <1>0, <1>9, <2>1 DEF Abort
<1>10. ASSUME NEW p \in Providers, Inspect(p) PROVE RequestsOK' /\ HeldByProvider'
  BY <1>10 DEF Inspect, request, RequestsOK, HeldByProvider, At
<1>11. CASE UNCHANGED routerVars
  BY <1>11 DEF routerVars, request, RequestsOK, HeldByProvider, At
<1> QED BY <1>1, <1>2, <1>3, <1>4, <1>5, <1>6, <1>7, <1>8, <1>9, <1>10, <1>11
        DEF RouterNext, Proceeds

(* A request that calls, streams, waits or tries again does so on a target   *)
(* of its chain that is a known provider: the breaker, key pool and client   *)
(* it uses exist, whatever its failovers did.                               *)
THEOREM RequestsAreHeld == RouterSpec => []HeldByProvider
<1>1. RequestsOK /\ HeldByProvider /\ [RouterNext]_routerVars
        => RequestsOK' /\ HeldByProvider'
  BY HeldStep
<1> QED BY <1>1, HeldInit, PTL DEF RouterSpec

-----------------------------------------------------------------------------
(* The WhatsApp channel.                                                    *)

(* The two halves of the state, which share no variable.                    *)
ConnectionOK ==
  /\ connected \in BOOLEAN /\ reconnecting \in BOOLEAN /\ flushing \in BOOLEAN
  /\ attempts \in [Attempts -> {"unused", "loading", "waiting", "over"}]
  /\ sockets \in [Attempts -> {"none", "opening", "open", "closed"}]
  /\ socket \in Attempts \union {NoSocket}
  /\ reconnectAttempt \in 0..MaxReconnectAttempts
  /\ sleepers \in [Sleepers -> Nat]

SendingOK ==
  /\ queued \in 0..MaxQueue /\ tokenBucket \in 0..BurstLimit
  /\ worker \in {"idle", "looping", "waiting", "rendering"}

(* A handler of a disconnect is in its delay.                               *)
Asleep == sleepers["told"] > 0 \/ sleepers["untold"] > 0

ChannelInv ==
  /\ ConnectionOK /\ SendingOK
  /\ reconnecting => Asleep
  /\ queued > 0 => worker # "idle"

LEMMA ChannelInvHolds == ChannelInv => ChannelTypeOK /\ FlagsAreHeld
BY DEF ChannelInv, ConnectionOK, SendingOK, ChannelTypeOK, FlagsAreHeld, Asleep, Sleepers

LEMMA ChannelInitially == ChannelInit => ChannelInv
<1> SUFFICES ASSUME ChannelInit PROVE ChannelInv
  OBVIOUS
<1>1. 0 \in 0..MaxReconnectAttempts /\ 0 \in 0..MaxQueue /\ BurstLimit \in 0..BurstLimit
  BY ChannelAssumption
<1>2. sleepers \in [Sleepers -> Nat]
  BY DEF ChannelInit
<1>3. ConnectionOK
  BY <1>1, <1>2 DEF ChannelInit, ConnectionOK
<1>4. SendingOK
  BY <1>1 DEF ChannelInit, SendingOK
<1> QED BY <1>3, <1>4 DEF ChannelInit, ChannelInv

-----------------------------------------------------------------------------
(* A new attempt starts loading, or there is none left.                     *)
LEMMA BeginKeepsTypes ==
  ASSUME attempts \in [Attempts -> {"unused", "loading", "waiting", "over"}], BeginConnect
  PROVE  attempts' \in [Attempts -> {"unused", "loading", "waiting", "over"}]
BY DEF BeginConnect

(* A disconnect is handled from a number of attempts in range: a handler    *)
(* that sets the flag goes to sleep.                                        *)
LEMMA HandlerSleeps ==
  ASSUME NEW n \in 0..MaxReconnectAttempts, NEW reason,
         NEW asleep \in [Sleepers -> Nat], HandleDisconnect(n, reason, asleep),
         reconnecting \in BOOLEAN,
         reconnecting => asleep["told"] > 0 \/ asleep["untold"] > 0
  PROVE  /\ reconnecting' \in BOOLEAN /\ reconnectAttempt' \in 0..MaxReconnectAttempts
         /\ sleepers' \in [Sleepers -> Nat]
         /\ reconnecting' => Asleep'
<1>1. CASE /\ reason \notin Fatal /\ n < MaxReconnectAttempts
           /\ reconnecting' = TRUE /\ reconnectAttempt' = n + 1
           /\ sleepers' = [asleep EXCEPT !["untold"] = @ + 1]
  <2>1. /\ sleepers' \in [Sleepers -> Nat] /\ asleep["untold"] \in Nat
        /\ sleepers'["untold"] = asleep["untold"] + 1
    BY <1>1 DEF Sleepers
  <2>2. sleepers'["untold"] > 0
    BY <2>1 DEF Sleepers
  <2>3. n + 1 \in 0..MaxReconnectAttempts
    BY <1>1, ChannelAssumption
  <2>4. reconnecting' \in BOOLEAN
    BY <1>1
  <2>5. Asleep'
    BY <2>2 DEF Asleep
  <2> QED BY <1>1, <2>1, <2>3, <2>4, <2>5
<1>2. CASE /\ reconnectAttempt' = n /\ sleepers' = asleep /\ UNCHANGED reconnecting
  BY <1>2 DEF Asleep
<1> QED BY <1>1, <1>2 DEF HandleDisconnect

(* What moves the connection only leaves the queue to its worker, and the   *)
(* other way round.                                                         *)
LEMMA SendingAlone ==
  ASSUME ChannelInv, UNCHANGED sending
  PROVE  SendingOK' /\ (queued > 0 => worker # "idle")'
BY DEF ChannelInv, SendingOK, sending

LEMMA ConnectionAlone ==
  ASSUME ChannelInv, UNCHANGED connection
  PROVE  ConnectionOK' /\ (reconnecting => Asleep)'
BY DEF ChannelInv, ConnectionOK, connection, Asleep

-----------------------------------------------------------------------------
LEMMA ConnectKeeps == ASSUME ChannelInv, Connect PROVE ChannelInv'
<1>1. UNCHANGED <<socket, sockets, reconnecting, reconnectAttempt, sleepers, flushing, sending>>
  BY DEF Connect
<1>2. connected' \in BOOLEAN
  BY DEF Connect, ChannelInv, ConnectionOK
<1>3. attempts' \in [Attempts -> {"unused", "loading", "waiting", "over"}]
  BY BeginKeepsTypes DEF Connect, ChannelInv, ConnectionOK
<1>4. ConnectionOK' /\ (reconnecting => Asleep)'
  BY <1>1, <1>2, <1>3 DEF ChannelInv, ConnectionOK, Asleep
<1> QED BY <1>1, <1>4, SendingAlone DEF ChannelInv

LEMMA LoadedKeeps == ASSUME ChannelInv, NEW a \in Attempts, Loaded(a) PROVE ChannelInv'
<1>1. UNCHANGED <<connected, reconnecting, reconnectAttempt, sleepers, flushing, sending>>
  BY DEF Loaded
<1>2. attempts' \in [Attempts -> {"unused", "loading", "waiting", "over"}]
  BY DEF Loaded, ChannelInv, ConnectionOK
<1>3. sockets' \in [Attempts -> {"none", "opening", "open", "closed"}]
  BY DEF Loaded, ChannelInv, ConnectionOK
<1>4. socket' \in Attempts \union {NoSocket}
  BY DEF Loaded, ChannelInv, ConnectionOK
<1>5. ConnectionOK' /\ (reconnecting => Asleep)'
  BY <1>1, <1>2, <1>3, <1>4 DEF ChannelInv, ConnectionOK, Asleep
<1> QED BY <1>1, <1>5, SendingAlone DEF ChannelInv

LEMMA TimeoutKeeps == ASSUME ChannelInv, NEW a \in Attempts, ConnectTimesOut(a) PROVE ChannelInv'
<1>1. /\ UNCHANGED <<connected, socket, sockets, reconnecting, reconnectAttempt, sleepers,
                     flushing, sending>>
      /\ attempts' \in [Attempts -> {"unused", "loading", "waiting", "over"}]
  BY DEF ConnectTimesOut, ChannelInv, ConnectionOK
<1>2. ConnectionOK' /\ (reconnecting => Asleep)'
  BY <1>1 DEF ChannelInv, ConnectionOK, Asleep
<1> QED BY <1>1, <1>2, SendingAlone DEF ChannelInv

LEMMA OpenedKeeps == ASSUME ChannelInv, NEW a \in Attempts, Opened(a) PROVE ChannelInv'
<1>1. /\ connected' = TRUE /\ reconnectAttempt' = 0 /\ reconnecting' = FALSE
      /\ UNCHANGED <<socket, sleepers, flushing, sending>>
  BY DEF Opened
<1>2. attempts' \in [Attempts -> {"unused", "loading", "waiting", "over"}]
  BY DEF Opened, ChannelInv, ConnectionOK
<1>3. sockets' \in [Attempts -> {"none", "opening", "open", "closed"}]
  BY DEF Opened, ChannelInv, ConnectionOK
<1>4. 0 \in 0..MaxReconnectAttempts
  BY ChannelAssumption
<1>5. ConnectionOK' /\ (reconnecting => Asleep)'
  BY <1>1, <1>2, <1>3, <1>4 DEF ChannelInv, ConnectionOK
<1> QED BY <1>1, <1>5, SendingAlone DEF ChannelInv

LEMMA ClosedKeeps == ASSUME ChannelInv, NEW a \in Attempts, NEW reason, Closed(a, reason) PROVE ChannelInv'
<1>1. /\ connected' = FALSE /\ UNCHANGED <<attempts, socket, flushing, sending>>
      /\ HandleDisconnect(reconnectAttempt, reason, sleepers)
  BY DEF Closed
<1>2. sockets' \in [Attempts -> {"none", "opening", "open", "closed"}]
  BY DEF Closed, ChannelInv, ConnectionOK
<1>3. /\ reconnecting' \in BOOLEAN /\ reconnectAttempt' \in 0..MaxReconnectAttempts
      /\ sleepers' \in [Sleepers -> Nat] /\ (reconnecting => Asleep)'
  BY <1>1, HandlerSleeps DEF ChannelInv, ConnectionOK, Asleep
<1>4. ConnectionOK'
  BY <1>1, <1>2, <1>3 DEF ChannelInv, ConnectionOK
<1> QED BY <1>1, <1>3, <1>4, SendingAlone DEF ChannelInv

LEMMA WakeKeeps == ASSUME ChannelInv, NEW kind \in Sleepers, Wake(kind) PROVE ChannelInv'
<1>1. UNCHANGED <<connected, sockets, reconnectAttempt, flushing, sending>>
  BY DEF Wake
<1>2. sleepers' \in [Sleepers -> Nat] /\ reconnecting' = FALSE
  BY DEF Wake, ChannelInv, ConnectionOK
<1>3. attempts' \in [Attempts -> {"unused", "loading", "waiting", "over"}]
  BY BeginKeepsTypes DEF Wake, ChannelInv, ConnectionOK
<1>4. socket' \in Attempts \union {NoSocket}
  BY DEF Wake, ChannelInv, ConnectionOK
<1>5. ConnectionOK' /\ (reconnecting => Asleep)'
  BY <1>1, <1>2, <1>3, <1>4 DEF ChannelInv, ConnectionOK
<1> QED BY <1>1, <1>5, SendingAlone DEF ChannelInv

LEMMA DisconnectKeeps == ASSUME ChannelInv, Disconnect PROVE ChannelInv'
<1> DEFINE allTold == [kind \in Sleepers |->
                         IF kind = "told" THEN sleepers["told"] + sleepers["untold"] ELSE 0]
<1>1. UNCHANGED <<attempts, sending>>
  BY DEF Disconnect
<1>2. /\ allTold \in [Sleepers -> Nat]
      /\ allTold["told"] = sleepers["told"] + sleepers["untold"]
  BY DEF ChannelInv, ConnectionOK, Sleepers
<1>3. reconnecting => allTold["told"] > 0
  <2> HIDE DEF allTold
  <2>1. sleepers["told"] \in Nat /\ sleepers["untold"] \in Nat
    BY DEF ChannelInv, ConnectionOK, Sleepers
  <2> QED BY <1>2, <2>1 DEF ChannelInv, Asleep
<1>4. CASE /\ connected' = FALSE /\ sleepers' = allTold
           /\ UNCHANGED <<socket, sockets, reconnecting, reconnectAttempt, flushing>>
  <2>1. ConnectionOK'
    BY <1>1, <1>2, <1>4 DEF ChannelInv, ConnectionOK
  <2>2. (reconnecting => Asleep)'
    BY <1>3, <1>4 DEF Asleep
  <2> QED BY <1>1, <2>1, <2>2, SendingAlone DEF ChannelInv
<1>5. CASE /\ socket # NoSocket
           /\ sockets' = [sockets EXCEPT ![socket] = "closed"]
           /\ socket' = NoSocket /\ flushing' = TRUE
           /\ \/ HandleDisconnect(0, "other", allTold) /\ connected' = FALSE
              \/ /\ reconnecting' = FALSE /\ reconnectAttempt' = 0 /\ sleepers' = allTold
                 /\ UNCHANGED connected
  <2>1. sockets' \in [Attempts -> {"none", "opening", "open", "closed"}]
    BY <1>5 DEF ChannelInv, ConnectionOK
  <2>2. /\ socket' \in Attempts \union {NoSocket} /\ flushing' \in BOOLEAN
        /\ connected' \in BOOLEAN
    BY <1>5 DEF ChannelInv, ConnectionOK
  <2>3. 0 \in 0..MaxReconnectAttempts /\ reconnecting \in BOOLEAN
    BY ChannelAssumption DEF ChannelInv, ConnectionOK
  <2>4. /\ reconnecting' \in BOOLEAN /\ reconnectAttempt' \in 0..MaxReconnectAttempts
        /\ sleepers' \in [Sleepers -> Nat] /\ (reconnecting => Asleep)'
    <3>1. CASE HandleDisconnect(0, "other", allTold)
      <4> HIDE DEF allTold
      <4> QED BY <1>2, <1>3, <2>3, <3>1, HandlerSleeps
    <3>2. CASE reconnecting' = FALSE /\ reconnectAttempt' = 0 /\ sleepers' = allTold
      BY <1>2, <2>3, <3>2
    <3> QED BY <1>5, <3>1, <3>2
  <2>5. ConnectionOK'
    BY <1>1, <2>1, <2>2, <2>4 DEF ChannelInv, ConnectionOK
  <2> QED BY <1>1, <2>4, <2>5, SendingAlone DEF ChannelInv
<1> QED BY <1>4, <1>5 DEF Disconnect

LEMMA FlushedKeeps == ASSUME ChannelInv, Flushed PROVE ChannelInv'
<1>1. /\ flushing' = FALSE /\ connected' = FALSE
      /\ UNCHANGED <<attempts, socket, sockets, reconnecting, reconnectAttempt, sleepers, sending>>
  BY DEF Flushed
<1>2. ConnectionOK' /\ (reconnecting => Asleep)'
  BY <1>1 DEF ChannelInv, ConnectionOK, Asleep
<1> QED BY <1>1, <1>2, SendingAlone DEF ChannelInv

-----------------------------------------------------------------------------
(* The rest of a round takes a token and leaves the loop running.           *)
LEMMA HandleKeeps ==
  ASSUME NEW tokens \in 1..BurstLimit, Handle(tokens)
  PROVE  tokenBucket' \in 0..BurstLimit /\ worker' \in {"looping", "rendering"}
BY ChannelAssumption DEF Handle

LEMMA QueueKeeps ==
  ASSUME ChannelInv, Send \/ Loop \/ TokenComes \/ Rendered
  PROVE  ChannelInv'
<1>1. UNCHANGED connection
  BY DEF Send, Loop, TokenComes, Rendered
<1>2. SUFFICES SendingOK' /\ (queued > 0 => worker # "idle")'
  BY <1>1, ConnectionAlone DEF ChannelInv
<1>3. CASE Send
  BY <1>3, ChannelAssumption DEF Send, ChannelInv, SendingOK
<1>4. CASE Loop
  <2>1. CASE queued = 0 /\ worker' = "idle" /\ UNCHANGED <<queued, tokenBucket>>
    BY <2>1 DEF ChannelInv, SendingOK
  <2>2. CASE /\ queued > 0 /\ queued' = queued - 1
             /\ \E tokens \in tokenBucket..BurstLimit :
                  \/ tokens = 0 /\ worker' = "waiting" /\ UNCHANGED tokenBucket
                  \/ tokens > 0 /\ Handle(tokens)
    <3>1. queued' \in 0..MaxQueue
      BY <2>2, ChannelAssumption DEF ChannelInv, SendingOK
    <3>2. tokenBucket' \in 0..BurstLimit /\ worker' \in {"looping", "waiting", "rendering"}
      <4>1. PICK tokens \in tokenBucket..BurstLimit :
              \/ tokens = 0 /\ worker' = "waiting" /\ UNCHANGED tokenBucket
              \/ tokens > 0 /\ Handle(tokens)
        BY <2>2
      <4>2. CASE tokens = 0 /\ worker' = "waiting" /\ UNCHANGED tokenBucket
        BY <4>2 DEF ChannelInv, SendingOK
      <4>3. CASE tokens > 0 /\ Handle(tokens)
        <5>1. tokens \in 1..BurstLimit
          BY <4>1, <4>3, ChannelAssumption DEF ChannelInv, SendingOK
        <5> QED BY <4>3, <5>1, HandleKeeps
      <4> QED BY <4>1, <4>2, <4>3
    <3> QED BY <3>1, <3>2 DEF SendingOK
  <2> QED BY <1>4, <2>1, <2>2 DEF Loop
<1>5. CASE TokenComes
  BY <1>5, ChannelAssumption DEF TokenComes, Handle, ChannelInv, SendingOK
<1>6. CASE Rendered
  BY <1>6 DEF Rendered, ChannelInv, SendingOK
<1> QED BY <1>3, <1>4, <1>5, <1>6

LEMMA ChannelStep == ASSUME ChannelInv, [ChannelNext]_channelVars PROVE ChannelInv'
<1>1. CASE UNCHANGED channelVars
  BY <1>1, SendingAlone, ConnectionAlone DEF channelVars, ChannelInv
<1>2. CASE ChannelNext
  <2>1. CASE \E kind \in Sleepers : Wake(kind)
    BY <2>1, WakeKeeps
  <2>2. CASE \E a \in Attempts : \/ Loaded(a) \/ ConnectTimesOut(a) \/ Opened(a)
                                 \/ \E reason \in Fatal \union {"other"} : Closed(a, reason)
    BY <2>2, LoadedKeeps, TimeoutKeeps, OpenedKeeps, ClosedKeeps
  <2> QED BY <1>2, <2>1, <2>2, ConnectKeeps, DisconnectKeeps, FlushedKeeps, QueueKeeps
          DEF ChannelNext
<1> QED BY <1>1, <1>2

(* The variables of the channel keep their types.                           *)
THEOREM ChannelTypeCorrect == ChannelSpec => []ChannelTypeOK
<1>1. ChannelInv /\ [ChannelNext]_channelVars => ChannelInv'
  BY ChannelStep
<1> QED BY <1>1, ChannelInitially, ChannelInvHolds, PTL DEF ChannelSpec

(* The flag that keeps connect() from connecting is always held by a        *)
(* handler in its delay, and messages that wait by a worker: neither the    *)
(* channel nor its queue is stuck, whatever sockets do.                     *)
THEOREM ChannelFlagsHeld == ChannelSpec => []FlagsAreHeld
<1>1. ChannelInv /\ [ChannelNext]_channelVars => ChannelInv'
  BY ChannelStep
<1> QED BY <1>1, ChannelInitially, ChannelInvHolds, PTL DEF ChannelSpec

-----------------------------------------------------------------------------
(* The cards of remote agents.  The entries are in the order their agents   *)
(* were last used, whatever has been evicted since.                         *)
CardEntry == [agent : Agents, card : Nat, expiresAt : Nat, overtaken : BOOLEAN]
LessUsed(u) == {p \in CardEntry \X CardEntry : <<p[1].agent, p[2].agent>> \in Before(u)}

Agree(s, u) ==
  /\ s \in Seq(CardEntry) /\ InOrder(s, LessUsed(u))
  /\ u \in Seq(Agents) /\ InOrder(u, Different(Agents))
  /\ \A e \in Range(s) : e.agent \in Range(u)

FetchIsTrue(f) ==
  /\ f.overtaken \in BOOLEAN /\ f.answer \in Nat
  /\ f # NoFetch => f.agent \in Agents
  /\ f # NoFetch => f.answer <= version[f.agent]
  /\ f.answer # NoAnswer => f # NoFetch /\ (f.overtaken \/ f.answer >= wanted[f.agent])

Versions ==
  /\ cardClock \in Nat /\ cardClock <= MaxCardTime
  /\ version \in [Agents -> Nat] /\ wanted \in [Agents -> Nat]
  /\ \A a \in Agents : 1 <= wanted[a] /\ wanted[a] <= version[a] /\ version[a] <= MaxVersion[a]

FetchesAreTrue ==
  /\ fetches \in [Callers -> [agent : Agents \union {"none"}, answer : Nat, overtaken : BOOLEAN]]
  /\ \A c \in Callers : FetchIsTrue(fetches[c])

EntryIsTrue(e) ==
  /\ 1 <= e.card /\ e.card <= version[e.agent]
  /\ e.overtaken \/ e.card >= wanted[e.agent]

EntriesAreTrue ==
  /\ \A e \in Range(cardEntries) : EntryIsTrue(e)
  /\ Len(cardEntries) <= maxEntries

CardsInv == Versions /\ FetchesAreTrue /\ EntriesAreTrue /\ Agree(cardEntries, used)

(* Cards and uses of the same agents leave both lists.                      *)
LEMMA AgreeWithout ==
  ASSUME NEW s, NEW u, Agree(s, u), NEW t \in Seq(CardEntry), InOrder(t, LessUsed(u)),
         Range(t) \subseteq Range(s), NEW A, \A e \in Range(t) : e.agent \notin A
  PROVE  Agree(t, Filtered(u, A)) /\ Range(Filtered(u, A)) = Range(u) \ A
<1> DEFINE v == Filtered(u, A)
<1>1. v \in Seq(Agents) /\ Range(v) = Range(u) \ A /\ InOrder(v, Different(Agents))
  BY FilteredOf DEF Agree
<1>2. \A e \in Range(t) : e.agent \in Range(v)
  BY <1>1 DEF Agree
<1>3. ASSUME NEW i \in 1..Len(t), NEW j \in 1..Len(t), i < j
      PROVE  <<t[i], t[j]>> \in LessUsed(v)
  <2>1. <<t[i], t[j]>> \in CardEntry \X CardEntry /\ <<t[i].agent, t[j].agent>> \in Before(u)
    BY <1>3 DEF InOrder, LessUsed
  <2>2. t[i].agent \notin A /\ t[j].agent \notin A
    BY RangeOf
  <2>3. <<t[i].agent, t[j].agent>> \in Before(v)
    BY <2>1, <2>2, FilteredBefore DEF Agree
  <2> HIDE DEF v
  <2> QED BY <2>1, <2>3 DEF LessUsed
<1> HIDE DEF v
<1>4. InOrder(t, LessUsed(v))
  BY <1>3 DEF InOrder
<1> QED BY <1>1, <1>2, <1>4 DEF Agree, v

(* The card of an agent just used comes last in both.                       *)
LEMMA AgreeAppend ==
  ASSUME NEW s, NEW u, Agree(s, u), NEW e \in CardEntry, e.agent \notin Range(u)
  PROVE  Agree(Append(s, e), Append(u, e.agent))
<1> DEFINE v == Append(u, e.agent)
           t == Append(s, e)
<1>0. e.agent \in Agents
  BY DEF CardEntry
<1>1. v \in Seq(Agents) /\ Range(v) = Range(u) \union {e.agent}
  BY <1>0, RangeAppend DEF Agree
<1>2. InOrder(v, Different(Agents))
  <2>1. Range(u) \subseteq Agents
    BY RangeOf DEF Agree
  <2>2. \A a \in Range(u) : <<a, e.agent>> \in Different(Agents)
    BY <1>0, <2>1 DEF Different
  <2> QED BY <1>0, <2>2, AppendInOrder DEF Agree
<1>3. Before(u) \subseteq Before(v) /\ \A a \in Range(u) : <<a, e.agent>> \in Before(v)
  BY <1>0, AppendBefore DEF Agree
<1>4. t \in Seq(CardEntry) /\ Range(t) = Range(s) \union {e}
  BY RangeAppend DEF Agree
<1>5. InOrder(s, LessUsed(v))
  BY <1>3 DEF Agree, InOrder, LessUsed
<1>6. \A f \in Range(s) : <<f, e>> \in LessUsed(v)
  <2>1. Range(s) \subseteq CardEntry
    BY RangeOf DEF Agree
  <2> HIDE DEF v
  <2> QED BY <1>3, <2>1 DEF Agree, LessUsed
<1>7. InOrder(t, LessUsed(v))
  <2> HIDE DEF v
  <2> QED BY <1>5, <1>6, AppendInOrder DEF Agree
<1> HIDE DEF t, v
<1> QED BY <1>1, <1>2, <1>4, <1>7 DEF Agree, t, v

(* So no agent has two cards.                                               *)
LEMMA AgreeCounts ==
  ASSUME NEW s, NEW u, Agree(s, u)
  PROVE  /\ Len(s) \in Nat /\ DOMAIN s = 1..Len(s)
         /\ IsFiniteSet(Range(s)) /\ Cardinality(Range(s)) = Len(s)
         /\ Cardinality({s[i].agent : i \in 1..Len(s)}) = Len(s)
<1>1. Len(s) \in Nat /\ DOMAIN s = 1..Len(s)
  BY LenProperties DEF Agree
<1>2. \A i, j \in 1..Len(s) : i < j => s[i].agent # s[j].agent
  <2> SUFFICES ASSUME NEW i \in 1..Len(s), NEW j \in 1..Len(s), i < j
               PROVE  s[i].agent # s[j].agent
    OBVIOUS
  <2>1. <<s[i].agent, s[j].agent>> \in Before(u)
    BY DEF Agree, InOrder, LessUsed
  <2> QED BY <2>1, BeforeIsOneWay DEF Agree
<1>3. \A i, j \in 1..Len(s) : s[i].agent = s[j].agent => i = j
  BY <1>1, <1>2
<1> DEFINE f == [i \in 1..Len(s) |-> s[i].agent]
<1>4. /\ f \in [1..Len(s) -> {s[i].agent : i \in 1..Len(s)}]
      /\ \A i, j \in 1..Len(s) : f[i] = f[j] => i = j
  BY <1>3
<1>5. Range(f) = {s[i].agent : i \in 1..Len(s)}
  BY DEF Range
<1> HIDE DEF f
<1>6. Cardinality({s[i].agent : i \in 1..Len(s)}) = Len(s)
  <2>1. Cardinality(Range(f)) = Len(s)
    BY <1>1, <1>4, ListCounts
  <2> QED BY <1>5, <2>1
<1>7. s \in [1..Len(s) -> CardEntry] /\ \A i, j \in 1..Len(s) : s[i] = s[j] => i = j
  BY <1>1, <1>3, LenProperties, RangeOf DEF Agree
<1>8. IsFiniteSet(Range(s)) /\ Cardinality(Range(s)) = Len(s)
  BY <1>1, <1>7, ListCounts
<1> QED BY <1>1, <1>6, <1>8

LEMMA EntryOf ==
  ASSUME NEW a \in CachedCards, cardEntries \in Seq(CardEntry)
  PROVE  Entry(a) \in Range(cardEntries) /\ Entry(a) \in CardEntry /\ Entry(a).agent = a
<1>1. DOMAIN cardEntries = 1..Len(cardEntries)
  BY LenProperties
<1>2. \E i \in DOMAIN cardEntries : cardEntries[i].agent = a
  BY DEF CachedCards
<1> DEFINE i == CHOOSE i \in DOMAIN cardEntries : cardEntries[i].agent = a
<1>3. i \in DOMAIN cardEntries /\ cardEntries[i].agent = a
  BY <1>2
<1>4. Entry(a) = cardEntries[i]
  BY DEF Entry
<1> HIDE DEF i
<1> QED BY <1>1, <1>3, <1>4, RangeOf

(* What is left without the card of an agent.                               *)
LEMMA WithoutCardOf ==
  ASSUME NEW a, Agree(cardEntries, used)
  PROVE  /\ WithoutCard(a) \in Seq(CardEntry)
         /\ Range(WithoutCard(a)) = {e \in Range(cardEntries) : e.agent # a}
         /\ InOrder(WithoutCard(a), LessUsed(used))
         /\ Agree(WithoutCard(a), Filtered(used, {a}))
         /\ a \notin Range(Filtered(used, {a}))
         /\ Len(WithoutCard(a)) \in Nat /\ Len(cardEntries) \in Nat
         /\ Len(WithoutCard(a)) <= Len(cardEntries)
<1> DEFINE gone == {e \in Range(cardEntries) : e.agent = a}
           t == WithoutCard(a)
<1>1. t \in Seq(CardEntry) /\ Range(t) = Range(cardEntries) \ gone /\ InOrder(t, LessUsed(used))
  BY FilteredOf DEF Agree, WithoutCard
<1>2. Range(t) = {e \in Range(cardEntries) : e.agent # a}
  BY <1>1
<1> HIDE DEF t
<1>3. Agree(t, Filtered(used, {a})) /\ Range(Filtered(used, {a})) = Range(used) \ {a}
  <2>1. \A e \in Range(t) : e.agent \notin {a}
    BY <1>2
  <2> QED BY <1>1, <2>1, AgreeWithout
<1>4. Len(t) = Cardinality(Range(t)) /\ Len(t) \in Nat /\ IsFiniteSet(Range(t))
  BY <1>3, AgreeCounts
<1>5. /\ Len(cardEntries) = Cardinality(Range(cardEntries)) /\ Len(cardEntries) \in Nat
      /\ IsFiniteSet(Range(cardEntries))
  BY AgreeCounts
<1>6. Len(t) <= Len(cardEntries)
  BY <1>1, <1>4, <1>5, FS_Subset
<1> QED BY <1>1, <1>2, <1>3, <1>4, <1>5, <1>6 DEF t

LEMMA CardsStart == CardsInit => CardsInv
<1> SUFFICES ASSUME CardsInit PROVE CardsInv
  OBVIOUS
<1> USE CardsAssumption DEF CardsInit
<1>1. Versions
  BY DEF Versions
<1>2. FetchesAreTrue
  BY DEF FetchesAreTrue, FetchIsTrue, NoFetch, NoAnswer
<1>3. <<>> \in Seq(CardEntry) /\ <<>> \in Seq(Agents) /\ Len(<<>>) = 0 /\ Range(<<>>) = {}
  BY RangeEmpty
<1>4. EntriesAreTrue /\ Agree(cardEntries, used)
  BY <1>3 DEF EntriesAreTrue, Agree, InOrder
<1> QED BY <1>1, <1>2, <1>4 DEF CardsInv

LEMMA NoFetchKeeps ==
  ASSUME FetchesAreTrue, NEW c \in Callers, fetches' = [fetches EXCEPT ![c] = NoFetch],
         UNCHANGED <<version, wanted>>
  PROVE  FetchesAreTrue'
<1>1. NoFetch \in [agent : Agents \union {"none"}, answer : Nat, overtaken : BOOLEAN]
  BY DEF NoFetch
<1>2. \A d \in Callers : fetches'[d] = NoFetch \/ fetches'[d] = fetches[d]
  BY DEF FetchesAreTrue
<1>3. FetchIsTrue(NoFetch)
  <2>1. NoFetch.answer = 0
    BY DEF NoFetch
  <2>2. NoFetch.overtaken \in BOOLEAN /\ NoFetch.answer \in Nat
    BY DEF NoFetch
  <2>3. ~(NoFetch.answer # NoAnswer)
    BY <2>1 DEF NoAnswer
  <2> QED BY <2>2, <2>3 DEF FetchIsTrue
<1>4. \A d \in Callers : FetchIsTrue(fetches[d])'
  BY <1>2, <1>3 DEF FetchesAreTrue, FetchIsTrue
<1> QED BY <1>1, <1>4 DEF FetchesAreTrue

(* The card that comes is right if no invalidation has overtaken it.        *)
LEMMA AnswersAreKept ==
  ASSUME Versions, FetchesAreTrue, NEW c \in Callers, Answer(c) \/ FetchFails(c)
  PROVE  FetchesAreTrue'
<1> DEFINE f == fetches[c]
<1>1. /\ UNCHANGED <<version, wanted>>
      /\ \A d \in Callers : FetchIsTrue(fetches[d])
      /\ f \in [agent : Agents \union {"none"}, answer : Nat, overtaken : BOOLEAN]
  BY DEF FetchesAreTrue, Answer, FetchFails
<1>2. CASE Answer(c)
  <2>1. /\ f # NoFetch /\ fetches' = [fetches EXCEPT ![c].answer = version[f.agent]]
        /\ f.agent \in Agents
    BY <1>1, <1>2 DEF Answer, FetchIsTrue
  <2>2. version[f.agent] \in Nat /\ version[f.agent] >= wanted[f.agent] /\ version[f.agent] # 0
    BY <2>1 DEF Versions
  <2> DEFINE g == [f EXCEPT !.answer = version[f.agent]]
  <2>3. /\ g.agent = f.agent /\ g.answer = version[f.agent] /\ g.overtaken = f.overtaken
        /\ g \in [agent : Agents \union {"none"}, answer : Nat, overtaken : BOOLEAN]
    BY <1>1, <2>2
  <2>4. fetches' = [fetches EXCEPT ![c] = g]
    BY <2>1
  <2>5. g # NoFetch
    BY <2>2, <2>3 DEF NoFetch
  <2> HIDE DEF g, f
  <2>6. FetchIsTrue(g)
    BY <1>1, <2>1, <2>2, <2>3, <2>5 DEF FetchIsTrue
  <2>7. \A d \in Callers : fetches'[d] = g \/ fetches'[d] = fetches[d]
    BY <2>4 DEF FetchesAreTrue
  <2>8. \A d \in Callers : FetchIsTrue(fetches[d])'
    BY <1>1, <2>6, <2>7 DEF FetchIsTrue
  <2> QED BY <2>3, <2>4, <2>8 DEF FetchesAreTrue
<1>3. CASE FetchFails(c)
  BY <1>1, <1>3, NoFetchKeeps DEF FetchFails
<1> QED BY <1>2, <1>3

(* A card kept where its agent has none, in the place of the oldest.        *)
LEMMA StoredKeeps ==
  ASSUME CardsInv, NEW a \in Agents, NEW t, NEW e \in CardEntry, e.agent = a, EntryIsTrue(e),
         \/ t = WithoutCard(a) /\ Len(t) < maxEntries
         \/ t = WithoutCard(a) /\ a \in CachedCards
         \/ Len(WithoutCard(a)) >= maxEntries /\ t = Tail(WithoutCard(a)),
         cardEntries' = Append(t, e), Used(a), UNCHANGED <<version, wanted>>
  PROVE  EntriesAreTrue' /\ Agree(cardEntries, used)'
<1> DEFINE o == WithoutCard(a)
           v == Filtered(used, {a})
<1>1. Agree(cardEntries, used) /\ EntriesAreTrue
  BY DEF CardsInv
<1>2. /\ o \in Seq(CardEntry) /\ Range(o) = {f \in Range(cardEntries) : f.agent # a}
      /\ InOrder(o, LessUsed(used)) /\ Agree(o, v) /\ a \notin Range(v)
      /\ Len(o) \in Nat /\ Len(cardEntries) \in Nat /\ Len(o) <= Len(cardEntries)
  BY <1>1, WithoutCardOf
<1>3. maxEntries \in Nat \ {0}
  BY CardsAssumption
<1> HIDE DEF o, v
<1>4. Agree(t, v) /\ Range(t) \subseteq Range(o) /\ Len(t) < maxEntries
  <2>1. CASE t = o /\ Len(t) < maxEntries
    BY <1>2, <2>1
  <2>2. CASE t = o /\ a \in CachedCards
    <3>1. Len(o) = Cardinality(Range(o)) /\ Len(cardEntries) = Cardinality(Range(cardEntries))
          /\ IsFiniteSet(Range(cardEntries))
      BY <1>1, <1>2, AgreeCounts
    <3>2. Entry(a) \in Range(cardEntries) /\ Entry(a) \notin Range(o)
      BY <1>1, <1>2, <2>2, EntryOf DEF Agree
    <3>3. Len(o) # Len(cardEntries)
      BY <1>2, <3>1, <3>2, FS_Subset
    <3>4. Len(cardEntries) <= maxEntries
      BY <1>1 DEF EntriesAreTrue
    <3> QED BY <1>2, <1>3, <2>2, <3>3, <3>4
  <2>3. CASE Len(o) >= maxEntries /\ t = Tail(o)
    <3>1. o # <<>>
      BY <1>2, <1>3, <2>3
    <3>2. Len(t) = Len(o) - 1 /\ t \in Seq(CardEntry)
      BY <1>2, <2>3, <3>1, HeadTailProperties
    <3>3. Len(cardEntries) <= maxEntries
      BY <1>1 DEF EntriesAreTrue
    <3>4. \A i \in 1..Len(t) : t[i] = o[i + 1]
      BY <1>2, <2>3, <3>1, HeadTailProperties
    <3>5. \A i \in 1..Len(t) : i + 1 \in 1..Len(o)
      BY <1>2, <3>2
    <3>6. InOrder(t, LessUsed(used))
      <4> SUFFICES ASSUME NEW i \in 1..Len(t), NEW j \in 1..Len(t), i < j
                   PROVE  <<t[i], t[j]>> \in LessUsed(used)
        BY DEF InOrder
      <4>1. i + 1 < j + 1
        OBVIOUS
      <4> QED BY <1>2, <3>4, <3>5, <4>1 DEF InOrder
    <3>7. Range(t) \subseteq Range(o)
      BY <1>2, <3>2, <3>4, <3>5, RangeOf
    <3>8. \A f \in Range(t) : f.agent \notin {a}
      BY <1>2, <3>7
    <3>9. Range(t) \subseteq Range(cardEntries)
      BY <1>2, <3>7
    <3>10. Agree(t, v)
      BY <1>1, <3>2, <3>6, <3>8, <3>9, AgreeWithout DEF v
    <3> QED BY <1>2, <1>3, <2>3, <3>2, <3>3, <3>7, <3>10
  <2> QED BY <2>1, <2>2, <2>3 DEF o
<1>5. Agree(cardEntries', used')
  <2>1. used' = Append(v, e.agent)
    BY DEF Used, v
  <2> QED BY <1>2, <1>4, <2>1, AgreeAppend
<1>6. /\ Len(cardEntries') = Len(t) + 1 /\ Len(t) \in Nat
      /\ Range(cardEntries') = Range(t) \union {e}
  BY <1>4, AppendProperties, LenProperties, RangeAppend DEF Agree
<1>7. Len(cardEntries') <= maxEntries
  BY <1>3, <1>4, <1>6
<1>8. \A f \in Range(cardEntries') : EntryIsTrue(f)
  BY <1>1, <1>2, <1>4, <1>6 DEF EntriesAreTrue
<1>9. EntriesAreTrue'
  BY <1>7, <1>8 DEF EntriesAreTrue, EntryIsTrue
<1> QED BY <1>5, <1>9 DEF Agree

(* Cards that leave, and the fetches that start and are overtaken.          *)
LEMMA CardsLeave ==
  ASSUME CardsInv, NEW a \in Agents, cardEntries' = WithoutCard(a), Gone({a}),
         UNCHANGED version,
         \A b \in Agents : b = a \/ wanted'[b] = wanted[b]
  PROVE  EntriesAreTrue' /\ Agree(cardEntries, used)'
<1>1. Agree(cardEntries, used) /\ EntriesAreTrue
  BY DEF CardsInv
<1>2. /\ Range(cardEntries') = {e \in Range(cardEntries) : e.agent # a}
      /\ Agree(cardEntries', used')
      /\ Len(cardEntries') \in Nat /\ Len(cardEntries) \in Nat
      /\ Len(cardEntries') <= Len(cardEntries)
  BY <1>1, WithoutCardOf DEF Gone
<1>3. Len(cardEntries') <= maxEntries
  BY <1>1, <1>2, CardsAssumption DEF EntriesAreTrue
<1>4. ASSUME NEW e \in Range(cardEntries') PROVE EntryIsTrue(e)'
  <2>1. EntryIsTrue(e) /\ e.agent # a
    BY <1>1, <1>2 DEF EntriesAreTrue
  <2>2. e.agent \in Agents
    <3>1. Range(cardEntries) \subseteq CardEntry
      BY <1>1, RangeOf DEF Agree
    <3> QED BY <1>2, <3>1 DEF CardEntry
  <2> QED BY <2>1, <2>2 DEF EntryIsTrue
<1> QED BY <1>2, <1>3, <1>4 DEF EntriesAreTrue, Agree

LEMMA FetchStarts ==
  ASSUME Versions, FetchesAreTrue, NEW c \in Callers, NEW a \in Agents, Discover(c, a)
  PROVE  FetchesAreTrue'
<1> DEFINE g == [NoFetch EXCEPT !.agent = a]
<1>1. /\ g.agent = a /\ g.answer = 0 /\ g.overtaken = FALSE
      /\ g \in [agent : Agents \union {"none"}, answer : Nat, overtaken : BOOLEAN]
  BY DEF NoFetch
<1>2. fetches' = [fetches EXCEPT ![c] = g] /\ UNCHANGED <<version, wanted>>
  BY DEF Discover
<1> HIDE DEF g
<1>3. FetchIsTrue(g)
  <2>1. version[a] \in Nat /\ 0 <= version[a]
    BY DEF Versions
  <2> QED BY <1>1, <2>1 DEF FetchIsTrue, NoAnswer
<1>4. \A d \in Callers : fetches'[d] = g \/ fetches'[d] = fetches[d]
  BY <1>2 DEF FetchesAreTrue
<1>5. \A d \in Callers : FetchIsTrue(fetches[d])'
  BY <1>2, <1>3, <1>4 DEF FetchesAreTrue, FetchIsTrue
<1> QED BY <1>1, <1>2, <1>5 DEF FetchesAreTrue

LEMMA InvalidationOvertakes ==
  ASSUME Versions, FetchesAreTrue, NEW A \in SUBSET Agents, Invalidated(A)
  PROVE  FetchesAreTrue' /\ Versions'
<1>1. /\ wanted' = [a \in Agents |-> IF a \in A THEN version[a] ELSE wanted[a]]
      /\ fetches' = [c \in Callers |-> [fetches[c] EXCEPT !.overtaken = @ \/ fetches[c].agent \in A]]
      /\ UNCHANGED <<cardClock, version>>
  BY DEF Invalidated
<1>2. Versions'
  BY <1>1 DEF Versions
<1>3. ASSUME NEW c \in Callers
      PROVE  /\ fetches'[c] \in [agent : Agents \union {"none"}, answer : Nat, overtaken : BOOLEAN]
             /\ FetchIsTrue(fetches[c])'
  <2> DEFINE f == fetches[c]
             g == [f EXCEPT !.overtaken = @ \/ f.agent \in A]
  <2>1. /\ f \in [agent : Agents \union {"none"}, answer : Nat, overtaken : BOOLEAN]
        /\ FetchIsTrue(f)
    BY DEF FetchesAreTrue
  <2>2. /\ g.agent = f.agent /\ g.answer = f.answer
        /\ g.overtaken = (f.overtaken \/ f.agent \in A)
        /\ g \in [agent : Agents \union {"none"}, answer : Nat, overtaken : BOOLEAN]
    BY <2>1
  <2>3. fetches'[c] = g
    BY <1>1
  <2>4. g # NoFetch => f # NoFetch
    <3> SUFFICES ASSUME f = NoFetch PROVE g = NoFetch
      OBVIOUS
    <3>1. f.agent \notin A /\ f.overtaken = FALSE
      BY CardsAssumption DEF NoFetch
    <3> QED BY <3>1 DEF NoFetch
  <2>5. f # NoFetch => g # NoFetch
    <3> SUFFICES ASSUME f # NoFetch PROVE g # NoFetch
      OBVIOUS
    <3>1. g.agent \in Agents
      BY <2>1, <2>2 DEF FetchIsTrue
    <3> QED BY <3>1, CardsAssumption DEF NoFetch
  <2> HIDE DEF f, g
  <2>6. g.overtaken \in BOOLEAN
    BY <2>2
  <2>7. g.answer # NoAnswer => g.overtaken \/ g.answer >= wanted'[g.agent]
    BY <1>1, <2>1, <2>2 DEF FetchIsTrue
  <2>8. /\ g.answer \in Nat /\ (g # NoFetch => g.agent \in Agents)
        /\ (g # NoFetch => g.answer <= version'[g.agent])
        /\ (g.answer # NoAnswer => g # NoFetch)
    BY <1>1, <2>1, <2>2, <2>4, <2>5 DEF FetchIsTrue
  <2> QED BY <2>2, <2>3, <2>6, <2>7, <2>8 DEF FetchIsTrue
<1>4. FetchesAreTrue'
  BY <1>1, <1>3 DEF FetchesAreTrue
<1> QED BY <1>2, <1>4

LEMMA CardsStep == CardsInv /\ [CardsNext]_cardVars => CardsInv'
<1> SUFFICES ASSUME CardsInv, [CardsNext]_cardVars PROVE CardsInv'
  OBVIOUS
<1>0. Versions /\ FetchesAreTrue /\ EntriesAreTrue /\ Agree(cardEntries, used)
  BY DEF CardsInv
<1>1. ASSUME NEW a \in Agents, DiscoverCached(a) PROVE CardsInv'
  <2>1. /\ a \in CachedCards /\ cardEntries' = Append(WithoutCard(a), Entry(a)) /\ Used(a)
        /\ UNCHANGED <<cardClock, version, fetches, wanted>>
    BY <1>1 DEF DiscoverCached
  <2>2. Entry(a) \in Range(cardEntries) /\ Entry(a) \in CardEntry /\ Entry(a).agent = a
    BY <1>0, <2>1, EntryOf DEF Agree
  <2>3. EntryIsTrue(Entry(a))
    BY <1>0, <2>2 DEF EntriesAreTrue
  <2>4. EntriesAreTrue' /\ Agree(cardEntries, used)'
    BY <2>1, <2>2, <2>3, StoredKeeps
  <2>5. Versions' /\ FetchesAreTrue'
    BY <1>0, <2>1 DEF Versions, FetchesAreTrue, FetchIsTrue
  <2> QED BY <2>4, <2>5 DEF CardsInv
<1>2. ASSUME NEW a \in Agents, InvalidateAgent(a) PROVE CardsInv'
  <2>1. /\ cardEntries' = WithoutCard(a) /\ Invalidated({a}) /\ Gone({a})
        /\ UNCHANGED version
        /\ wanted' = [b \in Agents |-> IF b \in {a} THEN version[b] ELSE wanted[b]]
    BY <1>2 DEF InvalidateAgent, Invalidated
  <2>2. EntriesAreTrue' /\ Agree(cardEntries, used)'
    BY <2>1, CardsLeave
  <2>3. Versions' /\ FetchesAreTrue'
    BY <1>0, <2>1, InvalidationOvertakes
  <2> QED BY <2>2, <2>3 DEF CardsInv
<1>3. ASSUME NEW a \in Agents, CardChanges(a) PROVE CardsInv'
  <2>1. /\ version' = [version EXCEPT ![a] = @ + 1] /\ version[a] < MaxVersion[a]
        /\ UNCHANGED <<cardClock, cardEntries, fetches, wanted, used>>
    BY <1>3 DEF CardChanges
  <2>2. Versions'
    <3>1. \A b \in Agents : version[b] \in Nat /\ wanted[b] \in Nat /\ MaxVersion[b] \in Nat
      BY <1>0, CardsAssumption DEF Versions
    <3>2. \A b \in Agents : version'[b] = IF b = a THEN version[b] + 1 ELSE version[b]
      BY <1>0, <2>1 DEF Versions
    <3>3. version' \in [Agents -> Nat]
      BY <1>0, <2>1, <3>1 DEF Versions
    <3>4. \A b \in Agents : wanted[b] <= version'[b] /\ version'[b] <= MaxVersion[b]
      BY <1>0, <2>1, <3>1, <3>2 DEF Versions
    <3> QED BY <1>0, <2>1, <3>3, <3>4 DEF Versions
  <2>3. \A b \in Agents : version[b] \in Nat /\ version'[b] \in Nat /\ version[b] <= version'[b]
    BY <1>0, <2>1 DEF Versions
  <2>4. ASSUME NEW c \in Callers PROVE FetchIsTrue(fetches[c])'
    <3>1. FetchIsTrue(fetches[c])
      BY <1>0 DEF FetchesAreTrue
    <3> DEFINE f == fetches[c]
    <3>2. f # NoFetch => f.answer <= version'[f.agent]
      BY <2>3, <3>1 DEF FetchIsTrue
    <3> QED BY <2>1, <3>1, <3>2 DEF FetchIsTrue
  <2>5. FetchesAreTrue'
    BY <1>0, <2>1, <2>4 DEF FetchesAreTrue
  <2>6. ASSUME NEW e \in Range(cardEntries') PROVE EntryIsTrue(e)'
    <3>1. EntryIsTrue(e) /\ e \in CardEntry
      BY <1>0, <2>1, RangeOf DEF EntriesAreTrue, Agree
    <3>2. e.agent \in Agents /\ e.card \in Nat
      BY <3>1 DEF CardEntry
    <3> QED BY <2>1, <2>3, <3>1, <3>2 DEF EntryIsTrue
  <2>7. EntriesAreTrue' /\ Agree(cardEntries, used)'
    BY <1>0, <2>1, <2>6 DEF EntriesAreTrue, Agree
  <2> QED BY <2>2, <2>5, <2>7 DEF CardsInv
<1>4. ASSUME NEW a \in Agents, NEW c \in Callers, Discover(c, a) PROVE CardsInv'
  <2>1. /\ cardEntries' = WithoutCard(a) /\ Gone({a})
        /\ UNCHANGED <<cardClock, version, wanted>>
    BY <1>4 DEF Discover
  <2>2. EntriesAreTrue' /\ Agree(cardEntries, used)'
    BY <2>1, CardsLeave
  <2>3. FetchesAreTrue'
    BY <1>0, <1>4, FetchStarts
  <2>4. Versions'
    BY <1>0, <2>1 DEF Versions
  <2> QED BY <2>2, <2>3, <2>4 DEF CardsInv
<1>5. ASSUME NEW c \in Callers, Answer(c) \/ FetchFails(c) PROVE CardsInv'
  <2>1. FetchesAreTrue'
    BY <1>0, <1>5, AnswersAreKept
  <2>2. UNCHANGED <<cardClock, version, cardEntries, wanted, used>>
    BY <1>5 DEF Answer, FetchFails
  <2>3. Versions' /\ EntriesAreTrue' /\ Agree(cardEntries, used)'
    BY <1>0, <2>2 DEF Versions, EntriesAreTrue, EntryIsTrue, Agree
  <2> QED BY <2>1, <2>3 DEF CardsInv
<1>6. ASSUME NEW c \in Callers, Fetched(c) PROVE CardsInv'
  <2> DEFINE f == fetches[c]
             a == f.agent
             e == [agent |-> a, card |-> f.answer, expiresAt |-> cardClock + ttl,
                   overtaken |-> f.overtaken]
             t == IF Len(WithoutCard(a)) >= maxEntries THEN Tail(WithoutCard(a))
                  ELSE WithoutCard(a)
  <2>1. /\ f.answer # NoAnswer /\ cardEntries' = Append(t, e) /\ Used(a)
        /\ fetches' = [fetches EXCEPT ![c] = NoFetch]
        /\ UNCHANGED <<cardClock, version, wanted>>
    BY <1>6 DEF Fetched, Stored
  <2>2. FetchIsTrue(f)
    BY <1>0 DEF FetchesAreTrue
  <2>3. a \in Agents /\ f.answer \in Nat /\ f.overtaken \in BOOLEAN
    BY <2>1, <2>2 DEF FetchIsTrue
  <2>4. cardClock + ttl \in Nat
    BY <1>0, CardsAssumption DEF Versions
  <2>5. /\ e \in CardEntry /\ e.agent = a /\ e.card = f.answer
        /\ e.overtaken = f.overtaken
    BY <2>3, <2>4 DEF CardEntry
  <2>6. EntryIsTrue(e)
    <3>1. 1 <= f.answer /\ f.answer <= version[a] /\ (f.overtaken \/ f.answer >= wanted[a])
      BY <2>1, <2>2, <2>3 DEF FetchIsTrue, NoAnswer
    <3> HIDE DEF e
    <3> QED BY <2>5, <3>1 DEF EntryIsTrue
  <2>7. \/ t = WithoutCard(a) /\ Len(t) < maxEntries
        \/ Len(WithoutCard(a)) >= maxEntries /\ t = Tail(WithoutCard(a))
    <3>1. Len(WithoutCard(a)) \in Nat /\ maxEntries \in Nat
      BY <1>0, WithoutCardOf, CardsAssumption
    <3> QED BY <3>1
  <2> HIDE DEF e, t, a
  <2>8. EntriesAreTrue' /\ Agree(cardEntries, used)'
    BY <2>1, <2>3, <2>5, <2>6, <2>7, StoredKeeps
  <2>9. FetchesAreTrue'
    BY <1>0, <2>1, NoFetchKeeps
  <2>10. Versions'
    BY <1>0, <2>1 DEF Versions
  <2> QED BY <2>8, <2>9, <2>10 DEF CardsInv
<1>7. CASE ClearCache
  <2>1. cardEntries' = <<>> /\ Invalidated(Agents) /\ used' = Filtered(used, Agents)
    BY <1>7 DEF ClearCache, Invalidated, Gone
  <2>2. Versions' /\ FetchesAreTrue'
    BY <1>0, <2>1, InvalidationOvertakes
  <2>3. used' \in Seq(Agents) /\ InOrder(used', Different(Agents))
    BY <1>0, <2>1, FilteredOf DEF Agree
  <2>4. <<>> \in Seq(CardEntry) /\ Len(<<>>) = 0 /\ Range(<<>>) = {}
    BY RangeEmpty
  <2>5. Agree(cardEntries, used)'
    BY <2>1, <2>3, <2>4 DEF Agree, InOrder
  <2>6. EntriesAreTrue'
    BY <2>1, <2>4, CardsAssumption DEF EntriesAreTrue
  <2> QED BY <2>2, <2>5, <2>6 DEF CardsInv
<1>8. CASE CardTick \/ UNCHANGED cardVars
  <2>1. /\ UNCHANGED <<version, cardEntries, fetches, wanted, used>>
        /\ cardClock' = cardClock \/ (cardClock < MaxCardTime /\ cardClock' = cardClock + 1)
    BY <1>8 DEF CardTick, cardVars
  <2>a. cardClock' \in Nat /\ cardClock' <= MaxCardTime
    <3>1. cardClock \in Nat /\ cardClock <= MaxCardTime /\ MaxCardTime \in Nat
      BY <1>0, CardsAssumption DEF Versions
    <3> QED BY <2>1, <3>1
  <2>2. Versions'
    BY <1>0, <2>1, <2>a DEF Versions
  <2>3. FetchesAreTrue' /\ EntriesAreTrue' /\ Agree(cardEntries, used)'
    BY <1>0, <2>1 DEF FetchesAreTrue, FetchIsTrue, EntriesAreTrue, EntryIsTrue, Agree
  <2> QED BY <2>2, <2>3 DEF CardsInv
<1> QED BY <1>1, <1>2, <1>3, <1>4, <1>5, <1>6, <1>7, <1>8 DEF CardsNext

LEMMA CardsInvariant == CardsSpec => []CardsInv
  BY CardsStart, CardsStep, PTL DEF CardsSpec

(* The discovery of cards keeps its types, whatever the calls and however   *)
(* often cards change and are invalidated (AgentCardCache).                 *)
THEOREM CardsTypeCorrect == CardsSpec => []CardsTypeOK
<1>1. CardsInv => CardsTypeOK
  <2> SUFFICES ASSUME CardsInv PROVE CardsTypeOK
    OBVIOUS
  <2>0. Versions /\ FetchesAreTrue /\ EntriesAreTrue /\ Agree(cardEntries, used)
    BY DEF CardsInv
  <2>1. cardClock \in 0..MaxCardTime
    BY <2>0, CardsAssumption DEF Versions
  <2>2. \A a \in Agents : version[a] \in 1..MaxVersion[a] /\ wanted[a] \in 1..version[a]
    BY <2>0, CardsAssumption DEF Versions
  <2>3. DOMAIN cardEntries = 1..Len(cardEntries)
    BY <2>0, AgreeCounts
  <2>4. ASSUME NEW i \in DOMAIN cardEntries
        PROVE  /\ cardEntries[i].agent \in Agents
               /\ cardEntries[i].card \in 1..version[cardEntries[i].agent]
    <3>1. cardEntries[i] \in Range(cardEntries) /\ cardEntries[i] \in CardEntry
      BY <2>0, <2>3, RangeOf DEF Agree
    <3>2. cardEntries[i].agent \in Agents /\ cardEntries[i].card \in Nat
      BY <3>1 DEF CardEntry
    <3>3. version[cardEntries[i].agent] \in Nat
      BY <2>0, <3>2 DEF Versions
    <3> QED BY <2>0, <3>1, <3>2, <3>3 DEF EntriesAreTrue, EntryIsTrue
  <2>5. CachedCards \subseteq Agents
    BY <2>4 DEF CachedCards
  <2>6. ASSUME NEW c \in Callers, fetches[c] # NoFetch
        PROVE  fetches[c].answer \in 0..version[fetches[c].agent]
    <3>1. FetchIsTrue(fetches[c])
      BY <2>0 DEF FetchesAreTrue
    <3>2. version[fetches[c].agent] \in Nat
      BY <2>0, <2>6, <3>1 DEF Versions, FetchIsTrue
    <3> QED BY <2>6, <3>1, <3>2 DEF FetchIsTrue
  <2> QED BY <2>1, <2>2, <2>4, <2>5, <2>6 DEF CardsTypeOK
<1> QED BY <1>1, CardsInvariant, PTL

(* The cache has one card per agent, the least recently used first, never   *)
(* too many, and none older than its invalidation but what a fetch under    *)
(* way has brought.                                                         *)
THEOREM CacheStaysLru == CardsSpec => []CacheIsLru
<1>1. CardsInv => CacheIsLru
  <2> SUFFICES ASSUME CardsInv PROVE CacheIsLru
    OBVIOUS
  <2>0. EntriesAreTrue /\ Agree(cardEntries, used)
    BY DEF CardsInv
  <2> DEFINE Index(a) == CHOOSE i \in DOMAIN used : used[i] = a
  <2>1. /\ DOMAIN cardEntries = 1..Len(cardEntries)
        /\ Cardinality({cardEntries[i].agent : i \in 1..Len(cardEntries)}) = Len(cardEntries)
    BY <2>0, AgreeCounts
  <2>2. Cardinality(CachedCards) = Len(cardEntries)
    BY <2>1 DEF CachedCards
  <2>3. Len(cardEntries) <= maxEntries
    BY <2>0 DEF EntriesAreTrue
  <2>4. DOMAIN used = 1..Len(used) /\ Len(used) \in Nat
    BY <2>0, LenProperties DEF Agree
  <2>5. \A p, q \in 1..Len(used) : used[p] = used[q] => p = q
    <3>1. \A p, q \in 1..Len(used) : p < q => used[p] # used[q]
      BY <2>0 DEF Agree, InOrder, Different
    <3> QED BY <2>4, <3>1
  <2>6. ASSUME NEW p \in 1..Len(used) PROVE Index(used[p]) = p
    <3>1. \E i \in DOMAIN used : used[i] = used[p]
      BY <2>4
    <3>2. Index(used[p]) \in DOMAIN used /\ used[Index(used[p])] = used[p]
      BY <3>1
    <3> HIDE DEF Index
    <3> QED BY <2>4, <2>5, <3>2
  <2>7. ASSUME NEW i \in DOMAIN cardEntries, NEW j \in DOMAIN cardEntries, i < j
        PROVE  Index(cardEntries[i].agent) < Index(cardEntries[j].agent)
    <3>1. <<cardEntries[i].agent, cardEntries[j].agent>> \in Before(used)
      BY <2>0, <2>1, <2>7 DEF Agree, InOrder, LessUsed
    <3>2. PICK p, q \in 1..Len(used) : /\ p < q /\ used[p] = cardEntries[i].agent
                                       /\ used[q] = cardEntries[j].agent
      BY <3>1 DEF Before
    <3> HIDE DEF Index
    <3> QED BY <2>6, <3>2
  <2>8. ASSUME NEW a \in CachedCards PROVE Entry(a).overtaken \/ Entry(a).card >= wanted[a]
    <3>1. Entry(a) \in Range(cardEntries) /\ Entry(a).agent = a
      BY <2>0, EntryOf DEF Agree
    <3> QED BY <2>0, <3>1 DEF EntriesAreTrue, EntryIsTrue
  <2> QED BY <2>2, <2>3, <2>7, <2>8 DEF CacheIsLru
<1> QED BY <1>1, CardsInvariant, PTL

-----------------------------------------------------------------------------
(* A call to a remote agent.  Its timer is the timer of what it does now,   *)
(* its deadline is known from the first answer on, and the answer it holds  *)
(* is the task's if the task has ended.                                     *)
Polling == taskStage \in {"sleep", "get", "get body"}

Clocks ==
  /\ taskClock \in Nat /\ taskClock <= MaxTaskTime
  /\ taskTimer \in Nat /\ deadline \in Nat
  /\ pollEvery \in Nat /\ (pollEvery = pollInterval \/ pollEvery <= pollMaxInterval)
  /\ answered \in Nat /\ answered <= taskClock

TimersAreSet ==
  /\ taskStage = "sleep" => taskClock <= taskTimer /\ taskTimer <= deadline
  /\ taskStage = "get" => taskClock <= taskTimer /\ taskTimer <= deadline + requestTimeout
  /\ Polling => deadline >= taskTimeout
  /\ outcome = "gave up" => answered >= deadline /\ deadline >= taskTimeout
  /\ outcome = "none" \/ taskStage = "done"

Names ==
  /\ task \in States \union {"none"} /\ answer \in States \union {"none", "error"}
  /\ taskStage \in TaskStages /\ taskAborted \in BOOLEAN

AnswersAreTrue ==
  /\ answer \in Terminal => answer = task
  /\ outcome \in Terminal => outcome = task

TaskInv == Clocks /\ TimersAreSet /\ Names /\ AnswersAreTrue

LEMMA MinOf ==
  ASSUME NEW a \in Nat, NEW b \in Nat
  PROVE  Min({a, b}) \in Nat /\ Min({a, b}) <= a /\ Min({a, b}) <= b
<1>1. \E m \in {a, b} : \A y \in {a, b} : m <= y
  <2>1. CASE a <= b
    BY <2>1
  <2>2. CASE b <= a
    BY <2>2
  <2> QED BY <2>1, <2>2
<1> DEFINE m == CHOOSE x \in {a, b} : \A y \in {a, b} : x <= y
<1>2. m \in {a, b} /\ \A y \in {a, b} : m <= y
  BY <1>1
<1>3. Min({a, b}) = m
  BY DEF Min
<1> HIDE DEF m
<1> QED BY <1>2, <1>3

LEMMA TaskStarts == TaskInit => TaskInv
<1> SUFFICES ASSUME TaskInit PROVE TaskInv
  OBVIOUS
<1>1. Clocks /\ TimersAreSet
  BY TaskAssumption DEF TaskInit, Clocks, TimersAreSet, Polling
<1>2. Names /\ AnswersAreTrue
  BY DEF TaskInit, Names, AnswersAreTrue, Terminal, States, TaskStages
<1> QED BY <1>1, <1>2 DEF TaskInv

(* The names, whatever the clocks say.                                      *)
LEMMA AnswersStayTrue ==
  ASSUME Names, AnswersAreTrue, outcome = "none" \/ taskStage = "done",
         [TaskNext]_taskVars
  PROVE  Names' /\ AnswersAreTrue'
<1> USE DEF Names, AnswersAreTrue
<1>1. CASE SendMessage
  BY <1>1 DEF SendMessage, TaskStages
<1>2. CASE AgentAnswers
  <2>1. task' \in States /\ answer' \in {task', "error"} /\ UNCHANGED <<taskStage, taskAborted, outcome>>
    BY <1>2 DEF AgentAnswers
  <2>2. task' = task \/ outcome = "none"
    BY <1>2 DEF AgentAnswers, Requesting
  <2>3. "none" \notin Terminal /\ "error" \notin Terminal
    BY DEF Terminal
  <2> QED BY <2>1, <2>2, <2>3
<1>3. CASE Headers
  BY <1>3 DEF Headers, TaskStages
<1>4. CASE RequestFails
  BY <1>4 DEF RequestFails, CallEnds, Terminal, TaskStages
<1>5. CASE Posted \/ Got
  <2>1. CASE CallEnds(answer)
    BY <2>1 DEF CallEnds, TaskStages
  <2>2. CASE /\ answer' = "none" /\ taskStage' \in {"done", "sleep"}
             /\ outcome' \in {"gave up", "aborted", outcome} /\ UNCHANGED <<task, taskAborted>>
    BY <2>2 DEF States, Terminal, TaskStages
  <2>3. CallEnds(answer) \/ \E until, every : Poll(until, every) /\ UNCHANGED <<task, taskAborted>>
    BY <1>5 DEF Posted, Got
  <2>4. ASSUME NEW until, NEW every, Poll(until, every)
        PROVE  /\ answer' = "none" /\ taskStage' \in {"done", "sleep"}
               /\ outcome' \in {"gave up", "aborted", outcome}
    BY <2>4 DEF Poll
  <2> QED BY <2>1, <2>2, <2>3, <2>4
<1>6. CASE WakePoll
  BY <1>6 DEF WakePoll, TaskStages
<1>8. CASE AbortTask
  BY <1>8 DEF AbortTask, TaskStages, Terminal
<1>9. CASE TaskChanges
  <2>1. task \notin Terminal
    BY <1>9 DEF TaskChanges, Paused, Terminal
  <2> QED BY <1>9, <2>1 DEF TaskChanges
<1>10. CASE TaskTick \/ UNCHANGED taskVars
  BY <1>10 DEF TaskTick, taskVars
<1> QED BY <1>1, <1>2, <1>3, <1>4, <1>5, <1>6, <1>8, <1>9, <1>10 DEF TaskNext

(* The head of the loop, after an answer that came now.                     *)
LEMMA PollKeeps ==
  ASSUME Clocks, outcome = "none", NEW until \in Nat, until >= taskTimeout,
         NEW every \in Nat, every = pollInterval \/ every <= pollMaxInterval,
         Poll(until, every), answered' = taskClock, taskClock' = taskClock
  PROVE  Clocks' /\ TimersAreSet'
<1> USE TaskAssumption
<1>1. deadline' = until /\ pollEvery' = every /\ taskClock \in Nat /\ taskTimer \in Nat
  BY DEF Poll, Clocks
<1>2. CASE taskClock >= until
  <2>1. taskStage' = "done" /\ outcome' = "gave up" /\ taskTimer' = taskTimer
    BY <1>2 DEF Poll
  <2>a. answered' \in Nat /\ answered' <= taskClock'
    BY <1>1
  <2>b. pollEvery' \in Nat /\ (pollEvery' = pollInterval \/ pollEvery' <= pollMaxInterval)
    BY <1>1
  <2>c. taskClock' \in Nat /\ taskClock' <= MaxTaskTime /\ taskTimer' \in Nat /\ deadline' \in Nat
    BY <1>1, <2>1 DEF Clocks
  <2>2. Clocks'
    BY <2>a, <2>b, <2>c DEF Clocks
  <2>3. answered' >= deadline' /\ deadline' >= taskTimeout
    BY <1>1, <1>2
  <2> QED BY <2>1, <2>2, <2>3 DEF TimersAreSet, Polling
<1>3. CASE ~(taskClock >= until) /\ taskAborted
  <2>1. taskStage' = "done" /\ outcome' = "aborted" /\ taskTimer' = taskTimer
    BY <1>3 DEF Poll
  <2> QED BY <1>1, <2>1 DEF Clocks, TimersAreSet, Polling
<1>4. CASE ~(taskClock >= until) /\ ~taskAborted
  <2>1. taskStage' = "sleep" /\ outcome' = outcome
    BY <1>4 DEF Poll
  <2>2. PICK delay \in Jittered(every) : taskTimer' = taskClock + Min({delay, until - taskClock})
    BY <1>4 DEF Poll
  <2>3. delay \in Nat /\ until - taskClock \in Nat
    BY <1>1, <1>4 DEF Jittered
  <2>4. taskTimer' \in Nat /\ taskClock <= taskTimer' /\ taskTimer' <= until
    BY <1>1, <2>2, <2>3, MinOf
  <2> QED BY <1>1, <2>1, <2>4 DEF Clocks, TimersAreSet, Polling
<1> QED BY <1>2, <1>3, <1>4

LEMMA TimersStaySet ==
  ASSUME Clocks, TimersAreSet, Names, [TaskNext]_taskVars
  PROVE  Clocks' /\ TimersAreSet'
<1> USE TaskAssumption
<1>1. CASE SendMessage
  BY <1>1 DEF SendMessage, Clocks, TimersAreSet, Polling
<1>2. CASE AgentAnswers
  BY <1>2 DEF AgentAnswers, Clocks, TimersAreSet, Polling
<1>3. CASE Headers
  BY <1>3 DEF Headers, Requesting, Clocks, TimersAreSet, Polling
<1>4. CASE RequestFails
  BY <1>4 DEF RequestFails, Requesting, CallEnds, Clocks, TimersAreSet, Polling
<1>5. CASE Posted
  <2>1. answered' = taskClock /\ taskStage = "post body" /\ taskClock' = taskClock /\ outcome = "none"
    BY <1>5 DEF Posted, CallEnds, TimersAreSet
  <2>2. CASE answer \in Terminal \union {"error"}
    <3>1. CallEnds(answer)
      BY <1>5, <2>2 DEF Posted
    <3>2. answer # "gave up"
      BY <2>2 DEF Terminal
    <3>a. taskClock \in Nat
      BY DEF Clocks
    <3>d. answered' = taskClock /\ taskClock' = taskClock
      BY <2>1
    <3>e. taskClock <= taskClock
      BY <3>a
    <3>c. answered' \in Nat /\ answered' <= taskClock'
      BY <3>a, <3>d, <3>e
    <3>b. UNCHANGED <<taskClock, taskTimer, deadline, pollEvery>>
      BY <3>1 DEF CallEnds
    <3>3. Clocks'
      BY <3>b, <3>c DEF Clocks
    <3>4. taskStage' = "done" /\ outcome' # "gave up"
      BY <3>1, <3>2 DEF CallEnds
    <3> QED BY <3>3, <3>4 DEF TimersAreSet, Polling
  <2>3. CASE answer \notin Terminal \union {"error"}
    <3>1. Poll(taskClock + taskTimeout, pollInterval)
      BY <1>5, <2>3 DEF Posted
    <3>2. taskClock + taskTimeout \in Nat /\ taskClock + taskTimeout >= taskTimeout
      BY DEF Clocks
    <3> QED BY <2>1, <3>1, <3>2, PollKeeps
  <2> QED BY <2>2, <2>3
<1>6. CASE WakePoll
  BY <1>6 DEF WakePoll, Clocks, TimersAreSet, Polling
<1>7. CASE Got
  <2>1. answered' = taskClock /\ taskStage = "get body" /\ taskClock' = taskClock /\ outcome = "none"
    BY <1>7 DEF Got, CallEnds, TimersAreSet
  <2>2. CASE answer # "working"
    <3>1. CallEnds(answer)
      BY <1>7, <2>2 DEF Got
    <3>2. answer # "gave up"
      BY DEF Names, States, Paused, Terminal
    <3>a. taskClock \in Nat
      BY DEF Clocks
    <3>d. answered' = taskClock /\ taskClock' = taskClock
      BY <2>1
    <3>e. taskClock <= taskClock
      BY <3>a
    <3>c. answered' \in Nat /\ answered' <= taskClock'
      BY <3>a, <3>d, <3>e
    <3>b. UNCHANGED <<taskClock, taskTimer, deadline, pollEvery>>
      BY <3>1 DEF CallEnds
    <3>3. Clocks'
      BY <3>b, <3>c DEF Clocks
    <3>4. taskStage' = "done" /\ outcome' # "gave up"
      BY <3>1, <3>2 DEF CallEnds
    <3> QED BY <3>3, <3>4 DEF TimersAreSet, Polling
  <2>3. CASE answer = "working"
    <3> DEFINE every == Min({pollEvery * 2, pollMaxInterval})
    <3>1. Poll(deadline, every)
      BY <1>7, <2>3 DEF Got
    <3>2. deadline \in Nat /\ pollEvery * 2 \in Nat
      BY DEF Clocks
    <3>4. deadline >= taskTimeout
      BY <2>1 DEF TimersAreSet, Polling
    <3>3. every \in Nat /\ every <= pollMaxInterval
      BY <3>2, MinOf
    <3> HIDE DEF every
    <3> QED BY <2>1, <3>1, <3>2, <3>3, <3>4, PollKeeps
  <2> QED BY <2>2, <2>3
<1>8. CASE AbortTask
  BY <1>8 DEF AbortTask, Requesting, Clocks, TimersAreSet, Polling
<1>9. CASE TaskChanges \/ UNCHANGED taskVars
  BY <1>9 DEF TaskChanges, taskVars, Clocks, TimersAreSet, Polling
<1>10. CASE TaskTick
  <2>1. /\ taskClock' = taskClock + 1 /\ taskClock < MaxTaskTime
        /\ UNCHANGED <<taskStage, taskTimer, deadline, pollEvery, outcome, answered>>
        /\ taskStage \in {"sleep", "get"} => taskClock < taskTimer
    BY <1>10 DEF TaskTick, Timed, Requesting
  <2>2. Clocks'
    BY <2>1 DEF Clocks
  <2>3. taskStage \in {"sleep", "get"} => taskClock' <= taskTimer'
    BY <2>1 DEF Clocks
  <2> QED BY <2>1, <2>2, <2>3 DEF TimersAreSet, Polling
<1> QED BY <1>1, <1>2, <1>3, <1>4, <1>5, <1>6, <1>7, <1>8, <1>9, <1>10 DEF TaskNext

LEMMA TaskStep == TaskInv /\ [TaskNext]_taskVars => TaskInv'
  BY AnswersStayTrue, TimersStaySet DEF TaskInv, TimersAreSet

(* A call to a remote agent keeps its types, whatever the timeouts are.     *)
THEOREM TaskTypeCorrect == TaskSpec => []TaskTypeOK
<1>1. TaskInv => TaskTypeOK
  BY TaskAssumption DEF TaskInv, Clocks, Names, TaskTypeOK
<1> QED BY <1>1, TaskStarts, TaskStep, PTL DEF TaskSpec

(* A call never outlives its deadline but by the request under way, gives   *)
(* up only on an answer that came after it, and reports the task's own end. *)
THEOREM SendsAreHonest == TaskSpec => []SendIsHonest
<1>1. TaskInv => SendIsHonest
  <2> SUFFICES ASSUME TaskInv PROVE SendIsHonest
    OBVIOUS
  <2>1. Clocks /\ TimersAreSet
    BY DEF TaskInv
  <2>2. taskStage = "sleep" => taskClock <= deadline /\ taskTimer <= deadline
    BY <2>1 DEF Clocks, TimersAreSet
  <2>3. taskStage = "get" => taskClock <= deadline + requestTimeout
    BY <2>1, TaskAssumption DEF Clocks, TimersAreSet
  <2>4. outcome = "gave up" => answered >= deadline /\ deadline >= taskTimeout
    BY <2>1 DEF TimersAreSet
  <2> QED BY <2>2, <2>3, <2>4 DEF TaskInv, AnswersAreTrue, SendIsHonest
<1> QED BY <1>1, TaskStarts, TaskStep, PTL DEF TaskSpec

(* Discovery and sending do what they say, side by side.                    *)
THEOREM RemoteAgentsStaySound == RemoteAgentsSpec => []RemoteAgentsAreSound
  BY CacheStaysLru, SendsAreHonest, PTL DEF RemoteAgentsSpec, RemoteAgentsAreSound
-----------------------------------------------------------------------------
(* Sub-agents.  What is counted is a set of children that run, as many for  *)
(* each parent as its count says.                                           *)
ChildStates == {"new", "checked", "refused", "running", "done"}
RunningChildren == {c \in Children : child[c] = "running"}
OfParent(p, C) == {c \in C : Parent[c] = p}

ChildrenTyped ==
  /\ atomic \in BOOLEAN /\ child \in [Children -> ChildStates]
  /\ resets \in 0..MaxResets /\ strangers \subseteq Children
  /\ atomic => \A c \in Children : child[c] # "checked"
Counts ==
  /\ activeByParent \in [Parents -> Nat] /\ activeConcurrent \in Nat
  /\ activeConcurrent = SumFunction(activeByParent)
ChildrenAreCounted ==
  \E K \in SUBSET RunningChildren :
    /\ Cardinality(K) = activeConcurrent
    /\ \A p \in Parents : Cardinality(OfParent(p, K)) = activeByParent[p]
UnknownAreStrangers ==
  \A p \in Parents : Cardinality(OfParent(p, RunningChildren))
                       <= activeByParent[p] + Cardinality(OfParent(p, strangers))
LimitsAreKept ==
  atomic => /\ activeConcurrent <= maxConcurrent
            /\ \A p \in Parents : activeByParent[p] <= maxChildrenPerAgent
GuardInv == /\ ChildrenTyped /\ Counts /\ ChildrenAreCounted
            /\ UnknownAreStrangers /\ LimitsAreKept

LEMMA ChildrenAreFew ==
  ASSUME NEW C \in SUBSET Children
  PROVE  /\ IsFiniteSet(C) /\ Cardinality(C) \in 0..Cardinality(Children)
         /\ Cardinality(Children) \in Nat
         /\ \A D \in SUBSET C : Cardinality(D) <= Cardinality(C)
         /\ Cardinality(C) = 0 => C = {}
         /\ \A c \in Children \ C : Cardinality(C \union {c}) = Cardinality(C) + 1
         /\ \A c \in C : Cardinality(C \ {c}) = Cardinality(C) - 1
<1>1. IsFiniteSet(Children) /\ IsFiniteSet(C)
  BY GuardAssumption, FS_Subset
<1>2. Cardinality(C) \in Nat /\ Cardinality(Children) \in Nat
  BY <1>1, FS_CardinalityType
<1>3. Cardinality(C) <= Cardinality(Children) /\ \A D \in SUBSET C : Cardinality(D) <= Cardinality(C)
  BY <1>1, FS_Subset
<1>4. Cardinality(C) = 0 => C = {}
  BY <1>1, FS_EmptySet
<1>5. \A c \in Children \ C : Cardinality(C \union {c}) = Cardinality(C) + 1
  BY <1>1, FS_AddElement
<1>6. \A c \in C : Cardinality(C \ {c}) = Cardinality(C) - 1
  BY <1>1, FS_RemoveElement
<1> QED BY <1>1, <1>2, <1>3, <1>4, <1>5, <1>6

(* One child more or less of its own parent, and of no other.               *)
LEMMA OneChild ==
  ASSUME NEW C \in SUBSET Children, NEW c \in Children, NEW p \in Parents
  PROVE  /\ OfParent(p, C) \in SUBSET Children
         /\ c \notin C => Cardinality(OfParent(p, C \union {c})) =
              IF Parent[c] = p THEN Cardinality(OfParent(p, C)) + 1 ELSE Cardinality(OfParent(p, C))
         /\ c \in C => Cardinality(OfParent(p, C \ {c})) =
              IF Parent[c] = p THEN Cardinality(OfParent(p, C)) - 1 ELSE Cardinality(OfParent(p, C))
<1>1. OfParent(p, C) \in SUBSET Children
  BY DEF OfParent
<1>2. CASE Parent[c] = p
  <2>1. /\ OfParent(p, C \union {c}) = OfParent(p, C) \union {c}
        /\ OfParent(p, C \ {c}) = OfParent(p, C) \ {c}
        /\ c \in OfParent(p, C) <=> c \in C
    BY <1>2 DEF OfParent
  <2>2. c \notin C => Cardinality(OfParent(p, C) \union {c}) = Cardinality(OfParent(p, C)) + 1
    BY <1>1, <2>1, ChildrenAreFew
  <2>3. c \in C => Cardinality(OfParent(p, C) \ {c}) = Cardinality(OfParent(p, C)) - 1
    BY <1>1, <2>1, ChildrenAreFew
  <2> QED BY <1>1, <1>2, <2>1, <2>2, <2>3
<1>3. CASE Parent[c] # p
  <2>1. OfParent(p, C \union {c}) = OfParent(p, C) /\ OfParent(p, C \ {c}) = OfParent(p, C)
    BY <1>3 DEF OfParent
  <2> QED BY <1>1, <1>3, <2>1
<1> QED BY <1>1, <1>2, <1>3

LEMMA OneMoreOfParent ==
  ASSUME NEW f \in [Parents -> Nat], NEW g \in [Parents -> Nat], NEW r \in Parents,
         \A p \in Parents : g[p] = IF p = r THEN f[p] + 1 ELSE f[p]
  PROVE  /\ SumFunction(f) \in Nat
         /\ SumFunction(g) = SumFunction(f) + 1
<1>1. IsFiniteSet(Parents)
  BY GuardAssumption
<1> QED BY <1>1, SumOfOneMore

LEMMA GuardStarts == GuardInit => GuardInv
<1> SUFFICES ASSUME GuardInit PROVE GuardInv
  OBVIOUS
<1>1. /\ atomic \in BOOLEAN /\ child = [c \in Children |-> "new"] /\ activeConcurrent = 0
      /\ activeByParent = [p \in Parents |-> 0] /\ resets = 0 /\ strangers = {}
  BY DEF GuardInit
<1>2. MaxResets \in Nat /\ maxConcurrent \in Nat /\ maxChildrenPerAgent \in Nat
      /\ IsFiniteSet(Parents)
  BY GuardAssumption
<1>3. activeByParent \in [Parents -> Nat] /\ \A p \in Parents : activeByParent[p] = 0
  BY <1>1
<1>4. Counts
  BY <1>1, <1>2, <1>3, SumOfZeros DEF Counts
<1>5. ChildrenTyped
  BY <1>1, <1>2 DEF ChildrenTyped, ChildStates
<1>6. RunningChildren = {} /\ \A p \in Parents : OfParent(p, {}) = {}
  BY <1>1 DEF RunningChildren, OfParent
<1>7. Cardinality({}) = 0
  BY FS_EmptySet
<1>8. ChildrenAreCounted
  BY <1>1, <1>3, <1>6, <1>7 DEF ChildrenAreCounted
<1>9. UnknownAreStrangers
  BY <1>1, <1>3, <1>6, <1>7 DEF UnknownAreStrangers
<1>10. LimitsAreKept
  BY <1>1, <1>2, <1>3 DEF LimitsAreKept
<1> QED BY <1>4, <1>5, <1>8, <1>9, <1>10 DEF GuardInv

(* A child that starts to run is one that is counted.                       *)
LEMMA SpawnKeeps ==
  ASSUME GuardInv, NEW c \in Children, child[c] # "running", RecordSpawn(c),
         atomic => Allowed(c)
  PROVE  GuardInv'
<1> DEFINE q == Parent[c]
<1>0. /\ q \in Parents /\ activeByParent \in [Parents -> Nat] /\ activeConcurrent \in Nat
      /\ activeConcurrent = SumFunction(activeByParent)
  BY GuardAssumption DEF GuardInv, Counts
<1>1. /\ child' = [child EXCEPT ![c] = "running"]
      /\ UNCHANGED <<atomic, resets, strangers>>
      /\ activeByParent' = [activeByParent EXCEPT ![q] = @ + 1]
      /\ activeConcurrent' = activeConcurrent + 1
  BY DEF RecordSpawn
<1>a. atomic => activeByParent[q] < maxChildrenPerAgent /\ activeConcurrent < maxConcurrent
  BY DEF Allowed
<1> HIDE DEF q
<1>2. /\ activeByParent' \in [Parents -> Nat]
      /\ \A p \in Parents : activeByParent'[p] = IF p = q THEN activeByParent[p] + 1
                                                 ELSE activeByParent[p]
  BY <1>0, <1>1
<1>3. Counts'
  <2>1. SumFunction(activeByParent') = SumFunction(activeByParent) + 1
    BY <1>0, <1>2, OneMoreOfParent
  <2> QED BY <1>0, <1>1, <1>2, <2>1 DEF Counts
<1>4. ChildrenTyped'
  BY <1>1 DEF GuardInv, ChildrenTyped, ChildStates
<1>5. /\ RunningChildren' = RunningChildren \union {c} /\ c \notin RunningChildren
      /\ RunningChildren \in SUBSET Children
  BY <1>1 DEF GuardInv, ChildrenTyped, RunningChildren
<1>6. ChildrenAreCounted'
  <2>1. PICK K \in SUBSET RunningChildren :
          /\ Cardinality(K) = activeConcurrent
          /\ \A p \in Parents : Cardinality(OfParent(p, K)) = activeByParent[p]
    BY DEF GuardInv, ChildrenAreCounted
  <2>2. K \in SUBSET Children /\ c \notin K
    BY <1>5
  <2>3. Cardinality(K \union {c}) = activeConcurrent'
    BY <1>1, <2>1, <2>2, ChildrenAreFew
  <2>4. ASSUME NEW p \in Parents
        PROVE  Cardinality(OfParent(p, K \union {c})) = activeByParent'[p]
    <3>1. Cardinality(OfParent(p, K \union {c})) =
            IF q = p THEN Cardinality(OfParent(p, K)) + 1 ELSE Cardinality(OfParent(p, K))
      BY <2>2, OneChild DEF q
    <3>2. Cardinality(OfParent(p, K)) = activeByParent[p]
      BY <2>1
    <3> QED BY <1>2, <3>1, <3>2
  <2>5. K \union {c} \in SUBSET RunningChildren'
    BY <1>5
  <2> QED BY <2>3, <2>4, <2>5 DEF ChildrenAreCounted, OfParent
<1>7. UnknownAreStrangers'
  <2> SUFFICES ASSUME NEW p \in Parents
               PROVE  Cardinality(OfParent(p, RunningChildren \union {c}))
                        <= activeByParent'[p] + Cardinality(OfParent(p, strangers))
    BY <1>1, <1>5 DEF UnknownAreStrangers, OfParent
  <2>1. Cardinality(OfParent(p, RunningChildren))
          <= activeByParent[p] + Cardinality(OfParent(p, strangers))
    BY DEF GuardInv, UnknownAreStrangers
  <2>2. /\ OfParent(p, RunningChildren) \in SUBSET Children
        /\ OfParent(p, strangers) \in SUBSET Children
    BY <1>5 DEF OfParent, GuardInv, ChildrenTyped
  <2>3. /\ Cardinality(OfParent(p, RunningChildren)) \in Nat
        /\ Cardinality(OfParent(p, strangers)) \in Nat
    BY <2>2, ChildrenAreFew
  <2>4. Cardinality(OfParent(p, RunningChildren \union {c})) =
          IF p = q THEN Cardinality(OfParent(p, RunningChildren)) + 1
          ELSE Cardinality(OfParent(p, RunningChildren))
    BY <1>5, OneChild DEF q
  <2> QED BY <1>0, <1>2, <2>1, <2>3, <2>4
<1>8. LimitsAreKept'
  <2>1. maxConcurrent \in Nat /\ maxChildrenPerAgent \in Nat
    BY GuardAssumption
  <2>2. LimitsAreKept
    BY DEF GuardInv
  <2> QED BY <1>0, <1>1, <1>2, <1>a, <2>1, <2>2 DEF LimitsAreKept
<1> QED BY <1>3, <1>4, <1>6, <1>7, <1>8 DEF GuardInv

(* A completion takes one of the children that are counted, its own or that *)
(* of a sibling, if any is; then the total has one to take, too.            *)
LEMMA CompletionKeeps ==
  ASSUME GuardInv, NEW c \in Children, RecordCompletion(c)
  PROVE  GuardInv'
<1> DEFINE q == Parent[c]
           counted == activeByParent[q] # 0
<1>0. /\ q \in Parents /\ activeByParent \in [Parents -> Nat] /\ activeConcurrent \in Nat
      /\ activeConcurrent = SumFunction(activeByParent)
  BY GuardAssumption DEF GuardInv, Counts
<1>1. /\ child[c] = "running" /\ child' = [child EXCEPT ![c] = "done"]
      /\ UNCHANGED <<atomic, resets, strangers>>
      /\ ~counted => UNCHANGED <<activeConcurrent, activeByParent>>
      /\ counted => /\ activeByParent' = [activeByParent EXCEPT ![q] = @ - 1]
                    /\ activeConcurrent' = IF activeConcurrent = 0 THEN 0 ELSE activeConcurrent - 1
  BY DEF RecordCompletion
<1> HIDE DEF q
<1>2. /\ activeByParent' \in [Parents -> Nat]
      /\ \A p \in Parents : activeByParent'[p] = IF p = q /\ counted THEN activeByParent[p] - 1
                                                 ELSE activeByParent[p]
  <2>1. CASE counted
    BY <1>0, <1>1, <2>1
  <2>2. CASE ~counted
    BY <1>0, <1>1, <2>2
  <2> QED BY <2>1, <2>2
<1>3. /\ Counts'
      /\ activeConcurrent' = IF counted THEN activeConcurrent - 1 ELSE activeConcurrent
  <2>1. CASE ~counted
    BY <1>0, <1>1, <2>1 DEF Counts
  <2>2. CASE counted
    <3>1. \A p \in Parents : activeByParent[p] = IF p = q THEN activeByParent'[p] + 1
                                                 ELSE activeByParent'[p]
      BY <1>0, <1>2, <2>2
    <3>2. /\ SumFunction(activeByParent) = SumFunction(activeByParent') + 1
          /\ SumFunction(activeByParent') \in Nat
      BY <1>0, <1>2, <3>1, OneMoreOfParent
    <3>3. activeConcurrent # 0 /\ activeConcurrent' = activeConcurrent - 1
      BY <1>0, <1>1, <2>2, <3>2
    <3> QED BY <1>0, <1>2, <2>2, <3>2, <3>3 DEF Counts
  <2> QED BY <2>1, <2>2
<1>c. activeByParent[q] \in Nat /\ (counted <=> activeByParent[q] # 0)
  BY <1>0
<1> HIDE DEF counted
<1>4. ChildrenTyped'
  BY <1>1 DEF GuardInv, ChildrenTyped, ChildStates
<1>5. /\ RunningChildren' = RunningChildren \ {c} /\ c \in RunningChildren
      /\ RunningChildren \in SUBSET Children
  BY <1>1 DEF GuardInv, ChildrenTyped, RunningChildren
<1>6. ChildrenAreCounted'
  <2>1. PICK K \in SUBSET RunningChildren :
          /\ Cardinality(K) = activeConcurrent
          /\ \A p \in Parents : Cardinality(OfParent(p, K)) = activeByParent[p]
    BY DEF GuardInv, ChildrenAreCounted
  <2>2. K \in SUBSET Children /\ OfParent(q, K) \in SUBSET Children
    BY <1>5 DEF OfParent
  <2>3. Cardinality(OfParent(q, K)) = activeByParent[q]
    BY <1>0, <2>1
  <2>4. CASE ~counted
    <3>1. OfParent(q, K) = {}
      BY <1>c, <2>2, <2>3, <2>4, ChildrenAreFew
    <3>2. c \notin K
      BY <3>1 DEF OfParent, q
    <3>3. K \in SUBSET RunningChildren'
      BY <1>5, <3>2
    <3>4. \A p \in Parents : activeByParent'[p] = activeByParent[p]
      BY <1>2, <2>4
    <3> QED BY <1>3, <2>1, <2>4, <3>3, <3>4 DEF ChildrenAreCounted, OfParent
  <2>5. CASE counted
    <3>1. OfParent(q, K) # {}
      BY <1>c, <2>3, <2>5, FS_EmptySet
    <3>2. PICK d \in K : Parent[d] = q /\ (c \in K => d = c)
      BY <3>1 DEF OfParent, q
    <3> DEFINE L == K \ {d}
    <3>3. L \in SUBSET RunningChildren' /\ d \in Children
      BY <1>5, <2>2, <3>2
    <3>4. Cardinality(L) = activeConcurrent'
      BY <1>3, <2>1, <2>2, <2>5, <3>2, ChildrenAreFew
    <3>5. ASSUME NEW p \in Parents PROVE Cardinality(OfParent(p, L)) = activeByParent'[p]
      <4>1. Cardinality(OfParent(p, L)) =
              IF q = p THEN Cardinality(OfParent(p, K)) - 1 ELSE Cardinality(OfParent(p, K))
        BY <2>2, <3>2, <3>3, OneChild
      <4>2. Cardinality(OfParent(p, K)) = activeByParent[p]
        BY <2>1
      <4> QED BY <1>2, <2>5, <4>1, <4>2
    <3> HIDE DEF L
    <3> QED BY <3>3, <3>4, <3>5 DEF ChildrenAreCounted, OfParent
  <2> QED BY <2>4, <2>5
<1>7. UnknownAreStrangers'
  <2> SUFFICES ASSUME NEW p \in Parents
               PROVE  Cardinality(OfParent(p, RunningChildren \ {c}))
                        <= activeByParent'[p] + Cardinality(OfParent(p, strangers))
    BY <1>1, <1>5 DEF UnknownAreStrangers, OfParent
  <2>1. Cardinality(OfParent(p, RunningChildren))
          <= activeByParent[p] + Cardinality(OfParent(p, strangers))
    BY DEF GuardInv, UnknownAreStrangers
  <2>2. /\ OfParent(p, RunningChildren) \in SUBSET Children
        /\ OfParent(p, strangers) \in SUBSET Children
    BY <1>5 DEF OfParent, GuardInv, ChildrenTyped
  <2>3. /\ Cardinality(OfParent(p, RunningChildren)) \in Nat
        /\ Cardinality(OfParent(p, strangers)) \in Nat
    BY <2>2, ChildrenAreFew
  <2>4. Cardinality(OfParent(p, RunningChildren \ {c})) =
          IF q = p THEN Cardinality(OfParent(p, RunningChildren)) - 1
          ELSE Cardinality(OfParent(p, RunningChildren))
    BY <1>5, OneChild DEF q
  <2>5. activeByParent[p] \in Nat /\ activeByParent'[p] \in Nat
    BY <1>0, <1>2
  <2>6. activeByParent'[p] = IF p = q /\ counted THEN activeByParent[p] - 1 ELSE activeByParent[p]
    BY <1>2
  <2> QED BY <2>1, <2>3, <2>4, <2>5, <2>6
<1>8. LimitsAreKept'
  <2>1. maxConcurrent \in Nat /\ maxChildrenPerAgent \in Nat
    BY GuardAssumption
  <2>2. LimitsAreKept
    BY DEF GuardInv
  <2>3. activeConcurrent' <= activeConcurrent
    BY <1>0, <1>3
  <2>4. \A p \in Parents : activeByParent'[p] <= activeByParent[p]
    BY <1>0, <1>2
  <2>5. activeConcurrent' \in Nat
    BY <1>3 DEF Counts
  <2> QED BY <1>0, <1>1, <1>2, <2>1, <2>2, <2>3, <2>4, <2>5 DEF LimitsAreKept
<1> QED BY <1>3, <1>4, <1>6, <1>7, <1>8 DEF GuardInv

(* After a reset all that run are strangers.                                *)
LEMMA ResetKeeps ==
  ASSUME GuardInv, Reset
  PROVE  GuardInv'
<1>1. /\ resets < MaxResets /\ resets' = resets + 1 /\ activeConcurrent' = 0
      /\ activeByParent' = [p \in Parents |-> 0]
      /\ strangers' = strangers \union RunningChildren
      /\ UNCHANGED <<atomic, child>>
  BY DEF Reset, RunningChildren
<1>2. MaxResets \in Nat /\ maxConcurrent \in Nat /\ maxChildrenPerAgent \in Nat
      /\ IsFiniteSet(Parents)
  BY GuardAssumption
<1>3. activeByParent' \in [Parents -> Nat] /\ \A p \in Parents : activeByParent'[p] = 0
  BY <1>1
<1>4. Counts'
  <2>1. SumFunction(activeByParent') = 0
    BY <1>2, <1>3, SumOfZeros
  <2> QED BY <1>1, <1>3, <2>1 DEF Counts
<1>5. /\ RunningChildren' = RunningChildren /\ RunningChildren \in SUBSET Children
      /\ strangers' \in SUBSET Children
  BY <1>1 DEF RunningChildren, GuardInv, ChildrenTyped
<1>6. ChildrenTyped'
  <2>1. ChildrenTyped
    BY DEF GuardInv
  <2>2. resets' \in 0..MaxResets
    BY <1>1, <1>2, <2>1 DEF ChildrenTyped
  <2> QED BY <1>1, <1>5, <2>1, <2>2 DEF ChildrenTyped
<1>7. ChildrenAreCounted'
  <2>1. {} \in SUBSET RunningChildren' /\ \A p \in Parents : OfParent(p, {}) = {}
    BY DEF OfParent
  <2>2. Cardinality({}) = 0
    BY FS_EmptySet
  <2>3. \A p \in Parents : Cardinality(OfParent(p, {})) = activeByParent'[p]
    BY <1>3, <2>1, <2>2
  <2> QED BY <1>1, <2>1, <2>2, <2>3 DEF ChildrenAreCounted, OfParent
<1>8. UnknownAreStrangers'
  <2> SUFFICES ASSUME NEW p \in Parents
               PROVE  Cardinality(OfParent(p, RunningChildren))
                        <= activeByParent'[p] + Cardinality(OfParent(p, strangers'))
    BY <1>5 DEF UnknownAreStrangers, OfParent
  <2>1. /\ OfParent(p, RunningChildren) \in SUBSET OfParent(p, strangers')
        /\ OfParent(p, strangers') \in SUBSET Children
    BY <1>1, <1>5 DEF OfParent
  <2>2. /\ Cardinality(OfParent(p, RunningChildren)) <= Cardinality(OfParent(p, strangers'))
        /\ Cardinality(OfParent(p, strangers')) \in Nat
    BY <2>1, ChildrenAreFew
  <2>3. activeByParent'[p] = 0
    BY <1>3
  <2> QED BY <2>2, <2>3
<1>9. LimitsAreKept'
  BY <1>1, <1>2, <1>3 DEF LimitsAreKept
<1> QED BY <1>4, <1>6, <1>7, <1>8, <1>9 DEF GuardInv

LEMMA OtherStateKeeps ==
  ASSUME GuardInv, NEW c \in Children, child[c] # "running",
         NEW state \in {"refused", "checked"}, Becomes(c, state), atomic => state # "checked"
  PROVE  GuardInv'
<1>1. /\ child' = [child EXCEPT ![c] = state]
      /\ UNCHANGED <<atomic, activeConcurrent, activeByParent, resets, strangers>>
  BY DEF Becomes
<1>2. RunningChildren' = RunningChildren
  BY <1>1 DEF GuardInv, ChildrenTyped, RunningChildren
<1>3. ChildrenTyped'
  BY <1>1 DEF GuardInv, ChildrenTyped, ChildStates
<1> QED BY <1>1, <1>2, <1>3 DEF GuardInv, Counts, ChildrenAreCounted, UnknownAreStrangers,
                                LimitsAreKept, OfParent

LEMMA GuardInvariant == GuardSpec => []GuardInv
<1>1. ASSUME GuardInv, [GuardNext]_guardVars PROVE GuardInv'
  <2>1. ASSUME NEW c \in Children, child[c] = "new", CheckAndRecord(c) PROVE GuardInv'
    BY <1>1, <2>1, SpawnKeeps DEF CheckAndRecord
  <2>2. ASSUME NEW c \in Children, child[c] = "new", CheckSpawn(c) PROVE GuardInv'
    BY <1>1, <2>2, OtherStateKeeps DEF CheckSpawn
  <2>3. ASSUME NEW c \in Children, Resolved(c) PROVE GuardInv'
    <3>1. child[c] = "checked" /\ ~atomic
      BY <1>1, <2>3 DEF Resolved, GuardInv, ChildrenTyped
    <3> QED BY <1>1, <2>3, <3>1, SpawnKeeps, OtherStateKeeps DEF Resolved
  <2>4. ASSUME NEW c \in Children, RecordCompletion(c) PROVE GuardInv'
    BY <1>1, <2>4, CompletionKeeps
  <2>5. CASE Reset
    BY <1>1, <2>5, ResetKeeps
  <2>6. CASE UNCHANGED guardVars
    BY <1>1, <2>6 DEF guardVars, GuardInv, ChildrenTyped, Counts, ChildrenAreCounted,
         UnknownAreStrangers, LimitsAreKept, RunningChildren, OfParent
  <2> QED BY <1>1, <2>1, <2>2, <2>3, <2>4, <2>5, <2>6 DEF GuardNext
<1> QED BY <1>1, GuardStarts, PTL DEF GuardSpec

(* The counts of the spawn guard and the states of the children are what    *)
(* they should be: no count is of more children than there are.             *)
THEOREM GuardTypeCorrect == GuardSpec => []GuardTypeOK
<1>1. GuardInv => GuardTypeOK
  <2> SUFFICES ASSUME GuardInv PROVE GuardTypeOK
    OBVIOUS
  <2>1. PICK K \in SUBSET RunningChildren :
          /\ Cardinality(K) = activeConcurrent
          /\ \A p \in Parents : Cardinality(OfParent(p, K)) = activeByParent[p]
    BY DEF GuardInv, ChildrenAreCounted
  <2>2. K \in SUBSET Children /\ \A p \in Parents : OfParent(p, K) \in SUBSET Children
    BY DEF RunningChildren, OfParent
  <2>3. activeConcurrent \in 0..Cardinality(Children)
    BY <2>1, <2>2, ChildrenAreFew
  <2>4. \A p \in Parents : activeByParent[p] \in 0..Cardinality(Children)
    BY <2>1, <2>2, ChildrenAreFew
  <2>5. activeByParent \in [Parents -> Nat]
    BY DEF GuardInv, Counts
  <2>6. activeByParent \in [Parents -> 0..Cardinality(Children)]
    BY <2>4, <2>5
  <2> QED BY <2>3, <2>6 DEF GuardInv, ChildrenTyped, ChildStates, GuardTypeOK
<1> QED BY <1>1, GuardInvariant, PTL

(* The counts are those of children that run, short of them by the children *)
(* that ran at a reset at most; and checked and recorded at once, no spawn  *)
(* passes a limit.                                                          *)
THEOREM CountsStayOfChildren == GuardSpec => []CountsAreOfChildren
<1>1. GuardInv => CountsAreOfChildren
  <2> SUFFICES ASSUME GuardInv PROVE CountsAreOfChildren
    OBVIOUS
  <2>1. PICK K \in SUBSET RunningChildren :
          /\ Cardinality(K) = activeConcurrent
          /\ \A p \in Parents : Cardinality(OfParent(p, K)) = activeByParent[p]
    BY DEF GuardInv, ChildrenAreCounted
  <2>2. ASSUME NEW p \in Parents
        PROVE  /\ activeByParent[p] <= Cardinality(RunningOf(p))
               /\ Cardinality(RunningOf(p))
                    <= activeByParent[p] + Cardinality({c \in strangers : Parent[c] = p})
    <3>1. RunningOf(p) = OfParent(p, RunningChildren)
          /\ {c \in strangers : Parent[c] = p} = OfParent(p, strangers)
      BY DEF RunningOf, OfParent, RunningChildren
    <3>2. /\ OfParent(p, K) \in SUBSET OfParent(p, RunningChildren)
          /\ OfParent(p, RunningChildren) \in SUBSET Children
      BY DEF OfParent, RunningChildren
    <3>3. activeByParent[p] <= Cardinality(OfParent(p, RunningChildren))
      BY <2>1, <3>2, ChildrenAreFew
    <3> QED BY <3>1, <3>3 DEF GuardInv, UnknownAreStrangers
  <2> QED BY <2>2 DEF GuardInv, Counts, LimitsAreKept, CountsAreOfChildren
<1> QED BY <1>1, GuardInvariant, PTL
-----------------------------------------------------------------------------
(* Loops.  A window is the end of the whole history, so that what ends in   *)
(* the one ends in the other, as far as the window reaches.                 *)
LEMMA LastNOf ==
  ASSUME NEW S, NEW s \in Seq(S), NEW n \in Nat
  PROVE  /\ LastN(s, n) \in Seq(S) /\ Len(s) \in Nat
         /\ Len(LastN(s, n)) = IF Len(s) > n THEN n ELSE Len(s)
         /\ \A i \in 1..Len(LastN(s, n)) : LastN(s, n)[i] = s[(Len(s) - Len(LastN(s, n))) + i]
<1>0. Len(s) \in Nat /\ \A i \in 1..Len(s) : s[i] \in S
  BY LenProperties, ElementOfSeq
<1> DEFINE from == IF Len(s) > n THEN Len(s) - n + 1 ELSE 1
<1>1. /\ from \in Int /\ from >= 1
      /\ from = Len(s) - (IF Len(s) > n THEN n ELSE Len(s)) + 1
  BY <1>0
<1>2. LastN(s, n) = SubSeq(s, from, Len(s))
  BY DEF LastN
<1> HIDE DEF from
<1>3. \A i \in from..Len(s) : s[i] \in S
  BY <1>0, <1>1
<1> DEFINE to == Len(s)
<1>a. to \in Int
  BY <1>0
<1> HIDE DEF to
<1>4. /\ LastN(s, n) \in Seq(S)
      /\ Len(LastN(s, n)) = IF from <= Len(s) THEN Len(s) - from + 1 ELSE 0
      /\ \A i \in 1..(Len(s) - from + 1) : LastN(s, n)[i] = s[from + i - 1]
  <2>1. \A i \in from..to : s[i] \in S
    BY <1>3 DEF to
  <2>2. /\ SubSeq(s, from, to) \in Seq(S)
        /\ Len(SubSeq(s, from, to)) = IF from <= to THEN to - from + 1 ELSE 0
        /\ \A i \in 1..(to - from + 1) : SubSeq(s, from, to)[i] = s[from + i - 1]
    <3>1. from \in Int /\ to \in Int
      BY <1>1, <1>a
    <3> QED BY <2>1, <3>1, SubSeqProperties
  <2> QED BY <1>2, <2>2 DEF to
<1>5. Len(LastN(s, n)) = IF Len(s) > n THEN n ELSE Len(s)
  BY <1>0, <1>1, <1>4
<1>6. ASSUME NEW i \in 1..Len(LastN(s, n))
      PROVE  LastN(s, n)[i] = s[(Len(s) - Len(LastN(s, n))) + i]
  <2>1. from + i - 1 = (Len(s) - Len(LastN(s, n))) + i /\ i \in 1..(Len(s) - from + 1)
    BY <1>0, <1>1, <1>5
  <2> QED BY <1>4, <2>1
<1> QED BY <1>0, <1>4, <1>5, <1>6

(* The end of an end.                                                       *)
LEMMA LastNOfLastN ==
  ASSUME NEW S, NEW s \in Seq(S), NEW n \in Nat, NEW m \in Nat, m <= n
  PROVE  LastN(LastN(s, n), m) = LastN(s, m)
<1> DEFINE a == LastN(s, n)
           b == LastN(a, m)
           c == LastN(s, m)
<1>1. /\ a \in Seq(S) /\ Len(s) \in Nat /\ Len(a) = IF Len(s) > n THEN n ELSE Len(s)
      /\ \A i \in 1..Len(a) : a[i] = s[(Len(s) - Len(a)) + i]
  BY LastNOf
<1>2. /\ c \in Seq(S) /\ Len(c) = IF Len(s) > m THEN m ELSE Len(s)
      /\ \A i \in 1..Len(c) : c[i] = s[(Len(s) - Len(c)) + i]
  BY LastNOf
<1>3. /\ b \in Seq(S) /\ Len(a) \in Nat /\ Len(b) = IF Len(a) > m THEN m ELSE Len(a)
      /\ \A i \in 1..Len(b) : b[i] = a[(Len(a) - Len(b)) + i]
  BY <1>1, LastNOf
<1> HIDE DEF a, b, c
<1>l. /\ Len(s) \in Nat /\ Len(a) \in Nat /\ Len(a) = IF Len(s) > n THEN n ELSE Len(s)
      /\ Len(b) = IF Len(a) > m THEN m ELSE Len(a)
      /\ Len(c) = IF Len(s) > m THEN m ELSE Len(s)
  BY <1>1, <1>2, <1>3
<1>4. /\ Len(s) \in Nat /\ Len(a) \in Nat /\ Len(b) \in Nat /\ Len(c) \in Nat
      /\ Len(b) = Len(c) /\ Len(b) <= Len(a) /\ Len(a) <= Len(s)
  BY <1>l
<1>5. ASSUME NEW i \in 1..Len(b) PROVE b[i] = c[i]
  <2> DEFINE j == (Len(a) - Len(b)) + i
  <2>1. j \in 1..Len(a) /\ (Len(s) - Len(a)) + j = (Len(s) - Len(c)) + i
    BY <1>4
  <2>2. b[i] = a[j]
    BY <1>3
  <2> HIDE DEF j
  <2> QED BY <1>1, <1>2, <1>4, <2>1, <2>2
<1> QED BY <1>2, <1>3, <1>4, <1>5, SeqEqual DEF a, b, c

(* The end of a window that grows is that of the history that grows.        *)
LEMMA LastNOfConcat ==
  ASSUME NEW S, NEW s \in Seq(S), NEW t \in Seq(S), NEW n \in Nat
  PROVE  LastN(LastN(s, n) \o t, n) = LastN(s \o t, n)
<1> DEFINE a == LastN(s, n)
           b == a \o t
           c == s \o t
           d == LastN(b, n)
           e == LastN(c, n)
<1>1. /\ a \in Seq(S) /\ Len(s) \in Nat /\ Len(a) = IF Len(s) > n THEN n ELSE Len(s)
      /\ \A i \in 1..Len(a) : a[i] = s[(Len(s) - Len(a)) + i]
  BY LastNOf
<1>2. Len(t) \in Nat /\ Len(a) \in Nat
  BY <1>1, LenProperties
<1>3. /\ b \in Seq(S) /\ Len(b) = Len(a) + Len(t)
      /\ \A i \in 1..Len(a) + Len(t) : b[i] = IF i <= Len(a) THEN a[i] ELSE t[i - Len(a)]
  BY <1>1, ConcatProperties
<1>4. /\ c \in Seq(S) /\ Len(c) = Len(s) + Len(t)
      /\ \A i \in 1..Len(s) + Len(t) : c[i] = IF i <= Len(s) THEN s[i] ELSE t[i - Len(s)]
  BY ConcatProperties
<1>5. /\ d \in Seq(S) /\ Len(b) \in Nat /\ Len(d) = IF Len(b) > n THEN n ELSE Len(b)
      /\ \A i \in 1..Len(d) : d[i] = b[(Len(b) - Len(d)) + i]
  BY <1>3, LastNOf
<1>6. /\ e \in Seq(S) /\ Len(c) \in Nat /\ Len(e) = IF Len(c) > n THEN n ELSE Len(c)
      /\ \A i \in 1..Len(e) : e[i] = c[(Len(c) - Len(e)) + i]
  BY <1>4, LastNOf
<1> HIDE DEF a, b, c, d, e
<1>l. /\ Len(s) \in Nat /\ Len(t) \in Nat /\ Len(a) \in Nat
      /\ Len(a) = IF Len(s) > n THEN n ELSE Len(s)
      /\ Len(b) = Len(a) + Len(t) /\ Len(c) = Len(s) + Len(t)
      /\ Len(d) = IF Len(b) > n THEN n ELSE Len(b)
      /\ Len(e) = IF Len(c) > n THEN n ELSE Len(c)
  BY <1>1, <1>2, <1>3, <1>4, <1>5, <1>6
<1>7. /\ Len(s) \in Nat /\ Len(t) \in Nat /\ Len(a) \in Nat /\ Len(b) \in Nat
      /\ Len(d) \in Nat /\ Len(e) \in Nat /\ Len(d) = Len(e) /\ Len(d) <= Len(b)
      /\ Len(a) <= Len(s) /\ Len(b) = Len(a) + Len(t) /\ Len(c) = Len(s) + Len(t)
  BY <1>l
<1>8. \A i \in 1..Len(b) : b[i] = c[(Len(s) - Len(a)) + i]
  <2> SUFFICES ASSUME NEW i \in 1..Len(b) PROVE b[i] = c[(Len(s) - Len(a)) + i]
    OBVIOUS
  <2> DEFINE j == (Len(s) - Len(a)) + i
  <2>1. j \in 1..Len(s) + Len(t) /\ i \in 1..Len(a) + Len(t)
    BY <1>7
  <2>2. CASE i <= Len(a)
    <3>1. j <= Len(s) /\ i \in 1..Len(a)
      BY <1>7, <2>1, <2>2
    <3>2. b[i] = a[i] /\ a[i] = s[j]
      BY <1>1, <1>3, <2>1, <2>2, <3>1
    <3>3. c[j] = s[j]
      <4> HIDE DEF j
      <4> QED BY <1>4, <2>1, <3>1
    <3> QED BY <3>2, <3>3
  <2>3. CASE ~(i <= Len(a))
    <3>1. ~(j <= Len(s)) /\ j - Len(s) = i - Len(a)
      BY <1>1, <1>2, <2>1, <2>3
    <3>2. b[i] = t[i - Len(a)]
      BY <1>3, <2>1, <2>3
    <3>3. c[j] = t[j - Len(s)]
      <4> HIDE DEF j
      <4> QED BY <1>4, <2>1, <3>1
    <3> QED BY <3>1, <3>2, <3>3
  <2> QED BY <2>2, <2>3
<1>9. ASSUME NEW i \in 1..Len(d) PROVE d[i] = e[i]
  <2> DEFINE j == (Len(b) - Len(d)) + i
  <2>1. j \in 1..Len(b) /\ (Len(s) - Len(a)) + j = (Len(c) - Len(e)) + i
    BY <1>7
  <2>2. d[i] = b[j] /\ e[i] = c[(Len(c) - Len(e)) + i]
    BY <1>5, <1>6, <1>7
  <2> HIDE DEF j
  <2>3. b[j] = c[(Len(s) - Len(a)) + j]
    BY <1>8, <2>1
  <2> QED BY <2>1, <2>2, <2>3
<1> QED BY <1>5, <1>6, <1>7, <1>9, SeqEqual DEF a, b, c, d, e

LEMMA LastNOfAppend ==
  ASSUME NEW S, NEW s \in Seq(S), NEW x \in S, NEW n \in Nat
  PROVE  LastN(Append(LastN(s, n), x), n) = LastN(Append(s, x), n)
<1>1. LastN(s, n) \in Seq(S) /\ <<x>> \in Seq(S)
  BY LastNOf
<1>2. Append(LastN(s, n), x) = LastN(s, n) \o <<x>> /\ Append(s, x) = s \o <<x>>
  BY <1>1
<1> QED BY <1>1, <1>2, LastNOfConcat

(* The window of the tool calls holds the longest cycle, repeated.          *)
LEMMA ProductsGrow ==
  ASSUME NEW w \in Nat \ {0}, NEW m \in Nat, NEW r \in Nat, NEW a \in 1..m
  PROVE  a * r \in Nat /\ (w * m) * r \in Nat /\ a * r <= (w * m) * r
<1>1. w * m \in Nat /\ w * m = m + (w - 1) * m /\ (w - 1) * m \in Nat
  OBVIOUS
<1>2. a <= w * m
  BY <1>1
<1>3. PICK k \in Nat : w * m = a + k
  <2>1. (w * m) - a \in Nat /\ w * m = a + ((w * m) - a)
    BY <1>1, <1>2
  <2> QED BY <2>1
<1>4. (a + k) * r = a * r + k * r /\ a * r \in Nat /\ k * r \in Nat
  OBVIOUS
<1> QED BY <1>3, <1>4

Report ==
  IF iterationCount < loopConfig.repeatThreshold THEN "none"
  ELSE IF EndsInCycle(toolCallHistory) THEN "tool_cycle"
  ELSE IF EndsInRepeat(outputHashes) THEN "output_repeat"
  ELSE "none"
LoopTyped ==
  /\ loopConfig \in LoopConfigs /\ iterationCount \in 0..MaxLoopTurns
  /\ loopOutputs \in Seq(Outputs) /\ loopCalls \in Seq(ToolNames)
WindowsAreEnds ==
  /\ outputHashes = LastN(loopOutputs, loopConfig.windowSize)
  /\ toolCallHistory = LastN(loopCalls, MaxHistory)
LoopInv == LoopTyped /\ WindowsAreEnds /\ detection = Report

LEMMA ConfigOf ==
  ASSUME loopConfig \in LoopConfigs
  PROVE  /\ loopConfig.windowSize \in Nat \ {0} /\ loopConfig.repeatThreshold \in Nat \ {0, 1}
         /\ loopConfig.maxCycleLength \in Nat /\ MaxHistory \in Nat
<1>1. /\ loopConfig.windowSize \in Nat \ {0} /\ loopConfig.repeatThreshold \in Nat \ {0, 1}
      /\ loopConfig.maxCycleLength \in Nat
  BY LoopAssumption
<1> QED BY <1>1 DEF MaxHistory

FreshLoop ==
  /\ loopConfig \in LoopConfigs /\ outputHashes = <<>> /\ toolCallHistory = <<>>
  /\ iterationCount = 0 /\ detection = "none" /\ loopOutputs = <<>> /\ loopCalls = <<>>

LEMMA LoopStarts == FreshLoop => LoopInv
<1> SUFFICES ASSUME FreshLoop PROVE LoopInv
  OBVIOUS
<1> USE DEF FreshLoop
<1>1. LoopTyped
  BY LoopAssumption DEF LoopTyped
<1>2. \A n \in Nat : LastN(<<>>, n) = <<>>
  BY SubSeqEmpty DEF LastN
<1>3. WindowsAreEnds
  BY <1>2, ConfigOf DEF WindowsAreEnds
<1>4. 0 < loopConfig.repeatThreshold
  BY ConfigOf
<1>5. detection = Report
  BY <1>4 DEF Report
<1> QED BY <1>1, <1>3, <1>5 DEF LoopInv

LEMMA LoopInvariant == LoopSpec => []LoopInv
<1>1. LoopInit => LoopInv
  BY LoopStarts DEF LoopInit, FreshLoop
<1>2. ASSUME LoopInv, [LoopNext]_loopVars PROVE LoopInv'
  <2>0. LoopTyped /\ WindowsAreEnds
    BY <1>2 DEF LoopInv
  <2>1. ASSUME NEW output \in Outputs, NEW toolCalls \in TurnCalls,
               RecordAndCheck(output, toolCalls)
        PROVE  LoopInv'
    <3>1. /\ iterationCount < MaxLoopTurns /\ iterationCount' = iterationCount + 1
          /\ outputHashes' = LastN(Append(outputHashes, output), loopConfig.windowSize)
          /\ toolCallHistory' = LastN(toolCallHistory \o toolCalls, MaxHistory)
          /\ loopOutputs' = Append(loopOutputs, output) /\ loopCalls' = loopCalls \o toolCalls
          /\ UNCHANGED loopConfig
      BY <2>1 DEF RecordAndCheck
    <3>2. /\ loopConfig \in LoopConfigs /\ iterationCount \in 0..MaxLoopTurns
          /\ loopOutputs \in Seq(Outputs) /\ loopCalls \in Seq(ToolNames)
          /\ MaxLoopTurns \in Nat /\ toolCalls \in Seq(ToolNames)
      BY <2>0, LoopAssumption DEF LoopTyped
    <3>3. LoopTyped'
      <4>1. iterationCount' \in 0..MaxLoopTurns
        BY <3>1, <3>2
      <4>2. loopCalls \o toolCalls \in Seq(ToolNames)
        BY <3>2, ConcatProperties
      <4> QED BY <3>1, <3>2, <4>1, <4>2 DEF LoopTyped
    <3>4. loopConfig.windowSize \in Nat /\ MaxHistory \in Nat /\ MaxHistory' = MaxHistory
      BY <3>1, <3>2, ConfigOf DEF MaxHistory
    <3>5. WindowsAreEnds'
      <4>1. outputHashes' = LastN(loopOutputs', loopConfig.windowSize)
        BY <2>0, <3>1, <3>2, <3>4, LastNOfAppend DEF WindowsAreEnds
      <4>2. toolCallHistory' = LastN(loopCalls', MaxHistory)
        BY <2>0, <3>1, <3>2, <3>4, LastNOfConcat DEF WindowsAreEnds
      <4> QED BY <3>1, <3>4, <4>1, <4>2 DEF WindowsAreEnds, LastN
    <3>6. detection' = Report'
      <4>1. detection' = IF iterationCount' < loopConfig.repeatThreshold THEN "none"
                         ELSE IF EndsInCycle(toolCallHistory') THEN "tool_cycle"
                         ELSE IF EndsInRepeat(outputHashes') THEN "output_repeat"
                         ELSE "none"
        BY <2>1 DEF RecordAndCheck
      <4>2. EndsInCycle(toolCallHistory)' <=> EndsInCycle(toolCallHistory')
        BY <3>1 DEF EndsInCycle, LastN
      <4>3. EndsInRepeat(outputHashes)' <=> EndsInRepeat(outputHashes')
        BY <3>1 DEF EndsInRepeat, LastN
      <4> QED BY <3>1, <4>1, <4>2, <4>3 DEF Report
    <3> QED BY <3>3, <3>5, <3>6 DEF LoopInv
  <2>2. CASE NewDetector
    <3>1. FreshLoop'
      BY <2>0, <2>2 DEF LoopTyped, NewDetector, FreshLoop
    <3> QED BY <3>1, LoopStarts, PTL
  <2>3. CASE UNCHANGED loopVars
    <3>1. UNCHANGED <<loopConfig, outputHashes, toolCallHistory, iterationCount, detection,
                      loopOutputs, loopCalls>>
      BY <2>3 DEF loopVars
    <3>2. LoopTyped' /\ MaxHistory' = MaxHistory
      BY <2>0, <3>1 DEF LoopTyped, MaxHistory
    <3>3. WindowsAreEnds'
      BY <2>0, <3>1, <3>2 DEF WindowsAreEnds
    <3>4. Report' = Report
      BY <3>1 DEF Report, EndsInCycle, EndsInRepeat
    <3> QED BY <1>2, <3>1, <3>2, <3>3, <3>4 DEF LoopInv
  <2> QED BY <1>2, <2>1, <2>2, <2>3 DEF LoopNext
<1> QED BY <1>1, <1>2, PTL DEF LoopSpec

(* The windows of the loop detector stay within what it was configured to.  *)
THEOREM LoopTypeCorrect == LoopSpec => []LoopTypeOK
<1>1. LoopInv => LoopTypeOK
  <2> SUFFICES ASSUME LoopInv PROVE LoopTypeOK
    OBVIOUS
  <2>1. /\ loopConfig \in LoopConfigs /\ iterationCount \in 0..MaxLoopTurns
        /\ loopOutputs \in Seq(Outputs) /\ loopCalls \in Seq(ToolNames)
    BY DEF LoopInv, LoopTyped
  <2>2. loopConfig.windowSize \in Nat /\ MaxHistory \in Nat
    BY <2>1, ConfigOf
  <2>3. Len(outputHashes) <= loopConfig.windowSize
    <3>1. Len(LastN(loopOutputs, loopConfig.windowSize)) <= loopConfig.windowSize
      BY <2>1, <2>2, LastNOf
    <3> QED BY <3>1 DEF LoopInv, WindowsAreEnds
  <2>4. Len(toolCallHistory) <= MaxHistory
    <3>1. Len(LastN(loopCalls, MaxHistory)) <= MaxHistory
      BY <2>1, <2>2, LastNOf
    <3> QED BY <3>1 DEF LoopInv, WindowsAreEnds
  <2>5. detection \in {"none", "tool_cycle", "output_repeat"}
    BY DEF LoopInv, Report
  <2> QED BY <2>1, <2>3, <2>4, <2>5 DEF LoopTypeOK, MaxHistory
<1> QED BY <1>1, LoopInvariant, PTL

(* The window ends in a cycle exactly if the history does.                  *)
LEMMA CyclesAreSeen ==
  ASSUME LoopTyped, WindowsAreEnds
  PROVE  EndsInCycle(toolCallHistory) <=> EndsInCycle(loopCalls)
<1> DEFINE w == loopConfig.windowSize
           m == loopConfig.maxCycleLength
           r == loopConfig.repeatThreshold
<1>1. w \in Nat \ {0} /\ r \in Nat \ {0, 1} /\ m \in Nat /\ MaxHistory \in Nat
      /\ MaxHistory = (w * m) * r
  BY ConfigOf DEF LoopTyped, MaxHistory
<1>2. loopCalls \in Seq(ToolNames) /\ toolCallHistory = LastN(loopCalls, MaxHistory)
  BY DEF LoopTyped, WindowsAreEnds
<1>3. Len(loopCalls) \in Nat
      /\ Len(toolCallHistory) = IF Len(loopCalls) > MaxHistory THEN MaxHistory ELSE Len(loopCalls)
  BY <1>1, <1>2, LastNOf
<1>4. ASSUME NEW length \in 1..m
      PROVE  /\ Len(toolCallHistory) >= length * r <=> Len(loopCalls) >= length * r
             /\ LastN(toolCallHistory, length * r) = LastN(loopCalls, length * r)
  <2>1. length * r \in Nat /\ length * r <= MaxHistory
    BY <1>1, ProductsGrow
  <2>2. LastN(toolCallHistory, length * r) = LastN(loopCalls, length * r)
    <3> HIDE DEF r
    <3> QED BY <1>1, <1>2, <2>1, LastNOfLastN
  <2> DEFINE needed == length * r
  <2> HIDE DEF needed
  <2>3. Len(toolCallHistory) >= needed <=> Len(loopCalls) >= needed
    <3>1. needed \in Nat /\ needed <= MaxHistory
      BY <2>1 DEF needed
    <3> QED BY <1>1, <1>3, <3>1
  <2> QED BY <2>2, <2>3 DEF needed
<1>5. ASSUME NEW length \in 1..m
      PROVE  (/\ Len(toolCallHistory) >= length * r
              /\ \A rep \in 1..(r - 1) : \A i \in 1..length :
                   LastN(toolCallHistory, length * r)[rep * length + i]
                     = LastN(toolCallHistory, length * r)[i])
             <=>
             (/\ Len(loopCalls) >= length * r
              /\ \A rep \in 1..(r - 1) : \A i \in 1..length :
                   LastN(loopCalls, length * r)[rep * length + i]
                     = LastN(loopCalls, length * r)[i])
  <2>1. /\ Len(toolCallHistory) >= length * r <=> Len(loopCalls) >= length * r
        /\ LastN(toolCallHistory, length * r) = LastN(loopCalls, length * r)
    BY <1>4
  <2> QED BY <2>1, Zenon
<1> QED BY <1>5, Zenon DEF EndsInCycle

(* It ends in outputs that are the same if the history does, when it is long*)
(* enough to tell, and only if the history does.                            *)
LEMMA RepeatsAreSeen ==
  ASSUME LoopTyped, WindowsAreEnds
  PROVE  /\ EndsInRepeat(outputHashes) => EndsInRepeat(loopOutputs)
         /\ loopConfig.windowSize >= loopConfig.repeatThreshold =>
              (EndsInRepeat(outputHashes) <=> EndsInRepeat(loopOutputs))
<1> DEFINE w == loopConfig.windowSize
           r == loopConfig.repeatThreshold
<1>1. w \in Nat \ {0} /\ r \in Nat \ {0, 1}
  BY ConfigOf DEF LoopTyped
<1>2. loopOutputs \in Seq(Outputs) /\ outputHashes = LastN(loopOutputs, w)
  BY DEF LoopTyped, WindowsAreEnds
<1>3. Len(loopOutputs) \in Nat
      /\ Len(outputHashes) = IF Len(loopOutputs) > w THEN w ELSE Len(loopOutputs)
  BY <1>1, <1>2, LastNOf
<1>4. CASE w >= r
  <2>1. LastN(outputHashes, r) = LastN(loopOutputs, r)
    <3>1. r <= w /\ r \in Nat /\ w \in Nat
      BY <1>1, <1>4
    <3> HIDE DEF w, r
    <3> QED BY <1>2, <3>1, LastNOfLastN
  <2>2. Len(outputHashes) >= r <=> Len(loopOutputs) >= r
    BY <1>1, <1>3, <1>4
  <2> QED BY <2>1, <2>2 DEF EndsInRepeat
<1>5. CASE ~(w >= r)
  <2>1. ~(Len(outputHashes) >= r)
    BY <1>1, <1>3, <1>5
  <2> QED BY <1>5, <2>1 DEF EndsInRepeat
<1> QED BY <1>4, <1>5

(* A loop in the whole session is reported for what it is, whatever the     *)
(* windows forget, and nothing else is.                                     *)
THEOREM LoopsStaySeen == LoopSpec => []LoopsAreSeen
<1>1. LoopInv => LoopsAreSeen
  <2> SUFFICES ASSUME LoopInv, iterationCount >= loopConfig.repeatThreshold
               PROVE  /\ detection = "tool_cycle" <=> EndsInCycle(loopCalls)
                      /\ detection = "output_repeat" =>
                           ~EndsInCycle(loopCalls) /\ EndsInRepeat(loopOutputs)
                      /\ detection = "none" =>
                           ~EndsInRepeat(loopOutputs)
                             \/ loopConfig.windowSize < loopConfig.repeatThreshold
    BY DEF LoopsAreSeen
  <2>1. /\ EndsInCycle(toolCallHistory) <=> EndsInCycle(loopCalls)
        /\ EndsInRepeat(outputHashes) => EndsInRepeat(loopOutputs)
        /\ loopConfig.windowSize >= loopConfig.repeatThreshold =>
             (EndsInRepeat(outputHashes) <=> EndsInRepeat(loopOutputs))
    BY CyclesAreSeen, RepeatsAreSeen DEF LoopInv
  <2>2. /\ loopConfig.windowSize \in Nat /\ loopConfig.repeatThreshold \in Nat
        /\ iterationCount \in Nat
    BY ConfigOf DEF LoopInv, LoopTyped
  <2>3. ~(iterationCount < loopConfig.repeatThreshold)
        /\ (loopConfig.windowSize >= loopConfig.repeatThreshold
              \/ loopConfig.windowSize < loopConfig.repeatThreshold)
    BY <2>2
  <2>4. detection = IF EndsInCycle(toolCallHistory) THEN "tool_cycle"
                    ELSE IF EndsInRepeat(outputHashes) THEN "output_repeat" ELSE "none"
    BY <2>3 DEF LoopInv, Report
  <2> QED BY <2>1, <2>3, <2>4
<1> QED BY <1>1, LoopInvariant, PTL

(* Loop detector and spawn guard see what the agent does, side by side.     *)
THEOREM GuardsKeepSeeing == GuardsSpec => []GuardsSeeTheAgent
  BY CountsStayOfChildren, LoopsStaySeen, PTL DEF GuardsSpec, GuardsSeeTheAgent
-----------------------------------------------------------------------------
(* The types of the router.  A request begins at its first target; one that *)
(* waits for its provider, or for its backoff, has an attempt left to count;*)
(* the key of its call is one of the provider it calls, so that only such   *)
(* keys are put in cooldown.                                                *)
Waits == {"calling", "streaming", "sleeping"}
ProviderKeys(p) == {PoolKeys[p][i] : i \in DOMAIN PoolKeys[p]}

Progress ==
  /\ phase \in [Requests -> Phases]
  /\ chain \in [Requests -> Chains \union {<<>>}] /\ target \in [Requests -> Nat]
  /\ \A r \in Requests : target[r] \in 1..(Len(chain[r]) + 1)
  /\ attempt \in [Requests -> 0..(maxRetries + 1)]
  /\ level \in [Requests -> Levels \union {"standard", "none"}]
  /\ aborted \in [Requests -> BOOLEAN] /\ active \in Requests \union {NoRequest}
  /\ \A r \in Requests : /\ phase[r] \in Waits => attempt[r] <= maxRetries
                         /\ phase[r] = "idle" => target[r] = 1

PoolsOK ==
  /\ index \in [Providers -> Nat] /\ DOMAIN cooling = Providers
  /\ \A p \in Providers : /\ index[p] \in 1..Len(PoolKeys[p])
                          /\ cooling[p] \in Seq(ProviderKeys(p))

CallsOK ==
  /\ DOMAIN key = Requests
  /\ \A r \in Requests : phase[r] = "calling" => key[r] \in ProviderKeys(At(r))

RouterTyped == Progress /\ PoolsOK /\ CallsOK /\ HeldByProvider

LEMMA ChainLength == ASSUME NEW c \in Chains \union {<<>>} PROVE Len(c) \in Nat
<1>1. CASE c \in Chains
  <2>1. c \in Seq({c[i] : i \in DOMAIN c})
    BY <1>1, RouterAssumption
  <2> QED BY <2>1, LenProperties
<1> QED BY <1>1

LEMMA KeysAre ==
  ASSUME NEW p \in Providers
  PROVE  /\ Len(PoolKeys[p]) \in Nat \ {0}
         /\ \A i \in 1..Len(PoolKeys[p]) : PoolKeys[p][i] \in ProviderKeys(p)
         /\ \A i \in DOMAIN PoolKeys[p] : i \in 1..Len(PoolKeys[p])
<1>1. PoolKeys[p] \in Seq(Nat \ {NoKey}) /\ PoolKeys[p] # <<>>
  BY RouterAssumption
<1>2. DOMAIN PoolKeys[p] = 1..Len(PoolKeys[p]) /\ Len(PoolKeys[p]) \in Nat \ {0}
  BY <1>1, LenProperties, EmptySeq
<1> QED BY <1>2 DEF ProviderKeys

(* What the steps of a request do to its progress.                          *)
LEMMA EndTypes ==
  ASSUME Progress, NEW r \in Requests, NEW how \in Ended, End(r, how) PROVE Progress'
<1>1. phase' \in [Requests -> Phases] /\ chain' \in [Requests -> Chains \union {<<>>}]
  BY DEF Progress, End, Phases, Ended
<1>2. /\ target' \in [Requests -> Nat] /\ attempt' \in [Requests -> 0..(maxRetries + 1)]
      /\ level' \in [Requests -> Levels \union {"standard", "none"}]
      /\ aborted' \in [Requests -> BOOLEAN] /\ active' \in Requests \union {NoRequest}
  BY RouterAssumption DEF Progress, End
<1>3. ASSUME NEW s \in Requests PROVE target'[s] \in 1..(Len(chain'[s]) + 1)
  BY DEF Progress, End
<1>4. ASSUME NEW s \in Requests, phase'[s] \in Waits PROVE attempt'[s] <= maxRetries
  BY <1>4 DEF Progress, End, Ended, Waits
<1>5. ASSUME NEW s \in Requests, phase'[s] = "idle" PROVE target'[s] = 1
  BY <1>5 DEF Progress, End, Ended
<1> QED BY <1>1, <1>2, <1>3, <1>4, <1>5 DEF Progress

LEMMA NextTargetTypes ==
  ASSUME Progress, NEW r \in Requests, NextTarget(r), UNCHANGED <<chain, level, aborted>>,
         target[r] <= Len(chain[r]), active' \in Requests \union {NoRequest},
         attempt' = attempt \/ attempt' = [attempt EXCEPT ![r] = 0]
  PROVE  Progress'
<1>0. Len(chain[r]) \in Nat /\ target[r] \in Nat
  BY ChainLength DEF Progress
<1>1. phase' \in [Requests -> Phases] /\ target' \in [Requests -> Nat]
  BY DEF Progress, NextTarget, Phases
<1>2. attempt' \in [Requests -> 0..(maxRetries + 1)]
  <2>1. 0 \in 0..(maxRetries + 1)
    BY RouterAssumption
  <2> QED BY <2>1 DEF Progress
<1>3. ASSUME NEW s \in Requests PROVE target'[s] \in 1..(Len(chain'[s]) + 1)
  BY <1>0 DEF Progress, NextTarget
<1>4. ASSUME NEW s \in Requests, phase'[s] \in Waits PROVE attempt'[s] <= maxRetries
  BY <1>4 DEF Progress, NextTarget, Waits
<1>5. ASSUME NEW s \in Requests, phase'[s] = "idle" PROVE target'[s] = 1
  BY <1>5 DEF Progress, NextTarget
<1> QED BY <1>1, <1>2, <1>3, <1>4, <1>5 DEF Progress

LEMMA ContinueTypes ==
  ASSUME Progress, NEW r \in Requests, Continue(r), phase[r] \in Waits,
         level' \in [Requests -> Levels \union {"standard", "none"}]
  PROVE  Progress'
<1>1. phase' \in [Requests -> Phases] /\ active' \in Requests
  BY DEF Progress, Continue, Phases, Held
<1>2. attempt' \in [Requests -> 0..(maxRetries + 1)]
  <2>1. attempt[r] \in 0..maxRetries /\ maxRetries \in Nat
    BY RouterAssumption DEF Progress
  <2>2. attempt[r] + 1 \in 0..(maxRetries + 1)
    BY <2>1
  <2> QED BY <2>2 DEF Continue, Progress
<1>3. ASSUME NEW s \in Requests, phase'[s] \in Waits PROVE attempt'[s] <= maxRetries
  BY <1>3 DEF Progress, Continue, Waits
<1>4. ASSUME NEW s \in Requests, phase'[s] = "idle" PROVE target'[s] = 1
  BY <1>4 DEF Progress, Continue
<1> QED BY <1>1, <1>2, <1>3, <1>4 DEF Progress, Continue

LEMMA SleepTypes ==
  ASSUME Progress, NEW r \in Requests, SleepContinue(r), phase[r] \in Waits PROVE Progress'
<1>1. CASE End(r, "aborted")
  BY <1>1, EndTypes DEF Ended
<1>2. CASE /\ phase' = [phase EXCEPT ![r] = "sleeping"]
           /\ UNCHANGED <<chain, target, attempt, level, aborted, active>>
  BY <1>2 DEF Progress, Phases, Held, Waits
<1> QED BY <1>1, <1>2 DEF SleepContinue

-----------------------------------------------------------------------------
(* The key pool.                                                            *)
LEMMA MarkedKeysAre ==
  ASSUME PoolsOK, NEW p \in Providers, NEW k \in ProviderKeys(p), markCooldown(p, k),
         UNCHANGED index
  PROVE  PoolsOK'
<1>1. Filtered(cooling[p], {k}) \in Seq(ProviderKeys(p))
  <2>1. InOrder(cooling[p], ProviderKeys(p) \X ProviderKeys(p))
    BY RangeOf DEF InOrder, PoolsOK
  <2> QED BY <2>1, FilteredOf DEF PoolsOK
<1>2. Append(Filtered(cooling[p], {k}), k) \in Seq(ProviderKeys(p))
  BY <1>1, AppendProperties
<1> HIDE DEF ProviderKeys
<1> QED BY <1>2 DEF PoolsOK, markCooldown

LEMMA PrunedMarksAre ==
  ASSUME NEW p \in Providers, NEW marks \in Seq(ProviderKeys(p)), NEW left \in Pruned(marks)
  PROVE  left \in Seq(ProviderKeys(p))
<1>1. PICK n \in 1..(Len(marks) + 1) : left = SubSeq(marks, n, Len(marks))
  BY DEF Pruned
<1>2. Len(marks) \in Nat /\ \A i \in 1..Len(marks) : marks[i] \in ProviderKeys(p)
  BY LenProperties
<1> HIDE DEF ProviderKeys
<1> QED BY <1>1, <1>2, SubSeqProperties

LEMMA FirstFreeIs ==
  ASSUME NEW p \in Providers, NEW start \in 1..Len(PoolKeys[p]), NEW marks
  PROVE  FirstFree(p, start, marks) \in 1..Len(PoolKeys[p]) \union {NoKey}
<1> DEFINE count == Len(PoolKeys[p])
           Nth(i) == ((start + i - 1) % count) + 1
           free == {i \in 0..(count - 1) : ~Cools(marks, PoolKeys[p][Nth(i)])}
           first == CHOOSE i \in free : \A j \in free : i <= j
<1>1. FirstFree(p, start, marks) = IF free = {} THEN NoKey ELSE Nth(first)
  BY DEF FirstFree
<1>2. count \in Nat \ {0} /\ start \in 1..count
  BY KeysAre
<1>3. ASSUME free # {} PROVE first \in 0..(count - 1)
  <2>1. \E i \in free : \A j \in free : i <= j
    <3>1. free \subseteq Nat
      BY <1>2
    <3> HIDE DEF free
    <3> QED BY <1>3, <3>1, LeastIn
  <2>2. free \subseteq 0..(count - 1)
    OBVIOUS
  <2> HIDE DEF free
  <2>3. first \in free
    BY <2>1
  <2> QED BY <2>2, <2>3
<1>4. ASSUME NEW i \in 0..(count - 1) PROVE Nth(i) \in 1..count
  <2> DEFINE n == start + i - 1
  <2>1. n \in Nat
    BY <1>2
  <2> HIDE DEF count, n
  <2>2. (n % count) \in 0..(count - 1)
    BY <1>2, <2>1
  <2>3. (n % count) + 1 \in 1..count
    BY <1>2, <2>2
  <2> QED BY <2>3 DEF n
<1> HIDE DEF Nth, free, first, count
<1>5. free # {} => Nth(first) \in 1..count
  BY <1>3, <1>4
<1> QED BY <1>1, <1>5 DEF count

LEMMA AttemptTypes ==
  ASSUME RouterTyped, NEW r \in Requests, Attempt(r) PROVE Progress' /\ PoolsOK' /\ CallsOK'
<1>0. /\ Progress /\ PoolsOK /\ CallsOK /\ phase[r] = "attempting"
      /\ target[r] <= Len(chain[r]) /\ At(r) \in Providers
  BY DEF RouterTyped, Attempt, HeldByProvider, Held
<1>1. CASE /\ NextTarget(r) /\ attempt' = [attempt EXCEPT ![r] = 0]
           /\ UNCHANGED <<chain, level, key, aborted, active, cooling, index>>
  <2>1. Progress'
    BY <1>0, <1>1, NextTargetTypes DEF Progress
  <2>2. CallsOK'
    BY <1>0, <1>1 DEF NextTarget, CallsOK, At, Progress
  <2> QED BY <1>0, <1>1, <2>1, <2>2 DEF PoolsOK
<1>2. CASE End(r, "aborted") /\ UNCHANGED <<cooling, index>>
  <2>1. Progress'
    BY <1>0, <1>2, EndTypes DEF Ended
  <2>2. CallsOK'
    BY <1>0, <1>2 DEF End, CallsOK, At, Progress
  <2> QED BY <1>0, <1>2, <2>1, <2>2 DEF PoolsOK
<1>3. ASSUME attempt[r] <= maxRetries,
             NEW marks \in Pruned(cooling[At(r)]),
             cooling' = [cooling EXCEPT ![At(r)] = marks],
             \/ /\ NextTarget(r) /\ attempt' = [attempt EXCEPT ![r] = 0]
                /\ UNCHANGED <<key, active, index>>
             \/ /\ FirstFree(At(r), index[At(r)], marks) # NoKey
                /\ key' = [key EXCEPT ![r] =
                     PoolKeys[At(r)][FirstFree(At(r), index[At(r)], marks)]]
                /\ index' = [index EXCEPT ![At(r)] =
                     (FirstFree(At(r), index[At(r)], marks) % Len(PoolKeys[At(r)])) + 1]
                /\ phase' = [phase EXCEPT ![r] = "calling"] /\ active' = NoRequest
                /\ UNCHANGED <<target, attempt>>,
             UNCHANGED <<chain, level, aborted>>
      PROVE  Progress' /\ PoolsOK' /\ CallsOK'
  <2> DEFINE p == At(r)
             first == FirstFree(p, index[p], marks)
             count == Len(PoolKeys[p])
  <2>1. marks \in Seq(ProviderKeys(p)) /\ count \in Nat \ {0}
    BY <1>0, <1>3, PrunedMarksAre, KeysAre DEF PoolsOK
  <2>2. first \in 1..count \union {NoKey}
    BY <1>0, FirstFreeIs DEF PoolsOK
  <2>3. p \in Providers /\ cooling' = [cooling EXCEPT ![p] = marks]
    BY <1>0, <1>3
  <2>4. CASE /\ NextTarget(r) /\ attempt' = [attempt EXCEPT ![r] = 0]
             /\ UNCHANGED <<key, active, index>>
    <3>1. Progress'
      BY <1>0, <1>3, <2>4, NextTargetTypes DEF Progress
    <3>2. CallsOK'
      BY <1>0, <1>3, <2>4 DEF NextTarget, CallsOK, At, Progress
    <3> HIDE DEF p
    <3>3. PoolsOK'
      BY <1>0, <2>1, <2>3, <2>4 DEF PoolsOK
    <3> QED BY <3>1, <3>2, <3>3
  <2>5. CASE /\ first # NoKey
             /\ key' = [key EXCEPT ![r] = PoolKeys[p][first]]
             /\ index' = [index EXCEPT ![p] = (first % count) + 1]
             /\ phase' = [phase EXCEPT ![r] = "calling"] /\ active' = NoRequest
             /\ UNCHANGED <<target, attempt>>
    <3>1. Progress'
      BY <1>0, <1>3, <2>5 DEF Progress, Phases, Held
    <3>2. first \in 1..count
      BY <2>2, <2>5
    <3>3. PoolKeys[p][first] \in ProviderKeys(p)
      BY <1>0, <3>2, KeysAre
    <3>4. (first % count) + 1 \in 1..count
      <4> HIDE DEF count, first
      <4>1. first \in Nat
        BY <2>1, <3>2
      <4>2. (first % count) \in 0..(count - 1)
        BY <2>1, <4>1
      <4> QED BY <2>1, <4>2
    <3>5. \A s \in Requests : At(s)' = At(s)
      BY <1>3, <2>5 DEF At
    <3>6. CallsOK'
      <4>1. ASSUME NEW s \in Requests, phase'[s] = "calling"
            PROVE  key'[s] \in ProviderKeys(At(s))
        <5>1. CASE s = r
          BY <1>0, <2>5, <3>3, <5>1 DEF CallsOK
        <5>2. CASE s # r
          BY <1>0, <2>5, <4>1, <5>2 DEF CallsOK, Progress
        <5> QED BY <5>1, <5>2
      <4>2. DOMAIN key' = Requests
        BY <1>0, <2>5 DEF CallsOK
      <4>3. \A s \in Requests : ProviderKeys(At(s))' = ProviderKeys(At(s))
        BY <3>5 DEF ProviderKeys
      <4> QED BY <4>1, <4>2, <4>3 DEF CallsOK
    <3> HIDE DEF p, first, count
    <3>7. PoolsOK'
      <4>1. ASSUME NEW q \in Providers
            PROVE  /\ index'[q] \in 1..Len(PoolKeys[q]) /\ index'[q] \in Nat
                   /\ cooling'[q] \in Seq(ProviderKeys(q))
        <5>1. CASE q = p
          BY <1>0, <2>1, <2>3, <2>5, <3>4, <5>1 DEF PoolsOK, count
        <5>2. CASE q # p
          BY <1>0, <2>3, <2>5, <5>2 DEF PoolsOK
        <5> QED BY <5>1, <5>2
      <4>2. DOMAIN index' = Providers /\ DOMAIN cooling' = Providers
            /\ index' = [q \in Providers |-> index'[q]]
        BY <1>0, <2>3, <2>5 DEF PoolsOK
      <4> QED BY <4>1, <4>2 DEF PoolsOK
    <3> QED BY <3>1, <3>6, <3>7
  <2> QED BY <1>3, <2>4, <2>5
<1>4. attempt[r] <= maxRetries /\ ~aborted[r] => Progress' /\ PoolsOK' /\ CallsOK'
  BY <1>1, <1>2, <1>3 DEF Attempt
<1> QED BY <1>1, <1>2, <1>4 DEF Attempt

-----------------------------------------------------------------------------
LEMMA CallFailsTypes ==
  ASSUME RouterTyped, NEW r \in Requests, NEW category \in DOMAIN Strategy,
         CallFails(r, category)
  PROVE  Progress' /\ PoolsOK' /\ CallsOK'
<1>0. /\ Progress /\ PoolsOK /\ CallsOK /\ phase[r] = "calling" /\ phase[r] \in Waits
      /\ target[r] <= Len(chain[r]) /\ At(r) \in Providers
      /\ key[r] \in ProviderKeys(At(r)) /\ key' = [key EXCEPT ![r] = NoKey]
      /\ UNCHANGED index
  BY DEF RouterTyped, CallFails, HeldByProvider, Held, CallsOK, Waits
<1>1. Progress'
  <2>1. CASE level' = [level EXCEPT ![r] = Lower[@]] /\ Continue(r) /\ Downgrades(r, category)
    <3>1. level[r] \in DOMAIN Lower
      BY <1>0, <2>1, RouterAssumption DEF Downgrades, Progress, Lower
    <3>2. Lower[level[r]] \in {"standard", "none"}
      BY <3>1 DEF Lower
    <3>3. level' \in [Requests -> Levels \union {"standard", "none"}]
      BY <1>0, <2>1, <3>2 DEF Progress
    <3> QED BY <1>0, <2>1, <3>3, ContinueTypes
  <2>2. CASE BreakTarget(r)
    <3>1. active' \in Requests
      BY <2>2 DEF BreakTarget
    <3> QED BY <1>0, <2>2, <3>1, NextTargetTypes DEF BreakTarget
  <2>3. CASE Continue(r) /\ UNCHANGED level
    <3>1. level' \in [Requests -> Levels \union {"standard", "none"}]
      BY <1>0, <2>3 DEF Progress
    <3> QED BY <1>0, <2>3, <3>1, ContinueTypes
  <2>4. CASE SleepContinue(r)
    BY <1>0, <2>4, SleepTypes
  <2> QED BY <2>1, <2>2, <2>3, <2>4 DEF CallFails
<1>2. PoolsOK'
  <2>1. CASE UNCHANGED cooling
    BY <1>0, <2>1 DEF PoolsOK
  <2>2. CASE markCooldown(At(r), key[r])
    BY <1>0, <2>2, MarkedKeysAre
  <2> QED BY <2>1, <2>2 DEF CallFails
<1>3. CallsOK'
  <2>1. OthersStay(r) /\ phase'[r] # "calling"
    <3>1. CASE Continue(r)
      BY <1>0, <3>1 DEF Continue, OthersStay, Progress
    <3>2. CASE BreakTarget(r)
      BY <1>0, <3>2 DEF BreakTarget, NextTarget, OthersStay, Progress
    <3>3. CASE SleepContinue(r)
      BY <1>0, <3>3 DEF SleepContinue, End, OthersStay, Progress
    <3> QED BY <3>1, <3>2, <3>3 DEF CallFails
  <2> QED BY <1>0, <2>1 DEF CallsOK, OthersStay, At
<1> QED BY <1>1, <1>2, <1>3

(* A step that touches no pool, no key, and makes no request call.          *)
LEMMA QuietCalls ==
  ASSUME RouterTyped, NEW r \in Requests, OthersStay(r), UNCHANGED <<cooling, index>>,
         key' = key \/ key' = [key EXCEPT ![r] = NoKey], phase'[r] # "calling"
  PROVE  PoolsOK' /\ CallsOK'
BY DEF RouterTyped, PoolsOK, CallsOK, OthersStay, At

LEMMA RouterStarts == RouterInit => RouterTyped
<1> SUFFICES ASSUME RouterInit PROVE RouterTyped
  OBVIOUS
<1>1. Progress
  <2>1. 0 \in 0..(maxRetries + 1)
    BY RouterAssumption
  <2>2. \A r \in Requests : target[r] \in 1..(Len(chain[r]) + 1)
    BY DEF RouterInit
  <2>3. active \in Requests \union {NoRequest} /\ aborted \in [Requests -> BOOLEAN]
    BY DEF RouterInit
  <2> QED BY <2>1, <2>2, <2>3 DEF RouterInit, Progress, Phases, Waits
<1>2. PoolsOK
  BY KeysAre DEF RouterInit, PoolsOK
<1>3. CallsOK
  BY DEF RouterInit, CallsOK
<1> QED BY <1>1, <1>2, <1>3, HeldInit DEF RouterTyped

LEMMA RouterStep == ASSUME RouterTyped, [RouterNext]_routerVars PROVE RouterTyped'
<1>0. /\ Progress /\ PoolsOK /\ CallsOK /\ HeldByProvider /\ RequestsOK
  BY DEF RouterTyped, RequestsOK, Progress
<1>h. HeldByProvider'
  BY <1>0, HeldStep
<1> SUFFICES Progress' /\ PoolsOK' /\ CallsOK'
  BY <1>h DEF RouterTyped
<1>1. ASSUME NEW r \in Requests, Begin(r) PROVE Progress' /\ PoolsOK' /\ CallsOK'
  <2>1. PICK c \in Chains, l \in Levels :
          chain' = [chain EXCEPT ![r] = c] /\ level' = [level EXCEPT ![r] = l]
    BY <1>1 DEF Begin
  <2>2. /\ phase[r] = "idle" /\ phase' = [phase EXCEPT ![r] = "targeting"] /\ active' = r
        /\ UNCHANGED <<target, attempt, key, aborted, breaker, cooling, index>>
    BY <1>1 DEF Begin
  <2>3. target[r] \in 1..(Len(c) + 1)
    <3>1. target[r] = 1
      BY <1>0, <2>2 DEF Progress
    <3>2. Len(c) \in Nat
      BY ChainLength
    <3> QED BY <3>1, <3>2
  <2>4. Progress'
    BY <1>0, <2>1, <2>2, <2>3 DEF Progress, Phases, Waits
  <2>5. OthersStay(r) /\ phase'[r] # "calling"
    BY <1>0, <2>1, <2>2 DEF OthersStay, Progress
  <2> QED BY <2>2, <2>4, <2>5, QuietCalls
<1>2. ASSUME NEW r \in Requests, Target(r) PROVE Progress' /\ PoolsOK' /\ CallsOK'
  <2>1. CASE End(r, "failed")
    <3>1. Progress'
      BY <1>0, <2>1, EndTypes DEF Ended
    <3>2. OthersStay(r) /\ phase'[r] # "calling" /\ key' = [key EXCEPT ![r] = NoKey]
      BY <1>0, <2>1 DEF End, OthersStay, Progress
    <3> QED BY <1>2, <3>1, <3>2, QuietCalls DEF Target
  <2>2. CASE /\ NextTarget(r) /\ target[r] <= Len(chain[r])
             /\ UNCHANGED <<chain, attempt, level, key, aborted, active>>
    <3>1. Progress'
      BY <1>0, <2>2, NextTargetTypes DEF Progress
    <3>2. OthersStay(r) /\ phase'[r] # "calling"
      BY <1>0, <2>2 DEF NextTarget, OthersStay, Progress
    <3> QED BY <1>2, <2>2, <3>1, <3>2, QuietCalls DEF Target
  <2>3. CASE /\ attempt' = [attempt EXCEPT ![r] = 0]
             /\ phase' = [phase EXCEPT ![r] = "attempting"]
             /\ UNCHANGED <<target, chain, level, key, aborted, active>>
    <3>1. 0 \in 0..(maxRetries + 1)
      BY RouterAssumption
    <3>2. Progress'
      BY <1>0, <2>3, <3>1 DEF Progress, Phases, Held, Waits
    <3>3. OthersStay(r) /\ phase'[r] # "calling"
      BY <1>0, <2>3 DEF OthersStay, Progress
    <3> QED BY <1>2, <2>3, <3>2, <3>3, QuietCalls DEF Target
  <2> QED BY <1>2, <2>1, <2>2, <2>3 DEF Target
<1>3. ASSUME NEW r \in Requests, Attempt(r) PROVE Progress' /\ PoolsOK' /\ CallsOK'
  BY <1>3, AttemptTypes
<1>4. ASSUME NEW r \in Requests, NEW how \in Ended, End(r, how), UNCHANGED <<cooling, index>>
      PROVE  Progress' /\ PoolsOK' /\ CallsOK'
  <2>1. OthersStay(r) /\ phase'[r] # "calling" /\ key' = [key EXCEPT ![r] = NoKey]
    BY <1>0, <1>4 DEF End, OthersStay, Progress, Ended
  <2> QED BY <1>0, <1>4, <2>1, EndTypes, QuietCalls
<1>5. ASSUME NEW r \in Requests, WakeUp(r) PROVE Progress' /\ PoolsOK' /\ CallsOK'
  <2>1. Progress'
    <3>1. phase[r] \in Waits
      BY <1>5 DEF WakeUp, Waits
    <3>2. level' \in [Requests -> Levels \union {"standard", "none"}]
      BY <1>0, <1>5 DEF WakeUp, Progress
    <3> QED BY <1>0, <1>5, <3>1, <3>2, ContinueTypes DEF WakeUp
  <2>2. OthersStay(r) /\ phase'[r] # "calling"
    BY <1>0, <1>5 DEF WakeUp, Continue, OthersStay, Progress
  <2> QED BY <1>5, <2>1, <2>2, QuietCalls DEF WakeUp
<1>6. ASSUME NEW r \in Requests, NEW category \in DOMAIN Strategy, CallFails(r, category)
      PROVE  Progress' /\ PoolsOK' /\ CallsOK'
  BY <1>6, CallFailsTypes
<1>7. ASSUME NEW r \in Requests, FirstChunk(r) PROVE Progress' /\ PoolsOK' /\ CallsOK'
  <2>1. Progress'
    BY <1>0, <1>7 DEF FirstChunk, Progress, Phases, Held, Waits
  <2>2. OthersStay(r) /\ phase'[r] # "calling"
    BY <1>0, <1>7 DEF FirstChunk, OthersStay, Progress
  <2> QED BY <1>7, <2>1, <2>2, QuietCalls DEF FirstChunk
<1>8. ASSUME NEW r \in Requests, Abort(r) PROVE Progress' /\ PoolsOK' /\ CallsOK'
  <2>1. CASE End(r, "aborted")
    BY <1>4, <1>8, <2>1 DEF Abort, Ended
  <2>2. CASE /\ aborted' = [aborted EXCEPT ![r] = TRUE]
             /\ UNCHANGED <<phase, chain, target, attempt, level, key, active>>
    BY <1>0, <1>8, <2>2 DEF Abort, Progress, PoolsOK, CallsOK, At
  <2> QED BY <1>8, <2>1, <2>2 DEF Abort
<1>9. CASE UNCHANGED <<request, active, cooling, index>>
  BY <1>0, <1>9 DEF request, Progress, PoolsOK, CallsOK, At
<1>10. ASSUME NEW r \in Requests, Answered(r) \/ StreamBreaks(r)
       PROVE  Progress' /\ PoolsOK' /\ CallsOK'
  BY <1>4, <1>10 DEF Answered, StreamBreaks, Ended
<1>11. ASSUME NEW p \in Providers, Inspect(p) PROVE Progress' /\ PoolsOK' /\ CallsOK'
  BY <1>9, <1>11 DEF Inspect
<1>12. CASE UNCHANGED routerVars
  BY <1>9, <1>12 DEF routerVars
<1> QED BY <1>1, <1>2, <1>3, <1>5, <1>6, <1>7, <1>8, <1>10, <1>11, <1>12
        DEF RouterNext, Proceeds

(* It takes no fairness.                                                    *)
LEMMA RouterStaysTyped == RouterInit /\ [][RouterNext]_routerVars => []RouterTypeOK
<1>1. RouterTyped /\ [RouterNext]_routerVars => RouterTyped'
  BY RouterStep
<1>2. RouterTyped => RouterTypeOK
  <2> SUFFICES ASSUME RouterTyped PROVE RouterTypeOK
    OBVIOUS
  <2>1. ASSUME NEW p \in Providers, NEW i \in DOMAIN cooling[p]
        PROVE  Cools(PoolKeys[p], cooling[p][i])
    <3>1. cooling[p] \in Seq(ProviderKeys(p))
      BY DEF RouterTyped, PoolsOK
    <3>2. cooling[p][i] \in ProviderKeys(p)
      BY <3>1, LenProperties, ElementOfSeq
    <3> QED BY <3>2 DEF ProviderKeys, Cools
  <2> QED BY <2>1 DEF RouterTyped, Progress, PoolsOK, RouterTypeOK
<1> QED BY <1>1, <1>2, RouterStarts, PTL

(* The variables of the router keep their types for all chains, key pools,  *)
(* limits and strategies: a request is at a target of its chain, the next   *)
(* key is one of the pool, and only keys of a provider cool down there.     *)
THEOREM RouterTypeCorrect == RouterSpec => []RouterTypeOK
  BY RouterStaysTyped, PTL DEF RouterSpec
================================================================================
