------------------------------- MODULE Heartbeat -------------------------------
(***************************************************************************)
(* HeartbeatMiddleware (packages/heartbeat/src/middleware.ts) with the     *)
(* pipeline of evaluators (pipeline.ts) and the ring of results            *)
(* (ring-buffer.ts).                                                       *)
(*                                                                         *)
(* A tick awaits its pipeline; start() and stop(), by the user or by a     *)
(* session, come at any time, and more than one tick can be under way.     *)
(***************************************************************************)
EXTENDS Naturals, Sequences, FiniteSets

CONSTANTS
  Evaluators,       \* the criticality of each, in their order
  Capacity,         \* diagnosticsBufferSize
  MaxTicks,         \* bound on the ticks
  MaxTimers         \* bound on the timers that are set at a time

ASSUME EvaluatorsAssumption ==
  Evaluators \in Seq({"required", "recommended", "optional"})
ASSUME BeatAssumption == Capacity \in Nat \ {0} /\ MaxTicks \in Nat /\ MaxTimers \in Nat

VARIABLES
  running,
  timerId,          \* the timer _timerId names, or NoTimer
  timers,           \* timers that are set
  tickNumber,
  ticks,            \* numbers of the ticks under way
  tickInProgress,   \* the flag
  stopResolve,      \* a stop() waits to be resolved by a tick
  ring, head, size  \* health of the last ticks

diagnostics   == <<ring, head, size>>
heartbeatVars == <<running, timerId, timers, tickNumber, ticks, tickInProgress, stopResolve,
                   diagnostics>>

NoTimer   == 0
Timers == 1..MaxTimers
Health == {"healthy", "degraded", "critical"}

BeatInit ==
  /\ running = FALSE /\ timerId = NoTimer /\ timers = {}
  /\ tickNumber = 0 /\ ticks = {} /\ tickInProgress = FALSE /\ stopResolve = FALSE
  /\ ring = [i \in 0..(Capacity - 1) |-> "healthy"] /\ head = 0 /\ size = 0

-----------------------------------------------------------------------------
(* scheduleNextTick.                                                        *)
Schedule ==
  \E t \in Timers \ timers :
    /\ \A u \in Timers \ timers : t <= u
    /\ timers' = timers \union {t} /\ timerId' = t

(* start(), onSessionStart.                                                 *)
Start ==
  /\ ~running
  /\ running' = TRUE
  /\ Schedule
  /\ UNCHANGED <<tickNumber, ticks, tickInProgress, stopResolve, diagnostics>>

(* stop(), onSessionEnd.  One that waits takes the place of another.        *)
Stop ==
  /\ running
  /\ running' = FALSE
  /\ timers' = timers \ {timerId} /\ timerId' = NoTimer
  /\ stopResolve' = (stopResolve \/ tickInProgress)
  /\ UNCHANGED <<tickNumber, ticks, tickInProgress, diagnostics>>

(* A timer fires.  Its id stays in _timerId, where clearing it would do      *)
(* nothing: NoTimer stands for it.                                          *)
Fire(t) ==
  /\ t \in timers
  /\ timers' = timers \ {t}
  /\ timerId' = IF timerId = t THEN NoTimer ELSE timerId
  /\ \/ ~running /\ UNCHANGED <<tickNumber, ticks, tickInProgress>>
     \/ /\ running /\ tickNumber < MaxTicks
        /\ tickNumber' = tickNumber + 1
        /\ ticks' = ticks \union {tickNumber'}
        /\ tickInProgress' = TRUE
  /\ UNCHANGED <<running, stopResolve, diagnostics>>

-----------------------------------------------------------------------------
(* The pipeline, from what each evaluator comes to: it passes, fails (an    *)
(* error or a timeout included) or passes with an early exit.               *)
Outcomes == [DOMAIN Evaluators -> {"passed", "failed", "exit"}]

LastRun(outcomes) ==
  LET stops == {i \in DOMAIN Evaluators :
                  \/ outcomes[i] = "exit"
                  \/ outcomes[i] = "failed" /\ Evaluators[i] = "required"}
  IN  IF stops = {} THEN Len(Evaluators) ELSE CHOOSE i \in stops : \A j \in stops : i <= j

HealthAfter(outcomes) ==
  LET failed == {Evaluators[i] : i \in {j \in 1..LastRun(outcomes) : outcomes[j] = "failed"}}
  IN  IF "required" \in failed THEN "critical"
      ELSE IF "recommended" \in failed THEN "degraded" ELSE "healthy"

PushUnwrapped(health) ==   \* mutant: the head does not come round
  /\ ring' = [ring EXCEPT ![head] = health]
  /\ head' = head + 1
  /\ size' = IF size < Capacity THEN size + 1 ELSE size

Push(health) ==
  /\ ring' = [ring EXCEPT ![head] = health]
  /\ head' = (head + 1) % Capacity
  /\ size' = IF size < Capacity THEN size + 1 ELSE size

(* toArray, the oldest first.                                               *)
Diagnostics ==
  [i \in 1..size |-> ring[((IF size < Capacity THEN 0 ELSE head) + i - 1) % Capacity]]

(* status().health                                                          *)
health == IF size = 0 THEN "healthy" ELSE Diagnostics[size]

TickEndsUncaught(n) ==   \* mutant: a pipeline that fails ends the tick
  /\ n \in ticks
  /\ ticks' = ticks \ {n}
  /\ \/ /\ UNCHANGED <<running, timerId, timers, tickNumber, tickInProgress, stopResolve,
                       diagnostics>>
     \/ /\ \E outcomes \in Outcomes : Push(HealthAfter(outcomes))
        /\ tickInProgress' = FALSE
        /\ \/ ~running /\ stopResolve' = FALSE /\ UNCHANGED <<timers, timerId>>
           \/ running /\ Schedule /\ UNCHANGED stopResolve
        /\ UNCHANGED <<running, tickNumber>>

(* The tick ends, with a result or with a failure of the pipeline or of the *)
(* callback onTick: a stop() that waits is resolved if nobody has started   *)
(* the heartbeat again; else the next tick is scheduled.                    *)
TickEnds(n) ==
  /\ n \in ticks
  /\ ticks' = ticks \ {n}
  /\ \/ \E outcomes \in Outcomes : Push(HealthAfter(outcomes))
     \/ UNCHANGED diagnostics
  /\ tickInProgress' = FALSE
  /\ \/ ~running /\ stopResolve' = FALSE /\ UNCHANGED <<timers, timerId>>
     \/ running /\ Schedule /\ UNCHANGED stopResolve
  /\ UNCHANGED <<running, tickNumber>>

BeatNext ==
  \/ Start \/ Stop
  \/ \E t \in Timers : Fire(t)
  \/ \E n \in 1..MaxTicks : TickEnds(n)

BeatSpec == BeatInit /\ [][BeatNext]_heartbeatVars

-----------------------------------------------------------------------------
(* The variables keep their types.                                          *)
BeatTypeOK ==
  /\ running \in BOOLEAN /\ tickInProgress \in BOOLEAN /\ stopResolve \in BOOLEAN
  /\ timers \subseteq Timers /\ timerId \in timers \union {NoTimer}
  /\ tickNumber \in 0..MaxTicks /\ ticks \subseteq 1..tickNumber
  /\ ring \in [0..(Capacity - 1) -> Health]
  /\ head \in 0..(Capacity - 1) /\ size \in 0..Capacity
  /\ health \in Health

(* Stops, starts and failures in the midst of ticks: a heartbeat that runs  *)
(* has a tick to come or under way.                                         *)
NeverDies == running => timers # {} \/ ticks # {}
================================================================================
