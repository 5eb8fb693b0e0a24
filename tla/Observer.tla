-------------------------------- MODULE Observer --------------------------------
(***************************************************************************)
(* ObservationalMemoryMiddleware (packages/middleware/src/observational/   *)
(* middleware.ts), observer and reflector enabled: every few turns the     *)
(* buffered turns are handed to an extractor in the background, and the    *)
(* observations, now and then, to a reflector.  One instance serves one    *)
(* session, whose hooks are called one at a time.                          *)
(*                                                                         *)
(* Turns are numbered; of observations and reflections only the number is  *)
(* kept.  An extractor or reflector that fails or is too late is taken for *)
(* one that found nothing (safeNexusCall).                                 *)
(***************************************************************************)
EXTENDS Naturals, FiniteSets

CONSTANTS
  ObserveEvery,     \* observerInterval
  ReflectEvery,     \* reflectorInterval
  MaxObserverCalls, \* maxObserverCalls
  MaxObservations,  \* maxObservations
  MaxLoaded,        \* maxLoadedObservations and maxLoadedReflections
  MaxObservedTurns, \* bound on the turns
  MaxFound          \* bound on what one extraction or reflection finds

(* validateObservationalConfig: the intervals are at least 1.               *)
ASSUME ObserverAssumption ==
  /\ ObserveEvery \in Nat \ {0} /\ ReflectEvery \in Nat \ {0}
  /\ MaxObserverCalls \in Nat /\ MaxObservations \in Nat /\ MaxLoaded \in Nat
  /\ MaxObservedTurns \in Nat /\ MaxFound \in Nat

VARIABLES
  observerHook,         \* where the session is; "observing", "reflecting" at its end
  observerTurnCount,
  observerTurnBuffer,   \* turns buffered
  observerCallCount,
  observations,         \* number of observations kept
  reflections,          \* number of reflections kept
  extractions,          \* calls of extractAndStoreObservations under way
  reflecting,           \* calls of synthesizeAndStoreReflections in the background
  extracted,            \* history: turns of extractions that have succeeded
  unextracted,          \* history: turns of extractions that failed or were too late
  observerOverlapped    \* history: turns buffered while an extraction was under way

observerVars == <<observerHook, observerTurnCount, observerTurnBuffer, observerCallCount,
                  observations, reflections, extractions, reflecting, extracted,
                  unextracted, observerOverlapped>>

ObserverHooks == {"none", "open", "observing", "reflecting", "ended"}
Extraction(turns, reflect, awaited) ==
  [turns |-> turns, reflect |-> reflect, awaited |-> awaited]
AtMost(n, limit) == IF n > limit THEN limit ELSE n

ObserverInit ==
  /\ observerHook = "none"
  /\ observerTurnCount = 0 /\ observerTurnBuffer = {} /\ observerCallCount = 0
  /\ observations = 0 /\ reflections = 0
  /\ extractions = {} /\ reflecting = 0
  /\ extracted = {} /\ unextracted = {} /\ observerOverlapped = {}

-----------------------------------------------------------------------------
(* What a query finds of the past: nothing when it fails or is too late.    *)
PastLoaded == 0..MaxLoaded

(* onSessionStart: past observations and reflections are loaded.            *)
ObserverSessionStart ==
  /\ observerHook = "none"
  /\ observerHook' = "open"
  /\ observations' \in PastLoaded /\ reflections' \in PastLoaded
  /\ UNCHANGED <<observerTurnCount, observerTurnBuffer, observerCallCount, extractions,
                 reflecting, extracted, unextracted, observerOverlapped>>

(* onAfterTurn.  A reflection that is due waits for the extraction of the   *)
(* same turn; without one it starts at once, if there is anything to        *)
(* reflect on.                                                              *)
ObserverAfterTurn ==
  LET turn    == observerTurnCount + 1
      observe == turn % ObserveEvery = 0 /\ observerCallCount < MaxObserverCalls
      reflect == turn % ReflectEvery = 0
  IN
  /\ observerHook = "open" /\ observerTurnCount < MaxObservedTurns
  /\ observerTurnCount' = turn
  /\ observerTurnBuffer' = observerTurnBuffer \union {turn}
  /\ observerOverlapped' = IF extractions = {} THEN observerOverlapped
                           ELSE observerOverlapped \union {turn}
  /\ \/ /\ observe
        /\ observerCallCount' = observerCallCount + 1
        /\ extractions' =
             extractions \union {Extraction(observerTurnBuffer', reflect, FALSE)}
        /\ UNCHANGED reflecting
     \/ /\ ~observe
        /\ reflecting' = IF reflect /\ observations > 0 THEN reflecting + 1 ELSE reflecting
        /\ UNCHANGED <<observerCallCount, extractions>>
  /\ UNCHANGED <<observerHook, observations, reflections, extracted, unextracted>>

(* onSessionEnd: the turns still buffered are extracted, whatever the       *)
(* number of calls so far ...                                               *)
ObserverSessionEndLimited ==   \* mutant: maxObserverCalls holds for the last one too
  /\ observerHook = "open"
  /\ \/ /\ observerTurnBuffer # {} /\ observerCallCount < MaxObserverCalls
        /\ observerHook' = "observing"
        /\ extractions' = extractions \union {Extraction(observerTurnBuffer, FALSE, TRUE)}
     \/ /\ observerTurnBuffer = {} \/ observerCallCount >= MaxObserverCalls
        /\ observerHook' = IF observations > 0 THEN "reflecting" ELSE "ended"
        /\ UNCHANGED extractions
  /\ UNCHANGED <<observerTurnCount, observerTurnBuffer, observerCallCount, observations,
                 reflections, reflecting, extracted, unextracted, observerOverlapped>>

ObserverSessionEnd ==
  /\ observerHook = "open"
  /\ \/ /\ observerTurnBuffer # {}
        /\ observerHook' = "observing"
        /\ extractions' = extractions \union {Extraction(observerTurnBuffer, FALSE, TRUE)}
     \/ /\ observerTurnBuffer = {}
        /\ observerHook' = IF observations > 0 THEN "reflecting" ELSE "ended"
        /\ UNCHANGED extractions
  /\ UNCHANGED <<observerTurnCount, observerTurnBuffer, observerCallCount, observations,
                 reflections, reflecting, extracted, unextracted, observerOverlapped>>

(* ... and reflected on.                                                    *)
LastReflection(found) ==
  /\ observerHook = "reflecting"
  /\ observerHook' = "ended"
  /\ reflections' = IF found = 0 THEN reflections
                    ELSE AtMost(reflections + found, 2 * MaxLoaded)
  /\ UNCHANGED <<observerTurnCount, observerTurnBuffer, observerCallCount, observations,
                 extractions, reflecting, extracted, unextracted, observerOverlapped>>

(* An extraction x ends with so many observations, which are stored in the  *)
(* background.  With or without any, the whole buffer is emptied, with what *)
(* came after x began.                                                      *)
ExtractionOverKeepsBuffer(x, found) ==   \* mutant: with observations it is not emptied
  /\ observations' = IF found = 0 THEN observations
                     ELSE AtMost(observations + found, MaxObservations)
  /\ observerTurnBuffer' = IF found = 0 THEN {} ELSE observerTurnBuffer
  /\ extractions' = extractions \ {x}
  /\ reflecting' = IF x.reflect /\ observations' > 0 THEN reflecting + 1 ELSE reflecting
  /\ observerHook' = IF ~x.awaited THEN observerHook
                     ELSE IF observations' > 0 THEN "reflecting" ELSE "ended"
  /\ UNCHANGED <<observerTurnCount, observerCallCount, reflections, observerOverlapped>>

ExtractionOver(x, found) ==
  /\ observations' = IF found = 0 THEN observations
                     ELSE AtMost(observations + found, MaxObservations)
  /\ observerTurnBuffer' = {}
  /\ extractions' = extractions \ {x}
  /\ reflecting' = IF x.reflect /\ observations' > 0 THEN reflecting + 1 ELSE reflecting
  /\ observerHook' = IF ~x.awaited THEN observerHook
                     ELSE IF observations' > 0 THEN "reflecting" ELSE "ended"
  /\ UNCHANGED <<observerTurnCount, observerCallCount, reflections, observerOverlapped>>

(* The extractor answers.                                                   *)
ObservationsExtracted(x, found) ==
  /\ x \in extractions
  /\ ExtractionOver(x, found)
  /\ extracted' = extracted \union x.turns
  /\ UNCHANGED unextracted

(* It throws or is too late: the empty fallback looks like an answer.       *)
ExtractionFails(x) ==
  /\ x \in extractions
  /\ ExtractionOver(x, 0)
  /\ unextracted' = unextracted \union x.turns
  /\ UNCHANGED extracted

(* A reflection in the background ends.                                     *)
Reflected(found) ==
  /\ reflecting > 0
  /\ reflecting' = reflecting - 1
  /\ reflections' = IF found = 0 THEN reflections
                    ELSE AtMost(reflections + found, 2 * MaxLoaded)
  /\ UNCHANGED <<observerHook, observerTurnCount, observerTurnBuffer, observerCallCount,
                 observations, extractions, extracted, unextracted, observerOverlapped>>

ObserverNext ==
  \/ ObserverSessionStart \/ ObserverAfterTurn \/ ObserverSessionEnd
  \/ \E found \in 0..MaxFound :
       \/ LastReflection(found) \/ Reflected(found)
       \/ \E x \in extractions : ObservationsExtracted(x, found)
  \/ \E x \in extractions : ExtractionFails(x)

ObserverSpec == ObserverInit /\ [][ObserverNext]_observerVars

-----------------------------------------------------------------------------
(* The variables keep their types, and no more reflections run in the       *)
(* background than turns have ended.                                        *)
ObserverTypeOK ==
  /\ observerHook \in ObserverHooks /\ observerTurnCount \in 0..MaxObservedTurns
  /\ UNION {observerTurnBuffer, extracted, unextracted, observerOverlapped}
       \subseteq 1..observerTurnCount
  /\ observerCallCount \in 0..MaxObserverCalls
  /\ observations \in Nat /\ reflections \in Nat /\ reflecting \in 0..observerTurnCount
  /\ \A x \in extractions : x.turns \subseteq 1..observerTurnCount

(* When the session is over every turn has been extracted, save those whose *)
(* extraction failed and those that came while one was under way: nothing   *)
(* else empties the buffer, and nothing but a success counts.  A turn that  *)
(* has been extracted never goes back into the buffer, so that it is handed *)
(* over again only by an extraction that overlapped.                        *)
TurnsAreObserved ==
  /\ observerHook \in {"reflecting", "ended"} =>
       1..observerTurnCount \subseteq extracted \union unextracted \union observerOverlapped
  /\ observerTurnBuffer \intersect extracted = {}
================================================================================
