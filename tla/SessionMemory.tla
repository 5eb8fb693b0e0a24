----------------------------- MODULE SessionMemory -----------------------------
(***************************************************************************)
(* NexusMemoryMiddleware (packages/middleware/src/memory/middleware.ts):   *)
(* turns are buffered, every few turns facts are extracted from them and   *)
(* stored in a batch; what a store did not take stays for the next one.    *)
(* Hooks are called one at a time, so isExtracting never refuses one.      *)
(*                                                                         *)
(* A fact is known by the hash of its content, and a collision takes one   *)
(* fact for another; deduplication is on, as by default.                   *)
(***************************************************************************)
EXTENDS Naturals, Sequences, FiniteSets, Functions

CONSTANTS
  Facts,
  HashOf,           \* contentHash of each fact
  MaxPending,       \* autoSave.maxPendingMemories
  SaveEvery,        \* autoSaveInterval
  MaxExtracted      \* bound on the facts of one extraction

(* validateMemoryConfig: the interval and the limit are at least 1.         *)
ASSUME MemoryAssumption ==
  /\ MaxPending \in Nat \ {0} /\ SaveEvery \in Nat \ {0} /\ MaxExtracted \in Nat

VARIABLES
  memoryHook,       \* what the session's hook awaits: "none" is no session
  memoryEnding,     \* that hook is onSessionEnd
  memoryTurns,      \* turnCount, modulo SaveEvery
  memoryTurnBuffer, \* number of turns buffered
  pendingMemories,  \* facts to be stored, oldest first
  seenHashes,       \* seenContentHashes
  storedHashes,     \* hashes of the facts a store has acknowledged (external)
  pushedOut         \* history: hashes of the facts cut off at the limit

memoryVars == <<memoryHook, memoryEnding, memoryTurns, memoryTurnBuffer, pendingMemories, seenHashes,
                storedHashes, pushedOut>>

MemoryHooks  == {"none", "open", "extracting", "storing", "distilling"}
Hashes == {HashOf[f] : f \in Facts}
HashesOf(s) == {HashOf[f] : f \in Range(s)}

MemoryInit ==
  /\ memoryHook = "none" /\ memoryEnding = FALSE
  /\ memoryTurns = 0 /\ memoryTurnBuffer = 0
  /\ pendingMemories = <<>> /\ seenHashes = {}
  /\ storedHashes = {} /\ pushedOut = {}

-----------------------------------------------------------------------------
(* onSessionStart, whether or not the memories it asks for arrive in time.  *)
MemorySessionStart ==
  /\ memoryHook = "none"
  /\ memoryHook' = "open" /\ memoryEnding' = FALSE
  /\ memoryTurns' = 0 /\ memoryTurnBuffer' = 0
  /\ pendingMemories' = <<>> /\ seenHashes' = {}
  /\ storedHashes' = {} /\ pushedOut' = {}

(* onAfterTurn: the buffer is handed to the extractor every SaveEvery turns.*)
MemoryAfterTurn ==
  /\ memoryHook = "open"
  /\ memoryTurns' = (memoryTurns + 1) % SaveEvery
  /\ \/ memoryTurns' # 0 /\ memoryTurnBuffer' = memoryTurnBuffer + 1 /\ UNCHANGED memoryHook
     \/ memoryTurns' = 0 /\ memoryTurnBuffer' = 0 /\ memoryHook' = "extracting"
  /\ UNCHANGED <<memoryEnding, pendingMemories, seenHashes, storedHashes, pushedOut>>

(* onSessionEnd: what is buffered is extracted, what is pending is stored,  *)
(* and a summary is stored whether or not that works.                       *)
MemorySessionEnd ==
  /\ memoryHook = "open"
  /\ memoryEnding' = TRUE
  /\ \/ memoryTurnBuffer > 0 /\ memoryHook' = "extracting"
     \/ memoryTurnBuffer = 0 /\ pendingMemories # <<>> /\ memoryHook' = "storing"
     \/ memoryTurnBuffer = 0 /\ pendingMemories = <<>> /\ memoryHook' = "distilling"
  /\ memoryTurnBuffer' = 0
  /\ UNCHANGED <<memoryTurns, pendingMemories, seenHashes, storedHashes, pushedOut>>

TakenAgainstPending(s, f) ==   \* mutant: only against what is pending
  IF HashOf[f] \in HashesOf(pendingMemories \o s.new) THEN s
  ELSE [seen |-> s.seen \union {HashOf[f]}, new |-> Append(s.new, f)]

(* deduplicateFacts: a fact whose hash was seen is skipped.                 *)
Taken(s, f) ==
  IF HashOf[f] \in s.seen THEN s
  ELSE [seen |-> s.seen \union {HashOf[f]}, new |-> Append(s.new, f)]

Deduplicated(facts) ==
  LET after[i \in 0..Len(facts)] ==
        IF i = 0 THEN [seen |-> seenHashes, new |-> <<>>]
        ELSE Taken(after[i - 1], facts[i])
  IN after[Len(facts)]

(* Once the buffer is empty the hook goes on to store, to the summary, or   *)
(* ends.                                                                    *)
AfterExtraction(pending) ==
  memoryHook' = IF pending # <<>> THEN "storing" ELSE IF memoryEnding THEN "distilling" ELSE "open"

(* The extractor answers with facts, or with none (safeNexusCall gave it up *)
(* and the turns are lost): the new ones are appended and the newest kept.  *)
Extracted(facts) ==
  LET s == Deduplicated(facts)
      combined == pendingMemories \o s.new
      cut == IF Len(combined) > MaxPending THEN Len(combined) - MaxPending ELSE 0
  IN
  /\ memoryHook = "extracting"
  /\ seenHashes' = s.seen
  /\ pendingMemories' = SubSeq(combined, cut + 1, Len(combined))
  /\ pushedOut' = pushedOut \union HashesOf(SubSeq(combined, 1, cut))
  /\ AfterExtraction(pendingMemories')
  /\ UNCHANGED <<memoryEnding, memoryTurns, memoryTurnBuffer, storedHashes>>

(* flushPendingMemories: on an error everything is kept for the next flush, *)
(* also when the store had taken it.  Nothing bounds the wait for the store.*)
StoreAnswers ==
  /\ memoryHook = "storing"
  /\ memoryHook' = IF memoryEnding THEN "distilling" ELSE "open"
  /\ \/ /\ storedHashes' = storedHashes \union HashesOf(pendingMemories)
        /\ pendingMemories' = <<>>
     \/ UNCHANGED <<storedHashes, pendingMemories>>
  /\ UNCHANGED <<memoryEnding, memoryTurns, memoryTurnBuffer, seenHashes, pushedOut>>

(* The summary is stored or given up.                                       *)
Distilled ==
  /\ memoryHook = "distilling"
  /\ memoryHook' = "none"
  /\ UNCHANGED <<memoryEnding, memoryTurns, memoryTurnBuffer, pendingMemories, seenHashes, storedHashes, pushedOut>>

ExtractedFacts == UNION {[1..n -> Facts] : n \in 0..MaxExtracted}

MemoryNext ==
  \/ MemorySessionStart \/ MemoryAfterTurn \/ MemorySessionEnd
  \/ \E facts \in ExtractedFacts : Extracted(facts)
  \/ StoreAnswers \/ Distilled

MemorySpec == MemoryInit /\ [][MemoryNext]_memoryVars

-----------------------------------------------------------------------------
(* The variables keep their types.                                          *)
MemoryTypeOK ==
  /\ memoryHook \in MemoryHooks /\ memoryEnding \in BOOLEAN
  /\ memoryTurns \in 0..(SaveEvery - 1) /\ memoryTurnBuffer \in 0..(SaveEvery - 1)
  /\ Range(pendingMemories) \subseteq Facts
  /\ UNION {seenHashes, storedHashes, pushedOut} \subseteq Hashes

(* Pending memories, retries, the limit and deduplication together are an   *)
(* outbox: a fact is taken in once, waits, and is acknowledged by the store *)
(* or pushed out at the limit; it never comes back from either.             *)
Promised == INSTANCE Outbox WITH
  Items <- Hashes, Limit <- MaxPending,
  waiting <- HashesOf(pendingMemories), delivered <- storedHashes

MemoryIsAnOutbox == Promised!Spec
================================================================================
