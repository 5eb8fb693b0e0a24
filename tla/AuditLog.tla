-------------------------------- MODULE AuditLog --------------------------------
(***************************************************************************)
(* NexusAuditMiddleware (packages/middleware/src/audit/middleware.ts): a   *)
(* critical event is written at once, any other goes to a buffer that is   *)
(* written every few turns, at the end of the session, and in the          *)
(* background when it is full.  Hooks are called one at a time; a write    *)
(* they do not await goes on while later hooks run.                        *)
(*                                                                         *)
(* Events are numbered as they are emitted.  A write succeeds, or fails    *)
(* for the middleware (an error or the timeout of safeCall), and then the  *)
(* event log may have it all the same.                                     *)
(***************************************************************************)
EXTENDS Lists, Functions

CONSTANTS
  MaxBuffer,        \* maxBufferSize
  FlushEvery,       \* flushIntervalTurns
  MaxEvents         \* bound on the events emitted

(* validateAuditConfig: the buffer and the interval are at least 1.         *)
ASSUME AuditAssumption ==
  /\ MaxBuffer \in Nat \ {0} /\ FlushEvery \in Nat \ {0} /\ MaxEvents \in Nat

VARIABLES
  auditHook,        \* what the session's hook awaits: "none" is no session
  auditTurns,       \* turnCount, modulo FlushEvery
  auditBuffer,      \* events to be written, oldest first
  writes,           \* calls of eventLog under way
  log,              \* events the event log has (external)
  emitted,          \* number of events so far
  first,            \* the last event of the sessions before this one
  critical,         \* events of a critical type
  overflowed,       \* history: events dropped from a full buffer
  auditOverlapped   \* history: events buffered while a batch was under way

auditVars == <<auditHook, auditTurns, auditBuffer, writes, log, emitted, first, critical,
               overflowed, auditOverlapped>>

AuditHooks == {"none", "starting", "open", "flushing", "last flush", "ending"}
Batch(events, awaited) == [kind |-> "batch", events |-> events, awaited |-> awaited]
Sync(event, awaited)   == [kind |-> "sync", events |-> {event}, awaited |-> awaited]
Single(events)         == CHOOSE e \in events : TRUE
BatchIn(ws) == \E w \in ws : w.kind = "batch"

AuditInit ==
  /\ auditHook = "none" /\ auditTurns = 0
  /\ auditBuffer = <<>> /\ writes = {} /\ log = {}
  /\ emitted = 0 /\ first = 0 /\ critical = {}
  /\ overflowed = {} /\ auditOverlapped = {}

-----------------------------------------------------------------------------
(* dropOldestNonCritical: where the event to drop stands in the buffer.     *)
Victim(buf) ==
  LET routine == {i \in DOMAIN buf : buf[i] \notin critical}
  IN IF routine = {} THEN 1 ELSE CHOOSE i \in routine : \A j \in routine : i <= j

(* addToBuffer, on the state s of buffer, writes and histories: a full      *)
(* buffer is flushed in the background, which cannot make room at once, and *)
(* loses an event.                                                          *)
AddToBuffer(s, event) ==
  LET full == Len(s.buffer) >= MaxBuffer
      ws   == IF full THEN s.writes \union {Batch(Range(s.buffer), FALSE)} ELSE s.writes
      kept == IF full THEN RemoveAt(s.buffer, Victim(s.buffer)) ELSE s.buffer
  IN [buffer     |-> Append(kept, event),
      writes     |-> ws,
      overflowed |-> s.overflowed \union (Range(s.buffer) \ Range(kept)),
      overlapped |-> s.overlapped \union {e \in {event} : BatchIn(ws)}]

(* n calls of it in a row.                                                  *)
Adding(s, n) ==
  LET after[i \in 0..n] == IF i = 0 THEN s ELSE AddToBuffer(after[i - 1], emitted + i)
  IN after[n]

(* onSessionStart: resetState, and the event of the start is awaited.       *)
AuditSessionStart ==
  /\ auditHook = "none" /\ emitted < MaxEvents
  /\ auditHook' = "starting"
  /\ auditTurns' = 0 /\ auditBuffer' = <<>> /\ first' = emitted
  /\ emitted' = emitted + 1 /\ critical' = critical \union {emitted + 1}
  /\ writes' = writes \union {Sync(emitted + 1, TRUE)}
  /\ UNCHANGED <<log, overflowed, auditOverlapped>>

(* onAfterTurn with so many routine and critical events (budget warning,    *)
(* error); every FlushEvery turns it awaits flushBuffer.                    *)
AuditAfterTurn(routine, urgent) ==
  LET s     == Adding([buffer |-> auditBuffer, writes |-> writes,
                       overflowed |-> overflowed, overlapped |-> auditOverlapped], routine)
      new   == (emitted + routine + 1)..(emitted + routine + urgent)
      flush == (auditTurns + 1) % FlushEvery = 0 /\ s.buffer # <<>>
  IN
  /\ auditHook = "open" /\ emitted + routine + urgent <= MaxEvents
  /\ emitted' = emitted + routine + urgent
  /\ critical' = critical \union new
  /\ auditTurns' = (auditTurns + 1) % FlushEvery
  /\ auditBuffer' = s.buffer /\ overflowed' = s.overflowed /\ auditOverlapped' = s.overlapped
  /\ writes' = s.writes \union {Sync(e, FALSE) : e \in new}
                        \union (IF flush THEN {Batch(Range(s.buffer), TRUE)} ELSE {})
  /\ auditHook' = IF flush THEN "flushing" ELSE auditHook
  /\ UNCHANGED <<log, first>>

(* onSessionEnd: what is buffered is flushed once more, then the event of   *)
(* the end is written.                                                      *)
AuditSessionEnd ==
  /\ auditHook = "open"
  /\ \/ /\ auditBuffer # <<>>
        /\ auditHook' = "last flush"
        /\ writes' = writes \union {Batch(Range(auditBuffer), TRUE)}
        /\ UNCHANGED <<emitted, critical>>
     \/ /\ auditBuffer = <<>> /\ emitted < MaxEvents
        /\ auditHook' = "ending"
        /\ emitted' = emitted + 1 /\ critical' = critical \union {emitted + 1}
        /\ writes' = writes \union {Sync(emitted + 1, TRUE)}
  /\ UNCHANGED <<auditTurns, auditBuffer, log, first, overflowed, auditOverlapped>>

(* What follows the end of write w, which left the buffer at buf: nothing   *)
(* if no hook awaits it, else the rest of the hook.                         *)
AfterWrite(w, buf) ==
  \/ /\ ~w.awaited \/ auditHook \in {"starting", "flushing"}
     /\ auditHook' = IF w.awaited THEN "open" ELSE auditHook
     /\ writes' = writes \ {w} /\ auditBuffer' = buf
     /\ UNCHANGED <<auditTurns, emitted, critical, first>>
  \/ /\ w.awaited /\ auditHook = "last flush" /\ emitted < MaxEvents
     /\ auditHook' = "ending" /\ auditBuffer' = buf
     /\ emitted' = emitted + 1 /\ critical' = critical \union {emitted + 1}
     /\ writes' = (writes \ {w}) \union {Sync(emitted + 1, TRUE)}
     /\ UNCHANGED <<auditTurns, first>>
  \/ /\ w.awaited /\ auditHook = "ending"
     /\ auditHook' = "none" /\ auditTurns' = 0
     /\ writes' = writes \ {w} /\ auditBuffer' = <<>>
     /\ first' = emitted
     /\ UNCHANGED <<emitted, critical>>

(* A write succeeds; flushBuffer then empties the buffer, also of what it   *)
(* did not write.                                                           *)
WriteEnds(w) ==
  /\ w \in writes
  /\ log' = log \union w.events
  /\ AfterWrite(w, IF w.kind = "batch" THEN <<>> ELSE auditBuffer)
  /\ UNCHANGED <<overflowed, auditOverlapped>>

(* A write fails or takes too long: flushSync falls back to the buffer,     *)
(* whose size it does not look at; flushBuffer leaves the buffer alone.     *)
WriteFailedClearsBuffer(w) ==   \* mutant: the buffer is emptied in any case
  /\ w \in writes
  /\ log' \in {log, log \union w.events}
  /\ AfterWrite(w, IF w.kind = "sync" THEN Append(auditBuffer, Single(w.events)) ELSE <<>>)
  /\ auditOverlapped' = auditOverlapped \union
       (IF w.kind = "sync" /\ BatchIn(writes) THEN w.events ELSE {})
  /\ UNCHANGED overflowed

WriteFailed(w) ==
  /\ w \in writes
  /\ log' \in {log, log \union w.events}
  /\ AfterWrite(w, IF w.kind = "sync" THEN Append(auditBuffer, Single(w.events)) ELSE auditBuffer)
  /\ auditOverlapped' = auditOverlapped \union
       (IF w.kind = "sync" /\ BatchIn(writes) THEN w.events ELSE {})
  /\ UNCHANGED overflowed

(* How many events of the model call, the tools and the messages a turn may *)
(* emit here, and how many of the budget and of errors.                     *)
Routine == 0..2
Urgent  == 0..1

AuditNext ==
  \/ AuditSessionStart \/ AuditSessionEnd
  \/ \E routine \in Routine, urgent \in Urgent : AuditAfterTurn(routine, urgent)
  \/ \E w \in writes : WriteEnds(w) \/ WriteFailed(w)

AuditSpec == AuditInit /\ [][AuditNext]_auditVars

-----------------------------------------------------------------------------
(* The variables keep their types.                                          *)
AuditTypeOK ==
  /\ auditHook \in AuditHooks /\ auditTurns \in 0..(FlushEvery - 1)
  /\ emitted \in 0..MaxEvents /\ first \in 0..emitted
  /\ Range(auditBuffer) \subseteq 1..emitted
  /\ \A w \in writes : w.kind \in {"batch", "sync"} /\ w.events \subseteq 1..emitted
  /\ UNION {log, critical, overflowed, auditOverlapped} \subseteq 1..emitted

(* While its session lasts an event is in the buffer, in a write of its own *)
(* or in the log, except for those dropped from a full buffer and those     *)
(* that came while a batch was under way: failed and late writes, flushes   *)
(* that overlap and their order lose nothing else.                          *)
EventsAreKept ==
  \A e \in (first + 1)..emitted :
    \/ e \in log \union Range(auditBuffer) \union overflowed \union auditOverlapped
    \/ \E w \in writes : w.kind = "sync" /\ e \in w.events
================================================================================
