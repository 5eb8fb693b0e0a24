--------------------------- MODULE Middleware_proofs ---------------------------
(***************************************************************************)
(* Proofs about the middleware that keeps what an agent does: the audit    *)
(* log and the observer lose nothing but what came while they were at work *)
(* and what an extraction failed to take in, and the pending memories are  *)
(* an outbox; about the guard of direct messages, whose list of codes      *)
(* stays true to its map of them; and about the miner, which finds the     *)
(* frequent patterns.  All hold for any limits, intervals and numbers of   *)
(* events, turns, facts, codes, peers and sessions.                        *)
(***************************************************************************)
EXTENDS AuditLog, Observer, SessionMemory, PairingGuard, PatternMining, Lists_proofs

(* The audit log.                                                           *)

(* What addToBuffer works on, as one record.                                *)
audit == [buffer |-> auditBuffer, writes |-> writes,
          overflowed |-> overflowed, overlapped |-> auditOverlapped]

(* The state s is sound after n events, of which the event log has logged   *)
(* some and the current session all but the first old: all that a batch     *)
(* under way would empty the buffer of is in the batch itself, or came      *)
(* while one was under way.                                                 *)
Typed(s, n) ==
  /\ s.buffer \in Seq(1..n)
  /\ s.overflowed \subseteq 1..n /\ s.overlapped \subseteq 1..n
  /\ \A w \in s.writes : /\ w.kind \in {"batch", "sync"}
                         /\ w.events \subseteq 1..n
                         /\ w.kind = "sync" => w.events = {Single(w.events)}
BatchesHold(s) ==
  \A w \in s.writes : w.kind = "batch" => Range(s.buffer) \subseteq w.events \union s.overlapped
Kept(s, logged, e) ==
  \/ e \in logged \union Range(s.buffer) \union s.overflowed \union s.overlapped
  \/ \E w \in s.writes : w.kind = "sync" /\ e \in w.events
Sound(s, logged, old, n) ==
  Typed(s, n) /\ BatchesHold(s) /\ \A e \in (old + 1)..n : Kept(s, logged, e)

AuditInv ==
  /\ auditHook \in AuditHooks /\ auditTurns \in 0..(FlushEvery - 1)
  /\ emitted \in 0..MaxEvents /\ first \in 0..emitted
  /\ log \subseteq 1..emitted /\ critical \subseteq 1..emitted
  /\ Sound(audit, log, first, emitted)

-----------------------------------------------------------------------------
(* The buffer that is full has an entry to drop.                            *)
LEMMA VictimIsThere ==
  ASSUME NEW S, NEW buf \in Seq(S), Len(buf) # 0
  PROVE  Victim(buf) \in 1..Len(buf)
<1> DEFINE routine == {i \in DOMAIN buf : buf[i] \notin critical}
<1>1. DOMAIN buf = 1..Len(buf) /\ Len(buf) \in Nat
  BY LenProperties
<1>2. CASE routine = {}
  BY <1>1, <1>2 DEF Victim
<1>3. CASE routine # {}
  <2>1. \E i \in routine : \A j \in routine : i <= j
    <3>1. routine \subseteq Nat
      BY <1>1
    <3> HIDE DEF routine
    <3> QED BY <1>3, <3>1, LeastIn
  <2>2. Victim(buf) \in routine
    BY <1>3, <2>1 DEF Victim
  <2> QED BY <1>1, <2>2
<1> QED BY <1>2, <1>3

-----------------------------------------------------------------------------
(* addToBuffer keeps a state sound.                                         *)
LEMMA AddToBufferKeeps ==
  ASSUME NEW n \in Nat, first \in Nat, NEW s, Sound(s, log, first, n)
  PROVE  Sound(AddToBuffer(s, n + 1), log, first, n + 1)
<1> DEFINE event == n + 1
           full  == Len(s.buffer) >= MaxBuffer
           ws    == IF full THEN s.writes \union {Batch(Range(s.buffer), FALSE)} ELSE s.writes
           kept  == IF full THEN RemoveAt(s.buffer, Victim(s.buffer)) ELSE s.buffer
           t     == AddToBuffer(s, event)
<1>1. /\ t.buffer = Append(kept, event) /\ t.writes = ws
      /\ t.overflowed = s.overflowed \union (Range(s.buffer) \ Range(kept))
      /\ t.overlapped = s.overlapped \union {e \in {event} : BatchIn(ws)}
  BY DEF AddToBuffer
<1>2. 1..n \subseteq 1..event /\ event \in 1..event /\ s.buffer \in Seq(1..n)
  BY DEF Sound, Typed
<1>3. kept \in Seq(1..n) /\ Range(kept) \subseteq Range(s.buffer) /\ Range(s.buffer) \subseteq 1..n
  <2>1. Len(s.buffer) \in Nat /\ Range(s.buffer) \subseteq 1..n
    BY <1>2, LenProperties, RangeOf
  <2>2. full => Victim(s.buffer) \in 1..Len(s.buffer)
    BY <1>2, <2>1, VictimIsThere, AuditAssumption
  <2> QED BY <1>2, <2>1, <2>2, RemoveAtOf
<1>4. kept \in Seq(1..event) /\ Range(kept) \subseteq 1..n
  BY <1>2, <1>3, SeqMonotonic
<1>5. t.buffer \in Seq(1..event) /\ Range(t.buffer) = Range(kept) \union {event}
  <2> HIDE DEF t, kept, event
  <2> QED BY <1>1, <1>2, <1>4, RangeAppend
<1>6. \A w \in ws : \/ w \in s.writes
                    \/ /\ w.kind = "batch" /\ w.events = Range(s.buffer)
  BY DEF Batch
<1>7. s.writes \subseteq ws
  OBVIOUS
<1> HIDE DEF ws, kept, full, t
<1>8. Typed(t, event)
  <2>1. \A w \in ws : /\ w.kind \in {"batch", "sync"}
                      /\ w.events \subseteq 1..event
                      /\ w.kind = "sync" => w.events = {Single(w.events)}
    BY <1>2, <1>3, <1>6 DEF Sound, Typed
  <2>2. t.overflowed \subseteq 1..event /\ t.overlapped \subseteq 1..event
    BY <1>1, <1>2, <1>3 DEF Sound, Typed
  <2> QED BY <1>1, <1>5, <2>1, <2>2 DEF Typed
<1>9. BatchesHold(t)
  <2>1. ASSUME NEW w \in ws, w.kind = "batch"
        PROVE  Range(t.buffer) \subseteq w.events \union t.overlapped
    <3>1. BatchIn(ws)
      BY <2>1 DEF BatchIn
    <3>2. event \in t.overlapped /\ s.overlapped \subseteq t.overlapped
      BY <1>1, <3>1
    <3>3. Range(s.buffer) \subseteq w.events \union s.overlapped
      BY <1>6, <2>1 DEF Sound, BatchesHold
    <3> QED BY <1>3, <1>5, <3>2, <3>3
  <2> QED BY <1>1, <2>1 DEF BatchesHold
<1>10. ASSUME NEW e \in (first + 1)..event PROVE Kept(t, log, e)
  <2>1. CASE e = event
    BY <1>5, <2>1 DEF Kept
  <2>2. CASE e # event
    <3>1. e \in (first + 1)..n
      BY <2>2
    <3>2. Kept(s, log, e)
      BY <3>1 DEF Sound
    <3> QED BY <1>1, <1>5, <1>7, <3>2 DEF Kept
  <2> QED BY <2>1, <2>2
<1> QED BY <1>8, <1>9, <1>10 DEF Sound, t

(* A number of calls in a row is a function of how many they are ...        *)
LEMMA AddingIsDefined ==
  ASSUME NEW s, NEW n \in Nat, emitted \in Nat
  PROVE  \E after : /\ after = [i \in 0..n |-> IF i = 0 THEN s
                                    ELSE AddToBuffer(after[i - 1], emitted + i)]
<1> DEFINE Follows(f, k) == f = [i \in 0..k |-> IF i = 0 THEN s
                                    ELSE AddToBuffer(f[i - 1], emitted + i)]
           Lengths == {k \in Nat : \E f : Follows(f, k)}
<1>1. 0 \in Lengths
  <2> DEFINE f == [i \in 0..0 |-> s]
  <2>1. Follows(f, 0)
    OBVIOUS
  <2> QED BY <2>1
<1>2. ASSUME NEW k \in Nat, k \in Lengths PROVE k + 1 \in Lengths
  <2>1. PICK f : Follows(f, k)
    BY <1>2
  <2> DEFINE g == [i \in 0..(k + 1) |-> IF i <= k THEN f[i]
                                       ELSE AddToBuffer(f[k], emitted + (k + 1))]
  <2>2. ASSUME NEW i \in 0..(k + 1)
        PROVE  g[i] = IF i = 0 THEN s ELSE AddToBuffer(g[i - 1], emitted + i)
    <3>1. CASE i <= k
      <4>1. g[i] = f[i] /\ (i # 0 => g[i - 1] = f[i - 1])
        BY <3>1
      <4>2. f[i] = IF i = 0 THEN s ELSE AddToBuffer(f[i - 1], emitted + i)
        BY <2>1, <3>1
      <4> QED BY <4>1, <4>2
    <3>2. CASE i = k + 1
      <4>1. g[i] = AddToBuffer(f[k], emitted + i) /\ g[i - 1] = f[k] /\ i # 0
        BY <3>2
      <4> QED BY <4>1
    <3> QED BY <3>1, <3>2
  <2>3. g = [i \in 0..(k + 1) |-> g[i]]
    OBVIOUS
  <2> HIDE DEF g
  <2>4. Follows(g, k + 1)
    BY <2>2, <2>3, Zenon
  <2> QED BY <2>4
<1> HIDE DEF Follows
<1>3. Nat \subseteq Lengths
  <2> HIDE DEF Lengths
  <2> QED BY <1>1, <1>2, InductionInSet
<1> QED BY <1>3 DEF Follows

(* ... and keeps a state sound.                                             *)
LEMMA AddingKeeps ==
  ASSUME emitted \in Nat, first \in Nat, NEW s, Sound(s, log, first, emitted), NEW n \in Nat
  PROVE  Sound(Adding(s, n), log, first, emitted + n)
<1> DEFINE after == CHOOSE f : f = [i \in 0..n |-> IF i = 0 THEN s
                                      ELSE AddToBuffer(f[i - 1], emitted + i)]
           Lengths == {i \in Nat : i <= n => Sound(after[i], log, first, emitted + i)}
<1>1. after = [i \in 0..n |-> IF i = 0 THEN s ELSE AddToBuffer(after[i - 1], emitted + i)]
  BY AddingIsDefined
<1>2. Adding(s, n) = after[n]
  BY DEF Adding
<1> HIDE DEF after
<1>3. 0 \in Lengths
  <2>1. after[0] = s /\ emitted + 0 = emitted
    BY <1>1
  <2> QED BY <2>1
<1>4. ASSUME NEW i \in Nat, i \in Lengths PROVE i + 1 \in Lengths
  <2> SUFFICES ASSUME i + 1 <= n PROVE Sound(after[i + 1], log, first, emitted + (i + 1))
    OBVIOUS
  <2>1. Sound(after[i], log, first, emitted + i)
    BY <1>4
  <2>2. after[i + 1] = AddToBuffer(after[i], emitted + (i + 1))
    <3>1. i + 1 \in 0..n /\ i + 1 # 0 /\ (i + 1) - 1 = i
      OBVIOUS
    <3> QED BY <1>1, <3>1
  <2>3. emitted + i \in Nat /\ (emitted + i) + 1 = emitted + (i + 1)
    OBVIOUS
  <2> QED BY <2>1, <2>2, <2>3, AddToBufferKeeps
<1>5. Nat \subseteq Lengths
  <2> HIDE DEF Lengths
  <2> QED BY <1>3, <1>4, InductionInSet
<1> QED BY <1>2, <1>5

-----------------------------------------------------------------------------
(* What a turn writes at once.                                              *)
LEMMA SyncIs ==
  ASSUME NEW e, NEW awaited
  PROVE  /\ Sync(e, awaited).kind = "sync" /\ Sync(e, awaited).events = {e} /\ Single({e}) = e
<1>1. Single({e}) \in {e}
  BY DEF Single
<1> QED BY <1>1 DEF Sync

(* A state stays sound when writes begin: batches of the whole buffer, and  *)
(* one write of each new event.                                             *)
LEMMA WritesBegin ==
  ASSUME NEW s, NEW logged, NEW old \in Nat, NEW n \in Nat, Sound(s, logged, old, n),
         NEW m \in Nat, n <= m,
         NEW new,
         \A w \in new : /\ w.kind \in {"batch", "sync"}
                        /\ w.events \subseteq 1..m
                        /\ w.kind = "sync" => w.events = {Single(w.events)}
                        /\ w.kind = "batch" => Range(s.buffer) \subseteq w.events,
         \A e \in (n + 1)..m : \E w \in new : w.kind = "sync" /\ e \in w.events,
         NEW t, t.buffer = s.buffer, t.writes = s.writes \union new,
         t.overflowed = s.overflowed, t.overlapped = s.overlapped
  PROVE  Sound(t, logged, old, m)
<1>0. \A w \in t.writes : w \in s.writes \/ w \in new
  OBVIOUS
<1>1. 1..n \subseteq 1..m
  OBVIOUS
<1>2. Typed(t, m)
  <2>1. s.buffer \in Seq(1..m)
    BY <1>1, SeqMonotonic DEF Sound, Typed
  <2>2. s.overflowed \subseteq 1..m /\ s.overlapped \subseteq 1..m
    BY <1>1 DEF Sound, Typed
  <2>3. \A w \in s.writes : /\ w.kind \in {"batch", "sync"}
                            /\ w.events \subseteq 1..m
                            /\ w.kind = "sync" => w.events = {Single(w.events)}
    BY <1>1 DEF Sound, Typed
  <2>4. \A w \in t.writes : /\ w.kind \in {"batch", "sync"}
                            /\ w.events \subseteq 1..m
                            /\ w.kind = "sync" => w.events = {Single(w.events)}
    BY <1>0, <2>3
  <2> QED BY <2>1, <2>2, <2>4 DEF Typed
<1>3. BatchesHold(t)
  <2> SUFFICES ASSUME NEW w \in t.writes, w.kind = "batch"
               PROVE  Range(t.buffer) \subseteq w.events \union t.overlapped
    BY DEF BatchesHold
  <2>1. CASE w \in s.writes
    BY <2>1 DEF Sound, BatchesHold
  <2>2. CASE w \in new
    BY <2>2
  <2> QED BY <1>0, <2>1, <2>2
<1>4. ASSUME NEW e \in (old + 1)..m PROVE Kept(t, logged, e)
  <2>1. CASE e <= n
    <3>1. Kept(s, logged, e)
      BY <2>1 DEF Sound
    <3> QED BY <3>1 DEF Kept
  <2>2. CASE ~(e <= n)
    <3>1. e \in (n + 1)..m
      BY <2>2
    <3> QED BY <3>1 DEF Kept
  <2> QED BY <2>1, <2>2
<1> QED BY <1>2, <1>3, <1>4 DEF Sound

LEMMA SyncBegins ==
  ASSUME NEW s, NEW logged, NEW old \in Nat, NEW n \in Nat, Sound(s, logged, old, n),
         NEW t, t.buffer = s.buffer, t.writes = s.writes \union {Sync(n + 1, TRUE)},
         t.overflowed = s.overflowed, t.overlapped = s.overlapped
  PROVE  Sound(t, logged, old, n + 1)
<1> DEFINE m   == n + 1
           new == {Sync(m, TRUE)}
<1>1. LET w == Sync(m, TRUE) IN
      w.kind = "sync" /\ w.events = {m} /\ Single({m}) = m
  BY SyncIs
<1>2. \A w \in new : /\ w.kind = "sync" /\ w.events \subseteq 1..m
                     /\ w.events = {Single(w.events)}
  <2>1. m \in 1..m
    OBVIOUS
  <2>2. \A w \in new : w = Sync(m, TRUE)
    OBVIOUS
  <2> QED BY <1>1, <2>1, <2>2
<1>3. \E w \in new : w.kind = "sync" /\ m \in w.events
  BY <1>1
<1>4. (n + 1)..m = {m} /\ n <= m /\ m \in Nat
  OBVIOUS
<1>5. t.writes = s.writes \union new
  OBVIOUS
<1> HIDE DEF new
<1> QED BY <1>2, <1>3, <1>4, <1>5, WritesBegin

(* The start of a session, and its end, leave nothing to be kept.           *)
LEMMA NothingBuffered ==
  ASSUME NEW s, NEW logged, NEW old \in Nat, NEW n \in Nat, Sound(s, logged, old, n),
         NEW t, t.buffer = <<>>, t.writes \subseteq s.writes,
         t.overflowed = s.overflowed, t.overlapped = s.overlapped
  PROVE  Sound(t, logged, n, n)
<1>1. <<>> \in Seq(1..n) /\ Range(<<>>) = {} /\ (n + 1)..n = {}
  BY RangeEmpty
<1>2. Typed(t, n)
  BY <1>1 DEF Sound, Typed
<1>3. BatchesHold(t)
  BY <1>1 DEF BatchesHold
<1> QED BY <1>1, <1>2, <1>3 DEF Sound

LEMMA AuditIs ==
  /\ audit.buffer = auditBuffer /\ audit.writes = writes
  /\ audit.overflowed = overflowed /\ audit.overlapped = auditOverlapped
  BY DEF audit

-----------------------------------------------------------------------------
(* The steps.                                                               *)
LEMMA AuditStarts == AuditInit => AuditInv
<1> SUFFICES ASSUME AuditInit PROVE AuditInv
  OBVIOUS
<1>1. <<>> \in Seq(1..0) /\ Range(<<>>) = {} /\ 1..0 = {}
  BY RangeEmpty
<1>2. Sound(audit, log, first, emitted)
  BY <1>1, AuditIs DEF AuditInit, Sound, Typed, BatchesHold
<1>3. 0 \in 0..(FlushEvery - 1)
  BY AuditAssumption
<1> QED BY <1>2, <1>3, AuditAssumption DEF AuditInit, AuditInv, AuditHooks

LEMMA AuditStartKeeps ==
  ASSUME AuditInv, AuditSessionStart
  PROVE  AuditInv'
<1> DEFINE n == emitted + 1
           s == [audit EXCEPT !.buffer = <<>>]
<1>1. emitted \in Nat /\ n \in Nat /\ n <= MaxEvents /\ first \in Nat
  BY AuditAssumption DEF AuditInv, AuditSessionStart
<1>2. /\ s.buffer = <<>> /\ s.writes = writes
      /\ s.overflowed = overflowed /\ s.overlapped = auditOverlapped
  BY DEF audit
<1>3. Sound(s, log, emitted, emitted)
  <2> HIDE DEF s
  <2> QED BY <1>1, <1>2, AuditIs, NothingBuffered DEF AuditInv
<1>4. Sound(audit', log, emitted, n)
  <2>1. /\ audit'.buffer = s.buffer /\ audit'.writes = s.writes \union {Sync(n, TRUE)}
        /\ audit'.overflowed = s.overflowed /\ audit'.overlapped = s.overlapped
    BY <1>2 DEF audit, AuditSessionStart
  <2> HIDE DEF s
  <2> QED BY <1>1, <1>3, <2>1, SyncBegins
<1>5. Sound(audit, log, first, emitted)'
  BY <1>4 DEF AuditSessionStart
<1>6. /\ 0 \in 0..(FlushEvery - 1) /\ emitted \in 0..n /\ n \in 0..MaxEvents
      /\ log \subseteq 1..n /\ critical \union {n} \subseteq 1..n
  BY <1>1, AuditAssumption DEF AuditInv
<1> QED BY <1>5, <1>6 DEF AuditInv, AuditSessionStart, AuditHooks

LEMMA AuditTurnKeeps ==
  ASSUME AuditInv, NEW routine \in Nat, NEW urgent \in Nat, AuditAfterTurn(routine, urgent)
  PROVE  AuditInv'
<1> DEFINE s     == Adding(audit, routine)
           m     == emitted + routine
           n     == emitted + routine + urgent
           fresh == (m + 1)..n
           flush == (auditTurns + 1) % FlushEvery = 0 /\ s.buffer # <<>>
           syncs == {Sync(e, FALSE) : e \in fresh}
           batch == IF flush THEN {Batch(Range(s.buffer), TRUE)} ELSE {}
           new   == syncs \union batch
<1>1. /\ n <= MaxEvents /\ emitted' = n /\ critical' = critical \union fresh
      /\ auditTurns' = (auditTurns + 1) % FlushEvery
      /\ audit'.buffer = s.buffer /\ audit'.overflowed = s.overflowed
      /\ audit'.overlapped = s.overlapped /\ audit'.writes = s.writes \union syncs \union batch
      /\ auditHook' \in {auditHook, "flushing"}
      /\ UNCHANGED <<log, first>>
  BY DEF AuditAfterTurn, audit
<1>2. emitted \in Nat /\ first \in Nat /\ m \in Nat /\ n \in Nat /\ m <= n /\ emitted <= n
  BY DEF AuditInv
<1>3. Sound(s, log, first, m)
  BY <1>2, AddingKeeps DEF AuditInv
<1> HIDE DEF s, flush
<1>4. \A w \in new : /\ w.kind \in {"batch", "sync"}
                     /\ w.events \subseteq 1..n
                     /\ w.kind = "sync" => w.events = {Single(w.events)}
                     /\ w.kind = "batch" => Range(s.buffer) \subseteq w.events
  <2>1. ASSUME NEW e \in fresh
        PROVE  LET w == Sync(e, FALSE) IN
               /\ w.kind = "sync"
               /\ w.events \subseteq 1..n /\ w.events = {Single(w.events)}
    <3>1. e \in 1..n
      BY <1>2
    <3>2. LET w == Sync(e, FALSE) IN
          w.kind = "sync" /\ w.events = {e} /\ Single({e}) = e
      BY SyncIs
    <3> QED BY <3>1, <3>2
  <2>2. Range(s.buffer) \subseteq 1..n
    <3>1. s.buffer \in Seq(1..m)
      BY <1>3 DEF Sound, Typed
    <3>2. 1..m \subseteq 1..n
      BY <1>2
    <3> QED BY <3>1, <3>2, RangeOf
  <2>3. ASSUME NEW w \in batch
        PROVE  w.kind = "batch" /\ w.events = Range(s.buffer)
    BY DEF Batch
  <2> HIDE DEF fresh, batch
  <2> QED BY <2>1, <2>2, <2>3
<1>5. \A e \in fresh : \E w \in new : w.kind = "sync" /\ e \in w.events
  <2> SUFFICES ASSUME NEW e \in fresh PROVE \E w \in new : w.kind = "sync" /\ e \in w.events
    OBVIOUS
  <2>1. Sync(e, FALSE) \in new
    OBVIOUS
  <2> QED BY <2>1, SyncIs
<1>6. Sound(audit', log, first, n)
  <2>1. audit'.writes = s.writes \union new
    BY <1>1
  <2> HIDE DEF new, m, n
  <2> QED BY <1>1, <1>2, <1>3, <1>4, <1>5, <2>1, WritesBegin
<1>7. Sound(audit, log, first, emitted)'
  BY <1>1, <1>6
<1>8. auditTurns' \in 0..(FlushEvery - 1)
  BY <1>1, AuditAssumption DEF AuditInv
<1>9. first \in 0..n /\ n \in 0..MaxEvents /\ log \subseteq 1..n /\ critical' \subseteq 1..n
  <2>1. first <= emitted /\ log \subseteq 1..emitted /\ critical \subseteq 1..emitted
    BY DEF AuditInv
  <2>2. 1..emitted \subseteq 1..n /\ fresh \subseteq 1..n
    BY <1>2
  <2> QED BY <1>1, <1>2, <2>1, <2>2, AuditAssumption
<1> QED BY <1>1, <1>7, <1>8, <1>9 DEF AuditInv, AuditHooks

LEMMA AuditEndKeeps ==
  ASSUME AuditInv, AuditSessionEnd
  PROVE  AuditInv'
<1>1. emitted \in Nat /\ first \in Nat /\ UNCHANGED <<auditTurns, log, first>>
  <2>1. emitted \in Nat /\ first \in Nat
    BY DEF AuditInv
  <2> QED BY <2>1 DEF AuditSessionEnd
<1>2. /\ audit'.buffer = audit.buffer /\ audit'.overflowed = audit.overflowed
      /\ audit'.overlapped = audit.overlapped
  BY DEF AuditSessionEnd, audit
<1>3. CASE /\ auditBuffer # <<>> /\ auditHook' = "last flush"
           /\ writes' = writes \union {Batch(Range(auditBuffer), TRUE)}
           /\ UNCHANGED <<emitted, critical>>
  <2> DEFINE new == {Batch(Range(auditBuffer), TRUE)}
  <2>1. Range(auditBuffer) \subseteq 1..emitted
    BY AuditIs, RangeOf DEF AuditInv, Sound, Typed
  <2>2. \A w \in new : w.kind = "batch" /\ w.events = Range(auditBuffer)
    BY DEF Batch
  <2>3. audit'.writes = audit.writes \union new /\ audit.buffer = auditBuffer
    BY <1>3 DEF audit
  <2>4. (emitted + 1)..emitted = {}
    BY <1>1
  <2>5. Sound(audit', log, first, emitted)
    <3> HIDE DEF new
    <3> QED BY <1>1, <1>2, <2>1, <2>2, <2>3, <2>4, WritesBegin DEF AuditInv
  <2> QED BY <1>1, <1>3, <2>5 DEF AuditInv, AuditHooks
<1>4. CASE /\ emitted < MaxEvents /\ auditHook' = "ending"
           /\ emitted' = emitted + 1 /\ critical' = critical \union {emitted + 1}
           /\ writes' = writes \union {Sync(emitted + 1, TRUE)}
  <2>1. audit'.writes = audit.writes \union {Sync(emitted + 1, TRUE)}
    BY <1>4 DEF audit
  <2>2. Sound(audit', log, first, emitted + 1)
    BY <1>1, <1>2, <2>1, SyncBegins DEF AuditInv
  <2>3. /\ emitted + 1 \in 0..MaxEvents /\ first \in 0..(emitted + 1)
        /\ log \subseteq 1..(emitted + 1) /\ critical' \subseteq 1..(emitted + 1)
    BY <1>1, <1>4, AuditAssumption DEF AuditInv
  <2> QED BY <1>1, <1>4, <2>2, <2>3 DEF AuditInv, AuditHooks
<1> QED BY <1>3, <1>4 DEF AuditSessionEnd

(* What a write that has ended leaves behind.                               *)
LeftBy(w, buf) == [buffer |-> buf, writes |-> writes \ {w},
                   overflowed |-> overflowed', overlapped |-> auditOverlapped']

(* The hook goes on after a write; the events are as sound as it left them. *)
LEMMA AfterWriteKeeps ==
  ASSUME AuditInv, NEW w \in writes, NEW buf, AfterWrite(w, buf),
         log' \subseteq 1..emitted, Sound(LeftBy(w, buf), log', first, emitted)
  PROVE  AuditInv'
<1> DEFINE s == LeftBy(w, buf)
<1>1. emitted \in Nat /\ first \in Nat
  BY DEF AuditInv
<1>2. /\ s.buffer = buf /\ s.writes = writes \ {w} /\ s.overflowed = overflowed'
      /\ s.overlapped = auditOverlapped'
      /\ audit'.overflowed = s.overflowed /\ audit'.overlapped = s.overlapped
      /\ audit'.buffer = auditBuffer' /\ audit'.writes = writes'
  BY DEF audit, LeftBy
<1> HIDE DEF s
<1>3. Sound(s, log', first, emitted)
  BY DEF s
<1>4. CASE /\ auditHook' \in {auditHook, "open"}
           /\ writes' = writes \ {w} /\ auditBuffer' = buf
           /\ UNCHANGED <<auditTurns, emitted, critical, first>>
  <2>1. Sound(audit', log', first, emitted)
    BY <1>2, <1>3, <1>4 DEF Sound, Typed, BatchesHold, Kept
  <2> QED BY <1>4, <2>1 DEF AuditInv, AuditHooks
<1>5. CASE /\ auditHook' = "ending" /\ auditBuffer' = buf /\ emitted < MaxEvents
           /\ emitted' = emitted + 1 /\ critical' = critical \union {emitted + 1}
           /\ writes' = (writes \ {w}) \union {Sync(emitted + 1, TRUE)}
           /\ UNCHANGED <<auditTurns, first>>
  <2>1. /\ audit'.buffer = s.buffer
        /\ audit'.writes = s.writes \union {Sync(emitted + 1, TRUE)}
    BY <1>2, <1>5
  <2>2. Sound(audit', log', first, emitted + 1)
    BY <1>1, <1>2, <1>3, <2>1, SyncBegins
  <2>3. /\ emitted + 1 \in 0..MaxEvents /\ first \in 0..(emitted + 1)
        /\ log' \subseteq 1..(emitted + 1) /\ critical' \subseteq 1..(emitted + 1)
    BY <1>1, <1>5, AuditAssumption DEF AuditInv
  <2> QED BY <1>5, <2>2, <2>3 DEF AuditInv, AuditHooks
<1>6. CASE /\ auditHook' = "none" /\ auditTurns' = 0
           /\ writes' = writes \ {w} /\ auditBuffer' = <<>>
           /\ first' = emitted /\ UNCHANGED <<emitted, critical>>
  <2>1. audit'.buffer = <<>> /\ audit'.writes \subseteq s.writes
    BY <1>2, <1>6
  <2>2. Sound(audit', log', emitted, emitted)
    BY <1>1, <1>2, <1>3, <2>1, NothingBuffered
  <2>3. 0 \in 0..(FlushEvery - 1) /\ emitted \in 0..emitted
    BY <1>1, AuditAssumption
  <2> QED BY <1>6, <2>2, <2>3 DEF AuditInv, AuditHooks
<1> QED BY <1>4, <1>5, <1>6 DEF AfterWrite

(* A write that succeeds leaves its events in the log; a batch takes the    *)
(* buffer with it, of which it does not know only what came meanwhile.      *)
LEMMA WriteEndsKeeps ==
  ASSUME AuditInv, NEW w \in writes, WriteEnds(w)
  PROVE  AuditInv'
<1> DEFINE buf == IF w.kind = "batch" THEN <<>> ELSE auditBuffer
           s   == LeftBy(w, buf)
<1>1. /\ log' = log \union w.events /\ AfterWrite(w, buf)
      /\ overflowed' = overflowed /\ auditOverlapped' = auditOverlapped
  BY DEF WriteEnds
<1>2. /\ s.buffer = buf /\ s.writes = writes \ {w}
      /\ s.overflowed = overflowed /\ s.overlapped = auditOverlapped
  BY <1>1 DEF LeftBy
<1>3. /\ w.events \subseteq 1..emitted /\ log' \subseteq 1..emitted
      /\ auditBuffer \in Seq(1..emitted)
  BY <1>1, AuditIs DEF AuditInv, Sound, Typed
<1>4. /\ buf \in Seq(1..emitted) /\ Range(buf) \subseteq Range(auditBuffer)
      /\ Range(auditBuffer) \subseteq Range(buf) \union w.events \union auditOverlapped
  <2>1. <<>> \in Seq(1..emitted) /\ Range(<<>>) = {}
    BY RangeEmpty
  <2>2. w.kind = "batch" => Range(auditBuffer) \subseteq w.events \union auditOverlapped
    BY AuditIs DEF AuditInv, Sound, BatchesHold
  <2> QED BY <1>3, <2>1, <2>2
<1> HIDE DEF buf, s
<1>5. Typed(s, emitted) /\ BatchesHold(s)
  BY <1>2, <1>4, AuditIs DEF AuditInv, Sound, Typed, BatchesHold
<1>6. ASSUME NEW e \in (first + 1)..emitted PROVE Kept(s, log', e)
  <2>1. Kept(audit, log, e)
    BY DEF AuditInv, Sound
  <2>2. CASE e \in w.events
    BY <1>1, <2>2 DEF Kept
  <2>3. CASE e \notin w.events
    <3>1. \/ e \in log \union Range(auditBuffer) \union overflowed \union auditOverlapped
          \/ \E v \in writes \ {w} : v.kind = "sync" /\ e \in v.events
      BY <2>1, <2>3, AuditIs DEF Kept
    <3> QED BY <1>1, <1>2, <1>4, <2>3, <3>1 DEF Kept
  <2> QED BY <2>2, <2>3
<1>7. Sound(s, log', first, emitted)
  BY <1>5, <1>6 DEF Sound
<1> QED BY <1>1, <1>3, <1>7, AfterWriteKeeps DEF s

(* A write that fails leaves its events where they were, if it is a batch,  *)
(* and else in the buffer.                                                  *)
LEMMA WriteFailedKeeps ==
  ASSUME AuditInv, NEW w \in writes, WriteFailed(w)
  PROVE  AuditInv'
<1> DEFINE buf == IF w.kind = "sync" THEN Append(auditBuffer, Single(w.events)) ELSE auditBuffer
           s   == LeftBy(w, buf)
<1>1. /\ log \subseteq log' /\ log' \subseteq log \union w.events /\ AfterWrite(w, buf)
      /\ overflowed' = overflowed
      /\ auditOverlapped' = auditOverlapped \union
            (IF w.kind = "sync" /\ BatchIn(writes) THEN w.events ELSE {})
  BY DEF WriteFailed
<1>2. /\ s.buffer = buf /\ s.writes = writes \ {w}
      /\ s.overflowed = overflowed /\ s.overlapped = auditOverlapped'
  BY <1>1 DEF LeftBy
<1>3. /\ w.events \subseteq 1..emitted /\ log' \subseteq 1..emitted
      /\ auditBuffer \in Seq(1..emitted)
      /\ w.kind = "sync" => w.events = {Single(w.events)}
  BY <1>1, AuditIs DEF AuditInv, Sound, Typed
<1>4. /\ buf \in Seq(1..emitted)
      /\ Range(buf) = Range(auditBuffer) \union (IF w.kind = "sync" THEN w.events ELSE {})
  <2>1. CASE w.kind = "sync"
    <3>1. Single(w.events) \in 1..emitted
      BY <1>3, <2>1
    <3>2. /\ Append(auditBuffer, Single(w.events)) \in Seq(1..emitted)
          /\ Range(Append(auditBuffer, Single(w.events))) =
               Range(auditBuffer) \union {Single(w.events)}
      <4>1. PICK e : e = Single(w.events) /\ e \in 1..emitted
        BY <3>1
      <4>2. auditBuffer \in Seq(1..emitted)
        BY <1>3
      <4>3. /\ Append(auditBuffer, e) \in Seq(1..emitted)
            /\ Range(Append(auditBuffer, e)) = Range(auditBuffer) \union {e}
        BY <4>1, <4>2, RangeAppend
      <4> QED BY <4>1, <4>3
    <3> QED BY <1>3, <2>1, <3>2
  <2>2. CASE w.kind # "sync"
    BY <1>3, <2>2
  <2> QED BY <2>1, <2>2
<1> HIDE DEF buf, s
<1>5. Typed(s, emitted)
  <2>1. auditOverlapped' \subseteq 1..emitted
    BY <1>1, <1>3, AuditIs DEF AuditInv, Sound, Typed
  <2> QED BY <1>2, <1>4, <2>1, AuditIs DEF AuditInv, Sound, Typed
<1>6. BatchesHold(s)
  <2> SUFFICES ASSUME NEW v \in writes, v.kind = "batch"
               PROVE  Range(buf) \subseteq v.events \union auditOverlapped'
    BY <1>2 DEF BatchesHold
  <2>1. Range(auditBuffer) \subseteq v.events \union auditOverlapped
    BY AuditIs DEF AuditInv, Sound, BatchesHold
  <2>2. BatchIn(writes)
    BY DEF BatchIn
  <2> QED BY <1>1, <1>4, <2>1, <2>2
<1>7. ASSUME NEW e \in (first + 1)..emitted PROVE Kept(s, log', e)
  <2>1. Kept(audit, log, e)
    BY DEF AuditInv, Sound
  <2>2. CASE w.kind = "sync" /\ e \in w.events
    BY <1>2, <1>4, <2>2 DEF Kept
  <2>3. CASE ~(w.kind = "sync" /\ e \in w.events)
    <3>1. \/ e \in log \union Range(auditBuffer) \union overflowed \union auditOverlapped
          \/ \E v \in writes \ {w} : v.kind = "sync" /\ e \in v.events
      BY <2>1, <2>3, AuditIs DEF Kept
    <3> QED BY <1>1, <1>2, <1>4, <3>1 DEF Kept
  <2> QED BY <2>2, <2>3
<1>8. Sound(s, log', first, emitted)
  BY <1>5, <1>6, <1>7 DEF Sound
<1> QED BY <1>1, <1>3, <1>8, AfterWriteKeeps DEF s

-----------------------------------------------------------------------------
(* The invariant holds in every state.                                      *)
LEMMA AuditInvariant == AuditSpec => []AuditInv
<1>1. ASSUME AuditInv, [AuditNext]_auditVars PROVE AuditInv'
  <2>1. CASE UNCHANGED auditVars
    <3>1. audit' = audit
      BY <2>1 DEF auditVars, audit
    <3> QED BY <1>1, <2>1, <3>1 DEF auditVars, AuditInv
  <2>2. Routine \subseteq Nat /\ Urgent \subseteq Nat
    BY DEF Routine, Urgent
  <2> QED
    BY <1>1, <2>1, <2>2, AuditStartKeeps, AuditTurnKeeps, AuditEndKeeps, WriteEndsKeeps, WriteFailedKeeps
    DEF AuditNext
<1> QED BY <1>1, AuditStarts, PTL DEF AuditSpec

(* The variables of the audit log keep their types.                         *)
THEOREM AuditTypeCorrect == AuditSpec => []AuditTypeOK
<1>1. AuditInv => AuditTypeOK
  <2> SUFFICES ASSUME AuditInv PROVE AuditTypeOK
    OBVIOUS
  <2>1. Range(auditBuffer) \subseteq 1..emitted
    BY AuditIs, RangeOf DEF AuditInv, Sound, Typed
  <2> QED BY <2>1, AuditIs DEF AuditInv, Sound, Typed, AuditTypeOK
<1> QED BY <1>1, AuditInvariant, PTL

(* While its session lasts an event is in the buffer, in a write of its own *)
(* or in the log, unless it was dropped from a full buffer or came while a  *)
(* batch was under way: for any size of the buffer, interval, number of     *)
(* events in a turn and of writes that overlap.                             *)
THEOREM EventsStayKept == AuditSpec => []EventsAreKept
<1>1. AuditInv => EventsAreKept
  BY AuditIs DEF AuditInv, Sound, Kept, EventsAreKept
<1> QED BY <1>1, AuditInvariant, PTL

-----------------------------------------------------------------------------
(* The observer.                                                            *)

(* The reflections that follow an extraction are of different turns, with   *)
(* those in the background.                                                 *)
Due(xs) == {x \in xs : x.reflect}
ReflectionsAreFew ==
  /\ IsFiniteSet(extractions)
  /\ reflecting \in Nat
  /\ reflecting + Cardinality(Due(extractions)) <= observerTurnCount

ExtractionsAreTyped ==
  \A x \in extractions : /\ x.turns \subseteq 1..observerTurnCount
                         /\ x.reflect \in BOOLEAN /\ x.awaited \in BOOLEAN

(* A turn is in the buffer until it is handed over; whichever extraction    *)
(* ends first, all that it empties the buffer of was handed over with it,   *)
(* or came while some extraction was under way.                             *)
TurnsAreSomewhere ==
  1..observerTurnCount \subseteq
    observerTurnBuffer \union extracted \union unextracted \union observerOverlapped
BufferIsHandedOver ==
  \A x \in extractions : observerTurnBuffer \subseteq x.turns \union observerOverlapped
NothingIsLeft ==
  observerHook \in {"reflecting", "ended"} => observerTurnBuffer = {}
NothingComesBack == observerTurnBuffer \intersect extracted = {}

ObserverInv ==
  /\ ObserverTypeOK /\ ExtractionsAreTyped /\ ReflectionsAreFew
  /\ TurnsAreSomewhere /\ BufferIsHandedOver /\ NothingIsLeft /\ NothingComesBack

-----------------------------------------------------------------------------
(* Init satisfies the invariant.                                            *)
LEMMA ObserverStarts == ObserverInit => ObserverInv
<1> SUFFICES ASSUME ObserverInit PROVE ObserverInv
  OBVIOUS
<1>1. Due(extractions) = {}
  BY DEF ObserverInit, Due
<1>2. ReflectionsAreFew
  BY <1>1, FS_EmptySet DEF ObserverInit, ReflectionsAreFew
<1>3. ObserverTypeOK
  BY ObserverAssumption DEF ObserverInit, ObserverTypeOK, ObserverHooks
<1> QED
  BY <1>2, <1>3 DEF ObserverInit, ObserverInv, ExtractionsAreTyped, TurnsAreSomewhere,
       BufferIsHandedOver, NothingIsLeft, NothingComesBack

(* An extraction more is at most one reflection more; one that ends takes   *)
(* its reflection with it.                                                  *)
LEMMA OneMore ==
  ASSUME NEW S, IsFiniteSet(S), NEW x
  PROVE  /\ IsFiniteSet(S \union {x}) /\ IsFiniteSet(S \ {x})
         /\ Cardinality(Due(S)) \in Nat
         /\ Cardinality(Due(S \union {x})) \in Nat
         /\ Cardinality(Due(S \ {x})) \in Nat
         /\ Cardinality(Due(S \union {x})) <= Cardinality(Due(S)) + 1
         /\ ~x.reflect => Due(S \union {x}) = Due(S) /\ Due(S \ {x}) = Due(S)
         /\ x.reflect /\ x \in S => Cardinality(Due(S \ {x})) = Cardinality(Due(S)) - 1
<1>1. IsFiniteSet(S \union {x}) /\ IsFiniteSet(S \ {x})
  BY FS_AddElement, FS_RemoveElement
<1>2. IsFiniteSet(Due(S)) /\ IsFiniteSet(Due(S \union {x})) /\ IsFiniteSet(Due(S \ {x}))
  <2>1. \A T : Due(T) \subseteq T
    BY DEF Due
  <2> QED BY <1>1, <2>1, FS_Subset
<1>3. /\ Cardinality(Due(S)) \in Nat
      /\ Cardinality(Due(S \union {x})) \in Nat
      /\ Cardinality(Due(S \ {x})) \in Nat
  BY <1>2, FS_CardinalityType
<1>4. CASE x.reflect
  <2>1. Due(S \union {x}) = Due(S) \union {x} /\ Due(S \ {x}) = Due(S) \ {x}
    BY <1>4 DEF Due
  <2>2. x \in S => x \in Due(S)
    BY <1>4 DEF Due
  <2>3. Cardinality(Due(S) \union {x}) <= Cardinality(Due(S)) + 1
    <3>1. CASE x \in Due(S)
      <4>1. Due(S) \union {x} = Due(S)
        BY <3>1
      <4> QED BY <1>3, <4>1
    <3>2. CASE x \notin Due(S)
      <4>1. Cardinality(Due(S) \union {x}) = Cardinality(Due(S)) + 1
        BY <1>2, <3>2, FS_AddElement
      <4> QED BY <1>3, <4>1
    <3> QED BY <3>1, <3>2
  <2>4. x \in Due(S) => Cardinality(Due(S) \ {x}) = Cardinality(Due(S)) - 1
    BY <1>2, <1>3, FS_RemoveElement
  <2> QED BY <1>1, <1>3, <1>4, <2>1, <2>2, <2>3, <2>4
<1>5. CASE ~x.reflect
  <2>1. Due(S \union {x}) = Due(S) /\ Due(S \ {x}) = Due(S)
    BY <1>5 DEF Due
  <2> QED BY <1>1, <1>3, <1>5, <2>1
<1> QED BY <1>4, <1>5

-----------------------------------------------------------------------------
(* The steps.                                                               *)
LEMMA SessionStartKeeps ==
  ASSUME ObserverInv, ObserverSessionStart
  PROVE  ObserverInv'
<1> USE DEF ObserverInv, ObserverSessionStart
<1>1. observations' \in Nat /\ reflections' \in Nat
  BY ObserverAssumption DEF PastLoaded
<1>2. ObserverTypeOK'
  BY <1>1 DEF ObserverTypeOK, ObserverHooks
<1>3. ReflectionsAreFew'
  BY DEF ReflectionsAreFew, Due
<1> QED
  BY <1>2, <1>3 DEF ExtractionsAreTyped, TurnsAreSomewhere,
       BufferIsHandedOver, NothingIsLeft, NothingComesBack

LEMMA AfterTurnKeeps ==
  ASSUME ObserverInv, ObserverAfterTurn
  PROVE  ObserverInv'
<1> DEFINE turn    == observerTurnCount + 1
           observe == turn % ObserveEvery = 0 /\ observerCallCount < MaxObserverCalls
           reflect == turn % ReflectEvery = 0
<1>0. PICK x : x = Extraction(observerTurnBuffer', reflect, FALSE)
  OBVIOUS
<1>1. /\ observerHook = "open" /\ observerHook' = "open"
      /\ observerTurnCount < MaxObservedTurns /\ observerTurnCount' = turn
      /\ observerTurnBuffer' = observerTurnBuffer \union {turn}
      /\ observerOverlapped' = IF extractions = {} THEN observerOverlapped
                               ELSE observerOverlapped \union {turn}
      /\ UNCHANGED <<observations, reflections, extracted, unextracted>>
  BY DEF ObserverAfterTurn
<1>2. \/ /\ observe
         /\ observerCallCount' = observerCallCount + 1
         /\ extractions' = extractions \union {x}
         /\ UNCHANGED reflecting
      \/ /\ reflecting' = IF reflect /\ observations > 0 THEN reflecting + 1 ELSE reflecting
         /\ UNCHANGED <<observerCallCount, extractions>>
  BY <1>0 DEF ObserverAfterTurn
<1>3. x.turns = observerTurnBuffer' /\ x.reflect \in BOOLEAN /\ x.awaited \in BOOLEAN
  BY <1>0 DEF Extraction
<1>4. observe => observerCallCount < MaxObserverCalls
  OBVIOUS
<1>5. /\ observerTurnCount \in 0..MaxObservedTurns /\ turn \in 1..MaxObservedTurns
      /\ 1..turn = 1..observerTurnCount \union {turn} /\ turn \notin 1..observerTurnCount
  BY <1>1, ObserverAssumption DEF ObserverInv, ObserverTypeOK
<1> HIDE DEF observe, reflect, turn
<1>6. ReflectionsAreFew'
  <2>1. CASE extractions' = extractions \union {x} /\ UNCHANGED reflecting
    <3>1. /\ IsFiniteSet(extractions') /\ Cardinality(Due(extractions)) \in Nat
          /\ Cardinality(Due(extractions')) <= Cardinality(Due(extractions)) + 1
          /\ Cardinality(Due(extractions')) \in Nat
      <4>1. IsFiniteSet(extractions)
        BY DEF ObserverInv, ReflectionsAreFew
      <4>2. /\ IsFiniteSet(extractions \union {x}) /\ Cardinality(Due(extractions)) \in Nat
            /\ Cardinality(Due(extractions \union {x})) <= Cardinality(Due(extractions)) + 1
            /\ Cardinality(Due(extractions \union {x})) \in Nat
        BY <1>3, <4>1, OneMore
      <4> QED BY <2>1, <4>2
    <3> QED
      BY <1>1, <1>5, <2>1, <3>1, ObserverAssumption
      DEF ObserverInv, ReflectionsAreFew, turn
  <2>2. CASE /\ reflecting' = IF reflect /\ observations > 0 THEN reflecting + 1 ELSE reflecting
             /\ UNCHANGED extractions
    <3>1. Due(extractions') = Due(extractions)
      BY <2>2 DEF Due
    <3>2. Cardinality(Due(extractions)) \in Nat
      <4>1. Due(extractions) \subseteq extractions
        BY DEF Due
      <4> QED BY <4>1, FS_Subset, FS_CardinalityType DEF ObserverInv, ReflectionsAreFew
    <3>3. reflecting' \in Nat /\ reflecting' <= reflecting + 1
      BY <2>2 DEF ObserverInv, ReflectionsAreFew
    <3> QED
      BY <1>1, <1>5, <2>2, <3>1, <3>2, <3>3, ObserverAssumption
      DEF ObserverInv, ReflectionsAreFew, turn
  <2> QED BY <1>2, <2>1, <2>2
<1>7. ExtractionsAreTyped'
  <2>1. observerTurnBuffer' \subseteq 1..turn
    BY <1>1, <1>5 DEF ObserverInv, ObserverTypeOK
  <2> QED BY <1>1, <1>2, <1>3, <1>5, <2>1 DEF ObserverInv, ExtractionsAreTyped
<1>8. ObserverTypeOK'
  <2>1. UNION {observerTurnBuffer, extracted, unextracted, observerOverlapped}'
          \subseteq 1..observerTurnCount'
    BY <1>1, <1>5 DEF ObserverInv, ObserverTypeOK
  <2>2. observerCallCount' \in 0..MaxObserverCalls
    BY <1>2, <1>4, ObserverAssumption DEF ObserverInv, ObserverTypeOK
  <2>3. reflecting' \in 0..observerTurnCount'
    <3>1. Cardinality(Due(extractions')) \in Nat
      <4>1. Due(extractions') \subseteq extractions'
        BY DEF Due
      <4> QED BY <1>6, <4>1, FS_Subset, FS_CardinalityType DEF ReflectionsAreFew
    <3> QED BY <1>1, <1>5, <1>6, <3>1, ObserverAssumption DEF ReflectionsAreFew
  <2>4. \A y \in extractions' : y.turns \subseteq 1..observerTurnCount'
    BY <1>7 DEF ExtractionsAreTyped
  <2>5. observerTurnCount' \in 0..MaxObservedTurns
    BY <1>1, <1>5
  <2> QED BY <1>1, <2>1, <2>2, <2>3, <2>4, <2>5 DEF ObserverInv, ObserverTypeOK, ObserverHooks
<1>9. TurnsAreSomewhere'
  BY <1>1, <1>5 DEF ObserverInv, TurnsAreSomewhere
<1>10. BufferIsHandedOver'
  BY <1>1, <1>2, <1>3 DEF ObserverInv, BufferIsHandedOver
<1>11. NothingComesBack'
  BY <1>1, <1>5 DEF ObserverInv, ObserverTypeOK, NothingComesBack
<1> QED
  BY <1>1, <1>6, <1>7, <1>8, <1>9, <1>10, <1>11 DEF ObserverInv, NothingIsLeft

LEMMA SessionEndKeeps ==
  ASSUME ObserverInv, ObserverSessionEnd
  PROVE  ObserverInv'
<1>0. PICK x : x = Extraction(observerTurnBuffer, FALSE, TRUE)
  OBVIOUS
<1>1. UNCHANGED <<observerTurnCount, observerTurnBuffer, observerCallCount, observations,
                  reflections, reflecting, extracted, unextracted, observerOverlapped>>
  BY DEF ObserverSessionEnd
<1>2. \/ observerHook' = "observing" /\ extractions' = extractions \union {x}
      \/ /\ observerTurnBuffer = {} /\ observerHook' \in {"reflecting", "ended"}
         /\ UNCHANGED extractions
  BY <1>0 DEF ObserverSessionEnd
<1>3. x.turns = observerTurnBuffer /\ x.reflect = FALSE /\ x.awaited = TRUE
  BY <1>0 DEF Extraction
<1>4. ReflectionsAreFew'
  <2>1. CASE extractions' = extractions \union {x}
    <3>1. /\ IsFiniteSet(extractions') /\ Cardinality(Due(extractions)) \in Nat
          /\ Cardinality(Due(extractions')) <= Cardinality(Due(extractions))
          /\ Cardinality(Due(extractions')) \in Nat
      <4>1. IsFiniteSet(extractions)
        BY DEF ObserverInv, ReflectionsAreFew
      <4>2. /\ IsFiniteSet(extractions \union {x}) /\ Cardinality(Due(extractions)) \in Nat
            /\ Due(extractions \union {x}) = Due(extractions)
        BY <1>3, <4>1, OneMore
      <4> QED BY <2>1, <4>2
    <3> QED
      BY <1>1, <3>1, ObserverAssumption
      DEF ObserverInv, ReflectionsAreFew, ObserverTypeOK
  <2>2. CASE UNCHANGED extractions
    BY <1>1, <2>2 DEF ObserverInv, ReflectionsAreFew, Due
  <2> QED BY <1>2, <2>1, <2>2
<1>5. ExtractionsAreTyped'
  BY <1>1, <1>2, <1>3 DEF ObserverInv, ExtractionsAreTyped, ObserverTypeOK
<1>6. ObserverTypeOK'
  BY <1>1, <1>2, <1>5 DEF ObserverInv, ObserverTypeOK, ObserverHooks, ExtractionsAreTyped
<1>7. TurnsAreSomewhere' /\ BufferIsHandedOver' /\ NothingIsLeft' /\ NothingComesBack'
  BY <1>1, <1>2, <1>3 DEF ObserverInv, TurnsAreSomewhere, BufferIsHandedOver,
       NothingIsLeft, NothingComesBack
<1> QED BY <1>4, <1>5, <1>6, <1>7 DEF ObserverInv

LEMMA ReflectionKeeps ==
  ASSUME ObserverInv, NEW found \in 0..MaxFound, LastReflection(found) \/ Reflected(found)
  PROVE  ObserverInv'
<1>1. /\ UNCHANGED <<observerTurnCount, observerTurnBuffer, observerCallCount, observations,
                     extractions, extracted, unextracted, observerOverlapped>>
      /\ \/ observerHook' = observerHook
         \/ observerHook = "reflecting" /\ observerHook' = "ended"
      /\ reflecting' \in Nat /\ reflecting' <= reflecting
  BY DEF LastReflection, Reflected, ObserverInv, ReflectionsAreFew
<1>2. reflections' \in Nat
  <2>1. \A n \in Nat : AtMost(n, 2 * MaxLoaded) \in Nat
    BY ObserverAssumption DEF AtMost
  <2>2. reflections \in Nat /\ reflections + found \in Nat
    BY ObserverAssumption DEF ObserverInv, ObserverTypeOK
  <2> QED BY <2>1, <2>2 DEF LastReflection, Reflected
<1>3. Due(extractions') = Due(extractions) /\ Cardinality(Due(extractions)) \in Nat
  <2>1. Due(extractions) \subseteq extractions
    BY DEF Due
  <2> QED
    BY <1>1, <2>1, FS_Subset, FS_CardinalityType DEF ObserverInv, ReflectionsAreFew, Due
<1>4. ReflectionsAreFew'
  BY <1>1, <1>3, ObserverAssumption DEF ObserverInv, ReflectionsAreFew, ObserverTypeOK
<1>5. ObserverTypeOK'
  BY <1>1, <1>2, ObserverAssumption
  DEF ObserverInv, ObserverTypeOK, ObserverHooks, ReflectionsAreFew
<1> QED
  BY <1>1, <1>4, <1>5 DEF ObserverInv, ExtractionsAreTyped, TurnsAreSomewhere,
       BufferIsHandedOver, NothingIsLeft, NothingComesBack

(* An extraction that ends: well or not, its turns are accounted for.       *)
LEMMA ExtractionKeeps ==
  ASSUME ObserverInv, NEW found \in 0..MaxFound, NEW x \in extractions,
         \/ ObservationsExtracted(x, found)
         \/ found = 0 /\ ExtractionFails(x)
  PROVE  ObserverInv'
<1>0. /\ ExtractionOver(x, found)
      /\ \/ extracted' = extracted \union x.turns /\ UNCHANGED unextracted
         \/ unextracted' = unextracted \union x.turns /\ UNCHANGED extracted
  BY DEF ObservationsExtracted, ExtractionFails
<1>1. /\ observerTurnBuffer' = {} /\ extractions' = extractions \ {x}
      /\ observerHook' \in {observerHook, "reflecting", "ended"}
      /\ UNCHANGED <<observerTurnCount, observerCallCount, reflections, observerOverlapped>>
  BY <1>0 DEF ExtractionOver
<1>2. observations' \in Nat
  <2>1. \A n \in Nat : AtMost(n, MaxObservations) \in Nat
    BY ObserverAssumption DEF AtMost
  <2>2. observations \in Nat /\ observations + found \in Nat
    BY ObserverAssumption DEF ObserverInv, ObserverTypeOK
  <2> QED BY <1>0, <2>1, <2>2 DEF ExtractionOver
<1>3. /\ reflecting \in Nat /\ reflecting' \in Nat
      /\ reflecting' <= reflecting + (IF x.reflect THEN 1 ELSE 0)
  BY <1>0 DEF ExtractionOver, ObserverInv, ReflectionsAreFew
<1>4. /\ IsFiniteSet(extractions') /\ Cardinality(Due(extractions)) \in Nat
      /\ Cardinality(Due(extractions')) =
           Cardinality(Due(extractions)) - (IF x.reflect THEN 1 ELSE 0)
      /\ Cardinality(Due(extractions')) \in Nat
  BY <1>1, OneMore DEF ObserverInv, ReflectionsAreFew, ExtractionsAreTyped
<1>5. ReflectionsAreFew'
  <2>1. /\ reflecting + Cardinality(Due(extractions)) <= observerTurnCount
        /\ observerTurnCount \in Nat /\ x.reflect \in BOOLEAN
    BY ObserverAssumption DEF ObserverInv, ReflectionsAreFew, ObserverTypeOK, ExtractionsAreTyped
  <2>2. CASE x.reflect
    BY <1>1, <1>3, <1>4, <2>1, <2>2 DEF ReflectionsAreFew
  <2>3. CASE ~x.reflect
    BY <1>1, <1>3, <1>4, <2>1, <2>3 DEF ReflectionsAreFew
  <2> QED BY <2>1, <2>2, <2>3
<1>6. ExtractionsAreTyped'
  BY <1>1 DEF ObserverInv, ExtractionsAreTyped
<1>7. ObserverTypeOK'
  <2>1. reflecting' \in 0..observerTurnCount'
    BY <1>1, <1>4, <1>5, ObserverAssumption DEF ReflectionsAreFew, ObserverInv, ObserverTypeOK
  <2>2. UNION {observerTurnBuffer, extracted, unextracted, observerOverlapped}'
          \subseteq 1..observerTurnCount'
    BY <1>0, <1>1 DEF ObserverInv, ObserverTypeOK
  <2> QED
    BY <1>1, <1>2, <1>6, <2>1, <2>2
    DEF ObserverInv, ObserverTypeOK, ObserverHooks, ExtractionsAreTyped
<1>8. TurnsAreSomewhere'
  <2>1. observerTurnBuffer \subseteq x.turns \union observerOverlapped
    BY DEF ObserverInv, BufferIsHandedOver
  <2> QED BY <1>0, <1>1, <2>1 DEF ObserverInv, TurnsAreSomewhere
<1> QED
  BY <1>1, <1>5, <1>6, <1>7, <1>8
  DEF ObserverInv, BufferIsHandedOver, NothingIsLeft, NothingComesBack

-----------------------------------------------------------------------------
(* The invariant holds in every state.                                      *)
LEMMA ObserverInvariant == ObserverSpec => []ObserverInv
<1>1. ASSUME ObserverInv, [ObserverNext]_observerVars PROVE ObserverInv'
  <2>1. CASE UNCHANGED observerVars
    BY <1>1, <2>1 DEF observerVars, ObserverInv, ObserverTypeOK, ExtractionsAreTyped,
         ReflectionsAreFew, Due, TurnsAreSomewhere, BufferIsHandedOver,
         NothingIsLeft, NothingComesBack
  <2>2. 0 \in 0..MaxFound
    BY ObserverAssumption
  <2> QED
    BY <1>1, <2>1, <2>2, SessionStartKeeps, AfterTurnKeeps, SessionEndKeeps, ReflectionKeeps,
       ExtractionKeeps DEF ObserverNext
<1> QED BY <1>1, ObserverStarts, PTL DEF ObserverSpec

(* The variables of the observer keep their types: in particular no more    *)
(* reflections run in the background than turns have ended.                 *)
THEOREM ObserverTypeCorrect == ObserverSpec => []ObserverTypeOK
<1>1. ObserverInv => ObserverTypeOK
  BY DEF ObserverInv
<1> QED BY <1>1, ObserverInvariant, PTL

(* No turn goes unobserved but those whose extraction failed and those      *)
(* buffered while one was under way, and none that was extracted comes back *)
(* into the buffer: for any intervals, limits, failures and number of       *)
(* extractions that overlap.                                                *)
THEOREM TurnsStayObserved == ObserverSpec => []TurnsAreObserved
<1>1. ObserverInv => TurnsAreObserved
  BY DEF ObserverInv, TurnsAreObserved, TurnsAreSomewhere, NothingIsLeft, NothingComesBack
<1> QED BY <1>1, ObserverInvariant, PTL

-----------------------------------------------------------------------------
(* The session memory.                                                      *)

(* No two of the facts have the same hash.                                  *)
Distinct(s) == \A i, j \in 1..Len(s) : HashOf[s[i]] = HashOf[s[j]] => i = j

(* A fact that waits, was stored or was pushed out has been seen, and no    *)
(* two that wait have the same hash.                                        *)
MemoryInv ==
  /\ memoryHook \in MemoryHooks /\ memoryEnding \in BOOLEAN
  /\ memoryTurns \in 0..(SaveEvery - 1) /\ memoryTurnBuffer \in 0..memoryTurns
  /\ pendingMemories \in Seq(Facts) /\ Len(pendingMemories) <= MaxPending
  /\ Distinct(pendingMemories)
  /\ HashesOf(pendingMemories) \subseteq seenHashes
  /\ storedHashes \subseteq seenHashes /\ pushedOut \subseteq seenHashes
  /\ seenHashes \subseteq Hashes

-----------------------------------------------------------------------------
(* The hashes of a sequence of facts, by its indices; of none; of one more; *)
(* of two sequences that share none.                                        *)
LEMMA HashesOfSeq ==
  ASSUME NEW s \in Seq(Facts)
  PROVE  /\ HashesOf(s) = {HashOf[s[i]] : i \in 1..Len(s)}
         /\ HashesOf(s) \subseteq Hashes
         /\ \A i \in 1..Len(s) : HashOf[s[i]] \in HashesOf(s)
         /\ \A h \in HashesOf(s) : \E i \in 1..Len(s) : h = HashOf[s[i]]
<1>1. DOMAIN s = 1..Len(s) /\ \A i \in 1..Len(s) : s[i] \in Facts
  BY LenProperties, ElementOfSeq
<1>2. Range(s) = {s[i] : i \in 1..Len(s)}
  BY <1>1 DEF Range
<1> QED BY <1>1, <1>2 DEF HashesOf, Hashes

LEMMA HashesOfEmpty == <<>> \in Seq(Facts) /\ Len(<<>>) = 0 /\ HashesOf(<<>>) = {}
<1>1. <<>> \in Seq(Facts) /\ Len(<<>>) = 0 /\ 1..0 = {}
  BY EmptySeq
<1>2. HashesOf(<<>>) = {HashOf[<<>>[i]] : i \in 1..0}
  BY <1>1, HashesOfSeq
<1> QED BY <1>1, <1>2

LEMMA HashesOfAppend ==
  ASSUME NEW s \in Seq(Facts), NEW f \in Facts
  PROVE  /\ Append(s, f) \in Seq(Facts)
         /\ HashesOf(Append(s, f)) = HashesOf(s) \union {HashOf[f]}
         /\ Distinct(s) /\ HashOf[f] \notin HashesOf(s) => Distinct(Append(s, f))
<1>1. /\ Append(s, f) \in Seq(Facts) /\ Len(Append(s, f)) = Len(s) + 1 /\ Len(s) \in Nat
      /\ \A i \in 1..Len(s) : Append(s, f)[i] = s[i]
      /\ Append(s, f)[Len(s) + 1] = f
  OBVIOUS
<1>2. 1..(Len(s) + 1) = 1..Len(s) \union {Len(s) + 1}
  BY <1>1
<1>3. HashesOf(Append(s, f)) = HashesOf(s) \union {HashOf[f]}
  <2> DEFINE t == Append(s, f)
  <2>1. ASSUME NEW h \in HashesOf(t) PROVE h \in HashesOf(s) \union {HashOf[f]}
    <3>1. PICK i \in 1..(Len(s) + 1) : h = HashOf[t[i]]
      BY <1>1, HashesOfSeq
    <3> QED BY <1>1, <1>2, <3>1, HashesOfSeq
  <2>2. ASSUME NEW h \in HashesOf(s) PROVE h \in HashesOf(t)
    <3>1. PICK i \in 1..Len(s) : h = HashOf[s[i]]
      BY HashesOfSeq
    <3>2. i \in 1..Len(t) /\ t[i] = s[i]
      BY <1>1, <1>2
    <3> HIDE DEF t
    <3> QED BY <1>1, <3>1, <3>2, HashesOfSeq DEF t
  <2>3. HashOf[f] \in HashesOf(t)
    <3>1. Len(t) \in 1..Len(t) /\ t[Len(t)] = f
      BY <1>1, <1>2
    <3> QED BY <1>1, <3>1, HashesOfSeq
  <2> HIDE DEF t
  <2> QED BY <2>1, <2>2, <2>3 DEF t
<1>4. ASSUME Distinct(s), HashOf[f] \notin HashesOf(s) PROVE Distinct(Append(s, f))
  <2>1. \A i \in 1..Len(s) : HashOf[s[i]] # HashOf[f]
    BY <1>4, HashesOfSeq
  <2> QED BY <1>1, <1>2, <1>4, <2>1 DEF Distinct
<1> QED BY <1>1, <1>3, <1>4

LEMMA HashesOfConcat ==
  ASSUME NEW s \in Seq(Facts), NEW t \in Seq(Facts), Distinct(s), Distinct(t),
         HashesOf(s) \intersect HashesOf(t) = {}
  PROVE  /\ s \o t \in Seq(Facts) /\ Distinct(s \o t)
         /\ HashesOf(s \o t) = HashesOf(s) \union HashesOf(t)
<1> DEFINE u == s \o t
<1>1. /\ u \in Seq(Facts) /\ Len(s) \in Nat /\ Len(t) \in Nat /\ Len(u) = Len(s) + Len(t)
      /\ \A i \in 1..Len(u) : u[i] = IF i <= Len(s) THEN s[i] ELSE t[i - Len(s)]
  BY ConcatProperties, LenProperties
<1> HIDE DEF u
<1>2. \A i \in 1..Len(s) : i \in 1..Len(u) /\ u[i] = s[i]
  BY <1>1
<1>3. \A i \in 1..Len(t) : i + Len(s) \in 1..Len(u) /\ u[i + Len(s)] = t[i]
  BY <1>1
<1>4. \A i \in 1..Len(u) : \/ i \in 1..Len(s) /\ u[i] = s[i]
                           \/ i - Len(s) \in 1..Len(t) /\ u[i] = t[i - Len(s)]
  BY <1>1
<1>5. HashesOf(u) = HashesOf(s) \union HashesOf(t)
  <2>1. ASSUME NEW h \in HashesOf(u) PROVE h \in HashesOf(s) \union HashesOf(t)
    <3>1. PICK i \in 1..Len(u) : h = HashOf[u[i]]
      BY <1>1, HashesOfSeq
    <3> QED BY <1>4, <3>1, HashesOfSeq
  <2>2. ASSUME NEW h \in HashesOf(s) PROVE h \in HashesOf(u)
    <3>1. PICK i \in 1..Len(s) : h = HashOf[s[i]]
      BY HashesOfSeq
    <3> QED BY <1>1, <1>2, <3>1, HashesOfSeq
  <2>3. ASSUME NEW h \in HashesOf(t) PROVE h \in HashesOf(u)
    <3>1. PICK i \in 1..Len(t) : h = HashOf[t[i]]
      BY HashesOfSeq
    <3> QED BY <1>1, <1>3, <3>1, HashesOfSeq
  <2> QED BY <2>1, <2>2, <2>3
<1>6. ASSUME NEW i \in 1..Len(u), NEW j \in 1..Len(u), HashOf[u[i]] = HashOf[u[j]]
      PROVE  i = j
  <2>1. \A k \in 1..Len(s), l \in 1..Len(t) : HashOf[s[k]] # HashOf[t[l]]
    BY HashesOfSeq
  <2>2. CASE i \in 1..Len(s) /\ j \in 1..Len(s)
    BY <1>2, <1>6, <2>2 DEF Distinct
  <2>3. CASE i \notin 1..Len(s) /\ j \notin 1..Len(s)
    <3>1. /\ i - Len(s) \in 1..Len(t) /\ u[i] = t[i - Len(s)]
          /\ j - Len(s) \in 1..Len(t) /\ u[j] = t[j - Len(s)]
      BY <1>4, <2>3
    <3>2. i - Len(s) = j - Len(s)
      BY <1>6, <3>1 DEF Distinct
    <3> QED BY <1>1, <3>2
  <2>4. CASE i \in 1..Len(s) /\ j \notin 1..Len(s)
    <3>1. u[i] = s[i] /\ j - Len(s) \in 1..Len(t) /\ u[j] = t[j - Len(s)]
      BY <1>2, <1>4, <2>4
    <3> QED BY <1>6, <2>1, <2>4, <3>1
  <2>5. CASE i \notin 1..Len(s) /\ j \in 1..Len(s)
    <3>1. u[j] = s[j] /\ i - Len(s) \in 1..Len(t) /\ u[i] = t[i - Len(s)]
      BY <1>2, <1>4, <2>5
    <3> QED BY <1>6, <2>1, <2>5, <3>1
  <2> QED BY <2>2, <2>3, <2>4, <2>5
<1> QED BY <1>1, <1>5, <1>6 DEF Distinct, u

(* A sequence of distinct facts, cut in two.                                *)
LEMMA HashesOfCut ==
  ASSUME NEW u \in Seq(Facts), Distinct(u), NEW cut \in 0..Len(u)
  PROVE  LET out  == SubSeq(u, 1, cut)
             kept == SubSeq(u, cut + 1, Len(u))
         IN /\ out \in Seq(Facts) /\ kept \in Seq(Facts) /\ Distinct(kept)
            /\ Len(kept) = Len(u) - cut
            /\ HashesOf(kept) = HashesOf(u) \ HashesOf(out)
            /\ HashesOf(out) \subseteq HashesOf(u)
            /\ cut = 0 => HashesOf(out) = {}
<1> DEFINE out  == SubSeq(u, 1, cut)
           kept == SubSeq(u, cut + 1, Len(u))
<1>1. Len(u) \in Nat /\ \A i \in 1..Len(u) : u[i] \in Facts
  BY LenProperties, ElementOfSeq
<1>2. /\ out \in Seq(Facts) /\ Len(out) = cut
      /\ \A i \in 1..cut : out[i] = u[i]
  BY <1>1, SubSeqProperties
<1>3. /\ kept \in Seq(Facts) /\ Len(kept) = Len(u) - cut
      /\ \A i \in 1..(Len(u) - cut) : kept[i] = u[cut + i]
  <2>1. \A i \in (cut + 1)..Len(u) : u[i] \in Facts
    BY <1>1
  <2>2. /\ kept \in Seq(Facts)
        /\ Len(kept) = IF cut + 1 <= Len(u) THEN Len(u) - (cut + 1) + 1 ELSE 0
        /\ \A i \in 1..(Len(u) - (cut + 1) + 1) : kept[i] = u[(cut + 1) + i - 1]
    BY <1>1, <2>1, SubSeqProperties
  <2> QED BY <1>1, <2>2
<1> HIDE DEF out, kept
<1>4. Distinct(kept)
  <2> SUFFICES ASSUME NEW i \in 1..Len(kept), NEW j \in 1..Len(kept),
                      HashOf[kept[i]] = HashOf[kept[j]]
               PROVE  i = j
    BY DEF Distinct
  <2>1. /\ cut + i \in 1..Len(u) /\ kept[i] = u[cut + i]
        /\ cut + j \in 1..Len(u) /\ kept[j] = u[cut + j]
    BY <1>1, <1>3
  <2>2. cut + i = cut + j
    BY <2>1 DEF Distinct
  <2> QED BY <1>1, <1>3, <2>2
<1>5. HashesOf(out) \subseteq HashesOf(u)
  BY <1>1, <1>2, HashesOfSeq
<1>6. HashesOf(kept) \subseteq HashesOf(u)
  <2>1. \A i \in 1..Len(kept) : cut + i \in 1..Len(u) /\ kept[i] = u[cut + i]
    BY <1>1, <1>3
  <2> QED BY <1>1, <1>3, <2>1, HashesOfSeq
<1>7. HashesOf(kept) \intersect HashesOf(out) = {}
  <2> SUFFICES ASSUME NEW h, h \in HashesOf(kept), h \in HashesOf(out) PROVE FALSE
    OBVIOUS
  <2>1. PICK i \in 1..Len(kept) : h = HashOf[kept[i]]
    BY <1>3, HashesOfSeq
  <2>2. PICK j \in 1..Len(out) : h = HashOf[out[j]]
    BY <1>2, HashesOfSeq
  <2>3. cut + i \in 1..Len(u) /\ kept[i] = u[cut + i]
    BY <1>1, <1>3
  <2>4. j \in 1..Len(u) /\ out[j] = u[j] /\ j <= cut
    BY <1>1, <1>2
  <2>5. cut + i = j
    BY <2>1, <2>2, <2>3, <2>4 DEF Distinct
  <2> QED BY <2>4, <2>5
<1>8. HashesOf(u) \subseteq HashesOf(kept) \union HashesOf(out)
  <2> SUFFICES ASSUME NEW i \in 1..Len(u) PROVE HashOf[u[i]] \in HashesOf(kept) \union HashesOf(out)
    BY HashesOfSeq
  <2>1. CASE i <= cut
    BY <1>2, <2>1, HashesOfSeq
  <2>2. CASE ~(i <= cut)
    <3>1. i - cut \in 1..Len(kept) /\ kept[i - cut] = u[i]
      BY <1>1, <1>3, <2>2
    <3> QED BY <1>3, <3>1, HashesOfSeq
  <2> QED BY <2>1, <2>2
<1>9. cut = 0 => HashesOf(out) = {}
  <2>1. cut = 0 => 1..Len(out) = {}
    BY <1>2
  <2> QED BY <1>2, <2>1, HashesOfSeq
<1> QED BY <1>2, <1>3, <1>4, <1>5, <1>6, <1>7, <1>8, <1>9 DEF out, kept

(* Distinct facts are as many as their hashes.                              *)
LEMMA HashesAreCounted ==
  ASSUME NEW s \in Seq(Facts), Distinct(s)
  PROVE  Cardinality(HashesOf(s)) = Len(s)
<1> DEFINE f == [i \in 1..Len(s) |-> HashOf[s[i]]]
<1>1. HashesOf(s) = {HashOf[s[i]] : i \in 1..Len(s)} /\ Len(s) \in Nat
  BY HashesOfSeq, LenProperties
<1>2. f \in Bijection(1..Len(s), HashesOf(s))
  BY <1>1, Fun_IsBij DEF Distinct
<1> QED BY <1>1, <1>2, FS_CountingElements DEF ExistsBijection

-----------------------------------------------------------------------------
(* deduplicateFacts gives facts with hashes that are new and distinct, and  *)
(* has seen them.                                                           *)
First == [seen |-> seenHashes, new |-> <<>>]
Fresh(s) ==
  /\ s.new \in Seq(Facts) /\ Distinct(s.new)
  /\ s.seen = seenHashes \union HashesOf(s.new)
  /\ seenHashes \intersect HashesOf(s.new) = {}

LEMMA TakenKeeps ==
  ASSUME NEW s, Fresh(s), NEW f \in Facts
  PROVE  Fresh(Taken(s, f))
<1>1. CASE HashOf[f] \in s.seen
  BY <1>1 DEF Taken
<1>2. CASE HashOf[f] \notin s.seen
  <2>1. /\ Taken(s, f).seen = s.seen \union {HashOf[f]}
        /\ Taken(s, f).new = Append(s.new, f)
    BY <1>2 DEF Taken
  <2>2. /\ Append(s.new, f) \in Seq(Facts) /\ Distinct(Append(s.new, f))
        /\ HashesOf(Append(s.new, f)) = HashesOf(s.new) \union {HashOf[f]}
    BY <1>2, HashesOfAppend DEF Fresh
  <2> QED BY <1>2, <2>1, <2>2 DEF Fresh
<1> QED BY <1>1, <1>2

(* The loop over the extracted facts is a function of how many it has seen. *)
LEMMA DeduplicationIsDefined ==
  ASSUME NEW facts, NEW n \in Nat
  PROVE  \E after : after = [i \in 0..n |-> IF i = 0 THEN First
                                            ELSE Taken(after[i - 1], facts[i])]
<1> DEFINE Follows(f, k) == f = [i \in 0..k |-> IF i = 0 THEN First
                                                ELSE Taken(f[i - 1], facts[i])]
           Lengths == {k \in Nat : \E f : Follows(f, k)}
<1>1. 0 \in Lengths
  <2> DEFINE f == [i \in 0..0 |-> First]
  <2>1. Follows(f, 0)
    OBVIOUS
  <2> QED BY <2>1
<1>2. ASSUME NEW k \in Nat, k \in Lengths PROVE k + 1 \in Lengths
  <2>1. PICK f : Follows(f, k)
    BY <1>2
  <2> DEFINE g == [i \in 0..(k + 1) |-> IF i <= k THEN f[i] ELSE Taken(f[k], facts[k + 1])]
  <2>2. ASSUME NEW i \in 0..(k + 1)
        PROVE  g[i] = IF i = 0 THEN First ELSE Taken(g[i - 1], facts[i])
    <3>1. CASE i <= k
      <4>1. g[i] = f[i] /\ (i # 0 => g[i - 1] = f[i - 1])
        BY <3>1
      <4>2. f[i] = IF i = 0 THEN First ELSE Taken(f[i - 1], facts[i])
        BY <2>1, <3>1
      <4> QED BY <4>1, <4>2
    <3>2. CASE i = k + 1
      <4>1. g[i] = Taken(f[k], facts[i]) /\ g[i - 1] = f[k] /\ i # 0
        BY <3>2
      <4> QED BY <4>1
    <3> QED BY <3>1, <3>2
  <2>3. g = [i \in 0..(k + 1) |-> g[i]]
    OBVIOUS
  <2> HIDE DEF g
  <2>4. Follows(g, k + 1)
    BY <2>2, <2>3, Zenon
  <2> QED BY <2>4
<1> HIDE DEF Follows
<1>3. Nat \subseteq Lengths
  <2> HIDE DEF Lengths
  <2> QED BY <1>1, <1>2, InductionInSet
<1> QED BY <1>3 DEF Follows

LEMMA DeduplicatedIsFresh ==
  ASSUME NEW facts \in Seq(Facts)
  PROVE  Fresh(Deduplicated(facts))
<1> DEFINE n == Len(facts)
           after == CHOOSE f : f = [i \in 0..n |-> IF i = 0 THEN First
                                                  ELSE Taken(f[i - 1], facts[i])]
           Lengths == {i \in Nat : i <= n => Fresh(after[i])}
<1>0. n \in Nat /\ \A i \in 1..n : facts[i] \in Facts
  BY LenProperties, ElementOfSeq
<1>1. after = [i \in 0..n |-> IF i = 0 THEN First ELSE Taken(after[i - 1], facts[i])]
  <2> HIDE DEF n
  <2> QED BY <1>0, DeduplicationIsDefined
<1>2. Deduplicated(facts) = after[n]
  BY DEF Deduplicated, First
<1> HIDE DEF after, n
<1>3. 0 \in Lengths
  <2>1. after[0] = First
    BY <1>0, <1>1
  <2>2. Fresh(First)
    <3>1. Distinct(<<>>)
      <4>1. 1..Len(<<>>) = {}
        BY HashesOfEmpty
      <4> QED BY <4>1 DEF Distinct
    <3> QED BY <3>1, HashesOfEmpty DEF First, Fresh
  <2> QED BY <2>1, <2>2
<1>4. ASSUME NEW i \in Nat, i \in Lengths PROVE i + 1 \in Lengths
  <2> SUFFICES ASSUME i + 1 <= n PROVE Fresh(after[i + 1])
    OBVIOUS
  <2>1. Fresh(after[i])
    BY <1>0, <1>4
  <2>2. after[i + 1] = Taken(after[i], facts[i + 1])
    <3>1. i + 1 \in 0..n /\ i + 1 # 0 /\ (i + 1) - 1 = i
      BY <1>0
    <3> QED BY <1>1, <3>1
  <2>3. facts[i + 1] \in Facts
    BY <1>0
  <2> QED BY <2>1, <2>2, <2>3, TakenKeeps
<1>5. Nat \subseteq Lengths
  <2> HIDE DEF Lengths
  <2> QED BY <1>3, <1>4, InductionInSet
<1> QED BY <1>0, <1>2, <1>5

-----------------------------------------------------------------------------
(* What an extraction leaves waiting, and what it pushes out.               *)
LEMMA ExtractedIs ==
  ASSUME MemoryInv, NEW facts \in Seq(Facts), Extracted(facts)
  PROVE  \E new, out :
           /\ new \subseteq Hashes /\ new \intersect seenHashes = {}
           /\ out \subseteq HashesOf(pendingMemories) \union new
           /\ seenHashes' = seenHashes \union new
           /\ pendingMemories' \in Seq(Facts) /\ Distinct(pendingMemories')
           /\ Len(pendingMemories') <= MaxPending
           /\ HashesOf(pendingMemories') = (HashesOf(pendingMemories) \union new) \ out
           /\ out # {} => Len(pendingMemories') = MaxPending
           /\ pushedOut' = pushedOut \union out
<1> DEFINE s        == Deduplicated(facts)
           combined == pendingMemories \o s.new
           cut  == IF Len(combined) > MaxPending THEN Len(combined) - MaxPending ELSE 0
           out  == SubSeq(combined, 1, cut)
           kept == SubSeq(combined, cut + 1, Len(combined))
<1>1. seenHashes' = s.seen /\ pendingMemories' = kept /\ pushedOut' = pushedOut \union HashesOf(out)
  BY DEF Extracted
<1>2. /\ s.new \in Seq(Facts) /\ Distinct(s.new)
      /\ s.seen = seenHashes \union HashesOf(s.new)
      /\ seenHashes \intersect HashesOf(s.new) = {}
  BY DeduplicatedIsFresh DEF Fresh
<1> HIDE DEF s
<1>3. /\ combined \in Seq(Facts) /\ Distinct(combined)
      /\ HashesOf(combined) = HashesOf(pendingMemories) \union HashesOf(s.new)
  BY <1>2, HashesOfConcat DEF MemoryInv
<1> HIDE DEF combined
<1>4. /\ cut \in 0..Len(combined) /\ Len(combined) - cut <= MaxPending
      /\ cut # 0 => Len(combined) - cut = MaxPending
  BY <1>3, LenProperties, MemoryAssumption
<1> HIDE DEF cut
<1>5. /\ kept \in Seq(Facts) /\ Distinct(kept) /\ Len(kept) = Len(combined) - cut
      /\ HashesOf(kept) = HashesOf(combined) \ HashesOf(out)
      /\ HashesOf(out) \subseteq HashesOf(combined)
      /\ cut = 0 => HashesOf(out) = {}
  BY <1>3, <1>4, HashesOfCut
<1> HIDE DEF out, kept
<1>6. HashesOf(s.new) \subseteq Hashes
  BY <1>2, HashesOfSeq
<1> QED BY <1>1, <1>2, <1>3, <1>4, <1>5, <1>6

LEMMA DistinctEmpty == Distinct(<<>>)
<1>1. 1..Len(<<>>) = {}
  BY HashesOfEmpty
<1> QED BY <1>1 DEF Distinct

LEMMA NothingHeld ==
  /\ 0 \in 0..(SaveEvery - 1) /\ 0 \in 0..0
  /\ <<>> \in Seq(Facts) /\ Len(<<>>) <= MaxPending
<1>1. <<>> \in Seq(Facts) /\ Len(<<>>) = 0
  BY EmptySeq
<1> QED BY <1>1, MemoryAssumption

LEMMA MemoryStarts == MemoryInit => MemoryInv
  BY DistinctEmpty, HashesOfEmpty, NothingHeld DEF MemoryInit, MemoryInv, MemoryHooks

LEMMA ExtractedFactsAre == ExtractedFacts \subseteq Seq(Facts)
  BY MemoryAssumption, SeqDef DEF ExtractedFacts

(* The steps.                                                               *)
LEMMA MemoryStep ==
  ASSUME MemoryInv, [MemoryNext]_memoryVars
  PROVE  MemoryInv'
<1>1. CASE MemorySessionStart
  BY <1>1, DistinctEmpty, HashesOfEmpty, NothingHeld
  DEF MemorySessionStart, MemoryInv, MemoryHooks
<1>2. CASE MemoryAfterTurn
  <2>1. memoryTurns' = IF memoryTurns + 1 = SaveEvery THEN 0 ELSE memoryTurns + 1
    <3>1. memoryTurns \in 0..(SaveEvery - 1) /\ SaveEvery \in Nat \ {0}
      BY MemoryAssumption DEF MemoryInv
    <3> QED BY <1>2, <3>1 DEF MemoryAfterTurn
  <2>2. memoryTurns' \in 0..(SaveEvery - 1) /\ memoryTurnBuffer' \in 0..memoryTurns'
    BY <1>2, <2>1, MemoryAssumption DEF MemoryAfterTurn, MemoryInv
  <2> QED BY <1>2, <2>2 DEF MemoryAfterTurn, MemoryInv, MemoryHooks
<1>3. CASE MemorySessionEnd
  BY <1>3, MemoryAssumption DEF MemorySessionEnd, MemoryInv, MemoryHooks
<1>4. ASSUME NEW facts \in ExtractedFacts, Extracted(facts) PROVE MemoryInv'
  <2>1. /\ memoryHook' \in MemoryHooks
        /\ UNCHANGED <<memoryEnding, memoryTurns, memoryTurnBuffer, storedHashes>>
    BY <1>4 DEF Extracted, AfterExtraction, MemoryHooks
  <2>2. facts \in Seq(Facts)
    BY ExtractedFactsAre
  <2>3. PICK new, out :
          /\ new \subseteq Hashes
          /\ out \subseteq HashesOf(pendingMemories) \union new
          /\ seenHashes' = seenHashes \union new
          /\ pendingMemories' \in Seq(Facts) /\ Distinct(pendingMemories')
          /\ Len(pendingMemories') <= MaxPending
          /\ HashesOf(pendingMemories') = (HashesOf(pendingMemories) \union new) \ out
          /\ pushedOut' = pushedOut \union out
    BY <1>4, <2>2, ExtractedIs
  <2> QED BY <2>1, <2>3 DEF MemoryInv
<1>5. CASE StoreAnswers
  <2>1. CASE storedHashes' = storedHashes \union HashesOf(pendingMemories) /\ pendingMemories' = <<>>
    BY <1>5, <2>1, DistinctEmpty, HashesOfEmpty, MemoryAssumption
    DEF StoreAnswers, MemoryInv, MemoryHooks
  <2>2. CASE UNCHANGED <<storedHashes, pendingMemories>>
    BY <1>5, <2>2 DEF StoreAnswers, MemoryInv, MemoryHooks
  <2> QED BY <1>5, <2>1, <2>2 DEF StoreAnswers
<1>6. CASE Distilled
  BY <1>6 DEF Distilled, MemoryInv, MemoryHooks
<1>7. CASE UNCHANGED memoryVars
  BY <1>7 DEF memoryVars, MemoryInv, HashesOf
<1> QED BY <1>1, <1>2, <1>3, <1>4, <1>5, <1>6, <1>7 DEF MemoryNext

LEMMA MemoryInvariant == MemorySpec => []MemoryInv
  BY MemoryStarts, MemoryStep, PTL DEF MemorySpec

(* The variables of the session memory keep their types.                    *)
THEOREM MemoryTypeCorrect == MemorySpec => []MemoryTypeOK
<1>1. MemoryInv => MemoryTypeOK
  <2> SUFFICES ASSUME MemoryInv PROVE MemoryTypeOK
    OBVIOUS
  <2>1. Range(pendingMemories) \subseteq Facts
    BY LenProperties, ElementOfSeq DEF MemoryInv, Range
  <2>2. memoryTurnBuffer \in 0..(SaveEvery - 1)
    BY MemoryAssumption DEF MemoryInv
  <2> QED BY <2>1, <2>2 DEF MemoryInv, MemoryTypeOK
<1> QED BY <1>1, MemoryInvariant, PTL

-----------------------------------------------------------------------------
(* Every step of the memory is one of the outbox, or changes nothing that   *)
(* it sees.                                                                 *)
LEMMA OutboxStep ==
  ASSUME MemoryInv, MemoryInv', [MemoryNext]_memoryVars
  PROVE  [Promised!Next]_Promised!outboxVars
<1>1. CASE MemorySessionStart
  <2>1. Promised!Close
    BY <1>1, HashesOfEmpty DEF MemorySessionStart, Promised!Close
  <2> QED BY <2>1 DEF Promised!Next
<1>2. ASSUME NEW facts \in ExtractedFacts, Extracted(facts) PROVE Promised!Accept
  <2>1. facts \in Seq(Facts) /\ UNCHANGED storedHashes
    BY <1>2, ExtractedFactsAre DEF Extracted
  <2>2. PICK new, out :
          /\ new \subseteq Hashes /\ new \intersect seenHashes = {}
          /\ out \subseteq HashesOf(pendingMemories) \union new
          /\ pendingMemories' \in Seq(Facts) /\ Distinct(pendingMemories')
          /\ Len(pendingMemories') <= MaxPending
          /\ HashesOf(pendingMemories') = (HashesOf(pendingMemories) \union new) \ out
          /\ out # {} => Len(pendingMemories') = MaxPending
          /\ pushedOut' = pushedOut \union out
    BY <1>2, <2>1, ExtractedIs
  <2>3. Cardinality(HashesOf(pendingMemories')) = Len(pendingMemories')
    BY <2>2, HashesAreCounted
  <2>4. new \in SUBSET (Hashes \ (HashesOf(pendingMemories) \union storedHashes \union pushedOut))
    BY <2>2 DEF MemoryInv
  <2>5. out \in SUBSET (HashesOf(pendingMemories) \union new)
    BY <2>2
  <2>6. HashesOf(pendingMemories)' = HashesOf(pendingMemories')
    BY DEF HashesOf
  <2> \A S : Promised!Cardinality(S) = Cardinality(S)
    BY DEF Promised!Cardinality, Cardinality
  <2>7. /\ HashesOf(pendingMemories)' = (HashesOf(pendingMemories) \union new) \ out
        /\ Cardinality(HashesOf(pendingMemories)') <= MaxPending
        /\ out # {} => Cardinality(HashesOf(pendingMemories)') = MaxPending
    BY <2>2, <2>3, <2>6
  <2> QED BY <2>1, <2>2, <2>4, <2>5, <2>7 DEF Promised!Accept
<1>3. CASE StoreAnswers
  <2>1. CASE storedHashes' = storedHashes \union HashesOf(pendingMemories) /\ pendingMemories' = <<>>
    <3>1. HashesOf(pendingMemories)' = {}
      BY <2>1, HashesOfEmpty DEF HashesOf
    <3> QED BY <1>3, <2>1, <3>1 DEF StoreAnswers, Promised!Next, Promised!Deliver
  <2>2. CASE UNCHANGED <<storedHashes, pendingMemories>>
    BY <1>3, <2>2 DEF StoreAnswers, Promised!outboxVars, HashesOf
  <2> QED BY <1>3, <2>1, <2>2 DEF StoreAnswers
<1>4. CASE UNCHANGED <<pendingMemories, storedHashes, pushedOut>>
  BY <1>4 DEF Promised!outboxVars, HashesOf
<1> QED
  BY <1>1, <1>2, <1>3, <1>4
  DEF MemoryNext, MemoryAfterTurn, MemorySessionEnd, Distilled, memoryVars, Promised!Next

(* Pending memories, retries, the limit and deduplication together are an   *)
(* outbox: a fact is taken in once, waits, and is acknowledged by the store *)
(* or pushed out at the limit, and never comes back from either: for any    *)
(* facts, hashes, limit and sizes of extractions.                           *)
THEOREM MemoryStaysAnOutbox == MemorySpec => MemoryIsAnOutbox
<1>1. MemoryInit => Promised!Init
  BY HashesOfEmpty DEF MemoryInit, Promised!Init
<1> QED
  BY <1>1, MemoryInvariant, OutboxStep, PTL DEF MemorySpec, MemoryIsAnOutbox, Promised!Spec

-----------------------------------------------------------------------------
(* The guard of direct messages.                                            *)

-----------------------------------------------------------------------------
(* The codes are in the order they were made, each once, and their number   *)
(* fits some capacity there has been.                                       *)
Older == {p \in Codes \X Codes : p[1] # p[2] /\ pendingCodes[p[1]] <= pendingCodes[p[2]]}
CodesInOrder ==
  /\ pendingCodeOrder \in Seq(Codes)
  /\ Range(pendingCodeOrder) = DOMAIN pendingCodes
  /\ InOrder(pendingCodeOrder, Older)
  /\ \E most \in Capacities : Cardinality(DOMAIN pendingCodes) <= most

PairingTypes ==
  /\ PairingTypeOK
  /\ pendingCodes \in [DOMAIN pendingCodes -> 0..pairingNow]
  /\ rateLimits \in [DOMAIN rateLimits -> [attempts : Nat, windowStart : Nat]]

PairingInv == PairingTypes /\ CodesInOrder

(* A list without repetitions is as long as the set of its elements.        *)
LEMMA OrderCounts ==
  ASSUME CodesInOrder
  PROVE  /\ IsFiniteSet(DOMAIN pendingCodes)
         /\ Cardinality(DOMAIN pendingCodes) = Len(pendingCodeOrder)
<1>1. /\ Len(pendingCodeOrder) \in Nat
      /\ Range(pendingCodeOrder) = DOMAIN pendingCodes
      /\ \A i \in 1..Len(pendingCodeOrder) :
           pendingCodeOrder[i] \in Range(pendingCodeOrder) /\ pendingCodeOrder[i] \in Codes
      /\ \A x \in Range(pendingCodeOrder) :
           \E i \in 1..Len(pendingCodeOrder) : x = pendingCodeOrder[i]
  BY RangeOf DEF CodesInOrder
<1>2. ASSUME NEW i \in 1..Len(pendingCodeOrder), NEW j \in 1..Len(pendingCodeOrder),
             pendingCodeOrder[i] = pendingCodeOrder[j]
      PROVE  i = j
  <2>1. ~(i < j) /\ ~(j < i)
    BY <1>2 DEF CodesInOrder, InOrder, Older
  <2> QED BY <1>1, <2>1
<1>3. pendingCodeOrder \in [1..Len(pendingCodeOrder) -> Codes]
  BY LenProperties, <1>1 DEF CodesInOrder
<1> QED BY <1>1, <1>2, <1>3, ListCounts

LEMMA OrderOfPending == PairingInv => OrderIsPending
<1> SUFFICES ASSUME PairingInv PROVE OrderIsPending
  OBVIOUS
<1>1. /\ Len(pendingCodeOrder) \in Nat /\ DOMAIN pendingCodeOrder = 1..Len(pendingCodeOrder)
      /\ \A x \in Range(pendingCodeOrder) :
           \E i \in 1..Len(pendingCodeOrder) : x = pendingCodeOrder[i]
  BY RangeOf, LenProperties DEF PairingInv, CodesInOrder
<1>2. Len(pendingCodeOrder) = Cardinality(DOMAIN pendingCodes)
  BY OrderCounts DEF PairingInv
<1>3. \A i, j \in 1..Len(pendingCodeOrder) :
        i < j => pendingCodes[pendingCodeOrder[i]] <= pendingCodes[pendingCodeOrder[j]]
  BY DEF PairingInv, CodesInOrder, InOrder, Older
<1> QED BY <1>1, <1>2, <1>3 DEF PairingInv, CodesInOrder, OrderIsPending

LEMMA PairingStarts == PairingInit => PairingInv
<1> SUFFICES ASSUME PairingInit PROVE PairingInv
  OBVIOUS
<1>1. DOMAIN <<>> = {} /\ Range(<<>>) = {} /\ <<>> \in Seq(Codes) /\ Len(<<>>) = 0
  BY DEF Range
<1>2. Cardinality({}) = 0
  BY FS_EmptySet
<1>3. maxPendingCodes \in Nat \ {0} /\ maxPendingCodes \in Capacities
  BY PairingAssumption DEF PairingInit
<1>4. CodesInOrder
  BY <1>1, <1>2, <1>3 DEF PairingInit, CodesInOrder, InOrder
<1>5. PairingTypes
  <2>1. /\ channelSet \subseteq AllChannels /\ maxPendingCodes \in Capacities
        /\ approvedPeers \subseteq Peers /\ loading \subseteq Peers /\ stored \subseteq Peers
        /\ drawn = {} /\ loads \in BOOLEAN /\ pairingNow \in 0..MaxPairingTime
    <3>1. \A p \in Peers : {p} \subseteq Peers
      OBVIOUS
    <3>2. 0 \in 0..MaxPairingTime
      BY PairingAssumption
    <3> QED BY <3>1, <3>2 DEF PairingInit
  <2>2. \A T : <<>> \in [DOMAIN <<>> -> T]
    BY <1>1
  <2>3. DOMAIN pendingCodes = {} /\ DOMAIN rateLimits = {}
    BY <1>1 DEF PairingInit
  <2>4. /\ pendingCodes \in [DOMAIN pendingCodes -> 0..pairingNow]
        /\ rateLimits \in [DOMAIN rateLimits -> [attempts : Nat, windowStart : Nat]]
    BY <2>2 DEF PairingInit
  <2> QED BY <2>1, <2>3, <2>4 DEF PairingTypes, PairingTypeOK
<1> QED BY <1>4, <1>5 DEF PairingInv

(* Taking codes out of the map and of the list.                             *)
LEMMA LessKeeps ==
  ASSUME PairingInv, NEW gone,
         pendingCodes' = Less(pendingCodes, gone),
         pendingCodeOrder' = Filtered(pendingCodeOrder, gone)
  PROVE  CodesInOrder'
<1>1. /\ DOMAIN pendingCodes' = DOMAIN pendingCodes \ gone
      /\ \A c \in DOMAIN pendingCodes' : pendingCodes'[c] = pendingCodes[c]
  BY DEF Less
<1>2. /\ pendingCodeOrder' \in Seq(Codes)
      /\ Range(pendingCodeOrder') = DOMAIN pendingCodes'
      /\ InOrder(pendingCodeOrder', Older)
  BY <1>1, FilteredOf DEF PairingInv, CodesInOrder
<1>3. InOrder(pendingCodeOrder', Older')
  <2> SUFFICES ASSUME NEW i \in 1..Len(pendingCodeOrder'), NEW j \in 1..Len(pendingCodeOrder'),
                      i < j
               PROVE  <<pendingCodeOrder'[i], pendingCodeOrder'[j]>> \in Older'
    BY DEF InOrder
  <2>1. pendingCodeOrder'[i] \in DOMAIN pendingCodes' /\ pendingCodeOrder'[j] \in DOMAIN pendingCodes'
    BY <1>2, RangeOf
  <2>2. <<pendingCodeOrder'[i], pendingCodeOrder'[j]>> \in Older
    BY <1>2 DEF InOrder
  <2> QED BY <1>1, <2>1, <2>2 DEF Older
<1>4. \E most \in Capacities : Cardinality(DOMAIN pendingCodes') <= most
  <2>1. IsFiniteSet(DOMAIN pendingCodes)
    BY OrderCounts DEF PairingInv
  <2>2. /\ Cardinality(DOMAIN pendingCodes') \in Nat /\ Cardinality(DOMAIN pendingCodes) \in Nat
        /\ Cardinality(DOMAIN pendingCodes') <= Cardinality(DOMAIN pendingCodes)
    BY <1>1, <2>1, FS_Subset, FS_CardinalityType
  <2>3. PICK most \in Capacities : Cardinality(DOMAIN pendingCodes) <= most
    BY DEF PairingInv, CodesInOrder
  <2>4. most \in Nat
    BY PairingAssumption
  <2> QED BY <2>2, <2>3, <2>4
<1> QED BY <1>2, <1>3, <1>4 DEF CodesInOrder

(* A new code: the head of the order gives way only when the map is full.   *)
LEMMA CodeIsMade == PairingInv /\ generateCode => CodesInOrder' /\ PairingTypes'
<1> SUFFICES ASSUME PairingInv, generateCode PROVE CodesInOrder' /\ PairingTypes'
  OBVIOUS
<1> DEFINE full == Cardinality(DOMAIN pendingCodes) >= maxPendingCodes /\ pendingCodeOrder # <<>>
           gone == IF full THEN {Head(pendingCodeOrder)} ELSE {}
           rest == IF full THEN Tail(pendingCodeOrder) ELSE pendingCodeOrder
           keys == DOMAIN pendingCodes \ gone
<1>1. PICK code \in Codes \ drawn :
        /\ drawn' = drawn \union {code}
        /\ pendingCodes' = With(Less(pendingCodes, gone), code, pairingNow)
        /\ pendingCodeOrder' = Append(rest, code)
        /\ UNCHANGED <<channelSet, maxPendingCodes, approvedPeers, rateLimits, loading, loads,
                       stored, pairingNow>>
  BY DEF generateCode
<1>2. /\ pendingCodeOrder \in Seq(Codes) /\ Range(pendingCodeOrder) = DOMAIN pendingCodes
      /\ InOrder(pendingCodeOrder, Older) /\ \A x : <<x, x>> \notin Older
  BY DEF PairingInv, CodesInOrder, Older
<1>3. rest \in Seq(Codes) /\ Range(rest) = keys /\ InOrder(rest, Older)
  <2>1. CASE full
    BY <1>2, <2>1, TailInOrder
  <2>2. CASE ~full
    BY <1>2, <2>2
  <2> QED BY <2>1, <2>2
<1>4. DOMAIN pendingCodes \subseteq drawn /\ keys \subseteq DOMAIN pendingCodes
  BY DEF PairingInv, PairingTypes, PairingTypeOK
<1>5. /\ code \notin keys /\ code \notin DOMAIN pendingCodes
      /\ DOMAIN pendingCodes' = keys \union {code}
      /\ pendingCodes'[code] = pairingNow
      /\ \A c \in keys : pendingCodes'[c] = pendingCodes[c]
  <2>1. DOMAIN Less(pendingCodes, gone) = keys /\ \A c \in keys : Less(pendingCodes, gone)[c] = pendingCodes[c]
    BY DEF Less
  <2>2. code \notin keys /\ code \notin DOMAIN pendingCodes
    BY <1>4
  <2> HIDE DEF gone, keys
  <2> QED BY <1>1, <2>1, <2>2 DEF With
<1>6. \A c \in DOMAIN pendingCodes : pendingCodes[c] \in 0..pairingNow
  BY DEF PairingInv, PairingTypes
<1>7. pairingNow \in Nat
  BY DEF PairingInv, PairingTypes, PairingTypeOK
<1>8. InOrder(pendingCodeOrder', Older')
  <2>1. InOrder(rest, Older')
    <3> SUFFICES ASSUME NEW i \in 1..Len(rest), NEW j \in 1..Len(rest), i < j
                 PROVE  <<rest[i], rest[j]>> \in Older'
      BY DEF InOrder
    <3>1. rest[i] \in keys /\ rest[j] \in keys
      <4> HIDE DEF rest, keys
      <4> QED BY <1>3, RangeOf
    <3>2. <<rest[i], rest[j]>> \in Older
      BY <1>3 DEF InOrder
    <3> HIDE DEF rest, keys
    <3> QED BY <1>5, <3>1, <3>2 DEF Older
  <2>2. \A c \in Range(rest) : <<c, code>> \in Older'
    <3> SUFFICES ASSUME NEW c \in keys PROVE <<c, code>> \in Older'
      BY <1>3
    <3>1. c \in Codes /\ c # code /\ pendingCodes[c] <= pairingNow
      <4>1. c \in drawn /\ c \in DOMAIN pendingCodes
        BY <1>4
      <4>2. drawn \subseteq Codes
        BY DEF PairingInv, PairingTypes, PairingTypeOK
      <4> QED BY <1>6, <1>7, <4>1, <4>2
    <3> HIDE DEF keys
    <3> QED BY <1>5, <3>1 DEF Older
  <2> HIDE DEF rest
  <2> QED BY <1>1, <1>3, <2>1, <2>2, AppendInOrder
<1>9. pendingCodeOrder' \in Seq(Codes) /\ Range(pendingCodeOrder') = DOMAIN pendingCodes'
  <2> HIDE DEF rest, keys
  <2>1. code \in Codes /\ rest \in Seq(Codes)
    BY <1>3
  <2>2. Append(rest, code) \in Seq(Codes) /\ Range(Append(rest, code)) = Range(rest) \union {code}
    BY <2>1, RangeAppend
  <2>3. pendingCodeOrder' = Append(rest, code)
    BY <1>1
  <2> QED BY <1>3, <1>5, <2>2, <2>3
<1>10. \E most \in Capacities : Cardinality(DOMAIN pendingCodes') <= most
  <2>1. /\ IsFiniteSet(DOMAIN pendingCodes)
        /\ Cardinality(DOMAIN pendingCodes) = Len(pendingCodeOrder)
    BY OrderCounts DEF PairingInv
  <2>2. /\ Cardinality(DOMAIN pendingCodes) \in Nat
        /\ maxPendingCodes \in Capacities /\ maxPendingCodes \in Nat \ {0}
    BY <2>1, FS_CardinalityType, PairingAssumption DEF PairingInv, PairingTypes, PairingTypeOK
  <2>3. IsFiniteSet(keys) /\ Cardinality(keys) \in Nat
    BY <1>4, <2>1, FS_Subset, FS_CardinalityType
  <2>4. Cardinality(DOMAIN pendingCodes') = Cardinality(keys) + 1
    <3> HIDE DEF keys
    <3> QED BY <1>5, <2>3, FS_AddElement
  <2>5. CASE full
    <3>1. PICK most \in Capacities : Cardinality(DOMAIN pendingCodes) <= most
      BY DEF PairingInv, CodesInOrder
    <3>2. Head(pendingCodeOrder) \in DOMAIN pendingCodes
      BY <1>2, <2>5, TailInOrder
    <3>3. Cardinality(keys) = Cardinality(DOMAIN pendingCodes) - 1
      BY <2>1, <2>5, <3>2, FS_RemoveElement
    <3>4. most \in Nat
      BY PairingAssumption
    <3> HIDE DEF keys
    <3> QED BY <2>2, <2>4, <3>1, <3>3, <3>4
  <2>6. CASE ~full
    <3>1. keys = DOMAIN pendingCodes
      BY <2>6
    <3>2. CASE Cardinality(DOMAIN pendingCodes) < maxPendingCodes
      <4> HIDE DEF keys
      <4> QED BY <2>2, <2>4, <3>1, <3>2
    <3>3. CASE pendingCodeOrder = <<>>
      <4>1. Cardinality(keys) = 0
        BY <2>1, <3>1, <3>3, EmptySeq
      <4> HIDE DEF keys
      <4> QED BY <2>2, <2>4, <4>1
    <3>4. ~(Cardinality(DOMAIN pendingCodes) >= maxPendingCodes) \/ pendingCodeOrder = <<>>
      BY <2>6
    <3>5. Cardinality(DOMAIN pendingCodes) < maxPendingCodes \/ pendingCodeOrder = <<>>
      <4> DEFINE n == Cardinality(DOMAIN pendingCodes)
      <4>1. /\ n \in Nat /\ maxPendingCodes \in Nat
            /\ ~(n >= maxPendingCodes) \/ pendingCodeOrder = <<>>
        BY <2>2, <3>4
      <4> HIDE DEF n
      <4>2. n < maxPendingCodes \/ pendingCodeOrder = <<>>
        BY <4>1
      <4> QED BY <4>2 DEF n
    <3> HIDE DEF full, gone, rest, keys
    <3> QED BY <3>2, <3>3, <3>5, Zenon
  <2> QED BY <2>5, <2>6
<1>11. CodesInOrder'
  BY <1>8, <1>9, <1>10 DEF CodesInOrder
<1>12. PairingTypes'
  <2>1. \A c \in DOMAIN pendingCodes' : pendingCodes'[c] \in 0..pairingNow'
    <3> HIDE DEF keys
    <3> SUFFICES ASSUME NEW c \in DOMAIN pendingCodes' PROVE pendingCodes'[c] \in 0..pairingNow
      BY <1>1
    <3>1. CASE c = code
      BY <1>5, <1>7, <3>1
    <3>2. CASE c \in keys
      BY <1>4, <1>5, <1>6, <3>2
    <3> QED BY <1>5, <3>1, <3>2
  <2>2. pendingCodes' = [c \in DOMAIN pendingCodes' |-> pendingCodes'[c]]
    BY <1>1 DEF With
  <2>3. DOMAIN pendingCodes' \subseteq drawn' /\ drawn' \subseteq Codes
    <3>1. drawn \subseteq Codes
      BY DEF PairingInv, PairingTypes, PairingTypeOK
    <3> HIDE DEF keys
    <3> QED BY <1>1, <1>4, <1>5, <3>1
  <2>4. pendingCodes' \in [DOMAIN pendingCodes' -> 0..pairingNow']
    BY <2>1, <2>2
  <2> HIDE DEF gone, rest, keys
  <2>5. PairingTypeOK'
    BY <1>1, <2>3 DEF PairingInv, PairingTypes, PairingTypeOK
  <2> QED BY <1>1, <2>4, <2>5 DEF PairingInv, PairingTypes
<1> QED BY <1>11, <1>12

(* The limits of the peers, as the message of one of them leaves them.      *)
LimitsOK == \A p \in DOMAIN rateLimits :
  /\ p \in Peers /\ rateLimits[p].attempts \in 1..MaxPairAttempts
  /\ rateLimits[p] \in [attempts : Nat, windowStart : Nat]

LEMMA LimitsOf ==
  ASSUME PairingTypes
  PROVE  LimitsOK
<1> SUFFICES ASSUME NEW p \in DOMAIN rateLimits
             PROVE  /\ p \in Peers /\ rateLimits[p].attempts \in 1..MaxPairAttempts
                    /\ rateLimits[p] \in [attempts : Nat, windowStart : Nat]
  BY DEF LimitsOK
<1>1. p \in Peers /\ rateLimits[p].attempts \in 1..MaxPairAttempts
  BY DEF PairingTypes, PairingTypeOK
<1>2. rateLimits[p] \in [attempts : Nat, windowStart : Nat]
  BY DEF PairingTypes
<1> QED BY <1>1, <1>2

LEMMA TypesOf ==
  ASSUME channelSet' \subseteq AllChannels, maxPendingCodes' \in Capacities,
         approvedPeers' \subseteq Peers, loading' \subseteq Peers, stored' \subseteq Peers,
         DOMAIN pendingCodes' \subseteq drawn', drawn' \subseteq Codes,
         loads' \in BOOLEAN, pairingNow' \in 0..MaxPairingTime,
         pendingCodes' \in [DOMAIN pendingCodes' -> 0..pairingNow'],
         rateLimits' = [p \in DOMAIN rateLimits' |-> rateLimits'[p]],
         LimitsOK'
  PROVE  PairingTypes'
<1>1. PairingTypeOK'
  BY DEF PairingTypeOK, LimitsOK
<1>2. rateLimits' \in [DOMAIN rateLimits' -> [attempts : Nat, windowStart : Nat]]
  BY DEF LimitsOK
<1> QED BY <1>1, <1>2 DEF PairingTypes

LEMMA AttemptCounts ==
  ASSUME PairingTypes, NEW peer \in Peers, ~isRateLimited(peer), incrementRateLimit(peer)
  PROVE  LimitsOK' /\ rateLimits' = [p \in DOMAIN rateLimits' |-> rateLimits'[p]]
<1> DEFINE entry == IF WithinWindow(peer) THEN [rateLimits[peer] EXCEPT !.attempts = @ + 1]
                    ELSE [attempts |-> 1, windowStart |-> pairingNow]
<1>1. rateLimits' = With(rateLimits, peer, entry)
  BY DEF incrementRateLimit
<1>2. entry.attempts \in 1..MaxPairAttempts /\ entry \in [attempts : Nat, windowStart : Nat]
  <2>1. CASE WithinWindow(peer)
    <3>1. /\ rateLimits[peer].attempts \in 1..MaxPairAttempts
          /\ rateLimits[peer] \in [attempts : Nat, windowStart : Nat]
      BY <2>1, LimitsOf DEF LimitsOK, WithinWindow
    <3>2. ~(rateLimits[peer].attempts >= MaxPairAttempts)
      BY <2>1 DEF isRateLimited
    <3>3. entry = [rateLimits[peer] EXCEPT !.attempts = @ + 1]
      BY <2>1
    <3>4. /\ entry.attempts = rateLimits[peer].attempts + 1
          /\ entry \in [attempts : Nat, windowStart : Nat]
      BY <3>1, <3>3
    <3> HIDE DEF entry
    <3> QED BY <3>1, <3>2, <3>4, PairingAssumption
  <2>2. CASE ~WithinWindow(peer)
    <3>1. entry = [attempts |-> 1, windowStart |-> pairingNow]
      BY <2>2
    <3>2. pairingNow \in Nat
      BY DEF PairingTypes, PairingTypeOK
    <3> HIDE DEF entry
    <3> QED BY <3>1, <3>2, PairingAssumption
  <2> QED BY <2>1, <2>2
<1> HIDE DEF entry
<1>3. /\ DOMAIN rateLimits' = DOMAIN rateLimits \union {peer}
      /\ rateLimits'[peer] = entry
      /\ \A p \in DOMAIN rateLimits : p # peer => rateLimits'[p] = rateLimits[p]
  BY <1>1 DEF With
<1>4. LimitsOK'
  <2> SUFFICES ASSUME NEW p \in DOMAIN rateLimits'
               PROVE  /\ p \in Peers /\ rateLimits'[p].attempts \in 1..MaxPairAttempts
                      /\ rateLimits'[p] \in [attempts : Nat, windowStart : Nat]
    BY DEF LimitsOK, Peers
  <2>1. CASE p = peer
    BY <1>2, <1>3, <2>1
  <2>2. CASE p \in DOMAIN rateLimits /\ p # peer
    BY <1>3, <2>2, LimitsOf DEF LimitsOK
  <2> QED BY <1>3, <2>1, <2>2
<1> QED BY <1>1, <1>4 DEF With

LEMMA LimitsDrop ==
  ASSUME PairingTypes, NEW gone, rateLimits' = Less(rateLimits, gone)
  PROVE  LimitsOK' /\ rateLimits' = [p \in DOMAIN rateLimits' |-> rateLimits'[p]]
<1>1. /\ DOMAIN rateLimits' = DOMAIN rateLimits \ gone
      /\ \A p \in DOMAIN rateLimits' : rateLimits'[p] = rateLimits[p]
  BY DEF Less
<1>2. LimitsOK'
  BY <1>1, LimitsOf DEF LimitsOK, Peers
<1> QED BY <1>2 DEF Less

(* A message: its code is consumed, or its attempt is counted.              *)
LEMMA MessageIsChecked ==
  ASSUME PairingInv, NEW peer \in Peers, NEW code \in Codes, checkSender(peer, code)
  PROVE  CodesInOrder' /\ PairingTypes'
<1>1. UNCHANGED <<channelSet, maxPendingCodes, loading, loads, stored, drawn, pairingNow>>
  BY DEF checkSender
<1>2. PairingTypes /\ PairingTypeOK
  BY DEF PairingInv, PairingTypes
<1>3. CASE Pair(peer, code)
  <2>1. pendingCodes' = Less(pendingCodes, {code}) /\ approvedPeers' \subseteq Peers
    BY <1>2, <1>3 DEF Pair, PairingTypeOK
  <2>2. CodesInOrder'
    BY <1>3, LessKeeps DEF Pair
  <2>3. /\ DOMAIN pendingCodes' \subseteq DOMAIN pendingCodes
        /\ pendingCodes' \in [DOMAIN pendingCodes' -> 0..pairingNow']
    BY <1>1, <1>2, <2>1 DEF PairingTypes, Less
  <2>4. LimitsOK' /\ rateLimits' = [p \in DOMAIN rateLimits' |-> rateLimits'[p]]
    BY <1>2, <1>3, LimitsDrop DEF Pair
  <2>5. PairingTypes'
    BY <1>1, <1>2, <2>1, <2>3, <2>4, TypesOf DEF PairingTypeOK
  <2> QED BY <2>2, <2>5
<1>4. CASE incrementRateLimit(peer) /\ UNCHANGED <<approvedPeers, pendingCodes, pendingCodeOrder>>
  <2>1. LimitsOK' /\ rateLimits' = [p \in DOMAIN rateLimits' |-> rateLimits'[p]]
    BY <1>2, <1>4, AttemptCounts DEF checkSender
  <2>2. PairingTypes'
    BY <1>1, <1>2, <1>4, <2>1, TypesOf DEF PairingTypes, PairingTypeOK
  <2>3. CodesInOrder'
    BY <1>4 DEF PairingInv, CodesInOrder, Older, InOrder
  <2> QED BY <2>2, <2>3
<1> QED BY <1>3, <1>4 DEF checkSender

(* The other steps take expired codes away, or leave the codes alone.       *)
LEMMA SweepKeeps == PairingInv /\ sweep => CodesInOrder' /\ PairingTypes'
<1> SUFFICES ASSUME PairingInv, sweep PROVE CodesInOrder' /\ PairingTypes'
  OBVIOUS
<1> DEFINE expired == {c \in DOMAIN pendingCodes : Expired(c)}
<1>1. /\ pendingCodes' = Less(pendingCodes, expired)
      /\ pendingCodeOrder' = Filtered(pendingCodeOrder, expired)
      /\ rateLimits' = Less(rateLimits, {p \in DOMAIN rateLimits : ~WithinWindow(p)})
      /\ UNCHANGED <<channelSet, maxPendingCodes, approvedPeers, loading, loads, stored, drawn,
                     pairingNow>>
  BY DEF sweep
<1> HIDE DEF expired
<1>2. PairingTypes /\ PairingTypeOK
  BY DEF PairingInv, PairingTypes
<1>3. CodesInOrder'
  BY <1>1, LessKeeps
<1>4. LimitsOK' /\ rateLimits' = [p \in DOMAIN rateLimits' |-> rateLimits'[p]]
  BY <1>1, <1>2, LimitsDrop
<1>5. /\ DOMAIN pendingCodes' \subseteq DOMAIN pendingCodes
      /\ pendingCodes' \in [DOMAIN pendingCodes' -> 0..pairingNow']
  BY <1>1, <1>2 DEF PairingTypes, Less
<1>6. PairingTypes'
  BY <1>1, <1>2, <1>4, <1>5, TypesOf DEF PairingTypeOK
<1> QED BY <1>3, <1>6

LEMMA CodesAreLeft ==
  ASSUME PairingInv,
         \/ LoadBegins \/ LoadPage \/ updateConfig \/ PairingTick \/ UNCHANGED pairingVars
         \/ \E p \in Peers : revokePeer(p)
  PROVE  CodesInOrder' /\ PairingTypes'
<1>1. UNCHANGED <<pendingCodes, pendingCodeOrder, rateLimits, drawn>>
  BY DEF LoadBegins, LoadPage, updateConfig, PairingTick, pairingVars, revokePeer
<1>2. PairingTypes /\ PairingTypeOK
  BY DEF PairingInv, PairingTypes
<1>3. CodesInOrder'
  BY <1>1 DEF PairingInv, CodesInOrder, Older, InOrder
<1>4. LimitsOK' /\ rateLimits' = [p \in DOMAIN rateLimits' |-> rateLimits'[p]]
  <2>1. LimitsOK
    BY <1>2, LimitsOf
  <2> QED BY <1>1, <1>2, <2>1 DEF LimitsOK, Peers, PairingTypes
<1>5. /\ channelSet' \subseteq AllChannels /\ maxPendingCodes' \in Capacities
      /\ approvedPeers' \subseteq Peers /\ loading' \subseteq Peers /\ stored' \subseteq Peers
      /\ loads' \in BOOLEAN
  <2>1. CASE LoadBegins
    BY <1>2, <2>1 DEF LoadBegins, PairingTypeOK
  <2>2. CASE LoadPage
    <3>1. \A page \in SUBSET stored : loading \union page \subseteq Peers
      BY <1>2 DEF PairingTypeOK
    <3> QED BY <1>2, <2>2, <3>1 DEF LoadPage, PairingTypeOK
  <2>3. CASE updateConfig
    BY <1>2, <2>3 DEF updateConfig, PairingTypeOK
  <2>4. CASE PairingTick \/ UNCHANGED pairingVars
    BY <1>2, <2>4 DEF PairingTick, pairingVars, PairingTypeOK
  <2>5. CASE \E p \in Peers : revokePeer(p)
    BY <1>2, <2>5 DEF revokePeer, PairingTypeOK
  <2> QED BY <2>1, <2>2, <2>3, <2>4, <2>5
<1>6. pairingNow' \in 0..MaxPairingTime /\ pairingNow' >= pairingNow
  <2>1. CASE PairingTick
    BY <1>2, <2>1, PairingAssumption DEF PairingTick, PairingTypeOK
  <2>2. CASE UNCHANGED pairingNow
    BY <1>2, <2>2, PairingAssumption DEF PairingTypeOK
  <2> QED BY <2>1, <2>2 DEF LoadBegins, LoadPage, updateConfig, pairingVars, revokePeer
<1>7. pendingCodes' \in [DOMAIN pendingCodes' -> 0..pairingNow']
  <2>1. pairingNow \in Nat
    BY <1>2 DEF PairingTypeOK
  <2>2. 0..pairingNow \subseteq 0..pairingNow'
    BY <1>6, <2>1
  <2>3. pendingCodes \in [DOMAIN pendingCodes -> 0..pairingNow]
    BY <1>2 DEF PairingTypes
  <2> QED BY <1>1, <2>2, <2>3
<1>8. DOMAIN pendingCodes' \subseteq drawn' /\ drawn' \subseteq Codes
  BY <1>1, <1>2 DEF PairingTypeOK
<1>9. PairingTypes'
  BY <1>4, <1>5, <1>6, <1>7, <1>8, TypesOf
<1> QED BY <1>3, <1>9

LEMMA PairingStep == PairingInv /\ [PairingNext]_pairingVars => PairingInv'
<1> SUFFICES ASSUME PairingInv, [PairingNext]_pairingVars PROVE CodesInOrder' /\ PairingTypes'
  BY DEF PairingInv
<1>1. CASE generateCode
  BY <1>1, CodeIsMade
<1>2. CASE sweep
  BY <1>2, SweepKeeps
<1>3. CASE \E p \in Peers : \E c \in Codes : checkSender(p, c)
  BY <1>3, MessageIsChecked
<1>4. CASE \/ LoadBegins \/ LoadPage \/ updateConfig \/ PairingTick \/ UNCHANGED pairingVars
           \/ \E p \in Peers : revokePeer(p)
  BY <1>4, CodesAreLeft
<1> QED BY <1>1, <1>2, <1>3, <1>4 DEF PairingNext

(* The guard of direct messages keeps its types: no peer has been counted   *)
(* more attempts than the limit, nor a code made in the future.             *)
THEOREM PairingTypeCorrect == PairingSpec => []PairingTypeOK
<1>1. PairingInv => PairingTypeOK
  BY DEF PairingInv, PairingTypes
<1> QED BY <1>1, PairingStarts, PairingStep, PTL DEF PairingSpec

(* The list that picks the code to evict agrees with the map of the pending *)
(* codes: one entry each, the oldest first, never more than a capacity.     *)
THEOREM OrderStaysPending == PairingSpec => []OrderIsPending
<1> QED BY OrderOfPending, PairingStarts, PairingStep, PTL DEF PairingSpec
-----------------------------------------------------------------------------
(* The pattern miner.  A sequence of values, each made of the one before.   *)
Iterates(f, m, T, start, step) ==
  /\ f \in [0..m -> T] /\ f[0] = start
  /\ \A n \in 1..m : f[n] = step[<<n, f[n - 1]>>]

LEMMA IterationIsDefined ==
  ASSUME NEW T, NEW start \in T, NEW step \in [Nat \X T -> T], NEW m \in Nat
  PROVE  \E f : Iterates(f, m, T, start, step)
<1> DEFINE Follows(f, k) == Iterates(f, k, T, start, step)
           Lengths == {k \in Nat : \E f : Follows(f, k)}
<1>1. 0 \in Lengths
  <2>1. Follows([i \in 0..0 |-> start], 0)
    BY DEF Iterates
  <2> QED BY <2>1
<1>2. ASSUME NEW k \in Nat, k \in Lengths PROVE k + 1 \in Lengths
  <2>1. PICK f : Follows(f, k)
    BY <1>2
  <2> USE DEF Iterates
  <2> DEFINE last == step[<<k + 1, f[k]>>]
             g == [i \in 0..(k + 1) |-> IF i <= k THEN f[i] ELSE last]
  <2>2. last \in T
    BY <2>1
  <2> HIDE DEF last
  <2>3. g \in [0..(k + 1) -> T] /\ g[0] = start
    BY <2>1, <2>2
  <2>4. \A i \in 0..k : g[i] = f[i]
    OBVIOUS
  <2>5. g[k + 1] = last
    OBVIOUS
  <2> HIDE DEF g
  <2>6. ASSUME NEW n \in 1..(k + 1) PROVE g[n] = step[<<n, g[n - 1]>>]
    <3>1. CASE n = k + 1
      BY <3>1, <2>4, <2>5 DEF last
    <3>2. CASE n # k + 1
      <4>1. n \in 1..k /\ n - 1 \in 0..k /\ n \in 0..k
        BY <3>2
      <4> QED BY <4>1, <2>1, <2>4
    <3> QED BY <3>1, <3>2
  <2> QED BY <2>3, <2>6
<1> HIDE DEF Follows
<1>3. Nat \subseteq Lengths
  <2> HIDE DEF Lengths
  <2> QED BY <1>1, <1>2, InductionInSet
<1> QED BY <1>3 DEF Follows

(* The first m elements of q are found, in their order, among the first k   *)
(* of s.                                                                    *)
Embeds(q, m, s, k) ==
  \E at \in [1..m -> 1..k] :
    /\ \A i, j \in 1..m : i < j => at[i] < at[j]
    /\ \A i \in 1..m : s[at[i]] = q[i]

LEMMA EmbedsNothing ==
  ASSUME NEW q, NEW s, NEW k \in Nat
  PROVE  Embeds(q, 0, s, k)
<1> DEFINE at == [i \in 1..0 |-> 1]
<1>1. at \in [1..0 -> 1..k]
  OBVIOUS
<1>2. 1..0 = {}
  OBVIOUS
<1> HIDE DEF at
<1> QED BY <1>1, <1>2 DEF Embeds

LEMMA EmbedsMore ==
  ASSUME NEW q, NEW s, NEW m \in Nat, NEW k \in Nat
  PROVE  Embeds(q, m + 1, s, k) <=> \E j \in 1..k : s[j] = q[m + 1] /\ Embeds(q, m, s, j - 1)
<1>1. ASSUME Embeds(q, m + 1, s, k)
      PROVE  \E j \in 1..k : s[j] = q[m + 1] /\ Embeds(q, m, s, j - 1)
  <2>1. PICK at \in [1..(m + 1) -> 1..k] :
             /\ \A i, j \in 1..(m + 1) : i < j => at[i] < at[j]
             /\ \A i \in 1..(m + 1) : s[at[i]] = q[i]
    BY <1>1 DEF Embeds
  <2> DEFINE j == at[m + 1]
             before == [i \in 1..m |-> at[i]]
  <2>2. j \in 1..k /\ s[j] = q[m + 1]
    BY <2>1
  <2>3. ASSUME NEW i \in 1..m PROVE at[i] \in 1..(j - 1)
    <3>1. i \in 1..(m + 1) /\ m + 1 \in 1..(m + 1) /\ i < m + 1
      OBVIOUS
    <3>2. at[i] \in 1..k /\ at[i] < j
      BY <3>1, <2>1
    <3> QED BY <3>2, <2>2
  <2>4. before \in [1..m -> 1..(j - 1)]
    BY <2>3
  <2>5. Embeds(q, m, s, j - 1)
    <3>1. \A i \in 1..m : i \in 1..(m + 1) /\ before[i] = at[i]
      OBVIOUS
    <3> QED BY <2>1, <2>4, <3>1 DEF Embeds
  <2> QED BY <2>2, <2>5
<1>2. ASSUME NEW j \in 1..k, s[j] = q[m + 1], Embeds(q, m, s, j - 1)
      PROVE  Embeds(q, m + 1, s, k)
  <2>1. PICK at \in [1..m -> 1..(j - 1)] :
             /\ \A a, b \in 1..m : a < b => at[a] < at[b]
             /\ \A i \in 1..m : s[at[i]] = q[i]
    BY <1>2 DEF Embeds
  <2> DEFINE all == [i \in 1..(m + 1) |-> IF i <= m THEN at[i] ELSE j]
  <2>2. \A i \in 1..m : i \in 1..(m + 1) /\ all[i] = at[i] /\ at[i] \in 1..(j - 1)
    OBVIOUS
  <2>3. all[m + 1] = j
    OBVIOUS
  <2>4. \A i \in 1..(m + 1) : i \in 1..m \/ i = m + 1
    OBVIOUS
  <2>5. all \in [1..(m + 1) -> 1..k]
    <3>1. \A i \in 1..(m + 1) : all[i] \in 1..k
      BY <2>2, <2>3, <2>4
    <3> QED BY <3>1
  <2> HIDE DEF all
  <2>6. ASSUME NEW a \in 1..(m + 1), NEW b \in 1..(m + 1), a < b PROVE all[a] < all[b]
    <3>1. a \in 1..m
      BY <2>6
    <3>2. CASE b \in 1..m
      BY <3>1, <3>2, <2>1, <2>2, <2>6
    <3>3. CASE b = m + 1
      BY <3>1, <3>3, <2>2, <2>3
    <3> QED BY <2>4, <3>2, <3>3
  <2>7. ASSUME NEW i \in 1..(m + 1) PROVE s[all[i]] = q[i]
    BY <2>1, <2>2, <2>3, <2>4, <1>2
  <2> QED BY <2>5, <2>6, <2>7 DEF Embeds
<1> QED BY <1>1, <1>2

(* Only the first m elements count.                                         *)
LEMMA EmbedsSame ==
  ASSUME NEW p, NEW q, NEW m \in Nat, \A i \in 1..m : p[i] = q[i], NEW s, NEW k
  PROVE  Embeds(p, m, s, k) <=> Embeds(q, m, s, k)
  BY DEF Embeds

LEMMA SubsequencesEmbed ==
  ASSUME NEW S, NEW q \in Seq(S), NEW s \in Seq(S)
  PROVE  IsSubsequence(q, s) <=> Embeds(q, Len(q), s, Len(s))
<1>1. DOMAIN q = 1..Len(q) /\ DOMAIN s = 1..Len(s)
  BY LenProperties
<1> QED BY <1>1 DEF IsSubsequence, Embeds

(* What the greedy match has matched is the most that embeds.               *)
LEMMA MatchedOf ==
  ASSUME NEW S, NEW q \in Seq(S), NEW s \in Seq(S)
  PROVE  containsSubsequence(s, q) <=> IsSubsequence(q, s)
<1> DEFINE L == 0..Len(q)
           next(h, n) == IF n < Len(q) /\ s[h] = q[n + 1] THEN n + 1 ELSE n
           step == [x \in Nat \X L |-> next(x[1], x[2])]
           NiOf(f) == f = [hi \in 0..Len(s) |->
             IF hi = 0 THEN 0
             ELSE IF f[hi - 1] < Len(q) /\ s[hi] = q[f[hi - 1] + 1]
             THEN f[hi - 1] + 1 ELSE f[hi - 1]]
           ni == CHOOSE f : NiOf(f)
<1>1. Len(s) \in Nat /\ Len(q) \in Nat /\ 0 \in L
  BY LenProperties
<1>2. \A h \in Nat : \A n \in L : next(h, n) \in L
  BY <1>1
<1>3. step \in [Nat \X L -> L]
  <2> HIDE DEF next, L
  <2> QED BY <1>2
<1>4. PICK f : Iterates(f, Len(s), L, 0, step)
  <2> HIDE DEF step, L
  <2> QED BY <1>1, <1>3, IterationIsDefined
<1>5. NiOf(f)
  <2>1. ASSUME NEW hi \in 1..Len(s) PROVE f[hi] = next(hi, f[hi - 1])
    <3>1. hi \in Nat /\ f[hi - 1] \in L
      BY <1>1, <1>4 DEF Iterates
    <3>2. step[<<hi, f[hi - 1]>>] = next(hi, f[hi - 1])
      <4> HIDE DEF next, L
      <4> QED BY <3>1
    <3> QED BY <1>4, <3>2 DEF Iterates
  <2>2. \A hi \in 0..Len(s) : hi = 0 \/ hi \in 1..Len(s)
    BY <1>1
  <2>3. f = [hi \in 0..Len(s) |-> IF hi = 0 THEN 0 ELSE next(hi, f[hi - 1])]
    <3> HIDE DEF next
    <3> QED BY <1>4, <2>1, <2>2 DEF Iterates
  <2> QED BY <2>3
<1>6. NiOf(ni)
  <2> HIDE DEF NiOf
  <2> QED BY <1>5
<1>7. ni[0] = 0 /\ \A hi \in 1..Len(s) : ni[hi] = next(hi, ni[hi - 1])
  <2> HIDE DEF ni
  <2>1. \A hi \in 0..Len(s) : ni[hi] = IF hi = 0 THEN 0 ELSE next(hi, ni[hi - 1])
    BY <1>6
  <2> HIDE DEF next
  <2>2. 0 \in 0..Len(s) /\ \A hi \in 1..Len(s) : hi \in 0..Len(s) /\ hi # 0
    BY <1>1
  <2> QED BY <2>1, <2>2
<1>8. Matched(s, q) = ni[Len(s)]
  BY DEF Matched
<1> HIDE DEF ni, NiOf, step
<1> DEFINE Right(h) == ni[h] \in L /\ \A m \in L : Embeds(q, m, s, h) <=> m <= ni[h]
           Counts == {h \in Nat : h <= Len(s) => Right(h)}
<1>9. 0 \in Counts
  <2>1. ASSUME NEW m \in L PROVE Embeds(q, m, s, 0) <=> m <= 0
    <3>1. CASE m = 0
      BY <3>1, EmbedsNothing
    <3>2. CASE m # 0
      <4>1. m \in 1..m /\ 1..0 = {}
        BY <3>2, <1>1
      <4>2. ~Embeds(q, m, s, 0)
        BY <4>1 DEF Embeds
      <4> QED BY <4>2, <3>2, <1>1
    <3> QED BY <3>1, <3>2
  <2> QED BY <2>1, <1>1, <1>7
<1>10. ASSUME NEW h \in Nat, h \in Counts PROVE h + 1 \in Counts
  <2> SUFFICES ASSUME h + 1 <= Len(s) PROVE Right(h + 1)
    OBVIOUS
  <2> DEFINE n == ni[h]
  <2>1. Right(h) /\ h + 1 \in 1..Len(s) /\ (h + 1) - 1 = h
    BY <1>1, <1>10
  <2>2. ni[h + 1] = next(h + 1, n)
    BY <1>7, <2>1
  <2>3. n \in L /\ ni[h + 1] \in L
    BY <1>1, <2>1, <2>2
  <2>4. ASSUME NEW m \in L, m # 0
        PROVE  /\ m - 1 \in L
               /\ Embeds(q, m, s, h + 1) <=>
                    Embeds(q, m, s, h) \/ (s[h + 1] = q[m] /\ Embeds(q, m - 1, s, h))
    <3>1. m - 1 \in Nat /\ (m - 1) + 1 = m /\ m - 1 \in L
      BY <1>1, <2>4
    <3>2. \A k \in Nat : Embeds(q, m, s, k) <=>
            \E j \in 1..k : s[j] = q[m] /\ Embeds(q, m - 1, s, j - 1)
      <4> DEFINE l == m - 1
      <4>1. l \in Nat /\ l + 1 = m
        BY <3>1
      <4> HIDE DEF l
      <4>2. \A k \in Nat : Embeds(q, l + 1, s, k) <=>
              \E j \in 1..k : s[j] = q[l + 1] /\ Embeds(q, l, s, j - 1)
        BY <4>1, EmbedsMore
      <4> QED BY <4>1, <4>2 DEF l
    <3>3. 1..(h + 1) = 1..h \union {h + 1} /\ (h + 1) - 1 = h
      OBVIOUS
    <3>4. Embeds(q, m, s, h) <=> \E j \in 1..h : s[j] = q[m] /\ Embeds(q, m - 1, s, j - 1)
      BY <3>2
    <3>5. Embeds(q, m, s, h + 1) <=>
            \E j \in 1..(h + 1) : s[j] = q[m] /\ Embeds(q, m - 1, s, j - 1)
      BY <3>2
    <3>6. Embeds(q, m, s, h + 1) <=>
            \/ \E j \in 1..h : s[j] = q[m] /\ Embeds(q, m - 1, s, j - 1)
            \/ s[h + 1] = q[m] /\ Embeds(q, m - 1, s, h)
      BY <3>3, <3>5
    <3> QED BY <3>1, <3>4, <3>6
  <2>5. ASSUME NEW m \in L PROVE Embeds(q, m, s, h + 1) <=> m <= ni[h + 1]
    <3>1. CASE m = 0
      BY <3>1, <2>3, EmbedsNothing
    <3>2. CASE m # 0
      <4>1. Embeds(q, m, s, h + 1) <=> m <= n \/ (s[h + 1] = q[m] /\ m - 1 <= n)
        BY <2>1, <2>4, <3>2
      <4> QED BY <4>1, <3>2, <2>2, <2>3, <1>1
    <3> QED BY <3>1, <3>2
  <2> QED BY <2>3, <2>5
<1>11. Right(Len(s))
  <2>1. Nat \subseteq Counts
    <3> HIDE DEF Counts
    <3> QED BY <1>9, <1>10, InductionInSet
  <2> QED BY <2>1, <1>1
<1>12. Len(q) \in L
  BY <1>1
<1>13. Embeds(q, Len(q), s, Len(s)) <=> Matched(s, q) = Len(q)
  BY <1>1, <1>8, <1>11, <1>12
<1> QED BY <1>13, SubsequencesEmbed DEF containsSubsequence

(* The first of an item's places, and the calls after a place.              *)
LEMMA FirstAtOf ==
  ASSUME NEW S, NEW seq \in Seq(S), NEW item, Occurs(item, seq)
  PROVE  /\ FirstAt(seq, item) \in 1..Len(seq) /\ seq[FirstAt(seq, item)] = item
         /\ \A j \in 1..Len(seq) : seq[j] = item => FirstAt(seq, item) <= j
<1>1. DOMAIN seq = 1..Len(seq) /\ Len(seq) \in Nat
  BY LenProperties
<1> DEFINE P == {i \in 1..Len(seq) : seq[i] = item}
<1>2. P \subseteq Nat /\ P # {}
  BY <1>1 DEF Occurs
<1>3. PICK i \in P : \A j \in P : i <= j
  <2> HIDE DEF P
  <2> QED BY <1>2, LeastIn
<1>4. i \in DOMAIN seq /\ seq[i] = item /\ \A j \in DOMAIN seq : seq[j] = item => i <= j
  BY <1>1, <1>3
<1>5. /\ FirstAt(seq, item) \in DOMAIN seq /\ seq[FirstAt(seq, item)] = item
      /\ \A j \in DOMAIN seq : seq[j] = item => FirstAt(seq, item) <= j
  BY <1>4, Zenon DEF FirstAt
<1> QED BY <1>1, <1>5

LEMMA CallsAfterOf ==
  ASSUME NEW S, NEW s \in Seq(S), NEW k \in 0..Len(s)
  PROVE  /\ CallsAfter(s, k) \in Seq(S) /\ Len(CallsAfter(s, k)) = Len(s) - k
         /\ \A i \in 1..(Len(s) - k) : CallsAfter(s, k)[i] = s[k + i]
<1>1. Len(s) \in Nat /\ \A i \in 1..Len(s) : s[i] \in S
  BY LenProperties, ElementOfSeq
<1>2. k + 1 \in Int /\ Len(s) \in Int /\ \A i \in (k + 1)..Len(s) : s[i] \in S
  BY <1>1
<1>3. /\ SubSeq(s, k + 1, Len(s)) \in Seq(S)
      /\ Len(SubSeq(s, k + 1, Len(s))) = IF k + 1 <= Len(s) THEN Len(s) - (k + 1) + 1 ELSE 0
      /\ \A i \in 1..(Len(s) - (k + 1) + 1) : SubSeq(s, k + 1, Len(s))[i] = s[(k + 1) + i - 1]
  BY <1>2, SubSeqProperties
<1>4. Len(s) - (k + 1) + 1 = Len(s) - k
  BY <1>1
<1>5. /\ \A i \in 1..(Len(s) - k) : (k + 1) + i - 1 = k + i
      /\ (IF k + 1 <= Len(s) THEN Len(s) - k ELSE 0) = Len(s) - k
  BY <1>1
<1> QED BY <1>3, <1>4, <1>5 DEF CallsAfter

LEMMA CallsAfterTwice ==
  ASSUME NEW S, NEW s \in Seq(S), NEW k \in 0..Len(s), NEW l \in 0..(Len(s) - k)
  PROVE  CallsAfter(CallsAfter(s, k), l) = CallsAfter(s, k + l)
<1> DEFINE t == CallsAfter(s, k)
           u == CallsAfter(t, l)
           v == CallsAfter(s, k + l)
<1>1. Len(s) \in Nat /\ k + l \in 0..Len(s)
  BY LenProperties
<1>2. t \in Seq(S) /\ Len(t) = Len(s) - k /\ \A i \in 1..(Len(s) - k) : t[i] = s[k + i]
  BY CallsAfterOf
<1>3. l \in 0..Len(t)
  BY <1>2
<1>4. /\ v \in Seq(S) /\ Len(v) = Len(s) - (k + l)
      /\ \A i \in 1..(Len(s) - (k + l)) : v[i] = s[(k + l) + i]
  BY <1>1, CallsAfterOf
<1> HIDE DEF t, v
<1>5. u \in Seq(S) /\ Len(u) = Len(t) - l /\ \A i \in 1..(Len(t) - l) : u[i] = t[l + i]
  BY <1>2, <1>3, CallsAfterOf
<1> HIDE DEF u
<1>6. Len(u) = Len(v)
  BY <1>1, <1>2, <1>4, <1>5
<1>7. ASSUME NEW i \in 1..Len(u) PROVE u[i] = v[i]
  <2>1. /\ i \in 1..(Len(t) - l) /\ l + i \in 1..(Len(s) - k)
        /\ i \in 1..(Len(s) - (k + l)) /\ k + (l + i) = (k + l) + i
    BY <1>1, <1>2, <1>5
  <2> QED BY <2>1, <1>2, <1>4, <1>5
<1>8. u = v
  BY <1>4, <1>5, <1>6, <1>7, SeqEqual
<1> QED BY <1>8 DEF u, v, t

(* Where the calls left begin, when the prefix p ends as early as it can at *)
(* k and one more item is looked for.                                       *)
EndsAt(p, s, k) ==
  k \in 0..Len(s) /\ \A h \in 0..Len(s) : Embeds(p, Len(p), s, h) <=> k <= h
NeverEnds(p, s) == \A h \in 0..Len(s) : h < Len(s) => ~Embeds(p, Len(p), s, h)

LEMMA AppendingEmbeds ==
  ASSUME NEW S, NEW s \in Seq(S), NEW p \in Seq(S), NEW item \in S, NEW h \in 0..Len(s)
  PROVE  Embeds(Append(p, item), Len(Append(p, item)), s, h) <=>
           \E j \in 1..h : s[j] = item /\ Embeds(p, Len(p), s, j - 1)
<1> DEFINE q == Append(p, item)
<1>1. /\ Len(p) \in Nat /\ Len(q) = Len(p) + 1 /\ q[Len(p) + 1] = item
      /\ \A i \in 1..Len(p) : q[i] = p[i]
  BY LenProperties, AppendProperties
<1> HIDE DEF q
<1>2. h \in Nat
  BY LenProperties
<1>3. Embeds(q, Len(p) + 1, s, h) <=>
        \E j \in 1..h : s[j] = q[Len(p) + 1] /\ Embeds(q, Len(p), s, j - 1)
  BY <1>1, <1>2, EmbedsMore
<1>4. \A k : Embeds(q, Len(p), s, k) <=> Embeds(p, Len(p), s, k)
  BY <1>1, EmbedsSame
<1>5. Embeds(q, Len(q), s, h) <=> \E j \in 1..h : s[j] = item /\ Embeds(p, Len(p), s, j - 1)
  BY <1>1, <1>3, <1>4
<1> QED BY <1>5 DEF q

LEMMA GrowingEnds ==
  ASSUME NEW S, NEW s \in Seq(S), NEW p \in Seq(S), NEW item \in S, NEW k, EndsAt(p, s, k)
  PROVE  /\ Occurs(item, CallsAfter(s, k)) =>
              EndsAt(Append(p, item), s, k + FirstAt(CallsAfter(s, k), item))
         /\ ~Occurs(item, CallsAfter(s, k)) =>
              \A h \in 0..Len(s) : ~Embeds(Append(p, item), Len(Append(p, item)), s, h)
<1> DEFINE t == CallsAfter(s, k)
           start == FirstAt(t, item)
           q == Append(p, item)
<1>1. Len(s) \in Nat /\ k \in 0..Len(s)
  BY LenProperties DEF EndsAt
<1>2. t \in Seq(S) /\ Len(t) = Len(s) - k /\ \A i \in 1..(Len(s) - k) : t[i] = s[k + i]
  BY <1>1, CallsAfterOf
<1>3. ASSUME NEW h \in 0..Len(s)
      PROVE  Embeds(q, Len(q), s, h) <=> \E i \in 1..(h - k) : t[i] = item
  <2>1. Embeds(q, Len(q), s, h) <=> \E j \in 1..h : s[j] = item /\ Embeds(p, Len(p), s, j - 1)
    BY AppendingEmbeds
  <2>2. \A j \in 1..h : j - 1 \in 0..Len(s) /\ (Embeds(p, Len(p), s, j - 1) <=> k <= j - 1)
    BY <1>1 DEF EndsAt
  <2> HIDE DEF q, t
  <2>3. ASSUME NEW j \in 1..h, s[j] = item, Embeds(p, Len(p), s, j - 1)
        PROVE  \E i \in 1..(h - k) : t[i] = item
    <3>1. j - k \in 1..(h - k) /\ j - k \in 1..(Len(s) - k) /\ k + (j - k) = j
      BY <1>1, <2>2, <2>3
    <3> QED BY <3>1, <1>2, <2>3
  <2>4. ASSUME NEW i \in 1..(h - k), t[i] = item
        PROVE  \E j \in 1..h : s[j] = item /\ Embeds(p, Len(p), s, j - 1)
    <3>1. k + i \in 1..h /\ i \in 1..(Len(s) - k) /\ k <= (k + i) - 1
      BY <1>1
    <3>2. s[k + i] = item /\ Embeds(p, Len(p), s, (k + i) - 1)
      BY <3>1, <2>2, <2>4, <1>2
    <3> QED BY <3>1, <3>2
  <2> QED BY <2>1, <2>3, <2>4
<1>4. DOMAIN t = 1..(Len(s) - k)
  BY <1>2, LenProperties
<1>5. ASSUME Occurs(item, t) PROVE EndsAt(q, s, k + start)
  <2>1. /\ start \in 1..Len(t) /\ t[start] = item
        /\ \A j \in 1..Len(t) : t[j] = item => start <= j
    BY <1>2, <1>5, FirstAtOf
  <2> HIDE DEF start, t, q
  <2>2. k + start \in 0..Len(s)
    BY <1>1, <1>2, <2>1
  <2>3. ASSUME NEW h \in 0..Len(s) PROVE Embeds(q, Len(q), s, h) <=> k + start <= h
    <3>1. ASSUME NEW i \in 1..(h - k), t[i] = item PROVE k + start <= h
      <4>1. i \in 1..Len(t)
        BY <1>1, <1>2
      <4>2. start <= i
        BY <4>1, <2>1, <3>1
      <4> QED BY <4>2, <1>1, <1>2, <2>1
    <3>2. ASSUME k + start <= h PROVE start \in 1..(h - k)
      BY <3>2, <1>1, <1>2, <2>1
    <3> QED BY <3>1, <3>2, <2>1, <1>3
  <2> QED BY <2>2, <2>3 DEF EndsAt
<1>6. ASSUME ~Occurs(item, t), NEW h \in 0..Len(s) PROVE ~Embeds(q, Len(q), s, h)
  <2>1. \A i \in 1..(h - k) : i \in 1..(Len(s) - k)
    BY <1>1
  <2>2. \A i \in 1..(h - k) : t[i] # item
    BY <2>1, <1>4, <1>6 DEF Occurs
  <2> HIDE DEF q, t
  <2> QED BY <2>2, <1>3
<1> QED BY <1>5, <1>6

LEMMA NeverEndsLonger ==
  ASSUME NEW S, NEW s \in Seq(S), NEW p \in Seq(S), NEW item \in S, NeverEnds(p, s)
  PROVE  \A h \in 0..Len(s) : ~Embeds(Append(p, item), Len(Append(p, item)), s, h)
<1> SUFFICES ASSUME NEW h \in 0..Len(s)
             PROVE  ~Embeds(Append(p, item), Len(Append(p, item)), s, h)
  OBVIOUS
<1>1. Len(s) \in Nat
  BY LenProperties
<1>2. \A j \in 1..h : j - 1 \in 0..Len(s) /\ j - 1 < Len(s)
  BY <1>1
<1> QED BY <1>2, AppendingEmbeds DEF NeverEnds

(* The sessions that contain a pattern; the prefixes and databases that     *)
(* growing makes out of the sessions D; and what a prefix and the database  *)
(* projected on it say of the sessions they come from.                      *)
SessionsIn(base, p) == {i \in DOMAIN base : IsSubsequence(p, base[i])}

Databases(D) == UNION {[E -> Seq(MinedTools)] : E \in SUBSET D}
Prefixes(D) == [tools : Seq(MinedTools), support : Nat, db : Databases(D)]

Projected(base, p) ==
  \A i \in DOMAIN base :
    IF i \in DOMAIN p.db
    THEN \E k : EndsAt(p.tools, base[i], k) /\ p.db[i] = CallsAfter(base[i], k)
    ELSE NeverEnds(p.tools, base[i])

Grown(p, item) == [tools |-> Append(p.tools, item), support |-> ItemCount(p.db, item),
                   db |-> projectDatabase(p.db, item)]

LEMMA DatabaseOf ==
  ASSUME NEW D, NEW db \in Databases(D)
  PROVE  DOMAIN db \subseteq D /\ db \in [DOMAIN db -> Seq(MinedTools)]
  BY DEF Databases

LEMMA ProjectingOf ==
  ASSUME NEW D, IsFiniteSet(D), NEW db \in Databases(D), NEW item
  PROVE  /\ ItemCount(db, item) \in Nat
         /\ projectDatabase(db, item) \in Databases(D)
<1> DEFINE left == {i \in DOMAIN db : Occurs(item, db[i]) /\ FirstAt(db[i], item) < Len(db[i])}
           new == [i \in left |-> CallsAfter(db[i], FirstAt(db[i], item))]
<1>1. DOMAIN db \subseteq D /\ db \in [DOMAIN db -> Seq(MinedTools)]
  BY DatabaseOf
<1>2. IsFiniteSet({i \in DOMAIN db : Occurs(item, db[i])})
  BY <1>1, FS_Subset
<1>3. ItemCount(db, item) \in Nat
  BY <1>2, FS_CardinalityType DEF ItemCount
<1>4. ASSUME NEW i \in left PROVE CallsAfter(db[i], FirstAt(db[i], item)) \in Seq(MinedTools)
  <2>1. db[i] \in Seq(MinedTools) /\ Occurs(item, db[i])
    BY <1>1
  <2>2. FirstAt(db[i], item) \in 1..Len(db[i])
    BY <2>1, FirstAtOf
  <2>3. FirstAt(db[i], item) \in 0..Len(db[i])
    BY <2>2
  <2> QED BY <2>1, <2>3, CallsAfterOf
<1>5. left \in SUBSET D
  BY <1>1
<1> HIDE DEF left
<1>6. new \in [left -> Seq(MinedTools)]
  BY <1>4
<1>7. new \in Databases(D)
  BY <1>5, <1>6, Zenon DEF Databases
<1>8. projectDatabase(db, item) = new
  BY DEF projectDatabase, left
<1> QED BY <1>3, <1>7, <1>8

LEMMA GrowingOf ==
  ASSUME NEW P, NEW support
  PROVE  \A g : g \in growPrefix(P, support) <=>
           \E p \in P : \E item \in MinedTools :
             ItemCount(p.db, item) >= support /\ g = Grown(p, item)
<1> SUFFICES ASSUME NEW g
             PROVE  g \in growPrefix(P, support) <=>
                      \E p \in P : \E item \in MinedTools :
                        ItemCount(p.db, item) >= support /\ g = Grown(p, item)
  OBVIOUS
<1> DEFINE S(p) == {[tools |-> Append(p.tools, item), support |-> ItemCount(p.db, item),
                     db |-> projectDatabase(p.db, item)]
                    : item \in {t \in MinedTools : ItemCount(p.db, t) >= support}}
<1>1. growPrefix(P, support) = UNION {S(p) : p \in P}
  BY DEF growPrefix
<1>2. \A p \in P : g \in S(p) <=> \E item \in MinedTools :
                     ItemCount(p.db, item) >= support /\ g = Grown(p, item)
  BY Zenon DEF Grown
<1> HIDE DEF S
<1>3. g \in growPrefix(P, support) <=> \E p \in P : g \in S(p)
  BY <1>1, Zenon
<1> QED BY <1>2, <1>3, Zenon

LEMMA GrownOf ==
  ASSUME NEW D, IsFiniteSet(D), NEW p \in Prefixes(D), NEW item \in MinedTools
  PROVE  Grown(p, item) \in Prefixes(D)
<1>1. p.tools \in Seq(MinedTools) /\ p.db \in Databases(D)
  BY DEF Prefixes
<1>2. Append(p.tools, item) \in Seq(MinedTools)
  BY <1>1, AppendProperties
<1>3. ItemCount(p.db, item) \in Nat /\ projectDatabase(p.db, item) \in Databases(D)
  BY <1>1, ProjectingOf
<1> QED BY <1>2, <1>3 DEF Grown, Prefixes

(* A prefix grown by an item says what it should, and is counted in the     *)
(* sessions that contain it.                                                *)
LEMMA GrownIsProjected ==
  ASSUME NEW D, IsFiniteSet(D), NEW base \in [D -> Seq(MinedTools)],
         NEW p \in Prefixes(D), Projected(base, p), NEW item \in MinedTools
  PROVE  /\ Projected(base, Grown(p, item))
         /\ Grown(p, item).support = Cardinality(SessionsIn(base, Append(p.tools, item)))
<1> DEFINE g == Grown(p, item)
           q == Append(p.tools, item)
<1>1. /\ p.tools \in Seq(MinedTools) /\ q \in Seq(MinedTools)
      /\ DOMAIN p.db \subseteq D /\ p.db \in [DOMAIN p.db -> Seq(MinedTools)]
  BY AppendProperties, DatabaseOf DEF Prefixes
<1>2. g.tools = q /\ g.db = projectDatabase(p.db, item) /\ g.support = ItemCount(p.db, item)
  BY DEF Grown
<1>3. /\ \A i \in DOMAIN p.db : i \in DOMAIN g.db <=>
           Occurs(item, p.db[i]) /\ FirstAt(p.db[i], item) < Len(p.db[i])
      /\ DOMAIN g.db \subseteq DOMAIN p.db
      /\ \A i \in DOMAIN g.db : g.db[i] = CallsAfter(p.db[i], FirstAt(p.db[i], item))
  BY <1>2 DEF projectDatabase
<1> HIDE DEF g, q
<1>4. ASSUME NEW i \in D
      PROVE  /\ (i \in DOMAIN p.db /\ Occurs(item, p.db[i])) <=> IsSubsequence(q, base[i])
             /\ IF i \in DOMAIN g.db
                THEN \E k : EndsAt(q, base[i], k) /\ g.db[i] = CallsAfter(base[i], k)
                ELSE NeverEnds(q, base[i])
  <2> DEFINE s == base[i]
  <2>1. s \in Seq(MinedTools) /\ Len(s) \in Nat
    BY LenProperties
  <2>2. IsSubsequence(q, s) <=> Embeds(q, Len(q), s, Len(s))
    BY <1>1, <2>1, SubsequencesEmbed
  <2>3. i \in DOMAIN base
    OBVIOUS
  <2> HIDE DEF s
  <2>4. CASE i \in DOMAIN p.db
    <3>1. PICK k : EndsAt(p.tools, s, k) /\ p.db[i] = CallsAfter(s, k)
      BY <2>3, <2>4 DEF Projected, s
    <3> DEFINE t == CallsAfter(s, k)
               start == FirstAt(t, item)
    <3>2. k \in 0..Len(s)
      BY <3>1 DEF EndsAt
    <3>3. t \in Seq(MinedTools) /\ Len(t) = Len(s) - k
      BY <2>1, <3>2, CallsAfterOf
    <3>4. CASE Occurs(item, t)
      <4>1. EndsAt(q, s, k + start)
        BY <1>1, <2>1, <3>1, <3>4, GrowingEnds DEF q
      <4>2. start \in 1..Len(t)
        BY <3>3, <3>4, FirstAtOf
      <4> HIDE DEF start
      <4>3. start \in 0..(Len(s) - k) /\ Len(s) \in 0..Len(s) /\ k + start <= Len(s)
        BY <2>1, <3>2, <3>3, <4>2
      <4>4. Embeds(q, Len(q), s, Len(s))
        BY <4>1, <4>3 DEF EndsAt
      <4>5. ASSUME i \in DOMAIN g.db PROVE g.db[i] = CallsAfter(s, k + start)
        <5>1. g.db[i] = CallsAfter(t, start)
          BY <1>3, <3>1, <4>5 DEF start
        <5> QED BY <5>1, <2>1, <3>2, <4>3, CallsAfterTwice
      <4>6. ASSUME i \notin DOMAIN g.db PROVE NeverEnds(q, s)
        <5>1. ~(start < Len(t))
          BY <1>3, <2>4, <3>1, <3>4, <4>6 DEF start
        <5>2. k + start = Len(s)
          <6> DEFINE n == Len(t)
          <6>1. n = Len(s) - k /\ start \in 1..n /\ ~(start < n)
            BY <5>1, <3>3, <4>2
          <6> HIDE DEF n
          <6> QED BY <6>1, <2>1, <3>2
        <5> QED BY <5>2, <4>1, <2>1 DEF EndsAt, NeverEnds
      <4> QED BY <2>2, <2>4, <3>1, <3>4, <4>1, <4>4, <4>5, <4>6 DEF s
    <3>5. CASE ~Occurs(item, t)
      <4>1. \A h \in 0..Len(s) : ~Embeds(q, Len(q), s, h)
        BY <1>1, <2>1, <3>1, <3>5, GrowingEnds DEF q
      <4>2. i \notin DOMAIN g.db
        BY <1>3, <2>4, <3>1, <3>5
      <4>3. Len(s) \in 0..Len(s)
        BY <2>1
      <4> QED BY <2>2, <3>1, <3>5, <4>1, <4>2, <4>3 DEF s, NeverEnds
    <3> QED BY <3>4, <3>5
  <2>5. CASE i \notin DOMAIN p.db
    <3>1. NeverEnds(p.tools, s)
      BY <2>3, <2>5 DEF Projected, s
    <3>2. \A h \in 0..Len(s) : ~Embeds(q, Len(q), s, h)
      BY <1>1, <2>1, <3>1, NeverEndsLonger DEF q
    <3>3. i \notin DOMAIN g.db /\ Len(s) \in 0..Len(s)
      BY <1>3, <2>1, <2>5
    <3> QED BY <2>2, <2>5, <3>2, <3>3 DEF s, NeverEnds
  <2> QED BY <2>4, <2>5
<1>5. DOMAIN base = D
  OBVIOUS
<1>6. Projected(base, g)
  BY <1>2, <1>4, <1>5 DEF Projected
<1>7. {i \in DOMAIN p.db : Occurs(item, p.db[i])} = SessionsIn(base, q)
  BY <1>1, <1>4, <1>5 DEF SessionsIn
<1>8. g.support = Cardinality(SessionsIn(base, q))
  BY <1>2, <1>7 DEF ItemCount
<1> QED BY <1>6, <1>8 DEF g, q

(* A pattern is contained where a longer one is.                            *)
LEMMA ShorterIsContained ==
  ASSUME NEW S, NEW s \in Seq(S), NEW p \in Seq(S), NEW item \in S,
         IsSubsequence(Append(p, item), s)
  PROVE  IsSubsequence(p, s)
<1> DEFINE q == Append(p, item)
<1>1. DOMAIN p \subseteq DOMAIN q /\ \A i \in DOMAIN p : q[i] = p[i]
  <2>1. /\ Len(p) \in Nat /\ DOMAIN p = 1..Len(p) /\ DOMAIN q = 1..(Len(p) + 1)
        /\ \A i \in 1..Len(p) : q[i] = p[i]
    BY LenProperties, AppendProperties
  <2> HIDE DEF q
  <2>2. 1..Len(p) \subseteq 1..(Len(p) + 1)
    BY <2>1
  <2> QED BY <2>1, <2>2
<1> HIDE DEF q
<1>2. PICK at \in [DOMAIN q -> DOMAIN s] :
         /\ \A i, j \in DOMAIN q : i < j => at[i] < at[j]
         /\ \A i \in DOMAIN q : s[at[i]] = q[i]
  BY DEF IsSubsequence, q
<1> DEFINE less == [i \in DOMAIN p |-> at[i]]
<1>3. less \in [DOMAIN p -> DOMAIN s] /\ \A i \in DOMAIN p : less[i] = at[i]
  BY <1>1, <1>2
<1> HIDE DEF less
<1>4. /\ \A i, j \in DOMAIN p : i < j => less[i] < less[j]
      /\ \A i \in DOMAIN p : s[less[i]] = p[i]
  BY <1>1, <1>2, <1>3
<1> QED BY <1>3, <1>4 DEF IsSubsequence

LEMMA WithShorter ==
  ASSUME NEW D, IsFiniteSet(D), NEW base \in [D -> Seq(MinedTools)],
         NEW p \in Seq(MinedTools), NEW item \in MinedTools
  PROVE  /\ Cardinality(SessionsIn(base, p)) \in Nat
         /\ Cardinality(SessionsIn(base, Append(p, item))) \in Nat
         /\ Cardinality(SessionsIn(base, Append(p, item))) <= Cardinality(SessionsIn(base, p))
<1>1. SessionsIn(base, p) \subseteq D
  BY DEF SessionsIn
<1>2. SessionsIn(base, Append(p, item)) \subseteq SessionsIn(base, p)
  BY ShorterIsContained DEF SessionsIn
<1>3. IsFiniteSet(SessionsIn(base, p)) /\ IsFiniteSet(SessionsIn(base, Append(p, item)))
  BY <1>1, <1>2, FS_Subset
<1> QED BY <1>2, <1>3, FS_Subset, FS_CardinalityType

(* What is grown to the length n is what enough sessions contain.           *)
IsLevel(G, n, D, base, support) ==
  /\ G \subseteq Prefixes(D)
  /\ \A p \in G :
       /\ Len(p.tools) = n /\ Projected(base, p)
       /\ n > 0 => p.support = Cardinality(SessionsIn(base, p.tools)) /\ p.support >= support
  /\ \A tools \in Seq(MinedTools) :
       Len(tools) = n /\ Cardinality(SessionsIn(base, tools)) >= support
         => \E p \in G : p.tools = tools

LEMMA FirstLevel ==
  ASSUME NEW D, IsFiniteSet(D), NEW base \in [D -> Seq(MinedTools)], NEW support \in Nat
  PROVE  IsLevel({Unprefixed(base)}, 0, D, base, support)
<1> DEFINE p == Unprefixed(base)
<1>1. /\ p.tools = <<>> /\ p.db = base /\ p.support = Cardinality(D)
      /\ p = [tools |-> <<>>, support |-> Cardinality(D), db |-> base]
  BY DEF Unprefixed
<1>2. base \in Databases(D) /\ DOMAIN base = D
  BY DEF Databases
<1>3. p \in Prefixes(D)
  <2>1. <<>> \in Seq(MinedTools) /\ Cardinality(D) \in Nat
    BY EmptySeq, FS_CardinalityType
  <2> HIDE DEF p
  <2> QED BY <1>1, <1>2, <2>1 DEF Prefixes
<1>4. ASSUME NEW i \in D
      PROVE  EndsAt(<<>>, base[i], 0) /\ base[i] = CallsAfter(base[i], 0)
  <2> DEFINE s == base[i]
  <2>1. s \in Seq(MinedTools) /\ Len(s) \in Nat
    BY LenProperties
  <2> HIDE DEF s
  <2>2. 0 \in 0..Len(s) /\ Len(<<>>) = 0
    BY <2>1, EmptySeq
  <2>3. \A h \in 0..Len(s) : Embeds(<<>>, 0, s, h) /\ 0 <= h
    BY <2>1, EmbedsNothing
  <2>4. /\ CallsAfter(s, 0) \in Seq(MinedTools) /\ Len(CallsAfter(s, 0)) = Len(s)
        /\ \A j \in 1..Len(s) : CallsAfter(s, 0)[j] = s[j]
    <3>1. /\ CallsAfter(s, 0) \in Seq(MinedTools) /\ Len(CallsAfter(s, 0)) = Len(s) - 0
          /\ \A j \in 1..(Len(s) - 0) : CallsAfter(s, 0)[j] = s[0 + j]
      BY <2>1, <2>2, CallsAfterOf
    <3>2. Len(s) - 0 = Len(s) /\ \A j \in 1..Len(s) : 0 + j = j
      BY <2>1
    <3> QED BY <3>1, <3>2
  <2>5. CallsAfter(s, 0) = s
    BY <2>1, <2>4, SeqEqual
  <2> QED BY <2>2, <2>3, <2>5 DEF EndsAt, s
<1>5. Projected(base, p)
  <2> HIDE DEF p
  <2> QED BY <1>1, <1>2, <1>4 DEF Projected
<1>6. \A tools \in Seq(MinedTools) : Len(tools) = 0 => tools = p.tools
  BY <1>1, EmptySeq
<1>7. Len(p.tools) = 0
  BY <1>1, EmptySeq
<1> HIDE DEF p
<1>8. IsLevel({p}, 0, D, base, support)
  BY <1>3, <1>5, <1>6, <1>7 DEF IsLevel
<1> QED BY <1>8 DEF p

LEMMA NextLevel ==
  ASSUME NEW D, IsFiniteSet(D), NEW base \in [D -> Seq(MinedTools)], NEW support \in Nat,
         NEW n \in Nat, NEW G, IsLevel(G, n, D, base, support)
  PROVE  IsLevel(growPrefix(G, support), n + 1, D, base, support)
<1> DEFINE H == growPrefix(G, support)
<1>1. \A g : g \in H <=> \E p \in G : \E item \in MinedTools :
                           ItemCount(p.db, item) >= support /\ g = Grown(p, item)
  BY GrowingOf
<1> HIDE DEF H
<1>2. \A p \in G : p \in Prefixes(D) /\ Projected(base, p)
                   /\ p.tools \in Seq(MinedTools) /\ Len(p.tools) = n
  BY DEF IsLevel, Prefixes
<1>3. ASSUME NEW p \in G, NEW item \in MinedTools
      PROVE  /\ Grown(p, item) \in Prefixes(D) /\ Projected(base, Grown(p, item))
             /\ Grown(p, item).tools = Append(p.tools, item)
             /\ Len(Append(p.tools, item)) = n + 1
             /\ Grown(p, item).support = Cardinality(SessionsIn(base, Append(p.tools, item)))
             /\ Grown(p, item).support = ItemCount(p.db, item)
  <2>1. Len(Append(p.tools, item)) = n + 1
    BY <1>2, AppendProperties
  <2>2. Grown(p, item).tools = Append(p.tools, item)
        /\ Grown(p, item).support = ItemCount(p.db, item)
    BY DEF Grown
  <2> QED BY <1>2, <2>1, <2>2, GrownOf, GrownIsProjected
<1>4. ASSUME NEW g \in H
      PROVE  /\ g \in Prefixes(D) /\ Len(g.tools) = n + 1 /\ Projected(base, g)
             /\ g.support = Cardinality(SessionsIn(base, g.tools)) /\ g.support >= support
  <2>1. PICK p \in G, item \in MinedTools :
             ItemCount(p.db, item) >= support /\ g = Grown(p, item)
    BY <1>1
  <2> QED BY <2>1, <1>3
<1>5. ASSUME NEW tools \in Seq(MinedTools), Len(tools) = n + 1,
             Cardinality(SessionsIn(base, tools)) >= support
      PROVE  \E g \in H : g.tools = tools
  <2>1. PICK front \in Seq(MinedTools), item \in MinedTools : tools = Append(front, item)
    <3>1. tools # <<>>
      BY <1>5, EmptySeq
    <3> QED BY <3>1, SequenceEmptyOrAppend
  <2>2. Len(front) = n
    BY <2>1, <1>5, LenProperties, AppendProperties
  <2>3. Cardinality(SessionsIn(base, front)) >= support
    BY <2>1, <1>5, WithShorter
  <2>4. PICK p \in G : p.tools = front
    BY <2>2, <2>3 DEF IsLevel
  <2>5. Grown(p, item).tools = tools /\ ItemCount(p.db, item) >= support
    BY <2>1, <2>4, <1>3, <1>5
  <2> QED BY <2>5, <1>1
<1>6. IsLevel(H, n + 1, D, base, support)
  BY <1>4, <1>5 DEF IsLevel
<1> QED BY <1>6 DEF H

(* mineFrequentSequences finds the frequent patterns.                       *)
LEMMA MiningOf ==
  ASSUME NEW D, IsFiniteSet(D), NEW base \in [D -> Seq(MinedTools)],
         NEW support \in Nat \ {0}, NEW least \in Nat \ {0}, NEW most \in Nat
  PROVE  mineFrequentSequences(base, support, least, most) =
           {[tools |-> p, support |-> Cardinality(SessionsIn(base, p))] :
              p \in {p \in ListsOf(MinedTools, least, most) :
                       Cardinality(SessionsIn(base, p)) >= support}}
<1> DEFINE T == SUBSET Prefixes(D)
           next(G) == growPrefix(G, support)
           step == [x \in Nat \X T |-> next(x[2])]
           GrownTo(f) == f = [n \in 0..most |->
             IF n = 0 THEN {Unprefixed(base)} ELSE growPrefix(f[n - 1], support)]
           grown == CHOOSE f : GrownTo(f)
           frequent == {p \in ListsOf(MinedTools, least, most) :
                          Cardinality(SessionsIn(base, p)) >= support}
           found == {[tools |-> p, support |-> Cardinality(SessionsIn(base, p))] : p \in frequent}
<1>1. \A G \in T : next(G) \in T
  <2> SUFFICES ASSUME NEW G \in T, NEW g \in next(G) PROVE g \in Prefixes(D)
    OBVIOUS
  <2>1. PICK p \in G, item \in MinedTools : g = Grown(p, item)
    BY GrowingOf
  <2> QED BY <2>1, GrownOf
<1>2. step \in [Nat \X T -> T]
  <2> HIDE DEF next, T
  <2> QED BY <1>1
<1>3. {Unprefixed(base)} \in T /\ IsLevel({Unprefixed(base)}, 0, D, base, support)
  BY FirstLevel DEF IsLevel
<1>4. PICK f : Iterates(f, most, T, {Unprefixed(base)}, step)
  <2> HIDE DEF step, T
  <2> QED BY <1>2, <1>3, IterationIsDefined
<1>5. ASSUME NEW n \in 1..most PROVE f[n] = next(f[n - 1])
  <2>1. n \in Nat /\ f[n - 1] \in T
    <3> HIDE DEF T
    <3> QED BY <1>4 DEF Iterates
  <2>2. step[<<n, f[n - 1]>>] = next(f[n - 1])
    <3> HIDE DEF next, T
    <3> QED BY <2>1
  <2> QED BY <1>4, <2>2 DEF Iterates
<1>6. GrownTo(f)
  <2>1. \A n \in 0..most : n = 0 \/ n \in 1..most
    OBVIOUS
  <2>2. f = [n \in 0..most |-> IF n = 0 THEN {Unprefixed(base)} ELSE next(f[n - 1])]
    <3> HIDE DEF next, T
    <3> QED BY <1>4, <1>5, <2>1 DEF Iterates
  <2> QED BY <2>2
<1>7. GrownTo(grown)
  <2> HIDE DEF GrownTo
  <2> QED BY <1>6
<1>8. grown[0] = {Unprefixed(base)} /\ \A n \in 1..most : grown[n] = next(grown[n - 1])
  <2> HIDE DEF grown
  <2>1. \A n \in 0..most : grown[n] = IF n = 0 THEN {Unprefixed(base)} ELSE next(grown[n - 1])
    BY <1>7
  <2> HIDE DEF next
  <2>2. 0 \in 0..most /\ \A n \in 1..most : n \in 0..most /\ n # 0
    OBVIOUS
  <2> QED BY <2>1, <2>2
<1>9. mineFrequentSequences(base, support, least, most) =
        IF DOMAIN base = {} \/ most < least THEN {}
        ELSE UNION {{[tools |-> p.tools, support |-> p.support] : p \in grown[n]}
                    : n \in least..most}
  BY DEF mineFrequentSequences
<1> HIDE DEF grown, GrownTo, step
<1>10. \A n \in Nat : n <= most => IsLevel(grown[n], n, D, base, support)
  <2> DEFINE Levels == {n \in Nat : n <= most => IsLevel(grown[n], n, D, base, support)}
  <2>1. 0 \in Levels
    BY <1>3, <1>8
  <2>2. ASSUME NEW n \in Nat, n \in Levels PROVE n + 1 \in Levels
    <3> SUFFICES ASSUME n + 1 <= most PROVE IsLevel(grown[n + 1], n + 1, D, base, support)
      OBVIOUS
    <3>1. n + 1 \in 1..most /\ (n + 1) - 1 = n /\ n <= most
      OBVIOUS
    <3>2. grown[n + 1] = growPrefix(grown[n], support)
      BY <1>8, <3>1
    <3>3. IsLevel(grown[n], n, D, base, support)
      BY <2>2, <3>1
    <3> QED BY <3>2, <3>3, NextLevel
  <2>3. Nat \subseteq Levels
    <3> HIDE DEF Levels
    <3> QED BY <2>1, <2>2, InductionInSet
  <2> QED BY <2>3
<1>11. \A p : p \in frequent <=>
         /\ p \in Seq(MinedTools) /\ Len(p) \in least..most
         /\ Cardinality(SessionsIn(base, p)) >= support
  <2>1. ASSUME NEW p \in ListsOf(MinedTools, least, most)
        PROVE  p \in Seq(MinedTools) /\ Len(p) \in least..most
    <3>1. PICK n \in least..most : p \in [1..n -> MinedTools]
      BY <2>1 DEF ListsOf
    <3> QED BY <3>1
  <2>2. ASSUME NEW p \in Seq(MinedTools), Len(p) \in least..most
        PROVE  p \in ListsOf(MinedTools, least, most)
    <3>1. p \in [1..Len(p) -> MinedTools]
      BY LenProperties
    <3> QED BY <3>1, <2>2, Zenon DEF ListsOf
  <2> QED BY <2>1, <2>2
<1> HIDE DEF frequent
<1>12. CASE DOMAIN base = {} \/ most < least
  <2>1. ASSUME NEW p \in frequent PROVE FALSE
    <3>1. CASE DOMAIN base = {}
      <4>1. SessionsIn(base, p) = {}
        BY <3>1 DEF SessionsIn
      <4>2. Cardinality({}) = 0
        BY FS_EmptySet
      <4>3. Cardinality(SessionsIn(base, p)) >= support
        BY <2>1, <1>11
      <4> QED BY <4>1, <4>2, <4>3
    <3>2. CASE most < least
      BY <3>2, <2>1, <1>11
    <3> QED BY <1>12, <3>1, <3>2
  <2>2. found = {}
    BY <2>1
  <2>3. mineFrequentSequences(base, support, least, most) = {}
    BY <1>9, <1>12
  <2> HIDE DEF found
  <2>4. mineFrequentSequences(base, support, least, most) = found
    BY <2>2, <2>3
  <2> QED BY <2>4 DEF found, frequent
<1>13. CASE ~(DOMAIN base = {} \/ most < least)
  <2> DEFINE part(n) == {[tools |-> p.tools, support |-> p.support] : p \in grown[n]}
             mineable == mineFrequentSequences(base, support, least, most)
  <2>1. \A r : r \in mineable <=> \E n \in least..most : r \in part(n)
    BY <1>9, <1>13
  <2>2. \A n \in least..most : n \in Nat /\ n > 0 /\ IsLevel(grown[n], n, D, base, support)
    BY <1>10
  <2>3. ASSUME NEW n \in least..most, NEW r \in part(n) PROVE r \in found
    <3>1. PICK p \in grown[n] : r = [tools |-> p.tools, support |-> p.support]
      OBVIOUS
    <3>2. /\ p \in Prefixes(D) /\ Len(p.tools) = n
          /\ p.support = Cardinality(SessionsIn(base, p.tools)) /\ p.support >= support
      BY <2>2 DEF IsLevel
    <3>3. p.tools \in frequent
      BY <3>2, <1>11 DEF Prefixes
    <3> QED BY <3>1, <3>2, <3>3
  <2>4. ASSUME NEW r \in found PROVE \E n \in least..most : r \in part(n)
    <3>1. PICK tools \in frequent :
               r = [tools |-> tools, support |-> Cardinality(SessionsIn(base, tools))]
      OBVIOUS
    <3> DEFINE n == Len(tools)
    <3>2. /\ tools \in Seq(MinedTools) /\ n \in least..most
          /\ Cardinality(SessionsIn(base, tools)) >= support
      BY <1>11
    <3>3. PICK p \in grown[n] : p.tools = tools
      BY <2>2, <3>2 DEF IsLevel
    <3>4. p.support = Cardinality(SessionsIn(base, tools))
      BY <2>2, <3>2, <3>3 DEF IsLevel
    <3> QED BY <3>1, <3>2, <3>3, <3>4
  <2> HIDE DEF part, found, mineable
  <2>5. mineable = found
    BY <2>1, <2>3, <2>4
  <2> QED BY <2>5 DEF mineable, found, frequent
<1> QED BY <1>12, <1>13

(* The variables of the miner keep their types, and what it mines has an    *)
(* allowed length and number of sessions, for every input.                  *)
MiningIInv ==
  /\ sequences \in ListsOf(ListsOf(MinedTools, 0, MaxSessionCalls), 0, MaxMined)
  /\ minSupport \in 1..MaxMined
  /\ minLength \in 1..MaxSessionCalls /\ maxLength \in 1..MaxSessionCalls
  /\ mined \in BOOLEAN
  /\ results = IF mined THEN mineFrequentSequences(sequences, minSupport, minLength, maxLength)
               ELSE {}

LEMMA ListsAre ==
  ASSUME NEW S, NEW least \in Nat, NEW most \in Nat, NEW p \in ListsOf(S, least, most)
  PROVE  p \in Seq(S) /\ Len(p) \in least..most
<1>1. PICK n \in least..most : p \in [1..n -> S]
  BY DEF ListsOf
<1> QED BY <1>1

(* The sessions are a database of as many sessions.                         *)
LEMMA SessionsAre ==
  ASSUME MiningIInv
  PROVE  /\ IsFiniteSet(DOMAIN sequences) /\ sequences \in [DOMAIN sequences -> Seq(MinedTools)]
         /\ Cardinality(DOMAIN sequences) <= MaxMined
<1> DEFINE C == ListsOf(MinedTools, 0, MaxSessionCalls)
<1>1. MaxMined \in Nat /\ MaxSessionCalls \in Nat
  BY MiningAssumption
<1>2. sequences \in ListsOf(C, 0, MaxMined)
  BY DEF MiningIInv
<1>3. \A s \in C : s \in Seq(MinedTools)
  BY <1>1, ListsAre
<1> HIDE DEF C
<1>4. sequences \in Seq(C) /\ Len(sequences) \in 0..MaxMined
  BY <1>1, <1>2, ListsAre
<1>5. DOMAIN sequences = 1..Len(sequences) /\ Len(sequences) \in Nat
      /\ \A i \in 1..Len(sequences) : sequences[i] \in C
  BY <1>4, LenProperties, ElementOfSeq
<1>6. sequences \in [DOMAIN sequences -> Seq(MinedTools)]
  BY <1>3, <1>4, <1>5
<1>7. IsFiniteSet(1..Len(sequences)) /\ Cardinality(1..Len(sequences)) = Len(sequences)
  BY <1>5, FS_Interval
<1> QED BY <1>4, <1>5, <1>6, <1>7

LEMMA MiningIsFrequent ==
  ASSUME MiningIInv, mined
  PROVE  results = {[tools |-> p, support |-> Cardinality(SessionsWith(p))] : p \in Frequent}
<1>1. minSupport \in Nat \ {0} /\ minLength \in Nat \ {0} /\ maxLength \in Nat
  BY MiningAssumption DEF MiningIInv
<1>2. results = {[tools |-> p, support |-> Cardinality(SessionsIn(sequences, p))] :
                   p \in {p \in ListsOf(MinedTools, minLength, maxLength) :
                            Cardinality(SessionsIn(sequences, p)) >= minSupport}}
  BY <1>1, SessionsAre, MiningOf DEF MiningIInv
<1>3. \A p : SessionsIn(sequences, p) = SessionsWith(p)
  BY DEF SessionsIn, SessionsWith
<1> QED BY <1>2, <1>3 DEF Frequent

LEMMA MiningInitInv == MiningInit => MiningIInv
  BY DEF MiningInit, MiningIInv

LEMMA MiningNextInv == MiningIInv /\ [MiningNext]_miningVars => MiningIInv'
<1> SUFFICES ASSUME MiningIInv, [MiningNext]_miningVars PROVE MiningIInv'
  OBVIOUS
<1>1. CASE Mine
  BY <1>1 DEF Mine, MiningIInv
<1>2. CASE UNCHANGED miningVars
  BY <1>2 DEF miningVars, MiningIInv
<1> QED BY <1>1, <1>2 DEF MiningNext

LEMMA MiningImpliesFrequent == MiningIInv => MinesTheFrequent
<1> SUFFICES ASSUME MiningIInv, mined PROVE MinesTheFrequent
  BY DEF MinesTheFrequent
<1>1. results = {[tools |-> p, support |-> Cardinality(SessionsWith(p))] : p \in Frequent}
  BY MiningIsFrequent
<1>2. ASSUME NEW p \in Frequent
      PROVE  {i \in DOMAIN sequences : containsSubsequence(sequences[i], p)} = SessionsWith(p)
  <2>1. minLength \in Nat /\ maxLength \in Nat
    BY MiningAssumption DEF MiningIInv
  <2>2. p \in Seq(MinedTools)
    BY <2>1, ListsAre DEF Frequent
  <2>3. \A i \in DOMAIN sequences : sequences[i] \in Seq(MinedTools)
    BY SessionsAre
  <2>4. \A i \in DOMAIN sequences :
          containsSubsequence(sequences[i], p) <=> IsSubsequence(p, sequences[i])
    BY <2>2, <2>3, MatchedOf
  <2> QED BY <2>4 DEF SessionsWith
<1> QED BY <1>1, <1>2 DEF MinesTheFrequent

LEMMA MiningImpliesType == MiningIInv => MiningTypeOK
<1> SUFFICES ASSUME MiningIInv, NEW r \in results
             PROVE  r \in [tools : ListsOf(MinedTools, minLength, maxLength),
                           support : minSupport..MaxMined]
  BY DEF MiningIInv, MiningTypeOK
<1>1. mined
  BY DEF MiningIInv
<1>2. PICK p \in Frequent : r = [tools |-> p, support |-> Cardinality(SessionsWith(p))]
  BY <1>1, MiningIsFrequent
<1>3. p \in ListsOf(MinedTools, minLength, maxLength)
      /\ Cardinality(SessionsWith(p)) >= minSupport
  BY DEF Frequent
<1>4. SessionsWith(p) \subseteq DOMAIN sequences
  BY DEF SessionsWith
<1>5. IsFiniteSet(DOMAIN sequences) /\ Cardinality(DOMAIN sequences) <= MaxMined
  BY SessionsAre
<1>6. /\ Cardinality(SessionsWith(p)) \in Nat /\ Cardinality(DOMAIN sequences) \in Nat
      /\ Cardinality(SessionsWith(p)) <= Cardinality(DOMAIN sequences)
  BY <1>4, <1>5, FS_Subset, FS_CardinalityType
<1>7. Cardinality(SessionsWith(p)) \in minSupport..MaxMined
  BY <1>3, <1>5, <1>6, MiningAssumption DEF MiningIInv
<1> QED BY <1>2, <1>3, <1>7

THEOREM MiningTypeCorrect == MiningSpec => []MiningTypeOK
<1>1. MiningSpec => []MiningIInv
  BY MiningInitInv, MiningNextInv, PTL DEF MiningSpec
<1> QED BY <1>1, MiningImpliesType, PTL

(* Projection and growth find every pattern of an allowed length that       *)
(* enough sessions contain, with their number, and no other; and the greedy *)
(* test agrees with the definition of a subsequence.                        *)
THEOREM MinesOnlyTheFrequent == MiningSpec => []MinesTheFrequent
<1>1. MiningSpec => []MiningIInv
  BY MiningInitInv, MiningNextInv, PTL DEF MiningSpec
<1> QED BY <1>1, MiningImpliesFrequent, PTL
================================================================================
