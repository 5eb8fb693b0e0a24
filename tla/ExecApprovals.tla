----------------------------- MODULE ExecApprovals ------------------------------
(***************************************************************************)
(* The allowlist of approved commands                                      *)
(* (packages/exec-approvals/src/middleware.ts over allowlist.ts): loaded   *)
(* from Nexus when a session starts, or made empty by a call that finds no *)
(* session, grown by the approvals of a person, and flushed by a timer and *)
(* at the session's end.  A flush takes the dirty entries before its await *)
(* and marks everything clean after it.                                    *)
(* Of the analysis only the lookup in the allowlist is modelled, and that  *)
(* a safe binary with a dangerous flag is asked about before it.  Two      *)
(* approvals never have the same time.                                     *)
(***************************************************************************)
EXTENDS FiniteSets, Naturals

CONSTANTS
  Patterns, maxPatterns,
  Flagged,          \* patterns whose commands are asked about even when listed
  TimerFlushes,     \* the flushes of the timer that may be under way at once
  MaxApprovals, MaxExecSessions      \* bounds of this model

AtEnd == 0          \* the flush that onSessionEnd awaits

ASSUME ApprovalsAssumption == AtEnd \notin TimerFlushes /\ MaxApprovals \in Nat

NotListed == [count |-> 0, at |-> 0]
NoFlush == [sent |-> [p \in Patterns |-> NotListed], landed |-> FALSE]

VARIABLES
  execSession,      \* "off", "loading", "on", "ending"; "lazy" with a list of a call's own
  sessions,         \* sessions started so far
  allowlist,        \* pattern -> its entry in memory
  dirtyPatterns,
  nexusAllowlist,   \* (external) pattern -> its entry at Nexus
  flushes,          \* flush -> what it sent, and whether Nexus has it
  undecided,        \* patterns a person is asked about
  approvals,        \* approvals given so far, and the time of the last
  granted,          \* history: pattern -> approvals given so far
  excused           \* history: patterns some count of which was openly lost

execVars == <<execSession, sessions, allowlist, dirtyPatterns, nexusAllowlist, flushes,
              undecided, approvals, granted, excused>>

ExecInit ==
  /\ execSession = "off" /\ sessions = 0
  /\ allowlist = [p \in Patterns |-> NotListed] /\ dirtyPatterns = {}
  /\ nexusAllowlist = [p \in Patterns |-> NotListed]
  /\ flushes = [f \in TimerFlushes \union {AtEnd} |-> NoFlush]
  /\ undecided = {} /\ approvals = 0
  /\ granted = [p \in Patterns |-> 0] /\ excused = {}

Listed == {p \in Patterns : allowlist[p] # NotListed}
UnderWay == {f \in DOMAIN flushes : flushes[f] # NoFlush}

-----------------------------------------------------------------------------
(* A list made by a call is dropped with all it has.                        *)
StartSession ==
  /\ execSession \in {"off", "lazy"} /\ sessions < MaxExecSessions
  /\ execSession' = "loading" /\ sessions' = sessions + 1
  /\ allowlist' = [p \in Patterns |-> NotListed] /\ dirtyPatterns' = {}
  /\ excused' = IF execSession = "lazy" THEN excused \union dirtyPatterns ELSE excused
  /\ UNCHANGED <<nexusAllowlist, flushes, undecided, approvals, granted>>

ListLoaded ==
  /\ execSession = "loading"
  /\ execSession' = "on"
  /\ allowlist' = nexusAllowlist
  /\ UNCHANGED <<sessions, dirtyPatterns, nexusAllowlist, flushes, undecided,
                 approvals, granted, excused>>

(* A failed or late answer: the session starts with an empty list.          *)
LoadFails ==
  /\ execSession = "loading"
  /\ execSession' = "on"
  /\ excused' = excused \union {p \in Patterns : granted[p] > 0}
  /\ UNCHANGED <<sessions, allowlist, dirtyPatterns, nexusAllowlist, flushes, undecided,
                 approvals, granted>>

-----------------------------------------------------------------------------
(* A tool call before a session, or after it, makes an empty list, which    *)
(* knows of no approval so far.                                             *)
ListForCall ==
  IF execSession = "off"
  THEN /\ execSession' = "lazy"
       /\ allowlist' = [p \in Patterns |-> NotListed] /\ dirtyPatterns' = {}
       /\ excused' = excused \union {p \in Patterns : granted[p] > 0}
  ELSE UNCHANGED <<execSession, allowlist, dirtyPatterns, excused>>

CallUnasked ==
  /\ execSession = "off"
  /\ ListForCall
  /\ UNCHANGED <<sessions, nexusAllowlist, flushes, undecided, approvals, granted>>

AskApproval(p) ==
  /\ execSession \in {"off", "lazy", "on"} /\ p \notin undecided
  /\ execSession # "off" /\ p \in Listed => p \in Flagged
  /\ ListForCall
  /\ undecided' = undecided \union {p}
  /\ UNCHANGED <<sessions, nexusAllowlist, flushes, approvals, granted>>

Deny(p) ==
  /\ p \in undecided
  /\ undecided' = undecided \ {p}
  /\ UNCHANGED <<execSession, sessions, allowlist, dirtyPatterns, nexusAllowlist, flushes,
                 approvals, granted, excused>>

(* evictOldest: the entry approved the longest ago makes room.              *)
Oldest == {p \in Listed : \A q \in Listed : allowlist[p].at <= allowlist[q].at}
EvictedFor(p) == IF p \in Listed \/ Cardinality(Listed) < maxPatterns THEN {} ELSE Oldest

RecordApprovalClean(p) ==  \* mutant: a known pattern is not marked as modified
  /\ allowlist' = [q \in Patterns |->
       IF q = p THEN [count |-> allowlist[p].count + 1, at |-> approvals + 1]
       ELSE IF q \in EvictedFor(p) THEN NotListed ELSE allowlist[q]]
  /\ dirtyPatterns' = dirtyPatterns \union ({p} \ Listed)

RecordApproval(p) ==
  /\ allowlist' = [q \in Patterns |->
       IF q = p THEN [count |-> allowlist[p].count + 1, at |-> approvals + 1]
       ELSE IF q \in EvictedFor(p) THEN NotListed ELSE allowlist[q]]
  /\ dirtyPatterns' = dirtyPatterns \union {p}

(* An approval is recorded in whatever list there is when it comes, which   *)
(* may be that of a later session, or none.                                 *)
Approve(p) ==
  /\ p \in undecided /\ approvals < MaxApprovals
  /\ undecided' = undecided \ {p}
  /\ approvals' = approvals + 1
  /\ granted' = [granted EXCEPT ![p] = @ + 1]
  /\ IF execSession \in {"on", "ending", "lazy"}
     THEN /\ RecordApproval(p)
          /\ excused' = excused \union EvictedFor(p)
                                \union (IF UnderWay = {} THEN {} ELSE {p})
     ELSE /\ excused' = excused \union {p}
          /\ UNCHANGED <<allowlist, dirtyPatterns>>
  /\ UNCHANGED <<execSession, sessions, nexusAllowlist, flushes>>

-----------------------------------------------------------------------------
(* toDirtyEntries: an entry that was evicted is not among them.             *)
ToSend == [p \in Patterns |-> IF p \in dirtyPatterns THEN allowlist[p] ELSE NotListed]
Sends == dirtyPatterns \intersect Listed # {}
Sent(f) == flushes' = [flushes EXCEPT ![f] = [sent |-> ToSend, landed |-> FALSE]]

SyncTimer(f) ==
  /\ execSession = "on" /\ Sends
  /\ flushes[f] = NoFlush
  /\ Sent(f)
  /\ UNCHANGED <<execSession, sessions, allowlist, dirtyPatterns, nexusAllowlist, undecided,
                 approvals, granted, excused>>

EndSession ==
  /\ execSession \in {"on", "lazy"}
  /\ IF Sends THEN execSession' = "ending" /\ Sent(AtEnd)
     ELSE execSession' = "off" /\ UNCHANGED flushes
  /\ UNCHANGED <<sessions, allowlist, dirtyPatterns, nexusAllowlist, undecided,
                 approvals, granted, excused>>

(* (external) Nexus takes the entries over its own.                         *)
Upsert(f) ==
  /\ flushes[f] # NoFlush /\ ~flushes[f].landed
  /\ flushes' = [flushes EXCEPT ![f].landed = TRUE]
  /\ nexusAllowlist' = [p \in Patterns |->
       IF flushes[f].sent[p] # NotListed THEN flushes[f].sent[p] ELSE nexusAllowlist[p]]
  /\ UNCHANGED <<execSession, sessions, allowlist, dirtyPatterns, undecided, approvals,
                 granted, excused>>

FlushEnded(f) ==
  /\ flushes' = [flushes EXCEPT ![f] = NoFlush]
  /\ execSession' = IF f = AtEnd THEN "off" ELSE execSession
  /\ UNCHANGED <<sessions, allowlist, nexusAllowlist, undecided, approvals, granted>>

(* markClean, on the list there is now.                                     *)
FlushDone(f) ==
  /\ flushes[f].landed
  /\ FlushEnded(f)
  /\ dirtyPatterns' = {}
  /\ UNCHANGED excused

(* The upsert or its answer is lost: the timer tries again, the end of the  *)
(* session does not.                                                        *)
FlushFailsClean(f) ==      \* mutant: the failure is taken for a success
  /\ flushes[f] # NoFlush
  /\ FlushEnded(f)
  /\ dirtyPatterns' = {}
  /\ excused' = excused \union (IF f = AtEnd THEN dirtyPatterns ELSE {})

FlushFails(f) ==
  /\ flushes[f] # NoFlush
  /\ FlushEnded(f)
  /\ excused' = excused \union (IF f = AtEnd THEN dirtyPatterns ELSE {})
  /\ UNCHANGED dirtyPatterns

ExecNext ==
  \/ StartSession \/ ListLoaded \/ LoadFails \/ EndSession \/ CallUnasked
  \/ \E p \in Patterns : AskApproval(p) \/ Deny(p) \/ Approve(p)
  \/ \E f \in TimerFlushes : SyncTimer(f)
  \/ \E f \in DOMAIN flushes : Upsert(f) \/ FlushDone(f) \/ FlushFails(f)

ExecSpec == ExecInit /\ [][ExecNext]_execVars

-----------------------------------------------------------------------------
ExecTypeOK ==
  LET Entries == [count : 0..MaxApprovals, at : 0..MaxApprovals] IN
  /\ execSession \in {"off", "loading", "on", "ending", "lazy"}
  /\ allowlist \in [Patterns -> Entries] /\ nexusAllowlist \in [Patterns -> Entries]
  /\ dirtyPatterns \subseteq Patterns /\ undecided \subseteq Patterns
  /\ excused \subseteq Patterns /\ approvals \in 0..MaxApprovals
  /\ execSession = "ending" => flushes[AtEnd] # NoFlush

(* Every approval is counted: in the list of the session, and at Nexus or   *)
(* among the entries still to be flushed.  The only ones lost are those     *)
(* evicted, those given while a flush was under way or no list was there,   *)
(* those a failed load or a failed last flush lost, and those that a list   *)
(* made by a call does not know or takes with it when a session starts.     *)
ApprovalsAreCounted ==
  \A p \in Patterns \ excused :
    /\ execSession \in {"on", "ending", "lazy"} => allowlist[p].count = granted[p]
    /\ execSession \in {"off", "loading"} \/ p \notin dirtyPatterns =>
         nexusAllowlist[p].count = granted[p]
=============================================================================
