---------------------------- MODULE SessionManager ----------------------------
(***************************************************************************)
(* The per-node session lifecycle of the gateway                           *)
(* (packages/gateway/src/sessions): a finite state machine per node driven *)
(* by frames and by two timers, an idle timer armed while the session is   *)
(* "connected" and a suspend timer armed while it is "idle".               *)
(*                                                                         *)
(* "disconnected" is terminal and is never stored across steps:            *)
(* handleEvent removes the session in the same call, so the absence of a   *)
(* session and the terminal state are the one value NoSession.  Session    *)
(* ids, timestamps and the reconnect counter decide nothing and are left   *)
(* out.                                                                    *)
(***************************************************************************)
EXTENDS Naturals, FiniteSets

CONSTANTS Nodes,        \* node ids
          Identities    \* identity contexts a session can be given

NoSession  == "none"
NoIdentity == "default"
States     == {"connected", "idle", "suspended"}
Events     == {"heartbeat", "message", "idle_timeout", "suspend_timeout",
               "disconnect", "reconnect"}

ASSUME IdentitiesAssumption == NoIdentity \notin Identities

VARIABLES
  sessions,       \* node -> state of its session, NoSession when it has none
  identities,     \* node -> identity context of its session
  idleTimers,     \* nodes whose idle timer is armed
  suspendTimers,  \* nodes whose suspend timer is armed
  wired,          \* is a transition handler registered?
  snapshot        \* the last toSnapshot() a caller kept

timers == <<idleTimers, suspendTimers>>
vars   == <<sessions, identities, timers, wired, snapshot>>

HasSession(n) == sessions[n] # NoSession

-----------------------------------------------------------------------------
(* The transition table: a triple is a valid transition, every other pair  *)
(* of a state and an event is invalid and changes nothing.                 *)

Transitions ==
  { <<"connected", "heartbeat",       "connected">>,
    <<"connected", "message",         "connected">>,
    <<"connected", "idle_timeout",    "idle">>,
    <<"connected", "disconnect",      NoSession>>,
    <<"idle",      "heartbeat",       "connected">>,
    <<"idle",      "message",         "connected">>,
    <<"idle",      "suspend_timeout", "suspended">>,
    <<"idle",      "disconnect",      NoSession>>,
    <<"suspended", "disconnect",      NoSession>>,
    <<"suspended", "reconnect",       "connected">> }

UpdateTimersLeak(n, state) ==      \* mutant: the timer of the old state is left running
  /\ idleTimers' = IF state = "connected" THEN idleTimers \union {n} ELSE idleTimers
  /\ suspendTimers' = IF state = "idle" THEN suspendTimers \union {n} ELSE suspendTimers

UpdateTimersOnce(n, state) ==      \* mutant: activity stops the timer and does not restart it
  /\ idleTimers' = idleTimers \ {n}
  /\ suspendTimers' = IF state = "idle" THEN suspendTimers \union {n}
                                        ELSE suspendTimers \ {n}

(* updateTimers: the timer of the new state is armed, the other cleared.   *)
UpdateTimers(n, state) ==
  /\ idleTimers' = IF state = "connected" THEN idleTimers \union {n}
                                          ELSE idleTimers \ {n}
  /\ suspendTimers' = IF state = "idle" THEN suspendTimers \union {n}
                                        ELSE suspendTimers \ {n}

RemoveSessionsIdentity(S) ==       \* mutant: the identity outlives the session
  /\ sessions' = [n \in Nodes |-> IF n \in S THEN NoSession ELSE sessions[n]]
  /\ idleTimers' = idleTimers \ S
  /\ suspendTimers' = suspendTimers \ S
  /\ UNCHANGED identities

(* cleanupSession for every node of S.                                     *)
RemoveSessions(S) ==
  /\ sessions'      = [n \in Nodes |-> IF n \in S THEN NoSession ELSE sessions[n]]
  /\ identities'    = [n \in Nodes |-> IF n \in S THEN NoIdentity ELSE identities[n]]
  /\ idleTimers'    = idleTimers \ S
  /\ suspendTimers' = suspendTimers \ S

-----------------------------------------------------------------------------
Init ==
  /\ sessions = [n \in Nodes |-> NoSession]
  /\ identities = [n \in Nodes |-> NoIdentity]
  /\ idleTimers = {}
  /\ suspendTimers = {}
  /\ wired = TRUE
  /\ snapshot = [sessions |-> sessions, identities |-> identities]

CreateSession(n) ==
  /\ ~HasSession(n)
  /\ sessions' = [sessions EXCEPT ![n] = "connected"]
  /\ idleTimers' = idleTimers \union {n}
  /\ UNCHANGED <<identities, suspendTimers>>

(* handleEvent on an existing session.  It throws when there is none, which *)
(* a caller has to prevent; an invalid event leaves everything unchanged.   *)
HandleEvent(n, event) ==
  /\ HasSession(n)
  /\ IF \E s \in States \union {NoSession} : <<sessions[n], event, s>> \in Transitions
     THEN \E s \in States \union {NoSession} :
            /\ <<sessions[n], event, s>> \in Transitions
            /\ IF s = NoSession
               THEN RemoveSessions({n})
               ELSE /\ sessions' = [sessions EXCEPT ![n] = s]
                    /\ UpdateTimers(n, s)
                    /\ UNCHANGED identities
     ELSE UNCHANGED <<sessions, identities, timers>>

IdleTimeout(n)    == n \in idleTimers    /\ HandleEvent(n, "idle_timeout")
SuspendTimeout(n) == n \in suspendTimers /\ HandleEvent(n, "suspend_timeout")

UpdateIdentity(n, identity) ==
  /\ HasSession(n)
  /\ identities[n] # identity
  /\ identities' = [identities EXCEPT ![n] = identity]
  /\ UNCHANGED <<sessions, timers>>

(* destroySession for every node of S, as a health sweep calls it.          *)
DestroySessions(S) ==
  /\ \A n \in S : HasSession(n)
  /\ RemoveSessions(S)

Dispose ==
  /\ RemoveSessions(Nodes)
  /\ wired' = FALSE

(* fromSnapshot disposes first, the transition handlers included, and      *)
(* starts no timer for the sessions it restores.                           *)
FromSnapshot(snap) ==
  /\ sessions' = snap.sessions
  /\ identities' = snap.identities
  /\ idleTimers' = {}
  /\ suspendTimers' = {}
  /\ wired' = FALSE

(* toSnapshot: what is captured is the sessions, not the timers.           *)
ToSnapshot == [sessions |-> sessions, identities |-> identities]

-----------------------------------------------------------------------------
(* The manager on its own, called in any order.                            *)

FrameEvents == Events \ {"idle_timeout", "suspend_timeout"}

Create(n)     == CreateSession(n) /\ UNCHANGED <<wired, snapshot>>
Event(n, e)   == HandleEvent(n, e) /\ UNCHANGED <<wired, snapshot>>
Idle(n)       == IdleTimeout(n) /\ UNCHANGED <<wired, snapshot>>
Suspend(n)    == SuspendTimeout(n) /\ UNCHANGED <<wired, snapshot>>
Identify(n)   == /\ \E i \in Identities \union {NoIdentity} : UpdateIdentity(n, i)
                 /\ UNCHANGED <<wired, snapshot>>
(* The health sweep keeps a snapshot just before it destroys sessions.     *)
Destroy(S)    == DestroySessions(S) /\ snapshot' \in {snapshot, ToSnapshot}
                                    /\ UNCHANGED wired
OnTransition  == wired' = TRUE /\ UNCHANGED <<sessions, identities, timers, snapshot>>
Capture       == snapshot' = ToSnapshot /\ UNCHANGED <<sessions, identities, timers, wired>>
Restore       == FromSnapshot(snapshot) /\ UNCHANGED snapshot
Shutdown      == Dispose /\ snapshot' \in {snapshot, ToSnapshot}

Next ==
  \/ \E n \in Nodes : Create(n) \/ Idle(n) \/ Suspend(n) \/ Identify(n)
  \/ \E S \in SUBSET Nodes : Destroy(S)
  \/ \E n \in Nodes, e \in FrameEvents : Event(n, e)
  \/ OnTransition \/ Capture \/ Restore \/ Shutdown

Spec == Init /\ [][Next]_vars

-----------------------------------------------------------------------------
Sessions == [Nodes -> States \union {NoSession}]
IdentityMaps      == [Nodes -> Identities \union {NoIdentity}]

(* Type invariant. *)
TypeOK ==
  /\ sessions \in Sessions
  /\ identities \in IdentityMaps
  /\ idleTimers \in SUBSET Nodes
  /\ suspendTimers \in SUBSET Nodes
  /\ wired \in BOOLEAN
  /\ snapshot \in [sessions : Sessions, identities : IdentityMaps]

(* An armed timer always belongs to a session in the state the timer is    *)
(* for, so the callback of a timer, which runs outside any try block,      *)
(* never meets a missing session (handleEvent would throw and take the     *)
(* process down) and never fires an invalid transition.                    *)
TimersMatchState ==
  /\ \A n \in idleTimers : sessions[n] = "connected"
  /\ \A n \in suspendTimers : sessions[n] = "idle"

(* A node without a session keeps no identity: the next session of the     *)
(* same node id starts from the default one, whatever path (disconnect,    *)
(* destroySession, dispose) removed the previous session.                  *)
IdentityOnlyWithSession ==
  \A n \in Nodes : ~HasSession(n) => identities[n] = NoIdentity

(* What is kept for a node besides its session never outlives it.          *)
SessionsAreWhole == TimersMatchState /\ IdentityOnlyWithSession

Timed(n)   == n \in idleTimers \union suspendTimers
Restoring  == timers' = <<{}, {}>> /\ wired' = FALSE

(* A session that has a timer running keeps one for as long as it is       *)
(* connected or idle: no event leaves a live session without the timeout   *)
(* that would move it on, fromSnapshot excepted.                           *)
StaysTimed ==
  [][\A n \in Nodes : Timed(n) /\ sessions'[n] \in {"connected", "idle"}
                        => Timed(n)' \/ Restoring]_vars
=============================================================================
