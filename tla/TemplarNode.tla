------------------------------ MODULE TemplarNode ------------------------------
(***************************************************************************)
(* The client of the gateway (packages/node/src/node.ts, ws-client.ts and  *)
(* reconnect.ts): start and stop, connecting, registering and connecting   *)
(* again with a limited number of tries.  Calls of connectAndRegister      *)
(* overlap: nothing stops the timer of a reconnection while start() still  *)
(* waits, and the events of a socket that was given up still arrive.       *)
(*                                                                         *)
(* Call number a owns socket number a.  The gateway and the network are    *)
(* free: they open, refuse, acknowledge and close as they like.            *)
(***************************************************************************)
EXTENDS Naturals, FiniteSets

CONSTANTS
  MaxRetries,       \* reconnect.maxRetries
  MaxStarts,        \* bound on the calls of start()
  MaxCalls          \* bound on the calls of connectAndRegister

ASSUME ClientAssumption == {MaxRetries, MaxStarts, MaxCalls} \subseteq Nat

Calls == 1..MaxCalls
None  == 0

VARIABLES
  state,            \* _state
  sessionId,        \* the socket the session was granted on, or None
  controller,       \* the start() whose AbortController is current, or None
  starts,           \* calls of start() so far
  calls,            \* connectAndRegister: who called, under whose signal, how far it is
  pendingAck,       \* the call _pendingAckResolve resolves, or None
  timer,            \* the controller under which a reconnection is scheduled, or None
  tries,            \* reconnectStrategy.currentAttempt
  ws,               \* wsClient.ws, or None
  sockets,
  wiredSockets,     \* sockets whose messages and close the node listens to
  registering       \* sockets on which the gateway holds a register frame

client  == <<state, sessionId, controller>>
retries == <<timer, tries>>
wire    == <<ws, sockets, wiredSockets, registering>>
nodeVars == <<client, starts, calls, pendingAck, retries, wire>>

Call(by, under, stage) == [by |-> by, under |-> under, stage |-> stage]
Unused == Call("nobody", None, "unused")
Over   == Call("nobody", None, "over")
InFlight(a) == calls[a] \notin {Unused, Over}

ClientInit ==
  /\ state = "disconnected" /\ sessionId = None /\ controller = None
  /\ starts = 0
  /\ calls = [a \in Calls |-> Unused]
  /\ pendingAck = None
  /\ timer = None /\ tries = 0
  /\ ws = None
  /\ sockets = [a \in Calls |-> "none"]
  /\ wiredSockets = {} /\ registering = {}

-----------------------------------------------------------------------------
(* disposeWs: an open socket is closed, one still opening is only forgotten.*)
Disposed == IF ws # None /\ sockets[ws] = "open"
            THEN [sockets EXCEPT ![ws] = "closing"] ELSE sockets

BeginCall(by, under) ==
  \E a \in Calls :
    /\ calls[a] = Unused /\ \A b \in 1..(a - 1) : calls[b] # Unused
    /\ calls' = [calls EXCEPT ![a] = Call(by, under, "token")]

(* scheduleReconnect, called in state now.                                  *)
ScheduleReconnect(now) ==
  \/ /\ controller = None
     /\ state' = now
     /\ UNCHANGED <<sessionId, retries>>
  \/ /\ controller # None /\ tries >= MaxRetries
     /\ state' = "disconnected" /\ sessionId' = None
     /\ UNCHANGED retries
  \/ /\ controller # None /\ tries < MaxRetries
     /\ state' = now
     /\ timer' = controller /\ tries' = tries + 1
     /\ UNCHANGED sessionId

(* connectAndRegister throws: start() resets the node, whatever else has     *)
(* happened to it meanwhile; a reconnection is tried again unless its signal *)
(* was aborted.                                                              *)
Fail(a) ==
  /\ calls' = [calls EXCEPT ![a] = Over]
  /\ IF calls[a].by = "start"
     THEN /\ state' = "disconnected" /\ controller' = None
          /\ UNCHANGED <<sessionId, retries>>
     ELSE /\ IF calls[a].under # None /\ state = "reconnecting"
             THEN ScheduleReconnect(state)
             ELSE UNCHANGED <<state, sessionId, retries>>
          /\ UNCHANGED controller

-----------------------------------------------------------------------------
Start ==
  /\ state = "disconnected" /\ starts < MaxStarts
  /\ state' = "connecting"
  /\ starts' = starts + 1
  /\ controller' = starts'
  /\ BeginCall("start", starts')
  /\ UNCHANGED <<sessionId, pendingAck, retries, wire>>

(* The token and the keys are there: connect looks at the signal, disposes   *)
(* of the previous socket and opens its own.  Or a provider throws.          *)
TokenReady(a) ==
  /\ calls[a].stage = "token"
  /\ \/ Fail(a) /\ UNCHANGED wire
     \/ /\ calls[a].under # None
        /\ calls' = [calls EXCEPT ![a].stage = "opening"]
        /\ sockets' = [Disposed EXCEPT ![a] = "opening"]
        /\ ws' = a
        /\ UNCHANGED <<client, retries, wiredSockets, registering>>
  /\ UNCHANGED <<starts, pendingAck>>

(* The register frame goes out on whatever socket is current, and the call   *)
(* waits for an acknowledgement.  Nobody listens to an abandoned socket.     *)
Opened(a) ==
  /\ sockets[a] = "opening"
  /\ sockets' = [sockets EXCEPT ![a] = "open"]
  /\ IF calls[a].stage = "opening"
     THEN /\ calls' = [calls EXCEPT ![a].stage = "waiting"]
          /\ pendingAck' = a
          /\ wiredSockets' = wiredSockets \union {a}
          /\ registering' =
               registering \union {s \in {ws} : s # None /\ sockets'[s] = "open"}
     ELSE UNCHANGED <<calls, pendingAck, wiredSockets, registering>>
  /\ UNCHANGED <<client, starts, retries, ws>>

(* An error or a close before the socket was open.                           *)
Refused(a) ==
  /\ sockets[a] = "opening" \/ (sockets[a] = "closing" /\ a \notin wiredSockets)
  /\ sockets' = [sockets EXCEPT ![a] = "closed"]
  /\ IF calls[a].stage = "opening" THEN Fail(a) ELSE UNCHANGED <<client, calls, retries>>
  /\ UNCHANGED <<starts, pendingAck, ws, wiredSockets, registering>>

(* The timeout disposes of the current socket, which may be another call's.  *)
ConnectTimeout(a) ==
  /\ calls[a].stage = "opening"
  /\ sockets' = Disposed
  /\ ws' = None
  /\ Fail(a)
  /\ UNCHANGED <<starts, pendingAck, wiredSockets, registering>>

(* node.register.ack: it resolves the call that waits last.                  *)
RegisterAckKeepsTimer(s) ==   \* mutant: the strategy is not reset
  /\ s \in registering /\ s \in wiredSockets
  /\ registering' = registering \ {s}
  /\ IF pendingAck # None
     THEN /\ calls' = [calls EXCEPT ![pendingAck] = Over]
          /\ pendingAck' = None
          /\ state' = "connected" /\ sessionId' = s
          /\ UNCHANGED retries
     ELSE UNCHANGED <<calls, pendingAck, state, sessionId, retries>>
  /\ UNCHANGED <<controller, starts, ws, sockets, wiredSockets>>

RegisterAckKeepsWaiter(s) ==  \* mutant: the resolver is not taken back
  /\ s \in registering /\ s \in wiredSockets
  /\ registering' = registering \ {s}
  /\ IF pendingAck # None
     THEN /\ calls' = [calls EXCEPT ![pendingAck] = Over]
          /\ state' = "connected" /\ sessionId' = s
          /\ timer' = None /\ tries' = 0
     ELSE UNCHANGED <<calls, state, sessionId, retries>>
  /\ UNCHANGED <<controller, starts, pendingAck, ws, sockets, wiredSockets>>

RegisterAck(s) ==
  /\ s \in registering /\ s \in wiredSockets
  /\ registering' = registering \ {s}
  /\ IF pendingAck # None
     THEN /\ calls' = [calls EXCEPT ![pendingAck] = Over]
          /\ pendingAck' = None
          /\ state' = "connected" /\ sessionId' = s
          /\ timer' = None /\ tries' = 0
     ELSE UNCHANGED <<calls, pendingAck, state, sessionId, retries>>
  /\ UNCHANGED <<controller, starts, ws, sockets, wiredSockets>>

(* The gateway answers the register frame with an error, or not at all.      *)
RegisterRefused(s) ==
  /\ s \in registering
  /\ registering' = registering \ {s}
  /\ UNCHANGED <<client, starts, calls, pendingAck, retries, ws, sockets, wiredSockets>>

(* The timeout of one call clears the resolver of any.                       *)
AckTimeoutOfLast(a) ==   \* mutant: only the call that waits last times out
  /\ calls[a].stage = "waiting" /\ pendingAck = a
  /\ pendingAck' = None
  /\ Fail(a)
  /\ UNCHANGED <<starts, wire>>

AckTimeout(a) ==
  /\ calls[a].stage = "waiting"
  /\ pendingAck' = None
  /\ Fail(a)
  /\ UNCHANGED <<starts, wire>>

(* handleClose, for the current socket or an earlier one.  The check for an   *)
(* aborted signal never finds one: stop() has dropped its controller.         *)
HandleCloseKeepsState(authFailure) ==   \* mutant: the session goes, the state stays
  IF authFailure
  THEN sessionId' = None /\ UNCHANGED <<state, retries>>
  ELSE ScheduleReconnect("reconnecting")

HandleClose(authFailure) ==
  IF authFailure
  THEN /\ state' = "disconnected" /\ sessionId' = None
       /\ UNCHANGED retries
  ELSE ScheduleReconnect("reconnecting")

SocketCloses(s) ==
  /\ sockets[s] = "open" \/ (sockets[s] = "closing" /\ s \in wiredSockets)
  /\ sockets' = [sockets EXCEPT ![s] = "closed"]
  /\ registering' = registering \ {s}
  /\ IF s \in wiredSockets
     THEN \E authFailure \in IF sockets[s] = "open" THEN BOOLEAN ELSE {FALSE} :
            HandleClose(authFailure)
     ELSE UNCHANGED <<state, sessionId, retries>>
  /\ UNCHANGED <<controller, starts, calls, pendingAck, ws, wiredSockets>>

ReconnectTimer ==
  /\ timer # None
  /\ timer' = None
  /\ IF controller = None
     THEN UNCHANGED <<calls, sockets, ws>>
     ELSE /\ BeginCall("reconnect", controller)
          /\ sockets' = Disposed /\ ws' = None
  /\ UNCHANGED <<client, starts, pendingAck, tries, wiredSockets, registering>>

(* stop(): the calls under the current signal end, or will when they look at  *)
(* it; a socket still opening is forgotten by its own call before wsClient    *)
(* could close it.                                                            *)
StopNode ==
  LET mine == {a \in Calls : controller # None /\ calls[a].under = controller}
      opening == \E a \in mine : calls[a].stage = "opening"
      waiting == \E a \in mine : calls[a].stage = "waiting"
  IN /\ state # "disconnected"
     /\ calls' = [a \in Calls |->
          IF a \notin mine THEN calls[a]
          ELSE IF calls[a].stage = "token" THEN [calls[a] EXCEPT !.under = None] ELSE Over]
     /\ pendingAck' = IF waiting THEN None ELSE pendingAck
     /\ timer' = IF timer = controller THEN None ELSE timer
     /\ sockets' = IF ws # None /\ sockets[ws] = "opening" /\ ~opening
                   THEN [sockets EXCEPT ![ws] = "closing"] ELSE Disposed
     /\ ws' = None
     /\ state' = "disconnected" /\ sessionId' = None /\ controller' = None
     /\ UNCHANGED <<starts, tries, wiredSockets, registering>>

ClientNext ==
  \/ Start \/ StopNode \/ ReconnectTimer
  \/ \E a \in Calls : \/ TokenReady(a) \/ Opened(a) \/ Refused(a) \/ ConnectTimeout(a)
                      \/ RegisterAck(a) \/ RegisterRefused(a) \/ AckTimeout(a)
                      \/ SocketCloses(a)

ClientSpec == ClientInit /\ [][ClientNext]_nodeVars

(* Providers and timers answer in the end; nothing is assumed of the gateway. *)
Answers(a) == TokenReady(a) \/ ConnectTimeout(a) \/ AckTimeout(a)

-----------------------------------------------------------------------------
ClientTypeOK ==
  /\ state \in {"disconnected", "connecting", "connected", "reconnecting"}
  /\ sessionId \in Calls \union {None} /\ ws \in Calls \union {None}
  /\ pendingAck \in Calls \union {None}
  /\ {controller, timer, starts} \subseteq 0..MaxStarts
  /\ tries \in 0..MaxRetries
  /\ calls \in [Calls -> [by : {"start", "reconnect"}, under : 0..MaxStarts,
                          stage : {"token", "opening", "waiting"}] \union {Unused, Over}]
  /\ sockets \in [Calls -> {"none", "opening", "open", "closing", "closed"}]
  /\ wiredSockets \in SUBSET Calls /\ registering \in SUBSET Calls

(* A node that says it is connected has a session, whichever of the          *)
(* overlapping calls got it and however the earlier ones ended, and has no   *)
(* reconnection scheduled: an old socket's close or a late failure leaves no *)
(* timer behind that would tear the session down.                            *)
ConnectedIsSettled == state = "connected" => sessionId # None /\ timer = None

(* An acknowledgement resolves a call that still waits for one.              *)
AckWaiterIsWaiting == pendingAck # None => calls[pendingAck].stage = "waiting"

(* Overlapping attempts leave no settled client unsettled, and no waiter      *)
(* behind.                                                                   *)
ClientIsSound == ConnectedIsSettled /\ AckWaiterIsWaiting

(* Every start() comes back, whatever the gateway does and whatever calls    *)
(* overlap with it: a moment comes at which none is under way.               *)
Starting     == \E a \in Calls : calls[a].by = "start"
StartSettles == Starting ~> ~Starting

(* A node that was stopped, or has failed, stays disconnected until start()   *)
(* is called: it does not begin to reconnect.                                 *)
StopIsFinal ==
  [][controller = None /\ state = "disconnected" => state' # "reconnecting"]_nodeVars
=============================================================================
