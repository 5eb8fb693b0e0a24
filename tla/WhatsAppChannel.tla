---------------------------- MODULE WhatsAppChannel ----------------------------
(***************************************************************************)
(* The WhatsApp channel (packages/channel-whatsapp/src/adapter.ts) with    *)
(* its base class (packages/channel-base/src/base-adapter.ts).             *)
(*                                                                         *)
(* A connection attempt is a connect() that gets as far as doConnect, by   *)
(* the user or by a reconnection; the socket it makes has its number.  A   *)
(* socket opens and closes by itself, and keeps its listeners when another *)
(* has taken its place.                                                    *)
(***************************************************************************)
EXTENDS Naturals, FiniteSets

CONSTANTS
  MaxAttempts,            \* bound on the attempts
  MaxReconnectAttempts,
  BurstLimit,
  MaxQueue                \* bound on the sends that wait

ASSUME ChannelAssumption ==
  {MaxAttempts, MaxReconnectAttempts, BurstLimit, MaxQueue} \subseteq Nat

VARIABLES
  connected,
  attempts,               \* how far each attempt is
  socket,                 \* the attempt whose socket is this.socket, or NoSocket
  sockets,                \* the state of each attempt's socket (external)
  reconnecting, reconnectAttempt,
  sleepers,               \* disconnect handlers in their delay; "told" if disconnect()
                          \* was called during it
  flushing,               \* disconnect() awaits the flush of the credentials
  queued,                 \* length of sendQueue
  worker,                 \* where processQueue is
  tokenBucket

connection  == <<connected, attempts, socket, sockets, reconnecting, reconnectAttempt,
                 sleepers, flushing>>
sending     == <<queued, worker, tokenBucket>>
channelVars == <<connection, sending>>

NoSocket == 0
Attempts == 1..MaxAttempts
Sleepers == {"untold", "told"}
Fatal    == {"loggedOut", "connectionReplaced", "badSession"}

(* Between two awaits the loop over the queue runs alone.                   *)
Idle == worker # "looping"

ChannelInit ==
  /\ connected = FALSE /\ socket = NoSocket
  /\ attempts = [a \in Attempts |-> "unused"]
  /\ sockets = [a \in Attempts |-> "none"]
  /\ reconnecting = FALSE /\ reconnectAttempt = 0
  /\ sleepers = [kind \in Sleepers |-> 0] /\ flushing = FALSE
  /\ queued = 0 /\ worker = "idle" /\ tokenBucket = BurstLimit

-----------------------------------------------------------------------------
(* doConnect up to its first await.                                         *)
BeginConnect ==
  \E a \in Attempts :
    /\ attempts[a] = "unused" /\ \A b \in 1..(a - 1) : attempts[b] # "unused"
    /\ attempts' = [attempts EXCEPT ![a] = "loading"]

(* connect() of the user.  While a reconnection is due doConnect returns at *)
(* once, and connect() takes that for a connection.                         *)
Connect ==
  /\ Idle /\ ~connected
  /\ \/ reconnecting /\ connected' = TRUE /\ UNCHANGED attempts
     \/ ~reconnecting /\ BeginConnect /\ UNCHANGED connected
  /\ UNCHANGED <<socket, sockets, reconnecting, reconnectAttempt, sleepers, flushing, sending>>

(* Library, credentials and version are there: the socket is made and wired *)
(* up.  Or one of them fails.                                               *)
Loaded(a) ==
  /\ Idle /\ attempts[a] = "loading"
  /\ \/ /\ attempts' = [attempts EXCEPT ![a] = "waiting"]
        /\ sockets' = [sockets EXCEPT ![a] = "opening"]
        /\ socket' = a
     \/ /\ attempts' = [attempts EXCEPT ![a] = "over"]
        /\ UNCHANGED <<socket, sockets>>
  /\ UNCHANGED <<connected, reconnecting, reconnectAttempt, sleepers, flushing, sending>>

(* waitForConnection gives up; the socket is left as it is.                 *)
ConnectTimesOut(a) ==
  /\ Idle /\ attempts[a] = "waiting"
  /\ attempts' = [attempts EXCEPT ![a] = "over"]
  /\ UNCHANGED <<connected, socket, sockets, reconnecting, reconnectAttempt, sleepers, flushing,
                 sending>>

(* connection.update "open", from the present socket or an earlier one.     *)
Opened(a) ==
  /\ Idle /\ sockets[a] = "opening"
  /\ sockets' = [sockets EXCEPT ![a] = "open"]
  /\ attempts' = [attempts EXCEPT ![a] = "over"]
  /\ connected' = TRUE
  /\ reconnectAttempt' = 0 /\ reconnecting' = FALSE
  /\ UNCHANGED <<socket, sleepers, flushing, sending>>

(* handleDisconnect up to its delay, from attempt number n on and with those*)
(* handlers asleep.                                                         *)
HandleDisconnect(n, reason, asleep) ==
  \/ /\ reason \notin Fatal /\ n < MaxReconnectAttempts
     /\ reconnecting' = TRUE /\ reconnectAttempt' = n + 1
     /\ sleepers' = [asleep EXCEPT !["untold"] = @ + 1]
  \/ /\ reason \in Fatal \/ n >= MaxReconnectAttempts
     /\ reconnectAttempt' = n /\ sleepers' = asleep
     /\ UNCHANGED reconnecting

(* connection.update "close".                                               *)
Closed(a, reason) ==
  /\ Idle /\ sockets[a] \in {"opening", "open"}
  /\ sockets' = [sockets EXCEPT ![a] = "closed"]
  /\ connected' = FALSE
  /\ HandleDisconnect(reconnectAttempt, reason, sleepers)
  /\ UNCHANGED <<attempts, socket, flushing, sending>>

WakeStillReconnecting(kind) ==   \* mutant: the flag is left to the event "open"
  /\ Idle /\ sleepers[kind] > 0
  /\ sleepers' = [sleepers EXCEPT ![kind] = @ - 1]
  /\ \/ ~reconnecting /\ UNCHANGED <<attempts, socket>>
     \/ /\ reconnecting
        /\ socket' = NoSocket
        /\ IF connected THEN UNCHANGED attempts ELSE BeginConnect
  /\ UNCHANGED <<connected, sockets, reconnecting, reconnectAttempt, flushing, sending>>

(* The delay is over: the handler connects if it is to reconnect still.     *)
Wake(kind) ==
  /\ Idle /\ sleepers[kind] > 0
  /\ sleepers' = [sleepers EXCEPT ![kind] = @ - 1]
  /\ \/ ~reconnecting /\ UNCHANGED <<attempts, socket, reconnecting>>
     \/ /\ reconnecting
        /\ reconnecting' = FALSE /\ socket' = NoSocket
        /\ IF connected THEN UNCHANGED attempts ELSE BeginConnect
  /\ UNCHANGED <<connected, sockets, reconnectAttempt, flushing, sending>>

(* disconnect(): nothing if there is no connection; without a socket it     *)
(* only says so; else it ends the socket, whose library may announce that   *)
(* as a close like any other.                                               *)
Disconnect ==
  LET allTold == [kind \in Sleepers |->
                    IF kind = "told" THEN sleepers["told"] + sleepers["untold"] ELSE 0] IN
  /\ Idle
  /\ \/ /\ ~connected \/ socket = NoSocket
        /\ connected' = FALSE /\ sleepers' = allTold
        /\ UNCHANGED <<socket, sockets, reconnecting, reconnectAttempt, flushing>>
     \/ /\ connected /\ socket # NoSocket /\ ~flushing
        /\ sockets' = [sockets EXCEPT ![socket] = "closed"]
        /\ socket' = NoSocket /\ flushing' = TRUE
        /\ \/ /\ sockets[socket] # "closed"
              /\ HandleDisconnect(0, "other", allTold) /\ connected' = FALSE
           \/ /\ reconnecting' = FALSE /\ reconnectAttempt' = 0 /\ sleepers' = allTold
              /\ UNCHANGED connected
  /\ UNCHANGED <<attempts, sending>>

Flushed ==
  /\ Idle /\ flushing
  /\ flushing' = FALSE /\ connected' = FALSE
  /\ UNCHANGED <<attempts, socket, sockets, reconnecting, reconnectAttempt, sleepers, sending>>

-----------------------------------------------------------------------------
(* send(): it joins the queue and sets the loop going if it is not.         *)
Send ==
  /\ Idle /\ connected /\ queued < MaxQueue
  /\ queued' = queued + 1
  /\ worker' = IF worker = "idle" THEN "looping" ELSE worker
  /\ UNCHANGED <<connection, tokenBucket>>

(* The rest of the loop for the item it took: it is rejected, or rendered.  *)
Handle(tokens) ==
  /\ tokenBucket' = tokens - 1
  /\ worker' = IF socket = NoSocket \/ ~connected THEN "looping" ELSE "rendering"

(* One round of the loop: some tokens are refilled; without one it waits.   *)
Loop ==
  /\ worker = "looping"
  /\ \/ queued = 0 /\ worker' = "idle" /\ UNCHANGED <<queued, tokenBucket>>
     \/ /\ queued > 0 /\ queued' = queued - 1
        /\ \E tokens \in tokenBucket..BurstLimit :
             \/ tokens = 0 /\ worker' = "waiting" /\ UNCHANGED tokenBucket
             \/ tokens > 0 /\ Handle(tokens)
  /\ UNCHANGED connection

TokenComes ==
  /\ worker = "waiting"
  /\ Handle(1)
  /\ UNCHANGED <<connection, queued>>

(* The message is rendered, or that fails; the loop goes on.                *)
Rendered ==
  /\ worker = "rendering"
  /\ worker' = "looping"
  /\ UNCHANGED <<connection, queued, tokenBucket>>

ChannelNext ==
  \/ Connect \/ Disconnect \/ Flushed \/ Send \/ Loop \/ TokenComes \/ Rendered
  \/ \E kind \in Sleepers : Wake(kind)
  \/ \E a \in Attempts :
       \/ Loaded(a) \/ ConnectTimesOut(a) \/ Opened(a)
       \/ \E reason \in Fatal \union {"other"} : Closed(a, reason)

ChannelSpec == ChannelInit /\ [][ChannelNext]_channelVars

-----------------------------------------------------------------------------
(* The variables keep their types.                                          *)
ChannelTypeOK ==
  /\ connected \in BOOLEAN /\ reconnecting \in BOOLEAN /\ flushing \in BOOLEAN
  /\ attempts \in [Attempts -> {"unused", "loading", "waiting", "over"}]
  /\ sockets \in [Attempts -> {"none", "opening", "open", "closed"}]
  /\ socket \in Attempts \union {NoSocket}
  /\ reconnectAttempt \in 0..MaxReconnectAttempts
  /\ sleepers \in [Sleepers -> Nat]
  /\ queued \in 0..MaxQueue /\ tokenBucket \in 0..BurstLimit
  /\ worker \in {"idle", "looping", "waiting", "rendering"}

(* While `reconnecting' is set connect() does nothing, and while processing *)
(* is set send() leaves its message to another: whatever the order of opens,*)
(* closes and delays of several sockets, a handler in its delay will clear  *)
(* the one, and a loop under way serves the queue for the other.            *)
FlagsAreHeld ==
  /\ reconnecting => \E kind \in Sleepers : sleepers[kind] > 0
  /\ queued > 0 => worker # "idle"

(* "Guard: if disconnect() was called during the delay, stop."              *)
DisconnectStopsReconnection ==
  [][Wake("told") => attempts' = attempts]_channelVars
================================================================================
