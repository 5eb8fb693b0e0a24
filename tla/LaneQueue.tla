------------------------------- MODULE LaneQueue -------------------------------
(***************************************************************************)
(* What a node's message buffer promises                                   *)
(* (packages/gateway/src/queue/message-buffer.ts): the last Capacity       *)
(* messages accepted since the last drain are handed over at once, by      *)
(* lane, and within a lane in the order they came.  Interrupts never wait. *)
(***************************************************************************)
EXTENDS Lists

CONSTANTS Nodes, Capacity, Messages, LaneOf(_)

QueuedLanes == <<"steer", "collect", "followup">>     \* by priority

VARIABLES
  waiting,          \* node -> the messages that wait for it, in the order they came
  delivered         \* the batch handed over last

Init ==
  /\ waiting = [n \in Nodes |-> <<>>]
  /\ delivered = <<>>

InLane(s, lane) == Filtered(s, {m \in Messages : LaneOf(m) # lane})

ByPriority(s) == InLane(s, QueuedLanes[1]) \o InLane(s, QueuedLanes[2])
                                           \o InLane(s, QueuedLanes[3])

LastOf(s) == IF Len(s) > Capacity THEN Tail(s) ELSE s

Accept(n) == \E m \in {w \in Messages : LaneOf(w) # "interrupt"} :
  /\ waiting' = [waiting EXCEPT ![n] = LastOf(Append(@, m))]
  /\ UNCHANGED delivered

Deliver(n) ==
  /\ delivered' = ByPriority(waiting[n])
  /\ waiting' = [waiting EXCEPT ![n] = <<>>]

(* A node leaves, or all of them do when the process ends.                  *)
Discard(gone) ==
  /\ waiting' = [n \in Nodes |-> IF n \in gone THEN <<>> ELSE waiting[n]]
  /\ UNCHANGED delivered

Next == \/ \E n \in Nodes : Accept(n) \/ Deliver(n) \/ Discard({n})
        \/ Discard(Nodes)

Spec == Init /\ [][Next]_<<waiting, delivered>>
=============================================================================
