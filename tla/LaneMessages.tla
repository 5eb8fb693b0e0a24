----------------------------- MODULE LaneMessages -----------------------------
(***************************************************************************)
(* Lane messages on their way through the gateway: the message buffers of  *)
(* the registered nodes (packages/gateway/src/queue/message-buffer.ts) and *)
(* the tracker of unacknowledged messages                                  *)
(* (packages/gateway/src/delivery-tracker.ts), as handleLaneMessage,       *)
(* handleLaneMessageAck, drainNode, cleanupNode and the checkpoint drive   *)
(* them.  The tracker files a message under the node that sent it.         *)
(***************************************************************************)
EXTENDS BoundedFifo, Lists, FiniteSets

CONSTANTS
  LaneNodes, Senders,   \* the nodes, and those that send messages
  NoBuffer,         \* what a node without a MessageBuffer has
  Messages, Lanes,  \* message ids, and the lane each is sent on
  MaxSeq            \* node -> bound on the messages its buffer takes in

LANE_PRIORITY == [steer |-> 0, collect |-> 1, followup |-> 2]
QUEUED_LANES == DOMAIN LANE_PRIORITY
Interrupt == "interrupt"
Lane(m) == Lanes[m]

Entries(n) == [seq : 0..(MaxSeq[n] - 1), lane : QUEUED_LANES, message : Messages]
Buffers(n) == [queue : Rings(Entries(n)), seq : 0..MaxSeq[n],
               laneCounts : [QUEUED_LANES -> 0..Capacity]]

ASSUME LaneAssumption ==
  /\ Capacity \in Nat \ {0} /\ MaxSeq \in [LaneNodes -> Nat]
  /\ Lanes \in [Messages -> QUEUED_LANES \union {Interrupt}]
  /\ \A n \in LaneNodes : EmptySlot \notin Entries(n) /\ NoBuffer \notin Buffers(n)

VARIABLES
  buffers,          \* node -> its MessageBuffer, or NoBuffer
  drained,          \* what drainNode returned last, to any node
  pending           \* node -> the ids of its pending messages, in map order

laneVars == <<buffers, drained, pending>>

NewBuffer == [queue |-> NewQueue, seq |-> 0, laneCounts |-> [l \in QUEUED_LANES |-> 0]]
HasBuffer(n) == buffers[n] # NoBuffer

LaneInit ==
  /\ buffers = [n \in LaneNodes |-> NoBuffer]
  /\ drained = <<>>
  /\ pending = [n \in LaneNodes |-> <<>>]

-----------------------------------------------------------------------------
(* MessageBuffer.dispatch and drain.                                        *)
DispatchOvercounted(b, m) ==   \* mutant: a dropped message is not counted off
  IF Lane(m) = Interrupt THEN b
  ELSE [queue |-> Enqueue(b.queue, [seq |-> b.seq, lane |-> Lane(m), message |-> m]),
        seq |-> b.seq + 1,
        laneCounts |-> [b.laneCounts EXCEPT ![Lane(m)] = @ + 1]]

Dispatch(b, m) ==
  LET entry == [seq |-> b.seq, lane |-> Lane(m), message |-> m]
      dropped == Dropped(b.queue)
      Off(l) == IF dropped # EmptySlot /\ dropped.lane = l THEN 1 ELSE 0
      On(l) == IF Lane(m) = l THEN 1 ELSE 0
  IN IF Lane(m) = Interrupt     \* only an event, to which nobody listens
     THEN b
     ELSE [queue |-> Enqueue(b.queue, entry),
           seq |-> b.seq + 1,
           laneCounts |-> [l \in QUEUED_LANES |-> b.laneCounts[l] - Off(l) + On(l)]]

DrainsNewestFirst(e, f) ==          \* mutant: a sort that is not stable
  \/ LANE_PRIORITY[e.lane] < LANE_PRIORITY[f.lane]
  \/ LANE_PRIORITY[e.lane] = LANE_PRIORITY[f.lane] /\ e.seq > f.seq

DrainsBefore(e, f) ==
  \/ LANE_PRIORITY[e.lane] < LANE_PRIORITY[f.lane]
  \/ LANE_PRIORITY[e.lane] = LANE_PRIORITY[f.lane] /\ e.seq < f.seq

(* Array.sort: no two entries are of one rank, for each has a seq of its own. *)
Sorts(p, items) ==
  \A i, j \in DOMAIN items : i < j => DrainsBefore(items[p[i]], items[p[j]])

DrainOrder(b) ==
  LET items == Items(b.queue)
      order == CHOOSE p \in [DOMAIN items -> DOMAIN items] : Sorts(p, items)
  IN [i \in DOMAIN items |-> items[order[i]].message]

-----------------------------------------------------------------------------
(* DeliveryTracker.track: at its limit the map loses its first id before    *)
(* the message is set, be it in the map already or not; an id that stays    *)
(* in the map keeps its place.                                              *)
TrackNewest(p, m) ==           \* mutant: the newest id makes room
  LET room == IF Len(p) >= Capacity THEN SubSeq(p, 1, Len(p) - 1) ELSE p
  IN IF \E i \in DOMAIN room : room[i] = m THEN room ELSE Append(room, m)

Track(p, m) ==
  LET room == IF Len(p) >= Capacity THEN Tail(p) ELSE p
  IN IF \E i \in DOMAIN room : room[i] = m THEN room ELSE Append(room, m)

Without(p, m) == Filtered(p, {m})

-----------------------------------------------------------------------------
(* completeNodeRegister gives the node a new buffer.                        *)
Register(n) ==
  /\ ~HasBuffer(n)
  /\ buffers' = [buffers EXCEPT ![n] = NewBuffer]
  /\ UNCHANGED <<drained, pending>>

(* handleLaneMessage from node n, routed to node t.  A message for a node    *)
(* without a buffer is refused and not tracked.                             *)
HandleLaneMessage(n, t, m) ==
  /\ n \in Senders /\ HasBuffer(n) /\ HasBuffer(t)
  /\ buffers[t].seq < MaxSeq[t]
  /\ buffers' = [buffers EXCEPT ![t] = Dispatch(@, m)]
  /\ pending' = [pending EXCEPT ![n] = Track(@, m)]
  /\ UNCHANGED drained

HandleLaneMessageAck(n, m) ==
  /\ HasBuffer(n)
  /\ pending' = [pending EXCEPT ![n] = Without(@, m)]
  /\ UNCHANGED <<buffers, drained>>

DrainNode(n) ==
  /\ HasBuffer(n)
  /\ drained' = DrainOrder(buffers[n])
  /\ buffers' = [buffers EXCEPT ![n].queue = NewQueue,
                                ![n].laneCounts = NewBuffer.laneCounts]
  /\ UNCHANGED pending

CleanupNode(n) ==
  /\ buffers' = [buffers EXCEPT ![n] = NoBuffer]
  /\ pending' = [pending EXCEPT ![n] = <<>>]
  /\ UNCHANGED drained

(* The gateway stops and starts again from the checkpoint it saved, which     *)
(* has the pending messages and not the buffers.                             *)
RestartFromCheckpoint ==
  /\ buffers' = [n \in LaneNodes |-> NoBuffer]
  /\ UNCHANGED <<drained, pending>>

LaneNext ==
  \/ \E n \in LaneNodes :
       \/ Register(n) \/ DrainNode(n) \/ CleanupNode(n)
       \/ \E m \in Messages :
            \/ HandleLaneMessageAck(n, m)
            \/ \E t \in LaneNodes : HandleLaneMessage(n, t, m)
  \/ RestartFromCheckpoint

LaneSpec == LaneInit /\ [][LaneNext]_laneVars

-----------------------------------------------------------------------------
LaneTypeOK ==
  /\ DOMAIN buffers = LaneNodes
  /\ \A n \in LaneNodes : HasBuffer(n) => buffers[n] \in Buffers(n) /\ RingIsSound(buffers[n].queue)
  /\ drained \in Seq(Messages)
  /\ pending \in [LaneNodes -> Seq(Messages)] /\ \A n \in LaneNodes : Len(pending[n]) <= Capacity

(* A message stops being tracked only when its sender acknowledges it, when  *)
(* the sender leaves or the process restarts, or when it is the one tracked *)
(* longest and the tracker is full.                                         *)
PendingLeavesInTurn ==
  [][\A n \in LaneNodes : \A i \in DOMAIN pending[n] :
       (~ \E j \in DOMAIN pending'[n] : pending'[n][j] = pending[n][i])
       => \/ buffers' = buffers /\ pending'[n] = Without(pending[n], pending[n][i])
          \/ buffers'[n] = NoBuffer
          \/ i = 1 /\ Len(pending[n]) = Capacity]_laneVars

(* The buffers implement the queues their users rely on: ring, counters and  *)
(* the sort when they are drained together hand over the last Capacity      *)
(* messages, by lane and in order, and lose no other.                       *)
Waiting(b) == [i \in 1..b.queue.count |-> Items(b.queue)[i].message]
Queues == INSTANCE LaneQueue WITH
            Nodes <- LaneNodes, LaneOf <- Lane, delivered <- drained,
            waiting <- [n \in LaneNodes |-> IF HasBuffer(n) THEN Waiting(buffers[n]) ELSE <<>>]
BuffersAreLaneQueues == Queues!Spec
=============================================================================
