------------------------------ MODULE BoundedFifo ------------------------------
(***************************************************************************)
(* The ring buffer under a message buffer                                  *)
(* (packages/gateway/src/queue/bounded-fifo.ts): an array of Capacity      *)
(* slots with a head, a tail and a count, which drops its oldest item when *)
(* it is full.  A queue is a value here; the operators return the next.    *)
(***************************************************************************)
EXTENDS Integers, Sequences

CONSTANTS Capacity, EmptySlot        \* EmptySlot: the undefined of a free slot

Slots == 0..(Capacity - 1)

Rings(S) == [buffer : [Slots -> S \union {EmptySlot}], head : Slots, tail : Slots,
             count : 0..Capacity]

NewQueue == [buffer |-> [i \in Slots |-> EmptySlot], head |-> 0, tail |-> 0, count |-> 0]

IsFull(q) == q.count >= Capacity

(* What enqueue drops and returns: EmptySlot, the code's undefined, if       *)
(* there is room.                                                           *)
Dropped(q) == IF IsFull(q) THEN q.buffer[q.head] ELSE EmptySlot

DropOldest(q) ==
  IF IsFull(q)
  THEN [q EXCEPT !.buffer[q.head] = EmptySlot,
                 !.head = (@ + 1) % Capacity,
                 !.count = @ - 1]
  ELSE q

EnqueueStuckHead(q, item) ==   \* mutant: the head does not move on a drop
  [q EXCEPT !.buffer[q.tail] = item,
            !.tail = (@ + 1) % Capacity,
            !.count = IF IsFull(q) THEN @ ELSE @ + 1]

Enqueue(q, item) ==
  LET room == DropOldest(q)
  IN [room EXCEPT !.buffer[room.tail] = item,
                  !.tail = (@ + 1) % Capacity,
                  !.count = @ + 1]

(* The items from the oldest on, as drain lists them.                       *)
Items(q) == [i \in 1..q.count |-> q.buffer[(q.head + i - 1) % Capacity]]

(* The items fill the slots from the head on, the tail is the first free    *)
(* slot, and no other slot keeps an item alive.                             *)
RingIsSound(q) ==
  /\ q.tail = (q.head + q.count) % Capacity
  /\ {s \in Slots : q.buffer[s] # EmptySlot} =
       {(q.head + i) % Capacity : i \in 0..(q.count - 1)}
=============================================================================
