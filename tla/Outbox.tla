--------------------------------- MODULE Outbox ---------------------------------
(***************************************************************************)
(* What a write-behind buffer promises: an item is taken in once, waits,   *)
(* and leaves the buffer delivered, or pushed out by others when more wait *)
(* than the limit.  Closing forgets everything.                            *)
(***************************************************************************)
EXTENDS Naturals, FiniteSets

CONSTANTS Items, Limit

VARIABLES waiting, delivered, pushedOut

outboxVars == <<waiting, delivered, pushedOut>>

Init == waiting = {} /\ delivered = {} /\ pushedOut = {}

(* New items, and what has to go to keep the limit.                         *)
Accept ==
  \E new \in SUBSET (Items \ (waiting \union delivered \union pushedOut)) :
    \E out \in SUBSET (waiting \union new) :
      /\ waiting' = (waiting \union new) \ out
      /\ out # {} => Cardinality(waiting') = Limit
      /\ Cardinality(waiting') <= Limit
      /\ pushedOut' = pushedOut \union out
      /\ UNCHANGED delivered

Deliver ==
  /\ delivered' = delivered \union waiting
  /\ waiting' = {}
  /\ UNCHANGED pushedOut

Close == waiting' = {} /\ delivered' = {} /\ pushedOut' = {}

Next == Accept \/ Deliver \/ Close

Spec == Init /\ [][Next]_outboxVars
================================================================================
