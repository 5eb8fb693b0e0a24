------------------------------ MODULE HookRegistry ------------------------------
(***************************************************************************)
(* The handlers of one event (HookRegistry,                                *)
(* packages/hooks/src/registry.ts).  An emit goes through the list there   *)
(* was when it started, awaiting each handler, and removes the one-shot    *)
(* handlers it ran when it ends; everything that removes does so by the    *)
(* handler, not by the registration.  That an emit ends early (a handler   *)
(* blocks, throws or is late) looks here like a match that fails for all   *)
(* the rest.  What handlers do to the data and the depth of emits made by  *)
(* handlers are left out.                                                  *)
(***************************************************************************)
EXTENDS Integers, Lists

CONSTANTS
  Handlers, Priorities,
  Emits,            \* the emits that may be under way at once
  MaxRegistrations, MaxEmits     \* bounds of this model

ASSUME HooksAssumption == Priorities \subseteq Int /\ MaxRegistrations \in Nat /\ MaxEmits \in Nat

NoEmit == [entries |-> <<>>, at |-> 0, fired |-> <<>>]

VARIABLES
  handlers,         \* the registered entries, in the order they run
  emits,            \* emit -> its entries, the one that runs, the one-shot ones it ran
  registrations,    \* how many there have been; entries are numbered by them
  emitStarts,          \* how many emits there have been
  runs,             \* history: entry -> how often it ran
  disposed,         \* entries whose disposer was called
  released,         \* history: entries whose removal was asked for
  handlerOf,        \* history: entry -> its handler
  unsettled         \* history: entries two emits had at once, or whose result was bad

hookVars ==
  <<handlers, emits, registrations, emitStarts, disposed, runs, released, handlerOf,
    unsettled>>

HooksInit ==
  /\ handlers = <<>> /\ emits = [e \in Emits |-> NoEmit]
  /\ registrations = 0 /\ emitStarts = 0 /\ disposed = {}
  /\ runs = <<>> /\ handlerOf = <<>>
  /\ released = {} /\ unsettled = {}

Ids(entries) == {entries[i].id : i \in DOMAIN entries}

-----------------------------------------------------------------------------
(* findInsertIndex: after the entries of the same priority.                 *)
InsertIndexFirst(priority) ==  \* mutant: before the entries of the same priority
  CHOOSE i \in 1..Len(handlers) + 1 :
    /\ \A j \in 1..i - 1 : handlers[j].priority < priority
    /\ \A j \in i..Len(handlers) : handlers[j].priority >= priority

InsertIndex(priority) ==
  CHOOSE i \in 1..Len(handlers) + 1 :
    /\ \A j \in 1..i - 1 : handlers[j].priority <= priority
    /\ \A j \in i..Len(handlers) : handlers[j].priority > priority

(* on() and once().                                                         *)
RegisterHandler(h, priority, once) ==
  /\ registrations < MaxRegistrations
  /\ registrations' = registrations + 1
  /\ handlers' = InsertAt(handlers, InsertIndex(priority),
       [id |-> registrations', handler |-> h, priority |-> priority, once |-> once])
  /\ runs' = Append(runs, 0) /\ handlerOf' = Append(handlerOf, h)
  /\ UNCHANGED <<emits, emitStarts, disposed, released, unsettled>>

(* removeHandler: the first entry of the handler.                           *)
Removed(entries, h) ==
  LET its == {i \in DOMAIN entries : entries[i].handler = h}
  IN IF its = {} THEN entries
     ELSE RemoveAt(entries, CHOOSE i \in its : \A j \in its : i <= j)

(* cleanupOnceEntries, with the one-shot entries that ran.                  *)
Cleaned(entries, fired) ==
  LET left[n \in 0..Len(fired)] ==
        IF n = 0 THEN entries ELSE Removed(left[n - 1], fired[n].handler)
  IN left[Len(fired)]

(* The disposer of an entry: it works once, but it works after off(),       *)
(* clear() or the one run too, on whatever entry the handler has by then.   *)
Dispose(id) ==
  /\ id \notin disposed
  /\ disposed' = disposed \union {id}
  /\ handlers' = Removed(handlers, handlerOf[id])
  /\ released' = released \union {id}
  /\ UNCHANGED <<emits, registrations, emitStarts, runs, handlerOf, unsettled>>

Off(h) ==
  /\ handlers' = Removed(handlers, h)
  /\ released' = released \union {id \in 1..registrations : handlerOf[id] = h}
  /\ UNCHANGED <<emits, registrations, emitStarts, disposed, runs, handlerOf, unsettled>>

Clear ==
  /\ handlers' = <<>>
  /\ released' = released \union Ids(handlers)
  /\ UNCHANGED <<emits, registrations, emitStarts, disposed, runs, handlerOf, unsettled>>

-----------------------------------------------------------------------------
(* The entry at index i starts to run.                                      *)
Runs(entry) == runs' = [runs EXCEPT ![entry.id] = @ + 1]

Emit(e) ==
  /\ emits[e] = NoEmit /\ emitStarts < MaxEmits
  /\ emitStarts' = emitStarts + 1
  /\ \E i \in DOMAIN handlers :
       /\ emits' = [emits EXCEPT ![e] = [entries |-> handlers, at |-> i, fired |-> <<>>]]
       /\ Runs(handlers[i])
  /\ unsettled' = unsettled \union
       (Ids(handlers) \intersect UNION {Ids(emits[f].entries) : f \in Emits})
  /\ UNCHANGED <<handlers, registrations, disposed, released, handlerOf>>

(* The entries the emit ran so far, once the one that runs is done.         *)
FiredUnlessLast(e) ==      \* mutant: an emit that ends early forgets the last one
  LET entry == emits[e].entries[emits[e].at] IN
  IF entry.once /\ emits[e].at < Len(emits[e].entries) THEN Append(emits[e].fired, entry)
  ELSE emits[e].fired

Fired(e) ==
  LET entry == emits[e].entries[emits[e].at] IN
  IF entry.once THEN Append(emits[e].fired, entry) ELSE emits[e].fired

(* The next entry that matches, if any; else cleanupOnceEntries.            *)
NextRuns(e) ==
  /\ emits[e] # NoEmit
  /\ \E i \in emits[e].at + 1 .. Len(emits[e].entries) :
       /\ emits' = [emits EXCEPT ![e].at = i, ![e].fired = Fired(e)]
       /\ Runs(emits[e].entries[i])
  /\ UNCHANGED <<handlers, registrations, emitStarts, disposed, released, handlerOf,
                 unsettled>>

EmitOver(e, fired) ==
  /\ emits[e] # NoEmit
  /\ emits' = [emits EXCEPT ![e] = NoEmit]
  /\ handlers' = Cleaned(handlers, fired)
  /\ released' = released \union Ids(fired)
  /\ UNCHANGED <<registrations, emitStarts, disposed, runs, handlerOf>>
EmitEnds(e) == EmitOver(e, Fired(e)) /\ UNCHANGED unsettled

(* A result that is not one of an interceptor ends the emit before the      *)
(* handler counts as fired: one-shot or not, it stays.                      *)
Rejected(e) ==
  /\ EmitOver(e, emits[e].fired)
  /\ unsettled' = unsettled \union {emits[e].entries[emits[e].at].id}

HooksNext ==
  \/ \E h \in Handlers, priority \in Priorities, once \in BOOLEAN :
       RegisterHandler(h, priority, once)
  \/ \E id \in 1..registrations : Dispose(id)
  \/ \E h \in Handlers : Off(h)
  \/ Clear
  \/ \E e \in Emits : Emit(e) \/ NextRuns(e) \/ EmitEnds(e) \/ Rejected(e)

HooksSpec == HooksInit /\ [][HooksNext]_hookVars

-----------------------------------------------------------------------------
HooksTypeOK ==
  /\ Ids(handlers) \subseteq 1..registrations
  /\ \A e \in Emits : emits[e] # NoEmit => emits[e].at \in DOMAIN emits[e].entries
  /\ UNION {disposed, released, unsettled} \subseteq 1..registrations

(* Handlers run in the order of their priorities and registrations.  A      *)
(* handler that is registered once stays exactly until it is removed or,    *)
(* one-shot, has run; and then it has run once, unless two emits had it or  *)
(* its result was rejected.                                                 *)
Alone(id) == \A other \in 1..registrations : handlerOf[other] = handlerOf[id] => other = id
HandlersStay ==
  /\ \A i, j \in DOMAIN handlers :
       i < j => \/ handlers[i].priority < handlers[j].priority
                \/ /\ handlers[i].priority = handlers[j].priority
                   /\ handlers[i].id < handlers[j].id
  /\ \A id \in 1..registrations :
       Alone(id) => (id \in Ids(handlers) <=> id \notin released)
  /\ \A i \in DOMAIN handlers :
       LET entry == handlers[i] IN
       entry.once /\ Alone(entry.id) /\ entry.id \notin unsettled =>
         /\ runs[entry.id] <= 1
         /\ runs[entry.id] = 1 => \E e \in Emits : entry.id \in Ids(emits[e].entries)
=============================================================================
