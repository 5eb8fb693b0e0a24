------------------------------- MODULE AgentCards --------------------------------
(***************************************************************************)
(* Discovery of remote agents (A2AClient.discover,                         *)
(* packages/a2a/src/a2a-client.ts, over agent-card-cache.ts): cards are    *)
(* fetched once and kept for a time, the least recently used one makes     *)
(* room, and an entry can be invalidated so that the next discovery        *)
(* fetches the card again.  Nothing ties a fetch under way to the          *)
(* invalidations and discoveries made while it waits.                      *)
(***************************************************************************)
EXTENDS Lists, FiniteSets, Functions

CONSTANTS
  Agents,           \* normalised URLs
  maxEntries, ttl,
  Callers,          \* calls of discover() that may wait at once
  MaxVersion,       \* agent -> the versions its card may have
  MaxCardTime       \* bound of this model

(* As the schema of the configuration has them.                             *)
ASSUME CardsAssumption ==
  /\ maxEntries \in Nat \ {0} /\ ttl \in Nat /\ MaxCardTime \in Nat
  /\ MaxVersion \in [Agents -> Nat \ {0}] /\ "none" \notin Agents

NoFetch == [agent |-> "none", answer |-> 0, overtaken |-> FALSE]
NoAnswer == 0

VARIABLES
  cardClock,
  version,          \* (external) agent -> the version of its card
  cardEntries,          \* the cache, least recently used first
  fetches,          \* caller -> the card it waits for
  wanted,           \* history: agent -> its version when last invalidated
  used              \* history: agents in the order their entries were last used

cardVars == <<cardClock, version, cardEntries, fetches, wanted, used>>

CardsInit ==
  /\ cardClock = 0
  /\ version = [a \in Agents |-> 1]
  /\ cardEntries = <<>> /\ fetches = [c \in Callers |-> NoFetch]
  /\ wanted = [a \in Agents |-> 1]
  /\ used = <<>>

CachedCards == {cardEntries[i].agent : i \in DOMAIN cardEntries}
Entry(a) == cardEntries[CHOOSE i \in DOMAIN cardEntries : cardEntries[i].agent = a]
WithoutCard(a) == Filtered(cardEntries, {e \in Range(cardEntries) : e.agent = a})
Used(a) == used' = Append(Filtered(used, {a}), a)
Gone(A) == used' = Filtered(used, A)

-----------------------------------------------------------------------------
(* discover().  A hit moves the entry to the end; an entry past its time is *)
(* deleted.                                                                 *)
DiscoverInPlace(a) ==      \* mutant: a hit leaves the entry where it is
  /\ a \in CachedCards /\ cardClock < Entry(a).expiresAt
  /\ Used(a)
  /\ UNCHANGED <<cardClock, version, cardEntries, fetches, wanted>>

DiscoverCached(a) ==
  /\ a \in CachedCards /\ cardClock < Entry(a).expiresAt
  /\ cardEntries' = Append(WithoutCard(a), Entry(a))
  /\ Used(a)
  /\ UNCHANGED <<cardClock, version, fetches, wanted>>

Discover(c, a) ==
  /\ fetches[c] = NoFetch
  /\ a \in CachedCards => cardClock >= Entry(a).expiresAt
  /\ cardEntries' = WithoutCard(a)
  /\ fetches' = [fetches EXCEPT ![c] = [NoFetch EXCEPT !.agent = a]]
  /\ Gone({a})
  /\ UNCHANGED <<cardClock, version, wanted>>

(* The agent answers with the card it has.                                  *)
Answer(c) ==
  /\ fetches[c] # NoFetch /\ fetches[c].answer = NoAnswer
  /\ fetches' = [fetches EXCEPT ![c].answer = version[fetches[c].agent]]
  /\ UNCHANGED <<cardClock, version, cardEntries, wanted, used>>

(* Errors, refusals, timeouts and bodies that are no card.                  *)
FetchFails(c) ==
  /\ fetches[c] # NoFetch
  /\ fetches' = [fetches EXCEPT ![c] = NoFetch]
  /\ UNCHANGED <<cardClock, version, cardEntries, wanted, used>>

Stored(f) ==
  LET others == WithoutCard(f.agent)
      kept == IF Len(others) >= maxEntries THEN Tail(others) ELSE others
  IN Append(kept, [agent |-> f.agent, card |-> f.answer, expiresAt |-> cardClock + ttl,
                   overtaken |-> f.overtaken])

Fetched(c) ==
  /\ fetches[c].answer # NoAnswer
  /\ fetches' = [fetches EXCEPT ![c] = NoFetch]
  /\ cardEntries' = Stored(fetches[c])
  /\ Used(fetches[c].agent)
  /\ UNCHANGED <<cardClock, version, wanted>>

-----------------------------------------------------------------------------
Invalidated(A) ==
  /\ wanted' = [a \in Agents |-> IF a \in A THEN version[a] ELSE wanted[a]]
  /\ fetches' = [c \in Callers |->
       [fetches[c] EXCEPT !.overtaken = @ \/ fetches[c].agent \in A]]
  /\ Gone(A)
  /\ UNCHANGED <<cardClock, version>>

InvalidateAgent(a) == cardEntries' = WithoutCard(a) /\ Invalidated({a})
ClearCache == cardEntries' = <<>> /\ Invalidated(Agents)

CardChanges(a) ==
  /\ version[a] < MaxVersion[a]
  /\ version' = [version EXCEPT ![a] = @ + 1]
  /\ UNCHANGED <<cardClock, cardEntries, fetches, wanted, used>>

CardTick ==
  /\ cardClock < MaxCardTime
  /\ cardClock' = cardClock + 1
  /\ UNCHANGED <<version, cardEntries, fetches, wanted, used>>

CardsNext ==
  \/ \E a \in Agents : \/ DiscoverCached(a) \/ InvalidateAgent(a) \/ CardChanges(a)
                       \/ \E c \in Callers : Discover(c, a)
  \/ \E c \in Callers : Answer(c) \/ FetchFails(c) \/ Fetched(c)
  \/ ClearCache \/ CardTick

CardsSpec == CardsInit /\ [][CardsNext]_cardVars

-----------------------------------------------------------------------------
CardsTypeOK ==
  /\ cardClock \in 0..MaxCardTime
  /\ \A a \in Agents : version[a] \in 1..MaxVersion[a] /\ wanted[a] \in 1..version[a]
  /\ CachedCards \subseteq Agents
  /\ \A i \in DOMAIN cardEntries : cardEntries[i].card \in 1..version[cardEntries[i].agent]
  /\ \A c \in Callers : fetches[c] # NoFetch =>
       fetches[c].answer \in 0..version[fetches[c].agent]

(* No agent has two entries, there are never too many, and they are in the  *)
(* order they were last used, so that it is the least recently used one     *)
(* that makes room.  Once an agent is invalidated its older card is not     *)
(* cached any more, unless a fetch was under way then.                      *)
CacheIsLru ==
  LET Index(a) == CHOOSE i \in DOMAIN used : used[i] = a IN
  /\ Cardinality(CachedCards) = Len(cardEntries) /\ Len(cardEntries) <= maxEntries
  /\ \A i, j \in DOMAIN cardEntries :
       i < j => Index(cardEntries[i].agent) < Index(cardEntries[j].agent)
  /\ \A a \in CachedCards : Entry(a).overtaken \/ Entry(a).card >= wanted[a]
=============================================================================
