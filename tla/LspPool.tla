-------------------------------- MODULE LspPool --------------------------------
(***************************************************************************)
(* The pool of language servers (packages/lsp/src/pool.ts) with what it    *)
(* sees of a client and its process (client.ts, process.ts).               *)
(*                                                                         *)
(* An attempt is one call of initClient and the server it starts; a[1] is  *)
(* the key, "language:workspace".  The pool awaits three things: the       *)
(* shutdown of an evicted server, the handshake of a new one, and in       *)
(* clear() the shutdown of all.  Each ends by an answer or by a timeout.   *)
(***************************************************************************)
EXTENDS Lists, FiniteSets

CONSTANTS
  Servers,
  MaxServers,       \* config.maxServers
  MaxRestarts,      \* config.maxRestarts
  MaxInits,         \* bound on the attempts for each key
  MaxClears         \* bound on the calls of clear()

ASSUME PoolAssumption ==
  /\ MaxServers \in Nat \ {0} /\ {MaxRestarts, MaxClears} \subseteq Nat
  /\ MaxInits \in [Servers -> Nat]

Inits == UNION {{k} \X (1..MaxInits[k]) : k \in Servers}

VARIABLES
  stage,            \* how far each attempt is
  clients,          \* attempts whose client is in the map, one per key
  lastUsed,         \* the keys of lastUsed, the least recent first
  pending,          \* attempts whose promise is in the map, one per key
  restarts,         \* timestamps in each RestartTracker
  tracker,          \* the tracker that an attempt's crash handler holds
  restartTimers,    \* attempts after whose crash a restart is scheduled
  checking,         \* the idle checker runs
  clearing,         \* clear() awaits the shutdowns
  clears            \* calls of clear() that are over

maps == <<clients, lastUsed, pending>>
poolVars == <<stage, maps, restarts, tracker, restartTimers, checking, clearing, clears>>

Stages == {"unused", "evicting", "starting", "up", "leaving", "over"}
Of(k)  == {a \in Inits : a[1] = k}

(* Initialisations under way for a key.                                     *)
InFlight(k) == {a \in Of(k) : stage[a] \in {"evicting", "starting"}}

PoolInit ==
  /\ stage = [a \in Inits |-> "unused"]
  /\ clients = {} /\ lastUsed = <<>> /\ pending = {}
  /\ restarts = [t \in Servers \X (0..MaxClears) |-> 0]
  /\ tracker = [a \in Inits |-> <<a[1], 0>>]
  /\ restartTimers = {}
  /\ checking = FALSE /\ clearing = FALSE /\ clears = 0

Without(s, k) == Filtered(s, {k})

-----------------------------------------------------------------------------
(* initClient up to its first await: it makes room, or starts the server.   *)
Initialize(k) ==
  \E a \in Of(k) :
    /\ stage[a] = "unused" /\ \A n \in 1..(a[2] - 1) : stage[<<k, n>>] # "unused"
    /\ pending' = pending \union {a}
    /\ \/ /\ Cardinality(clients) < MaxServers
          /\ stage' = [stage EXCEPT ![a] = "starting"]
          /\ UNCHANGED <<clients, lastUsed>>
       \/ /\ Cardinality(clients) >= MaxServers
          /\ stage' = [i \in Inits |->
               IF i = a THEN "evicting"
               ELSE IF i \in clients \intersect Of(Head(lastUsed)) /\ stage[i] = "up"
                    THEN "leaving" ELSE stage[i]]
          /\ clients' = clients \ Of(Head(lastUsed))
          /\ lastUsed' = Tail(lastUsed)

(* getClient: the client, the promise of one being initialised, or a new    *)
(* one.  A client that is being shut down is still or no longer initialised.*)
GetClientUnguarded(k) ==   \* mutant: the pending initialisation is not looked up
  \/ /\ \E a \in clients \intersect Of(k) : stage[a] \in {"up", "leaving"}
     /\ lastUsed' = Append(Without(lastUsed, k), k)
     /\ UNCHANGED <<stage, clients, pending>>
  \/ /\ ~ \E a \in clients \intersect Of(k) : stage[a] = "up"
     /\ Initialize(k)

GetClient(k) ==
  \/ /\ \E a \in clients \intersect Of(k) : stage[a] \in {"up", "leaving"}
     /\ lastUsed' = Append(Without(lastUsed, k), k)
     /\ UNCHANGED <<stage, clients, pending>>
  \/ /\ ~ \E a \in clients \intersect Of(k) : stage[a] = "up"
     /\ pending \intersect Of(k) # {}
     /\ UNCHANGED <<stage, maps>>
  \/ /\ ~ \E a \in clients \intersect Of(k) : stage[a] = "up"
     /\ pending \intersect Of(k) = {}
     /\ Initialize(k)

Ask(k) ==
  /\ GetClient(k)
  /\ UNCHANGED <<restarts, tracker, restartTimers, checking, clearing, clears>>

(* The timer of an automatic restart, which nothing cancels.                *)
AutoRestart(a) ==
  /\ a \in restartTimers
  /\ restartTimers' = restartTimers \ {a}
  /\ GetClient(a[1])
  /\ UNCHANGED <<restarts, tracker, checking, clearing, clears>>

(* evictLRU has waited for the server it evicted.                           *)
Evicted(a) ==
  /\ stage[a] = "evicting"
  /\ stage' = [stage EXCEPT ![a] = "starting"]
  /\ UNCHANGED <<maps, restarts, tracker, restartTimers, checking, clearing, clears>>

(* initialize resolves: the crash handler is attached with the tracker of   *)
(* the key, which is reset; whoever asked takes the promise of the key off, *)
(* be it its own or not.                                                    *)
Ready(a) ==
  /\ stage[a] = "starting"
  /\ stage' = [stage EXCEPT ![a] = "up"]
  /\ tracker' = [tracker EXCEPT ![a] = <<a[1], clears>>]
  /\ restarts' = [restarts EXCEPT ![<<a[1], clears>>] = 0]
  /\ clients' = (clients \ Of(a[1])) \union {a}
  /\ lastUsed' = Append(Without(lastUsed, a[1]), a[1])
  /\ pending' = pending \ Of(a[1])
  /\ UNCHANGED <<restartTimers, checking, clearing, clears>>

(* initClient throws: there is no such language, or the handshake times out,*)
(* and then its process is left as it is.                                   *)
Failed(a) ==
  /\ stage[a] \in {"evicting", "starting"}
  /\ stage' = [stage EXCEPT ![a] = "over"]
  /\ pending' = pending \ Of(a[1])
  /\ UNCHANGED <<clients, lastUsed, restarts, tracker, restartTimers, checking, clearing, clears>>

-----------------------------------------------------------------------------
(* A process ends by a signal or with an error, the SIGTERM of its own      *)
(* shutdown included: the handler takes whatever client the key has off the *)
(* map and schedules a restart if the recent ones (the rest are pruned)     *)
(* allow it.                                                                *)
Crash(a) ==
  /\ stage[a] \in {"up", "leaving"}
  /\ stage' = [stage EXCEPT ![a] = "over"]
  /\ clients' = clients \ Of(a[1])
  /\ lastUsed' = Without(lastUsed, a[1])
  /\ \E recent \in 0..restarts[tracker[a]] :
       \/ /\ recent < MaxRestarts
          /\ restarts' = [restarts EXCEPT ![tracker[a]] = recent + 1]
          /\ restartTimers' = restartTimers \union {a}
       \/ /\ recent >= MaxRestarts
          /\ restarts' = [restarts EXCEPT ![tracker[a]] = recent]
          /\ UNCHANGED restartTimers
  /\ UNCHANGED <<pending, tracker, checking, clearing, clears>>

(* A server ends with code 0 as it was asked to.                            *)
Exit(a) ==
  /\ stage[a] = "leaving"
  /\ stage' = [stage EXCEPT ![a] = "over"]
  /\ UNCHANGED <<maps, restarts, tracker, restartTimers, checking, clearing, clears>>

(* evictIdle, for one key that was not used for long.                       *)
EvictIdle(a) ==
  /\ checking /\ a \in clients
  /\ stage' = [stage EXCEPT ![a] = IF @ = "up" THEN "leaving" ELSE @]
  /\ clients' = clients \ {a}
  /\ lastUsed' = Without(lastUsed, a[1])
  /\ UNCHANGED <<pending, restarts, tracker, restartTimers, checking, clearing, clears>>

StartIdleChecker ==
  /\ ~checking
  /\ checking' = TRUE
  /\ UNCHANGED <<stage, maps, restarts, tracker, restartTimers, clearing, clears>>

(* clear() asks every client in the map to shut down ...                    *)
ClearAll ==
  /\ ~clearing /\ clears < MaxClears
  /\ clearing' = TRUE /\ checking' = FALSE
  /\ stage' = [a \in Inits |-> IF a \in clients /\ stage[a] = "up" THEN "leaving" ELSE stage[a]]
  /\ UNCHANGED <<maps, restarts, tracker, restartTimers, clears>>

(* ... and empties the maps, whatever they hold by then.  A tracker is new  *)
(* after it; the handlers keep theirs.                                      *)
Cleared ==
  /\ clearing
  /\ clearing' = FALSE /\ clears' = clears + 1
  /\ clients' = {} /\ lastUsed' = <<>> /\ pending' = {}
  /\ UNCHANGED <<stage, restarts, tracker, restartTimers, checking>>

PoolNext ==
  \/ \E k \in Servers : Ask(k)
  \/ \E a \in Inits :
       \/ AutoRestart(a) \/ Evicted(a) \/ Ready(a) \/ Failed(a)
       \/ Crash(a) \/ Exit(a) \/ EvictIdle(a)
  \/ StartIdleChecker \/ ClearAll \/ Cleared

PoolSpec == PoolInit /\ [][PoolNext]_poolVars

-----------------------------------------------------------------------------
(* The variables keep their types.                                          *)
PoolTypeOK ==
  /\ stage \in [Inits -> Stages]
  /\ clients \subseteq Inits /\ pending \subseteq Inits /\ restartTimers \subseteq Inits
  /\ clears \in 0..MaxClears
  /\ tracker \in [Inits -> Servers \X (0..MaxClears)]
  /\ restarts \in [Servers \X (0..MaxClears) -> 0..MaxRestarts]
  /\ checking \in BOOLEAN /\ clearing \in BOOLEAN
  /\ lastUsed \in Seq(Servers)

(* The guard of getClient: a key has at most one initialisation under way,  *)
(* and one more for each clear() that forgot a promise, however many of     *)
(* these then take the promise of another one off the map.                  *)
OneInitPerKey ==
  \A k \in Servers : Cardinality(InFlight(k)) <= 1 + clears

(* The pool has no more servers than it is allowed.                         *)
PoolLimit == Cardinality(clients) <= MaxServers
================================================================================
