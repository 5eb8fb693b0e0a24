------------------------------- MODULE DevServers --------------------------------
(***************************************************************************)
(* ProcessManager (packages/self-test/src/process-manager.ts): start()     *)
(* spawns a dev server unless its URL answers, waits until it is healthy,  *)
(* and kills it when it is not; stop() kills what is tracked and forgets   *)
(* it.  A process ends when it likes, at once or long after a signal, or   *)
(* never: what five seconds end is the wait.                               *)
(***************************************************************************)
EXTENDS Naturals

CONSTANTS
  ServerNames,      \* calls of start(), and the process each may spawn
  MaxStops          \* bound on the calls of stop()

ASSUME StopsAssumption == MaxStops \in Nat

VARIABLES
  starts,           \* call -> what start() awaits
  runningServers,   \* processes that run
  processes,        \* those the manager tracks
  signalled,        \* those with proc.killed
  killTimers,       \* those whose forceKill is set: a killProcess waits for them
  forceKilled,      \* those sent SIGKILL
  stopping,         \* calls of stop() that wait
  stopAwaits,       \* call of stop() -> the processes it sent a signal to
  stops,            \* calls of stop() made
  givenUp,          \* history: processes a killProcess left running
  late              \* history: processes spawned while a stop() waited

killVars == <<signalled, killTimers, forceKilled, givenUp>>
stopVars == <<stopping, stopAwaits, stops>>
devServerVars == <<starts, runningServers, processes, killVars, stopVars, late>>

DevServersInit ==
  /\ starts = [s \in ServerNames |-> "idle"]
  /\ runningServers = {} /\ processes = {}
  /\ signalled = {} /\ killTimers = {} /\ forceKilled = {} /\ givenUp = {}
  /\ stopping = {} /\ stopAwaits = [k \in 1..MaxStops |-> {}] /\ stops = 0
  /\ late = {}

-----------------------------------------------------------------------------
(* killProcess: nothing for a process that has exited or has its signal     *)
(* already, else SIGTERM and five seconds.                                  *)
ToKill(P) == (P \intersect runningServers) \ signalled

KillProcess(P) ==
  /\ signalled' = signalled \union ToKill(P)
  /\ killTimers' = killTimers \union ToKill(P)
  /\ givenUp' = givenUp \union (P \intersect runningServers \intersect signalled)
  /\ UNCHANGED forceKilled

(* The five seconds are over: SIGKILL for a process without proc.killed.    *)
ForceKill(s) ==
  /\ s \in killTimers
  /\ killTimers' = killTimers \ {s}
  /\ forceKilled' = forceKilled \union ({s} \ signalled)
  /\ givenUp' = givenUp \union {s}
  /\ UNCHANGED <<starts, runningServers, processes, signalled, stopVars, late>>

-----------------------------------------------------------------------------
(* start(), with reuseExisting and without.                                 *)
Spawn(s) ==
  /\ runningServers' = runningServers \union {s}
  /\ processes' = processes \union {s}
  /\ starts' = [starts EXCEPT ![s] = "polling"]
  /\ late' = IF stopping # {} THEN late \union {s} ELSE late
  /\ UNCHANGED <<killVars, stopVars>>

Become(s, state) ==
  /\ starts' = [starts EXCEPT ![s] = state]
  /\ UNCHANGED <<runningServers, stopVars, late>>

StartServer(s) ==
  /\ starts[s] = "idle"
  /\ \/ Spawn(s)
     \/ Become(s, "asking") /\ UNCHANGED <<processes, killVars>>

UrlAnswers(s) ==
  /\ starts[s] = "asking"
  /\ \/ Spawn(s)
     \/ Become(s, "up") /\ UNCHANGED <<processes, killVars>>

(* pollUrl ends: healthy, too late, or aborted.                             *)
PolledOnly(s) ==     \* mutant: an unhealthy server is forgotten, not killed
  /\ starts[s] = "polling"
  /\ \/ Become(s, "up") /\ UNCHANGED processes
     \/ Become(s, "failed") /\ processes' = processes \ {s}
  /\ UNCHANGED killVars

Polled(s) ==
  /\ starts[s] = "polling"
  /\ \/ Become(s, "up") /\ UNCHANGED killVars
     \/ Become(s, "killing") /\ KillProcess({s})
  /\ UNCHANGED processes

Killed(s) ==
  /\ starts[s] = "killing" /\ s \notin killTimers
  /\ Become(s, "failed")
  /\ processes' = processes \ {s}
  /\ UNCHANGED killVars

ProcessExits(s) ==
  /\ s \in runningServers
  /\ runningServers' = runningServers \ {s}
  /\ processes' = processes \ {s}
  /\ killTimers' = killTimers \ {s}
  /\ UNCHANGED <<starts, signalled, forceKilled, givenUp, stopVars, late>>

-----------------------------------------------------------------------------
StopServers ==
  /\ stops < MaxStops
  /\ stops' = stops + 1
  /\ stopping' = stopping \union {stops'}
  /\ stopAwaits' = [stopAwaits EXCEPT ![stops'] = ToKill(processes)]
  /\ KillProcess(processes)
  /\ UNCHANGED <<starts, runningServers, processes, late>>

(* Each process has exited or had its five seconds: whatever is tracked by  *)
(* now is forgotten, signalled or not.                                      *)
StoppedByAny(k) ==   \* mutant: Promise.race for Promise.all
  /\ k \in stopping
  /\ stopAwaits[k] = {} \/ stopAwaits[k] \ killTimers # {}
  /\ stopping' = stopping \ {k}
  /\ processes' = {}
  /\ UNCHANGED <<starts, runningServers, killVars, stopAwaits, stops, late>>

Stopped(k) ==
  /\ k \in stopping /\ stopAwaits[k] \intersect killTimers = {}
  /\ stopping' = stopping \ {k}
  /\ processes' = {}
  /\ UNCHANGED <<starts, runningServers, killVars, stopAwaits, stops, late>>

(* The listeners of the agent's own exit and of SIGTERM, which does not end *)
(* it once somebody listens.                                                *)
Cleanup ==
  /\ signalled' = signalled \union ToKill(processes)
  /\ UNCHANGED <<starts, runningServers, processes, killTimers, forceKilled, givenUp,
                 stopVars, late>>

DevServersNext ==
  \/ \E s \in ServerNames :
       \/ StartServer(s) \/ UrlAnswers(s) \/ Polled(s) \/ Killed(s) \/ ProcessExits(s)
       \/ ForceKill(s)
  \/ StopServers \/ Cleanup
  \/ \E k \in stopping : Stopped(k)

DevServersSpec == DevServersInit /\ [][DevServersNext]_devServerVars

-----------------------------------------------------------------------------
DevServersTypeOK ==
  /\ starts \in [ServerNames -> {"idle", "asking", "polling", "killing", "up", "failed"}]
  /\ processes \subseteq runningServers
  /\ runningServers \subseteq {s \in ServerNames : starts[s] \notin {"idle", "asking"}}
  /\ killTimers \subseteq runningServers \intersect signalled
  /\ UNION {signalled, forceKilled, givenUp, late} \subseteq ServerNames
  /\ stopping \subseteq 1..stops /\ stops \in 0..MaxStops
  /\ stopAwaits \in [1..MaxStops -> SUBSET ServerNames]

(* A server that runs is tracked, or somebody waits for its end; but for    *)
(* those left running five seconds after a signal, or with one they had     *)
(* before, and those that start() spawned while a stop() waited for others  *)
(* to end: that stop() forgets them.  A stop() that returned has given each *)
(* process it sent a signal its five seconds.                               *)
NoneForgotten ==
  /\ runningServers \subseteq processes \union killTimers \union givenUp \union late
  /\ givenUp \subseteq signalled
  /\ \A k \in (1..stops) \ stopping : stopAwaits[k] \intersect runningServers \subseteq givenUp

(* "SIGTERM -> wait 5s -> SIGKILL": when stop() returns, what it waited for *)
(* in vain has been sent SIGKILL.                                           *)
StopKills ==
  \A k \in (1..stops) \ stopping :
    stopAwaits[k] \intersect runningServers \subseteq forceKilled
=============================================================================
