------------------------------ MODULE ConfigWatcher ------------------------------
(***************************************************************************)
(* Reloading the configuration (packages/gateway/src/config-watcher.ts)    *)
(* and what the gateway does with a new one: a change of the file arms a   *)
(* debounce timer, the timer starts a read, and what was read is compared  *)
(* with the configuration at that moment.  Nothing keeps one read from     *)
(* starting before the last one is done.                                   *)
(*                                                                         *)
(* A configuration has four fields: port stands for those that need a      *)
(* restart, scope and limit for plain hot ones, and bindings for those     *)
(* that are optional and objects: objects read from a file are never       *)
(* identical to those in memory, and a field the file leaves out is not    *)
(* compared at all.                                                        *)
(***************************************************************************)
EXTENDS FiniteSets, Naturals

CONSTANTS
  Versions,         \* configurations the file takes, and NotAConfig
  Initial,          \* the one the gateway is built with
  MaxEdits          \* bound on the changes of the file

NotAConfig == [port |-> 0, scope |-> "none", limit |-> 0, bindings |-> "none"]
NotRead    == [port |-> 1, scope |-> "none", limit |-> 0, bindings |-> "none"]

(* A configuration has all of its fields.                                   *)
ASSUME WatcherAssumption ==
  /\ \A version \in Versions \union {Initial} :
       DOMAIN version = {"port", "scope", "limit", "bindings"}
  /\ NotRead \notin Versions \union {Initial}
  /\ MaxEdits \in Nat

VARIABLES
  file,             \* (external) its content
  edits,
  events,           \* change events of the file watcher still to come
  watching,         \* "yes", "closing" or "no"
  debounce,         \* is the debounce timer armed?
  reads,            \* reload() calls: number -> what was read, or NotRead
  reloads,          \* calls of reload() so far
  currentConfig,
  scope, storeLimit, compiled,   \* of the router, the store, the resolver
  readsOverlapped,  \* history: did reads overlap since one was alone?
  threw             \* history: has the gateway's handler thrown?

fileVars == <<file, edits, events>>
appliedVars == <<currentConfig, scope, storeLimit, compiled, threw>>
configVars == <<fileVars, watching, debounce, reads, reloads, appliedVars, readsOverlapped>>

WatcherInit ==
  /\ file = Initial /\ edits = 0 /\ events = 0
  /\ watching = "yes" /\ debounce = FALSE /\ reads = {} /\ reloads = 0
  /\ currentConfig = Initial
  /\ scope = Initial.scope /\ storeLimit = Initial.limit
  /\ compiled = Initial.bindings
  /\ readsOverlapped = FALSE /\ threw = FALSE

-----------------------------------------------------------------------------
Edit(version) ==
  /\ edits < MaxEdits /\ version # file
  /\ file' = version
  /\ edits' = edits + 1
  /\ events' = events + 1
  /\ UNCHANGED <<watching, debounce, reads, reloads, appliedVars, readsOverlapped>>

(* handleChange; events stop when the watcher is closed.                    *)
HandleChange ==
  /\ events > 0 /\ watching # "no"
  /\ events' = events - 1
  /\ debounce' = TRUE
  /\ UNCHANGED <<file, edits, watching, reads, reloads, appliedVars, readsOverlapped>>

Reload ==
  /\ debounce
  /\ debounce' = FALSE
  /\ reloads' = reloads + 1
  /\ reads' = reads \union {[number |-> reloads', content |-> NotRead]}
  /\ readsOverlapped' = (reads # {})
  /\ UNCHANGED <<fileVars, watching, appliedVars>>

Read(r) ==
  /\ r.content = NotRead
  /\ reads' = (reads \ {r}) \union {[r EXCEPT !.content = file]}
  /\ UNCHANGED <<fileVars, watching, debounce, reloads, appliedVars, readsOverlapped>>

-----------------------------------------------------------------------------
(* The gateway's handler.  Patterns it cannot compile make it throw, which  *)
(* the emitter swallows, and what comes after the bindings is not done.     *)
Apply(new, changed) ==
  /\ scope' = IF "scope" \in changed THEN new.scope ELSE scope
  /\ IF "bindings" \in changed /\ new.bindings = "bad"
     THEN threw' = TRUE /\ UNCHANGED <<compiled, storeLimit>>
     ELSE /\ compiled' = IF "bindings" \in changed THEN new.bindings ELSE compiled
          /\ storeLimit' = IF "limit" \in changed THEN new.limit ELSE storeLimit
          /\ UNCHANGED threw

Hot(config) == {"scope", "limit"} \union
               (IF config.bindings = "none" THEN {} ELSE {"bindings"})
Changed(config) ==
  {f \in Hot(config) : f = "bindings" \/ config[f] # currentConfig[f]}

(* The end of reload().  A content that is no configuration changes nothing.*)
ReloadedWhole(r) ==       \* mutant: the fields that need a restart are taken too
  /\ r.content # NotRead
  /\ reads' = reads \ {r}
  /\ IF r.content = NotAConfig THEN UNCHANGED appliedVars
     ELSE /\ currentConfig' = r.content
          /\ Apply(r.content, Changed(r.content))
  /\ UNCHANGED <<fileVars, watching, debounce, reloads, readsOverlapped>>

Reloaded(r) ==
  /\ r.content # NotRead
  /\ reads' = reads \ {r}
  /\ LET changed == Changed(r.content)
         new == [f \in DOMAIN currentConfig |->
                   IF f \in changed THEN r.content[f] ELSE currentConfig[f]]
     IN IF r.content = NotAConfig \/ changed = {} THEN UNCHANGED appliedVars
        ELSE /\ currentConfig' = new
             /\ IF watching = "no" THEN UNCHANGED <<scope, storeLimit, compiled, threw>>
                ELSE Apply(new, changed)
  /\ UNCHANGED <<fileVars, watching, debounce, reloads, readsOverlapped>>

(* stop() clears the timer and waits for the watcher to close, then it      *)
(* forgets the handlers.  A change in between arms the timer once more.     *)
StopWatching ==
  /\ watching = "yes"
  /\ watching' = "closing"
  /\ debounce' = FALSE
  /\ UNCHANGED <<fileVars, reads, reloads, appliedVars, readsOverlapped>>

Stopped ==
  /\ watching = "closing"
  /\ watching' = "no"
  /\ UNCHANGED <<fileVars, debounce, reads, reloads, appliedVars, readsOverlapped>>

WatcherNext ==
  \/ \E version \in Versions : Edit(version)
  \/ HandleChange \/ Reload \/ StopWatching \/ Stopped
  \/ \E r \in reads : Read(r) \/ Reloaded(r)

WatcherSpec == WatcherInit /\ [][WatcherNext]_configVars

-----------------------------------------------------------------------------
WatcherTypeOK ==
  /\ file \in Versions \union {Initial}
  /\ edits \in 0..MaxEdits /\ events \in 0..edits /\ reloads \in 0..MaxEdits
  /\ watching \in {"yes", "closing", "no"} /\ debounce \in BOOLEAN
  /\ \A r \in reads : r.content \in Versions \union {Initial, NotRead}
  /\ readsOverlapped \in BOOLEAN /\ threw \in BOOLEAN

FileIsQuiet == watching = "yes" /\ events = 0 /\ ~debounce /\ reads = {}

(* Once the file has not changed for a while, the hot fields it gives have  *)
(* its values, unless reloads overlapped and no later one was alone; and    *)
(* the gateway works with the configuration it has, unless its handler      *)
(* threw.  The other fields never change.                                   *)
ConfigFollowsFile ==
  /\ FileIsQuiet /\ ~readsOverlapped /\ file # NotAConfig =>
       \A f \in Hot(file) : currentConfig[f] = file[f]
  /\ watching # "no" => /\ scope = currentConfig.scope
                        /\ ~threw => /\ storeLimit = currentConfig.limit
                                     /\ compiled = currentConfig.bindings
  /\ currentConfig.port = Initial.port
=============================================================================
