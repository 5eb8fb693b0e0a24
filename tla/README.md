# Templar in TLA+

Templar is an agent execution engine: a pnpm monorepo of 39 TypeScript
packages. This directory holds TLA+ models of the parts of it that carry its
concurrency and its state, the TLC configurations that check them on small
instances, and TLAPS proofs of what matters most for every instance.

Contents: [1 the system](#1-the-system), [2 modules](#2-modules),
[3 what the runs show](#3-what-the-runs-show), [4 fairness](#4-fairness),
[5 proofs](#5-proofs), [6 disagreements](#6-disagreements-with-the-source),
[7 what is not modelled](#7-what-is-not-modelled), [8 plan](#8-plan),
[9 running](#9-running-the-checks).

## 1. The system

Two kinds of process. The **gateway** is a server that nodes connect to; it
routes messages, keeps sessions and delegates work. An **agent** runs in a node:
a client of the gateway, and around the model a stack of middleware, guards,
channels and bridges to other programs.

### 1.1 Parts, state, operations

| part | where | state it keeps | operations |
|---|---|---|---|
| control plane | `gateway/src/gateway.ts` | `connectionToNode`, `nodeToConnection`; owns every store below | register, deregister, disconnect, pong, lane message, ack, delegation frames, sweep, checkpoint, start, stop |
| server | `gateway/src/server.ts` | open connections, frame rate windows | connect, frame, close |
| sessions | `gateway/src/sessions/` | state per node, idle and suspend timers, identity | create, event, timeout, destroy, snapshot, restore |
| registry, health | `gateway/src/registry/` | registered nodes, liveness flag, agent index | register, deregister, pong, sweep |
| router | `gateway/src/router.ts` | message buffers, channel bindings | bind, route, routeWithScope, drain |
| message buffer | `gateway/src/queue/` | ring buffer, lane counters | dispatch, drain |
| delivery tracker | `gateway/src/delivery-tracker.ts` | unacknowledged messages per node | track, ack, evict, snapshot |
| conversations | `gateway/src/conversations/` | bindings, reverse index, capacity warning | bind, evict, sweep, removeNode, restore |
| delegation | `gateway/src/delegation-manager.ts`, `circuit-breaker.ts` | delegations in flight, per-node counts, breakers | delegate, result, cancel, timeout, sweep |
| configuration | `gateway/src/config-watcher.ts` | configuration, debounce timer | change, reload, apply, stop |
| pairing | `pairing/src` | approved peers, pending codes, attempt windows | checkSender, approve, revoke, load, sweep |
| node client | `node/src` | connection state, controller, reconnect schedule, waiter for the ack | start, stop, close, reconnect |
| model router | `model-router/src` | breaker per provider, key cooldowns | complete, stream, fail over |
| LSP pool | `lsp/src/pool.ts` | clients, pending initialisations, restart trackers | getClient, evict, crash, clear |
| middleware | `middleware/src` | audit buffer, turn buffers, memories to store, balance and reservation, permission cache and breaker | session and turn hooks around Nexus calls |
| approvals | `exec-approvals/src` | allowlist, what of it is dirty | ask, record, flush, load |
| engine | `engine/src` | spawn counts, windows of outputs and tool calls | check, record, complete, reset; record and check |
| hooks, heartbeat | `hooks/src`, `heartbeat/src` | handlers by priority; timer, ring of results | on, once, off, emit; start, stop, tick |
| long-running, self-test | packages of those names | feature list and progress in files; child processes | update, save, load; start, poll, stop |
| MCP, ACP, A2A | packages of those names | client and exit handler; sessions and prompts; cards and tasks | connect, disconnect; prompt, cancel; discover, send, poll |
| channels | `channel-base/src`, `channel-whatsapp/src` | sockets, flags, queue and token bucket | connect, disconnect, reconnect, send |
| core, errors, manifest, sanitize, SDK, tools, command-line programs | packages of those names | none to speak of | pure functions, wrappers, I/O |

### 1.2 How they interact

Inside either process everything runs on one event loop. In the gateway a frame
handler calls the stores synchronously and the stores emit events back into
`gateway.ts`, so a handler is atomic unless it awaits: `node.register` awaits
the device-key check, `delegate` awaits the store and the node, a checkpoint
awaits the disk. Nodes and gateway exchange frames over WebSockets; what is in
flight can be late, and a connection can close without either side knowing at
once. The node client is a second event loop with awaits of its own (token,
socket, acknowledgement), several of which overlap when a connection is lost
while `start()` waits.

The parts of an agent share its event loop and little else. Middleware is called
through hooks (session start, before and after a turn, session end) that the
engine awaits one after the other, but much of what they start is not awaited:
flushes, extractions, observations, upserts. Those end whenever Nexus, the
ledger, the model provider or a child process answers, and then write to
whatever state there is by that time.

### 1.3 What is hard, and what makes each part correct

* **Control plane.** A node id can be claimed by several connections, closed by
  one while another registers, and reaped while a verification is pending.
  Correct: registry entry, session and buffer come and go together; a
  connection that is gone tears down only what it still owns; every route
  leads to a buffer; a node nobody can reach is removed in the end.
* **Sessions.** Timers race with frames and with restoration from a snapshot.
  Correct: an armed timer belongs to a session in the state the timer is for,
  and no live session is left without one.
* **Stores.** Bindings and their index, entries and their counters, head, tail
  and count are pairs of things maintained by hand. Correct: they agree, and
  bounds hold along every path that grows a store.
* **Delegation.** Results, two timeouts, cancels, departures and sweeps all end
  the same delegation. Correct: one of them does, exactly once, nothing is left
  in the map, and the counts that refuse requests are right.
* **Configuration.** Reloads overlap, fields are compared one by one, a handler
  may throw half-way. Correct: what the file says is what the gateway does.
* **Node client, channels, MCP bridge, language servers, dev servers.**
  Overlapping attempts share one socket, one flag, one client or one timer.
  Correct: what is open has an owner who will close it, flags have somebody who
  will clear them, `start()` returns and `stop()` is final.
* **Buffers in front of Nexus** (audit, memories, observations, approvals).
  Things are added while a flush is awaited, flushes fail, sessions end.
  Correct: nothing is lost, or only what the property names.
* **Money and decisions.** A reservation or a check may succeed after its
  timeout. Correct: what was charged is accounted for; no answer is believed
  for longer than it is kept; a breaker cannot wedge.
* **Guards and hooks.** Counts and windows follow events that come in any order.
  Correct: a limit holds, a loop is seen, a handler runs while it is registered.

The full list of hazards, each at its line and with the properties that cover
it (or why none does), is in `PROJECT.json`.

## 2. Modules

An action is a whole handler. Where the code awaits inside one, the handler is
two actions and what it read before the await is kept in a variable. Variables
marked "history" exist for a property only; nothing else reads them.

### 2.1 The gateway

**`SessionManager`**: `session-manager.ts` and the transition table of
`protocol/sessions.ts`. `sessions`, `identities`, `idleTimers`,
`suspendTimers` are the maps of the class; `wired` says whether a transition
handler is registered (the constructor of the gateway registers one, `dispose`
clears it); `snapshot` is what a caller keeps of `toSnapshot`. The module can be
run alone (`Next`) and is used by `Gateway`, which calls its operators.

**`NodeRegistry`**: `node-registry.ts` and the sweep of `health-monitor.ts`.
A node is `absent`, `alive` or `suspect` (its `isAlive` flag after a ping no
pong has answered). `agentIndex` keeps the order dependence of the code: the
last registrant wins, deregistration removes the entry only if it is the
node's own.

**`Gateway`**: `gateway.ts` with the parts of `router.ts`, `server.ts` and the
checkpoint it drives. It instantiates the two modules above. `verifying` holds
the registrations that await `verifyDeviceJwt`: `Register` starts one,
`Verified` ends it, whatever has happened to the connection since. Cleanup
follows `cleanupNode` in its order. `Crash` loses all but the checkpoint,
`Stop` saves first, `Start` restores or starts clean. `conversations` and
`deliveries` are kept here as far as routing and the checkpoint need them, in
full in the modules below.

**`ConversationStore`**: bindings with their time of activity, the reverse
index, the limit (changed by a configuration update), the flag of the capacity
warning, a snapshot.

**`BoundedFifo`, `LaneMessages`, `LaneQueue`**: the ring buffer as a value with
operators, the buffers and the delivery tracker as the gateway drives them, and
the abstract queue they implement: the last `Capacity` messages since the last
drain, handed over by lane and in order. The refinement reads the ring from its
head on. Array.sort is any permutation that puts the entries in the order of the
comparison; there is one, since no two entries compare equal.

**`Delegation`**: `delegation-manager.ts`, `circuit-breaker.ts` and the awaits
between them. `phase` is the place of each `delegate()` promise: before the
store answers, about to try a node, waiting for it, woken and not yet run, or
done. Microtasks run before the next frame or timer, so frame handlers wait for
them (`Quiet`). `fromCount` is the count read before the await on the store.

**`ConfigWatcher`**: `config-watcher.ts` and the handler in `gateway.ts`. A
change arms the timer, the timer starts a read, and what was read is compared
with the configuration at that moment. One field stands for those that need a
restart, two for plain hot ones, one for the objects.

**`PairingGuard`**: the pending codes with expiry, attempts and eviction, the
rate window, and the load of approved peers page by page.

**`TemplarNode`**: `node.ts`, `ws-client.ts` and the retry count of
`reconnect.ts`. A call of `connectAndRegister` is in stage `token`, `opening`
or `waiting`; `pendingAck` names the call that has the one resolver; `sockets`
and `wired` are the sockets ever made and those whose listeners are attached.

### 2.2 The agent

**`ModelRouter`**: `complete` and `stream` as one walk through the targets of a
chain, by any number of requests that share breakers and keys. An attempt
awaits the provider; a failure rotates the key, retries, sleeps, goes on to the
next target or gives up, as the strategy for its kind says.

**`LspPool`**, **`Heartbeat`**, **`WhatsAppChannel`**: `getClient` with its
pending promises, crashes and `clear`; a tick with its evaluators and the timers
that several `start` and `stop` leave; several sockets whose events arrive in
any order, and the send queue.

**`AuditLog`**, **`Observer`**, **`SessionMemory`** and the abstract **`Outbox`**,
**`Pay`**: each has `hook`, what the engine awaits at the moment, and the calls
to Nexus that are under way. `SessionMemory` implements `Outbox`: a memory
accepted is delivered at most once per content, and dropped only openly.
`Pay` has the ledger as an external part that may do what it was asked after
the caller has given up. In `Observer` an extraction succeeds
(`ObservationsExtracted`) or fails (`ExtractionFails`); `safeNexusCall` turns
the failure into an empty answer, so that both end alike (`ExtractionOver`):
the buffer is emptied. Only the history tells them apart: `extracted` has the
turns of those that succeeded, `unextracted` of those that did not.

**`PermissionChecks`**, **`ExecApprovals`**: decisions kept at Nexus, with a
cache or a list in memory, over sessions that follow one another while calls of
the earlier ones are still under way. A command that finds no session makes the
list of approvals itself (`execSession = "lazy"`); it is empty, and dropped when
a session starts.

**`SpawnGuard`**, **`LoopDetector`**, **`HookRegistry`**, **`PatternMining`**:
counts of children, the two windows, the handlers of one event under overlapping
emits (a disposer is good for one call and for whatever entry its handler has by
then), and PrefixSpan, which is compared with the definition of a frequent
sequence on every input. The source grows one prefix and then the next, each to
its end; here all prefixes of one length are grown together, which finds the
same set. A projected database is a function from the sessions left in it to
the calls left of each.

**`LongRunning`**, **`DevServers`**, **`McpBridge`**, **`AcpServer`**,
**`AgentCards`**, **`RemoteTasks`**: files and their writes, child processes, the
client of an MCP server, the sessions of an editor, the cards of remote agents
and the tasks they work on. `RemoteTasks` counts time, because its timers,
sleeps and deadline are compared with one another. In `DevServers` a process
ends when it likes, after its signal or never: `killTimers` are the `forceKill`
timers of the calls of `killProcess` that wait, `ForceKill` is their end, and
`stopAwaits` says which processes each `stop()` has signalled and waits for. In
`McpBridge` a close ends well (`ClientClosed`) or throws (`CloseFails`): the
bridge has no client after either, but the connection is open after the second.

### 2.3 Composition

`Gateway` composes `SessionManager`, `NodeRegistry` and its own routing, in one
state. The other parts do not call one another in the code, or only through
results. `SideBySide` states what pairs of them promise together (dev servers
and the MCP bridge, approvals and permissions, cards and tasks of remote
agents, hooks and editor prompts, the two guards of the engine) over the
conjunction of their specifications. `MCGatewayParts` and `MCAgentParts` put the
parts of a process into one specification each, in which `part` says which
component moves and the others stand still. It is the disjoint union of their
state graphs: nothing is multiplied, and each is explored as if alone.

`Lists` holds the three operators on lists the code spells out by hand (insert,
remove, filter), free of what else the community module brings with it.

## 3. What the runs show

| run | module | shows |
|---|---|---|
| `GatewayParts` | `MCGatewayParts` | timers and identities match the sessions; the reverse index is exact; a store at its limit makes room by evicting what was least active; the client is connected with a session, every `start()` returns; messages leave the tracker in turn and rings are lane queues; delegations in progress are live, counts are safe, an aborted delegation asks nobody else and every request is answered; the gateway follows its configuration file |
| `AgentParts` | `MCAgentParts` | the 18 properties of 2.2, below |
| `GatewayConnections` | `MCGateway` | nodes agree in registry, sessions, buffers and maps; only their own connection tears them down, with verifications that outlive their connection; agent ids resolve to registered nodes; routes lead to live buffers; the live state always passes the check of `saveCheckpoint` |
| `GatewayRestart` | `MCGateway` | over crashes, stops and restarts from a checkpoint the sessions behave as `SessionManager!Spec` says, and a node nobody can reach is removed |
| eight violation runs | | section 6 |

The properties of `AgentParts`, each with the behaviour it is about:

| property | says |
|---|---|
| `OneInitPerKey` | no key of the LSP pool has two initialisations under way, but for one more per `clear` |
| `NeverDies` | a running heartbeat has a timer or a tick that will set one |
| `FlagsAreHeld` | `reconnecting` has a handler in its delay, a queued message has a loop |
| `ChargesAreAccounted` | what the ledger has taken is spent, reserved, or a call whose answer was lost |
| `BreakerNeverWedges`, `RequestsEnd` | a half-open breaker has a probe left; a request ends |
| `EventsAreKept` | an event is in the log, waiting, or lost in one of the named ways |
| `TurnsAreObserved` | when the session is over every turn was in an extraction that succeeded, but for those of failed ones and those that came while one was under way; none that was extracted is buffered again |
| `MemoryIsAnOutbox` | session memory refines `Outbox` |
| `OrderIsPending` | the eviction order of pairing codes is that of the codes there are |
| `MinesTheFrequent` | the miner finds the frequent sequences and no others |
| `SavedIsOnDisk` | what a call that returned has saved survives a crash between or during writes |
| `NothingIsForgotten` | a dev server that runs is tracked or waited for, but for those that outlived their signal and those spawned during a `stop()`, and a `stop()` that returned has given each process it signalled its five seconds; an open MCP connection or exit handler has an owner, but those of overlapping calls, and connections whose close threw |
| `GuardsSeeTheAgent` | spawn counts are of running children and keep the limits; loops are seen in the windows exactly when they are there |
| `RemoteAgentsAreSound` | the card cache is an LRU and forgets what was invalidated; a poll keeps its deadline and reports the task's own end |
| `DecisionsAreRemembered` | approvals are counted in memory and at Nexus; no cached answer outlives its time; the permission breaker is settled by somebody |
| `HandlersAreSettled` | handlers run in order and those registered once stay until removed; a one-shot one runs once unless two emits had it or its result was rejected; an ACP session is busy exactly while its handler runs, unless it was prompted without a connection |

Many of these name exceptions, such as an event added while a flush is awaited.
They are losses the code really has: the property says that there are no
others, and its text names each.

Every property of a passing run has a mutant in `PROJECT.json`: a definition
changed as a plausible bug would change it, under which TLC finds the property
violated. The mutated forms stand before the definitions they replace and are
marked as such. A property that joins two components has mutants of both.

### 3.1 Bounds, and why they are enough

* **Gateway**: two nodes and three connections, two of them for one id (a
  connection id is used once): a duplicate, a takeover and a bystander. With
  restarts: one node over three connections. One channel, conversation and
  message each: they do not interact; one identity besides the default.
* **Sessions**: two nodes and one identity besides the default; sessions meet
  only in `destroySession` of several and in snapshots.
* **Conversations**: three keys against limits of one and two, so that a
  lowered limit is exceeded and eviction has a choice; times 0 to 2 with a time
  to live of 1.
* **Client**: `MaxStarts = 2`, `MaxCalls = 4` attempts, `MaxRetries = 2` in one
  series. Two overlapping attempts are what it takes to share a socket or the
  waiter; four leave room for both to be replaced.
* **Lane messages**: rings of two slots; the receiver takes in three messages
  (`MaxSeq`), one more than its ring, so it drops, wraps and drains.
* **Delegation**: two delegations, one of which may fall back to the node that
  asks; without a store against a limit of one, with one against two; a breaker
  opens at one failure. Timeouts fire at any time.
* **Configuration**: three edits through five contents, one of them no
  configuration and one with patterns that do not compile: two reads may overlap
  and a third be alone after them.
* **Model router**: two requests, one provider besides an unknown one, two keys,
  one retry, a threshold of two failures and one probe.
* **LSP pool**: two keys for one place, three initialisations of one key; one
  clear. **Heartbeat**: four ticks, three timers, a ring of two.
  **WhatsApp**: three connections, one reconnection, a queue of one.
* **Pay**: three turns of cost 0 or 2 against a budget of 3 and a balance of 4.
  **Audit**: four events and a buffer of two. **Observer**: five turns.
  **Memory**: four facts, two of them with the same content.
* **Pairing**: one sender, three codes, capacities of one and two, clock 0 to 2
  with an expiry of 1, two attempts. **Mining**: two sessions of up to three
  calls of two tools, every input.
* **Long-running**: three entries with a window of one, one feature, two saves
  at once, one crash. **Dev servers**: two servers, two stops, so that a `stop()`
  overlaps a `start()` or another `stop()`. **MCP bridge**: three connects, two
  disconnects.
* **Spawn guard**: five children of three parents; each of the three limits is
  met first by some spawn; two resets. **Loop detector**: four turns under three
  configurations, one with a window shorter than its threshold.
* **Cards**: three agents for a cache of two, two fetches at once, one card that
  changes. **Tasks**: a deadline of 5, requests of 2, polls of 2 doubling to 5,
  clock to 12. **Approvals**: two patterns for a list of one, three approvals,
  two sessions, a flush of the timer and one of the end. **Permissions**: two
  calls at once of one tool, threshold two, two sessions, clock 0 to 2 with
  every duration 1. **Hooks**: two registrations, two emits that overlap.
  **ACP**: three sessions against a limit of two, three prompts, two connects.

Every bound is a constant or a substitution in the MC modules; in each of these
instances every action of every component is taken.

## 4. Fairness

Only what the program itself schedules is fair, and weakly so.

* `Gateway!FairSpec`: the health sweep is an interval that runs while the
  process is up. Nothing is assumed of clients, restarts or other timers.
* `PartsSpec`: for delegations, continuations run (the event loop), the timeout
  around the store and the overall timeout fire; nothing is assumed of nodes or
  of the store, so `EveryRequestAnswered` does not rest on any answer. For the
  client, the token provider, the connection timeout and the acknowledgement
  timeout come back; nothing is assumed of the gateway.
* `AgentSpec`: the requests of the model router proceed: a provider answers or
  its call fails, a sleep ends. `RequestsEnd` does not assume that any attempt
  succeeds.

`CHECK_DEADLOCK FALSE` is set everywhere: each of these systems may really come
to rest (all connections used, all delegations done, bounds reached).

## 5. Proofs

All proofs are about the same modules TLC runs and from their named
assumptions only; they hold for any sets of nodes, connections, keys, requests
and so on, and for every size and limit. The assumptions (one `ASSUME` per
module, named after it) are of two kinds: that a name for "nothing" is not
itself a node, a request, a prompt or an identity, and that constants have their
domains (limits are numbers, thresholds and capacities are positive, keys,
connects and children are finitely many, durations are natural numbers, every
provider of the router has a key): what the source validates, or its types say.

A theorem is of the form `Spec => []P`, for the component's own specification.
Where a property of a run joins two components, the theorem is about
the conjunction of their specifications in `SideBySide`.

### 5.1 Theorems

Type correctness, each `Spec => []TypeOK` of its component: `TypeCorrect` (of
the gateway in `Gateway_proofs`, of the session manager in
`GatewayState_proofs`), `StoreTypeCorrect`, `WatcherTypeCorrect`,
`ClientTypeCorrect`, `DelegationTypeCorrect`, `PayTypeCorrect`,
`ApprovalsTypeCorrect`, `PermissionTypeCorrect`, `HarnessTypeCorrect`,
`DevServersTypeCorrect`, `BeatTypeCorrect`, `ChannelTypeCorrect`,
`CardsTypeCorrect`, `TaskTypeCorrect`, `GuardTypeCorrect`, `LoopTypeCorrect`,
`AuditTypeCorrect`, `ObserverTypeCorrect`, `MemoryTypeCorrect`,
`PairingTypeCorrect`, `AcpTypeCorrect`, `HooksTypeCorrect`, `LaneTypeCorrect`,
`RouterTypeCorrect`, `PoolTypeCorrect`, `BridgeTypeCorrect`,
`MiningTypeCorrect`; and for all parts together `PartsStayTyped` (of
`MCGatewayParts`) and `AgentStaysTyped` (of `MCAgentParts`).

| module | theorem | property |
|---|---|---|
| `Gateway_proofs` | `NodesAlwaysAgree` | `NodesAgree` |
| | `RoutesStayLive` | `RoutesAreLive` |
| | `StateIsSavable` | `AlwaysSavable` |
| | `AgentsStayResolved` | `AgentsResolve` |
| | `OnlyOwnTeardown` | `NoForeignTeardown` (a step property) |
| | `SessionsFollowManager` | `SessionDiscipline` (a refinement) |
| `GatewayState_proofs` | `TimersAreSafe`, `IdentityIsScoped`, `SessionsStayWhole` | `SessionsAreWhole` and its two halves |
| | `SessionsStayTimed` | `StaysTimed` (a step property) |
| | `IndexIsExact` | `IndexAgrees` |
| | `RoomIsMade` | `MakesRoom` (a step property) |
| | `ConfigStaysCurrent` | `ConfigFollowsFile` |
| | `ClientStaysSound` | `ClientIsSound` |
| | `PartsStayTyped` | `PartsTypeOK` |
| `Traffic_proofs` | `DelegationsStayLive` | `InProgressIsLive` |
| | `CountsStaySafe` | `CountsAreSafe` |
| | `AbortedStaysQuiet` | `AbortedIsQuiet` (a step property) |
| | `PendingStaysInTurn` | `PendingLeavesInTurn` (a step property) |
| | `BuffersStayLaneQueues` | `BuffersAreLaneQueues` (a refinement) |
| `Agent_proofs` | `ChargesStayAccounted` | `ChargesAreAccounted` |
| | `DecisionsStayRemembered` | `DecisionsAreRemembered` |
| | `SavedStaysOnDisk` | `SavedIsOnDisk` |
| | `AgentStaysTyped` | `AgentTypeOK` |
| `Attached_proofs` | `PoolInitialisesOnce` | `OneInitPerKey` |
| | `FullPoolEvicts` | `PoolMaps`, and what `evictLRU` needs of it |
| | `BridgeKeepsHold` | `BridgeHoldsItsClient` |
| | `NothingStaysForgotten` | `NothingIsForgotten` |
| | `HandlersStayed`, `PromptsStaySettled`, `HandlersStaySettled` | `HandlersAreSettled` and its two halves |
| `Services_proofs` | `HeartbeatNeverDies` | `NeverDies` |
| | `BreakersNeverWedge` | `BreakerNeverWedges` |
| | `RequestsAreHeld` | `HeldByProvider` |
| | `ChannelFlagsHeld` | `FlagsAreHeld` |
| | `CacheStaysLru`, `SendsAreHonest`, `RemoteAgentsStaySound` | `RemoteAgentsAreSound` and its two halves |
| | `CountsStayOfChildren`, `LoopsStaySeen`, `GuardsKeepSeeing` | `GuardsSeeTheAgent` and its two halves |
| `Middleware_proofs` | `EventsStayKept` | `EventsAreKept` |
| | `TurnsStayObserved` | `TurnsAreObserved` |
| | `MemoryStaysAnOutbox` | `MemoryIsAnOutbox` (a refinement) |
| | `OrderStaysPending` | `OrderIsPending` |
| | `MinesOnlyTheFrequent` | `MinesTheFrequent` |

`Lists_proofs` holds no theorem of its own but the lemmas several modules need:
what `InsertAt`, `RemoveAt` and `Filtered` do to lengths, elements and order,
and place by place; that two ordered lists of the same elements are equal; the
least element of a set of numbers; and the sum of a function over a finite set.

### 5.2 The arguments

**The gateway's inductive invariant** is
`GInv == TypeOK /\ DownIsEmpty /\ MapInv /\ NodeInv`. None of the properties is
inductive alone. That a connection on record maps to its node needs
`IdsRespected` (a connection, a record or a pending verification only ever
names an id its client registers): otherwise a second id on one connection
could take over a record. `RecordedIsRegistered` is what lets a refused
registration leave the record in place. `NodesAreWhole` needs `DownIsEmpty`,
because `Start` wires the handlers again and must find nothing left over; and
`RoutesAreLive` and `AlwaysSavable` rest on `NodesAreWhole`, since cleanup
decides by the registry what it removes. The proof has one lemma for the
mapping part (`MapStep`) and one for the subsystems (`NodeStep`), each with one
step per action, and lemmas about `CleanupSubsystems` and `CompleteRegister`,
which several actions share. `NoForeignTeardown` then follows for the one
action that closes a connection: if the connection still maps to a node, it is
the one on record, and cleanup touches no other node.

That the gateway implements the session manager needs two facts more, both
invariants: `SessionsWhole` (a session without its node, or a timer without its
session, would make some handler a step the manager has no name for), and
`SavedIdentity` (a checkpoint names identities of sessions it holds). Each
handler is then shown to be one of the manager's steps, or none: a close is a
`Destroy` of at most one session, a sweep one of several, a start a `Restore`.

**Sessions.** Type correctness, `SessionsAreWhole`, and the identity part of it
extended to the snapshot: a restore takes in whatever the snapshot holds.

**Conversations.** Type correctness and `IndexAgrees`; the step property uses
the library's facts on cardinalities: a step that binds a new key at the limit
first removes one.

**Client.** `ClientTypeOK /\ ClientIsSound` is inductive as it stands. The two
steps that carry the argument are the acknowledgement, which resolves the one
waiter whoever installed it, and the close of a socket that is no longer the
client's.

**Configuration.** That the gateway ends up with what the file says takes three
links, each an invariant: what changed in the file is on its way
(`ChangesArrive`), what was read is applied (`GatewayApplies`), and everything
compared is one of the edits (`ReloadsAreEdits`).

**Delegation.** Being in the map must be tied to the phase of the promise: a
waiting delegation has entered a waiter at its node (`WaitingIsEntered`), one
whose store has not answered is not in the map yet (`StoreIsAsked`). The counts
are then covered by what is in the map and not yet counted off
(`CountsAreCovered`), as cardinalities: it is an inequality, because `cancel`
counts off early.

**Lane messages.** The ring is arithmetic modulo its capacity: within one round
no slot is met twice (`SlotsDiffer`), so that an enqueue changes the listed items
at the end, and at the beginning when it drops one (`RingTakes`). The invariant
of a buffer (`BufferIsTrue`) says that its entries are numbered in the order they
are listed, that each is on the lane of its message, and that a lane's counter
counts the slots that hold one of its entries. For the sort it is shown that the
lanes one after another, each filtered from the list, are sorted already; two
lists of the same elements in one strict order are equal, so the sort the code
runs can make nothing else (`DrainIsByPriority`). Every step of the buffers is
then one of `LaneQueue`, and a step of the tracker a stutter.

**The parts together.** A step of `MCGatewayParts` or of `MCAgentParts` is a
step of one part and a stutter of the others, so that its specification implies
that of each part.

**Pay.** The sum of what the ledger took is bounded since every charge has a
turn of its own and found room in the budget when it was asked for; the
invariant says for each pending call what the ledger may have done to it.

**Permissions, approvals.** `CallsAreBounded`, `AnswersAreRecent`,
`EntriesExpire` and `BreakerIsSound` make `PermissionsAreFresh` inductive: an
answer under way is no older than the cache will later say. For the approvals a
load finds its lists empty (`LoadingIsEmpty`), and every flush and list holds
counts that were true when they were written (`FlushesAreCurrent`,
`ListsAreCurrent`).

**Long-running.** Without overlapping calls one save is under way (`OneSave`),
and what it is about to write holds whatever the files do (`SaveIsWhole`); a
crash can cut a file only while it is written (`FilesAreCut`).

**Audit, observer, memory.** What was added is partitioned: the log, the buffer,
a batch under way, and the losses the property names (`BatchesHold`, `Kept`;
`TurnsAreSomewhere`, `BufferIsHandedOver`, `ReflectionsAreFew`). The memory
refines `Outbox` step by step, under an invariant that says of every fact in
which stage it is. The retries of the log recurse over a list in the source;
the recursive function that models it is reasoned about by induction inside a
set, from the well-foundedness of `<` on the natural numbers.

**Pairing.** The codes are listed by age (`CodesInOrder`). `Filtered` is a
recursive function, so that it keeps the order and the elements is shown by
induction in the set of the lengths for which it does.

**Mining.** What the miner finds is compared with a definition that looks at
all sessions at once, for every input: an induction over the length of the
pattern, inside the set of the lengths for which it holds. The fact that carries
it (`EndsAt`) says where the calls left in a projected database begin: at the
earliest place at which the prefix can end in that session, so that it embeds
in the first `h` calls exactly when they reach that place. Looking for one more
item after it gives the earliest end of the longer prefix (`GrowingEnds`); a
session that is dropped has no calls left to look at (`NeverEnds`). So every
prefix is counted in just the sessions that contain it (`GrownIsProjected`), and
none is missed, because a frequent pattern's beginning is frequent
(`WithShorter`, `IsLevel`). The greedy test is right because what it has matched
is the most that embeds in what it has read (`MatchedOf`). The recursive
functions are defined because a step by step construction is
(`IterationIsDefined`).

**Language servers, dev servers, MCP bridge.** The bound on initialisations is
inductive by counting: those `getClient` does not find any more were forgotten
by a `clear`, so a key none is found for has at most `clears` of them under way.
That `evictLRU` finds a server whenever the pool is full (`FullPoolEvicts`) takes
`PoolMaps`: the order of use lists the keys of the clients, each once.
A `stop()` forgets everything there is; it may, because while one waits whatever
runs has a timer, had one, or was spawned meanwhile (`StopsHaveSignalled`). What
a `stop()` signalled never gets a second timer (`StopsAwaitTheirs`), so that when
the first is over the process has ended or was given up; and a server its own
`start()` kills is timed as well (`KillingIsTimed`). A `connect()` of the bridge
that overlapped nothing is the only call under way, and whatever the bridge
holds while a call is under way was installed by one that overlapped it or is
being closed; a close that throws only adds its client to `unclosed`.

**Heartbeat, router, channel.** While the heartbeat runs, a timer is set or a
tick is under way; the step that needs care is `stop` and `start` during one
tick. Every breaker of the router is one that can be left again; a request that
waits has an attempt left to count and calls with a key of its provider
(`RouterTyped`). The invariant
of the WhatsApp channel falls into the connection and the send queue, which
share no variable.

**Remote agents.** The list the cache keeps is the order of last use
(`Agree(entries, used)`), each entry is a card its agent had (`EntryIsTrue`) and
a fetch knows whether the cache was invalidated since (`FetchIsTrue`). A
task's timers are within what they were set to (`TimersAreSet`) and what a call
says is what the agent answered last (`AnswersAreTrue`).

**Guards.** The spawn counts are those of a set of running children: a
completion nobody counted only makes the set smaller, and a sum over the parents
changes by one with a set that does (an induction on cardinality). The windows
of the loop detector are the ends of the histories, so that a property of the
whole session can be read off the window; the arithmetic is that of
`k * c <= n` for cycles of length `c`.

**Editor prompts.** A session that is prompting has a controller whose handler
runs for it, unless it is wedged (`ControllersAreTrue`); a handler belongs to
such a session or to one that is gone (`HandlersAreTrue`); and a signal is
aborted exactly when it was cancelled (`SignalsAreTrue`). Aborting the
controllers of a set of sessions therefore tells exactly their handlers.

**Hooks.** The handlers of an event are ordered by priority and age (`Ahead`),
and an id belongs to one entry of one list (`HooksAreKnown`). An emit under way
is at an entry behind all those it has fired, and two emits share only ids that
are not settled (`EmitsAreTrue`); a handler registered once is listed until its
id is released (`AloneStay`), and a `once` handler still listed has not run, or
was run by an emit that is under way (`RunsAreTrue`). The code removes
and cleans up by loops, here recursive functions, whose values are determined by
induction inside a set (`RemovedOf`, `CleanedOf`); the place `findInsertIndex`
finds exists as the least element of a set.

### 5.3 Only model-checked

* Liveness (`UnreachableIsReaped`, `StartSettles`, `EveryRequestAnswered`,
  `RequestsEnd`): the prover has no rules for fairness or `ENABLED`.

Every other property of a passing run is a theorem. The disagreements of section
6 are counterexamples, which only TLC finds.

## 6. Disagreements with the source

Each has a run TLC ends with a counterexample; the quotations are in
`PROJECT.json`.

1. **`GatewayMapsInverse`.** `completeNodeRegister` (gateway.ts:789) removes the
   old connection's entry before `registry.register` refuses the duplicate. The
   record still names that connection, its frames are now ignored, and its close
   cleans nothing up; the health sweep finally removes the node.
2. **`GatewayRestoreCleanup`.** `fromSnapshot` begins with `dispose()`, which
   clears the transition handlers the constructor registered. After a restart
   from a checkpoint a disconnect no longer cleans the node up.
3. **`DevServersStop`.** SIGKILL is never sent, since `proc.killed` is true after
   SIGTERM: a process that ignores SIGTERM runs on when `stop()` has returned
   and forgotten it.
4. **`DelegationPerNode`.** `cancel` counts a delegation off that its own
   promise counts off again, and the node's limit is exceeded.
5. **`NodeStop`.** `stop()` forgets its controller before the socket reports
   that it closed; the close handler finds no aborted signal and the client
   that was stopped is `reconnecting`, with nothing scheduled.
6. **`LspPoolLimit`.** The pool's limit counts clients that are ready; two keys
   asked for at once pass it both.
7. **`PayExhausted`.** The balance is taken from the ledger's answer and the
   cost of the turn deducted once more: the agent is stopped with money left.
8. **`WhatsAppDisconnect`.** `disconnect()` in the delay of a reconnection does
   nothing, and the channel connects when the delay is over.

Met while modelling, in the models as the code has it, and without a run:

* `ConfigWatcher`: `bindings` removed from the file are never noticed, since only
  the keys of the new content are compared, although gateway.ts:594–602 handles
  it; fields that are objects count as changed at every reload; patterns that do
  not compile make the handler throw after the configuration was taken, so the
  limits after them are not applied.
* Delegation: `tryNode` asks whether the breaker `isOpen`; a half-open one is
  not, so every request is let through, where circuit-breaker.ts:7 has one probe.
* `NodeRegistry`: of two nodes that serve one agent the later registrant leaves;
  the index, "kept in sync automatically" (node-registry.ts:36), forgets the agent
  although the other node serves it.
* `Observer`: the comment on `extractAndStoreObservations` (middleware.ts:366)
  says that the turn buffer is retained on failure. The extractor's failure comes
  back from `safeNexusCall` as an answer without observations, the buffer is
  cleared, and the turns are never observed: they are `unextracted` in the model
  and an exception of `TurnsAreObserved`.
* `Heartbeat`: `stop()` during a tick, `start()` before the tick ends: the tick
  schedules the next one and the first `stop()` goes on waiting.
* `ProcessManager`: `stop()` forgets processes spawned while it waits, and
  returns at once for those that were sent a signal before.
* `McpBridge`: a `connect()` that completes during a `disconnect()` leaves the
  bridge connected without a client; a `close()` that throws leaves a connection
  nobody will close.
* A2A: the timer of a request is cleared when its headers are there, so reading
  the body has no bound; one slow poll fails the whole call; a signal that is
  aborted before a fetch does not abort it; a first answer that needs input is
  only returned by the next poll. A card on its way when its agent is invalidated
  is cached afterwards and served until it expires, although a2a-client.ts:474
  has an invalidation force a new discovery.
* `ProgressFile`: entries in memory are never cut to the window, so each save
  archives the same ones again.
* `LoopDetector`: a window shorter than the threshold never sees outputs repeat.
* `ExecApprovals`: `markClean` after the await loses approvals made meanwhile; a
  failed load starts the counts anew and the next flush writes them over, and so
  does a list made by a command that finds no session.
* Permissions: a half-open breaker lets every check through; calls of an earlier
  session write into the next one's cache and breaker; a progressive grant does
  not stop the pattern `ask` from asking.
* `HookRegistry`: one-shot handlers, which registry.ts:197 says are removed after
  they fired once, run twice under overlapping emits; a removal, by a disposer
  that is late too, takes the first registration of the same handler; a one-shot
  interceptor with an invalid result stays.
* ACP: a prompt without a connection leaves its session busy for ever; nothing
  in the protocol removes a session, so the limit is reached for good; two
  overlapping `connect()` make two streams.
* The gateway acknowledges interrupts that have no subscriber and never sends an
  unacknowledged message again.

## 7. What is not modelled

* Contents: frames, schemas, names, payloads, formatting, rendering, logs.
  Messages and ids are model values.
* Cryptography: a verification succeeds or fails by choice.
* Clock time, except as a counter where durations are compared
  (`ConversationStore`, `PairingGuard`, `AgentCards`, `RemoteTasks`,
  `PermissionChecks`): elsewhere a timer that is armed may fire at any moment,
  so nothing depends on which of two is shorter.
* The disk of the gateway: a checkpoint is saved at once or not at all.
* In `ExecApprovals`, commands that come while the hook of a session's start or
  end is awaited: the engine calls the hooks of a session and its tools in turn.
* In `Delegation`, an accept frame (it changes nothing), a delegation id that is
  requested twice and the records in the store. In `TemplarNode`, user handlers,
  heartbeats and key files.
* Device keys, rate limiter, bindings and frames of the gateway; AG-UI; ACE,
  context and identity middleware; guardrails, collaboration, human delay, voice
  and the other channels; plugins, skills, entity memory. Their state is small
  or private to one call; each is listed with its reason in `PROJECT.json`.
* Most of the repository's lines are error catalogues, schemas, SDK wrappers,
  parsers, prompts and command-line programs, for which a state machine would
  have nothing to say.

## 8. Plan

Done: the gateway, its client, and the parts of the agent of section 2, the
refinements named above and the theorems of section 5.

What would add most next:

1. The composition of `TemplarNode` with `Gateway` over channels that delay
   frames: a client that believes it is connected and a gateway that reaped it.
2. The checkpoint on disk: saves that overtake each other and a rename that
   fails.
3. `DeviceKeyStore`, `ChannelRegistry`, the AG-UI server's connections and the
   distillation of `collaboration`.

## 9. Running the checks

```
tlc -workers 2 -config GatewayRestart.cfg MCGateway.tla
tlapm Gateway_proofs.tla
```

With two workers `AgentParts` takes about four minutes, `GatewayParts` about
one, each other configuration less than a minute and a half. Each module of
proofs takes between twenty seconds and four minutes, all of them about twelve.
