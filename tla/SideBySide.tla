-------------------------------- MODULE SideBySide --------------------------------
(***************************************************************************)
(* Parts of an agent's process that have a promise in common and no state: *)
(* each is specified in its own module, and here they are side by side.    *)
(***************************************************************************)
EXTENDS DevServers, McpBridge, ExecApprovals, PermissionChecks, AgentCards, RemoteTasks,
        HookRegistry, AcpServer, SpawnGuard, LoopDetector

(* The programs an agent starts or connects to for its tools: a dev server  *)
(* or a connection to an MCP server is left behind only in the ways each    *)
(* names: a server that outlived its signal or was spawned during a stop(), *)
(* a connect() that overlapped another call, a close() that threw.          *)
ToolServersSpec == DevServersSpec /\ BridgeSpec
NothingIsForgotten == NoneForgotten /\ BridgeHoldsItsClient

(* What was allowed is remembered: the approvals of commands are counted,   *)
(* and no answer of Nexus is believed for too long.                         *)
DecisionsSpec == ExecSpec /\ PermissionSpec
DecisionsAreRemembered == ApprovalsAreCounted /\ PermissionsAreFresh

(* The cards of remote agents are kept by their use, and not past an        *)
(* invalidation; and a call that waits for a remote task ends as it says.   *)
RemoteAgentsSpec == CardsSpec /\ TaskSpec
RemoteAgentsAreSound == CacheIsLru /\ SendIsHonest

(* The handlers of hooks and of prompts are where they should be: a hook's  *)
(* handler that is registered once stays until it is removed or has run,    *)
(* and a session is busy while its handler runs, unless a prompt after a    *)
(* disconnect() wedged it.                                                  *)
HandlersSpec == HooksSpec /\ AcpSpec
HandlersAreSettled == HandlersStay /\ PromptsAreSettled

(* The guards of the engine see the agent as it is: its children and loops. *)
GuardsSpec == GuardSpec /\ LoopSpec
GuardsSeeTheAgent == CountsAreOfChildren /\ LoopsAreSeen
================================================================================
