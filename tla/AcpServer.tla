------------------------------- MODULE AcpServer --------------------------------
(***************************************************************************)
(* The sessions of the ACP server (packages/acp/src/server.ts over         *)
(* session.ts): an editor opens sessions and prompts them, one prompt of a *)
(* session at a time.  The transport's close() closes no stream, so the    *)
(* requests of an earlier connection are still served after disconnect().  *)
(***************************************************************************)
EXTENDS FiniteSets, Naturals

CONSTANTS
  SessionIds,       \* a new session takes an id that was never used
  maxSessions,
  Connects,         \* calls of connect()
  Prompts           \* requests to prompt; a handler runs for each

ASSUME AcpAssumption ==
  /\ maxSessions \in Nat \ {0} /\ IsFiniteSet(Connects)
  /\ "none" \notin SessionIds /\ "no prompt" \notin Prompts

NoPrompt == "no prompt"
NoHandler == [session |-> "none", aborted |-> FALSE]

VARIABLES
  acpConnects,         \* call -> "idle", "importing", "done" or "refused"
  serverConnected,
  acpConnection,       \* whether the server has one
  transportClosed,
  streams,          \* streams there are; none is ever closed
  acpSessions,      \* id -> "unused", "idle", "prompting" or "gone"
  controllerOf,     \* id -> the prompt whose controller the session has
  handling,         \* prompt -> the session its handler runs for, and its signal
  prompted,         \* prompts there have been
  cancelled,        \* history: prompts running when their session was cancelled
  wedged            \* history: sessions prompted when there was no connection

connectionVars == <<acpConnects, serverConnected, acpConnection, transportClosed, streams>>
promptVars == <<acpSessions, controllerOf, handling, prompted, cancelled, wedged>>
acpVars == <<connectionVars, promptVars>>

AcpInit ==
  /\ acpConnects = [c \in Connects |-> "idle"]
  /\ serverConnected = FALSE /\ acpConnection = FALSE /\ transportClosed = FALSE
  /\ streams = 0
  /\ acpSessions = [s \in SessionIds |-> "unused"]
  /\ controllerOf = [s \in SessionIds |-> NoPrompt]
  /\ handling = [p \in Prompts |-> NoHandler]
  /\ prompted = {} /\ cancelled = {} /\ wedged = {}

OpenSessions == {s \in SessionIds : acpSessions[s] \in {"idle", "prompting"}}
HandlersOf(s) == {p \in Prompts : handling[p].session = s}

-----------------------------------------------------------------------------
(* connect(), which imports the SDK before it makes a stream; two calls may *)
(* both find the server unconnected.                                        *)
ConnectEditor(c) ==
  /\ acpConnects[c] = "idle"
  /\ acpConnects' = [acpConnects EXCEPT ![c] = IF serverConnected THEN "done" ELSE "importing"]
  /\ UNCHANGED <<serverConnected, acpConnection, transportClosed, streams, promptVars>>

Imported(c) ==
  /\ acpConnects[c] = "importing"
  /\ acpConnects' = [acpConnects EXCEPT ![c] = IF transportClosed THEN "refused" ELSE "done"]
  /\ IF transportClosed THEN UNCHANGED <<serverConnected, acpConnection, streams>>
     ELSE serverConnected' = TRUE /\ acpConnection' = TRUE /\ streams' = streams + 1
  /\ UNCHANGED <<transportClosed, promptVars>>

(* AbortController.abort() of the prompts of some sessions.                 *)
Aborted(S) ==
  /\ handling' = [p \in Prompts |->
       IF handling[p] # NoHandler /\ \E s \in S : controllerOf[s] = p
       THEN [handling[p] EXCEPT !.aborted = TRUE] ELSE handling[p]]
  /\ cancelled' = cancelled \union UNION {HandlersOf(s) : s \in S}

DisconnectEditor ==
  /\ serverConnected
  /\ serverConnected' = FALSE /\ acpConnection' = FALSE /\ transportClosed' = TRUE
  /\ Aborted(OpenSessions)
  /\ acpSessions' = [s \in SessionIds |->
       IF s \in OpenSessions THEN "gone" ELSE acpSessions[s]]
  /\ controllerOf' = [s \in SessionIds |-> NoPrompt]
  /\ UNCHANGED <<acpConnects, streams, prompted, wedged>>

-----------------------------------------------------------------------------
NewSession(s) ==
  /\ streams > 0 /\ acpSessions[s] = "unused"
  /\ Cardinality(OpenSessions) < maxSessions
  /\ acpSessions' = [acpSessions EXCEPT ![s] = "idle"]
  /\ UNCHANGED <<connectionVars, controllerOf, handling, prompted, cancelled, wedged>>

(* startPrompt, then the context, which needs the connection: without one   *)
(* the request fails and nothing ends the prompt.                           *)
PromptAnyway(p, s) ==      \* mutant: a prompt under way is no obstacle
  /\ p \notin prompted /\ s \in OpenSessions
  /\ prompted' = prompted \union {p}
  /\ acpSessions' = [acpSessions EXCEPT ![s] = "prompting"]
  /\ controllerOf' = [controllerOf EXCEPT ![s] = p]
  /\ IF acpConnection
     THEN /\ handling' = [handling EXCEPT ![p] = [session |-> s, aborted |-> FALSE]]
          /\ UNCHANGED wedged
     ELSE wedged' = wedged \union {s} /\ UNCHANGED handling
  /\ UNCHANGED <<connectionVars, cancelled>>

Prompt(p, s) ==
  /\ p \notin prompted /\ acpSessions[s] = "idle"
  /\ prompted' = prompted \union {p}
  /\ acpSessions' = [acpSessions EXCEPT ![s] = "prompting"]
  /\ controllerOf' = [controllerOf EXCEPT ![s] = p]
  /\ IF acpConnection
     THEN /\ handling' = [handling EXCEPT ![p] = [session |-> s, aborted |-> FALSE]]
          /\ UNCHANGED wedged
     ELSE wedged' = wedged \union {s} /\ UNCHANGED handling
  /\ UNCHANGED <<connectionVars, cancelled>>

Cancel(s) ==
  /\ controllerOf[s] # NoPrompt
  /\ Aborted({s})
  /\ UNCHANGED <<connectionVars, acpSessions, controllerOf, prompted, wedged>>

(* The handler returns or throws; endPrompt.                                *)
PromptEndsGone(p) ==       \* mutant: endPrompt takes any session it finds
  /\ handling[p] # NoHandler
  /\ handling' = [handling EXCEPT ![p] = NoHandler]
  /\ cancelled' = cancelled \ {p}
  /\ LET s == handling[p].session IN
     /\ acpSessions' = [acpSessions EXCEPT ![s] = "idle"]
     /\ controllerOf' = [controllerOf EXCEPT ![s] = NoPrompt]
  /\ UNCHANGED <<connectionVars, prompted, wedged>>

PromptEnds(p) ==
  /\ handling[p] # NoHandler
  /\ handling' = [handling EXCEPT ![p] = NoHandler]
  /\ cancelled' = cancelled \ {p}
  /\ LET s == handling[p].session IN
     /\ acpSessions' = [acpSessions EXCEPT ![s] = IF @ = "gone" THEN "gone" ELSE "idle"]
     /\ controllerOf' = [controllerOf EXCEPT ![s] = NoPrompt]
  /\ UNCHANGED <<connectionVars, prompted, wedged>>

AcpNext ==
  \/ \E c \in Connects : ConnectEditor(c) \/ Imported(c)
  \/ \E s \in SessionIds : \/ NewSession(s) \/ Cancel(s)
                           \/ \E p \in Prompts : Prompt(p, s)
  \/ \E p \in Prompts : PromptEnds(p)
  \/ DisconnectEditor

AcpSpec == AcpInit /\ [][AcpNext]_acpVars

-----------------------------------------------------------------------------
AcpTypeOK ==
  /\ acpSessions \in [SessionIds -> {"unused", "idle", "prompting", "gone"}]
  /\ controllerOf \in [SessionIds -> Prompts \union {NoPrompt}]
  /\ handling \in [Prompts -> [session : SessionIds \union {"none"}, aborted : BOOLEAN]]
  /\ streams \in 0..Cardinality(Connects)
  /\ serverConnected <=> acpConnection
  /\ serverConnected => streams > 0

(* An open session is busy exactly while one handler runs for it, unless it *)
(* was prompted without a connection: then it is busy for ever.  A handler  *)
(* knows when it was cancelled or its session is gone, and only then.       *)
PromptsAreSettled ==
  /\ \A s \in OpenSessions \ wedged :
       /\ Cardinality(HandlersOf(s)) <= 1
       /\ acpSessions[s] = "prompting" <=> HandlersOf(s) # {}
  /\ \A p \in Prompts : handling[p].aborted <=> p \in cancelled
  /\ \A s \in SessionIds \ OpenSessions : \A p \in HandlersOf(s) : handling[p].aborted
  /\ Cardinality(OpenSessions) <= maxSessions
=============================================================================
