-------------------------------- MODULE McpBridge --------------------------------
(***************************************************************************)
(* The life of McpBridge (packages/mcp/src/bridge/mcp-bridge.ts): every    *)
(* connect() that finds the bridge unconnected makes a client of its own   *)
(* and installs it once the handshake is done, whatever happened to the    *)
(* bridge meanwhile; disconnect() forgets the client the bridge has when   *)
(* the close is over, which need not be the one it closed, and closed or   *)
(* not: a close() that throws leaves its connection as it is.              *)
(***************************************************************************)
EXTENDS FiniteSets, Naturals

CONSTANTS
  Clients,          \* calls of connect(), and the client each makes
  MaxDisconnects    \* bound on the calls of disconnect()

NoClient == "no client"

ASSUME ClientsAssumption == NoClient \notin Clients /\ MaxDisconnects \in Nat

VARIABLES
  bridgeConnected, client,
  connects,         \* call -> "idle", "transport", "handshake" or "done"
  open,             \* clients with a connection to the server
  exitHandler,      \* whose exit handler the bridge would remove
  listeners,        \* clients whose exit handler listens
  closing,          \* clients whose close() is awaited
  disconnects,      \* calls of disconnect() that did something
  overlapped,       \* history: connect() calls that met another call
  unclosed          \* history: clients whose close() threw

exits == <<exitHandler, listeners>>
bridgeVars ==
  <<bridgeConnected, client, connects, open, exits, closing, disconnects, overlapped,
    unclosed>>

BridgeInit ==
  /\ bridgeConnected = FALSE /\ client = NoClient
  /\ connects = [c \in Clients |-> "idle"]
  /\ exitHandler = NoClient /\ open = {} /\ listeners = {} /\ closing = {}
  /\ disconnects = 0 /\ overlapped = {} /\ unclosed = {}

Connecting == {c \in Clients : connects[c] \in {"transport", "handshake"}}

-----------------------------------------------------------------------------
(* connect(): an answer at once when connected, else a transport, then the  *)
(* handshake; either of them may fail.                                      *)
BridgeConnect(c) ==
  /\ connects[c] = "idle"
  /\ connects' = [connects EXCEPT ![c] = IF bridgeConnected THEN "done" ELSE "transport"]
  /\ overlapped' = overlapped \union
       (IF bridgeConnected \/ Connecting \union closing = {} THEN {}
        ELSE Connecting \union {c})
  /\ UNCHANGED <<bridgeConnected, client, open, exits, closing, disconnects, unclosed>>

TransportMade(c) ==
  /\ connects[c] = "transport"
  /\ connects' = [connects EXCEPT ![c] = "handshake"]
  /\ UNCHANGED <<bridgeConnected, client, open, exits, closing, disconnects, overlapped,
                 unclosed>>

Connected(c) ==
  /\ connects[c] = "handshake"
  /\ connects' = [connects EXCEPT ![c] = "done"]
  /\ client' = c
  /\ bridgeConnected' = TRUE
  /\ open' = open \union {c}
  /\ exitHandler' = c
  /\ listeners' = listeners \union {c}
  /\ UNCHANGED <<closing, disconnects, overlapped, unclosed>>

ConnectFails(c) ==
  /\ c \in Connecting
  /\ connects' = [connects EXCEPT ![c] = "done"]
  /\ UNCHANGED <<bridgeConnected, client, open, exits, closing, disconnects, overlapped,
                 unclosed>>

-----------------------------------------------------------------------------
(* disconnect().                                                            *)
BridgeDisconnectFirst ==        \* mutant: the client is forgotten, then closed
  /\ bridgeConnected /\ disconnects < MaxDisconnects
  /\ disconnects' = disconnects + 1
  /\ bridgeConnected' = FALSE
  /\ exitHandler' = NoClient
  /\ listeners' = listeners \ {exitHandler}
  /\ closing' = closing \union {NoClient} /\ client' = NoClient
  /\ UNCHANGED <<connects, open, overlapped, unclosed>>

BridgeDisconnect ==
  /\ bridgeConnected /\ disconnects < MaxDisconnects
  /\ disconnects' = disconnects + 1
  /\ bridgeConnected' = FALSE
  /\ exitHandler' = NoClient
  /\ listeners' = listeners \ {exitHandler}
  /\ closing' = closing \union {client}
  /\ UNCHANGED <<client, connects, open, overlapped, unclosed>>

(* A close is over, for a client or for none: the bridge has none after it. *)
CloseOverKeeps(c) ==            \* mutant: the bridge keeps the client
  /\ c \in closing
  /\ closing' = closing \ {c}
  /\ UNCHANGED <<bridgeConnected, client, connects, exits, disconnects, overlapped>>

CloseOver(c) ==
  /\ c \in closing
  /\ closing' = closing \ {c}
  /\ client' = NoClient
  /\ UNCHANGED <<bridgeConnected, connects, exits, disconnects, overlapped>>

ClientClosed(c) ==
  /\ CloseOver(c)
  /\ open' = open \ {c}
  /\ UNCHANGED unclosed

(* What close() throws is swallowed.                                        *)
CloseFails(c) ==
  /\ CloseOver(c)
  /\ unclosed' = unclosed \union {c}
  /\ UNCHANGED open

(* The server goes away; the bridge does not notice.                        *)
ServerGone(c) ==
  /\ c \in open
  /\ open' = open \ {c}
  /\ UNCHANGED <<bridgeConnected, client, connects, exits, closing, disconnects,
                 overlapped, unclosed>>

BridgeNext ==
  \/ \E c \in Clients :
       BridgeConnect(c) \/ TransportMade(c) \/ Connected(c) \/ ConnectFails(c)
                        \/ CloseFails(c)
  \/ \E c \in Clients \union {NoClient} : ClientClosed(c)
  \/ BridgeDisconnect \/ \E c \in open : ServerGone(c)

BridgeSpec == BridgeInit /\ [][BridgeNext]_bridgeVars

-----------------------------------------------------------------------------
BridgeTypeOK ==
  /\ bridgeConnected \in BOOLEAN
  /\ connects \in [Clients -> {"idle", "transport", "handshake", "done"}]
  /\ UNION {open, listeners, unclosed, ({client} \union closing) \ {NoClient}}
       \subseteq {c \in Clients : connects[c] = "done"}
  /\ disconnects \in 0..MaxDisconnects

(* A bridge that is disconnected and waits for nothing has no client, and a *)
(* bridge that is connected has one it can use, or installed it while a     *)
(* disconnect() was closing another.  Every open connection belongs to the  *)
(* bridge's client, to one being closed or to a connect() that overlapped   *)
(* another call, or its close() threw: nothing else leaves one without an   *)
(* owner.  And so for the listeners of the process's exit, which a close    *)
(* that throws does not leave behind.                                       *)
BridgeHoldsItsClient ==
  /\ ~bridgeConnected /\ closing = {} => client = NoClient
  /\ bridgeConnected /\ client = NoClient => overlapped # {}
  /\ open \subseteq {client} \union closing \union overlapped \union unclosed
  /\ listeners \subseteq {exitHandler} \union overlapped
=============================================================================
