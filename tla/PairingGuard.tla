------------------------------ MODULE PairingGuard ------------------------------
(***************************************************************************)
(* The guard of direct messages (packages/pairing/src/pairing-guard.ts).   *)
(*                                                                         *)
(* A peer is a pair of a channel and a sender.  A code is drawn at random: *)
(* the model draws one that was not drawn before (the code has 32^length   *)
(* of them).  Loading the approved peers awaits Nexus page by page; all    *)
(* else is synchronous.                                                    *)
(***************************************************************************)
EXTENDS Lists, FiniteSets

CONSTANTS
  Codes,                \* bound on the codes that are drawn
  Senders, AllChannels,
  Capacities,           \* values of maxPendingCodes a configuration may have
  MaxPairAttempts, ExpiryMs,
  MaxPairingTime        \* bound on the clock

(* As validatePairingConfig has them.                                       *)
ASSUME PairingAssumption ==
  /\ Capacities \subseteq Nat \ {0}
  /\ MaxPairAttempts \in Nat \ {0} /\ ExpiryMs \in Nat \ {0} /\ MaxPairingTime \in Nat

VARIABLES
  channelSet,           \* the channels of the configuration, none if disabled
  maxPendingCodes,
  approvedPeers,
  pendingCodes,         \* code -> createdAt
  pendingCodeOrder,
  rateLimits,           \* peer -> attempts, windowStart
  loading,              \* newApproved of a load under way
  loads,                \* whether there is one
  stored,               \* the peers in Nexus (external)
  drawn,                \* codes generated so far
  pairingNow

pairingVars == <<channelSet, maxPendingCodes, approvedPeers, pendingCodes, pendingCodeOrder,
          rateLimits, loading, loads, stored, drawn, pairingNow>>

Peers == AllChannels \X Senders

(* A map without some of its keys.                                          *)
Less(f, keys) == [x \in DOMAIN f \ keys |-> f[x]]
With(f, x, v) == [y \in DOMAIN f \union {x} |-> IF y = x THEN v ELSE f[y]]

PairingInit ==
  /\ channelSet \in {{}, AllChannels} /\ maxPendingCodes \in Capacities
  /\ approvedPeers = {} /\ pendingCodes = <<>> /\ pendingCodeOrder = <<>>
  /\ rateLimits = <<>>
  /\ loading = {} /\ loads = FALSE
  /\ stored \in {{p} : p \in Peers}
  /\ drawn = {} /\ pairingNow = 0

-----------------------------------------------------------------------------
(* generateCode: at capacity, the head of the order gives way.              *)
generateCode ==
  \E code \in Codes \ drawn :
    LET full == Cardinality(DOMAIN pendingCodes) >= maxPendingCodes /\ pendingCodeOrder # <<>>
        gone == IF full THEN {Head(pendingCodeOrder)} ELSE {}
    IN
    /\ drawn' = drawn \union {code}
    /\ pendingCodes' = With(Less(pendingCodes, gone), code, pairingNow)
    /\ pendingCodeOrder' =
         Append(IF full THEN Tail(pendingCodeOrder) ELSE pendingCodeOrder, code)
    /\ UNCHANGED <<channelSet, maxPendingCodes, approvedPeers, rateLimits, loading, loads,
                   stored, pairingNow>>

WithinWindow(peer) == peer \in DOMAIN rateLimits /\ pairingNow <= rateLimits[peer].windowStart + ExpiryMs

isRateLimited(peer) == WithinWindow(peer) /\ rateLimits[peer].attempts >= MaxPairAttempts

incrementRateLimit(peer) ==
  rateLimits' = With(rateLimits, peer,
    IF WithinWindow(peer) THEN [rateLimits[peer] EXCEPT !.attempts = @ + 1]
    ELSE [attempts |-> 1, windowStart |-> pairingNow])

Expired(code) == pairingNow > pendingCodes[code] + ExpiryMs

PairKeepsOrder(peer, code) ==   \* mutant: the consumed code stays in the order
  /\ approvedPeers' = approvedPeers \union {peer}
  /\ pendingCodes' = Less(pendingCodes, {code})
  /\ rateLimits' = Less(rateLimits, {peer})
  /\ UNCHANGED pendingCodeOrder

(* A valid code is consumed, and its sender is approved, on whatever channel*)
(* of the configuration it was sent.                                        *)
Pair(peer, code) ==
  /\ approvedPeers' = approvedPeers \union {peer}
  /\ pendingCodes' = Less(pendingCodes, {code})
  /\ pendingCodeOrder' = Filtered(pendingCodeOrder, {code})
  /\ rateLimits' = Less(rateLimits, {peer})

(* checkSender, with a code in the message.  It changes nothing for other   *)
(* channels, approved and limited peers, and messages without a code.       *)
checkSender(peer, code) ==
  /\ peer[1] \in channelSet /\ peer \notin approvedPeers /\ ~isRateLimited(peer)
  /\ \/ /\ code \in DOMAIN pendingCodes /\ ~Expired(code)
        /\ Pair(peer, code)
     \/ /\ code \in DOMAIN pendingCodes => Expired(code)
        /\ incrementRateLimit(peer)
        /\ UNCHANGED <<approvedPeers, pendingCodes, pendingCodeOrder>>
  /\ UNCHANGED <<channelSet, maxPendingCodes, loading, loads, stored, drawn, pairingNow>>

-----------------------------------------------------------------------------
(* loadApprovedPeers copies the peers there are, awaits pages, and then puts*)
(* its copy in place of whatever there is by then; a page may fail.         *)
LoadBegins ==
  /\ ~loads
  /\ loads' = TRUE /\ loading' = approvedPeers
  /\ UNCHANGED <<channelSet, maxPendingCodes, approvedPeers, pendingCodes, pendingCodeOrder,
                 rateLimits, stored, drawn, pairingNow>>

LoadPage ==
  /\ loads
  /\ \/ \E page \in SUBSET stored :
          \/ page # {} /\ loading' = loading \union page /\ UNCHANGED <<approvedPeers, loads>>
          \/ approvedPeers' = loading \union page /\ loads' = FALSE /\ loading' = {}
     \/ loads' = FALSE /\ loading' = {} /\ UNCHANGED approvedPeers
  /\ UNCHANGED <<channelSet, maxPendingCodes, pendingCodes, pendingCodeOrder, rateLimits,
                 stored, drawn, pairingNow>>

(* revokePeer, whose call to Nexus may be left out or fail.                 *)
revokePeer(peer) ==
  /\ peer \in approvedPeers
  /\ approvedPeers' = approvedPeers \ {peer}
  /\ stored' \in {stored, stored \ {peer}}
  /\ UNCHANGED <<channelSet, maxPendingCodes, pendingCodes, pendingCodeOrder, rateLimits,
                 loading, loads, drawn, pairingNow>>

(* sweep, on the health monitor's cycle.                                    *)
sweep ==
  LET expired == {c \in DOMAIN pendingCodes : Expired(c)} IN
  /\ pendingCodes' = Less(pendingCodes, expired)
  /\ pendingCodeOrder' = Filtered(pendingCodeOrder, expired)
  /\ rateLimits' = Less(rateLimits, {p \in DOMAIN rateLimits : ~WithinWindow(p)})
  /\ UNCHANGED <<channelSet, maxPendingCodes, approvedPeers, loading, loads, stored, drawn,
                 pairingNow>>

updateConfig ==
  /\ channelSet' \in {{}, AllChannels} /\ maxPendingCodes' \in Capacities
  /\ UNCHANGED <<approvedPeers, pendingCodes, pendingCodeOrder, rateLimits, loading, loads,
                 stored, drawn, pairingNow>>

PairingTick ==
  /\ pairingNow < MaxPairingTime
  /\ pairingNow' = pairingNow + 1
  /\ UNCHANGED <<channelSet, maxPendingCodes, approvedPeers, pendingCodes, pendingCodeOrder,
                 rateLimits, loading, loads, stored, drawn>>

PairingNext ==
  \/ generateCode \/ LoadBegins \/ LoadPage \/ sweep \/ updateConfig \/ PairingTick
  \/ \E p \in Peers : revokePeer(p) \/ \E c \in Codes : checkSender(p, c)

PairingSpec == PairingInit /\ [][PairingNext]_pairingVars

-----------------------------------------------------------------------------
(* The variables keep their types.                                          *)
PairingTypeOK ==
  /\ channelSet \subseteq AllChannels /\ maxPendingCodes \in Capacities
  /\ approvedPeers \subseteq Peers /\ loading \subseteq Peers /\ stored \subseteq Peers
  /\ DOMAIN pendingCodes \subseteq drawn /\ drawn \subseteq Codes
  /\ \A p \in DOMAIN rateLimits : p \in Peers /\ rateLimits[p].attempts \in 1..MaxPairAttempts
  /\ loads \in BOOLEAN /\ pairingNow \in 0..MaxPairingTime

(* The order that picks the code to evict is kept beside the codes by four  *)
(* operations: it lists each pending code once, the oldest first, so that   *)
(* their number stays within the largest capacity configured.               *)
OrderIsPending ==
  /\ \A c \in DOMAIN pendingCodes : \E i \in DOMAIN pendingCodeOrder : pendingCodeOrder[i] = c
  /\ Len(pendingCodeOrder) = Cardinality(DOMAIN pendingCodes)
  /\ \A i, j \in DOMAIN pendingCodeOrder :
       i < j => pendingCodes[pendingCodeOrder[i]] <= pendingCodes[pendingCodeOrder[j]]
  /\ \E most \in Capacities : Cardinality(DOMAIN pendingCodes) <= most
================================================================================
