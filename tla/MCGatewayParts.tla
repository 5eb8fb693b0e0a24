----------------------------- MODULE MCGatewayParts -----------------------------
(***************************************************************************)
(* The parts of the gateway that Gateway abstracts from, and the client of *)
(* the gateway, in detail.  They do not depend on one another: part says   *)
(* which one moves.                                                        *)
(***************************************************************************)
EXTENDS SessionManager, ConversationStore, TemplarNode, Delegation, ConfigWatcher,
        LaneMessages, TLC

CONSTANTS n1, n2, m1, m2, m3, m4, d1, d2

VARIABLES part

-----------------------------------------------------------------------------
MCMaxSeq == n1 :> 1 @@ n2 :> 3
MCLanes  == m1 :> "collect" @@ m2 :> "steer" @@ m3 :> "interrupt" @@ m4 :> "collect"

(* Two delegations of n1 to n2, the first with n1 itself to fall back on.    *)
MCFrom  == [d \in {d1, d2} |-> n1]
MCRoute == (d1 :> <<n2, n1>> @@ d2 :> <<n2>>)

MCConfig(port, dmScope, l, patterns) ==
  [port |-> port, scope |-> dmScope, limit |-> l, bindings |-> patterns]

(* Everything changes at once but the patterns, patterns come, go, change    *)
(* and are bad, and for a while the file is no configuration.               *)
MCInitial  == MCConfig(1, "main", 1, "b1")
MCVersions == {NotAConfig,
               MCConfig(1, "main", 2, "b1"), MCConfig(2, "peer", 1, "none"),
               MCConfig(1, "main", 2, "bad"), MCConfig(1, "peer", 1, "b2")}

-----------------------------------------------------------------------------
PartsInit ==
  /\ Init /\ StoreInit /\ ClientInit /\ LaneInit /\ DelegationInit /\ WatcherInit
  /\ part \in {"sessions", "conversations", "client", "lane messages", "delegations",
               "configuration"}
  /\ part # "conversations" => limit = CHOOSE l \in Limits : TRUE
  /\ part # "delegations" => useStore

PartsNext ==
  /\ \/ part = "sessions"      /\ Next
     \/ part = "conversations" /\ StoreNext
     \/ part = "client"        /\ ClientNext
     \/ part = "lane messages" /\ LaneNext
     \/ part = "delegations"   /\ DelegationNext
     \/ part = "configuration" /\ WatcherNext
  /\ part # "sessions"      => UNCHANGED vars
  /\ part # "conversations" => UNCHANGED storeVars
  /\ part # "client"        => UNCHANGED nodeVars
  /\ part # "lane messages" => UNCHANGED laneVars
  /\ part # "delegations"   => UNCHANGED delegationVars
  /\ part # "configuration" => UNCHANGED configVars
  /\ UNCHANGED part

partsVars ==
  <<part, vars, storeVars, nodeVars, laneVars, delegationVars, configVars>>

(* The client's providers and timers answer; the continuations of a          *)
(* delegation run and its timers fire.                                      *)
ClientAnswers(a) ==
  /\ part = "client" /\ Answers(a)
  /\ UNCHANGED <<part, vars, storeVars, laneVars, delegationVars, configVars>>
OfDelegations(step) ==
  /\ part = "delegations" /\ step
  /\ UNCHANGED <<part, vars, storeVars, nodeVars, laneVars, configVars>>

PartsFairness ==
  /\ \A a \in 1..MaxCalls : WF_partsVars(ClientAnswers(a))
  /\ \A d \in {d1, d2} : /\ WF_partsVars(OfDelegations(Continues(d)))
                         /\ WF_partsVars(OfDelegations(StoreAnswers(d)))
                         /\ WF_partsVars(OfDelegations(Expires(d)))

PartsSpec == PartsInit /\ [][PartsNext]_partsVars /\ PartsFairness

-----------------------------------------------------------------------------
(* Every part keeps its types.                                              *)
PartsTypeOK ==
  /\ TypeOK /\ StoreTypeOK /\ ClientTypeOK /\ LaneTypeOK /\ DelegationTypeOK
  /\ WatcherTypeOK
=============================================================================
