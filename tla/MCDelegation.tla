----------------------------- MODULE MCDelegation -----------------------------
(* Delegations of one node that share their primary; the first may fall     *)
(* back to the node that asks.                                              *)
EXTENDS Delegation, TLC

CONSTANTS asker, n1, d1, d2, d3, d4

TwoNodes == {asker, n1}
MCFrom   == [d \in Delegations |-> asker]
Primary  == [d \in Delegations |-> <<n1>>]
FallbackToSelf == [d \in Delegations |-> IF d = d1 THEN <<n1, asker>> ELSE <<n1>>]
(* Without a store.                                                         *)
DirectInit == DelegationInit /\ ~useStore
DirectSpec == DirectInit /\ [][DelegationNext]_delegationVars
=============================================================================
