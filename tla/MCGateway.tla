------------------------------- MODULE MCGateway -------------------------------
EXTENDS Gateway, TLC
CONSTANTS n1, n2, c1, c2, c3, a1, ch1, k1, m1, alias

TwoNodes == {n1, n2}
OneNode == {n1}
TwoConns == {c1, c2}
ThreeConns == {c1, c2, c3}

MCAgentIds == [n \in Nodes |-> Agents]
SameId == [c \in Conns |-> {n1}]
OwnId == [c \in Conns |-> IF c = c1 THEN {n1} ELSE {n2}]
LastConnOther == [c \in Conns |-> IF c = c3 THEN {n2} ELSE {n1}]
BothIds == [c \in Conns |-> Nodes]
=============================================================================
