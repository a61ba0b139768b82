------------------------------ MODULE MCBridge ------------------------------
(* Instances of Bridge for TLC.                                            *)
EXTENDS Bridge

\* Good requests for every node, and one with bad proofs: what else that one
\* says is not looked at.
Sample == CHOOSE nodeId \in Nodes : TRUE
MCClaims == {c \in Claim : c.good \/ (c.nodeId = Sample /\ c.familyIds = {})}

\* Good requests only.
GoodClaims == {c \in Claim : c.good}
=============================================================================
