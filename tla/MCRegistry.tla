----------------------------- MODULE MCRegistry -----------------------------
(* Instances of Registry for TLC.                                          *)
EXTENDS Registry

\* Every request with good proofs, and for each node one with each kind of bad
\* proofs: what else is in a request is not looked at then.
MCClaims == {c \in Claim : (c.vrf /\ c.linkage) \/ c.familyIds = {}}
=============================================================================
