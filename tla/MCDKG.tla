------------------------------- MODULE MCDKG -------------------------------
(* Instances of DKG for TLC.                                               *)
EXTENDS DKGInvariant, TLC

\* Values published to one peer, up to exchanging the names of the
\* polynomials: the hash is of the own commitments, with the own public keys
\* or others; the reveal is the hashed one or has other commitments.  An early
\* reveal meets no hash to be compared with.
HashOwn == {b \in Behaviour : /\ b.hash.commitments = Own
                              /\ b.reveal.commitments = Own => b.reveal = b.hash
                              /\ b.reveal.commitments # Own => b.reveal.pubKey = Own /\ ~b.early}

\* What is wrong about them.
Wrong(b) == {x \in {"key", "reveal", "share", "early"} :
                \/ x = "key" /\ b.hash # OwnReveal
                \/ x = "reveal" /\ b.reveal # b.hash
                \/ x = "share" /\ b.share # Own
                \/ x = "early" /\ b.early}

\* At most one thing, and not the public keys, on which no branch of the code
\* depends.
OneFault == {b \in HashOwn : "key" \notin Wrong(b) /\ Cardinality(Wrong(b)) <= 1}

\* One kind of fault only, towards any of the peers.
WrongShare == {b \in HashOwn : Wrong(b) \subseteq {"share"}}
WrongReveal == {b \in HashOwn : Wrong(b) \subseteq {"reveal"}}
WrongKey == {b \in HashOwn : Wrong(b) \subseteq {"key"}}

HonestSymmetry == Permutations(Honest)
=============================================================================
