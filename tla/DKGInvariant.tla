---------------------------- MODULE DKGInvariant ----------------------------
(***************************************************************************)
(* The inductive invariant behind the safety properties of DKG.  It has    *)
(* one part per CA (what its maps say about each other) and one per        *)
(* connection (what is in flight, against what its receiver already        *)
(* holds).                                                                 *)
(***************************************************************************)
EXTENDS DKG

Has(q, type) == \E k \in 1..Len(q) : q[k].type = type

(* One CA: i with state s, main thread at m and connections ch.            *)

MapsAgree(i, s) ==
    /\ s.disqualifiedIds \cap Honest = {}
    /\ s.hashCount = Cardinality(Keys(s.receivedHashes))
    /\ \A q \in Honest \cup {i} : s.receivedHashes[q] \in {None, hashCommitments(OwnReveal)}
    /\ \A q \in CA : s.receivedCommitments[q] # None =>
          s.receivedHashes[q] = hashCommitments(s.receivedCommitments[q])
    /\ \A q \in CA : s.receivedSecretShares[q] # None =>
          s.receivedCommitments[q] # None /\ verifyShare(s.receivedSecretShares[q], s.receivedCommitments[q])

KeyOK(s) ==
    \A q \in CA :
        /\ s.key.share[q] = None <=> s.key.mpk[q] = None
        /\ s.key.mpk[q] # None =>
              \E r \in Reveals : /\ Backs(r, s.key.share[q], s.key.mpk[q])
                                 /\ s.receivedHashes[q] = hashCommitments(r)
        /\ q \in Honest => s.key.mpk[q] = Own

PhaseOK(i, s, m) ==
    /\ m \in {"down", "sleeping"} => s.state = "AWAITING_HASHES" /\ s.receivedHashes[i] = None
    /\ s.state # "AWAITING_HASHES" =>
          /\ \A q \in CA : s.receivedHashes[q] # None
          /\ s.receivedCommitments[i] = OwnReveal
          /\ s.connectedPeerIds = Peers(i)
    /\ m \notin {"down", "sleeping", "crashed"} /\ s.state # "DONE" => s.secretCoefficients
    /\ s.state = "DONE" => KeyOK(s)

ConnectedOK(i, s, ch) == s.connectedPeerIds = {j \in Peers(i) : ch[j] = "up"}

(* One connection: from j to i, with q in flight, h and c what i holds of  *)
(* j's hash and commitments.                                               *)

InFlightOK(j, q, h, c) ==
    \A k \in 1..Len(q) :
        /\ q[k].type = "complaint" => q[k].body \notin Honest
        /\ q[k].type = "hash" => h = None /\ \A l \in 1..Len(q) : q[l].type = "hash" => l = k
        /\ j \in Honest =>
              /\ q[k].type = "hash" => q[k].body = hashCommitments(OwnReveal)
              /\ q[k].type = "reveal" => q[k].body = OwnReveal
              /\ q[k].type = "share" => q[k].body = Own
              /\ q[k].type = "reveal" => h # None \/ \E l \in 1..(k - 1) : q[l].type = "hash"
              /\ q[k].type = "share" => c # None \/ \E l \in 1..(k - 1) : q[l].type = "reveal"

SentOK(j, q, h, c, st, m, ch) ==
    /\ ch # "up" => h = None /\ ~Has(q, "hash")
    /\ m # "crashed" /\ ch = "up" => h # None \/ Has(q, "hash")
    /\ m # "crashed" /\ st # "AWAITING_HASHES" /\ j \in Honest => c # None \/ Has(q, "reveal")

CAOK(i) == MapsAgree(i, ca[i]) /\ PhaseOK(i, ca[i], main[i]) /\ ConnectedOK(i, ca[i], chan[i])

LinkOK(j, i) ==
    LET q == ca[j].out[i]
        h == ca[i].receivedHashes[j]
        c == ca[i].receivedCommitments[j]
    IN  InFlightOK(j, q, h, c) /\ SentOK(j, q, h, c, ca[j].state, main[j], chan[j][i])

\* No connection is opened before startDKG is.
ThreadsOK(i) == main[i] \in {"down", "sleeping", "putting"} => chan[i] = [j \in CA |-> "closed"]

\* Every CA's maps agree with one another, and every connection carries, in
\* order, just what its receiver does not hold yet.
DKGInv ==
    /\ TypeOK
    /\ \A i \in Honest, j \in CA : says[i][j] = HonestBehaviour
    /\ \A i \in CA : CAOK(i) /\ ThreadsOK(i)
    /\ \A j \in CA : \A i \in Peers(j) : LinkOK(j, i)
=============================================================================
