-------------------------- MODULE DKGMethodProofs --------------------------
(* What the methods of CAProtocol do to the invariant of DKG, for any set  *)
(* of CAs: the lemmas behind DKGProofs.                                    *)
EXTENDS DKGInvariant, FiniteSetTheorems, TLAPS

-----------------------------------------------------------------------------
(* Messages, hashes and cardinalities.                                     *)

\* Every message of the protocol is one of Messages.
LEMMA MessageTypes ==
    /\ \A c \in Reveals : DKGCommitmentHashMsg(c) \in Messages
    /\ \A c \in Reveals : DKGRevealMsg(c) \in Messages
    /\ \A c \in Contents : DKGShareMsg(c) \in Messages
    /\ \A k \in CA : DKGComplaintMsg(k) \in Messages
BY Zenon DEF Messages

\* The body of a message has the type its handler stores.
LEMMA BodyTypes ==
    ASSUME NEW m \in Messages
    PROVE  /\ m.type = "hash" => m.body \in Hashes
           /\ m.type = "reveal" => m.body \in Reveals
           /\ m.type = "share" => m.body \in Contents
           /\ m.type = "complaint" => m.body \in CA
BY DEF Messages, DKGCommitmentHashMsg, DKGRevealMsg, DKGShareMsg, DKGComplaintMsg, Hashes

\* The own reveal is one, and is never an absent entry; neither is its hash.
LEMMA OwnRevealFacts ==
    /\ OwnReveal \in Reveals /\ OwnReveal.commitments = Own /\ OwnReveal.pubKey = Own
    /\ hashCommitments(OwnReveal) \in Hashes
    /\ None \notin Reveals /\ None \notin Hashes
BY Zenon, ContentsAssumption, HashAssumption DEF OwnReveal, Reveals, Hashes

\* The hash of the commitments binds them.
LEMMA HashInjective ==
    ASSUME NEW c, NEW d, hashCommitments(c) = hashCommitments(d)
    PROVE  c = d
BY Zenon DEF hashCommitments

\* A set of CA identifiers counted n times is all of them.
LEMMA CountIsAll ==
    ASSUME NEW S \in SUBSET CA, Cardinality(S) >= n
    PROVE  S = CA
<1>1. /\ IsFiniteSet(S) /\ Cardinality(S) <= Cardinality(CA)
      /\ Cardinality(S) = Cardinality(CA) => S = CA
  BY Zenon, FS_Subset, CAAssumption
<1>2. Cardinality(S) \in Nat /\ Cardinality(CA) \in Nat
  BY Zenon, <1>1, FS_CardinalityType, CAAssumption
<1> QED BY <1>1, <1>2 DEF n

\* The same for the peers of a CA.
LEMMA CountIsPeers ==
    ASSUME NEW i \in CA, NEW S \in SUBSET Peers(i), Cardinality(S) >= Cardinality(Peers(i))
    PROVE  S = Peers(i)
<1>0. IsFiniteSet(Peers(i))
  BY Zenon, FS_Subset, CAAssumption DEF Peers
<1>1. /\ IsFiniteSet(S) /\ Cardinality(S) <= Cardinality(Peers(i))
      /\ Cardinality(S) = Cardinality(Peers(i)) => S = Peers(i)
  BY Zenon, <1>0, FS_Subset
<1>2. Cardinality(S) \in Nat /\ Cardinality(Peers(i)) \in Nat
  BY Zenon, <1>0, <1>1, FS_CardinalityType
<1> QED BY <1>1, <1>2

-----------------------------------------------------------------------------
(* Type correctness of the methods.                                        *)

\* u is s after one message msg[j] to each j \in P, and is well formed.
Sent(s, u, P, msg) ==
    /\ u \in CAState
    /\ u.state = s.state
    /\ u.connectedPeerIds = s.connectedPeerIds
    /\ u.receivedHashes = s.receivedHashes
    /\ u.hashCount = s.hashCount
    /\ u.disqualifiedIds = s.disqualifiedIds
    /\ u.receivedCommitments = s.receivedCommitments
    /\ u.receivedSecretShares = s.receivedSecretShares
    /\ u.secretCoefficients = s.secretCoefficients
    /\ u.key = s.key
    /\ \A j \in P : u.out[j] = Append(s.out[j], msg[j])
    /\ \A j \in CA \ P : u.out[j] = s.out[j]

\* sendMessage only appends well-formed messages, and changes nothing else.
LEMMA SendType ==
    ASSUME NEW s \in CAState, NEW P \in SUBSET CA, NEW msg \in [CA -> Messages]
    PROVE  Sent(s, Send(s, P, msg), P, msg)
<1> DEFINE o == [j \in CA |-> IF j \in P THEN Append(s.out[j], msg[j]) ELSE s.out[j]]
           u == Send(s, P, msg)
<1>1. o \in [CA -> Seq(Messages)]
  BY DEF CAState
<1>2. /\ \A j \in P : o[j] = Append(s.out[j], msg[j])
      /\ \A j \in CA \ P : o[j] = s.out[j]
  BY Zenon
<1>3. u = [s EXCEPT !.out = o]
  BY Zenon DEF Send
<1> HIDE DEF o, u
<1>4. u \in CAState /\ u.out = o
  BY Zenon, <1>1, <1>3 DEF CAState
<1>5. /\ u.state = s.state /\ u.connectedPeerIds = s.connectedPeerIds
      /\ u.receivedHashes = s.receivedHashes /\ u.hashCount = s.hashCount
      /\ u.disqualifiedIds = s.disqualifiedIds
  BY Zenon, <1>3 DEF CAState
<1>6. /\ u.receivedCommitments = s.receivedCommitments
      /\ u.receivedSecretShares = s.receivedSecretShares
      /\ u.secretCoefficients = s.secretCoefficients /\ u.key = s.key
  BY Zenon, <1>3 DEF CAState
<1>7. Sent(s, u, P, msg)
  BY Zenon, <1>2, <1>4, <1>5, <1>6 DEF Sent
<1> QED BY Zenon, <1>7 DEF u

\* What checkSharePhaseComplete does when it finishes the DKG.
LEMMA FinalizeEffect ==
    ASSUME NEW s \in CAState, NEW Q \in SUBSET CA, \A q \in Q : s.receivedCommitments[q] # None
    PROVE  LET u == [finalizeDKG(s, Q) EXCEPT !.state = "DONE"]
           IN  /\ u \in CAState
               /\ u.state = "DONE"
               /\ u.connectedPeerIds = s.connectedPeerIds
               /\ u.receivedHashes = s.receivedHashes
               /\ u.hashCount = s.hashCount
               /\ u.disqualifiedIds = s.disqualifiedIds
               /\ u.receivedCommitments = s.receivedCommitments
               /\ u.receivedSecretShares = s.receivedSecretShares
               /\ u.out = s.out
               /\ \A q \in CA : u.key.share[q] = IF q \in Q THEN s.receivedSecretShares[q] ELSE None
               /\ \A q \in CA : u.key.mpk[q] = IF q \in Q THEN s.receivedCommitments[q].pubKey ELSE None
<1> DEFINE sh == [q \in CA |-> IF q \in Q THEN s.receivedSecretShares[q] ELSE None]
           pk == [q \in CA |-> IF q \in Q THEN s.receivedCommitments[q].pubKey ELSE None]
           k == [share |-> sh, mpk |-> pk]
           u == [finalizeDKG(s, Q) EXCEPT !.state = "DONE"]
<1>1. k \in [share : Map(Contents), mpk : Map(Contents)]
  <2>1. \A q \in Q : s.receivedCommitments[q].pubKey \in Contents
    BY Zenon DEF CAState, Map, Reveals
  <2>2. pk \in Map(Contents)
    BY Zenon, <2>1 DEF Map
  <2>3. sh \in Map(Contents)
    BY Zenon DEF CAState, Map
  <2> QED BY Zenon, <2>2, <2>3
<1>2. /\ \A q \in CA : k.share[q] = IF q \in Q THEN s.receivedSecretShares[q] ELSE None
      /\ \A q \in CA : k.mpk[q] = IF q \in Q THEN s.receivedCommitments[q].pubKey ELSE None
  BY Zenon
<1>3. u = [s EXCEPT !.key = k, !.secretCoefficients = FALSE, !.state = "DONE"]
  BY Zenon DEF finalizeDKG, CAState
<1> HIDE DEF k
<1>4. /\ u \in CAState
      /\ u.state = "DONE"
      /\ u.connectedPeerIds = s.connectedPeerIds
      /\ u.receivedHashes = s.receivedHashes
      /\ u.hashCount = s.hashCount
      /\ u.disqualifiedIds = s.disqualifiedIds
      /\ u.receivedCommitments = s.receivedCommitments
      /\ u.receivedSecretShares = s.receivedSecretShares
      /\ u.out = s.out
      /\ u.key = k
  BY Zenon, <1>1, <1>3 DEF CAState, DkgState
<1> QED BY Zenon, <1>2, <1>4

-----------------------------------------------------------------------------
(* Connections: sending and receiving one message.                         *)

\* Appending a message keeps a connection in order, provided the message is
\* honest where it must be and comes after those it depends on.
LEMMA AppendInFlight ==
    ASSUME NEW j \in CA, NEW q \in Seq(Messages), NEW h, NEW c, NEW m \in Messages,
           InFlightOK(j, q, h, c),
           m.type = "complaint" => m.body \notin Honest,
           m.type = "hash" => h = None /\ ~Has(q, "hash"),
           j \in Honest =>
              /\ m.type = "hash" => m.body = hashCommitments(OwnReveal)
              /\ m.type = "reveal" => m.body = OwnReveal
              /\ m.type = "share" => m.body = Own
              /\ m.type = "reveal" => h # None \/ Has(q, "hash")
              /\ m.type = "share" => c # None \/ Has(q, "reveal")
    PROVE  InFlightOK(j, Append(q, m), h, c)
<1> DEFINE p == Append(q, m)
<1>1. /\ Len(p) = Len(q) + 1 /\ Len(q) \in Nat
      /\ \A k \in 1..Len(q) : p[k] = q[k]
      /\ p[Len(q) + 1] = m
  OBVIOUS
<1> HIDE DEF p
<1> SUFFICES ASSUME NEW k \in 1..Len(p)
             PROVE  /\ p[k].type = "complaint" => p[k].body \notin Honest
                    /\ p[k].type = "hash" => h = None /\ \A l \in 1..Len(p) : p[l].type = "hash" => l = k
                    /\ j \in Honest =>
                          /\ p[k].type = "hash" => p[k].body = hashCommitments(OwnReveal)
                          /\ p[k].type = "reveal" => p[k].body = OwnReveal
                          /\ p[k].type = "share" => p[k].body = Own
                          /\ p[k].type = "reveal" => h # None \/ \E l \in 1..(k - 1) : p[l].type = "hash"
                          /\ p[k].type = "share" => c # None \/ \E l \in 1..(k - 1) : p[l].type = "reveal"
  BY Zenon DEF InFlightOK, p
<1>2. CASE k \in 1..Len(q)
  <2>1. \A l \in 1..(k - 1) : p[l] = q[l]
    BY <1>1, <1>2
  <2>2. p[k] = q[k] /\ (p[k].type = "hash" => m.type # "hash")
    BY Zenon, <1>1, <1>2 DEF Has
  <2> QED BY <1>1, <1>2, <2>1, <2>2 DEF InFlightOK
<1>3. CASE k = Len(q) + 1
  <2>1. \A l \in 1..(k - 1) : p[l] = q[l]
    BY <1>1, <1>3
  <2>2. p[k] = m /\ 1..(k - 1) = 1..Len(q)
    BY <1>1, <1>3
  <2> QED BY <1>1, <1>3, <2>1, <2>2 DEF Has
<1> QED BY <1>1, <1>2, <1>3

\* Appending a message takes away nothing of what was sent.
LEMMA AppendHas ==
    ASSUME NEW q \in Seq(Messages), NEW m \in Messages, NEW type
    PROVE  Has(Append(q, m), type) <=> Has(q, type) \/ m.type = type
<1> DEFINE p == Append(q, m)
<1>1. /\ Len(p) = Len(q) + 1 /\ Len(q) \in Nat
      /\ \A k \in 1..Len(q) : p[k] = q[k]
      /\ p[Len(q) + 1] = m
  OBVIOUS
<1> HIDE DEF p
<1>2. Has(q, type) => Has(p, type)
  BY <1>1 DEF Has
<1>3. m.type = type => Has(p, type)
  BY <1>1 DEF Has
<1>4. ASSUME Has(p, type) PROVE Has(q, type) \/ m.type = type
  <2>1. PICK k \in 1..Len(p) : p[k].type = type
    BY Zenon, <1>4 DEF Has
  <2>2. k \in 1..Len(q) \/ k = Len(q) + 1
    BY <1>1, <2>1
  <2> QED BY Zenon, <1>1, <2>1, <2>2 DEF Has
<1> QED BY Zenon, <1>2, <1>3, <1>4 DEF p

\* Receiving the first message keeps the rest in order: h2 and c2 are what
\* the receiver holds afterwards.
LEMMA PopInFlight ==
    ASSUME NEW j \in CA, NEW q \in Seq(Messages), q # <<>>, NEW h, NEW c, NEW h2, NEW c2,
           InFlightOK(j, q, h, c),
           Head(q).type = "hash" => h2 # None,
           Head(q).type # "hash" => h2 = h,
           c # None => c2 # None,
           Head(q).type = "reveal" /\ j \in Honest => c2 # None
    PROVE  InFlightOK(j, Tail(q), h2, c2)
<1> DEFINE p == Tail(q)
<1>1. /\ Len(p) = Len(q) - 1 /\ Len(q) \in Nat /\ Len(q) # 0
      /\ \A k \in 1..Len(p) : p[k] = q[k + 1] /\ k + 1 \in 1..Len(q)
      /\ q[1] = Head(q)
  OBVIOUS
<1> HIDE DEF p
<1> SUFFICES ASSUME NEW k \in 1..Len(p)
             PROVE  /\ p[k].type = "complaint" => p[k].body \notin Honest
                    /\ p[k].type = "hash" => h2 = None /\ \A l \in 1..Len(p) : p[l].type = "hash" => l = k
                    /\ j \in Honest =>
                          /\ p[k].type = "hash" => p[k].body = hashCommitments(OwnReveal)
                          /\ p[k].type = "reveal" => p[k].body = OwnReveal
                          /\ p[k].type = "share" => p[k].body = Own
                          /\ p[k].type = "reveal" => h2 # None \/ \E l \in 1..(k - 1) : p[l].type = "hash"
                          /\ p[k].type = "share" => c2 # None \/ \E l \in 1..(k - 1) : p[l].type = "reveal"
  BY Zenon DEF InFlightOK, p
<1>2. k + 1 \in 1..Len(q) /\ p[k] = q[k + 1] /\ 1 \in 1..Len(q) /\ 1 # k + 1
  BY <1>1
<1>3. p[k].type = "complaint" => p[k].body \notin Honest
  BY Zenon, <1>2 DEF InFlightOK
<1>4. ASSUME p[k].type = "hash"
      PROVE  h2 = None /\ \A l \in 1..Len(p) : p[l].type = "hash" => l = k
  <2>1. h = None /\ \A l \in 1..Len(q) : q[l].type = "hash" => l = k + 1
    BY Zenon, <1>2, <1>4 DEF InFlightOK
  <2>2. Head(q).type # "hash"
    BY Zenon, <1>1, <1>2, <2>1
  <2>3. ASSUME NEW l \in 1..Len(p), p[l].type = "hash" PROVE l = k
    <3>1. l + 1 = k + 1
      BY Zenon, <1>1, <2>1, <2>3
    <3> QED BY <3>1
  <2> QED BY Zenon, <2>1, <2>2, <2>3
<1>5. ASSUME j \in Honest
      PROVE  /\ p[k].type = "hash" => p[k].body = hashCommitments(OwnReveal)
             /\ p[k].type = "reveal" => p[k].body = OwnReveal
             /\ p[k].type = "share" => p[k].body = Own
  BY Zenon, <1>2, <1>5 DEF InFlightOK
<1>6. ASSUME j \in Honest, NEW type, NEW l \in 1..((k + 1) - 1), q[l].type = type
      PROVE  Head(q).type = type \/ \E z \in 1..(k - 1) : p[z].type = type
  <2>1. CASE l = 1
    BY Zenon, <1>1, <1>6, <2>1
  <2>2. CASE l # 1
    <3>1. l - 1 \in 1..(k - 1) /\ l - 1 \in 1..Len(p) /\ (l - 1) + 1 = l
      BY <1>1, <2>2
    <3>2. p[l - 1] = q[l]
      BY Zenon, <1>1, <3>1
    <3> QED BY Zenon, <1>6, <3>1, <3>2
  <2> QED BY Zenon, <2>1, <2>2
<1>7. ASSUME j \in Honest, p[k].type = "reveal"
      PROVE  h2 # None \/ \E l \in 1..(k - 1) : p[l].type = "hash"
  <2>1. h # None \/ \E l \in 1..((k + 1) - 1) : q[l].type = "hash"
    BY Zenon, <1>2, <1>7 DEF InFlightOK
  <2>2. CASE h # None
    <3>1. Head(q).type = "hash" \/ h2 = h
      BY Zenon
    <3> QED BY Zenon, <2>2, <3>1
  <2>3. CASE \E l \in 1..((k + 1) - 1) : q[l].type = "hash"
    BY Zenon, <1>6, <1>7, <2>3
  <2> QED BY Zenon, <2>1, <2>2, <2>3
<1>8. ASSUME j \in Honest, p[k].type = "share"
      PROVE  c2 # None \/ \E l \in 1..(k - 1) : p[l].type = "reveal"
  <2>1. c # None \/ \E l \in 1..((k + 1) - 1) : q[l].type = "reveal"
    BY Zenon, <1>2, <1>8 DEF InFlightOK
  <2> QED BY Zenon, <1>6, <1>8, <2>1
<1> QED BY Zenon, <1>3, <1>4, <1>5, <1>7, <1>8

\* What was in flight is, after the first message, that message or still there.
LEMMA PopHas ==
    ASSUME NEW q \in Seq(Messages), q # <<>>, NEW type, Head(q).type # type
    PROVE  Has(Tail(q), type) <=> Has(q, type)
<1> DEFINE p == Tail(q)
<1>1. /\ Len(p) = Len(q) - 1 /\ Len(q) \in Nat /\ Len(q) # 0
      /\ \A k \in 1..Len(p) : p[k] = q[k + 1] /\ k + 1 \in 1..Len(q)
      /\ q[1] = Head(q)
  OBVIOUS
<1> HIDE DEF p
<1>2. Has(p, type) => Has(q, type)
  BY Zenon, <1>1 DEF Has
<1>3. ASSUME Has(q, type) PROVE Has(p, type)
  <2>1. PICK k \in 1..Len(q) : q[k].type = type
    BY Zenon, <1>3 DEF Has
  <2>2. k # 1
    BY Zenon, <1>1, <2>1
  <2>3. k - 1 \in 1..Len(p) /\ (k - 1) + 1 = k
    BY <1>1, <2>1, <2>2
  <2>4. p[k - 1] = q[k]
    BY Zenon, <1>1, <2>3
  <2> QED BY Zenon, <2>1, <2>3, <2>4 DEF Has
<1> QED BY Zenon, <1>2, <1>3 DEF p

-----------------------------------------------------------------------------
(* The methods keep the invariant of the CA that runs them.                *)

\* CA i may have state s, with connections ch.
GoodCA(i, s, ch) ==
    /\ s \in CAState
    /\ MapsAgree(i, s)
    /\ PhaseOK(i, s, main[i])
    /\ ConnectedOK(i, s, ch)

\* ... and what s has in flight suits the receivers.
GoodOut(i, s, ch) ==
    \A x \in Peers(i) :
        /\ InFlightOK(i, s.out[x], ca[x].receivedHashes[i], ca[x].receivedCommitments[i])
        /\ SentOK(i, s.out[x], ca[x].receivedHashes[i], ca[x].receivedCommitments[i],
                  s.state, main[i], ch[x])

\* u holds what s holds of the other CAs' hashes and commitments.
SameView(i, s, u) ==
    /\ u.receivedHashes = s.receivedHashes
    /\ \A x \in Peers(i) : u.receivedCommitments[x] = s.receivedCommitments[x]

\* ... except for what a reveal of j may have added.
RevealView(i, j, s, u) ==
    /\ u.receivedHashes = s.receivedHashes
    /\ \A x \in Peers(i) : x # j => u.receivedCommitments[x] = s.receivedCommitments[x]
    /\ s.receivedCommitments[j] # None => u.receivedCommitments[j] # None
    /\ j \in Honest => u.receivedCommitments[j] # None

SaysOK ==
    /\ says \in [CA -> [CA -> Behaviour]]
    /\ \A i \in Honest, j \in CA : says[i][j] = HonestBehaviour

\* checkSharePhaseComplete keeps the invariant: the key it establishes is
\* backed by hashes and shares and contains every honest CA.
LEMMA CheckShareGood ==
    ASSUME NEW i \in CA, NEW s, NEW ch, GoodCA(i, s, ch), GoodOut(i, s, ch)
    PROVE  LET u == checkSharePhaseComplete(i, s)
           IN  GoodCA(i, u, ch) /\ GoodOut(i, u, ch) /\ SameView(i, s, u)
<1> DEFINE accounted == Keys(s.receivedSecretShares) \cup s.disqualifiedIds
           Q == Keys(s.receivedCommitments) \ s.disqualifiedIds
           u == [finalizeDKG(s, Q) EXCEPT !.state = "DONE"]
<1>1. CASE ~(s.state = "AWAITING_SHARES" /\ Cardinality(accounted) >= n /\ Cardinality(Q) >= Threshold)
  BY Zenon, <1>1 DEF checkSharePhaseComplete, SameView
<1>2. CASE s.state = "AWAITING_SHARES" /\ Cardinality(accounted) >= n /\ Cardinality(Q) >= Threshold
  <2>1. checkSharePhaseComplete(i, s) = u
    BY Zenon, <1>2 DEF checkSharePhaseComplete
  <2>2. s \in CAState /\ Q \in SUBSET CA /\ accounted \in SUBSET CA
    BY Zenon DEF GoodCA, Keys, CAState
  <2>3. accounted = CA
    BY Zenon, <1>2, <2>2, CountIsAll
  <2>4. /\ u \in CAState
        /\ u.state = "DONE"
        /\ u.connectedPeerIds = s.connectedPeerIds
        /\ u.receivedHashes = s.receivedHashes
        /\ u.hashCount = s.hashCount
        /\ u.disqualifiedIds = s.disqualifiedIds
        /\ u.receivedCommitments = s.receivedCommitments
        /\ u.receivedSecretShares = s.receivedSecretShares
        /\ u.out = s.out
        /\ \A q \in CA : u.key.share[q] = IF q \in Q THEN s.receivedSecretShares[q] ELSE None
        /\ \A q \in CA : u.key.mpk[q] = IF q \in Q THEN s.receivedCommitments[q].pubKey ELSE None
    <3>1. \A q \in Q : s.receivedCommitments[q] # None
      BY Zenon DEF Keys
    <3> QED BY ZenonT(60), <2>2, <3>1, FinalizeEffect
  <2> HIDE DEF u
  <2>5. KeyOK(u)
    <3> SUFFICES ASSUME NEW q \in CA
                 PROVE  /\ u.key.share[q] = None <=> u.key.mpk[q] = None
                        /\ u.key.mpk[q] # None =>
                              \E r \in Reveals : /\ Backs(r, u.key.share[q], u.key.mpk[q])
                                                 /\ u.receivedHashes[q] = hashCommitments(r)
                        /\ q \in Honest => u.key.mpk[q] = Own
      BY Zenon DEF KeyOK
    <3>1. q \notin s.disqualifiedIds => s.receivedSecretShares[q] # None
      BY Zenon, <2>3 DEF Keys
    <3>2. /\ s.receivedSecretShares[q] # None =>
                s.receivedCommitments[q] # None /\ s.receivedSecretShares[q] = s.receivedCommitments[q].commitments
          /\ s.receivedCommitments[q] # None => s.receivedHashes[q] = hashCommitments(s.receivedCommitments[q])
          /\ q \in Honest => s.receivedHashes[q] \in {None, hashCommitments(OwnReveal)} /\ q \notin s.disqualifiedIds
      BY Zenon DEF GoodCA, MapsAgree, verifyShare
    <3>3. \A r \in CA : r \in Q <=> s.receivedCommitments[r] # None /\ r \notin s.disqualifiedIds
      BY Zenon DEF Keys
    <3>4. q \in Honest => s.receivedHashes[q] # None
      BY Zenon, <1>2 DEF GoodCA, PhaseOK
    <3>5. q \in Honest => s.receivedCommitments[q] = OwnReveal
      BY Zenon, <3>1, <3>2, <3>4, HashInjective
    <3> HIDE DEF Q
    <3>6. s.receivedCommitments[q] \in Reveals \cup {None} /\ s.receivedSecretShares[q] \in Contents \cup {None}
      BY Zenon, <2>2 DEF CAState, Map
    <3>7. CASE q \in Q
      <4> DEFINE r == s.receivedCommitments[q]
      <4>1. r \in Reveals /\ u.key.mpk[q] = r.pubKey /\ u.key.share[q] = r.commitments
            /\ u.receivedHashes[q] = hashCommitments(r)
        BY Zenon, <2>4, <3>1, <3>2, <3>3, <3>6, <3>7
      <4>2. r.pubKey # None /\ r.commitments # None
        BY Zenon, <4>1, ContentsAssumption DEF Reveals
      <4>3. Backs(r, u.key.share[q], u.key.mpk[q])
        BY Zenon, <4>1 DEF Backs, verifyShare
      <4>4. q \in Honest => u.key.mpk[q] = Own
        BY Zenon, <3>5, <4>1, OwnRevealFacts
      <4> HIDE DEF r
      <4> QED BY Zenon, <4>1, <4>2, <4>3, <4>4
    <3>8. CASE q \notin Q
      <4>1. u.key.mpk[q] = None /\ u.key.share[q] = None
        BY Zenon, <2>4, <3>8
      <4>2. q \notin Honest
        BY Zenon, <3>2, <3>3, <3>5, <3>8, OwnRevealFacts
      <4> QED BY Zenon, <4>1, <4>2
    <3> QED BY Zenon, <3>7, <3>8
  <2>6. MapsAgree(i, u) /\ ConnectedOK(i, u, ch)
    BY Zenon, <2>4 DEF GoodCA, MapsAgree, ConnectedOK
  <2>7. PhaseOK(i, u, main[i])
    BY Zenon, <1>2, <2>4, <2>5 DEF GoodCA, PhaseOK
  <2>8. GoodOut(i, u, ch)
    BY Zenon, <1>2, <2>4 DEF GoodOut, SentOK
  <2> QED BY Zenon, <2>1, <2>4, <2>6, <2>7, <2>8 DEF GoodCA, SameView
<1> QED BY Zenon, <1>1, <1>2

\* Appending anything but a hash keeps account of what was sent, also when
\* a reveal makes i leave the hash phase.
LEMMA AppendSent ==
    ASSUME NEW j \in CA, NEW q \in Seq(Messages), NEW h, NEW c, NEW st, NEW st2, NEW m, NEW ch,
           NEW msg \in Messages,
           SentOK(j, q, h, c, st, m, ch), msg.type # "hash",
           j \in Honest /\ st2 # "AWAITING_HASHES" => st # "AWAITING_HASHES" \/ msg.type = "reveal"
    PROVE  SentOK(j, Append(q, msg), h, c, st2, m, ch)
BY Zenon, AppendHas DEF SentOK

\* checkRevealPhaseComplete keeps the invariant: a share goes out on a
\* connection only after the reveal it is checked against.
LEMMA CheckRevealGood ==
    ASSUME NEW i \in CA, NEW s, NEW ch, GoodCA(i, s, ch), GoodOut(i, s, ch), SaysOK, main[i] # "crashed"
    PROVE  LET u == checkRevealPhaseComplete(i, s)
           IN  GoodCA(i, u, ch) /\ GoodOut(i, u, ch) /\ SameView(i, s, u)
<1> DEFINE accounted == Keys(s.receivedCommitments) \cup s.disqualifiedIds
           t == [s EXCEPT !.state = "AWAITING_SHARES"]
           v == [t EXCEPT !.receivedSecretShares[i] = Own]
           P == Peers(i) \ s.disqualifiedIds
           Share == [j \in CA |-> DKGShareMsg(says[i][j].share)]
           u == Send(v, P, Share)
<1>1. CASE s.state # "AWAITING_REVEALS" \/ Cardinality(accounted) < n
  BY Zenon, <1>1 DEF checkRevealPhaseComplete, SameView
<1>2. CASE s.state = "AWAITING_REVEALS" /\ ~(Cardinality(accounted) < n)
  <2>1. s \in CAState
    BY Zenon DEF GoodCA
  <2>2. s.secretCoefficients
    BY Zenon, <1>2 DEF GoodCA, PhaseOK
  <2>3. checkRevealPhaseComplete(i, s) = checkSharePhaseComplete(i, u)
    BY Zenon, <1>2, <2>2 DEF checkRevealPhaseComplete
  <2>4. /\ v \in CAState
        /\ v.state = "AWAITING_SHARES"
        /\ v.connectedPeerIds = s.connectedPeerIds
        /\ v.receivedHashes = s.receivedHashes
        /\ v.hashCount = s.hashCount
        /\ v.disqualifiedIds = s.disqualifiedIds
        /\ v.receivedCommitments = s.receivedCommitments
        /\ v.receivedSecretShares = [s.receivedSecretShares EXCEPT ![i] = Own]
        /\ v.secretCoefficients = s.secretCoefficients
        /\ v.out = s.out
    BY Zenon, <2>1, ContentsAssumption DEF CAState, DkgState, Map
  <2>5. Share \in [CA -> Messages] /\ P \in SUBSET CA /\ P \subseteq Peers(i)
    BY Zenon, MessageTypes DEF SaysOK, Behaviour, Peers
  <2>6. \A x \in CA : /\ Share[x].type = "share"
                      /\ i \in Honest => Share[x].body = Own
    BY DEF SaysOK, HonestBehaviour, DKGShareMsg
  <2> HIDE DEF v, Share, P
  <2>7. /\ u \in CAState
        /\ u.state = "AWAITING_SHARES"
        /\ u.connectedPeerIds = s.connectedPeerIds
        /\ u.receivedHashes = s.receivedHashes
        /\ u.hashCount = s.hashCount
        /\ u.disqualifiedIds = s.disqualifiedIds
        /\ u.receivedCommitments = s.receivedCommitments
        /\ u.receivedSecretShares = [s.receivedSecretShares EXCEPT ![i] = Own]
        /\ u.secretCoefficients = s.secretCoefficients
        /\ \A x \in P : u.out[x] = Append(s.out[x], Share[x])
        /\ \A x \in CA \ P : u.out[x] = s.out[x]
    <3>1. Sent(v, u, P, Share)
      BY Zenon, <2>4, <2>5, SendType
    <3> HIDE DEF u
    <3> QED BY Zenon, <2>4, <3>1 DEF Sent
  <2> HIDE DEF u
  <2>8. MapsAgree(i, u)
    <3>1. s.receivedCommitments[i] = OwnReveal /\ s.receivedSecretShares \in [CA -> Contents \cup {None}]
      BY Zenon, <1>2, <2>1 DEF GoodCA, PhaseOK, CAState, Map
    <3>2. s.receivedCommitments[i] # None /\ verifyShare(Own, s.receivedCommitments[i])
      BY Zenon, <3>1, OwnRevealFacts DEF verifyShare
    <3> QED BY Zenon, <2>7, <3>1, <3>2 DEF GoodCA, MapsAgree
  <2>9. ConnectedOK(i, u, ch) /\ PhaseOK(i, u, main[i])
    BY Zenon, <1>2, <2>2, <2>7 DEF GoodCA, ConnectedOK, PhaseOK
  <2>10. GoodOut(i, u, ch)
    <3> SUFFICES ASSUME NEW x \in Peers(i)
                 PROVE  /\ InFlightOK(i, u.out[x], ca[x].receivedHashes[i], ca[x].receivedCommitments[i])
                        /\ SentOK(i, u.out[x], ca[x].receivedHashes[i], ca[x].receivedCommitments[i],
                                  u.state, main[i], ch[x])
      BY Zenon DEF GoodOut
    <3>0. x \in CA /\ s.out[x] \in Seq(Messages)
      BY Zenon, <2>1 DEF Peers, CAState
    <3>1. /\ InFlightOK(i, s.out[x], ca[x].receivedHashes[i], ca[x].receivedCommitments[i])
          /\ SentOK(i, s.out[x], ca[x].receivedHashes[i], ca[x].receivedCommitments[i],
                    s.state, main[i], ch[x])
      BY Zenon DEF GoodOut
    <3>2. CASE x \in P
      <4>1. i \in Honest => ca[x].receivedCommitments[i] # None \/ Has(s.out[x], "reveal")
        BY Zenon, <1>2, <3>1 DEF SentOK
      <4>2. Share[x] \in Messages
        BY Zenon, <2>5, <3>0
      <4> DEFINE q == s.out[x]
                 h == ca[x].receivedHashes[i]
                 c == ca[x].receivedCommitments[i]
                 m == Share[x]
      <4>a. InFlightOK(i, q, h, c) /\ SentOK(i, q, h, c, "AWAITING_REVEALS", main[i], ch[x])
        BY Zenon, <1>2, <3>1
      <4>b. m.type = "share" /\ (i \in Honest => m.body = Own)
        BY Zenon, <2>6, <3>0
      <4>c. i \in Honest => c # None \/ Has(q, "reveal")
        BY Zenon, <4>1
      <4>d. q \in Seq(Messages) /\ m \in Messages
        BY Zenon, <3>0, <4>2
      <4>3. InFlightOK(i, Append(q, m), h, c)
        <5> HIDE DEF q, h, c, m
        <5> QED BY Zenon, <4>a, <4>b, <4>c, <4>d, AppendInFlight
      <4>4. SentOK(i, Append(q, m), h, c, "AWAITING_SHARES", main[i], ch[x])
        <5> HIDE DEF q, h, c, m
        <5> QED BY Zenon, <4>a, <4>b, <4>d, AppendSent
      <4> QED BY Zenon, <2>7, <3>2, <4>3, <4>4
    <3>3. CASE x \notin P
      BY Zenon, <1>2, <2>7, <3>0, <3>1, <3>3 DEF SentOK
    <3> QED BY Zenon, <3>2, <3>3
  <2>11. GoodCA(i, u, ch)
    BY Zenon, <2>7, <2>8, <2>9 DEF GoodCA
  <2>12. GoodCA(i, checkSharePhaseComplete(i, u), ch) /\ GoodOut(i, checkSharePhaseComplete(i, u), ch)
         /\ SameView(i, u, checkSharePhaseComplete(i, u))
    BY Zenon, <2>10, <2>11, CheckShareGood
  <2> QED BY Zenon, <2>3, <2>7, <2>12 DEF SameView
<1> QED BY Zenon, <1>1, <1>2

\* The body of checkHashPhaseComplete keeps the invariant: it reveals only
\* on connections that already carried the hash.
LEMMA RevealGood ==
    ASSUME NEW i \in CA, NEW s, NEW ch, GoodCA(i, s, ch), GoodOut(i, s, ch), SaysOK, main[i] # "crashed",
           hashPhaseComplete(i, s)
    PROVE  LET u == revealCommitments(i, s)
           IN  GoodCA(i, u, ch) /\ GoodOut(i, u, ch) /\ SameView(i, s, u)
<1> DEFINE v == [s EXCEPT !.state = "AWAITING_REVEALS", !.receivedCommitments[i] = OwnReveal]
           Reveal == [j \in CA |-> DKGRevealMsg(says[i][j].reveal)]
           u == Send(v, Peers(i), Reveal)
<1>1. s \in CAState
  BY Zenon DEF GoodCA
<1>2. /\ s.state = "AWAITING_HASHES" /\ main[i] \notin {"down", "sleeping"}
      /\ s.connectedPeerIds = Peers(i)
      /\ \A q \in CA : s.receivedHashes[q] # None
  <2>1. Keys(s.receivedHashes) \in SUBSET CA /\ Cardinality(Keys(s.receivedHashes)) >= n
    BY Zenon DEF hashPhaseComplete, GoodCA, MapsAgree, Keys
  <2>2. Keys(s.receivedHashes) = CA
    BY Zenon, <2>1, CountIsAll
  <2>3. s.connectedPeerIds \in SUBSET Peers(i) /\ Cardinality(s.connectedPeerIds) >= Cardinality(Peers(i))
    BY Zenon DEF hashPhaseComplete, GoodCA, ConnectedOK
  <2>4. s.connectedPeerIds = Peers(i)
    BY <2>3, CountIsPeers
  <2> QED BY Zenon, <2>2, <2>4 DEF hashPhaseComplete, Keys
<1>3. revealCommitments(i, s) = checkRevealPhaseComplete(i, u)
  BY Zenon DEF revealCommitments
<1>4. /\ v \in CAState
      /\ v.state = "AWAITING_REVEALS"
      /\ v.connectedPeerIds = s.connectedPeerIds
      /\ v.receivedHashes = s.receivedHashes
      /\ v.hashCount = s.hashCount
      /\ v.disqualifiedIds = s.disqualifiedIds
      /\ v.receivedCommitments = [s.receivedCommitments EXCEPT ![i] = OwnReveal]
      /\ v.receivedSecretShares = s.receivedSecretShares
      /\ v.secretCoefficients = s.secretCoefficients
      /\ v.out = s.out
  <2> DEFINE m == [s.receivedCommitments EXCEPT ![i] = OwnReveal]
  <2>1. m \in Map(Reveals)
    BY Zenon, <1>1, OwnRevealFacts DEF CAState, Map
  <2>2. v = [s EXCEPT !.state = "AWAITING_REVEALS", !.receivedCommitments = m]
    BY Zenon
  <2> HIDE DEF m, v
  <2>3. /\ v \in CAState /\ v.state = "AWAITING_REVEALS" /\ v.receivedCommitments = m
    BY Zenon, <1>1, <2>1, <2>2 DEF CAState, DkgState
  <2>4. /\ v.connectedPeerIds = s.connectedPeerIds
        /\ v.receivedHashes = s.receivedHashes
        /\ v.hashCount = s.hashCount
        /\ v.disqualifiedIds = s.disqualifiedIds
    BY Zenon, <1>1, <2>2 DEF CAState
  <2>5. /\ v.receivedSecretShares = s.receivedSecretShares
        /\ v.secretCoefficients = s.secretCoefficients
        /\ v.out = s.out
    BY Zenon, <1>1, <2>2 DEF CAState
  <2> QED BY Zenon, <2>3, <2>4, <2>5 DEF m
<1>5. Reveal \in [CA -> Messages] /\ Peers(i) \in SUBSET CA
  BY Zenon, MessageTypes DEF SaysOK, Behaviour, Peers
<1>6. \A x \in CA : /\ Reveal[x].type = "reveal"
                    /\ i \in Honest => Reveal[x].body = OwnReveal
  BY DEF SaysOK, HonestBehaviour, DKGRevealMsg
<1> HIDE DEF v, Reveal
<1>7. /\ u \in CAState
      /\ u.state = "AWAITING_REVEALS"
      /\ u.connectedPeerIds = s.connectedPeerIds
      /\ u.receivedHashes = s.receivedHashes
      /\ u.hashCount = s.hashCount
      /\ u.disqualifiedIds = s.disqualifiedIds
      /\ u.receivedCommitments = [s.receivedCommitments EXCEPT ![i] = OwnReveal]
      /\ u.receivedSecretShares = s.receivedSecretShares
      /\ u.secretCoefficients = s.secretCoefficients
      /\ \A x \in Peers(i) : u.out[x] = Append(s.out[x], Reveal[x])
  <2>1. Sent(v, u, Peers(i), Reveal)
    BY Zenon, <1>4, <1>5, SendType
  <2> HIDE DEF u
  <2> QED BY Zenon, <1>4, <2>1 DEF Sent
<1> HIDE DEF u
<1>8. s.receivedCommitments \in [CA -> Reveals \cup {None}]
  BY Zenon, <1>1 DEF CAState, Map
<1>9. s.receivedHashes[i] = hashCommitments(OwnReveal)
  BY Zenon, <1>2 DEF GoodCA, MapsAgree
<1>10. MapsAgree(i, u)
  <2>1. s.receivedCommitments[i] # None => s.receivedCommitments[i] = OwnReveal
    BY Zenon, <1>9, HashInjective DEF GoodCA, MapsAgree
  <2>2. s.receivedSecretShares[i] # None => verifyShare(s.receivedSecretShares[i], OwnReveal)
    <3>1. s.receivedSecretShares[i] # None =>
             s.receivedCommitments[i] # None /\ verifyShare(s.receivedSecretShares[i], s.receivedCommitments[i])
      BY Zenon DEF GoodCA, MapsAgree
    <3> QED BY Zenon, <2>1, <3>1
  <2> QED BY Zenon, <1>7, <1>8, <1>9, <2>2, OwnRevealFacts DEF GoodCA, MapsAgree
<1>11. ConnectedOK(i, u, ch) /\ PhaseOK(i, u, main[i])
  BY Zenon, <1>2, <1>7, <1>8 DEF GoodCA, ConnectedOK, PhaseOK
<1>12. GoodOut(i, u, ch)
  <2> SUFFICES ASSUME NEW x \in Peers(i)
               PROVE  /\ InFlightOK(i, u.out[x], ca[x].receivedHashes[i], ca[x].receivedCommitments[i])
                      /\ SentOK(i, u.out[x], ca[x].receivedHashes[i], ca[x].receivedCommitments[i],
                                u.state, main[i], ch[x])
    BY Zenon DEF GoodOut
  <2>0. x \in CA /\ s.out[x] \in Seq(Messages) /\ ch[x] = "up"
    BY Zenon, <1>1, <1>2 DEF Peers, CAState, GoodCA, ConnectedOK
  <2>1. /\ InFlightOK(i, s.out[x], ca[x].receivedHashes[i], ca[x].receivedCommitments[i])
        /\ SentOK(i, s.out[x], ca[x].receivedHashes[i], ca[x].receivedCommitments[i],
                  s.state, main[i], ch[x])
    BY Zenon DEF GoodOut
  <2>2. ca[x].receivedHashes[i] # None \/ Has(s.out[x], "hash")
    BY Zenon, <2>0, <2>1 DEF SentOK
  <2>3. Reveal[x] \in Messages
    BY Zenon, <1>5, <2>0
  <2>4. InFlightOK(i, Append(s.out[x], Reveal[x]), ca[x].receivedHashes[i], ca[x].receivedCommitments[i])
    BY Zenon, <1>6, <2>0, <2>1, <2>2, <2>3, AppendInFlight
  <2>5. SentOK(i, Append(s.out[x], Reveal[x]), ca[x].receivedHashes[i], ca[x].receivedCommitments[i],
               "AWAITING_REVEALS", main[i], ch[x])
    BY Zenon, <1>6, <2>0, <2>1, <2>3, AppendSent
  <2> QED BY Zenon, <1>7, <2>4, <2>5
<1>13. GoodCA(i, u, ch)
  BY Zenon, <1>7, <1>10, <1>11 DEF GoodCA
<1>14. GoodCA(i, checkRevealPhaseComplete(i, u), ch) /\ GoodOut(i, checkRevealPhaseComplete(i, u), ch)
       /\ SameView(i, u, checkRevealPhaseComplete(i, u))
  BY Zenon, <1>12, <1>13, CheckRevealGood
<1>15. SameView(i, s, u)
  BY Zenon, <1>7, <1>8 DEF SameView, Peers
<1> QED BY Zenon, <1>3, <1>14, <1>15 DEF SameView

\* Disqualifying a CA that is not honest keeps the invariant.
LEMMA DisqualifyGood ==
    ASSUME NEW i \in CA, NEW s, NEW ch, GoodCA(i, s, ch), GoodOut(i, s, ch), NEW k \in CA, k \notin Honest
    PROVE  LET u == disqualify(i, s, k)
           IN  /\ GoodCA(i, u, ch) /\ GoodOut(i, u, ch)
               /\ u.receivedHashes = s.receivedHashes
               /\ u.receivedCommitments = s.receivedCommitments
<1> DEFINE v == [s EXCEPT !.disqualifiedIds = @ \cup {k}]
           P == IF main[i] = "sleeping" THEN {} ELSE Peers(i) \ {k}
           Complaint == [j \in CA |-> DKGComplaintMsg(k)]
           u == Send(v, P, Complaint)
<1>1. s \in CAState
  BY Zenon DEF GoodCA
<1>2. disqualify(i, s, k) = u
  BY Zenon DEF disqualify
<1>3. /\ v \in CAState
      /\ v.state = s.state
      /\ v.connectedPeerIds = s.connectedPeerIds
      /\ v.receivedHashes = s.receivedHashes
      /\ v.hashCount = s.hashCount
      /\ v.disqualifiedIds = s.disqualifiedIds \cup {k}
      /\ v.receivedCommitments = s.receivedCommitments
      /\ v.receivedSecretShares = s.receivedSecretShares
      /\ v.secretCoefficients = s.secretCoefficients
      /\ v.key = s.key
      /\ v.out = s.out
  BY Zenon, <1>1 DEF CAState
<1>4. Complaint \in [CA -> Messages] /\ P \in SUBSET CA /\ P \subseteq Peers(i)
  BY Zenon, MessageTypes DEF Peers
<1>5. \A x \in CA : Complaint[x].type = "complaint" /\ Complaint[x].body = k
  BY Zenon DEF DKGComplaintMsg
<1> HIDE DEF v, P, Complaint
<1>S. Sent(v, u, P, Complaint)
  BY Zenon, <1>3, <1>4, SendType
<1> HIDE DEF u
<1>6. u \in CAState /\ u.state = s.state /\ u.connectedPeerIds = s.connectedPeerIds
  BY Zenon, <1>3, <1>S DEF Sent
<1>7. u.receivedHashes = s.receivedHashes /\ u.hashCount = s.hashCount
      /\ u.disqualifiedIds = s.disqualifiedIds \cup {k}
  BY Zenon, <1>3, <1>S DEF Sent
<1>8. u.receivedCommitments = s.receivedCommitments
      /\ u.receivedSecretShares = s.receivedSecretShares
      /\ u.secretCoefficients = s.secretCoefficients
      /\ u.key = s.key
  BY Zenon, <1>3, <1>S DEF Sent
<1>9. \A x \in P : u.out[x] = Append(s.out[x], Complaint[x])
  BY Zenon, <1>3, <1>S DEF Sent
<1>10. \A x \in CA \ P : u.out[x] = s.out[x]
  BY Zenon, <1>3, <1>S DEF Sent
<1>11. MapsAgree(i, u) /\ ConnectedOK(i, u, ch)
  BY Zenon, <1>6, <1>7, <1>8 DEF GoodCA, MapsAgree, ConnectedOK
<1>12. PhaseOK(i, u, main[i])
  BY <1>6, <1>7, <1>8 DEF GoodCA, PhaseOK, KeyOK
<1>13. GoodOut(i, u, ch)
  <2> SUFFICES ASSUME NEW x \in Peers(i)
               PROVE  /\ InFlightOK(i, u.out[x], ca[x].receivedHashes[i], ca[x].receivedCommitments[i])
                      /\ SentOK(i, u.out[x], ca[x].receivedHashes[i], ca[x].receivedCommitments[i],
                                u.state, main[i], ch[x])
    BY Zenon DEF GoodOut
  <2> DEFINE q == s.out[x]
             h == ca[x].receivedHashes[i]
             c == ca[x].receivedCommitments[i]
             m == Complaint[x]
  <2>1. x \in CA /\ q \in Seq(Messages) /\ m \in Messages
    BY Zenon, <1>1, <1>4 DEF Peers, CAState
  <2>2. InFlightOK(i, q, h, c) /\ SentOK(i, q, h, c, s.state, main[i], ch[x])
    BY Zenon DEF GoodOut
  <2>3. m.type = "complaint" /\ m.body \notin Honest
    BY Zenon, <1>5, <2>1
  <2>4. InFlightOK(i, Append(q, m), h, c)
    <3> HIDE DEF q, h, c, m
    <3> QED BY Zenon, <2>1, <2>2, <2>3, AppendInFlight
  <2>5. SentOK(i, Append(q, m), h, c, s.state, main[i], ch[x])
    <3> HIDE DEF q, h, c, m
    <3> QED BY Zenon, <2>1, <2>2, <2>3, AppendSent
  <2>6. CASE x \in P
    BY Zenon, <1>6, <1>9, <2>4, <2>5, <2>6
  <2>7. CASE x \notin P
    BY Zenon, <1>6, <1>10, <2>1, <2>2, <2>7
  <2> QED BY Zenon, <2>6, <2>7
<1> QED BY Zenon, <1>2, <1>6, <1>7, <1>8, <1>11, <1>12, <1>13 DEF GoodCA

\* handleReveal keeps the invariant: an honest CA's reveal is accepted.
LEMMA HandleRevealGood ==
    ASSUME NEW i \in CA, NEW s, NEW ch, GoodCA(i, s, ch), GoodOut(i, s, ch), SaysOK, main[i] # "crashed",
           NEW j \in Peers(i), NEW c \in Reveals,
           j \in Honest => s.receivedHashes[j] # None /\ c = OwnReveal
    PROVE  LET u == handleReveal(i, s, j, c)
           IN  GoodCA(i, u, ch) /\ GoodOut(i, u, ch) /\ RevealView(i, j, s, u)
<1>0. s \in CAState /\ j \in CA /\ j # i
  BY Zenon DEF GoodCA, Peers
<1>1. CASE s.receivedHashes[j] # hashCommitments(c)
  <2>1. j \notin Honest
    BY Zenon, <1>1 DEF GoodCA, MapsAgree
  <2> DEFINE v == disqualify(i, s, j)
             u == checkRevealPhaseComplete(i, v)
  <2>2. /\ GoodCA(i, v, ch) /\ GoodOut(i, v, ch)
        /\ v.receivedHashes = s.receivedHashes
        /\ v.receivedCommitments = s.receivedCommitments
    BY Zenon, <1>0, <2>1, DisqualifyGood
  <2>3. handleReveal(i, s, j, c) = u
    BY Zenon, <1>1 DEF handleReveal
  <2> HIDE DEF v
  <2>4. GoodCA(i, u, ch) /\ GoodOut(i, u, ch) /\ SameView(i, v, u)
    BY Zenon, <2>2, CheckRevealGood
  <2> HIDE DEF u
  <2>5. RevealView(i, j, s, u)
    BY Zenon, <2>1, <2>2, <2>4 DEF SameView, RevealView
  <2> QED BY Zenon, <2>3, <2>4, <2>5
<1>2. CASE s.receivedHashes[j] = hashCommitments(c)
  <2> DEFINE v == [s EXCEPT !.receivedCommitments[j] = c]
             u == checkRevealPhaseComplete(i, v)
  <2>1. /\ v \in CAState
        /\ v.state = s.state
        /\ v.connectedPeerIds = s.connectedPeerIds
        /\ v.receivedHashes = s.receivedHashes
        /\ v.hashCount = s.hashCount
        /\ v.disqualifiedIds = s.disqualifiedIds
        /\ v.receivedCommitments = [s.receivedCommitments EXCEPT ![j] = c]
        /\ v.receivedSecretShares = s.receivedSecretShares
        /\ v.secretCoefficients = s.secretCoefficients
        /\ v.key = s.key
        /\ v.out = s.out
    BY Zenon, <1>0 DEF CAState, Map
  <2>2. handleReveal(i, s, j, c) = u
    BY Zenon, <1>2 DEF handleReveal
  <2> HIDE DEF v
  <2>3. s.receivedCommitments \in [CA -> Reveals \cup {None}]
    BY Zenon, <1>0 DEF CAState, Map
  <2>4. s.receivedSecretShares[j] # None => verifyShare(s.receivedSecretShares[j], c)
    <3>1. s.receivedSecretShares[j] # None =>
             s.receivedCommitments[j] # None /\ verifyShare(s.receivedSecretShares[j], s.receivedCommitments[j])
      BY Zenon, <1>0 DEF GoodCA, MapsAgree
    <3>2. s.receivedCommitments[j] # None => s.receivedCommitments[j] = c
      BY Zenon, <1>0, <1>2, HashInjective DEF GoodCA, MapsAgree
    <3> QED BY Zenon, <3>1, <3>2
  <2>5. MapsAgree(i, v)
    BY <1>0, <1>2, <2>1, <2>3, <2>4, OwnRevealFacts DEF GoodCA, MapsAgree
  <2>6. PhaseOK(i, v, main[i]) /\ ConnectedOK(i, v, ch)
    BY <1>0, <2>1, <2>3 DEF GoodCA, PhaseOK, KeyOK, ConnectedOK
  <2>7. GoodCA(i, v, ch) /\ GoodOut(i, v, ch)
    BY Zenon, <2>1, <2>5, <2>6 DEF GoodCA, GoodOut
  <2>8. GoodCA(i, u, ch) /\ GoodOut(i, u, ch) /\ SameView(i, v, u)
    BY Zenon, <2>7, CheckRevealGood
  <2>9. v.receivedCommitments[j] = c /\ c # None
        /\ \A x \in Peers(i) : x # j => v.receivedCommitments[x] = s.receivedCommitments[x]
    BY Zenon, <1>0, <2>1, <2>3, OwnRevealFacts DEF Peers
  <2> HIDE DEF u
  <2>10. RevealView(i, j, s, u)
    BY Zenon, <2>1, <2>8, <2>9 DEF SameView, RevealView
  <2> QED BY Zenon, <2>2, <2>8, <2>10
<1> QED BY Zenon, <1>1, <1>2

\* handleShare keeps the invariant: an honest CA's share verifies.
LEMMA HandleShareGood ==
    ASSUME NEW i \in CA, NEW s, NEW ch, GoodCA(i, s, ch), GoodOut(i, s, ch),
           NEW j \in Peers(i), NEW c \in Contents,
           j \in Honest => s.receivedCommitments[j] # None /\ c = Own
    PROVE  LET u == handleShare(i, s, j, c)
           IN  GoodCA(i, u, ch) /\ GoodOut(i, u, ch) /\ SameView(i, s, u)
<1>0. s \in CAState /\ j \in CA /\ j # i
  BY Zenon DEF GoodCA, Peers
<1>1. CASE j \in s.disqualifiedIds \/ s.receivedCommitments[j] = None
  BY Zenon, <1>1 DEF handleShare, SameView
<1>2. CASE ~(j \in s.disqualifiedIds \/ s.receivedCommitments[j] = None) /\ ~verifyShare(c, s.receivedCommitments[j])
  <2>1. j \notin Honest
    <3>1. s.receivedHashes[j] = hashCommitments(s.receivedCommitments[j])
      BY Zenon, <1>0, <1>2 DEF GoodCA, MapsAgree
    <3>2. s.receivedCommitments[j] \in Reveals
      BY Zenon, <1>0, <1>2 DEF CAState, Map
    <3>3. s.receivedHashes[j] # None
      BY Zenon, <3>1, <3>2, HashAssumption DEF Hashes
    <3>4. j \in Honest => s.receivedHashes[j] = hashCommitments(OwnReveal)
      BY Zenon, <3>3 DEF GoodCA, MapsAgree
    <3>5. j \in Honest => s.receivedCommitments[j] = OwnReveal
      BY Zenon, <3>1, <3>4, HashInjective
    <3> QED BY Zenon, <1>2, <3>5, OwnRevealFacts DEF verifyShare
  <2> DEFINE v == disqualify(i, s, j)
             u == checkSharePhaseComplete(i, v)
  <2>2. /\ GoodCA(i, v, ch) /\ GoodOut(i, v, ch)
        /\ v.receivedHashes = s.receivedHashes
        /\ v.receivedCommitments = s.receivedCommitments
    BY Zenon, <1>0, <2>1, DisqualifyGood
  <2>3. handleShare(i, s, j, c) = u
    BY Zenon, <1>2 DEF handleShare
  <2> HIDE DEF v
  <2>4. GoodCA(i, u, ch) /\ GoodOut(i, u, ch) /\ SameView(i, v, u)
    BY Zenon, <2>2, CheckShareGood
  <2> QED BY Zenon, <2>2, <2>3, <2>4 DEF SameView
<1>3. CASE ~(j \in s.disqualifiedIds \/ s.receivedCommitments[j] = None) /\ verifyShare(c, s.receivedCommitments[j])
  <2> DEFINE v == [s EXCEPT !.receivedSecretShares[j] = c]
             u == checkSharePhaseComplete(i, v)
  <2>1. /\ v \in CAState
        /\ v.state = s.state
        /\ v.connectedPeerIds = s.connectedPeerIds
        /\ v.receivedHashes = s.receivedHashes
        /\ v.hashCount = s.hashCount
        /\ v.disqualifiedIds = s.disqualifiedIds
        /\ v.receivedCommitments = s.receivedCommitments
        /\ v.receivedSecretShares = [s.receivedSecretShares EXCEPT ![j] = c]
        /\ v.secretCoefficients = s.secretCoefficients
        /\ v.key = s.key
        /\ v.out = s.out
    BY Zenon, <1>0 DEF CAState, Map
  <2>2. handleShare(i, s, j, c) = u
    BY Zenon, <1>3 DEF handleShare
  <2> HIDE DEF v
  <2>3. s.receivedSecretShares \in [CA -> Contents \cup {None}]
    BY Zenon, <1>0 DEF CAState, Map
  <2>5. MapsAgree(i, v)
    BY Zenon, <1>0, <1>3, <2>1, <2>3 DEF GoodCA, MapsAgree
  <2>6. PhaseOK(i, v, main[i]) /\ ConnectedOK(i, v, ch)
    BY <1>0, <2>1 DEF GoodCA, PhaseOK, KeyOK, ConnectedOK
  <2>7. GoodCA(i, v, ch) /\ GoodOut(i, v, ch)
    BY Zenon, <2>1, <2>5, <2>6 DEF GoodCA, GoodOut
  <2>8. GoodCA(i, u, ch) /\ GoodOut(i, u, ch) /\ SameView(i, v, u)
    BY Zenon, <2>7, CheckShareGood
  <2> QED BY Zenon, <2>1, <2>2, <2>8 DEF SameView
<1> QED BY Zenon, <1>1, <1>2, <1>3

\* handleComplaint keeps the invariant: nobody complains about honest CAs.
LEMMA HandleComplaintGood ==
    ASSUME NEW i \in CA, NEW s, NEW ch, GoodCA(i, s, ch), GoodOut(i, s, ch), SaysOK, main[i] # "crashed",
           NEW k \in CA, k \notin Honest
    PROVE  LET u == handleComplaint(i, s, k)
           IN  GoodCA(i, u, ch) /\ GoodOut(i, u, ch) /\ SameView(i, s, u)
<1> DEFINE v == [s EXCEPT !.disqualifiedIds = @ \cup {k}]
           u1 == checkRevealPhaseComplete(i, v)
           u2 == checkSharePhaseComplete(i, v)
<1>0. s \in CAState
  BY Zenon DEF GoodCA
<1>1. /\ v \in CAState
      /\ v.state = s.state
      /\ v.connectedPeerIds = s.connectedPeerIds
      /\ v.receivedHashes = s.receivedHashes
      /\ v.hashCount = s.hashCount
      /\ v.disqualifiedIds = s.disqualifiedIds \cup {k}
      /\ v.receivedCommitments = s.receivedCommitments
      /\ v.receivedSecretShares = s.receivedSecretShares
      /\ v.secretCoefficients = s.secretCoefficients
      /\ v.key = s.key
      /\ v.out = s.out
  BY Zenon, <1>0 DEF CAState
<1>2. handleComplaint(i, s, k) = IF s.state = "AWAITING_REVEALS" THEN u1 ELSE u2
  BY Zenon DEF handleComplaint
<1> HIDE DEF v
<1>3. MapsAgree(i, v) /\ ConnectedOK(i, v, ch)
  BY Zenon, <1>1 DEF GoodCA, MapsAgree, ConnectedOK
<1>4. PhaseOK(i, v, main[i])
  BY <1>1 DEF GoodCA, PhaseOK, KeyOK
<1>5. GoodCA(i, v, ch) /\ GoodOut(i, v, ch)
  BY Zenon, <1>1, <1>3, <1>4 DEF GoodCA, GoodOut
<1>6. GoodCA(i, u1, ch) /\ GoodOut(i, u1, ch) /\ SameView(i, v, u1)
  BY Zenon, <1>5, CheckRevealGood
<1>7. GoodCA(i, u2, ch) /\ GoodOut(i, u2, ch) /\ SameView(i, v, u2)
  BY Zenon, <1>5, CheckShareGood
<1> QED BY Zenon, <1>1, <1>2, <1>6, <1>7 DEF SameView

\* The put of handleCommitmentHash keeps the invariant: it adds one entry.
LEMMA PutHashGood ==
    ASSUME NEW i \in CA, NEW s, NEW ch, GoodCA(i, s, ch), GoodOut(i, s, ch),
           NEW j \in Peers(i), NEW h \in Hashes, s.receivedHashes[j] = None,
           j \in Honest => h = hashCommitments(OwnReveal)
    PROVE  LET u == putHash(s, j, h)
           IN  /\ GoodCA(i, u, ch) /\ GoodOut(i, u, ch)
               /\ u.receivedHashes = [s.receivedHashes EXCEPT ![j] = h]
               /\ u.receivedCommitments = s.receivedCommitments
<1> DEFINE u == putHash(s, j, h)
<1>0. s \in CAState /\ j \in CA /\ j # i /\ s.receivedHashes \in [CA -> Hashes \cup {None}]
  BY Zenon DEF GoodCA, Peers, CAState, Map
<1>1. u = [s EXCEPT !.receivedHashes = [s.receivedHashes EXCEPT ![j] = h], !.hashCount = s.hashCount + 1]
  BY Zenon DEF putHash
<1> HIDE DEF u
<1>2. /\ u \in CAState
      /\ u.state = s.state
      /\ u.connectedPeerIds = s.connectedPeerIds
      /\ u.receivedHashes = [s.receivedHashes EXCEPT ![j] = h]
      /\ u.hashCount = s.hashCount + 1
      /\ u.disqualifiedIds = s.disqualifiedIds
      /\ u.receivedCommitments = s.receivedCommitments
      /\ u.receivedSecretShares = s.receivedSecretShares
      /\ u.secretCoefficients = s.secretCoefficients
      /\ u.key = s.key
      /\ u.out = s.out
  <2> DEFINE f == [s.receivedHashes EXCEPT ![j] = h]
             k == s.hashCount + 1
  <2>1. f \in Map(Hashes) /\ k \in Nat /\ u = [s EXCEPT !.receivedHashes = f, !.hashCount = k]
    BY <1>0, <1>1 DEF CAState, Map
  <2> HIDE DEF f, k
  <2>2. /\ u \in CAState
        /\ u.receivedHashes = f
        /\ u.hashCount = k
        /\ u.state = s.state
        /\ u.connectedPeerIds = s.connectedPeerIds
        /\ u.disqualifiedIds = s.disqualifiedIds
        /\ u.receivedCommitments = s.receivedCommitments
        /\ u.receivedSecretShares = s.receivedSecretShares
        /\ u.secretCoefficients = s.secretCoefficients
        /\ u.key = s.key
        /\ u.out = s.out
    BY Zenon, <1>0, <2>1 DEF CAState
  <2> QED BY Zenon, <2>2 DEF f, k
<1>3. u.hashCount = Cardinality(Keys(u.receivedHashes))
  <2>1. Keys(u.receivedHashes) = Keys(s.receivedHashes) \cup {j} /\ j \notin Keys(s.receivedHashes)
    BY Zenon, <1>0, <1>2, HashAssumption DEF Keys
  <2>2. IsFiniteSet(Keys(s.receivedHashes))
    BY Zenon, CAAssumption, FS_Subset DEF Keys
  <2>3. Cardinality(Keys(s.receivedHashes) \cup {j}) = Cardinality(Keys(s.receivedHashes)) + 1
    BY Zenon, <2>1, <2>2, FS_AddElement
  <2> QED BY Zenon, <1>2, <2>1, <2>3 DEF GoodCA, MapsAgree
<1>4. s.state = "AWAITING_HASHES"
  BY Zenon, <1>0 DEF GoodCA, PhaseOK
<1>5. s.receivedCommitments[j] = None
  <2>1. s.receivedCommitments[j] # None =>
          s.receivedCommitments[j] \in Reveals
          /\ s.receivedHashes[j] = hashCommitments(s.receivedCommitments[j])
    BY Zenon, <1>0 DEF GoodCA, MapsAgree, CAState, Map
  <2> QED BY Zenon, <2>1, HashAssumption DEF Hashes
<1>6. MapsAgree(i, u)
  BY <1>0, <1>2, <1>3, <1>5 DEF GoodCA, MapsAgree
<1>7. PhaseOK(i, u, main[i]) /\ ConnectedOK(i, u, ch)
  BY Zenon, <1>0, <1>2, <1>4 DEF GoodCA, PhaseOK, ConnectedOK
<1> QED BY Zenon, <1>2, <1>6, <1>7 DEF GoodCA, GoodOut, u
=============================================================================
