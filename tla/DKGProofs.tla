----------------------------- MODULE DKGProofs ------------------------------
(* What DKG guarantees for any set of CAs and any faults: DKGInv, which    *)
(* holds initially and which the main thread, the connections and the      *)
(* handlers of messages keep, and the properties it implies; that the DKG  *)
(* only moves forward; and that, with no faulty CA, it implements KeyGen.  *)
EXTENDS DKGMethodProofs

-----------------------------------------------------------------------------
(* The invariant, CA by CA and connection by connection.                   *)

\* DKGInv gives every CA and what it has in flight in the form the methods use.
LEMMA InvGood ==
    ASSUME DKGInv, NEW i \in CA
    PROVE  GoodCA(i, ca[i], chan[i]) /\ GoodOut(i, ca[i], chan[i]) /\ SaysOK
<1>1. ca[i] \in CAState /\ CAOK(i)
  BY Zenon DEF DKGInv, TypeOK
<1>2. GoodOut(i, ca[i], chan[i])
  BY Zenon DEF DKGInv, LinkOK, GoodOut
<1> QED BY Zenon, <1>1, <1>2 DEF GoodCA, CAOK, SaysOK, DKGInv, TypeOK

\* The initial state satisfies the invariant.
LEMMA InitInv == Init => DKGInv
<1> SUFFICES ASSUME Init PROVE DKGInv
  BY Zenon
<1>1. says \in [CA -> [CA -> Behaviour]] /\ \A i \in Honest, j \in CA : says[i][j] = HonestBehaviour
  BY BehaviourAssumption, ContentsAssumption, OwnRevealFacts DEF Init, HonestBehaviour, Behaviour, Honest
<1>2. CAInit \in CAState
  <2>1. EmptyMap \in Map(Hashes) /\ EmptyMap \in Map(Contents) /\ EmptyMap \in Map(Reveals)
    BY Zenon DEF EmptyMap, Map
  <2>2. [j \in CA |-> <<>>] \in [CA -> Seq(Messages)]
    OBVIOUS
  <2> HIDE DEF EmptyMap
  <2> QED BY Zenon, <2>1, <2>2 DEF CAInit, CAState, DkgState
<1>3. TypeOK
  BY Zenon, <1>1, <1>2 DEF Init, TypeOK, MainState, ChanState
<1>4. ASSUME NEW i \in CA PROVE CAOK(i) /\ ThreadsOK(i)
  <2>1. /\ ca[i].state = "AWAITING_HASHES" /\ ca[i].connectedPeerIds = {} /\ ca[i].hashCount = 0
        /\ ca[i].disqualifiedIds = {}
        /\ \A q \in CA : /\ ca[i].receivedHashes[q] = None
                         /\ ca[i].receivedCommitments[q] = None
                         /\ ca[i].receivedSecretShares[q] = None
    BY Zenon DEF Init, CAInit, EmptyMap
  <2>2. Keys(ca[i].receivedHashes) = {}
    BY Zenon, <2>1 DEF Keys
  <2>3. MapsAgree(i, ca[i])
    BY Zenon, <2>1, <2>2, FS_EmptySet DEF MapsAgree, Honest
  <2>4. PhaseOK(i, ca[i], main[i]) /\ ConnectedOK(i, ca[i], chan[i])
    BY Zenon, <2>1 DEF PhaseOK, ConnectedOK, Init, Peers
  <2> QED BY Zenon, <2>3, <2>4 DEF CAOK, ThreadsOK, Init
<1>5. ASSUME NEW j \in CA, NEW i \in Peers(j) PROVE LinkOK(j, i)
  <2>1. /\ i \in CA /\ ca[j].out[i] = <<>> /\ ca[i].receivedHashes[j] = None
        /\ ca[j].state = "AWAITING_HASHES" /\ chan[j][i] = "closed"
    BY Zenon DEF Init, CAInit, EmptyMap, Peers
  <2> QED BY <2>1 DEF LinkOK, InFlightOK, SentOK, Has
<1> QED BY Zenon, <1>1, <1>3, <1>4, <1>5 DEF DKGInv

\* Receiving the first message of the connection from j to i, where u is what
\* i's handler makes of its state.
LEMMA ConsumeInv ==
    ASSUME DKGInv, NEW i \in CA, NEW j \in Peers(i), NEW u,
           chan[j][i] = "up", ca[j].out[i] # <<>>,
           main[i] \in {"sleeping", "returned"},
           GoodCA(i, u, chan[i]), GoodOut(i, u, chan[i]),
           \A x \in Peers(i) : x # j =>
              /\ u.receivedHashes[x] = ca[i].receivedHashes[x]
              /\ u.receivedCommitments[x] = ca[i].receivedCommitments[x],
           Head(ca[j].out[i]).type = "hash" => u.receivedHashes[j] # None,
           Head(ca[j].out[i]).type # "hash" => u.receivedHashes[j] = ca[i].receivedHashes[j],
           ca[i].receivedCommitments[j] # None => u.receivedCommitments[j] # None,
           Head(ca[j].out[i]).type = "reveal" /\ j \in Honest => u.receivedCommitments[j] # None,
           Consume(i, j, u)
    PROVE  DKGInv'
<1>0. j \in CA /\ i # j /\ i \in Peers(j)
  BY Zenon DEF Peers
<1>1. main' = main /\ chan' = chan /\ says' = says
  BY Zenon DEF Consume
<1>2. ca \in [CA -> CAState] /\ u \in CAState
  BY Zenon DEF DKGInv, TypeOK, GoodCA
<1> DEFINE q == ca[j].out[i]
           cj == [ca[j] EXCEPT !.out = [ca[j].out EXCEPT ![i] = Tail(q)]]
<1>3. ca[j] \in CAState /\ ca[i] \in CAState /\ q \in Seq(Messages) /\ q # <<>>
  BY <1>0, <1>2 DEF CAState
<1>4. /\ cj \in CAState
      /\ cj.state = ca[j].state /\ cj.connectedPeerIds = ca[j].connectedPeerIds
      /\ cj.receivedHashes = ca[j].receivedHashes /\ cj.hashCount = ca[j].hashCount
      /\ cj.disqualifiedIds = ca[j].disqualifiedIds
      /\ cj.receivedCommitments = ca[j].receivedCommitments
      /\ cj.receivedSecretShares = ca[j].receivedSecretShares
      /\ cj.secretCoefficients = ca[j].secretCoefficients /\ cj.key = ca[j].key
      /\ cj.out = [ca[j].out EXCEPT ![i] = Tail(q)]
  <2> DEFINE o == [ca[j].out EXCEPT ![i] = Tail(q)]
  <2>1. o \in [CA -> Seq(Messages)]
    BY <1>3 DEF CAState
  <2>2. cj = [ca[j] EXCEPT !.out = o]
    BY Zenon
  <2> HIDE DEF o, cj
  <2>3. cj \in CAState /\ cj.out = o
    BY Zenon, <1>3, <2>1, <2>2 DEF CAState
  <2>4. /\ cj.state = ca[j].state /\ cj.connectedPeerIds = ca[j].connectedPeerIds
        /\ cj.receivedHashes = ca[j].receivedHashes /\ cj.hashCount = ca[j].hashCount
    BY Zenon, <1>3, <2>1, <2>2 DEF CAState
  <2>5. /\ cj.disqualifiedIds = ca[j].disqualifiedIds
        /\ cj.receivedCommitments = ca[j].receivedCommitments
        /\ cj.receivedSecretShares = ca[j].receivedSecretShares
    BY Zenon, <1>3, <2>1, <2>2 DEF CAState
  <2>6. cj.secretCoefficients = ca[j].secretCoefficients /\ cj.key = ca[j].key
    BY Zenon, <1>3, <2>1, <2>2 DEF CAState
  <2> QED BY Zenon, <2>3, <2>4, <2>5, <2>6 DEF o
<1>5. /\ ca' \in [CA -> CAState] /\ ca'[i] = u /\ ca'[j] = cj
      /\ \A x \in CA : x # i /\ x # j => ca'[x] = ca[x]
  <2>1. ca' = [[ca EXCEPT ![j] = cj] EXCEPT ![i] = u]
    BY Zenon, <1>0, <1>2, <1>3 DEF Consume
  <2> HIDE DEF cj
  <2> QED BY Zenon, <1>0, <1>2, <1>4, <2>1
<1>6. /\ cj.out[i] = Tail(q)
      /\ \A x \in CA : x # i => cj.out[x] = ca[j].out[x]
  BY Zenon, <1>3, <1>4 DEF CAState
<1> HIDE DEF cj, q
<1>7. TypeOK'
  BY Zenon, <1>1, <1>5 DEF DKGInv, TypeOK
<1>8. (\A x \in Honest, y \in CA : says[x][y] = HonestBehaviour)'
  BY Zenon, <1>1 DEF DKGInv
<1>9. ASSUME NEW x \in CA PROVE (CAOK(x) /\ ThreadsOK(x))'
  <2>0. CAOK(x) /\ ThreadsOK(x)
    BY Zenon DEF DKGInv
  <2>1. CASE x = i
    <3>1. CAOK(x)'
      BY Zenon, <1>1, <1>5, <2>1 DEF CAOK, GoodCA
    <3>2. ThreadsOK(x)'
      BY Zenon, <1>1, <2>0, <2>1 DEF ThreadsOK
    <3> QED BY Zenon, <3>1, <3>2
  <2>2. CASE x = j
    <3>1. MapsAgree(j, cj) /\ PhaseOK(j, cj, main[j]) /\ ConnectedOK(j, cj, chan[j])
      <4>1. MapsAgree(j, ca[j]) /\ PhaseOK(j, ca[j], main[j]) /\ ConnectedOK(j, ca[j], chan[j])
        BY Zenon, <2>0, <2>2 DEF CAOK
      <4>2. MapsAgree(j, cj)
        BY <1>4, <4>1 DEF MapsAgree
      <4>3. KeyOK(cj) <=> KeyOK(ca[j])
        BY <1>4 DEF KeyOK
      <4>4. PhaseOK(j, cj, main[j])
        BY <1>4, <4>1, <4>3 DEF PhaseOK
      <4>5. ConnectedOK(j, cj, chan[j])
        BY Zenon, <1>4, <4>1 DEF ConnectedOK
      <4> QED BY Zenon, <4>2, <4>4, <4>5
    <3>2. ThreadsOK(x)'
      BY Zenon, <1>1, <1>4, <1>5, <2>0, <2>2 DEF ThreadsOK, hashPhaseComplete
    <3> QED BY Zenon, <1>1, <1>5, <2>2, <3>1, <3>2 DEF CAOK
  <2>3. CASE x # i /\ x # j
    BY Zenon, <1>1, <1>5, <2>0, <2>3 DEF CAOK, ThreadsOK, hashPhaseComplete
  <2> QED BY Zenon, <2>1, <2>2, <2>3
<1>10. ASSUME NEW a \in CA, NEW b \in Peers(a) PROVE LinkOK(a, b)'
  <2>0. LinkOK(a, b) /\ b \in CA /\ a # b
    BY Zenon DEF DKGInv, Peers
  <2>1. CASE a = i
    <3>1. ca'[b].receivedHashes = ca[b].receivedHashes /\ ca'[b].receivedCommitments = ca[b].receivedCommitments
      BY Zenon, <1>4, <1>5, <2>0, <2>1
    <3>2. /\ InFlightOK(i, u.out[b], ca[b].receivedHashes[i], ca[b].receivedCommitments[i])
          /\ SentOK(i, u.out[b], ca[b].receivedHashes[i], ca[b].receivedCommitments[i],
                    u.state, main[i], chan[i][b])
      BY Zenon, <2>1 DEF GoodOut
    <3> QED BY Zenon, <1>1, <1>5, <2>1, <3>1, <3>2 DEF LinkOK
  <2>2. CASE a = j /\ b = i
    <3> DEFINE h == ca[i].receivedHashes[j]
               c == ca[i].receivedCommitments[j]
               h2 == u.receivedHashes[j]
               c2 == u.receivedCommitments[j]
               st == ca[j].state
    <3>1. InFlightOK(j, q, h, c) /\ SentOK(j, q, h, c, st, main[j], chan[j][i])
      BY Zenon, <2>0, <2>2 DEF LinkOK, q
    <3>2. /\ Head(q).type = "hash" => h2 # None
          /\ Head(q).type # "hash" => h2 = h
          /\ c # None => c2 # None
          /\ Head(q).type = "reveal" /\ j \in Honest => c2 # None
      BY Zenon DEF q
    <3> HIDE DEF h, c, h2, c2, st
    <3>3. InFlightOK(j, Tail(q), h2, c2)
      BY Zenon, <1>0, <1>3, <3>1, <3>2, PopInFlight
    <3>4. /\ Head(q).type # "hash" => (Has(Tail(q), "hash") <=> Has(q, "hash"))
          /\ Head(q).type # "reveal" => (Has(Tail(q), "reveal") <=> Has(q, "reveal"))
      BY Zenon, <1>3, PopHas
    <3>5. SentOK(j, Tail(q), h2, c2, st, main[j], chan[j][i])
      BY Zenon, <3>1, <3>2, <3>4 DEF SentOK
    <3> QED BY Zenon, <1>1, <1>4, <1>5, <1>6, <2>2, <3>3, <3>5 DEF LinkOK, h2, c2, st
  <2>3. CASE a = j /\ b # i
    <3>1. ca'[b] = ca[b] /\ ca'[j].out[b] = ca[j].out[b] /\ ca'[j].state = ca[j].state
      BY Zenon, <1>4, <1>5, <1>6, <2>0, <2>3
    <3> QED BY Zenon, <1>1, <2>0, <2>3, <3>1 DEF LinkOK
  <2>4. CASE a # i /\ a # j /\ b = i
    <3>1. a \in Peers(i)
      BY Zenon, <2>0, <2>4 DEF Peers
    <3>2. u.receivedHashes[a] = ca[i].receivedHashes[a] /\ u.receivedCommitments[a] = ca[i].receivedCommitments[a]
      BY Zenon, <2>4, <3>1
    <3> QED BY Zenon, <1>1, <1>5, <2>0, <2>4, <3>2 DEF LinkOK
  <2>5. CASE a # i /\ a # j /\ b # i
    <3>1. ca'[a] = ca[a] /\ ca'[b].receivedHashes = ca[b].receivedHashes
          /\ ca'[b].receivedCommitments = ca[b].receivedCommitments
      BY Zenon, <1>4, <1>5, <2>0, <2>5
    <3> QED BY Zenon, <1>1, <2>0, <2>5, <3>1 DEF LinkOK
  <2> QED BY Zenon, <2>1, <2>2, <2>3, <2>4, <2>5
<1> QED BY Zenon, <1>7, <1>8, <1>9, <1>10 DEF DKGInv

\* A step of CA i alone, to state u with its main thread at m and its
\* connections at c.
LEMMA LocalInv ==
    ASSUME DKGInv, NEW i \in CA, NEW u \in CAState, NEW m \in MainState, NEW c \in [CA -> ChanState],
           MapsAgree(i, u), PhaseOK(i, u, m), ConnectedOK(i, u, c),
           \A x \in Peers(i) :
              /\ InFlightOK(i, u.out[x], ca[x].receivedHashes[i], ca[x].receivedCommitments[i])
              /\ SentOK(i, u.out[x], ca[x].receivedHashes[i], ca[x].receivedCommitments[i],
                        u.state, m, c[x]),
           \A x \in Peers(i) :
              /\ u.receivedHashes[x] = ca[i].receivedHashes[x]
              /\ u.receivedCommitments[x] = ca[i].receivedCommitments[x],
           m \in {"down", "sleeping", "putting"} => c = [j \in CA |-> "closed"],
           ca' = [ca EXCEPT ![i] = u], main' = [main EXCEPT ![i] = m],
           chan' = [chan EXCEPT ![i] = c], says' = says
    PROVE  DKGInv'
<1>1. /\ ca'[i] = u /\ main'[i] = m /\ chan'[i] = c
      /\ \A x \in CA : x # i => ca'[x] = ca[x] /\ main'[x] = main[x] /\ chan'[x] = chan[x]
  BY Zenon DEF DKGInv, TypeOK
<1>2. TypeOK'
  BY Zenon DEF DKGInv, TypeOK
<1>3. (\A x \in Honest, y \in CA : says[x][y] = HonestBehaviour)'
  BY Zenon DEF DKGInv
<1>4. ASSUME NEW x \in CA PROVE (CAOK(x) /\ ThreadsOK(x))'
  <2>0. CAOK(x) /\ ThreadsOK(x)
    BY Zenon DEF DKGInv
  <2>1. CASE x = i
    <3>1. CAOK(x)'
      BY Zenon, <1>1, <2>1 DEF CAOK
    <3>2. ThreadsOK(x)'
      BY <1>1, <2>0, <2>1 DEF ThreadsOK, hashPhaseComplete
    <3> QED BY Zenon, <3>1, <3>2
  <2>2. CASE x # i
    BY Zenon, <1>1, <2>0, <2>2 DEF CAOK, ThreadsOK, hashPhaseComplete
  <2> QED BY Zenon, <2>1, <2>2
<1>5. ASSUME NEW a \in CA, NEW b \in Peers(a) PROVE LinkOK(a, b)'
  <2>0. LinkOK(a, b) /\ b \in CA /\ a # b
    BY Zenon DEF DKGInv, Peers
  <2>1. CASE a = i
    <3>1. ca'[b] = ca[b]
      BY Zenon, <1>1, <2>0, <2>1
    <3> QED BY <1>1, <2>1, <3>1 DEF LinkOK
  <2>2. CASE b = i
    <3>1. a \in Peers(i) /\ ca'[a] = ca[a] /\ main'[a] = main[a] /\ chan'[a] = chan[a]
      BY Zenon, <1>1, <2>0, <2>2 DEF Peers
    <3>2. u.receivedHashes[a] = ca[i].receivedHashes[a] /\ u.receivedCommitments[a] = ca[i].receivedCommitments[a]
      BY Zenon, <3>1
    <3> QED BY Zenon, <1>1, <2>0, <2>2, <3>1, <3>2 DEF LinkOK
  <2>3. CASE a # i /\ b # i
    <3>1. ca'[a] = ca[a] /\ ca'[b] = ca[b] /\ main'[a] = main[a] /\ chan'[a] = chan[a]
      BY Zenon, <1>1, <2>0, <2>3
    <3> QED BY Zenon, <2>0, <3>1 DEF LinkOK
  <2> QED BY Zenon, <2>1, <2>2, <2>3
<1> QED BY Zenon, <1>2, <1>3, <1>4, <1>5 DEF DKGInv

-----------------------------------------------------------------------------
(* The main thread.                                                        *)

\* A step that only moves the main thread of i, not back before startDKG.
LEMMA MoveMain ==
    ASSUME DKGInv, NEW i \in CA, NEW m \in MainState,
           m \in {"down", "sleeping"} => main[i] \in {"down", "sleeping"},
           main[i] \in {"down", "sleeping"} => m \in {"down", "sleeping", "crashed"},
           main[i] = "crashed" => m = "crashed",
           m \in {"down", "sleeping", "putting"} => chan[i] = [j \in CA |-> "closed"],
           main' = [main EXCEPT ![i] = m], ca' = ca, chan' = chan, says' = says
    PROVE  DKGInv'
<1>1. ca[i] \in CAState /\ chan[i] \in [CA -> ChanState] /\ MapsAgree(i, ca[i])
      /\ PhaseOK(i, ca[i], main[i]) /\ ConnectedOK(i, ca[i], chan[i])
  BY Zenon DEF DKGInv, TypeOK, CAOK
<1>2. PhaseOK(i, ca[i], m)
  BY Zenon, <1>1 DEF PhaseOK
<1>3. ASSUME NEW x \in Peers(i)
      PROVE  /\ InFlightOK(i, ca[i].out[x], ca[x].receivedHashes[i], ca[x].receivedCommitments[i])
             /\ SentOK(i, ca[i].out[x], ca[x].receivedHashes[i], ca[x].receivedCommitments[i],
                       ca[i].state, m, chan[i][x])
  BY Zenon DEF DKGInv, LinkOK, SentOK
<1>4. ca' = [ca EXCEPT ![i] = ca[i]] /\ chan' = [chan EXCEPT ![i] = chan[i]]
  BY Zenon DEF DKGInv, TypeOK
<1> QED BY Zenon, <1>1, <1>2, <1>3, <1>4, LocalInv

\* Launch and Crash.
LEMMA MoveMainSteps ==
    ASSUME DKGInv, NEW i \in CA, Launch(i) \/ Crash(i)
    PROVE  DKGInv'
<1>0. ThreadsOK(i)
  BY Zenon DEF DKGInv
<1>1. CASE Launch(i)
  <2> DEFINE m == "sleeping"
  <2>1. m \in MainState
    BY Zenon DEF MainState
  <2>2. chan[i] = [j \in CA |-> "closed"]
    BY Zenon, <1>0, <1>1 DEF Launch, ThreadsOK
  <2> QED BY Zenon, <1>1, <2>1, <2>2, MoveMain DEF Launch
<1>2. CASE Crash(i)
  <2>1. "crashed" \in MainState
    BY Zenon DEF MainState
  <2> QED BY Zenon, <1>2, <2>1, MoveMain DEF Crash
<1> QED BY Zenon, <1>1, <1>2

\* startDKG puts the first hash i holds of itself.
LEMMA StartDKGStep ==
    ASSUME DKGInv, NEW i \in CA, StartDKG(i)
    PROVE  DKGInv'
<1> DEFINE s == ca[i]
           rh == [s.receivedHashes EXCEPT ![i] = hashCommitments(OwnReveal)]
           u == [s EXCEPT !.secretCoefficients = TRUE, !.receivedHashes = rh, !.hashCount = s.hashCount + 1]
<1>1. /\ s \in CAState /\ chan[i] \in [CA -> ChanState] /\ MapsAgree(i, s)
      /\ PhaseOK(i, s, main[i]) /\ ConnectedOK(i, s, chan[i]) /\ ThreadsOK(i)
  BY Zenon DEF DKGInv, TypeOK, CAOK
<1>2. main[i] = "sleeping" /\ s.state = "AWAITING_HASHES" /\ s.receivedHashes[i] = None
      /\ chan[i] = [j \in CA |-> "closed"]
  BY Zenon, <1>1 DEF StartDKG, PhaseOK, ThreadsOK
<1>3. s.receivedHashes \in Map(Hashes) /\ s.hashCount \in Nat
  BY Zenon, <1>1 DEF CAState
<1>4. hashCommitments(OwnReveal) \in Hashes /\ hashCommitments(OwnReveal) # None
  BY Zenon, OwnRevealFacts
<1>5. /\ rh \in Map(Hashes) /\ rh[i] = hashCommitments(OwnReveal)
      /\ \A x \in CA : x # i => rh[x] = s.receivedHashes[x]
  BY Zenon, <1>3, <1>4 DEF Map
<1> DEFINE k == s.hashCount + 1
<1>6. ca' = [ca EXCEPT ![i] = u] /\ u = [s EXCEPT !.secretCoefficients = TRUE, !.receivedHashes = rh, !.hashCount = k]
  BY ZenonT(60) DEF StartDKG, DKGInv, TypeOK
<1>7. k \in Nat
  BY <1>3
<1>8. k = Cardinality(Keys(rh))
  <2>1. Keys(rh) = Keys(s.receivedHashes) \cup {i} /\ i \notin Keys(s.receivedHashes)
    BY Zenon, <1>2, <1>4, <1>5 DEF Keys
  <2>2. IsFiniteSet(Keys(s.receivedHashes))
    BY Zenon, CAAssumption, FS_Subset DEF Keys
  <2>3. Cardinality(Keys(rh)) = Cardinality(Keys(s.receivedHashes)) + 1
    BY Zenon, <2>1, <2>2, FS_AddElement
  <2>4. s.hashCount = Cardinality(Keys(s.receivedHashes))
    BY Zenon, <1>1 DEF MapsAgree
  <2> QED BY Zenon, <2>3, <2>4
<1> HIDE DEF s, rh, u, k
<1>9. /\ u \in CAState /\ u.secretCoefficients = TRUE /\ u.receivedHashes = rh /\ u.hashCount = k
  BY Zenon, <1>1, <1>5, <1>6, <1>7 DEF CAState
<1>10. /\ u.state = s.state /\ u.connectedPeerIds = s.connectedPeerIds
       /\ u.disqualifiedIds = s.disqualifiedIds
  BY Zenon, <1>1, <1>6 DEF CAState
<1>11. /\ u.receivedCommitments = s.receivedCommitments
       /\ u.receivedSecretShares = s.receivedSecretShares /\ u.out = s.out
  BY Zenon, <1>1, <1>6 DEF CAState
<1>12. MapsAgree(i, u)
  <2>1. \A q \in CA : u.receivedCommitments[q] # None =>
           u.receivedHashes[q] = hashCommitments(u.receivedCommitments[q])
    <3> SUFFICES ASSUME NEW q \in CA, u.receivedCommitments[q] # None
                 PROVE  u.receivedHashes[q] = hashCommitments(u.receivedCommitments[q])
      BY Zenon
    <3>1. s.receivedHashes[q] = hashCommitments(s.receivedCommitments[q])
      BY Zenon, <1>1, <1>11 DEF MapsAgree
    <3>2. s.receivedCommitments[q] \in Reveals
      BY Zenon, <1>1, <1>11 DEF CAState, Map
    <3>3. s.receivedHashes[q] # None
      BY Zenon, <3>1, <3>2, HashAssumption DEF Hashes
    <3> QED BY Zenon, <1>2, <1>5, <1>9, <1>11, <3>1, <3>3
  <2>2. \A q \in Honest \cup {i} : u.receivedHashes[q] \in {None, hashCommitments(OwnReveal)}
    BY Zenon, <1>1, <1>5, <1>9 DEF MapsAgree, Honest
  <2> QED BY Zenon, <1>1, <1>8, <1>9, <1>10, <1>11, <2>1, <2>2 DEF MapsAgree
<1>13. PhaseOK(i, u, "putting") /\ ConnectedOK(i, u, chan[i])
  BY Zenon, <1>1, <1>2, <1>9, <1>10 DEF PhaseOK, ConnectedOK
<1>14. ASSUME NEW x \in Peers(i)
       PROVE  /\ InFlightOK(i, u.out[x], ca[x].receivedHashes[i], ca[x].receivedCommitments[i])
              /\ SentOK(i, u.out[x], ca[x].receivedHashes[i], ca[x].receivedCommitments[i],
                        u.state, "putting", chan[i][x])
  <2>1. LinkOK(i, x) /\ x \in CA
    BY Zenon DEF DKGInv, Peers
  <2>2. chan[i][x] # "up"
    BY Zenon, <1>2, <2>1
  <2> QED BY Zenon, <1>2, <1>10, <1>11, <2>1, <2>2 DEF LinkOK, SentOK, s
<1>15. \A x \in Peers(i) : /\ u.receivedHashes[x] = ca[i].receivedHashes[x]
                           /\ u.receivedCommitments[x] = ca[i].receivedCommitments[x]
  BY Zenon, <1>5, <1>9, <1>11 DEF Peers, s
<1>16. "putting" \in MainState /\ main' = [main EXCEPT ![i] = "putting"]
       /\ chan' = [chan EXCEPT ![i] = chan[i]] /\ says' = says
  BY Zenon DEF StartDKG, MainState, DKGInv, TypeOK
<1> QED BY Zenon, <1>1, <1>2, <1>6, <1>9, <1>12, <1>13, <1>14, <1>15, <1>16, LocalInv

-----------------------------------------------------------------------------
(* A new connection.                                                       *)

\* checkHashPhaseComplete keeps the invariant.
LEMMA CheckHashGood ==
    ASSUME NEW i \in CA, NEW s, NEW ch, GoodCA(i, s, ch), GoodOut(i, s, ch), SaysOK,
           main[i] # "crashed"
    PROVE  LET u == checkHashPhaseComplete(i, s)
           IN  GoodCA(i, u, ch) /\ GoodOut(i, u, ch) /\ SameView(i, s, u)
<1> DEFINE r == revealCommitments(i, s)
<1>1. checkHashPhaseComplete(i, s) = IF hashPhaseComplete(i, s) THEN r ELSE s
  BY Zenon DEF checkHashPhaseComplete
<1>2. CASE hashPhaseComplete(i, s)
  <2>1. GoodCA(i, r, ch) /\ GoodOut(i, r, ch) /\ SameView(i, s, r)
    BY Zenon, <1>2, RevealGood
  <2> QED BY Zenon, <1>1, <1>2, <2>1
<1>3. CASE ~hashPhaseComplete(i, s)
  <2>1. SameView(i, s, s)
    BY Zenon DEF SameView
  <2> QED BY Zenon, <1>1, <1>3, <2>1
<1> QED BY Zenon, <1>2, <1>3

\* A new connection of i to j: the hash goes out on it first, unless i is
\* faulty.  No connection comes up once i has left AWAITING_HASHES, so the
\* late-connection branch of onOutConnectionUp is dead.
LEMMA OnOutConnectionUpStep ==
    ASSUME DKGInv, NEW i \in CA, NEW j \in Peers(i), OnOutConnectionUp(i, j)
    PROVE  DKGInv'
<1> DEFINE b == says[i][j]
           Hello == [k \in CA |-> DKGCommitmentHashMsg(b.hash)]
           Reveal == [k \in CA |-> DKGRevealMsg(b.reveal)]
           r == IF b.early THEN Send(ca[i], {j}, Reveal) ELSE ca[i]
           s == Send(r, {j}, Hello)
           t == [s EXCEPT !.connectedPeerIds = s.connectedPeerIds \cup {j}]
           u == checkHashPhaseComplete(i, t)
           c == [chan[i] EXCEPT ![j] = "up"]
<1>0. /\ j \in CA /\ j # i /\ ca[i] \in CAState /\ chan[i] \in [CA -> ChanState]
      /\ b \in Behaviour /\ chan \in [CA -> [CA -> ChanState]]
  BY DEF Peers, DKGInv, TypeOK
<1>1. GoodCA(i, ca[i], chan[i]) /\ GoodOut(i, ca[i], chan[i]) /\ SaysOK /\ ThreadsOK(i)
  BY Zenon, InvGood DEF DKGInv
<1>2. chan[i][j] = "connecting" /\ main[i] = "returned"
  BY Zenon, <1>0, <1>1 DEF OnOutConnectionUp, EventLoopFree, ThreadsOK
<1>3. ca[i].state = "AWAITING_HASHES"
  BY Zenon, <1>1, <1>2 DEF GoodCA, PhaseOK, ConnectedOK
<1>4. Hello \in [CA -> Messages] /\ Reveal \in [CA -> Messages]
  BY Zenon, <1>0, MessageTypes DEF Behaviour
<1>5. Hello[j].type = "hash" /\ Reveal[j].type = "reveal"
      /\ Hello[j].body = hashCommitments(b.hash) /\ Hello[j] \in Messages /\ Reveal[j] \in Messages
  BY Zenon, <1>0, <1>4 DEF DKGCommitmentHashMsg, DKGRevealMsg
<1>6. i \in Honest => ~b.early /\ b.hash = OwnReveal
  BY <1>0, <1>1 DEF SaysOK, HonestBehaviour
<1>7. {j} \in SUBSET CA
  BY Zenon, <1>0
<1>8. /\ ca' = IF t.state = "AWAITING_HASHES" THEN [ca EXCEPT ![i] = u]
               ELSE [ca EXCEPT ![i] = Send(t, {j}, Reveal)]
      /\ main' = main /\ says' = says
  BY Zenon DEF OnOutConnectionUp
<1>9. chan' = [chan EXCEPT ![i] = c] /\ c \in [CA -> ChanState]
      /\ c[j] = "up" /\ \A x \in CA : x # j => c[x] = chan[i][x]
  BY Zenon, <1>0 DEF OnOutConnectionUp, ChanState
<1> HIDE DEF Hello, Reveal, c, b
<1> DEFINE rr == Send(ca[i], {j}, Reveal)
<1>10. Sent(ca[i], rr, {j}, Reveal)
  BY Zenon, <1>0, <1>4, <1>7, SendType
<1> HIDE DEF rr
<1>11. /\ rr.out[j] = Append(ca[i].out[j], Reveal[j])
       /\ \A x \in CA : x # j => rr.out[x] = ca[i].out[x]
  BY Zenon, <1>10 DEF Sent
<1>14. r = IF b.early THEN rr ELSE ca[i]
  BY Zenon DEF rr
<1> HIDE DEF r
<1>15. r \in CAState /\ r.state = ca[i].state /\ r.connectedPeerIds = ca[i].connectedPeerIds
  BY Zenon, <1>0, <1>10, <1>14 DEF Sent
<1>16. r.receivedHashes = ca[i].receivedHashes /\ r.hashCount = ca[i].hashCount
       /\ r.disqualifiedIds = ca[i].disqualifiedIds
  BY Zenon, <1>10, <1>14 DEF Sent
<1>17. /\ r.receivedCommitments = ca[i].receivedCommitments
       /\ r.receivedSecretShares = ca[i].receivedSecretShares
       /\ r.secretCoefficients = ca[i].secretCoefficients
       /\ r.key = ca[i].key
  BY Zenon, <1>10, <1>14 DEF Sent
<1>18. /\ r.out[j] = IF b.early THEN Append(ca[i].out[j], Reveal[j]) ELSE ca[i].out[j]
       /\ \A x \in CA : x # j => r.out[x] = ca[i].out[x]
  BY Zenon, <1>11, <1>14
<1>19. Sent(r, s, {j}, Hello)
  BY Zenon, <1>4, <1>7, <1>15, SendType
<1> HIDE DEF s
<1>20. s \in CAState /\ s.state = r.state /\ s.connectedPeerIds = r.connectedPeerIds
  BY Zenon, <1>19 DEF Sent
<1>21. s.receivedHashes = r.receivedHashes /\ s.hashCount = r.hashCount
       /\ s.disqualifiedIds = r.disqualifiedIds
  BY Zenon, <1>19 DEF Sent
<1>22. /\ s.receivedCommitments = r.receivedCommitments
       /\ s.receivedSecretShares = r.receivedSecretShares
       /\ s.secretCoefficients = r.secretCoefficients
       /\ s.key = r.key
  BY Zenon, <1>19 DEF Sent
<1>23. /\ s.out[j] = Append(r.out[j], Hello[j])
       /\ \A x \in CA : x # j => s.out[x] = r.out[x]
  BY Zenon, <1>19 DEF Sent
<1> DEFINE P == s.connectedPeerIds \cup {j}
<1>24. P \in SUBSET CA /\ t = [s EXCEPT !.connectedPeerIds = P]
  BY Zenon, <1>0, <1>20 DEF CAState
<1> HIDE DEF t, P
<1>25. t \in CAState /\ t.state = s.state /\ t.connectedPeerIds = P
  BY Zenon, <1>20, <1>24 DEF CAState
<1>26. t.receivedHashes = s.receivedHashes /\ t.hashCount = s.hashCount
       /\ t.disqualifiedIds = s.disqualifiedIds
  BY Zenon, <1>20, <1>24 DEF CAState
<1>27. /\ t.receivedCommitments = s.receivedCommitments
       /\ t.receivedSecretShares = s.receivedSecretShares
       /\ t.secretCoefficients = s.secretCoefficients
       /\ t.out = s.out
  BY Zenon, <1>20, <1>24 DEF CAState
<1>30. t.state = "AWAITING_HASHES" /\ t.connectedPeerIds = ca[i].connectedPeerIds \cup {j}
  BY Zenon, <1>3, <1>15, <1>20, <1>25 DEF P
<1>31. t.receivedHashes = ca[i].receivedHashes /\ t.hashCount = ca[i].hashCount
       /\ t.disqualifiedIds = ca[i].disqualifiedIds
  BY Zenon, <1>16, <1>21, <1>26
<1>32. /\ t.receivedCommitments = ca[i].receivedCommitments
       /\ t.receivedSecretShares = ca[i].receivedSecretShares
       /\ t.secretCoefficients = ca[i].secretCoefficients
  BY Zenon, <1>17, <1>22, <1>27
<1>33. /\ t.out[j] = Append(r.out[j], Hello[j])
       /\ \A x \in CA : x # j => t.out[x] = ca[i].out[x]
  BY Zenon, <1>18, <1>23, <1>27
<1>34. GoodCA(i, t, c)
  <2>0. MapsAgree(i, ca[i]) /\ PhaseOK(i, ca[i], main[i]) /\ ConnectedOK(i, ca[i], chan[i])
    BY Zenon, <1>1 DEF GoodCA
  <2>1. MapsAgree(i, t)
    BY Zenon, <1>31, <1>32, <2>0 DEF MapsAgree
  <2>2. PhaseOK(i, t, main[i])
    BY Zenon, <1>2, <1>3, <1>30, <1>32, <2>0 DEF PhaseOK
  <2>3. ConnectedOK(i, t, c)
    BY Zenon, <1>0, <1>9, <1>30, <2>0 DEF ConnectedOK, Peers
  <2> QED BY Zenon, <1>25, <2>1, <2>2, <2>3 DEF GoodCA
<1>35. GoodOut(i, t, c)
  <2> SUFFICES ASSUME NEW x \in Peers(i)
               PROVE  /\ InFlightOK(i, t.out[x], ca[x].receivedHashes[i], ca[x].receivedCommitments[i])
                      /\ SentOK(i, t.out[x], ca[x].receivedHashes[i], ca[x].receivedCommitments[i],
                                t.state, main[i], c[x])
    BY Zenon DEF GoodOut
  <2>0. /\ InFlightOK(i, ca[i].out[x], ca[x].receivedHashes[i], ca[x].receivedCommitments[i])
        /\ SentOK(i, ca[i].out[x], ca[x].receivedHashes[i], ca[x].receivedCommitments[i],
                  ca[i].state, main[i], chan[i][x])
        /\ x \in CA
    BY Zenon, <1>1 DEF GoodOut, Peers
  <2>1. CASE x # j
    BY Zenon, <1>3, <1>9, <1>30, <1>33, <2>0, <2>1
  <2>2. CASE x = j
    <3> DEFINE q0 == ca[i].out[j]
               q1 == r.out[j]
               h == ca[j].receivedHashes[i]
               d == ca[j].receivedCommitments[i]
               m1 == Reveal[j]
               m2 == Hello[j]
    <3>1. InFlightOK(i, q0, h, d) /\ h = None /\ ~Has(q0, "hash")
      BY Zenon, <1>2, <2>0, <2>2 DEF SentOK
    <3>2. q0 \in Seq(Messages) /\ q1 \in Seq(Messages)
      BY Zenon, <1>0, <1>15 DEF CAState
    <3>3. q1 = IF b.early THEN Append(q0, m1) ELSE q0
      BY Zenon, <1>18
    <3>4. /\ m1 \in Messages /\ m2 \in Messages /\ m1.type = "reveal" /\ m2.type = "hash"
          /\ i \in Honest => m2.body = hashCommitments(OwnReveal)
      BY Zenon, <1>5, <1>6
    <3>5. t.out[x] = Append(q1, m2)
      BY Zenon, <1>33, <2>2
    <3> HIDE DEF q0, q1, h, d, m1, m2
    <3>6. InFlightOK(i, q1, h, d) /\ ~Has(q1, "hash")
      <4>1. CASE b.early
        <5>1. InFlightOK(i, Append(q0, m1), h, d)
          BY Zenon, <1>6, <3>1, <3>2, <3>4, <4>1, AppendInFlight
        <5>2. ~Has(Append(q0, m1), "hash")
          BY Zenon, <3>1, <3>2, <3>4, AppendHas
        <5> QED BY Zenon, <3>3, <4>1, <5>1, <5>2
      <4>2. CASE ~b.early
        BY Zenon, <3>1, <3>3, <4>2
      <4> QED BY Zenon, <4>1, <4>2
    <3>7. InFlightOK(i, Append(q1, m2), h, d)
      BY Zenon, <3>1, <3>2, <3>4, <3>6, AppendInFlight
    <3>8. Has(Append(q1, m2), "hash")
      BY Zenon, <3>2, <3>4, AppendHas
    <3>9. SentOK(i, Append(q1, m2), h, d, "AWAITING_HASHES", main[i], "up")
      BY Zenon, <3>8 DEF SentOK
    <3> QED BY Zenon, <1>9, <1>30, <2>2, <3>5, <3>7, <3>9 DEF h, d
  <2> QED BY Zenon, <2>1, <2>2
<1>36. GoodCA(i, u, c) /\ GoodOut(i, u, c) /\ SameView(i, t, u)
  BY Zenon, <1>1, <1>2, <1>34, <1>35, CheckHashGood
<1> HIDE DEF u
<1>37. /\ ca' = [ca EXCEPT ![i] = u] /\ main' = [main EXCEPT ![i] = main[i]]
       /\ main[i] \in MainState /\ says' = says
  BY Zenon, <1>2, <1>8, <1>30, <1>36 DEF DKGInv, TypeOK
<1>38. \A x \in Peers(i) : /\ u.receivedHashes[x] = ca[i].receivedHashes[x]
                           /\ u.receivedCommitments[x] = ca[i].receivedCommitments[x]
  BY Zenon, <1>31, <1>32, <1>36 DEF SameView
<1>39. \A x \in Peers(i) :
          /\ InFlightOK(i, u.out[x], ca[x].receivedHashes[i], ca[x].receivedCommitments[i])
          /\ SentOK(i, u.out[x], ca[x].receivedHashes[i], ca[x].receivedCommitments[i],
                    u.state, main[i], c[x])
  BY Zenon, <1>36 DEF GoodOut
<1>40. u \in CAState /\ MapsAgree(i, u) /\ PhaseOK(i, u, main[i]) /\ ConnectedOK(i, u, c)
  BY Zenon, <1>36 DEF GoodCA
<1> QED BY Zenon, <1>2, <1>9, <1>37, <1>38, <1>39, <1>40, LocalInv

-----------------------------------------------------------------------------
(* The connections.                                                        *)

\* A step that only opens, loses or retries connections of i.
LEMMA MoveChan ==
    ASSUME DKGInv, NEW i \in CA, NEW m \in MainState, NEW c \in [CA -> ChanState],
           m = main[i] \/ (main[i] = "putting" /\ m = "opened"),
           m \notin {"down", "sleeping", "putting"},
           \A x \in Peers(i) : c[x] = "up" <=> chan[i][x] = "up",
           main' = [main EXCEPT ![i] = m], chan' = [chan EXCEPT ![i] = c],
           ca' = ca, says' = says
    PROVE  DKGInv'
<1>1. ca[i] \in CAState /\ MapsAgree(i, ca[i]) /\ ThreadsOK(i)
      /\ PhaseOK(i, ca[i], main[i]) /\ ConnectedOK(i, ca[i], chan[i])
  BY Zenon DEF DKGInv, TypeOK, CAOK
<1>2. PhaseOK(i, ca[i], m) /\ ConnectedOK(i, ca[i], c)
  BY Zenon, <1>1 DEF PhaseOK, ConnectedOK
<1>3. ASSUME NEW x \in Peers(i)
      PROVE  /\ InFlightOK(i, ca[i].out[x], ca[x].receivedHashes[i], ca[x].receivedCommitments[i])
             /\ SentOK(i, ca[i].out[x], ca[x].receivedHashes[i], ca[x].receivedCommitments[i],
                       ca[i].state, m, c[x])
  BY Zenon DEF DKGInv, LinkOK, SentOK
<1>4. ca' = [ca EXCEPT ![i] = ca[i]]
  BY Zenon DEF DKGInv, TypeOK
<1> QED BY Zenon, <1>1, <1>2, <1>3, <1>4, LocalInv

\* OpenConnections, ConnectionFails and OnOutConnectionFailed.
LEMMA OpenConnectionsStep ==
    ASSUME DKGInv, NEW i \in CA, OpenConnections(i)
    PROVE  DKGInv'
<1> DEFINE c == [j \in CA |-> IF j = i THEN "closed" ELSE "connecting"]
<1>1. c \in [CA -> ChanState] /\ "opened" \in MainState
  BY Zenon DEF ChanState, MainState
<1>2. chan[i] = [j \in CA |-> "closed"]
  BY Zenon DEF OpenConnections, DKGInv, ThreadsOK
<1>3. \A x \in Peers(i) : c[x] = "up" <=> chan[i][x] = "up"
  BY Zenon, <1>2 DEF Peers
<1>4. /\ main[i] = "putting" /\ main' = [main EXCEPT ![i] = "opened"] /\ chan' = [chan EXCEPT ![i] = c]
      /\ ca' = ca /\ says' = says
  BY Zenon DEF OpenConnections
<1> HIDE DEF c
<1> QED BY Zenon, <1>1, <1>3, <1>4, MoveChan

LEMMA ConnectionSteps ==
    ASSUME DKGInv, NEW i \in CA, NEW j \in Peers(i),
           ConnectionFails(i, j) \/ OnOutConnectionFailed(i, j)
    PROVE  DKGInv'
<1>0. j \in CA /\ chan[i] \in [CA -> ChanState] /\ chan \in [CA -> [CA -> ChanState]]
      /\ main \in [CA -> MainState] /\ ThreadsOK(i)
  BY Zenon DEF Peers, DKGInv, TypeOK
<1>1. PICK v \in {"failed", "connecting"} : chan' = [chan EXCEPT ![i][j] = v]
  BY Zenon DEF ConnectionFails, OnOutConnectionFailed
<1>2. chan[i][j] \in {"failed", "connecting"} /\ main' = main /\ ca' = ca /\ says' = says
  BY Zenon DEF ConnectionFails, OnOutConnectionFailed
<1> DEFINE c == [chan[i] EXCEPT ![j] = v]
<1>3. c \in [CA -> ChanState] /\ chan' = [chan EXCEPT ![i] = c]
  BY Zenon, <1>0, <1>1 DEF ChanState
<1>4. \A x \in Peers(i) : c[x] = "up" <=> chan[i][x] = "up"
  BY Zenon, <1>0, <1>2 DEF Peers
<1>5. main[i] \notin {"down", "sleeping", "putting"}
  BY Zenon, <1>0, <1>2 DEF ThreadsOK
<1>6. main' = [main EXCEPT ![i] = main[i]] /\ main[i] \in MainState
  BY Zenon, <1>0, <1>2
<1> HIDE DEF c
<1> QED BY Zenon, <1>2, <1>3, <1>4, <1>5, <1>6, MoveChan

\* The main thread's own checkHashPhaseComplete, at the end of startDKG.
LEMMA CheckHashesStep ==
    ASSUME DKGInv, NEW i \in CA, CheckHashes(i)
    PROVE  DKGInv'
<1> DEFINE u == checkHashPhaseComplete(i, ca[i])
<1>1. main[i] = "opened"
  BY Zenon DEF CheckHashes
<1>2. GoodCA(i, ca[i], chan[i]) /\ GoodOut(i, ca[i], chan[i]) /\ SaysOK
  BY Zenon, InvGood
<1>3. GoodCA(i, u, chan[i]) /\ GoodOut(i, u, chan[i]) /\ SameView(i, ca[i], u)
  BY Zenon, <1>1, <1>2, CheckHashGood
<1>4. /\ ca' = [ca EXCEPT ![i] = u] /\ main' = [main EXCEPT ![i] = "returned"]
      /\ chan' = [chan EXCEPT ![i] = chan[i]] /\ says' = says
      /\ chan[i] \in [CA -> ChanState] /\ "returned" \in MainState
  BY Zenon DEF CheckHashes, DKGInv, TypeOK, MainState
<1> HIDE DEF u
<1>5. u \in CAState /\ MapsAgree(i, u) /\ PhaseOK(i, u, "opened") /\ ConnectedOK(i, u, chan[i])
  BY Zenon, <1>1, <1>3 DEF GoodCA
<1>6. PhaseOK(i, u, "returned")
  BY Zenon, <1>5 DEF PhaseOK
<1>7. ASSUME NEW x \in Peers(i)
      PROVE  /\ InFlightOK(i, u.out[x], ca[x].receivedHashes[i], ca[x].receivedCommitments[i])
             /\ SentOK(i, u.out[x], ca[x].receivedHashes[i], ca[x].receivedCommitments[i],
                       u.state, "returned", chan[i][x])
  BY Zenon, <1>1, <1>3 DEF GoodOut, SentOK
<1>8. \A x \in Peers(i) : /\ u.receivedHashes[x] = ca[i].receivedHashes[x]
                          /\ u.receivedCommitments[x] = ca[i].receivedCommitments[x]
  BY Zenon, <1>3 DEF SameView
<1> QED BY Zenon, <1>4, <1>5, <1>6, <1>7, <1>8, LocalInv

\* What a stopped process had in flight is lost.
LEMMA LoseTailStep ==
    ASSUME DKGInv, NEW i \in CA, NEW j \in Peers(i), LoseTail(i, j)
    PROVE  DKGInv'
<1> DEFINE s == ca[i]
           o == [s.out EXCEPT ![j] = <<>>]
           u == [s EXCEPT !.out = o]
<1>0. j \in CA /\ s \in CAState /\ chan[i] \in [CA -> ChanState] /\ main[i] = "crashed"
  BY Zenon DEF Peers, DKGInv, TypeOK, LoseTail
<1>1. o \in [CA -> Seq(Messages)] /\ o[j] = <<>> /\ \A x \in CA : x # j => o[x] = s.out[x]
  BY <1>0 DEF CAState
<1>2. /\ ca' = [ca EXCEPT ![i] = u] /\ main' = [main EXCEPT ![i] = "crashed"]
      /\ chan' = [chan EXCEPT ![i] = chan[i]] /\ says' = says
      /\ "crashed" \in MainState
  BY Zenon DEF LoseTail, DKGInv, TypeOK, MainState
<1>3. u = [s EXCEPT !.out = o]
  BY Zenon
<1>4. MapsAgree(i, s) /\ PhaseOK(i, s, "crashed") /\ ConnectedOK(i, s, chan[i])
  BY Zenon, <1>0 DEF DKGInv, CAOK
<1> HIDE DEF o, u
<1>5. u \in CAState /\ u.out = o /\ u.state = s.state /\ u.connectedPeerIds = s.connectedPeerIds
  BY Zenon, <1>0, <1>1, <1>3 DEF CAState
<1>6. /\ u.receivedHashes = s.receivedHashes /\ u.hashCount = s.hashCount
      /\ u.disqualifiedIds = s.disqualifiedIds
  BY Zenon, <1>0, <1>1, <1>3 DEF CAState
<1>7. /\ u.receivedCommitments = s.receivedCommitments
      /\ u.receivedSecretShares = s.receivedSecretShares
      /\ u.secretCoefficients = s.secretCoefficients /\ u.key = s.key
  BY Zenon, <1>0, <1>1, <1>3 DEF CAState
<1> HIDE DEF s
<1>8. MapsAgree(i, u)
  BY Zenon, <1>4, <1>6, <1>7 DEF MapsAgree
<1>9. PhaseOK(i, u, "crashed")
  BY <1>4, <1>5, <1>6, <1>7 DEF PhaseOK, KeyOK
<1>10. ConnectedOK(i, u, chan[i])
  BY Zenon, <1>4, <1>5 DEF ConnectedOK
<1>11. ASSUME NEW x \in Peers(i)
       PROVE  /\ InFlightOK(i, u.out[x], ca[x].receivedHashes[i], ca[x].receivedCommitments[i])
              /\ SentOK(i, u.out[x], ca[x].receivedHashes[i], ca[x].receivedCommitments[i],
                        u.state, "crashed", chan[i][x])
  <2>1. LinkOK(i, x) /\ x \in CA
    BY Zenon DEF DKGInv, Peers
  <2>2. CASE x = j
    <3> DEFINE h == ca[x].receivedHashes[i]
               c == ca[x].receivedCommitments[i]
    <3>1. u.out[x] = <<>> /\ Len(<<>>) = 0
      BY Zenon, <1>1, <1>5, <2>2
    <3>2. chan[i][x] # "up" => h = None
      BY Zenon, <2>1 DEF LinkOK, SentOK
    <3> HIDE DEF h, c
    <3>3. InFlightOK(i, u.out[x], h, c)
      BY <3>1 DEF InFlightOK
    <3>4. ~Has(u.out[x], "hash")
      BY <3>1 DEF Has
    <3>5. SentOK(i, u.out[x], h, c, u.state, "crashed", chan[i][x])
      BY Zenon, <3>2, <3>4 DEF SentOK
    <3> QED BY Zenon, <3>3, <3>5 DEF h, c
  <2>3. CASE x # j
    BY Zenon, <1>0, <1>1, <1>5, <2>1, <2>3 DEF LinkOK, SentOK, s
  <2> QED BY Zenon, <2>2, <2>3
<1>12. \A x \in Peers(i) : /\ u.receivedHashes[x] = ca[i].receivedHashes[x]
                           /\ u.receivedCommitments[x] = ca[i].receivedCommitments[x]
  BY Zenon, <1>6, <1>7 DEF s
<1> QED BY Zenon, <1>0, <1>2, <1>5, <1>8, <1>9, <1>10, <1>11, <1>12, LocalInv

-----------------------------------------------------------------------------
(* The handlers of messages.                                               *)

\* What i finds at the head of the connection from j.
LEMMA HeadFacts ==
    ASSUME DKGInv, NEW i \in CA, NEW j \in Peers(i), NEW type, Receivable(i, j, type)
    PROVE  /\ main[i] \in {"sleeping", "returned"}
           /\ type = "hash" => /\ Body(i, j) \in Hashes
                               /\ ca[i].receivedHashes[j] = None
                               /\ j \in Honest => Body(i, j) = hashCommitments(OwnReveal)
           /\ type = "reveal" => /\ Body(i, j) \in Reveals
                                 /\ j \in Honest => ca[i].receivedHashes[j] # None /\ Body(i, j) = OwnReveal
           /\ type = "share" => /\ Body(i, j) \in Contents
                                /\ j \in Honest => ca[i].receivedCommitments[j] # None /\ Body(i, j) = Own
           /\ type = "complaint" => Body(i, j) \in CA /\ Body(i, j) \notin Honest
<1> DEFINE q == ca[j].out[i]
           h == ca[i].receivedHashes[j]
           c == ca[i].receivedCommitments[j]
<1>1. j \in CA /\ i \in Peers(j) /\ ca[j] \in CAState
  BY Zenon DEF Peers, DKGInv, TypeOK
<1>2. InFlightOK(j, q, h, c)
  BY Zenon, <1>1 DEF DKGInv, LinkOK
<1>3. q \in Seq(Messages) /\ q # <<>> /\ Head(q).type = type /\ Body(i, j) = Head(q).body
  BY Zenon, <1>1 DEF CAState, Receivable, Body
<1>4. main[i] \in {"sleeping", "returned"}
  BY Zenon DEF Receivable, EventLoopFree
<1> HIDE DEF q, h, c
<1>5. 1 \in 1..Len(q) /\ q[1] = Head(q) /\ Head(q) \in Messages
  BY <1>3
<1>6. /\ type = "complaint" => Head(q).body \notin Honest
      /\ type = "hash" => h = None
      /\ j \in Honest =>
            /\ type = "hash" => Head(q).body = hashCommitments(OwnReveal)
            /\ type = "reveal" => Head(q).body = OwnReveal
            /\ type = "share" => Head(q).body = Own
            /\ type = "reveal" => h # None
            /\ type = "share" => c # None
  <2>1. 1..(1 - 1) = {}
    OBVIOUS
  <2> QED BY Zenon, <1>2, <1>3, <1>5, <2>1 DEF InFlightOK
<1>7. /\ type = "hash" => Head(q).body \in Hashes
      /\ type = "reveal" => Head(q).body \in Reveals
      /\ type = "share" => Head(q).body \in Contents
      /\ type = "complaint" => Head(q).body \in CA
  BY Zenon, <1>3, <1>5, BodyTypes
<1> QED BY Zenon, <1>3, <1>4, <1>6, <1>7 DEF h, c

LEMMA HandleCommitmentHashStep ==
    ASSUME DKGInv, NEW i \in CA, NEW j \in Peers(i), HandleCommitmentHash(i, j)
    PROVE  DKGInv'
<1> DEFINE h == Body(i, j)
<1>1. Receivable(i, j, "hash") /\ j \in CA /\ i # j
  BY Zenon DEF HandleCommitmentHash, Peers
<1>2. /\ main[i] \in {"sleeping", "returned"}
      /\ h \in Hashes /\ ca[i].receivedHashes[j] = None
      /\ j \in Honest => h = hashCommitments(OwnReveal)
  BY Zenon, <1>1, HeadFacts
<1> DEFINE s == putHash(ca[i], j, h)
           u == checkHashPhaseComplete(i, s)
<1>3. Consume(i, j, u)
  BY Zenon DEF HandleCommitmentHash
<1> HIDE DEF h
<1>4. GoodCA(i, ca[i], chan[i]) /\ GoodOut(i, ca[i], chan[i]) /\ SaysOK
  BY Zenon, InvGood
<1>5. /\ GoodCA(i, s, chan[i]) /\ GoodOut(i, s, chan[i])
      /\ s.receivedHashes = [ca[i].receivedHashes EXCEPT ![j] = h]
      /\ s.receivedCommitments = ca[i].receivedCommitments
  BY <1>2, <1>4, PutHashGood
<1> HIDE DEF s
<1>6. GoodCA(i, u, chan[i]) /\ GoodOut(i, u, chan[i]) /\ SameView(i, s, u)
  BY Zenon, <1>2, <1>4, <1>5, CheckHashGood
<1> HIDE DEF u
<1>8. ca[i].receivedHashes \in Map(Hashes) /\ h # None
  BY Zenon, <1>2, HashAssumption DEF DKGInv, TypeOK, CAState
<1>9. /\ u.receivedHashes[j] # None
      /\ \A x \in Peers(i) : x # j => u.receivedHashes[x] = ca[i].receivedHashes[x]
  <2>1. \A x \in Peers(i) : u.receivedHashes[x] = s.receivedHashes[x]
    BY Zenon, <1>6 DEF SameView
  <2> QED BY Zenon, <1>1, <1>5, <1>8, <2>1 DEF Map, Peers
<1>10. \A x \in Peers(i) : u.receivedCommitments[x] = ca[i].receivedCommitments[x]
  BY Zenon, <1>5, <1>6 DEF SameView
<1>11. chan[j][i] = "up" /\ ca[j].out[i] # <<>> /\ Head(ca[j].out[i]).type = "hash"
  BY Zenon, <1>1 DEF Receivable
<1> QED BY Zenon, <1>2, <1>3, <1>6, <1>9, <1>10, <1>11, ConsumeInv

LEMMA HandleRevealStep ==
    ASSUME DKGInv, NEW i \in CA, NEW j \in Peers(i), HandleReveal(i, j)
    PROVE  DKGInv'
<1> DEFINE c == Body(i, j)
           u == handleReveal(i, ca[i], j, c)
<1>1. Receivable(i, j, "reveal") /\ Consume(i, j, u)
  BY Zenon DEF HandleReveal
<1>2. /\ main[i] \in {"sleeping", "returned"} /\ c \in Reveals
      /\ j \in Honest => ca[i].receivedHashes[j] # None /\ c = OwnReveal
  BY Zenon, <1>1, HeadFacts
<1> HIDE DEF c
<1>3. GoodCA(i, ca[i], chan[i]) /\ GoodOut(i, ca[i], chan[i]) /\ SaysOK
  BY Zenon, InvGood
<1>4. GoodCA(i, u, chan[i]) /\ GoodOut(i, u, chan[i]) /\ RevealView(i, j, ca[i], u)
  BY Zenon, <1>2, <1>3, HandleRevealGood
<1> HIDE DEF u
<1>5. chan[j][i] = "up" /\ ca[j].out[i] # <<>> /\ Head(ca[j].out[i]).type = "reveal"
  BY Zenon, <1>1 DEF Receivable
<1>6. /\ u.receivedHashes = ca[i].receivedHashes
      /\ \A x \in Peers(i) : x # j => u.receivedCommitments[x] = ca[i].receivedCommitments[x]
      /\ ca[i].receivedCommitments[j] # None => u.receivedCommitments[j] # None
      /\ j \in Honest => u.receivedCommitments[j] # None
  BY Zenon, <1>4 DEF RevealView
<1> QED BY Zenon, <1>1, <1>2, <1>4, <1>5, <1>6, ConsumeInv

\* HandleShare and HandleComplaint leave hashes and commitments alone.
LEMMA SameViewInv ==
    ASSUME DKGInv, NEW i \in CA, NEW j \in Peers(i), NEW u,
           NEW type \in {"share", "complaint"}, Receivable(i, j, type),
           GoodCA(i, u, chan[i]), GoodOut(i, u, chan[i]), SameView(i, ca[i], u),
           Consume(i, j, u)
    PROVE  DKGInv'
<1>1. main[i] \in {"sleeping", "returned"}
  BY Zenon, HeadFacts
<1>2. chan[j][i] = "up" /\ ca[j].out[i] # <<>> /\ Head(ca[j].out[i]).type \in {"share", "complaint"}
  BY Zenon DEF Receivable
<1>3. \A x \in Peers(i) : /\ u.receivedHashes[x] = ca[i].receivedHashes[x]
                          /\ u.receivedCommitments[x] = ca[i].receivedCommitments[x]
  BY Zenon DEF SameView
<1> QED BY Zenon, <1>1, <1>2, <1>3, ConsumeInv

LEMMA HandleShareStep ==
    ASSUME DKGInv, NEW i \in CA, NEW j \in Peers(i), HandleShare(i, j)
    PROVE  DKGInv'
<1> DEFINE c == Body(i, j)
           u == handleShare(i, ca[i], j, c)
<1>1. Receivable(i, j, "share") /\ Consume(i, j, u)
  BY Zenon DEF HandleShare
<1>2. c \in Contents /\ (j \in Honest => ca[i].receivedCommitments[j] # None /\ c = Own)
  BY Zenon, <1>1, HeadFacts
<1> HIDE DEF c
<1>3. GoodCA(i, ca[i], chan[i]) /\ GoodOut(i, ca[i], chan[i])
  BY Zenon, InvGood
<1>4. GoodCA(i, u, chan[i]) /\ GoodOut(i, u, chan[i]) /\ SameView(i, ca[i], u)
  BY Zenon, <1>2, <1>3, HandleShareGood
<1> HIDE DEF u
<1> QED BY Zenon, <1>1, <1>4, SameViewInv

LEMMA HandleComplaintStep ==
    ASSUME DKGInv, NEW i \in CA, NEW j \in Peers(i), HandleComplaint(i, j)
    PROVE  DKGInv'
<1> DEFINE k == Body(i, j)
           u == handleComplaint(i, ca[i], k)
<1>1. Receivable(i, j, "complaint") /\ Consume(i, j, u)
  BY Zenon DEF HandleComplaint
<1>2. k \in CA /\ k \notin Honest /\ main[i] # "crashed"
  BY Zenon, <1>1, HeadFacts
<1> HIDE DEF k
<1>3. GoodCA(i, ca[i], chan[i]) /\ GoodOut(i, ca[i], chan[i]) /\ SaysOK
  BY Zenon, InvGood
<1>4. GoodCA(i, u, chan[i]) /\ GoodOut(i, u, chan[i]) /\ SameView(i, ca[i], u)
  BY Zenon, <1>2, <1>3, HandleComplaintGood
<1> HIDE DEF u
<1> QED BY Zenon, <1>1, <1>4, SameViewInv

-----------------------------------------------------------------------------
(* The invariant and what it implies.                                      *)

\* Every step keeps the invariant.
LEMMA NextInv ==
    ASSUME DKGInv, [Next]_vars
    PROVE  DKGInv'
<1>1. CASE UNCHANGED vars
  BY Zenon, <1>1 DEF vars, DKGInv, TypeOK, CAOK, ThreadsOK, LinkOK
<1>2. ASSUME NEW i \in CA, MainThread(i) \/ Crash(i) PROVE DKGInv'
  BY Zenon, <1>2, MoveMainSteps, StartDKGStep, OpenConnectionsStep, CheckHashesStep DEF MainThread
<1>3. ASSUME NEW i \in CA, NEW j \in Peers(i),
             EventLoop(i, j) \/ ConnectionFails(i, j) \/ LoseTail(i, j)
      PROVE  DKGInv'
  BY Zenon, <1>3, OnOutConnectionUpStep, ConnectionSteps, LoseTailStep, HandleCommitmentHashStep,
     HandleRevealStep, HandleShareStep, HandleComplaintStep DEF EventLoop
<1> QED BY Zenon, <1>1, <1>2, <1>3 DEF Next, Process

\* DKGInv is an invariant of the DKG.
THEOREM Invariance ==
    Spec => []DKGInv
<1>1. DKGInv /\ [Next]_vars => DKGInv'
  BY Zenon, NextInv
<1> QED BY <1>1, InitInv, PTL DEF Spec

\* Only hashes travel as hashes and enter receivedHashes, and every field keeps
\* its type.
THEOREM Typed ==
    Spec => []TypeOK
<1>1. DKGInv => TypeOK
  BY Zenon DEF DKGInv
<1> QED BY <1>1, Invariance, PTL

\* No honest CA is ever disqualified, whatever the faulty ones publish,
\* whoever crashes, and in whatever order connections come up.
THEOREM HonestQualified ==
    Spec => []HonestStayQualified
<1>1. DKGInv => HonestStayQualified
  BY Zenon DEF DKGInv, CAOK, MapsAgree, HonestStayQualified
<1> QED BY <1>1, Invariance, PTL

\* Nobody reveals before every CA is committed, and accepted commitments are
\* the committed ones.
THEOREM HashThenReveal ==
    Spec => []CommitBeforeReveal
<1>1. DKGInv => CommitBeforeReveal
  BY DEF DKGInv, CAOK, MapsAgree, PhaseOK, CommitBeforeReveal
<1> QED BY <1>1, Invariance, PTL

\* The key of a finished CA is backed by hashes and verified shares.
THEOREM KeyIsBacked ==
    Spec => []KeyBacked
<1>1. DKGInv => KeyBacked
  BY Zenon DEF DKGInv, CAOK, PhaseOK, KeyOK, KeyBacked, Finished
<1> QED BY <1>1, Invariance, PTL

\* The key of a finished CA contains every honest CA's contribution.
THEOREM HonestAreIn ==
    Spec => []HonestContribute
<1>1. DKGInv => HonestContribute
  BY Zenon DEF DKGInv, CAOK, PhaseOK, KeyOK, HonestContribute, Finished, Honest
<1> QED BY <1>1, Invariance, PTL

\* No share of an honest CA is ever ignored.
THEOREM SharesAreRead ==
    Spec => []NoShareIgnored
<1>1. DKGInv => NoShareIgnored
  <2> SUFFICES ASSUME DKGInv, NEW i \in CA, NEW j \in Honest \ {i}, Receivable(i, j, "share")
               PROVE  ca[i].receivedCommitments[j] # None
    BY Zenon DEF NoShareIgnored
  <2>1. j \in Peers(i)
    BY Zenon DEF Peers, Honest
  <2> QED BY Zenon, <2>1, HeadFacts
<1> QED BY <1>1, Invariance, PTL

\* The polynomials outlive every use of them.
THEOREM PolynomialIsKept ==
    Spec => []PolynomialKept
<1>1. DKGInv => PolynomialKept
  BY Zenon DEF DKGInv, CAOK, PhaseOK, PolynomialKept, Finished
<1> QED BY <1>1, Invariance, PTL

\* With no faulty CA, all finished CAs hold the same master public key.
LEMMA AllOwn ==
    ASSUME DKGInv, Faulty = {}, NEW i \in Honest, Finished(i)
    PROVE  ca[i].key.mpk = [q \in CA |-> Own]
<1>1. i \in CA /\ Honest = CA
  BY Zenon DEF Honest
<1>2. ca[i].key.mpk \in Map(Contents) /\ \A q \in CA : ca[i].key.mpk[q] = Own
  BY Zenon, <1>1 DEF DKGInv, TypeOK, CAState, CAOK, PhaseOK, KeyOK, Finished
<1> QED BY Zenon, <1>2 DEF Map

THEOREM FaultFreeAgreement ==
    ASSUME Faulty = {}
    PROVE  Spec => []Agreement
<1>1. DKGInv => Agreement
  BY Zenon, AllOwn DEF Agreement
<1> QED BY <1>1, Invariance, PTL

-----------------------------------------------------------------------------
(* What a method does to the phase and the key of the CA that runs it.     *)

\* From s to u the phase does not go back and an established key stays.
Forward(s, u) ==
    /\ Rank(u.state) >= Rank(s.state)
    /\ s.state = "DONE" => u.key = s.key

LEMMA ForwardRefl ==
    ASSUME NEW s \in CAState, NEW u, u.state = s.state, u.key = s.key
    PROVE  Forward(s, u)
<1>1. s.state \in DkgState
  BY Zenon DEF CAState
<1> QED BY <1>1 DEF Forward, Rank, DkgState

LEMMA CheckShareForward ==
    ASSUME NEW i \in CA, NEW s \in CAState
    PROVE  LET u == checkSharePhaseComplete(i, s)
           IN  u = s \/ (s.state = "AWAITING_SHARES" /\ u.state = "DONE")
<1> DEFINE Q == Keys(s.receivedCommitments) \ s.disqualifiedIds
           f == [finalizeDKG(s, Q) EXCEPT !.state = "DONE"]
<1>1. Q \in SUBSET CA
  BY Zenon DEF Keys
<1>2. f.state = "DONE"
  BY <1>1, FinalizeEffect
<1> HIDE DEF f, Q
<1>3. checkSharePhaseComplete(i, s) = s
      \/ (s.state = "AWAITING_SHARES" /\ checkSharePhaseComplete(i, s) = f)
  BY Zenon DEF checkSharePhaseComplete, f, Q
<1> QED BY Zenon, <1>2, <1>3

LEMMA CheckRevealForward ==
    ASSUME NEW i \in CA, NEW s \in CAState, SaysOK
    PROVE  LET u == checkRevealPhaseComplete(i, s)
           IN  u = s \/ (s.state = "AWAITING_REVEALS" /\ u.state \in {"AWAITING_SHARES", "DONE"})
<1> DEFINE t == [s EXCEPT !.state = "AWAITING_SHARES"]
           v == [t EXCEPT !.receivedSecretShares[i] = Own]
           P == Peers(i) \ s.disqualifiedIds
           Share == [j \in CA |-> DKGShareMsg(says[i][j].share)]
           w == Send(v, P, Share)
           u == checkRevealPhaseComplete(i, s)
<1>1. t \in CAState /\ t.state = "AWAITING_SHARES"
  BY Zenon DEF CAState, DkgState
<1>2. v \in CAState /\ v.state = "AWAITING_SHARES"
  <2> HIDE DEF t
  <2> DEFINE m == [t.receivedSecretShares EXCEPT ![i] = Own]
  <2>1. m \in Map(Contents)
    BY Zenon, <1>1, ContentsAssumption DEF CAState, Map
  <2>2. v = [t EXCEPT !.receivedSecretShares = m]
    BY Zenon
  <2> HIDE DEF m, v
  <2> QED BY Zenon, <1>1, <2>1, <2>2 DEF CAState
<1>3. P \in SUBSET CA /\ Share \in [CA -> Messages]
  BY Zenon, MessageTypes DEF Peers, SaysOK, Behaviour
<1> HIDE DEF v, P, Share
<1>S. Sent(v, w, P, Share)
  BY Zenon, <1>2, <1>3, SendType
<1> HIDE DEF w, t
<1>4. w \in CAState /\ w.state = "AWAITING_SHARES"
  BY Zenon, <1>2, <1>S DEF Sent
<1>5. checkSharePhaseComplete(i, w).state \in {"AWAITING_SHARES", "DONE"}
  BY Zenon, <1>4, CheckShareForward
<1>6. \/ u = s
      \/ s.state = "AWAITING_REVEALS" /\ u = t
      \/ s.state = "AWAITING_REVEALS" /\ u = checkSharePhaseComplete(i, w)
  BY Zenon DEF checkRevealPhaseComplete, t, v, w, P, Share
<1> HIDE DEF u
<1> QED BY Zenon, <1>1, <1>5, <1>6 DEF u

\* From AWAITING_HASHES every step is forward.
LEMMA FromHashesForward ==
    ASSUME NEW s, NEW u \in CAState, s.state = "AWAITING_HASHES"
    PROVE  Forward(s, u)
<1>1. u.state \in DkgState
  BY Zenon DEF CAState
<1> QED BY <1>1 DEF Forward, Rank, DkgState

\* Both phase checks are forward from any state with the phase and key of s.
LEMMA ChecksForward ==
    ASSUME NEW i \in CA, NEW s \in CAState, NEW t \in CAState, SaysOK,
           t.state = s.state, t.key = s.key
    PROVE  /\ Forward(s, t)
           /\ Forward(s, checkSharePhaseComplete(i, t))
           /\ Forward(s, checkRevealPhaseComplete(i, t))
<1>0. Forward(s, t)
  BY Zenon, ForwardRefl
<1>1. Forward(s, checkSharePhaseComplete(i, t))
  <2> DEFINE u == checkSharePhaseComplete(i, t)
  <2>1. u = t \/ (t.state = "AWAITING_SHARES" /\ u.state = "DONE")
    BY Zenon, CheckShareForward
  <2> SUFFICES Forward(s, u)
    BY Zenon
  <2> HIDE DEF u
  <2>2. CASE u = t
    BY Zenon, <1>0, <2>2
  <2>3. CASE t.state = "AWAITING_SHARES" /\ u.state = "DONE"
    BY <2>3 DEF Forward, Rank
  <2> QED BY Zenon, <2>1, <2>2, <2>3
<1>2. Forward(s, checkRevealPhaseComplete(i, t))
  <2> DEFINE u == checkRevealPhaseComplete(i, t)
  <2>1. u = t \/ (t.state = "AWAITING_REVEALS" /\ u.state \in {"AWAITING_SHARES", "DONE"})
    BY Zenon, CheckRevealForward
  <2> SUFFICES Forward(s, u)
    BY Zenon
  <2> HIDE DEF u
  <2>2. CASE u = t
    BY Zenon, <1>0, <2>2
  <2>3. CASE t.state = "AWAITING_REVEALS" /\ u.state \in {"AWAITING_SHARES", "DONE"}
    BY <2>3 DEF Forward, Rank
  <2> QED BY Zenon, <2>1, <2>2, <2>3
<1> QED BY Zenon, <1>0, <1>1, <1>2

\* Disqualifying a CA touches neither the phase nor the key.
LEMMA DisqualifyKeeps ==
    ASSUME NEW i \in CA, NEW s \in CAState, NEW k \in CA
    PROVE  LET u == disqualify(i, s, k)
           IN  u \in CAState /\ u.state = s.state /\ u.key = s.key
<1> DEFINE v == [s EXCEPT !.disqualifiedIds = s.disqualifiedIds \cup {k}]
           P == IF main[i] = "sleeping" THEN {} ELSE Peers(i) \ {k}
           Complaint == [j \in CA |-> DKGComplaintMsg(k)]
<1>1. v \in CAState /\ v.state = s.state /\ v.key = s.key
  BY Zenon DEF CAState
<1>2. P \in SUBSET CA /\ Complaint \in [CA -> Messages]
  BY Zenon, MessageTypes DEF Peers
<1>3. disqualify(i, s, k) = Send(v, P, Complaint)
  BY Zenon DEF disqualify
<1> HIDE DEF v, P, Complaint
<1> DEFINE u == Send(v, P, Complaint)
<1>S. Sent(v, u, P, Complaint)
  BY Zenon, <1>1, <1>2, SendType
<1> HIDE DEF u
<1>4. u \in CAState /\ u.state = v.state /\ u.key = v.key
  BY Zenon, <1>S DEF Sent
<1> QED BY Zenon, <1>1, <1>3, <1>4 DEF u

LEMMA HandleRevealForward ==
    ASSUME NEW i \in CA, NEW s \in CAState, NEW j \in CA, NEW c \in Reveals, SaysOK
    PROVE  Forward(s, handleReveal(i, s, j, c))
<1> DEFINE t == [s EXCEPT !.receivedCommitments[j] = c]
           d == disqualify(i, s, j)
<1>1. t \in CAState /\ t.state = s.state /\ t.key = s.key
  <2> DEFINE m == [s.receivedCommitments EXCEPT ![j] = c]
  <2>1. m \in Map(Reveals)
    BY Zenon DEF CAState, Map
  <2>2. t = [s EXCEPT !.receivedCommitments = m]
    BY Zenon
  <2> HIDE DEF m, t
  <2> QED BY Zenon, <2>1, <2>2 DEF CAState
<1>2. d \in CAState /\ d.state = s.state /\ d.key = s.key
  BY Zenon, DisqualifyKeeps
<1>3. handleReveal(i, s, j, c) \in {checkRevealPhaseComplete(i, d), checkRevealPhaseComplete(i, t)}
  BY Zenon DEF handleReveal
<1> HIDE DEF t, d
<1> QED BY Zenon, <1>1, <1>2, <1>3, ChecksForward

LEMMA HandleShareForward ==
    ASSUME NEW i \in CA, NEW s \in CAState, NEW j \in CA, NEW c \in Contents, SaysOK
    PROVE  Forward(s, handleShare(i, s, j, c))
<1> DEFINE t == [s EXCEPT !.receivedSecretShares[j] = c]
           d == disqualify(i, s, j)
<1>1. t \in CAState /\ t.state = s.state /\ t.key = s.key
  <2> DEFINE m == [s.receivedSecretShares EXCEPT ![j] = c]
  <2>1. m \in Map(Contents)
    BY Zenon DEF CAState, Map
  <2>2. t = [s EXCEPT !.receivedSecretShares = m]
    BY Zenon
  <2> HIDE DEF m, t
  <2> QED BY Zenon, <2>1, <2>2 DEF CAState
<1>2. d \in CAState /\ d.state = s.state /\ d.key = s.key
  BY Zenon, DisqualifyKeeps
<1>3. handleShare(i, s, j, c) \in {s, checkSharePhaseComplete(i, d), checkSharePhaseComplete(i, t)}
  BY Zenon DEF handleShare
<1> HIDE DEF t, d
<1> QED BY Zenon, <1>1, <1>2, <1>3, ChecksForward

LEMMA HandleComplaintForward ==
    ASSUME NEW i \in CA, NEW s \in CAState, NEW k \in CA, SaysOK
    PROVE  Forward(s, handleComplaint(i, s, k))
<1> DEFINE t == [s EXCEPT !.disqualifiedIds = s.disqualifiedIds \cup {k}]
<1>1. t \in CAState /\ t.state = s.state /\ t.key = s.key
  BY Zenon DEF CAState
<1>2. handleComplaint(i, s, k) \in {checkRevealPhaseComplete(i, t), checkSharePhaseComplete(i, t)}
  BY Zenon DEF handleComplaint
<1> HIDE DEF t
<1> QED BY Zenon, <1>1, <1>2, ChecksForward

-----------------------------------------------------------------------------
(* What a step does to the phases and keys of all CAs.                     *)

\* A step moves at most CA i, forward.
OneForward(i) ==
    /\ Forward(ca[i], ca'[i])
    /\ \A x \in CA : x # i => ca'[x].state = ca[x].state /\ ca'[x].key = ca[x].key

\* A handler of i that turns its state into u.
LEMMA ConsumeForward ==
    ASSUME TypeOK, NEW i \in CA, NEW j \in Peers(i), NEW u, Forward(ca[i], u), Consume(i, j, u)
    PROVE  OneForward(i)
<1> DEFINE o == [ca[j].out EXCEPT ![i] = Tail(ca[j].out[i])]
           cj == [ca[j] EXCEPT !.out = o]
<1>1. j \in CA /\ j # i /\ ca \in [CA -> CAState] /\ ca[j] \in CAState
  BY Zenon DEF Peers, TypeOK
<1>2. ca' = [[ca EXCEPT ![j] = cj] EXCEPT ![i] = u]
  BY Zenon, <1>1 DEF Consume
<1>3. cj.state = ca[j].state /\ cj.key = ca[j].key
  <2> HIDE DEF o
  <2> QED BY Zenon, <1>1 DEF CAState
<1> HIDE DEF cj
<1> QED BY Zenon, <1>1, <1>2, <1>3 DEF OneForward

LEMMA StepForward ==
    ASSUME DKGInv, DKGInv', [Next]_vars
    PROVE  (ca' = ca) \/ \E i \in CA : OneForward(i)
<1>0. TypeOK /\ ca \in [CA -> CAState] /\ ca' \in [CA -> CAState] /\ SaysOK
  BY Zenon DEF DKGInv, TypeOK, SaysOK
<1>1. ASSUME NEW i \in CA, ca[i].state = "AWAITING_HASHES",
             \A x \in CA : x # i => ca'[x].state = ca[x].state /\ ca'[x].key = ca[x].key
      PROVE  OneForward(i)
  BY Zenon, <1>0, <1>1, FromHashesForward DEF OneForward
<1>2. ASSUME NEW i \in CA, MainThread(i) PROVE (ca' = ca) \/ OneForward(i)
  <2>1. CASE Launch(i) \/ OpenConnections(i)
    BY Zenon, <2>1 DEF Launch, OpenConnections
  <2>2. CASE StartDKG(i)
    <3>1. ca[i].state = "AWAITING_HASHES"
      BY Zenon, <2>2 DEF StartDKG, DKGInv, CAOK, PhaseOK
    <3>2. \A x \in CA : x # i => ca'[x] = ca[x]
      BY Zenon, <1>0, <2>2 DEF StartDKG
    <3> QED BY Zenon, <1>1, <3>1, <3>2
  <2>3. CASE CheckHashes(i)
    <3>1. ca'[i] = checkHashPhaseComplete(i, ca[i]) /\ \A x \in CA : x # i => ca'[x] = ca[x]
      BY Zenon, <1>0, <2>3 DEF CheckHashes
    <3>2. CASE hashPhaseComplete(i, ca[i])
      BY Zenon, <1>1, <3>1, <3>2 DEF hashPhaseComplete
    <3>3. CASE ~hashPhaseComplete(i, ca[i])
      <4>1. ca' = [ca EXCEPT ![i] = ca[i]]
        BY Zenon, <2>3, <3>3 DEF CheckHashes, checkHashPhaseComplete
      <4> QED BY Zenon, <1>0, <4>1
    <3> QED BY Zenon, <3>2, <3>3
  <2> QED BY Zenon, <1>2, <2>1, <2>2, <2>3 DEF MainThread
<1>4. ASSUME NEW i \in CA, NEW j \in Peers(i), OnOutConnectionUp(i, j) PROVE OneForward(i)
  <2>1. chan[i][j] = "connecting" /\ PhaseOK(i, ca[i], main[i]) /\ ConnectedOK(i, ca[i], chan[i])
    BY Zenon, <1>4 DEF OnOutConnectionUp, DKGInv, CAOK
  <2>2. ca[i].state = "AWAITING_HASHES"
    BY Zenon, <2>1 DEF PhaseOK, ConnectedOK
  <2>3. PICK v : ca' = [ca EXCEPT ![i] = v]
    BY Zenon, <1>4 DEF OnOutConnectionUp
  <2>4. \A x \in CA : x # i => ca'[x] = ca[x]
    BY Zenon, <1>0, <2>3
  <2> QED BY Zenon, <1>1, <2>2, <2>4
<1>5. ASSUME NEW i \in CA, NEW j \in Peers(i), HandleCommitmentHash(i, j) PROVE OneForward(i)
  <2>1. Receivable(i, j, "hash")
    BY Zenon, <1>5 DEF HandleCommitmentHash
  <2>2. main[i] \in {"sleeping", "returned"} /\ Body(i, j) \in Hashes /\ ca[i].receivedHashes[j] = None
    BY Zenon, <2>1, HeadFacts
  <2> DEFINE u == checkHashPhaseComplete(i, putHash(ca[i], j, Body(i, j)))
  <2>3. Consume(i, j, u)
    BY Zenon, <1>5 DEF HandleCommitmentHash
  <2>4. ca[i].state = "AWAITING_HASHES"
    <3>1. j \in CA /\ PhaseOK(i, ca[i], main[i])
      BY Zenon DEF Peers, DKGInv, CAOK
    <3> QED BY Zenon, <2>2, <3>1 DEF PhaseOK
  <2>5. j # i /\ j \in CA /\ ca'[i] = u
    BY Zenon, <1>0, <2>3 DEF Consume, Peers
  <2>6. u \in CAState
    BY Zenon, <1>0, <2>5
  <2>7. Forward(ca[i], u)
    BY Zenon, <2>4, <2>6, FromHashesForward
  <2> HIDE DEF u
  <2> QED BY Zenon, <1>0, <2>3, <2>7, ConsumeForward DEF u
<1>6. ASSUME NEW i \in CA, NEW j \in Peers(i), HandleReveal(i, j) PROVE OneForward(i)
  <2> DEFINE u == handleReveal(i, ca[i], j, Body(i, j))
  <2>1. Receivable(i, j, "reveal") /\ Consume(i, j, u) /\ j \in CA
    BY Zenon, <1>6 DEF HandleReveal, Peers
  <2>2. Body(i, j) \in Reveals
    BY Zenon, <2>1, HeadFacts
  <2>3. Forward(ca[i], u)
    BY Zenon, <1>0, <2>1, <2>2, HandleRevealForward
  <2> HIDE DEF u
  <2> QED BY Zenon, <1>0, <2>1, <2>3, ConsumeForward
<1>7. ASSUME NEW i \in CA, NEW j \in Peers(i), HandleShare(i, j) PROVE OneForward(i)
  <2> DEFINE u == handleShare(i, ca[i], j, Body(i, j))
  <2>1. Receivable(i, j, "share") /\ Consume(i, j, u) /\ j \in CA
    BY Zenon, <1>7 DEF HandleShare, Peers
  <2>2. Body(i, j) \in Contents
    BY Zenon, <2>1, HeadFacts
  <2>3. Forward(ca[i], u)
    BY Zenon, <1>0, <2>1, <2>2, HandleShareForward
  <2> HIDE DEF u
  <2> QED BY Zenon, <1>0, <2>1, <2>3, ConsumeForward
<1>8. ASSUME NEW i \in CA, NEW j \in Peers(i), HandleComplaint(i, j) PROVE OneForward(i)
  <2> DEFINE u == handleComplaint(i, ca[i], Body(i, j))
  <2>1. Receivable(i, j, "complaint") /\ Consume(i, j, u)
    BY Zenon, <1>8 DEF HandleComplaint
  <2>2. Body(i, j) \in CA
    BY Zenon, <2>1, HeadFacts
  <2>3. Forward(ca[i], u)
    BY Zenon, <1>0, <2>2, HandleComplaintForward
  <2> HIDE DEF u
  <2> QED BY Zenon, <1>0, <2>1, <2>3, ConsumeForward
<1>9. ASSUME NEW i \in CA, NEW j \in Peers(i), LoseTail(i, j) PROVE OneForward(i)
  <2>1. ca'[i] = [ca[i] EXCEPT !.out = [ca[i].out EXCEPT ![j] = <<>>]] /\ \A x \in CA : x # i => ca'[x] = ca[x]
    BY Zenon, <1>0, <1>9 DEF LoseTail
  <2> DEFINE o == [ca[i].out EXCEPT ![j] = <<>>]
  <2>2. ca'[i] = [ca[i] EXCEPT !.out = o]
    BY Zenon, <2>1
  <2> HIDE DEF o
  <2>3. ca'[i].state = ca[i].state /\ ca'[i].key = ca[i].key
    BY Zenon, <1>0, <2>2 DEF CAState
  <2>4. Forward(ca[i], ca'[i])
    BY Zenon, <1>0, <2>3, ForwardRefl
  <2> QED BY Zenon, <2>1, <2>4 DEF OneForward
<1>10. ASSUME NEW i \in CA, NEW j \in Peers(i),
              EventLoop(i, j) \/ ConnectionFails(i, j) \/ LoseTail(i, j)
       PROVE  (ca' = ca) \/ OneForward(i)
  <2>1. CASE OnOutConnectionFailed(i, j) \/ ConnectionFails(i, j)
    BY Zenon, <2>1 DEF OnOutConnectionFailed, ConnectionFails
  <2> QED BY Zenon, <1>4, <1>5, <1>6, <1>7, <1>8, <1>9, <1>10, <2>1 DEF EventLoop
<1>11. CASE UNCHANGED vars
  BY Zenon, <1>11 DEF vars
<1>12. ASSUME NEW i \in CA, Crash(i) PROVE ca' = ca
  BY Zenon, <1>12 DEF Crash
<1> QED BY Zenon, <1>2, <1>10, <1>11, <1>12 DEF Next, Process

\* The DKG only moves forward, and an established key is never replaced.
THEOREM ForwardOnly ==
    Spec => PhaseForward
<1>1. DKGInv /\ DKGInv' /\ [Next]_vars =>
         [\A i \in CA : /\ Rank(ca'[i].state) >= Rank(ca[i].state)
                        /\ Finished(i) => ca'[i].key = ca[i].key]_vars
  <2> SUFFICES ASSUME DKGInv, DKGInv', [Next]_vars, NEW i \in CA
               PROVE  Forward(ca[i], ca'[i])
    BY Zenon DEF Forward, Finished
  <2>1. ca[i] \in CAState
    BY Zenon DEF DKGInv, TypeOK
  <2>2. CASE ca' = ca
    BY Zenon, <2>1, <2>2, ForwardRefl
  <2>3. ASSUME NEW k \in CA, OneForward(k) PROVE Forward(ca[i], ca'[i])
    BY Zenon, <2>1, <2>3, ForwardRefl DEF OneForward
  <2> QED BY Zenon, <2>2, <2>3, StepForward
<1> QED BY <1>1, Invariance, PTL DEF Spec, PhaseForward

-----------------------------------------------------------------------------
(* The DKG implements KeyGen.                                              *)

\* With no faulty CA, the DKG implements KeyGen.
THEOREM FaultFreeRefinement ==
    ASSUME Faulty = {}
    PROVE  Spec => ImplementsKeyGen
<1> DEFINE key == [i \in Honest |-> IF Finished(i) THEN ca[i].key.mpk ELSE None]
           own == [q \in CA |-> Own]
<1>0. Honest = CA /\ own \in Map(Contents)
  BY Zenon, ContentsAssumption DEF Honest, Map
<1>1. Init => KG!Init
  BY <1>0 DEF Init, KG!Init, Finished, CAInit
<1>2. ASSUME DKGInv, DKGInv', [Next]_vars
      PROVE  KG!Next \/ key' = key
  <2>1. CASE ca' = ca
    BY Zenon, <2>1 DEF Finished
  <2>2. ASSUME NEW i \in CA, OneForward(i) PROVE KG!Next \/ key' = key
    <3>1. \A x \in CA : x # i => key'[x] = key[x]
      BY Zenon, <1>0, <2>2 DEF OneForward, Finished
    <3>2. CASE Finished(i)
      <4>1. ca'[i].state \in DkgState /\ Rank(ca'[i].state) >= 3
        BY Zenon, <1>2, <2>2, <3>2 DEF OneForward, Forward, Finished, Rank, DKGInv, TypeOK, CAState
      <4>2. ca'[i].state = "DONE" /\ ca'[i].key = ca[i].key
        BY <2>2, <3>2, <4>1 DEF OneForward, Forward, Finished, Rank, DkgState
      <4>3. key'[i] = key[i]
        BY Zenon, <1>0, <3>2, <4>2 DEF Finished
      <4> QED BY Zenon, <1>0, <3>1, <4>3
    <3>3. CASE ~Finished(i) /\ ~Finished(i)'
      <4>1. key'[i] = key[i]
        BY Zenon, <1>0, <3>3 DEF Finished
      <4> QED BY Zenon, <1>0, <3>1, <4>1
    <3>4. CASE ~Finished(i) /\ Finished(i)'
      <4>1. key[i] = None
        BY Zenon, <1>0, <3>4
      <4>2. \A j \in CA : key[j] \in {None, own}
        BY Zenon, <1>0, <1>2, AllOwn
      <4>3. key'[i] = own
        <5>1. (ca[i].key.mpk = own)'
          <6>1. (ca[i].key.mpk \in Map(Contents) /\ \A q \in CA : ca[i].key.mpk[q] = Own)'
            BY Zenon, <1>0, <1>2, <3>4 DEF DKGInv, TypeOK, CAState, CAOK, PhaseOK, KeyOK, Finished
          <6> QED BY Zenon, <6>1 DEF Map
        <5> QED BY Zenon, <1>0, <3>4, <5>1
      <4>4. key' = [key EXCEPT ![i] = own]
        BY Zenon, <1>0, <3>1, <4>3
      <4> HIDE DEF own
      <4>5. KG!Establish(i, own)
        BY Zenon, <1>0, <4>1, <4>2, <4>4 DEF KG!Establish
      <4> QED BY Zenon, <1>0, <4>5 DEF KG!Next
    <3> QED BY Zenon, <3>2, <3>3, <3>4
  <2> QED BY Zenon, <1>2, <2>1, <2>2, StepForward
<1>3. DKGInv /\ DKGInv' /\ [Next]_vars => [KG!Next]_key
  BY Zenon, <1>2
<1> HIDE DEF key
<1> QED BY <1>1, <1>3, Invariance, PTL DEF Spec, ImplementsKeyGen, KG!Spec, key

=============================================================================
