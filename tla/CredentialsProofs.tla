------------------------- MODULE CredentialsProofs --------------------------
(* The keys of the CAs come from one polynomial, so whichever CAs answer,  *)
(* their shares combine to the credential of the user, and a DA accepts    *)
(* the registration made from it; for every prime order, every set of CAs, *)
(* every threshold and every hash.                                         *)
EXTENDS CredentialsAlgebra

\* The coefficients of a CA: null, or a threshold of field elements.
Coefficients == {<<>>} \cup [1 .. Threshold -> Zn]

\* The keys come from one polynomial that nobody has to know: the master keys
\* commit to its value at 0, and the share of a CA is its value at the CA's ID.
SharedKey ==
    \E f \in Poly(Threshold) :
        /\ masterPubKeyG2 = f[0] /\ masterPubKeyG1 = mul(H, f[0])
        /\ secretKeyShare = [j \in Ids |-> f[j]]

\* The registration that SendRegistrationToDA builds from the secret, with the
\* random k of the DLEQ proof.
Built(k) ==
    [pk |-> publicKeyG2, vrf |-> buildProof(secretX), commitment |-> credentialCommitmentG1,
     credential |-> credential, dleq |-> generateProof(secretX, credentialCommitmentG1, publicKeyG2, k)]

\* A dealer has both polynomials or none, and once there is a key it is shared.
DealersInv ==
    /\ secretCoefficients \in [Qualified -> Coefficients]
    /\ blindingCoefficients \in [Qualified -> Coefficients]
    /\ \A i \in Qualified : Generated(i) => blindingCoefficients[i] # <<>>
    /\ masterPubKeyG2 # None => SharedKey

\* The shares the user holds are made with the keys of the CAs, and its
\* credential and registration with the shared key.
UserInv ==
    /\ secretX # None => secretX \in Zn /\ blindingFactor \in Zn /\ masterPubKeyG2 # None
    /\ DOMAIN receivedShares \subseteq Ids
    /\ secretX = None => DOMAIN receivedShares = {}
    /\ receivedShares = [j \in DOMAIN receivedShares |-> mul(createBlindedCommit, secretKeyShare[j])]
    /\ thresholdReached <=> Cardinality(DOMAIN receivedShares) >= Threshold
    /\ credential = IF thresholdReached THEN mul(secretX, masterPubKeyG2) ELSE None
    /\ registration # None => thresholdReached /\ add(secretX, Context) # 0 /\ \E k \in Zn : registration = Built(k)

CredentialsInv == DealersInv /\ UserInv

-----------------------------------------------------------------------------
(* What the operators of the model compute.                                *)

\* IDs are points of the field other than 0.
LEMMA Points == Ids \in SUBSET (Zn \ {0}) /\ Ids \in SUBSET Zn /\ Qualified \in SUBSET Ids /\ IsFiniteSet(Ids)
                /\ IsFiniteSet(Qualified) /\ Threshold \in Nat \ {0} /\ H \in Zn \ {0} /\ Context \in Zn
<1>1. Ids \in SUBSET Zn /\ Qualified \in SUBSET Zn
  BY Zenon, IdsAssumption
<1>2. IsFiniteSet(Ids) /\ IsFiniteSet(Qualified)
  BY Zenon, <1>1, ZnFinite
<1>3. Threshold \in Nat \ {0}
  BY IdsAssumption
<1> QED BY Zenon, <1>1, <1>2, <1>3, IdsAssumption, HAssumption

\* Exponents of g are the logarithms themselves.
LEMMA PowG == \A a \in Zn : pow(g, a) = a /\ map(a, g) = a
  BY Zenon, MulLaws DEF pow, map, g

\* verifyShare compares the commitment to the share with the value of the
\* committed polynomial.
LEMMA VerifyMeans ==
    ASSUME NEW a \in Zn, NEW b \in Zn, NEW C, NEW id
    PROVE  verifyShare(a, b, C, id) <=> add(a, mul(H, b)) = evaluatePolynomial(C, id)
<1>1. verifyShare(a, b, C, id) <=> op(pow(g, a), pow(H, b)) = evaluatePolynomial(C, id)
  BY Zenon DEF verifyShare, evaluatePolynomial, MapThenFoldSet, op, pow
<1> QED BY Zenon, <1>1, PowG DEF op, pow

\* The blinding factor cancels.
LEMMA Unblind ==
    ASSUME NEW x \in Zn, NEW r \in Zn, NEW k \in Zn, NEW h \in Zn
    PROVE  add(mul(add(x, mul(h, r)), k), neg(mul(mul(h, k), r))) = mul(x, k)
<1>1. mul(h, r) \in Zn /\ mul(h, k) \in Zn /\ mul(x, k) \in Zn
  BY Zenon, Closed
<1>2. mul(add(x, mul(h, r)), k) = add(mul(x, k), mul(mul(h, r), k))
  BY <1>1, Distributive
<1>3. mul(mul(h, r), k) = mul(h, mul(k, r)) /\ mul(mul(h, k), r) = mul(h, mul(k, r))
  <2>1. mul(mul(h, r), k) = mul(h, mul(k, r))
    BY Zenon, MulSwap
  <2>2. mul(mul(h, k), r) = mul(h, mul(k, r))
    BY MulLaws
  <2> QED BY Zenon, <2>1, <2>2
<1>4. PICK w \in Zn : w = mul(mul(h, k), r)
  BY Zenon, <1>1, Closed
<1>5. neg(w) \in Zn /\ add(w, neg(w)) = 0
  BY Zenon, Closed, AddLaws
<1>6. add(add(mul(x, k), w), neg(w)) = add(mul(x, k), add(w, neg(w)))
  BY <1>1, <1>5, AddLaws
<1>7. add(mul(x, k), 0) = mul(x, k)
  BY Zenon, <1>1, AddLaws
<1> QED BY Zenon, <1>2, <1>3, <1>4, <1>5, <1>6, <1>7

\* The first messages reconstructed from the answers r and s to the challenges
\* c and d, for the secrets y and x, are the same.
SameMessages(x, y, r, c, s, d) ==
    add(r, neg(mul(y, c))) = add(s, neg(mul(y, d))) /\ add(r, neg(mul(x, c))) = add(s, neg(mul(x, d)))

\* Then the challenges are the same, unless the secrets are.
LEMMA Difference ==
    ASSUME NEW x \in Zn, NEW y \in Zn, NEW r \in Zn, NEW s \in Zn, NEW c \in Zn, NEW d \in Zn,
           x # y, SameMessages(x, y, r, c, s, d)
    PROVE  c = d
<1>1. ASSUME NEW a \in Zn, NEW b \in Zn
      PROVE  mul(add(x, neg(y)), b) = add(add(a, neg(mul(y, b))), neg(add(a, neg(mul(x, b)))))
  <2>1. PICK u \in Zn, v \in Zn, m \in Zn, n \in Zn : u = mul(x, b) /\ v = mul(y, b) /\ m = neg(v) /\ n = neg(a)
    BY Zenon, Closed
  <2>2. mul(add(x, neg(y)), b) = add(u, m)
    <3>1. neg(y) \in Zn
      BY Zenon, Closed
    <3>2. mul(add(x, neg(y)), b) = add(mul(x, b), mul(neg(y), b))
      BY <3>1, Distributive
    <3>3. mul(neg(y), b) = neg(mul(y, b))
      BY Zenon, NegLaws
    <3> QED BY Zenon, <3>2, <3>3, <2>1
  <2>3. neg(add(a, neg(u))) = add(n, u)
    <3>1. neg(u) \in Zn /\ neg(neg(u)) = u
      BY Zenon, Closed, NegLaws
    <3>2. neg(add(a, neg(u))) = add(neg(a), neg(neg(u)))
      BY Zenon, <3>1, NegLaws
    <3> QED BY Zenon, <2>1, <3>1, <3>2
  <2>4. add(add(a, m), add(n, u)) = add(u, m)
    <3>1. add(a, m) = add(m, a) /\ add(a, n) = 0 /\ add(0, u) = u /\ add(m, u) = add(u, m)
      BY <2>1, AddLaws
    <3>2. add(n, u) \in Zn
      BY Zenon, Closed
    <3>3. add(add(m, a), add(n, u)) = add(m, add(a, add(n, u)))
      BY <3>2, AddLaws
    <3>4. add(a, add(n, u)) = add(add(a, n), u)
      BY AddLaws
    <3> QED BY Zenon, <3>1, <3>3, <3>4
  <2> QED BY Zenon, <2>1, <2>2, <2>3, <2>4
<1>2. mul(add(x, neg(y)), c) = add(add(r, neg(mul(y, c))), neg(add(r, neg(mul(x, c)))))
  BY Zenon, <1>1
<1>3. mul(add(x, neg(y)), d) = add(add(s, neg(mul(y, d))), neg(add(s, neg(mul(x, d)))))
  BY Zenon, <1>1
<1>4. mul(add(x, neg(y)), c) = mul(add(x, neg(y)), d)
  BY Zenon, <1>2, <1>3 DEF SameMessages
<1>5. add(x, neg(y)) \in Zn \ {0}
  BY Zenon, Closed, NegLaws
<1> QED BY Zenon, <1>4, <1>5, Cancel

-----------------------------------------------------------------------------
(* The inductive invariant.                                                *)

\* The initial state satisfies the invariant.
LEMMA InitInv == Init => CredentialsInv
<1> SUFFICES ASSUME Init PROVE CredentialsInv
  BY Zenon
<1>1. DealersInv
  BY Zenon DEF Init, DealersInv, Coefficients, Generated
<1>2. UserInv
  <2>1. DOMAIN receivedShares = {} /\ secretX = None /\ ~thresholdReached /\ credential = None /\ registration = None
    BY DEF Init
  <2>2. receivedShares = [j \in {} |-> mul(createBlindedCommit, secretKeyShare[j])]
    BY DEF Init
  <2>3. Cardinality(DOMAIN receivedShares) = 0 /\ ~(0 >= Threshold)
    BY <2>1, FS_EmptySet, Points
  <2> QED BY Zenon, <2>1, <2>2, <2>3 DEF UserInv
<1> QED BY Zenon, <1>1, <1>2 DEF CredentialsInv

\* What the user side says while nothing of it changes.
LEMMA UserStays ==
    ASSUME UserInv, UNCHANGED <<secretKeyShare, masterPubKeyG2>>,
           UNCHANGED <<secretX, blindingFactor, receivedShares, thresholdReached, credential, registration>>
    PROVE  UserInv'
  BY Zenon DEF UserInv, Built, createBlindedCommit, publicKeyG2, credentialCommitmentG1, buildProof, generateProof

\* ... and before there is a user.
LEMMA NoUser ==
    ASSUME UserInv, secretX = None
    PROVE  /\ DOMAIN receivedShares = {} /\ ~thresholdReached /\ credential = None /\ registration = None
<1>1. DOMAIN receivedShares = {}
  BY Zenon DEF UserInv
<1>2. Cardinality(DOMAIN receivedShares) = 0 /\ ~(0 >= Threshold)
  BY <1>1, FS_EmptySet, Points
<1>3. ~thresholdReached
  BY Zenon, <1>2 DEF UserInv
<1> QED BY Zenon, <1>1, <1>3 DEF UserInv

\* ... also when the keys or the secret are made meanwhile.
LEMMA NoUserStays ==
    ASSUME UserInv, secretX = None, UNCHANGED <<receivedShares, thresholdReached, credential, registration>>,
           secretX' # None => secretX' \in Zn /\ blindingFactor' \in Zn /\ masterPubKeyG2' # None
    PROVE  UserInv'
<1>1. (/\ DOMAIN receivedShares = {} /\ ~thresholdReached /\ credential = None /\ registration = None
       /\ receivedShares = [j \in DOMAIN receivedShares |-> receivedShares[j]])'
  BY Zenon, NoUser DEF UserInv
<1>2. Cardinality(DOMAIN receivedShares)' = 0 /\ ~(0 >= Threshold)
  BY <1>1, FS_EmptySet, Points
<1>3. (receivedShares = [j \in DOMAIN receivedShares |-> mul(createBlindedCommit, secretKeyShare[j])])'
  BY Zenon, <1>1
<1> QED BY Zenon, <1>1, <1>2, <1>3 DEF UserInv

\* A new polynomial has a threshold of coefficients, and blinding ones.
LEMMA GenerateInv ==
    ASSUME CredentialsInv, NEW i \in Qualified, GeneratePrivatePolynomial(i) PROVE CredentialsInv'
<1>1. UserInv'
  BY Zenon, UserStays DEF CredentialsInv, GeneratePrivatePolynomial
<1>2. PICK secret \in [1 .. Threshold -> Draws], blinding \in [1 .. Threshold -> Draws] :
          /\ secretCoefficients' = [secretCoefficients EXCEPT ![i] = secret]
          /\ blindingCoefficients' = [blindingCoefficients EXCEPT ![i] = blinding]
  BY Zenon DEF GeneratePrivatePolynomial
<1>3. secret \in [1 .. Threshold -> Zn] /\ blinding \in [1 .. Threshold -> Zn]
  BY Zenon, HAssumption
<1>4. secretCoefficients \in [Qualified -> Coefficients] /\ blindingCoefficients \in [Qualified -> Coefficients]
  BY Zenon DEF CredentialsInv, DealersInv
<1>5. (secretCoefficients \in [Qualified -> Coefficients] /\ blindingCoefficients \in [Qualified -> Coefficients])'
  BY Zenon, <1>2, <1>3, <1>4 DEF Coefficients
<1>6. blinding # <<>>
  <2>1. 1 \in DOMAIN blinding /\ 1 \notin DOMAIN <<>>
    BY Points
  <2> QED BY Zenon, <2>1
<1>7. (\A j \in Qualified : Generated(j) => blindingCoefficients[j] # <<>>)'
  BY Zenon, <1>2, <1>4, <1>6 DEF CredentialsInv, DealersInv, Generated
<1>8. masterPubKeyG2' = None
  BY Zenon DEF GeneratePrivatePolynomial
<1> QED BY Zenon, <1>1, <1>5, <1>7, <1>8 DEF CredentialsInv, DealersInv

\* The sum of the dealers' polynomials is the polynomial of the keys.
LEMMA FinalizeInv == ASSUME CredentialsInv, FinalizeDKG PROVE CredentialsInv'
<1>1. secretX = None
  BY Zenon DEF CredentialsInv, UserInv, FinalizeDKG
<1>2. UserInv'
  BY Zenon, <1>1, NoUserStays DEF CredentialsInv, FinalizeDKG
<1>3. \A i \in Qualified : secretCoefficients[i] \in [1 .. Threshold -> Zn]
  BY Zenon DEF CredentialsInv, DealersInv, Coefficients, FinalizeDKG
<1> DEFINE F == [i \in Qualified |-> [x \in Zn |-> evaluatePolynomial(secretCoefficients[i], x)]]
           f == [x \in Zn |-> Total([i \in Qualified |-> F[i][x]])]
           c == [i \in Qualified |-> secretCoefficients[i][1]]
<1>4. \A i \in Qualified, x \in Zn : evaluatePolynomial(secretCoefficients[i], x) \in Zn
  BY Zenon, <1>3, Points, EvaluateType
<1>5. F \in [Qualified -> Poly(Threshold)]
  <2>1. ASSUME NEW i \in Qualified
        PROVE  [x \in Zn |-> evaluatePolynomial(secretCoefficients[i], x)] \in Poly(Threshold)
    BY Zenon, <1>3, <1>4 DEF Poly
  <2> QED BY Zenon, <2>1
<1>6. f \in Poly(Threshold)
  <2>1. Threshold \in Nat /\ IsFiniteSet(Qualified)
    BY Zenon, Points
  <2> HIDE DEF F
  <2> QED BY Zenon, <2>1, <1>5, PolyTotal
<1>7. secretKeyShare' = [j \in Ids |-> f[j]]
  <2>1. \A j \in Ids : j \in Zn
    BY Zenon, Points
  <2>2. ASSUME NEW j \in Ids
        PROVE  Total([i \in Qualified |-> evaluatePolynomial(secretCoefficients[i], j)]) = f[j]
    <3>1. [i \in Qualified |-> evaluatePolynomial(secretCoefficients[i], j)] = [i \in Qualified |-> F[i][j]]
      BY Zenon, <2>1
    <3> HIDE DEF F
    <3> QED BY Zenon, <2>1, <3>1
  <2> HIDE DEF f
  <2> QED BY Zenon, <2>2 DEF FinalizeDKG
<1>8. ASSUME NEW i \in Qualified PROVE c[i] \in Zn /\ F[i][0] = c[i]
  <2>1. secretCoefficients[i][1] \in Zn /\ evaluatePolynomial(secretCoefficients[i], 0) = secretCoefficients[i][1]
    BY Zenon, <1>3, Points, EvaluateAtZero
  <2> QED BY Zenon, <2>1, Constants
<1>9. c \in [Qualified -> Zn] /\ f[0] = Total(c)
  <2>1. [i \in Qualified |-> F[i][0]] = c
    <3> HIDE DEF F
    <3> QED BY Zenon, <1>8
  <2>2. c \in [Qualified -> Zn]
    BY Zenon, <1>8
  <2> HIDE DEF F, c
  <2> QED BY Zenon, <2>1, <2>2, Constants
<1>10. masterPubKeyG2' = f[0]
  <2>1. \A i \in Qualified : plainPubKeyG2(i) = c[i]
    BY Zenon, <1>8, PowG DEF plainPubKeyG2
  <2>2. [i \in Qualified |-> plainPubKeyG2(i)] = c
    BY Zenon, <2>1
  <2> HIDE DEF f, c
  <2> QED BY Zenon, <1>9, <2>2 DEF FinalizeDKG
<1>11. masterPubKeyG1' = mul(H, f[0])
  <2>1. masterPubKeyG1' = Total([i \in Qualified |-> mul(H, c[i])])
    BY Zenon DEF FinalizeDKG, plainPubKeyG1, pow
  <2> HIDE DEF f, c
  <2>2. Total([i \in Qualified |-> mul(H, c[i])]) = mul(H, Total(c))
    BY Zenon, <1>9, Points, TotalScale
  <2> QED BY Zenon, <1>9, <2>1, <2>2
<1>12. DealersInv'
  <2>1. secretCoefficients' = [i \in Qualified |-> <<>>] /\ blindingCoefficients' = [i \in Qualified |-> <<>>]
    BY Zenon DEF FinalizeDKG
  <2>2. SharedKey'
    <3> HIDE DEF f
    <3> QED BY Zenon, <1>6, <1>7, <1>10, <1>11 DEF SharedKey
  <2> QED BY Zenon, <2>1, <2>2 DEF DealersInv, Coefficients, Generated
<1> QED BY Zenon, <1>2, <1>12 DEF CredentialsInv

\* A new user has a secret and a blinding factor, and no shares.
LEMMA NewUserInv == ASSUME CredentialsInv, NewUser PROVE CredentialsInv'
<1>1. UserInv'
  <2>1. secretX' \in Zn /\ blindingFactor' \in Zn /\ masterPubKeyG2' # None
    BY Zenon, HAssumption DEF NewUser, caVars
  <2> QED BY Zenon, <2>1, NoUserStays DEF CredentialsInv, NewUser
<1>2. DealersInv'
  BY Zenon DEF CredentialsInv, DealersInv, SharedKey, NewUser, caVars, Generated
<1> QED BY Zenon, <1>1, <1>2 DEF CredentialsInv

\* The answer that reaches the threshold combines exactly as many shares as
\* the polynomial has coefficients; no denominator is zero.
LEMMA AnswerInv == ASSUME CredentialsInv, NEW i \in Ids, Answer(i) PROVE CredentialsInv'
<1> DEFINE D == DOMAIN receivedShares
           E == D \cup {i}
           C == createBlindedCommit
           shares == [j \in E |-> IF j = i THEN issueSignatureShare(i, C) ELSE receivedShares[j]]
           enough == Cardinality(E) >= Threshold /\ ~thresholdReached
           throws == \E j \in E : denominator(j, E) = 0
<1>1. /\ secretX # None /\ i \notin D
      /\ receivedShares' = shares
      /\ thresholdReached' = (thresholdReached \/ (Cardinality(DOMAIN shares) >= Threshold /\ ~thresholdReached))
      /\ credential' = IF (Cardinality(DOMAIN shares) >= Threshold /\ ~thresholdReached)
                              /\ ~(\E j \in DOMAIN shares : denominator(j, DOMAIN shares) = 0)
                       THEN unblindSignature(aggregateShares(shares)) ELSE credential
      /\ UNCHANGED <<caVars, secretX, blindingFactor, registration>>
  BY Zenon DEF Answer
<1>2. DOMAIN shares = E
  BY Zenon
<1>3. /\ thresholdReached' = (thresholdReached \/ enough)
      /\ credential' = IF enough /\ ~throws THEN unblindSignature(aggregateShares(shares)) ELSE credential
  <2> HIDE DEF shares, E
  <2> QED BY Zenon, <1>1, <1>2
<1>4. /\ secretX \in Zn /\ blindingFactor \in Zn /\ SharedKey /\ D \subseteq Ids
      /\ receivedShares = [j \in D |-> mul(C, secretKeyShare[j])]
      /\ thresholdReached <=> Cardinality(D) >= Threshold
      /\ credential = IF thresholdReached THEN mul(secretX, masterPubKeyG2) ELSE None
  BY Zenon, <1>1 DEF CredentialsInv, DealersInv, UserInv
<1>5. PICK f \in Poly(Threshold) : /\ masterPubKeyG2 = f[0] /\ masterPubKeyG1 = mul(H, f[0])
                                   /\ secretKeyShare = [j \in Ids |-> f[j]]
  BY Zenon, <1>4 DEF SharedKey
<1>6. E \in SUBSET Zn /\ E \subseteq Ids /\ D \in SUBSET Zn
  BY Zenon, <1>4, Points
<1>7. C \in Zn /\ C = add(secretX, mul(H, blindingFactor)) /\ f \in [Zn -> Zn] /\ f[0] \in Zn
  <2>1. C = add(secretX, mul(H, blindingFactor))
    BY Zenon, <1>4, PowG DEF createBlindedCommit, op, pow
  <2>2. mul(H, blindingFactor) \in Zn
    BY Zenon, <1>4, Points, Closed
  <2>3. f \in [Zn -> Zn]
    BY Zenon DEF Poly
  <2> QED BY Zenon, <2>1, <2>2, <2>3, <1>4, Closed, Constants
<1>8. shares = [j \in E |-> mul(C, f[j])]
  <2>1. ASSUME NEW j \in E PROVE shares[j] = mul(C, f[j])
    <3>1. secretKeyShare[j] = f[j]
      BY Zenon, <1>5, <1>6
    <3>2. CASE j = i
      BY Zenon, <3>1, <3>2 DEF issueSignatureShare, pow
    <3>3. CASE j # i
      <4>1. j \in D
        BY Zenon, <3>3
      <4>2. receivedShares[j] = mul(C, secretKeyShare[j])
        <5> HIDE DEF D, C
        <5> QED BY Zenon, <1>4, <4>1
      <4> HIDE DEF C
      <4> QED BY Zenon, <3>1, <3>3, <4>2
    <3> QED BY Zenon, <3>2, <3>3
  <2> HIDE DEF E, C
  <2> QED BY Zenon, <2>1 DEF shares
<1> HIDE DEF shares, C
<1>9. Cardinality(D) \in Nat /\ Cardinality(E) = Cardinality(D) + 1
  <2>1. IsFiniteSet(D) /\ Cardinality(D) \in Nat
    BY Zenon, <1>6, ZnFinite
  <2> HIDE DEF D
  <2> QED BY Zenon, <1>1, <2>1, FS_AddElement
<1>10. ~throws
  BY Zenon, <1>6, DenominatorNonzero
<1> HIDE DEF throws, D, E
<1>11. thresholdReached' <=> Cardinality(E) >= Threshold
  <2>1. Cardinality(D) >= Threshold => Cardinality(E) >= Threshold
    BY <1>9, Points
  <2> QED BY Zenon, <1>3, <1>4, <2>1
<1>12. credential' = IF thresholdReached' THEN mul(secretX, masterPubKeyG2) ELSE None
  <2>1. CASE thresholdReached
    BY Zenon, <2>1, <1>3, <1>4
  <2>2. CASE ~thresholdReached /\ ~(Cardinality(E) >= Threshold)
    BY <2>2, <1>3, <1>4, <1>11
  <2>3. CASE enough
    <3>1. Cardinality(E) = Threshold
      BY <2>3, <1>4, <1>9, Points
    <3>2. aggregateShares(shares) = mul(C, f[0])
      BY Zenon, <3>1, <1>6, <1>7, <1>8, AggregatePoly
    <3>3. unblindSignature(mul(C, f[0])) = add(mul(C, f[0]), neg(mul(mul(H, f[0]), blindingFactor)))
      BY Zenon, <1>5 DEF unblindSignature, op, inverse, pow
    <3>4. add(mul(C, f[0]), neg(mul(mul(H, f[0]), blindingFactor))) = mul(secretX, f[0])
      <4>1. PICK x \in Zn, r \in Zn, k \in Zn, h \in Zn :
                 x = secretX /\ r = blindingFactor /\ k = f[0] /\ h = H
        BY Zenon, <1>4, <1>7, Points
      <4>2. add(mul(add(x, mul(h, r)), k), neg(mul(mul(h, k), r))) = mul(x, k)
        BY Unblind
      <4> QED BY Zenon, <4>1, <4>2, <1>7
    <3>5. thresholdReached' /\ credential' = unblindSignature(aggregateShares(shares))
      BY Zenon, <2>3, <1>3, <1>10
    <3> QED BY Zenon, <3>2, <3>3, <3>4, <3>5, <1>5
  <2> QED BY Zenon, <2>1, <2>2, <2>3
<1>13. UserInv'
  <2>1. UNCHANGED <<secretX, blindingFactor, registration, secretKeyShare, masterPubKeyG2>>
    BY Zenon, <1>1 DEF caVars
  <2>2. DOMAIN receivedShares' = E
    BY Zenon, <1>1, <1>2
  <2>3. createBlindedCommit' = C
    BY Zenon, <2>1 DEF createBlindedCommit, C
  <2>4. \A j \in E : secretKeyShare'[j] = f[j]
    BY Zenon, <1>5, <1>6, <2>1
  <2>5. receivedShares' = [j \in DOMAIN receivedShares' |-> mul(createBlindedCommit', secretKeyShare'[j])]
    BY Zenon, <1>1, <1>8, <2>2, <2>3, <2>4
  <2>6. registration' # None =>
            /\ thresholdReached' /\ add(secretX', Context) # 0
            /\ \E k \in Zn : registration' = Built(k)'
    <3> SUFFICES ASSUME registration # None
                 PROVE  /\ thresholdReached' /\ add(secretX', Context) # 0
                        /\ \E k \in Zn : registration' = Built(k)'
      BY Zenon, <2>1
    <3>1. thresholdReached /\ add(secretX, Context) # 0
      BY Zenon DEF CredentialsInv, UserInv
    <3>2. PICK k \in Zn : registration = Built(k)
      BY Zenon DEF CredentialsInv, UserInv
    <3>3. credential' = credential /\ thresholdReached'
      BY Zenon, <1>3, <3>1
    <3>4. Built(k)' = Built(k)
      BY Zenon, <2>1, <3>3 DEF Built, publicKeyG2, credentialCommitmentG1, buildProof, generateProof
    <3> QED BY Zenon, <2>1, <3>1, <3>2, <3>3, <3>4
  <2>7. (secretX # None => secretX \in Zn /\ blindingFactor \in Zn /\ masterPubKeyG2 # None)'
    BY Zenon, <2>1 DEF CredentialsInv, UserInv
  <2>8. (secretX = None => DOMAIN receivedShares = {})'
    BY Zenon, <1>1, <2>1
  <2>9. (DOMAIN receivedShares \subseteq Ids)'
    BY Zenon, <1>6, <2>2
  <2>10. (thresholdReached <=> Cardinality(DOMAIN receivedShares) >= Threshold)'
    BY Zenon, <1>11, <2>2
  <2>11. (credential = IF thresholdReached THEN mul(secretX, masterPubKeyG2) ELSE None)'
    BY Zenon, <1>12, <2>1
  <2> QED BY Zenon, <2>5, <2>6, <2>7, <2>8, <2>9, <2>10, <2>11 DEF UserInv
<1>14. DealersInv'
  BY Zenon, <1>1 DEF CredentialsInv, DealersInv, SharedKey, caVars, Generated
<1> QED BY Zenon, <1>13, <1>14 DEF CredentialsInv

\* Sending changes nothing but the registration.
LEMMA SendInv == ASSUME CredentialsInv, SendRegistrationToDA PROVE CredentialsInv'
<1>1. DealersInv'
  BY Zenon DEF CredentialsInv, DealersInv, SharedKey, SendRegistrationToDA, caVars, Generated
<1>2. PICK k \in Zn : registration' = Built(k)
  BY Zenon DEF SendRegistrationToDA, Built
<1>3. UNCHANGED <<secretX, blindingFactor, receivedShares, thresholdReached, credential,
                secretKeyShare, masterPubKeyG2>>
  BY Zenon DEF SendRegistrationToDA, caVars
<1>4. Built(k)' = Built(k)
  BY Zenon, <1>3 DEF Built, publicKeyG2, credentialCommitmentG1, buildProof, generateProof
<1>5. thresholdReached /\ add(secretX, Context) # 0
  BY Zenon DEF CredentialsInv, UserInv, SendRegistrationToDA
<1>6. UserInv'
  BY Zenon, <1>2, <1>3, <1>4, <1>5 DEF CredentialsInv, UserInv, createBlindedCommit
<1> QED BY Zenon, <1>1, <1>6 DEF CredentialsInv

\* In every reachable state the keys are those of one polynomial, and what the
\* user has was computed from them.
THEOREM CredentialsInvariant == Spec => []CredentialsInv
<1>1. CredentialsInv /\ [Next]_vars => CredentialsInv'
  <2> SUFFICES ASSUME CredentialsInv, [Next]_vars PROVE CredentialsInv'
    BY Zenon
  <2>1. CASE UNCHANGED vars
    <3>1. DealersInv'
      BY Zenon, <2>1 DEF CredentialsInv, DealersInv, SharedKey, Generated, vars
    <3>2. UserInv'
      BY Zenon, <2>1, UserStays DEF CredentialsInv, vars
    <3> QED BY Zenon, <3>1, <3>2 DEF CredentialsInv
  <2> QED BY Zenon, <2>1, GenerateInv, FinalizeInv, NewUserInv, AnswerInv, SendInv DEF Next
<1> QED BY <1>1, InitInv, PTL DEF Spec

-----------------------------------------------------------------------------
(* What the runs check, for every value of the constants.                  *)

\* A share an honest dealer evaluates passes verifyShare, and no other share
\* does that agrees with it in one half.
THEOREM SharesAlwaysVerify == Spec => []SharesVerify
<1>1. CredentialsInv => SharesVerify
  <2> SUFFICES ASSUME CredentialsInv, NEW i \in Qualified, Generated(i), NEW j \in Ids
               PROVE  LET s == evaluatePolynomial(secretCoefficients[i], j)
                          t == evaluatePolynomial(blindingCoefficients[i], j)
                      IN  /\ verifyShare(s, t, commitmentsG1(i), j)
                          /\ \A a, b \in Zn : verifyShare(a, b, commitmentsG1(i), j) => (a = s <=> b = t)
    BY Zenon DEF SharesVerify
  <2>1. PICK c \in [1 .. Threshold -> Zn], d \in [1 .. Threshold -> Zn] :
             c = secretCoefficients[i] /\ d = blindingCoefficients[i]
    BY Zenon DEF CredentialsInv, DealersInv, Coefficients, Generated
  <2>2. commitmentsG1(i) = [k \in 1 .. Threshold |-> add(c[k], mul(H, d[k]))]
    <3>1. \A k \in 1 .. Threshold : pow(g, c[k]) = c[k]
      BY Zenon, PowG
    <3>2. DOMAIN c = 1 .. Threshold
      BY Zenon
    <3>3. commitmentsG1(i) = [k \in DOMAIN c |-> op(pow(g, c[k]), pow(H, d[k]))]
      BY Zenon, <2>1 DEF commitmentsG1
    <3> QED BY Zenon, <3>1, <3>2, <3>3 DEF op, pow
  <2>3. PICK s \in Zn, t \in Zn : s = evaluatePolynomial(c, j) /\ t = evaluatePolynomial(d, j)
    BY Zenon, Points, EvaluateType
  <2>4. evaluatePolynomial(commitmentsG1(i), j) = add(s, mul(H, t))
    <3>1. j \in Zn /\ Threshold \in Nat /\ H \in Zn
      BY SMTT(30), Points
    <3>2. evaluatePolynomial([k \in 1 .. Threshold |-> add(c[k], mul(H, d[k]))], j)
             = add(evaluatePolynomial(c, j), mul(H, evaluatePolynomial(d, j)))
      BY ZenonT(60), <3>1, EvaluateLinear
    <3> QED BY Zenon, <2>2, <2>3, <3>2
  <2>5. \A a, b \in Zn : verifyShare(a, b, commitmentsG1(i), j) <=> add(a, mul(H, b)) = add(s, mul(H, t))
    BY <2>4, VerifyMeans
  <2>6. ASSUME NEW a \in Zn, NEW b \in Zn, add(a, mul(H, b)) = add(s, mul(H, t)) PROVE a = s <=> b = t
    <3>1. PICK u \in Zn, v \in Zn : u = mul(H, b) /\ v = mul(H, t)
      BY Zenon, Closed, Points
    <3>2. a = s => b = t
      BY Zenon, <2>6, <3>1, Points, Cancel
    <3>3. add(v, a) = add(a, v) /\ add(v, s) = add(s, v)
      BY Zenon, AddLaws
    <3>4. b = t => a = s
      BY <2>6, <3>1, <3>3, Cancel
    <3> QED BY Zenon, <3>2, <3>4
  <2> QED BY Zenon, <2>1, <2>3, <2>5, <2>6
<1> QED BY <1>1, CredentialsInvariant, PTL

\* Shares of one CA less than the threshold fit every secret: to the dealer's
\* polynomial add a multiple of one that vanishes on those CAs and is 1 at 0.
THEOREM SharesAlwaysHide == Spec => []SharesHide
<1>1. CredentialsInv => SharesHide
  <2> SUFFICES ASSUME CredentialsInv, NEW i \in Qualified, Generated(i),
                      NEW S \in SUBSET Ids, Cardinality(S) = Threshold - 1, NEW z \in Zn
               PROVE  \E c \in [1 .. Len(secretCoefficients[i]) -> Zn] :
                          /\ c[1] = z
                          /\ \A j \in S : evaluatePolynomial(c, j) = evaluatePolynomial(secretCoefficients[i], j)
    BY Zenon DEF SharesHide
  <2>1. PICK s \in [1 .. Threshold -> Zn] : s = secretCoefficients[i]
    BY Zenon DEF CredentialsInv, DealersInv, Coefficients, Generated
  <2>2. Len(s) = Threshold
    BY Points
  <2>3. PICK d \in [1 .. Threshold -> Zn] : d[1] = 1 /\ \A j \in S : evaluatePolynomial(d, j) = 0
    <3>1. S \in SUBSET (Zn \ {0}) /\ Cardinality(S) + 1 = Threshold
      BY Points
    <3>2. PICK f \in Poly(Threshold) : f[0] = 1 /\ \A j \in S : f[j] = 0
      BY Zenon, <3>1, Vanishing
    <3>3. PICK d \in [1 .. Threshold -> Zn] : \A x \in Zn : f[x] = evaluatePolynomial(d, x)
      BY Zenon DEF Poly
    <3>4. d[1] = evaluatePolynomial(d, 0)
      BY Zenon, Points, EvaluateAtZero
    <3>5. d[1] = 1
      BY Zenon, <3>2, <3>3, <3>4, Constants
    <3>6. \A j \in S : evaluatePolynomial(d, j) = 0
      BY Zenon, <3>1, <3>2, <3>3
    <3> QED BY Zenon, <3>5, <3>6
  <2>4. 1 \in 1 .. Threshold /\ s[1] \in Zn
    BY Points
  <2>5. PICK y \in Zn : y = add(z, neg(s[1]))
    BY Zenon, <2>4, Closed
  <2> DEFINE c == [k \in 1 .. Threshold |-> add(s[k], mul(y, d[k]))]
  <2>6. c \in [1 .. Threshold -> Zn]
    BY Zenon, Closed
  <2>7. c[1] = z
    <3>1. c[1] = add(s[1], mul(y, 1))
      BY Zenon, <2>3, <2>4
    <3>2. PICK b \in Zn, e \in Zn : b = s[1] /\ e = neg(s[1])
      BY <2>4, Closed
    <3>3. mul(y, 1) = y /\ add(b, y) = add(y, b) /\ y = add(z, e)
      BY Zenon, <2>5, <3>2, MulLaws, AddLaws
    <3>4. add(add(z, e), b) = add(z, add(e, b))
      BY AddLaws
    <3>5. add(e, b) = add(b, e) /\ add(b, e) = 0 /\ add(z, 0) = z
      BY Zenon, <3>2, AddLaws
    <3> HIDE DEF c
    <3> QED BY Zenon, <3>1, <3>2, <3>3, <3>4, <3>5
  <2>8. ASSUME NEW j \in S PROVE evaluatePolynomial(c, j) = evaluatePolynomial(s, j)
    <3>1. j \in Zn /\ Threshold \in Nat
      BY Zenon, Points
    <3>2. evaluatePolynomial(c, j) = add(evaluatePolynomial(s, j), mul(y, evaluatePolynomial(d, j)))
      BY Zenon, <3>1, EvaluateLinear
    <3>3. evaluatePolynomial(s, j) \in Zn
      BY Zenon, <3>1, EvaluateType
    <3>4. mul(y, 0) = 0 /\ add(evaluatePolynomial(s, j), 0) = evaluatePolynomial(s, j)
      BY Zenon, <3>3, MulLaws, AddLaws
    <3> HIDE DEF c
    <3> QED BY Zenon, <2>3, <3>2, <3>4
  <2> HIDE DEF c
  <2> QED BY Zenon, <2>1, <2>2, <2>6, <2>7, <2>8
<1> QED BY <1>1, CredentialsInvariant, PTL

\* Whichever CAs answer first, aggregateShares and unblindSignature make a
\* credential that verifyCredential accepts.
THEOREM CredentialAlwaysVerifies == Spec => []CredentialVerifies
<1>1. CredentialsInv => CredentialVerifies
  <2> SUFFICES ASSUME CredentialsInv, thresholdReached PROVE credential # None /\ verifyCredential(credential)
    BY Zenon DEF CredentialVerifies
  <2>1. secretX # None
    BY Zenon, NoUser DEF CredentialsInv
  <2>2. secretX \in Zn /\ SharedKey /\ credential = mul(secretX, masterPubKeyG2)
    BY Zenon, <2>1 DEF CredentialsInv, DealersInv, UserInv
  <2>3. masterPubKeyG2 \in Zn
    <3>1. PICK f \in Poly(Threshold) : masterPubKeyG2 = f[0]
      BY Zenon, <2>2 DEF SharedKey
    <3>2. f \in [Zn -> Zn]
      BY Zenon DEF Poly
    <3> QED BY Zenon, <3>1, <3>2, Constants
  <2>4. credential \in Zn
    BY Zenon, <2>2, <2>3, Closed
  <2>5. credential # None
    BY Zenon, <2>4, NoneAssumption
  <2>6. verifyCredential(credential)
    BY Zenon, <2>2, <2>4, PowG DEF verifyCredential, map
  <2> QED BY Zenon, <2>5, <2>6
<1> QED BY <1>1, CredentialsInvariant, PTL

\* Two accepted outputs for one public key are the same output.
THEOREM AlwaysOnePseudonym == Spec => []OnePseudonym
<1>1. CredentialsInv => OnePseudonym
  <2> SUFFICES ASSUME CredentialsInv, secretX # None, NEW v \in [y : Zn, pi : Zn], NEW w \in [y : Zn, pi : Zn],
                      isValid(publicKeyG2, v), isValid(publicKeyG2, w)
               PROVE  v.y = w.y
    BY Zenon DEF OnePseudonym
  <2>1. PICK e \in Zn : e = op(pow(g, Context), publicKeyG2)
    <3>1. secretX \in Zn
      BY Zenon DEF CredentialsInv, UserInv
    <3> QED BY Zenon, <3>1, PowG, Points, Closed DEF publicKeyG2, op
  <2>2. PICK a \in Zn, b \in Zn : a = v.pi /\ b = w.pi
    BY Zenon
  <2>3. mul(a, e) = 1 /\ v.y = a
    BY <2>1, <2>2, PowG DEF isValid, map, g
  <2>4. mul(b, e) = 1 /\ w.y = b
    BY Zenon, <2>1, <2>2, PowG DEF isValid, map, g
  <2>5. mul(e, a) = 1 /\ mul(e, b) = 1 /\ e # 0
    BY <2>3, <2>4, MulLaws, Constants
  <2>6. a = b
    BY Zenon, <2>5, Cancel
  <2> QED BY Zenon, <2>3, <2>4, <2>6
<1> QED BY <1>1, CredentialsInvariant, PTL

\* A commitment to another secret answers at most one challenge for the same
\* pair of first messages.
THEOREM LinkageAlwaysSound == Spec => []LinkageSound
<1>1. CredentialsInv => LinkageSound
  <2> SUFFICES ASSUME CredentialsInv, secretX # None, NEW y \in Zn \ {credentialCommitmentG1},
                      NEW p \in [challenge : Zn, response : Zn], NEW q \in [challenge : Zn, response : Zn],
                      Reconstruct(y, publicKeyG2, p) = Reconstruct(y, publicKeyG2, q)
               PROVE  p.challenge = q.challenge
    BY Zenon DEF LinkageSound
  <2>1. PICK x \in Zn : x = publicKeyG2 /\ x = credentialCommitmentG1
    <3>1. secretX \in Zn
      BY Zenon DEF CredentialsInv, UserInv
    <3> QED BY Zenon, <3>1, PowG DEF publicKeyG2, credentialCommitmentG1
  <2>2. PICK c \in Zn, r \in Zn, d \in Zn, s \in Zn :
             c = p.challenge /\ r = p.response /\ d = q.challenge /\ s = q.response
    BY Zenon
  <2>3. Reconstruct(y, publicKeyG2, p) = <<add(r, neg(mul(y, c))), add(r, neg(mul(x, c)))>>
    BY Zenon, <2>1, <2>2, PowG DEF Reconstruct, op, inverse, pow
  <2>4. Reconstruct(y, publicKeyG2, q) = <<add(s, neg(mul(y, d))), add(s, neg(mul(x, d)))>>
    BY Zenon, <2>1, <2>2, PowG DEF Reconstruct, op, inverse, pow
  <2>5. add(r, neg(mul(y, c))) = add(s, neg(mul(y, d))) /\ add(r, neg(mul(x, c))) = add(s, neg(mul(x, d)))
    <3>1. PICK a, b, e, f : /\ a = add(r, neg(mul(y, c))) /\ b = add(r, neg(mul(x, c)))
                            /\ e = add(s, neg(mul(y, d))) /\ f = add(s, neg(mul(x, d)))
      BY Zenon
    <3>2. <<a, b>> = <<e, f>>
      BY Zenon, <2>3, <2>4, <3>1
    <3>3. a = e /\ b = f
      BY Zenon, <3>2
    <3> QED BY Zenon, <3>1, <3>3
  <2>6. SameMessages(x, y, r, c, s, d) /\ x # y /\ y \in Zn
    BY Zenon, <2>1, <2>5 DEF SameMessages
  <2>7. c = d
    BY Zenon, <2>6, Difference
  <2> QED BY Zenon, <2>2, <2>7
<1> QED BY <1>1, CredentialsInvariant, PTL

\* A DA accepts the pseudonym and the linkage proof of every registration the
\* user code makes.
THEOREM RegistrationAlwaysAccepted == Spec => []RegistrationAccepted
<1>1. CredentialsInv => RegistrationAccepted
  <2> SUFFICES ASSUME CredentialsInv, registration # None
               PROVE  isValid(registration.pk, registration.vrf) /\ verifyCredentialLinkage(registration)
    BY Zenon DEF RegistrationAccepted
  <2>1. thresholdReached /\ add(secretX, Context) # 0
    BY Zenon DEF CredentialsInv, UserInv
  <2>2. PICK k \in Zn : registration = Built(k)
    BY Zenon DEF CredentialsInv, UserInv
  <2>3. secretX # None
    BY Zenon, <2>1, NoUser DEF CredentialsInv
  <2>4. PICK x \in Zn : x = secretX
    BY Zenon, <2>3 DEF CredentialsInv, UserInv
  <2>5. publicKeyG2 = x /\ credentialCommitmentG1 = x
    BY Zenon, <2>4, PowG DEF publicKeyG2, credentialCommitmentG1
  <2>6. /\ registration.pk = x /\ registration.commitment = x /\ registration.vrf = buildProof(x)
        /\ registration.credential = credential /\ registration.dleq = generateProof(x, x, x, k)
    BY Zenon, <2>2, <2>4, <2>5 DEF Built
  <2>7. isValid(x, buildProof(x))
    <3>1. PICK e \in Zn \ {0}, v \in Zn : e = add(x, Context) /\ v = inv(e) /\ mul(e, v) = 1
      BY Zenon, <2>1, <2>4, Points, Closed, InverseExists
    <3>2. buildProof(x) = [y |-> v, pi |-> v]
      BY Zenon, <3>1, PowG DEF buildProof
    <3>3. op(pow(g, Context), x) = e
      BY <3>1, Points, PowG, AddLaws DEF op
    <3>4. mul(v, e) = 1
      BY Zenon, <3>1, MulLaws
    <3>5. buildProof(x).pi = v /\ buildProof(x).y = v
      BY <3>2
    <3> QED BY <3>3, <3>4, <3>5, PowG DEF isValid, map, g
  <2>8. verifyProof(x, x, generateProof(x, x, x, k))
    <3>1. PICK c \in Zn : c = Hash(x, x, k, k)
      BY Zenon, HashAssumption
    <3>2. PICK r \in Zn : r = add(k, mul(c, x))
      BY Zenon, Closed
    <3>3. generateProof(x, x, x, k) = [challenge |-> c, response |-> r]
      BY Zenon, <3>1, <3>2, PowG DEF generateProof
    <3>4. add(r, neg(mul(x, c))) = k
      <4>1. PICK m \in Zn : m = mul(c, x) /\ m = mul(x, c)
        BY Zenon, Closed, MulLaws
      <4>2. neg(m) \in Zn /\ add(m, neg(m)) = 0 /\ add(k, 0) = k
        BY Zenon, Closed, AddLaws
      <4>3. add(add(k, m), neg(m)) = add(k, add(m, neg(m)))
        BY <4>2, AddLaws
      <4> QED BY Zenon, <3>2, <4>1, <4>2, <4>3
    <3>5. Reconstruct(x, x, [challenge |-> c, response |-> r]) = <<k, k>>
      BY Zenon, <3>4, PowG DEF Reconstruct, op, inverse, pow
    <3> QED BY <3>1, <3>3, <3>5 DEF verifyProof
  <2>9. map(credential, g) = map(x, masterPubKeyG2)
    <3>1. SharedKey /\ credential = mul(x, masterPubKeyG2)
      BY Zenon, <2>1, <2>3, <2>4 DEF CredentialsInv, DealersInv, UserInv
    <3>2. PICK f \in Poly(Threshold) : masterPubKeyG2 = f[0]
      BY Zenon, <3>1 DEF SharedKey
    <3>3. f \in [Zn -> Zn]
      BY Zenon DEF Poly
    <3>4. credential \in Zn
      BY Zenon, <3>1, <3>2, <3>3, Constants, Closed
    <3> QED BY Zenon, <3>1, <3>4, PowG DEF map
  <2> QED BY Zenon, <2>6, <2>7, <2>8, <2>9 DEF verifyCredentialLinkage
<1> QED BY <1>1, CredentialsInvariant, PTL
=============================================================================
