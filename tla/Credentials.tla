---------------------------- MODULE Credentials ----------------------------
(* The cryptography from the polynomials of the CAs to the registration a  *)
(* DA accepts: crypto/CA, crypto/User, the VRF, the DLEQ proof and the     *)
(* checks of crypto/DA.  The groups are cyclic of one prime order, so an   *)
(* element is its logarithm to g1, g2 or e(g1, g2): op adds, pow and the   *)
(* pairing multiply.  DKG and Issuance have the messages; here the CAs end *)
(* the key generation together and only the numbers differ.                *)
EXTENDS Integers, FiniteSets, Sequences, FiniteSetsExt, Functions

CONSTANTS
    P,              \* the order of the groups, a prime
    H,              \* logarithm of h1 to g1
    Ids,            \* the IDs of the CAs
    Qualified,      \* ... of those whose polynomials make the master key
    Threshold,
    Draws,          \* what getUniformlyRandomElement returns in this instance
    Context,        \* hashContext of the one context
    Hash(_, _, _, _),   \* hashChallenge, in that context
    None

Zn == 0 .. P - 1

ASSUME PAssumption == P \in Nat /\ P > 1 /\ \A d \in 2 .. P - 1 : P % d # 0
ASSUME HAssumption == H \in Zn \ {0} /\ Context \in Zn /\ Draws \subseteq Zn
ASSUME IdsAssumption == Ids \subseteq Zn \ {0} /\ Qualified \subseteq Ids /\ Threshold \in 1 .. Cardinality(Ids)
ASSUME HashAssumption == \A a, b, c, d \in Zn : Hash(a, b, c, d) \in Zn
ASSUME NoneAssumption == \A z \in Zn : z # None

VARIABLES
    secretCoefficients, blindingCoefficients,   \* of each qualified CA, <<>> for null
    secretKeyShare, masterPubKeyG1, masterPubKeyG2,   \* of each CA; the keys are the same for all
    secretX, blindingFactor,    \* of the user
    receivedShares,             \* function from the CAs that have answered
    thresholdReached, credential,
    registration                \* the RegisterRelayMsg

caVars == <<secretCoefficients, blindingCoefficients, secretKeyShare, masterPubKeyG1, masterPubKeyG2>>
vars == <<secretCoefficients, blindingCoefficients, secretKeyShare, masterPubKeyG1, masterPubKeyG2,
          secretX, blindingFactor, receivedShares, thresholdReached, credential, registration>>

Init ==
    /\ secretCoefficients = [i \in Qualified |-> <<>>]
    /\ blindingCoefficients = [i \in Qualified |-> <<>>]
    /\ secretKeyShare = [i \in Ids |-> None]
    /\ masterPubKeyG1 = None /\ masterPubKeyG2 = None
    /\ secretX = None /\ blindingFactor = None
    /\ receivedShares = <<>>
    /\ thresholdReached = FALSE /\ credential = None
    /\ registration = None

-----------------------------------------------------------------------------
(* Zn and the groups over it.                                              *)

add(a, b) == (a + b) % P
mul(a, b) == (a * b) % P
neg(a) == (-a) % P
inv(a) == CHOOSE b \in Zn : mul(a, b) = 1

op(a, b) == add(a, b)
pow(a, k) == mul(a, k)
inverse(a) == neg(a)
map(a, b) == mul(a, b)
g == 1

-----------------------------------------------------------------------------
(* crypto/CA.                                                              *)

\* Mutant: one coefficient too few.
M_ShortPolynomial(i) ==
    /\ secretCoefficients[i] = <<>> /\ masterPubKeyG2 = None
    /\ \E secret, blinding \in [1 .. Threshold - 1 -> Draws] :
          /\ secretCoefficients' = [secretCoefficients EXCEPT ![i] = secret]
          /\ blindingCoefficients' = [blindingCoefficients EXCEPT ![i] = blinding]
    /\ UNCHANGED <<secretKeyShare, masterPubKeyG1, masterPubKeyG2,
                   secretX, blindingFactor, receivedShares, thresholdReached, credential, registration>>

GeneratePrivatePolynomial(i) ==
    /\ secretCoefficients[i] = <<>> /\ masterPubKeyG2 = None
    /\ \E secret, blinding \in [1 .. Threshold -> Draws] :
          /\ secretCoefficients' = [secretCoefficients EXCEPT ![i] = secret]
          /\ blindingCoefficients' = [blindingCoefficients EXCEPT ![i] = blinding]
    /\ UNCHANGED <<secretKeyShare, masterPubKeyG1, masterPubKeyG2,
                   secretX, blindingFactor, receivedShares, thresholdReached, credential, registration>>

\* computeCommitments.
commitmentsG1(i) ==
    [k \in DOMAIN secretCoefficients[i] |->
        op(pow(g, secretCoefficients[i][k]), pow(H, blindingCoefficients[i][k]))]
plainPubKeyG1(i) == pow(H, secretCoefficients[i][1])
plainPubKeyG2(i) == pow(g, secretCoefficients[i][1])

\* Mutant: the powers start at x.
M_FromX(coefficients, id) ==
    LET step(c, acc) == [result |-> add(acc.result, mul(c, acc.xPower)), xPower |-> mul(acc.xPower, id)]
    IN  MapThenFoldSet(step, [result |-> 0, xPower |-> id],
                       LAMBDA k : coefficients[k], Max, DOMAIN coefficients).result

evaluatePolynomial(coefficients, id) ==
    LET step(c, acc) == [result |-> add(acc.result, mul(c, acc.xPower)), xPower |-> mul(acc.xPower, id)]
    IN  MapThenFoldSet(step, [result |-> 0, xPower |-> 1],
                       LAMBDA k : coefficients[k], Max, DOMAIN coefficients).result

verifyShare(s, t, commitments, myID) ==
    LET step(c, acc) == [result |-> op(acc.result, pow(c, acc.xPower)), xPower |-> mul(acc.xPower, myID)]
    IN  op(pow(g, s), pow(H, t)) =
            MapThenFoldSet(step, [result |-> 0, xPower |-> 1],
                           LAMBDA k : commitments[k], Max, DOMAIN commitments).result

\* The sum, or in a group the product, of one value per CA.
Total(values) == FoldFunction(add, 0, values)

\* Every CA adds the shares it was dealt and multiplies the public keys.
FinalizeDKG ==
    /\ masterPubKeyG2 = None /\ \A i \in Qualified : secretCoefficients[i] # <<>>
    /\ secretKeyShare' =
          [j \in Ids |-> Total([i \in Qualified |-> evaluatePolynomial(secretCoefficients[i], j)])]
    /\ masterPubKeyG1' = Total([i \in Qualified |-> plainPubKeyG1(i)])
    /\ masterPubKeyG2' = Total([i \in Qualified |-> plainPubKeyG2(i)])
    /\ secretCoefficients' = [i \in Qualified |-> <<>>]
    /\ blindingCoefficients' = [i \in Qualified |-> <<>>]
    /\ UNCHANGED <<secretX, blindingFactor, receivedShares, thresholdReached, credential, registration>>

issueSignatureShare(i, blindedCommit) == pow(blindedCommit, secretKeyShare[i])

-----------------------------------------------------------------------------
(* crypto/User.                                                            *)

NewUser ==
    /\ masterPubKeyG2 # None /\ secretX = None
    /\ secretX' \in Zn /\ blindingFactor' \in Draws
    /\ UNCHANGED <<caVars, receivedShares, thresholdReached, credential, registration>>

publicKeyG2 == pow(g, secretX)
createBlindedCommit == op(pow(g, secretX), pow(H, blindingFactor))
credentialCommitmentG1 == pow(g, secretX)

Product(factors) == FoldFunction(mul, 1, factors)

\* The IDs that the inner loop of aggregateShares does not skip.
Others(i, signerIDs) == signerIDs \ {i}
numerator(i, signerIDs) == Product([j \in Others(i, signerIDs) |-> neg(j)])
denominator(i, signerIDs) == Product([j \in Others(i, signerIDs) |-> add(i, neg(j))])

\* Mutant: the denominator is multiplied.
M_NoInverse(i, signerIDs) == mul(numerator(i, signerIDs), denominator(i, signerIDs))

lambda(i, signerIDs) == mul(numerator(i, signerIDs), inv(denominator(i, signerIDs)))

aggregateShares(shares) ==
    Total([i \in DOMAIN shares |-> pow(shares[i], lambda(i, DOMAIN shares))])

unblindSignature(signature) == op(signature, inverse(pow(masterPubKeyG1, blindingFactor)))

verifyCredential(signature) == map(signature, g) = map(pow(g, secretX), masterPubKeyG2)

\* CA i signs the commitment and UserProtocol.handleCredentialReply takes the
\* share; zero has no inverse, and then the handler throws.
Answer(i) ==
    LET shares == [j \in DOMAIN receivedShares \cup {i} |->
                      IF j = i THEN issueSignatureShare(i, createBlindedCommit) ELSE receivedShares[j]]
        enough == Cardinality(DOMAIN shares) >= Threshold /\ ~thresholdReached
        throws == \E j \in DOMAIN shares : denominator(j, DOMAIN shares) = 0
    IN  /\ secretX # None /\ i \notin DOMAIN receivedShares
        /\ receivedShares' = shares
        /\ thresholdReached' = (thresholdReached \/ enough)
        /\ credential' = IF enough /\ ~throws THEN unblindSignature(aggregateShares(shares)) ELSE credential
        /\ UNCHANGED <<caVars, secretX, blindingFactor, registration>>

-----------------------------------------------------------------------------
(* The VRF and the DLEQ proof.                                             *)

buildProof(x) == LET exponent == inv(add(x, Context)) IN [y |-> pow(g, exponent), pi |-> pow(g, exponent)]

\* Mutant: the pseudonym is not compared with the proof.
M_AnyPseudonym(pk, vrf) == map(vrf.pi, op(pow(g, Context), pk)) = g

isValid(pk, vrf) ==
    /\ map(vrf.pi, op(pow(g, Context), pk)) = g
    /\ vrf.y = map(vrf.pi, g)

generateProof(x, g1x, pk, k) ==
    LET challenge == Hash(g1x, pk, pow(g, k), pow(g, k))
    IN  [challenge |-> challenge, response |-> add(k, mul(challenge, x))]

\* Mutant: the second commitment is reconstructed from the same element.
M_SameElement(g1x, pk, proof) ==
    <<op(pow(g, proof.response), inverse(pow(g1x, proof.challenge))),
      op(pow(g, proof.response), inverse(pow(g1x, proof.challenge)))>>

Reconstruct(g1x, pk, proof) ==
    <<op(pow(g, proof.response), inverse(pow(g1x, proof.challenge))),
      op(pow(g, proof.response), inverse(pow(pk, proof.challenge)))>>

verifyProof(g1x, pk, proof) ==
    LET r == Reconstruct(g1x, pk, proof) IN proof.challenge = Hash(g1x, pk, r[1], r[2])

\* Mutant: the credential is checked against the public key.
M_OtherElement(reg) ==
    /\ verifyProof(reg.commitment, reg.pk, reg.dleq)
    /\ map(reg.credential, g) = map(reg.commitment, masterPubKeyG1)

\* DA.verifyCredentialLinkage.
verifyCredentialLinkage(reg) ==
    /\ verifyProof(reg.commitment, reg.pk, reg.dleq)
    /\ map(reg.credential, g) = map(reg.commitment, masterPubKeyG2)

\* UserProtocol.sendRegistrationToDA; a secret that cancels the context has no
\* pseudonym, and then the handler throws.
SendRegistrationToDA ==
    /\ credential # None /\ registration = None /\ add(secretX, Context) # 0
    /\ \E k \in Zn : registration' =
          [pk |-> publicKeyG2, vrf |-> buildProof(secretX), commitment |-> credentialCommitmentG1,
           credential |-> credential,
           dleq |-> generateProof(secretX, credentialCommitmentG1, publicKeyG2, k)]
    /\ UNCHANGED <<caVars, secretX, blindingFactor, receivedShares, thresholdReached, credential>>

-----------------------------------------------------------------------------

Next ==
    \/ \E i \in Qualified : GeneratePrivatePolynomial(i)
    \/ FinalizeDKG \/ NewUser
    \/ \E i \in Ids : Answer(i)
    \/ SendRegistrationToDA

Spec == Init /\ [][Next]_vars

-----------------------------------------------------------------------------
(* Properties.                                                             *)

Generated(i) == secretCoefficients[i] # <<>>

\* A CA accepts the share an honest dealer evaluates for it, and of the shares
\* that commit to the same value no other one with the same secret or the same
\* blinding half: a complaint against a CA is always deserved.
SharesVerify ==
    \A i \in Qualified : Generated(i) => \A j \in Ids :
        LET s == evaluatePolynomial(secretCoefficients[i], j)
            t == evaluatePolynomial(blindingCoefficients[i], j)
        IN  /\ verifyShare(s, t, commitmentsG1(i), j)
            /\ \A a, b \in Zn : verifyShare(a, b, commitmentsG1(i), j) => (a = s <=> b = t)

\* What fewer than a threshold of CAs were dealt fits every secret of the
\* dealer: they cannot compute it from their shares.
SharesHide ==
    \A i \in Qualified : Generated(i) =>
        \A S \in {S \in SUBSET Ids : Cardinality(S) = Threshold - 1}, z \in Zn :
            \E c \in [1 .. Len(secretCoefficients[i]) -> Zn] :
                /\ c[1] = z
                /\ \A j \in S : evaluatePolynomial(c, j) = evaluatePolynomial(secretCoefficients[i], j)

\* Whichever CAs answer first, their shares combine (no zero is inverted) to a
\* credential that passes the user's check under the master key.
CredentialVerifies == thresholdReached => credential # None /\ verifyCredential(credential)

\* A DA accepts every registration the user code produces.
RegistrationAccepted ==
    registration # None => /\ isValid(registration.pk, registration.vrf)
                           /\ verifyCredentialLinkage(registration)

\* A public key has one pseudonym: of all pairs of output and proof that a DA
\* accepts for it, every one has the same output.
OnePseudonym ==
    secretX # None =>
        \A v, w \in [y : Zn, pi : Zn] : isValid(publicKeyG2, v) /\ isValid(publicKeyG2, w) => v.y = w.y

\* A commitment to another secret than the public key's passes the DLEQ check
\* for at most one challenge per pair of first messages.
LinkageSound ==
    secretX # None =>
        \A g1x \in Zn \ {credentialCommitmentG1}, p, q \in [challenge : Zn, response : Zn] :
            Reconstruct(g1x, publicKeyG2, p) = Reconstruct(g1x, publicKeyG2, q) => p.challenge = q.challenge
=============================================================================
