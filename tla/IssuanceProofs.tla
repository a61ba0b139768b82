--------------------------- MODULE IssuanceProofs ---------------------------
(* For any CAs, threshold and number of users: who is approved holds a     *)
(* good credential, and with one key nobody is denied without reason.      *)
EXTENDS Issuance, TLAPS

\* Setting the stage of one request.
LEMMA SetLink ==
    ASSUME link \in [User -> [CA -> LinkState]], NEW u \in User, NEW i \in CA, NEW stage \in LinkState
    PROVE  LET after == [link EXCEPT ![u][i] = stage]
           IN  /\ after \in [User -> [CA -> LinkState]]
               /\ \A v \in User, j \in CA :
                     after[v][j] = IF v = u /\ j = i THEN stage ELSE link[v][j]
OBVIOUS

-----------------------------------------------------------------------------
(* Every step keeps the invariant.                                         *)

\* A CA is launched, is done or stops: its key is set once.
LEMMA CAStepInv ==
    ASSUME IssuanceInv, NEW i \in CA, CAStep(i)
    PROVE  IssuanceInv'
<1> USE NoneAssumption
<1>1. /\ ca' \in [CA -> {"down", "up", "crashed"}]
      /\ key' \in [CA -> {None, "master", "other"}]
      /\ \A j \in CA : key[j] # None => key'[j] = key[j]
      /\ UNCHANGED <<main, user, fetchVars, userVars, outVars>>
  <2>1. CASE Launch(i) \/ Crash(i)
    BY Zenon, <2>1 DEF IssuanceInv, TypeOK, Launch, Crash
  <2>2. CASE Establish(i)
    <3>1. PICK k \in {"master", "other"} : key' = [key EXCEPT ![i] = k]
      BY Zenon, <2>2 DEF Establish
    <3> QED BY <2>2, <3>1 DEF IssuanceInv, TypeOK, Establish
  <2> QED BY <2>1, <2>2 DEF CAStep
<1> USE <1>1 DEF fetchVars, userVars, outVars
<1>0. OneKey' => OneKey
  BY DEF OneKey
<1>2. TypeOK'
  BY DEF IssuanceInv, TypeOK
<1>3. KeysOK'
  BY <1>0 DEF IssuanceInv, KeysOK, OneKey
<1>4. \A v \in User : UserOK(v)'
  BY <1>0 DEF IssuanceInv, UserOK, OneKey
<1>5. ApprovedIsGood' /\ DeniedIsTaken' /\ OneHolder'
  BY <1>0 DEF IssuanceInv, ApprovedIsGood, DeniedIsTaken, OneHolder
<1> QED BY <1>2, <1>3, <1>4, <1>5 DEF IssuanceInv

\* The fetch: the key it returns is that of CA-1.
LEMMA FetchInv ==
    ASSUME IssuanceInv, Fetch \/ LoseKey
    PROVE  IssuanceInv'
<1> USE NoneAssumption, SizesAssumption, CAAssumption
<1>1. UNCHANGED <<ca, key, user, link, thresholdReached, credential, da, registered, file, relay>>
  BY DEF Fetch, FetcherConnected, AttemptTimesOut, HandleMasterPubKeyRequest, HandleReply, LoseKey,
         caVars, userVars, outVars
<1>2. /\ attempt' \in Nat /\ asked' \in Nat
      /\ conn' \in {"none", "opening", "up", "failed"}
  BY DEF IssuanceInv, TypeOK, Fetch, FetcherConnected, AskAgain, AttemptTimesOut,
         HandleMasterPubKeyRequest, HandleReply, LoseKey
<1>3. /\ reply' \in {None, reply, key[First]} /\ mpk' \in {mpk, reply}
      /\ mpk # None => mpk' # None
  BY DEF IssuanceInv, TypeOK, Fetch, FetcherConnected, AttemptTimesOut,
         HandleMasterPubKeyRequest, HandleReply, LoseKey
<1>4. /\ main' \in {main, "fetching", "thrown", "launching"}
      /\ main' \in {"launching", "sleeping"} => mpk' # None
  BY DEF IssuanceInv, KeysOK, Fetch, FetcherConnected, AttemptTimesOut,
         HandleMasterPubKeyRequest, HandleReply, LoseKey
<1>5. TypeOK'
  BY <1>1, <1>2, <1>3, <1>4 DEF IssuanceInv, TypeOK
<1>6. KeysOK'
  BY <1>1, <1>3, <1>4 DEF IssuanceInv, KeysOK, OneKey
<1>7. (\A v \in User : UserOK(v)') /\ ApprovedIsGood' /\ DeniedIsTaken' /\ OneHolder'
  BY <1>1 DEF IssuanceInv, UserOK, ApprovedIsGood, DeniedIsTaken, OneHolder, OneKey
<1> QED BY <1>5, <1>6, <1>7 DEF IssuanceInv

\* A request goes out and is answered, ignored or lost.
LEMMA AskInv ==
    ASSUME IssuanceInv, NEW u \in User, NEW i \in CA,
           ConnectCA(u, i) \/ HandleCredentialRequest(u, i) \/ LoseReply(u, i)
    PROVE  IssuanceInv'
<1>1. PICK stage \in {"requested", "failed", "ignored", "replied"} :
         /\ link' = [link EXCEPT ![u][i] = stage] /\ link[u][i] # "none"
         /\ stage = "replied" => key[i] # None
  BY DEF ConnectCA, HandleCredentialRequest, LoseReply
<1>2. UNCHANGED <<ca, key, main, user, attempt, conn, asked, reply, mpk, thresholdReached, credential,
                  da, registered, file, relay>>
  BY DEF ConnectCA, HandleCredentialRequest, LoseReply, caVars, fetchVars, outVars
<1>3. stage \in LinkState
  BY DEF LinkState
<1>4. /\ link' \in [User -> [CA -> LinkState]]
      /\ \A v \in User, j \in CA : link'[v][j] = IF v = u /\ j = i THEN stage ELSE link[v][j]
  BY <1>1, <1>3, SetLink DEF IssuanceInv, TypeOK
<1>5. TypeOK'
  BY <1>2, <1>4 DEF IssuanceInv, TypeOK
<1>6. KeysOK'
  BY <1>1, <1>2, <1>4 DEF IssuanceInv, KeysOK, OneKey
<1>7. (\A v \in User : UserOK(v)') /\ ApprovedIsGood' /\ DeniedIsTaken' /\ OneHolder'
  BY <1>2 DEF IssuanceInv, UserOK, ApprovedIsGood, DeniedIsTaken, OneHolder, OneKey
<1> QED BY <1>5, <1>6, <1>7 DEF IssuanceInv

\* The share that reaches the threshold makes the credential; with one key all
\* shares are of the key that Main fetched.
LEMMA CredentialReplyInv ==
    ASSUME IssuanceInv, NEW u \in User, NEW i \in CA, HandleCredentialReply(u, i)
    PROVE  IssuanceInv'
<1> DEFINE signers == receivedShares(u) \cup {i}
           enough == Cardinality(signers) >= Threshold /\ ~thresholdReached[u]
<1> USE NoneAssumption
<1>1. /\ link' = [link EXCEPT ![u][i] = "received"] /\ link[u][i] = "replied"
      /\ thresholdReached' = [thresholdReached EXCEPT ![u] = @ \/ enough]
      /\ credential' = [credential EXCEPT ![u] = IF enough THEN aggregate(signers) ELSE @]
      /\ da' = [da EXCEPT ![u] = IF enough THEN "opening" ELSE @]
      /\ UNCHANGED <<ca, key, main, user, attempt, conn, asked, reply, mpk, registered, file, relay>>
  BY DEF HandleCredentialReply, caVars, fetchVars, outVars
<1>2. /\ link' \in [User -> [CA -> LinkState]]
      /\ \A v \in User, j \in CA : link'[v][j] = IF v = u /\ j = i THEN "received" ELSE link[v][j]
  BY <1>1, SetLink DEF IssuanceInv, TypeOK, LinkState
<1>3. /\ aggregate(signers) \in {"good", "bad"}
      /\ OneKey /\ enough => aggregate(signers) = "good"
  <2>1. aggregate(signers) \in {"good", "bad"}
    BY DEF aggregate
  <2>2. ASSUME OneKey, enough PROVE aggregate(signers) = "good"
    <3>1. \A j \in signers : j \in CA /\ link[u][j] \in {"replied", "received"}
      BY <1>1 DEF receivedShares
    <3>2. mpk = "master" /\ \A j \in signers : key[j] = "master"
      BY <1>1, <2>2, <3>1 DEF IssuanceInv, TypeOK, KeysOK, OneKey
    <3> QED BY <2>2, <3>2 DEF aggregate
  <2> QED BY <2>1, <2>2
<1> HIDE DEF enough, signers
<1>4. enough => credential[u] = None /\ da[u] = "none" /\ file[u] = None
  BY DEF IssuanceInv, UserOK, TypeOK, enough
<1>5. TypeOK'
  <2>1. thresholdReached' \in [User -> BOOLEAN]
    BY <1>1 DEF IssuanceInv, TypeOK, enough
  <2>2. credential' \in [User -> {None, "good", "bad"}]
    BY <1>1, <1>3 DEF IssuanceInv, TypeOK
  <2>3. da' \in [User -> DAState]
    BY <1>1 DEF IssuanceInv, TypeOK, DAState
  <2> QED BY <1>1, <1>2, <2>1, <2>2, <2>3 DEF IssuanceInv, TypeOK
<1>6. KeysOK'
  BY <1>1, <1>2 DEF IssuanceInv, KeysOK, OneKey
<1>7. \A v \in User : UserOK(v)'
  <2>1. OneKey' <=> OneKey
    BY <1>1 DEF OneKey
  <2> QED BY Zenon, <1>1, <1>3, <1>4, <2>1 DEF IssuanceInv, TypeOK, UserOK
<1>8. ApprovedIsGood' /\ DeniedIsTaken' /\ OneHolder'
  BY <1>1, <1>4 DEF IssuanceInv, TypeOK, ApprovedIsGood, DeniedIsTaken, OneHolder, OneKey
<1> QED BY <1>5, <1>6, <1>7, <1>8 DEF IssuanceInv

\* The DA approves good credentials only, and denies a good one only if its
\* pseudonym is the relay's.
LEMMA RegisterInv ==
    ASSUME IssuanceInv, NEW u \in User, Register(u)
    PROVE  IssuanceInv'
<1> USE NoneAssumption
<1>1. UNCHANGED <<ca, key, user, attempt, conn, asked, reply, mpk, link, thresholdReached, credential,
                  file, relay>>
  BY DEF Register, WriteProof, SendRegistration, HandleRegisterRelay, HandleRegisterRelayReply,
         caVars, fetchVars, outVars
<1>2. PICK stage \in DAState \ {"none", "opening"} :
         /\ da' = [da EXCEPT ![u] = stage] /\ da[u] # "none"
         /\ stage = "approving" => credential[u] = "good" /\ registered[u] \in {None, "name"}
         /\ stage = "approved" => da[u] = "approving"
         /\ stage = "denying" => credential[u] # "good" \/ registered[u] \notin {None, "name"}
         /\ stage = "denied" => da[u] = "denying"
         /\ stage # "approving" => registered' = registered
         /\ stage = "approving" => registered' = [registered EXCEPT ![u] = "name"]
  BY DEF Register, WriteProof, SendRegistration, HandleRegisterRelay, HandleRegisterRelayReply,
         verifyCredentialLinkage, DAState, outVars, IssuanceInv, TypeOK
<1>3. main' \in {main, "exited"}
  BY DEF Register, WriteProof, SendRegistration, HandleRegisterRelay, HandleRegisterRelayReply
<1>4. TypeOK'
  <2>1. da' \in [User -> DAState]
    BY <1>2 DEF IssuanceInv, TypeOK
  <2>2. registered' \in [User -> {None, "name", "fingerprint"}]
    BY Zenon, <1>2 DEF IssuanceInv, TypeOK
  <2> QED BY <1>1, <1>3, <2>1, <2>2 DEF IssuanceInv, TypeOK
<1>5. KeysOK'
  BY <1>1, <1>3 DEF IssuanceInv, KeysOK, OneKey
<1>6. \A v \in User : UserOK(v)'
  BY <1>1, <1>2 DEF IssuanceInv, TypeOK, UserOK, OneKey
<1>7. ApprovedIsGood'
  BY <1>1, <1>2 DEF IssuanceInv, TypeOK, ApprovedIsGood
<1>8. DeniedIsTaken'
  <2> SUFFICES ASSUME OneKey', NEW v \in User, da'[v] \in {"denying", "denied"}
               PROVE  registered'[v] = "fingerprint"
    BY DEF DeniedIsTaken
  <2>0. OneKey
    BY <1>1 DEF OneKey
  <2>1. CASE v # u
    <3>1. da'[v] = da[v] /\ registered'[v] = registered[v]
      BY <1>2, <2>1 DEF IssuanceInv, TypeOK
    <3> QED BY <2>0, <3>1 DEF IssuanceInv, DeniedIsTaken
  <2>2. CASE v = u
    <3>1. stage \in {"denying", "denied"} /\ registered' = registered
      BY <1>2, <2>2 DEF IssuanceInv, TypeOK
    <3>2. credential[u] = "good" /\ registered[u] \in {None, "name", "fingerprint"}
      BY <1>2, <2>0 DEF IssuanceInv, TypeOK, UserOK
    <3> QED BY <1>2, <2>0, <2>2, <3>1, <3>2 DEF IssuanceInv, DeniedIsTaken
  <2> QED BY <2>1, <2>2
<1>9. OneHolder'
  BY <1>1, <1>2 DEF IssuanceInv, TypeOK, OneHolder
<1> QED BY <1>4, <1>5, <1>6, <1>7, <1>8, <1>9 DEF IssuanceInv

\* The relay's own validation never takes a pseudonym from its user.
LEMMA ValidatedInv ==
    ASSUME IssuanceInv, NEW u \in User, RelayValidated(u)
    PROVE  IssuanceInv'
<1> USE NoneAssumption DEF RelayValidated, verifyCredentialLinkage, caVars, fetchVars, userVars
<1>1. TypeOK'
  BY DEF IssuanceInv, TypeOK
<1>2. KeysOK'
  BY DEF IssuanceInv, KeysOK, OneKey
<1>3. \A v \in User : UserOK(v)'
  BY DEF IssuanceInv, UserOK, OneKey
<1>4. ApprovedIsGood' /\ DeniedIsTaken' /\ OneHolder'
  BY DEF IssuanceInv, TypeOK, ApprovedIsGood, DeniedIsTaken, OneHolder, OneKey
<1> QED BY <1>1, <1>2, <1>3, <1>4 DEF IssuanceInv

\* Main's thread: what it exports is the credential of the user it is at.
LEMMA MainThreadInv ==
    ASSUME IssuanceInv, MainThread
    PROVE  IssuanceInv'
<1> USE NoneAssumption
<1>1. ASSUME FetchBlocking PROVE IssuanceInv'
  BY <1>1 DEF FetchBlocking, caVars, userVars, outVars, IssuanceInv, TypeOK, KeysOK, UserOK,
              ApprovedIsGood, DeniedIsTaken, OneHolder, OneKey
<1>2. ASSUME StartRegistration PROVE IssuanceInv'
  <2>1. /\ user \in User /\ mpk # None /\ main' = "sleeping"
        /\ link' = [link EXCEPT ![user] = [i \in CA |-> "opening"]]
        /\ UNCHANGED <<ca, key, user, attempt, conn, asked, reply, mpk, thresholdReached, credential,
                       da, registered, file, relay>>
    BY <1>2, SizesAssumption DEF StartRegistration, caVars, fetchVars, outVars, IssuanceInv, TypeOK, KeysOK, User
  <2>2. /\ link' \in [User -> [CA -> LinkState]]
        /\ \A v \in User, j \in CA : link'[v][j] \in {link[v][j], "opening"}
    BY <2>1 DEF IssuanceInv, TypeOK, LinkState
  <2>3. TypeOK'
    BY <2>1, <2>2 DEF IssuanceInv, TypeOK
  <2>4. KeysOK'
    BY <2>1, <2>2 DEF IssuanceInv, KeysOK, OneKey
  <2>5. (\A v \in User : UserOK(v)') /\ ApprovedIsGood' /\ DeniedIsTaken' /\ OneHolder'
    BY <2>1 DEF IssuanceInv, UserOK, ApprovedIsGood, DeniedIsTaken, OneHolder, OneKey
  <2> QED BY <2>3, <2>4, <2>5 DEF IssuanceInv
<1>3. ASSUME Export PROVE IssuanceInv'
  <2>1. /\ main = "sleeping" /\ main' = "launching" /\ user' = user + 1
        /\ file' = [file EXCEPT ![user] = IF ProofWritten(user) THEN credential[user] ELSE @]
        /\ UNCHANGED <<ca, key, attempt, conn, asked, reply, mpk, link, thresholdReached, credential,
                       da, registered, relay>>
    BY <1>3 DEF Export, caVars, fetchVars, userVars
  <2>2. file' \in [User -> {None, "good", "bad"}] /\ \A v \in User : file'[v] \in {file[v], credential[v]}
    BY Zenon, <2>1 DEF IssuanceInv, TypeOK
  <2>3. TypeOK'
    BY <2>1, <2>2 DEF IssuanceInv, TypeOK
  <2>4. KeysOK'
    BY <2>1 DEF IssuanceInv, KeysOK, OneKey
  <2>5. \A v \in User : UserOK(v)'
    BY <2>1, <2>2 DEF IssuanceInv, UserOK, OneKey
  <2>6. ApprovedIsGood' /\ DeniedIsTaken' /\ OneHolder'
    BY <2>1, <2>2 DEF IssuanceInv, UserOK, ApprovedIsGood, DeniedIsTaken, OneHolder, OneKey
  <2> QED BY <2>3, <2>4, <2>5, <2>6 DEF IssuanceInv
<1> QED BY <1>1, <1>2, <1>3 DEF MainThread

-----------------------------------------------------------------------------
(* Theorems.                                                               *)

\* The inductive invariant holds in every reachable state.
THEOREM IssuanceInvariance == Spec => []IssuanceInv
<1>1. Init => IssuanceInv
  <2> SUFFICES ASSUME Init PROVE IssuanceInv
    OBVIOUS
  <2>1. TypeOK
    BY NoneAssumption DEF Init, TypeOK, LinkState, DAState
  <2>2. KeysOK
    BY NoneAssumption DEF Init, KeysOK
  <2>3. (\A u \in User : UserOK(u)) /\ ApprovedIsGood /\ DeniedIsTaken /\ OneHolder
    BY NoneAssumption DEF Init, UserOK, ApprovedIsGood, DeniedIsTaken, OneHolder, OneKey
  <2> QED BY <2>1, <2>2, <2>3 DEF IssuanceInv
<1>2. IssuanceInv /\ [Next]_vars => IssuanceInv'
  <2> SUFFICES ASSUME IssuanceInv, [Next]_vars PROVE IssuanceInv'
    OBVIOUS
  <2>1. CASE UNCHANGED vars
    BY <2>1 DEF vars, IssuanceInv, TypeOK, KeysOK, UserOK, ApprovedIsGood, DeniedIsTaken, OneHolder, OneKey
  <2>2. ASSUME NEW u \in User, NEW i \in CA, Request(u, i) \/ LoseReply(u, i) PROVE IssuanceInv'
    BY <2>2, AskInv, CredentialReplyInv DEF Request
  <2> QED BY <2>1, <2>2, CAStepInv, FetchInv, RegisterInv, ValidatedInv, MainThreadInv DEF Next
<1> QED BY <1>1, <1>2, PTL DEF Spec

\* Whatever keys the CAs hold, approval needs a credential under Main's key.
THEOREM Approved == Spec => []ApprovedIsGood
<1>1. IssuanceInv => ApprovedIsGood
  BY DEF IssuanceInv
<1> QED BY <1>1, IssuanceInvariance, PTL

\* With one key, only a user whose relay was faster is denied.
THEOREM Denied == Spec => []DeniedIsTaken
<1>1. IssuanceInv => DeniedIsTaken
  BY DEF IssuanceInv
<1> QED BY <1>1, IssuanceInvariance, PTL

\* A pseudonym never ends up with both a user's node name and its relay.
THEOREM Holder == Spec => []OneHolder
<1>1. IssuanceInv => OneHolder
  BY DEF IssuanceInv
<1> QED BY <1>1, IssuanceInvariance, PTL

\* With one key, a proof file holds a credential that verifies.
THEOREM Exported == Spec => []ExportedIsGood
<1>1. IssuanceInv => ExportedIsGood
  BY DEF IssuanceInv, TypeOK, UserOK, ExportedIsGood
<1> QED BY <1>1, IssuanceInvariance, PTL
=============================================================================
