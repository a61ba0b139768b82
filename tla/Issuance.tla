------------------------------ MODULE Issuance ------------------------------
(* From the keys of the CAs to the proof files of the relays: Main fetches *)
(* the master public key from CA-1, then runs one UserProtocol per node.   *)
(* A user asks every CA for a share, registers with the DA, and Main       *)
(* writes its proof file after a fixed sleep.  The CAs are abstracted to   *)
(* what KeyGen says of them: a key, established once.                      *)
EXTENDS Naturals, FiniteSets

CONSTANTS
    CA,             \* the CAs
    First,          \* CA-1, which Main asks for the master public key
    Odd,            \* CAs that may end the key generation with another key than the rest
    Threshold,      \* shares needed for a credential
    Users,          \* number of nodes, served one after the other
    MaxAttempts,    \* attempts of fetchBlocking
    MaxCrashes,     \* bound: how many CAs may stop
    None

ASSUME CAAssumption == IsFiniteSet(CA) /\ First \in CA /\ Odd \subseteq CA
ASSUME SizesAssumption == Threshold \in Nat \ {0} /\ Users \in Nat /\ MaxAttempts \in Nat /\ MaxCrashes \in Nat
ASSUME NoneAssumption == None \notin {"master", "other", "good", "bad", "name", "fingerprint", "VALID", "INVALID"}

VARIABLES
    ca,             \* ca[i]: is the process of CA i running
    key,            \* key[i]: the key CA i answers with, once its DKG is DONE
    main,           \* where Main is
    user,           \* the node Main is at
    attempt,        \* the attempt of fetchBlocking
    conn,           \* the fetcher's connection to CA-1
    asked,          \* MasterPubKeyRequestMsgs on their way
    reply,          \* a MasterPubKeyReplyMsg on its way
    mpk,            \* the key fetchBlocking returned
    link,           \* link[u][i]: where user u's request to CA i is
    thresholdReached,
    credential,     \* credential[u]: whether it verifies under mpk
    da,             \* da[u]: where user u's registration is
    registered,     \* registered[u]: who holds u's pseudonym in the DA's registry
    file,           \* file[u]: the credential in u's dittor_proof.txt
    relay           \* relay[u]: what the DA answered to u's relay, over the bridge

caVars == <<ca, key>>
fetchVars == <<attempt, conn, asked, reply, mpk>>
userVars == <<link, thresholdReached, credential, da>>
outVars == <<registered, file, relay>>
vars == <<ca, key, main, user, attempt, conn, asked, reply, mpk,
          link, thresholdReached, credential, da, registered, file, relay>>

User == 1..Users

Init ==
    /\ ca = [i \in CA |-> "down"]
    /\ key = [i \in CA |-> None]
    /\ main = "starting" /\ user = 1
    /\ attempt = 1 /\ conn = "none" /\ asked = 0
    /\ reply = None /\ mpk = None
    /\ link = [u \in User |-> [i \in CA |-> "none"]]
    /\ thresholdReached = [u \in User |-> FALSE]
    /\ credential = [u \in User |-> None]
    /\ da = [u \in User |-> "none"]
    /\ registered = [u \in User |-> None]
    /\ file = [u \in User |-> None]
    /\ relay = [u \in User |-> None]

\* The process of Main with its users and its DA.
Running == main # "exited"

-----------------------------------------------------------------------------
(* The CAs.                                                                *)

Launch(i) ==
    /\ ca[i] = "down"
    /\ ca' = [ca EXCEPT ![i] = "up"]
    /\ UNCHANGED <<key, main, user, fetchVars, userVars, outVars>>

\* The DKG of CA i is DONE.
Establish(i) ==
    /\ ca[i] = "up" /\ key[i] = None
    /\ \E k \in {"master", "other"} :
          /\ k = "other" => i \in Odd
          /\ key' = [key EXCEPT ![i] = k]
    /\ UNCHANGED <<ca, main, user, fetchVars, userVars, outVars>>

\* A CA stops; requests to it stay unanswered.
Crash(i) ==
    /\ ca[i] = "up"
    /\ Cardinality({j \in CA : ca[j] = "crashed"}) < MaxCrashes
    /\ ca' = [ca EXCEPT ![i] = "crashed"]
    /\ UNCHANGED <<key, main, user, fetchVars, userVars, outVars>>

\* A share that a stopped CA had sent is lost.
LoseReply(u, i) ==
    /\ link[u][i] = "replied" /\ ca[i] = "crashed"
    /\ link' = [link EXCEPT ![u][i] = "failed"]
    /\ UNCHANGED <<caVars, main, user, fetchVars, thresholdReached, credential, da, outVars>>

\* So is its answer to the fetcher.
LoseKey ==
    /\ reply # None /\ ca[First] = "crashed"
    /\ reply' = None
    /\ UNCHANGED <<caVars, main, user, attempt, conn, asked, mpk, userVars, outVars>>

-----------------------------------------------------------------------------
(* MasterPubKeyFetcher.                                                    *)

FetchBlocking ==
    /\ main = "starting"
    /\ main' = "fetching" /\ conn' = "opening"
    /\ UNCHANGED <<caVars, user, attempt, asked, reply, mpk, userVars, outVars>>

\* onOutConnectionUp asks once; nothing is registered for a failed connection.
FetcherConnected ==
    /\ conn = "opening"
    /\ IF ca[First] = "up"
       THEN conn' = "up" /\ asked' = asked + 1
       ELSE conn' = "failed" /\ asked' = 0
    /\ UNCHANGED <<caVars, main, user, attempt, reply, mpk, userVars, outVars>>

\* sendMessage queues until the connection is up; without one it is dropped.
AskAgain == IF conn = "failed" THEN UNCHANGED asked ELSE asked' = asked + 1

\* An attempt times out; after the last one fetchBlocking throws and Main ends.
AttemptTimesOut ==
    /\ main = "fetching" /\ mpk = None
    /\ AskAgain
    /\ attempt' = attempt + 1
    /\ main' = IF attempt = MaxAttempts THEN "thrown" ELSE "fetching"
    /\ UNCHANGED <<caVars, user, conn, reply, mpk, userVars, outVars>>

\* CA-1 answers when its DKG is DONE and ignores the request otherwise.
HandleMasterPubKeyRequest ==
    /\ conn = "up" /\ asked > 0 /\ ca[First] = "up"
    /\ asked' = asked - 1
    /\ reply' = IF key[First] = None THEN reply ELSE key[First]
    /\ UNCHANGED <<caVars, main, user, attempt, conn, mpk, userVars, outVars>>

\* result.complete, which fetchBlocking waits for; later replies change nothing.
HandleReply ==
    /\ reply # None /\ Running
    /\ reply' = None
    /\ IF main = "fetching"
       THEN mpk' = reply /\ main' = "launching"
       ELSE UNCHANGED <<mpk, main>>
    /\ UNCHANGED <<caVars, user, attempt, conn, asked, userVars, outVars>>

-----------------------------------------------------------------------------
(* UserProtocol.                                                           *)

\* The connection to CA i comes up and the request is sent, or it fails and
\* is not tried again.
ConnectCA(u, i) ==
    /\ link[u][i] = "opening" /\ Running
    /\ link' = [link EXCEPT ![u][i] = IF ca[i] = "up" THEN "requested" ELSE "failed"]
    /\ UNCHANGED <<caVars, main, user, fetchVars, thresholdReached, credential, da, outVars>>

\* CA i signs, or ignores a request that comes before DONE.
HandleCredentialRequest(u, i) ==
    /\ link[u][i] = "requested" /\ ca[i] = "up"
    /\ link' = [link EXCEPT ![u][i] = IF key[i] = None THEN "ignored" ELSE "replied"]
    /\ UNCHANGED <<caVars, main, user, fetchVars, thresholdReached, credential, da, outVars>>

receivedShares(u) == {i \in CA : link[u][i] = "received"}

\* The shares of a threshold of CAs combine to a credential that verifies under
\* mpk exactly if they are shares of that key.
aggregate(signers) ==
    IF Cardinality(signers) >= Threshold /\ \A i \in signers : key[i] = mpk THEN "good" ELSE "bad"

\* Mutant: one share too few.
M_EarlyThreshold(u, i) ==
    LET signers == receivedShares(u) \cup {i}
        enough == Cardinality(signers) + 1 >= Threshold /\ ~thresholdReached[u]
    IN  /\ link[u][i] = "replied" /\ Running
        /\ link' = [link EXCEPT ![u][i] = "received"]
        /\ thresholdReached' = [thresholdReached EXCEPT ![u] = @ \/ enough]
        /\ credential' = [credential EXCEPT ![u] = IF enough THEN aggregate(signers) ELSE @]
        /\ da' = [da EXCEPT ![u] = IF enough THEN "opening" ELSE @]
        /\ UNCHANGED <<caVars, main, user, fetchVars, outVars>>

\* Mutant: the shares of all CAs are waited for.
M_AllShares(u, i) ==
    LET signers == receivedShares(u) \cup {i}
        enough == signers = CA /\ ~thresholdReached[u]
    IN  /\ link[u][i] = "replied" /\ Running
        /\ link' = [link EXCEPT ![u][i] = "received"]
        /\ thresholdReached' = [thresholdReached EXCEPT ![u] = @ \/ enough]
        /\ credential' = [credential EXCEPT ![u] = IF enough THEN aggregate(signers) ELSE @]
        /\ da' = [da EXCEPT ![u] = IF enough THEN "opening" ELSE @]
        /\ UNCHANGED <<caVars, main, user, fetchVars, outVars>>

\* The share is put; the one that reaches the threshold makes the credential
\* and opens the connection to the DA.
HandleCredentialReply(u, i) ==
    LET signers == receivedShares(u) \cup {i}
        enough == Cardinality(signers) >= Threshold /\ ~thresholdReached[u]
    IN  /\ link[u][i] = "replied" /\ Running
        /\ link' = [link EXCEPT ![u][i] = "received"]
        /\ thresholdReached' = [thresholdReached EXCEPT ![u] = @ \/ enough]
        /\ credential' = [credential EXCEPT ![u] = IF enough THEN aggregate(signers) ELSE @]
        /\ da' = [da EXCEPT ![u] = IF enough THEN "opening" ELSE @]
        /\ UNCHANGED <<caVars, main, user, fetchVars, outVars>>

\* sendRegistrationToDA: the fields that Main reads are written, then the
\* message is sent.
WriteProof(u) ==
    /\ da[u] = "opening" /\ Running
    /\ da' = [da EXCEPT ![u] = "written"]
    /\ UNCHANGED <<caVars, main, user, fetchVars, link, thresholdReached, credential, outVars>>

SendRegistration(u) ==
    /\ da[u] = "written" /\ Running
    /\ da' = [da EXCEPT ![u] = "sent"]
    /\ UNCHANGED <<caVars, main, user, fetchVars, link, thresholdReached, credential, outVars>>

\* Mutant: the credential is not checked.
M_NoLinkage(c) == TRUE

\* The pairing check of DA.verifyCredentialLinkage.
verifyCredentialLinkage(c) == c = "good"

\* DAProtocol.handleRegisterRelay, for a pseudonym that only this user has and
\* a node without families.
HandleRegisterRelay(u) ==
    LET accepted == verifyCredentialLinkage(credential[u]) /\ registered[u] \in {None, "name"}
    IN  /\ da[u] = "sent" /\ Running
        /\ da' = [da EXCEPT ![u] = IF accepted THEN "approving" ELSE "denying"]
        /\ registered' = [registered EXCEPT ![u] = IF accepted THEN "name" ELSE @]
        /\ UNCHANGED <<caVars, main, user, fetchVars, link, thresholdReached, credential, file, relay>>

\* A denied user ends the process.
HandleRegisterRelayReply(u) ==
    /\ da[u] \in {"approving", "denying"} /\ Running
    /\ da' = [da EXCEPT ![u] = IF @ = "approving" THEN "approved" ELSE "denied"]
    /\ main' = IF da[u] = "approving" THEN main ELSE "exited"
    /\ UNCHANGED <<caVars, user, fetchVars, link, thresholdReached, credential, outVars>>

-----------------------------------------------------------------------------
(* Main's loop over the nodes.                                             *)

StartRegistration ==
    /\ main = "launching" /\ user <= Users
    /\ link' = [link EXCEPT ![user] = [i \in CA |-> "opening"]]
    /\ main' = "sleeping"
    /\ UNCHANGED <<caVars, user, fetchVars, thresholdReached, credential, da, outVars>>

\* sendRegistrationToDA has written what the getters return.
ProofWritten(u) == da[u] \notin {"none", "opening"}

\* Mutant: the proof is written whether the getters return null or not.
M_NoNullCheck ==
    /\ main = "sleeping"
    /\ file' = [file EXCEPT ![user] = IF credential[user] = None THEN "bad" ELSE credential[user]]
    /\ main' = "launching" /\ user' = user + 1
    /\ UNCHANGED <<caVars, fetchVars, userVars, registered, relay>>

\* The sleep is over, however far the user is: the getters are read and the
\* file is written, or a null ends in the catch clause.
Export ==
    /\ main = "sleeping"
    /\ file' = [file EXCEPT ![user] = IF ProofWritten(user) THEN credential[user] ELSE @]
    /\ main' = "launching" /\ user' = user + 1
    /\ UNCHANGED <<caVars, fetchVars, userVars, registered, relay>>

\* Mutant: whoever comes with a good proof gets the pseudonym.
M_LastHolder(u) ==
    LET accepted == verifyCredentialLinkage(file[u])
    IN  /\ file[u] # None /\ relay[u] = None /\ Running
        /\ relay' = [relay EXCEPT ![u] = IF accepted THEN "VALID" ELSE "INVALID"]
        /\ registered' = [registered EXCEPT ![u] = IF accepted THEN "fingerprint" ELSE @]
        /\ UNCHANGED <<caVars, main, user, fetchVars, userVars, file>>

\* The relay of u publishes the proof, and a Tor authority has it validated
\* for the relay's fingerprint.
RelayValidated(u) ==
    LET accepted == verifyCredentialLinkage(file[u]) /\ registered[u] \in {None, "fingerprint"}
    IN  /\ file[u] # None /\ relay[u] = None /\ Running
        /\ relay' = [relay EXCEPT ![u] = IF accepted THEN "VALID" ELSE "INVALID"]
        /\ registered' = [registered EXCEPT ![u] = IF accepted THEN "fingerprint" ELSE @]
        /\ UNCHANGED <<caVars, main, user, fetchVars, userVars, file>>

-----------------------------------------------------------------------------

CAStep(i) == Launch(i) \/ Establish(i) \/ Crash(i)

Fetch == FetcherConnected \/ AttemptTimesOut \/ HandleMasterPubKeyRequest \/ HandleReply

Request(u, i) == ConnectCA(u, i) \/ HandleCredentialRequest(u, i) \/ HandleCredentialReply(u, i)

Register(u) == WriteProof(u) \/ SendRegistration(u) \/ HandleRegisterRelay(u) \/ HandleRegisterRelayReply(u)

MainThread == FetchBlocking \/ StartRegistration \/ Export

Next ==
    \/ \E i \in CA : CAStep(i)
    \/ Fetch \/ LoseKey
    \/ \E u \in User : Register(u) \/ RelayValidated(u) \/ \E i \in CA : Request(u, i) \/ LoseReply(u, i)
    \/ MainThread

Spec == Init /\ [][Next]_vars

\* Connections succeed or fail, messages between running processes arrive and
\* are handled, and Main's thread goes on.  Nobody has to launch a CA, and a
\* relay need not use its proof.
Fairness ==
    /\ WF_vars(Fetch) /\ WF_vars(MainThread)
    /\ \A u \in User : WF_vars(Register(u)) /\ \A i \in CA : WF_vars(Request(u, i))

FairSpec == Spec /\ Fairness

-----------------------------------------------------------------------------
(* Properties.                                                             *)

LinkState == {"none", "opening", "failed", "requested", "ignored", "replied", "received"}
DAState == {"none", "opening", "written", "sent", "approving", "denying", "approved", "denied"}

\* Every request, registration and file is at one of its stages.
TypeOK ==
    /\ ca \in [CA -> {"down", "up", "crashed"}]
    /\ key \in [CA -> {None, "master", "other"}]
    /\ main \in {"starting", "fetching", "thrown", "launching", "sleeping", "exited"}
    /\ user \in Nat \ {0} /\ attempt \in Nat /\ asked \in Nat
    /\ conn \in {"none", "opening", "up", "failed"}
    /\ reply \in {None, "master", "other"} /\ mpk \in {None, "master", "other"}
    /\ link \in [User -> [CA -> LinkState]]
    /\ thresholdReached \in [User -> BOOLEAN]
    /\ credential \in [User -> {None, "good", "bad"}]
    /\ da \in [User -> DAState]
    /\ registered \in [User -> {None, "name", "fingerprint"}]
    /\ file \in [User -> {None, "good", "bad"}]
    /\ relay \in [User -> {None, "VALID", "INVALID"}]

\* Whatever keys the CAs ended up with, only users whose credential verifies
\* under the key that Main fetched are approved, and only relays with such a
\* credential are answered VALID.
ApprovedIsGood ==
    \A u \in User :
        /\ da[u] \in {"approving", "approved"} => credential[u] = "good"
        /\ relay[u] = "VALID" => file[u] = "good"

\* No CA has ended with another key.
OneKey == \A i \in CA : key[i] # "other"

\* While the CAs hold one key, a user is denied, which ends the whole process,
\* only if its own relay got to the DA before its registration did.
DeniedIsTaken ==
    OneKey => \A u \in User : da[u] \in {"denying", "denied"} => registered[u] = "fingerprint"

\* While the CAs hold one key, what Main reads while the handlers run is either
\* refused or a complete proof: a file never holds a credential that does not
\* verify.
ExportedIsGood ==
    OneKey => \A u \in User : file[u] \in {None, "good"}

\* A pseudonym is the name's of an approved user or the fingerprint's of a relay
\* answered VALID, never of both, in whatever order the registration, the
\* export and the relay's descriptor reach the DA.
OneHolder ==
    \A u \in User :
        /\ da[u] \in {"approving", "approved"} => registered[u] = "name"
        /\ relay[u] = "VALID" => registered[u] = "fingerprint"

\* Keys come from the CAs only, and users start only once Main has one.
KeysOK ==
    /\ OneKey => reply # "other" /\ mpk # "other"
    /\ main \in {"launching", "sleeping"} => mpk # None
    /\ \A u \in User, i \in CA :
          /\ link[u][i] # "none" => mpk # None
          /\ link[u][i] \in {"replied", "received"} => key[i] # None

\* Each stage of a user has what the one before it made.
UserOK(u) ==
    /\ da[u] # "none" => credential[u] # None
    /\ credential[u] # None => thresholdReached[u]
    /\ OneKey => credential[u] # "bad"
    /\ file[u] # None => file[u] = credential[u]

\* The inductive invariant behind the safety properties.
IssuanceInv ==
    /\ TypeOK /\ KeysOK
    /\ \A u \in User : UserOK(u)
    /\ ApprovedIsGood /\ DeniedIsTaken /\ OneHolder

\* The CAs that have answered user u or still can.
Answering(u) ==
    {i \in CA : \/ link[u][i] \in {"replied", "received"}
                \/ ca[i] = "up" /\ key[i] # None /\ link[u][i] \in {"opening", "requested"}}

\* A user gets through, although requests are never repeated: once a threshold
\* of CAs is DONE with its request before them, it is approved, unless CAs
\* stop or the process ends.
ServedWhenReady ==
    \A u \in User :
        Cardinality(Answering(u)) >= Threshold ~>
            da[u] = "approved" \/ ~Running \/ Cardinality(Answering(u)) < Threshold
=============================================================================
