-------------------------------- MODULE DKG --------------------------------
(***************************************************************************)
(* The distributed key generation the Certificate Authorities run at       *)
(* start-up: CAMain.main, CAProtocol and the DKG half of crypto/CA.        *)
(*                                                                         *)
(* Every CA is one process with two threads.  The main thread launches the *)
(* protocol, sleeps, and runs startDKG; the Babel event loop runs the      *)
(* handlers one at a time.  Here no handler of a CA runs while its         *)
(* startDKG does; nothing in the code ensures this, and DKGThreads is the  *)
(* DKG without that assumption.                                            *)
(*                                                                         *)
(* The field arithmetic is abstracted to the question the protocol asks of *)
(* it: which polynomial a hash, a reveal or a share belongs to.            *)
(***************************************************************************)
EXTENDS Naturals, Sequences, FiniteSets

CONSTANTS
    CA,          \* the CAs of the ca-config/ca-*.properties files
    Threshold,   \* "threshold" of those files
    Faulty,      \* CAs whose published values may be wrong
    FaultyBehaviour,  \* ... and in which ways
    Crashable,   \* CAs whose process may stop
    Contents,    \* polynomials a published value can belong to
    Own,         \* the one the publishing CA generated
    None         \* an absent map entry

ASSUME CAAssumption == IsFiniteSet(CA) /\ Faulty \subseteq CA /\ Crashable \subseteq CA
ASSUME ContentsAssumption == Own \in Contents /\ None \notin Contents
ASSUME ThresholdAssumption == Threshold \in Nat \ {0}

VARIABLES
    main,   \* main[i]: where the main thread of CA i is
    ca,     \* ca[i]: the fields of CA i's CAProtocol and crypto.CA objects
    chan,   \* chan[i][j]: Babel's outgoing connection from i to j
    says    \* says[i][j]: what CA i publishes to j; fixed, Own unless i is faulty

vars == <<main, ca, chan, says>>

n == Cardinality(CA)
Peers(i) == CA \ {i}
Honest == CA \ Faulty

-----------------------------------------------------------------------------
(* Messages.                                                               *)

\* What a CA reveals: the polynomial its commitments bind it to and the one
\* its public keys pubKeyG1, pubKeyG2 belong to.
Reveals == [commitments : Contents, pubKey : Contents]
OwnReveal == [commitments |-> Own, pubKey |-> Own]

\* SHA-256 of the serialized commitments and public keys: equal exactly for
\* equal reveals.
hashCommitments(r) == <<"sha256", r>>

Hashes == {hashCommitments(r) : r \in Reveals}
ASSUME HashAssumption == None \notin Hashes \cup Reveals

DKGCommitmentHashMsg(r) == [type |-> "hash", body |-> hashCommitments(r)]
DKGRevealMsg(r) == [type |-> "reveal", body |-> r]
DKGShareMsg(c) == [type |-> "share", body |-> c]
DKGComplaintMsg(k) == [type |-> "complaint", body |-> k]

Messages == {DKGCommitmentHashMsg(r) : r \in Reveals}
              \cup {DKGRevealMsg(r) : r \in Reveals}
              \cup {DKGShareMsg(c) : c \in Contents}
              \cup {DKGComplaintMsg(k) : k \in CA}

\* A faulty CA follows the code but may publish a value of another polynomial
\* to a peer, or reveal to it before publishing its hash.
Behaviour == [hash : Reveals, reveal : Reveals, share : Contents, early : BOOLEAN]
ASSUME BehaviourAssumption == FaultyBehaviour \subseteq Behaviour
HonestBehaviour == [hash |-> OwnReveal, reveal |-> OwnReveal, share |-> Own, early |-> FALSE]

-----------------------------------------------------------------------------
(* The state of one CA.                                                    *)

DkgState == {"AWAITING_HASHES", "AWAITING_REVEALS", "AWAITING_SHARES", "DONE"}
MainState == {"down", "sleeping", "putting", "opened", "returned", "crashed"}
ChanState == {"closed", "connecting", "failed", "up"}

Map(S) == [CA -> S \cup {None}]
Keys(f) == {j \in CA : f[j] # None}
EmptyMap == [j \in CA |-> None]

\* hashCount is receivedHashes.size(); key is what finalizeDKG computed: the
\* shares summed into secretKeyShare and the public keys multiplied into the
\* master public key, by contributor.
CAInit == [state |-> "AWAITING_HASHES",
           connectedPeerIds |-> {},
           receivedHashes |-> EmptyMap,
           hashCount |-> 0,
           disqualifiedIds |-> {},
           receivedCommitments |-> EmptyMap,
           receivedSecretShares |-> EmptyMap,
           secretCoefficients |-> FALSE,
           key |-> [share |-> EmptyMap, mpk |-> EmptyMap],
           out |-> [j \in CA |-> <<>>]]

CAState == [state : DkgState,
            connectedPeerIds : SUBSET CA,
            receivedHashes : Map(Hashes),
            hashCount : Nat,
            disqualifiedIds : SUBSET CA,
            receivedCommitments : Map(Reveals),
            receivedSecretShares : Map(Contents),
            secretCoefficients : BOOLEAN,
            key : [share : Map(Contents), mpk : Map(Contents)],
            out : [CA -> Seq(Messages)]]

-----------------------------------------------------------------------------
(* The methods of CAProtocol, as functions from the state s of CA i.       *)

\* CA.verifyShare: the share lies on the committed polynomial.  The public
\* keys of the reveal are not part of the test.
verifyShare(share, r) == share = r.commitments

\* sendMessage to every peer j in P, of the message msg[j].
Send(s, P, msg) == [s EXCEPT !.out = [j \in CA |-> IF j \in P THEN Append(s.out[j], msg[j])
                                                              ELSE s.out[j]]]

\* Sums and products over the qualified CAs; the polynomials are erased.
finalizeDKG(s, qualified) ==
    [s EXCEPT !.key = [share |-> [q \in CA |-> IF q \in qualified THEN s.receivedSecretShares[q] ELSE None],
                       mpk |-> [q \in CA |-> IF q \in qualified THEN s.receivedCommitments[q].pubKey ELSE None]],
              !.secretCoefficients = FALSE]

\* Mutant: finalizes as soon as Threshold CAs are accounted for.
M_ThresholdShares(i, s) ==
    LET qualified == Keys(s.receivedSecretShares) \ s.disqualifiedIds
    IN  IF s.state = "AWAITING_SHARES" /\ Cardinality(qualified) >= Threshold
        THEN [finalizeDKG(s, qualified) EXCEPT !.state = "DONE"]
        ELSE s

\* Mutant: the test of the state is missing.
M_AnyStateShare(i, s) ==
    LET accounted == Keys(s.receivedSecretShares) \cup s.disqualifiedIds
        qualified == Keys(s.receivedCommitments) \ s.disqualifiedIds
    IN  IF Cardinality(accounted) >= n /\ Cardinality(qualified) >= Threshold
        THEN [finalizeDKG(s, qualified) EXCEPT !.state = "DONE"]
        ELSE s

\* With fewer than Threshold good CAs the DKG has failed: it only says so.
checkSharePhaseComplete(i, s) ==
    LET accounted == Keys(s.receivedSecretShares) \cup s.disqualifiedIds
        qualified == Keys(s.receivedCommitments) \ s.disqualifiedIds
    IN  IF /\ s.state = "AWAITING_SHARES"
           /\ Cardinality(accounted) >= n
           /\ Cardinality(qualified) >= Threshold
        THEN [finalizeDKG(s, qualified) EXCEPT !.state = "DONE"]
        ELSE s

\* Mutant: the test of the state is missing.
M_AnyStateReveal(i, s) ==
    LET t == [s EXCEPT !.state = "AWAITING_SHARES"]
        Share == [j \in CA |-> DKGShareMsg(says[i][j].share)]
    IN  IF Cardinality(Keys(s.receivedCommitments) \cup s.disqualifiedIds) < n THEN s
        ELSE IF ~s.secretCoefficients THEN t
        ELSE checkSharePhaseComplete(i, Send([t EXCEPT !.receivedSecretShares[i] = Own],
                                             Peers(i) \ s.disqualifiedIds, Share))

\* Once the coefficients are erased, evaluateSecretPolynomial throws after
\* the state was already set back.
checkRevealPhaseComplete(i, s) ==
    LET accounted == Keys(s.receivedCommitments) \cup s.disqualifiedIds
        t == [s EXCEPT !.state = "AWAITING_SHARES"]
        Share == [j \in CA |-> DKGShareMsg(says[i][j].share)]
    IN  IF s.state # "AWAITING_REVEALS" \/ Cardinality(accounted) < n THEN s
        ELSE IF ~s.secretCoefficients THEN t
        ELSE checkSharePhaseComplete(i, Send([t EXCEPT !.receivedSecretShares[i] = Own],
                                             Peers(i) \ s.disqualifiedIds, Share))

\* Mutant: reveals without waiting for the connections to all peers.
M_Unconnected(i, s) == s.state = "AWAITING_HASHES" /\ main[i] \notin {"down", "sleeping"} /\ s.hashCount >= n

hashPhaseComplete(i, s) ==
    /\ s.state = "AWAITING_HASHES"
    /\ main[i] \notin {"down", "sleeping"}      \* hostToPeerId # null
    /\ s.hashCount >= n
    /\ Cardinality(s.connectedPeerIds) >= Cardinality(Peers(i))

revealCommitments(i, s) ==
    LET Reveal == [j \in CA |-> DKGRevealMsg(says[i][j].reveal)]
    IN  checkRevealPhaseComplete(i,
            Send([s EXCEPT !.state = "AWAITING_REVEALS", !.receivedCommitments[i] = OwnReveal],
                 Peers(i), Reveal))

checkHashPhaseComplete(i, s) ==
    IF hashPhaseComplete(i, s) THEN revealCommitments(i, s) ELSE s

\* Mutant: nobody is told.
M_SilentDisqualify(i, s, k) == [s EXCEPT !.disqualifiedIds = @ \cup {k}]

\* Disqualify k and broadcastComplaint(k) to everyone but k; before startDKG
\* there is no hostToPeerId to iterate over and the handler ends there.
disqualify(i, s, k) ==
    LET Complaint == [j \in CA |-> DKGComplaintMsg(k)]
    IN  Send([s EXCEPT !.disqualifiedIds = @ \cup {k}],
             IF main[i] = "sleeping" THEN {} ELSE Peers(i) \ {k}, Complaint)

\* receivedHashes.put(j, h).
putHash(s, j, h) ==
    [s EXCEPT !.receivedHashes[j] = h,
              !.hashCount = @ + (IF s.receivedHashes[j] = None THEN 1 ELSE 0)]

\* Mutant: any reveal of a CA that published a hash is accepted.
M_UncheckedReveal(i, s, j, r) ==
    IF s.receivedHashes[j] = None THEN checkRevealPhaseComplete(i, disqualify(i, s, j))
    ELSE checkRevealPhaseComplete(i, [s EXCEPT !.receivedCommitments[j] = r])

\* Mutant: a reveal that arrives before the own hash phase is over is dropped.
M_DroppedReveal(i, s, j, r) ==
    IF s.state # "AWAITING_REVEALS" THEN s
    ELSE checkRevealPhaseComplete(i, [s EXCEPT !.receivedCommitments[j] = r])

handleReveal(i, s, j, r) ==
    IF s.receivedHashes[j] # hashCommitments(r)     \* never published, or another hash
    THEN checkRevealPhaseComplete(i, disqualify(i, s, j))
    ELSE checkRevealPhaseComplete(i, [s EXCEPT !.receivedCommitments[j] = r])

\* Mutant: shares are not verified.
M_UnverifiedShare(i, s, j, c) ==
    IF j \in s.disqualifiedIds \/ s.receivedCommitments[j] = None THEN s
    ELSE checkSharePhaseComplete(i, [s EXCEPT !.receivedSecretShares[j] = c])

handleShare(i, s, j, c) ==
    IF j \in s.disqualifiedIds \/ s.receivedCommitments[j] = None THEN s
    ELSE IF ~verifyShare(c, s.receivedCommitments[j])
         THEN checkSharePhaseComplete(i, disqualify(i, s, j))
         ELSE checkSharePhaseComplete(i, [s EXCEPT !.receivedSecretShares[j] = c])

\* Mutant: a complaint in the share phase does not check the phase again.
M_ComplaintNoCheck(i, s, k) == checkRevealPhaseComplete(i, [s EXCEPT !.disqualifiedIds = @ \cup {k}])

\* Both checks test the state they apply to.
handleComplaint(i, s, k) ==
    LET t == [s EXCEPT !.disqualifiedIds = @ \cup {k}]
    IN  IF s.state = "AWAITING_REVEALS" THEN checkRevealPhaseComplete(i, t)
        ELSE checkSharePhaseComplete(i, t)

-----------------------------------------------------------------------------
(* Actions.                                                                *)

Init ==
    /\ main = [i \in CA |-> "down"]
    /\ ca = [i \in CA |-> CAInit]
    /\ chan = [i \in CA |-> [j \in CA |-> "closed"]]
    /\ \E b \in [Faulty -> [CA -> FaultyBehaviour]] :
          says = [i \in CA |-> [j \in CA |-> IF i \in Faulty /\ i # j THEN b[i][j] ELSE HonestBehaviour]]

\* CAMain up to its sleep: the protocol is registered and its socket bound.
Launch(i) ==
    /\ main[i] = "down"
    /\ main' = [main EXCEPT ![i] = "sleeping"]
    /\ UNCHANGED <<ca, chan, says>>

\* startDKG up to the put of its own hash.
StartDKG(i) ==
    /\ main[i] = "sleeping"
    /\ main' = [main EXCEPT ![i] = "putting"]
    /\ ca' = [ca EXCEPT ![i].secretCoefficients = TRUE,
                        ![i].receivedHashes[i] = hashCommitments(OwnReveal),
                        ![i].hashCount = @ + 1]
    /\ UNCHANGED <<chan, says>>

\* The loop of openConnection calls.
OpenConnections(i) ==
    /\ main[i] = "putting"
    /\ main' = [main EXCEPT ![i] = "opened"]
    /\ chan' = [chan EXCEPT ![i] = [j \in CA |-> IF j = i THEN "closed" ELSE "connecting"]]
    /\ UNCHANGED <<ca, says>>

\* The final checkHashPhaseComplete.
CheckHashes(i) ==
    /\ main[i] = "opened"
    /\ main' = [main EXCEPT ![i] = "returned"]
    /\ ca' = [ca EXCEPT ![i] = checkHashPhaseComplete(i, ca[i])]
    /\ UNCHANGED <<chan, says>>

\* The event loop of i can take its next event.
EventLoopFree(i) == main[i] \in {"sleeping", "returned"}

OnOutConnectionUp(i, j) ==
    /\ chan[i][j] = "connecting"
    /\ main[j] \notin {"down", "crashed"}
    /\ EventLoopFree(i)
    /\ LET b == says[i][j]
           Hello == [k \in CA |-> DKGCommitmentHashMsg(b.hash)]
           Reveal == [k \in CA |-> DKGRevealMsg(b.reveal)]
           s == Send(IF b.early THEN Send(ca[i], {j}, Reveal) ELSE ca[i], {j}, Hello)
           t == [s EXCEPT !.connectedPeerIds = @ \cup {j}]
       IN  ca' = [ca EXCEPT ![i] = IF t.state = "AWAITING_HASHES" THEN checkHashPhaseComplete(i, t)
                                                                 ELSE Send(t, {j}, Reveal)]
    /\ chan' = [chan EXCEPT ![i][j] = "up"]
    /\ UNCHANGED <<main, says>>

\* Nobody listens at j yet, or any more.
ConnectionFails(i, j) ==
    /\ chan[i][j] = "connecting"
    /\ main[i] # "crashed"
    /\ main[j] \in {"down", "crashed"}
    /\ chan' = [chan EXCEPT ![i][j] = "failed"]
    /\ UNCHANGED <<main, ca, says>>

\* The handler sleeps for two seconds and calls openConnection again.
OnOutConnectionFailed(i, j) ==
    /\ chan[i][j] = "failed"
    /\ EventLoopFree(i)
    /\ chan' = [chan EXCEPT ![i][j] = "connecting"]
    /\ UNCHANGED <<main, ca, says>>

\* The next message on the connection from j to i has this type, and i's
\* handler turns its state into s; TCP delivers in order.
Receivable(i, j, type) ==
    /\ chan[j][i] = "up"
    /\ ca[j].out[i] # <<>>
    /\ Head(ca[j].out[i]).type = type
    /\ EventLoopFree(i)

Body(i, j) == Head(ca[j].out[i]).body

Consume(i, j, s) ==
    /\ ca' = [ca EXCEPT ![j].out[i] = Tail(@), ![i] = s]
    /\ UNCHANGED <<main, chan, says>>

HandleCommitmentHash(i, j) ==
    /\ Receivable(i, j, "hash")
    /\ Consume(i, j, checkHashPhaseComplete(i, putHash(ca[i], j, Body(i, j))))

HandleReveal(i, j) ==
    /\ Receivable(i, j, "reveal")
    /\ Consume(i, j, handleReveal(i, ca[i], j, Body(i, j)))

HandleShare(i, j) ==
    /\ Receivable(i, j, "share")
    /\ Consume(i, j, handleShare(i, ca[i], j, Body(i, j)))

HandleComplaint(i, j) ==
    /\ Receivable(i, j, "complaint")
    /\ Consume(i, j, handleComplaint(i, ca[i], Body(i, j)))

\* The process of i stops.
Crash(i) ==
    /\ i \in Crashable
    /\ main[i] \notin {"down", "crashed"}
    /\ main' = [main EXCEPT ![i] = "crashed"]
    /\ UNCHANGED <<ca, chan, says>>

\* What a stopped process sent and j has not read yet is lost.
LoseTail(i, j) ==
    /\ main[i] = "crashed"
    /\ ca[i].out[j] # <<>>
    /\ ca' = [ca EXCEPT ![i].out[j] = <<>>]
    /\ UNCHANGED <<main, chan, says>>

MainThread(i) ==
    \/ Launch(i)
    \/ StartDKG(i)
    \/ OpenConnections(i)
    \/ CheckHashes(i)

EventLoop(i, j) ==
    \/ OnOutConnectionUp(i, j)
    \/ OnOutConnectionFailed(i, j)
    \/ HandleCommitmentHash(i, j)
    \/ HandleReveal(i, j)
    \/ HandleShare(i, j)
    \/ HandleComplaint(i, j)

\* The threads and the connections of CA i, and what may happen to them.
Process(i) ==
    \/ MainThread(i) \/ Crash(i)
    \/ \E j \in Peers(i) : EventLoop(i, j) \/ ConnectionFails(i, j) \/ LoseTail(i, j)

Next == \E i \in CA : Process(i)

Spec == Init /\ [][Next]_vars

\* Every thread keeps running and every connection attempt is answered.
Fairness ==
    /\ \A i \in CA : WF_vars(MainThread(i))
    /\ \A i \in CA : \A j \in Peers(i) :
          /\ WF_vars(EventLoop(i, j))
          /\ WF_vars(ConnectionFails(i, j))

FairSpec == Spec /\ Fairness

-----------------------------------------------------------------------------
(* Properties.                                                             *)

\* Every field holds a value of its Java type's abstraction; in particular only
\* hashes travel in hash messages and enter receivedHashes.
TypeOK ==
    /\ main \in [CA -> MainState]
    /\ ca \in [CA -> CAState]
    /\ chan \in [CA -> [CA -> ChanState]]
    /\ says \in [CA -> [CA -> Behaviour]]

Finished(i) == ca[i].state = "DONE"

\* The disqualifying branches of handleReveal and handleShare, and the
\* complaints they broadcast, never hit a CA that follows the protocol, in
\* whatever order connections, hashes, reveals and shares arrive.
HonestStayQualified ==
    \A i \in CA, j \in Honest : j \notin ca[i].disqualifiedIds

\* Hash-then-reveal: a CA that has left AWAITING_HASHES holds a hash of every
\* CA, and commitments it accepted are the ones that hash binds.
CommitBeforeReveal ==
    \A i, j \in CA :
        /\ ca[i].state # "AWAITING_HASHES" => ca[i].receivedHashes[j] # None
        /\ ca[i].receivedCommitments[j] # None =>
              ca[i].receivedHashes[j] = hashCommitments(ca[i].receivedCommitments[j])

\* Does reveal r of a contributor back its share and its part of the master key?
Backs(r, share, mpk) == verifyShare(share, r) /\ mpk = r.pubKey

\* What finalizeDKG summed and multiplied belongs together: a CA that is in
\* the master key is in the key share, with a share verified against the
\* commitments that came with its public key, under the hash it announced.
KeyBacked ==
    \A i, q \in CA : Finished(i) =>
        /\ ca[i].key.share[q] = None <=> ca[i].key.mpk[q] = None
        /\ ca[i].key.mpk[q] # None =>
              \E r \in Reveals : /\ Backs(r, ca[i].key.share[q], ca[i].key.mpk[q])
                                 /\ ca[i].receivedHashes[q] = hashCommitments(r)

\* A finished CA's key contains the contribution of every honest CA.
HonestContribute ==
    \A i \in CA, q \in Honest : Finished(i) => ca[i].key.mpk[q] = Own

\* The key share of a finished CA belongs to its master public key.
ShareMatchesKey ==
    \A i \in Honest : Finished(i) => ca[i].key.share = ca[i].key.mpk

\* Finished CAs hold shares of one and the same master key.
Agreement ==
    \A i, j \in Honest : Finished(i) /\ Finished(j) => ca[i].key.mpk = ca[j].key.mpk

KG == INSTANCE KeyGen WITH
        CA <- Honest,
        Key <- Map(Contents),
        key <- [i \in Honest |-> IF Finished(i) THEN ca[i].key.mpk ELSE None]

\* The DKG implements KeyGen: honest CAs establish one key, once, for good.
ImplementsKeyGen == KG!Spec

\* The "before its reveal was accepted. Ignoring..." branch of handleShare never
\* drops the share of an honest CA; nothing would ever send it again.
NoShareIgnored ==
    \A i \in CA : \A j \in Honest \ {i} :
        Receivable(i, j, "share") => ca[i].receivedCommitments[j] # None

\* A CA keeps its polynomials until it has a key: evaluateSecretPolynomial
\* never meets the null finalizeDKG leaves.
PolynomialKept ==
    \A i \in CA : main[i] \notin {"down", "sleeping", "crashed"} /\ ~Finished(i)
                    => ca[i].secretCoefficients

Rank(st) == CASE st = "AWAITING_HASHES" -> 0
              [] st = "AWAITING_REVEALS" -> 1
              [] st = "AWAITING_SHARES" -> 2
              [] st = "DONE" -> 3

\* The DKG never moves back, and a key once established is never replaced.
PhaseForward ==
    [][\A i \in CA :
          /\ Rank(ca'[i].state) >= Rank(ca[i].state)
          /\ Finished(i) => ca'[i].key = ca[i].key]_vars

\* Every honest CA ends the DKG with a key.
HonestFinish == \A i \in Honest : <>[]Finished(i)

=============================================================================
