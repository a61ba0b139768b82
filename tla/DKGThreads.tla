----------------------------- MODULE DKGThreads -----------------------------
(***************************************************************************)
(* The DKG when the event loop of a CA runs handlers while its main thread *)
(* is still in startDKG.  Nothing is synchronized, so for a CA in          *)
(* RacyStart both threads walk through the methods of CAProtocol step by   *)
(* step, and may be in the same one.  As long as only one thread of a CA   *)
(* is at work, it takes the steps of DKG.                                  *)
(*                                                                         *)
(* A step is one test, one send, or one group of writes that no other step *)
(* tells apart: a new state and the own map entry written right after it.  *)
(* The entries of receivedPubKeyG1 and receivedPubKeyG2 go with the one of *)
(* receivedCommitments, as in DKG.                                         *)
(***************************************************************************)
EXTENDS DKG

CONSTANT RacyStart    \* honest CAs whose handlers run while their startDKG runs

VARIABLE at     \* at[i][t] \in Positions: where thread t of CA i is inside a method

allVars == <<vars, at>>

Threads == {"main", "loop"}

\* A position: the step that comes next, the peers a loop has still to visit
\* (in finalizeDKG: the qualified CAs), and the CA that a complaint is about.
Steps == {"idle", "connected", "hashes", "reveal", "revealing", "accuseReveal", "reveals",
          "distribute", "distributing", "complaint", "accuseShare", "shares", "finalize"}
Positions == [step : Steps, left : SUBSET CA, about : CA \cup {None}]
Position(step, left, about) == [step |-> step, left |-> left, about |-> about]
Before(step) == Position(step, {}, None)
Idle == Before("idle")

Other(t) == IF t = "main" THEN "loop" ELSE "main"

InStartDKG(i) == main[i] \in {"putting", "opened"}

\* One thread of i is at work: the event loop is in no handler, and none of
\* its handlers overlaps startDKG.
OneThread(i) == at[i]["loop"] = Idle /\ (i \in RacyStart => ~InStartDKG(i))

-----------------------------------------------------------------------------

\* HashMap.put(j, v) of a handler while startDKG may be inside its own put of
\* the key i into the same map f.  If the map was empty, both may allocate the
\* table, and one of the entries is lost.
overlappingPut(f, i, j, v) ==
    LET both == [f EXCEPT ![j] = v]
    IN  {both} \cup IF Keys(f) \subseteq {i} THEN {f, [both EXCEPT ![i] = None]} ELSE {}

\* Thread t of i turns its CA's state into s and goes on at position p, or ends.
Run(i, t, s, p) ==
    /\ ca' = [ca EXCEPT ![i] = s]
    /\ at' = [at EXCEPT ![i][t] = p]
    /\ main' = [main EXCEPT ![i] = IF t = "main" /\ p = Idle THEN "returned" ELSE @]
    /\ UNCHANGED <<chan, says>>

In(i, t, step) == at[i][t].step = step /\ main[i] # "crashed"

\* checkHashPhaseComplete: the tests,
TestHashes(i, t) ==
    /\ In(i, t, "hashes")
    /\ Run(i, t, ca[i], IF hashPhaseComplete(i, ca[i]) THEN Before("reveal") ELSE Idle)

\* the new state and the own entry of receivedCommitments, and
EnterReveals(i, t) ==
    /\ In(i, t, "reveal")
    /\ Run(i, t, [ca[i] EXCEPT !.state = "AWAITING_REVEALS", !.receivedCommitments[i] = OwnReveal],
           Position("revealing", Peers(i), None))

\* the reveals, peer by peer.
SendReveal(i, t) ==
    /\ In(i, t, "revealing")
    /\ LET left == at[i][t].left
           Reveal == [j \in CA |-> DKGRevealMsg(says[i][j].reveal)]
       IN  \/ /\ left = {} /\ Run(i, t, ca[i], Before("reveals"))
           \/ \E j \in left : Run(i, t, Send(ca[i], {j}, Reveal), Position("revealing", left \ {j}, None))

\* checkRevealPhaseComplete: the tests,
TestReveals(i, t) ==
    LET s == ca[i]
        accounted == Keys(s.receivedCommitments) \cup s.disqualifiedIds
    IN  /\ In(i, t, "reveals")
        /\ Run(i, t, s, IF s.state = "AWAITING_REVEALS" /\ Cardinality(accounted) >= n
                        THEN Before("distribute") ELSE Idle)

\* the new state and the own share, and
EnterShares(i, t) ==
    LET s == [ca[i] EXCEPT !.state = "AWAITING_SHARES"]
    IN  /\ In(i, t, "distribute")
        /\ IF s.secretCoefficients
           THEN Run(i, t, [s EXCEPT !.receivedSecretShares[i] = Own], Position("distributing", Peers(i), None))
           ELSE Run(i, t, s, Idle)      \* evaluateSecretPolynomial throws

\* the shares, peer by peer; the disqualified are left out.
SendShare(i, t) ==
    /\ In(i, t, "distributing")
    /\ LET left == at[i][t].left
           Share == [j \in CA |-> DKGShareMsg(says[i][j].share)]
       IN  \/ /\ left = {} /\ Run(i, t, ca[i], Before("shares"))
           \/ \E j \in left :
                 LET next == Position("distributing", left \ {j}, None)
                 IN  IF j \in ca[i].disqualifiedIds THEN Run(i, t, ca[i], next)
                     ELSE IF ca[i].secretCoefficients THEN Run(i, t, Send(ca[i], {j}, Share), next)
                     ELSE Run(i, t, ca[i], Idle)

\* checkSharePhaseComplete: the tests and what is to be summed, and
TestShares(i, t) ==
    LET s == ca[i]
        accounted == Keys(s.receivedSecretShares) \cup s.disqualifiedIds
        qualified == Keys(s.receivedCommitments) \ s.disqualifiedIds
    IN  /\ In(i, t, "shares")
        /\ Run(i, t, s, IF /\ s.state = "AWAITING_SHARES"
                           /\ Cardinality(accounted) >= n
                           /\ Cardinality(qualified) >= Threshold
                        THEN Position("finalize", qualified, None) ELSE Idle)

\* finalizeDKG and the new state.  Two threads that sum into the same fields
\* leave a key that belongs to nobody, which is the empty map.
Finalize(i, t) ==
    LET s == [finalizeDKG(ca[i], at[i][t].left) EXCEPT !.state = "DONE"]
        garbled == [s EXCEPT !.key = [share |-> EmptyMap, mpk |-> EmptyMap]]
    IN  /\ In(i, t, "finalize")
        /\ \/ Run(i, t, s, Idle)
           \/ at[i][Other(t)].step = "finalize" /\ Run(i, t, garbled, Idle)

\* broadcastComplaint, peer by peer, in handleReveal and in handleShare, which
\* then check their phase.
SendComplaint(i) ==
    LET p == at[i]["loop"]
        Complaint == [j \in CA |-> DKGComplaintMsg(p.about)]
        tell(after) == \/ p.left = {} /\ Run(i, "loop", ca[i], Before(after))
                       \/ \E j \in p.left :
                             Run(i, "loop", Send(ca[i], {j}, Complaint), [p EXCEPT !.left = @ \ {j}])
    IN  \/ In(i, "loop", "accuseReveal") /\ tell("reveals")
        \/ In(i, "loop", "accuseShare") /\ tell("shares")

\* The end of onOutConnectionUp: a late connection gets the reveal.
TestConnected(i) ==
    LET p == at[i]["loop"]
        Reveal == [j \in CA |-> DKGRevealMsg(says[i][j].reveal)]
    IN  /\ In(i, "loop", "connected")
        /\ IF ca[i].state = "AWAITING_HASHES" THEN Run(i, "loop", ca[i], Before("hashes"))
           ELSE Run(i, "loop", Send(ca[i], p.left, Reveal), Idle)

\* The end of handleComplaint.
TestPhase(i) ==
    /\ In(i, "loop", "complaint")
    /\ Run(i, "loop", ca[i], CASE ca[i].state = "AWAITING_REVEALS" -> Before("reveals")
                               [] ca[i].state = "AWAITING_SHARES" -> Before("shares")
                               [] OTHER -> Idle)

Method(i, t) ==
    \/ TestHashes(i, t) \/ EnterReveals(i, t) \/ SendReveal(i, t)
    \/ TestReveals(i, t) \/ EnterShares(i, t) \/ SendShare(i, t)
    \/ TestShares(i, t) \/ Finalize(i, t)

-----------------------------------------------------------------------------
(* The handlers that the event loop starts while startDKG runs.            *)

\* The main thread of i has made its entry in a map and may be inside the put.
Putting(i, step) == at[i]["main"] = Position(step, Peers(i), None)

\* The event loop of i takes an event.
Takes(i) == InStartDKG(i) /\ at[i]["loop"] = Idle

RacyConnectionUp(i, j) ==
    /\ chan[i][j] = "connecting" /\ main[j] \notin {"down", "crashed"} /\ Takes(i)
    /\ LET Hello == [k \in CA |-> DKGCommitmentHashMsg(says[i][j].hash)]
           s == [Send(ca[i], {j}, Hello) EXCEPT !.connectedPeerIds = @ \cup {j}]
       IN  ca' = [ca EXCEPT ![i] = s]
    /\ at' = [at EXCEPT ![i]["loop"] = Position("connected", {j}, None)]
    /\ chan' = [chan EXCEPT ![i][j] = "up"]
    /\ UNCHANGED <<main, says>>

RacyConnectionFailed(i, j) ==
    /\ chan[i][j] = "failed" /\ Takes(i)
    /\ chan' = [chan EXCEPT ![i][j] = "connecting"]
    /\ UNCHANGED <<main, ca, says, at>>

Arrives(i, j, type) ==
    /\ chan[j][i] = "up" /\ ca[j].out[i] # <<>> /\ Head(ca[j].out[i]).type = type /\ Takes(i)

\* i has read the message from j, and its event loop goes on at position p.
Handle(i, j, s, p) ==
    /\ Consume(i, j, s)
    /\ at' = [at EXCEPT ![i]["loop"] = p]

RacyHash(i, j) ==
    LET s == ca[i]
        grown == s.hashCount + (IF s.receivedHashes[j] = None THEN 1 ELSE 0)
        plain == putHash(s, j, Body(i, j))
    IN  /\ Arrives(i, j, "hash")
        /\ IF main[i] = "putting"
           THEN \E f \in overlappingPut(s.receivedHashes, i, j, Body(i, j)), c \in {s.hashCount, grown} :
                   Handle(i, j, [s EXCEPT !.receivedHashes = f, !.hashCount = c], Before("hashes"))
           ELSE Handle(i, j, plain, Before("hashes"))

RacyReveal(i, j) ==
    LET s == ca[i]  r == Body(i, j)
    IN  /\ Arrives(i, j, "reveal")
        /\ IF s.receivedHashes[j] # hashCommitments(r)
           THEN Handle(i, j, [s EXCEPT !.disqualifiedIds = @ \cup {j}], Position("accuseReveal", Peers(i) \ {j}, j))
           ELSE \E f \in IF Putting(i, "revealing") THEN overlappingPut(s.receivedCommitments, i, j, r)
                         ELSE {[s.receivedCommitments EXCEPT ![j] = r]} :
                   Handle(i, j, [s EXCEPT !.receivedCommitments = f], Before("reveals"))

RacyShare(i, j) ==
    LET s == ca[i]  c == Body(i, j)
    IN  /\ Arrives(i, j, "share")
        /\ IF j \in s.disqualifiedIds \/ s.receivedCommitments[j] = None THEN Handle(i, j, s, Idle)
           ELSE IF ~verifyShare(c, s.receivedCommitments[j])
           THEN Handle(i, j, [s EXCEPT !.disqualifiedIds = @ \cup {j}], Position("accuseShare", Peers(i) \ {j}, j))
           ELSE \E f \in IF Putting(i, "distributing") THEN overlappingPut(s.receivedSecretShares, i, j, c)
                         ELSE {[s.receivedSecretShares EXCEPT ![j] = c]} :
                   Handle(i, j, [s EXCEPT !.receivedSecretShares = f], Before("shares"))

RacyComplaint(i, j) ==
    /\ Arrives(i, j, "complaint")
    /\ Handle(i, j, [ca[i] EXCEPT !.disqualifiedIds = @ \cup {Body(i, j)}], Before("complaint"))

\* The openConnection loop; the final checkHashPhaseComplete comes next.
Open(i) ==
    /\ OpenConnections(i)
    /\ at' = [at EXCEPT ![i]["main"] = Before("hashes")]

Racing(i) ==
    \/ Open(i)
    \/ \E t \in Threads : Method(i, t)
    \/ SendComplaint(i) \/ TestConnected(i) \/ TestPhase(i)
    \/ \E j \in Peers(i) : \/ RacyConnectionUp(i, j) \/ RacyConnectionFailed(i, j)
                           \/ RacyHash(i, j) \/ RacyReveal(i, j)
                           \/ RacyShare(i, j) \/ RacyComplaint(i, j)

\* What happens to i from outside.
Outside(i) == Crash(i) \/ \E j \in Peers(i) : ConnectionFails(i, j) \/ LoseTail(i, j)

ThreadsInit == Init /\ at = [i \in CA |-> [t \in Threads |-> Idle]]

ThreadsNext ==
    \/ \E i \in CA : OneThread(i) /\ Process(i) /\ UNCHANGED at
    \/ \E i \in RacyStart : Racing(i)
    \/ \E i \in RacyStart : ~OneThread(i) /\ Outside(i) /\ UNCHANGED at

ThreadsSpec == ThreadsInit /\ [][ThreadsNext]_allVars

=============================================================================
