------------------------------ MODULE Registry ------------------------------
(* The pseudonym registry of the Directory Authority (DA.java) and the two *)
(* threads that call it: the event loop of DAProtocol, which serves the    *)
(* users' RegisterRelayMsg, and the bridge thread of DAServer, which       *)
(* serves the VALIDATE lines of Tor.                                       *)

CONSTANTS
    Pseudonyms,     \* the results of pseudonymKey: pairs of context and pseudonym
    Nodes,          \* node ids: the name of a Chutney node or a fingerprint
    FamilyIds,
    Claims,         \* the requests that users and relays make
    None

\* A request as it reaches the DA.  vrf and linkage say whether its proofs are
\* good for its context, its key and its pseudonym; a VALIDATE line with a payload
\* that cannot be parsed is answered like one with bad proofs.
Claim == [key : Pseudonyms, nodeId : Nodes, familyIds : SUBSET FamilyIds,
          vrf : BOOLEAN, linkage : BOOLEAN]

Threads == {"DAProtocol", "DAServer"}

ASSUME ClaimsAssumption == Claims \subseteq Claim
ASSUME NoneAssumption == \A x \in Claims \cup Threads \cup (SUBSET FamilyIds) : x # None

VARIABLES
    registrations,  \* DA.registrations: pseudonym -> node id -> family ids
    monitor,        \* the thread inside registerNode, if any
    thread          \* what each thread is doing

vars == <<registrations, monitor, thread>>

\* Where a thread is: waiting for a request; before registerNode; in
\* registerNode, about to create the entry or to add to it; before the reply.
Steps == {"idle", "entering", "creating", "joining", "replying"}
ThreadState == [step : Steps, claim : {None} \cup Claims, accepted : BOOLEAN]

Idle == [step |-> "idle", claim |-> None, accepted |-> FALSE]

\* An entry of the map, null or a map of nodes.
Entry == [Nodes -> {None} \cup (SUBSET FamilyIds)]
Nobody == [nodeId \in Nodes |-> None]
Members(entry) == {x \in Nodes : entry[x] # None}

knownFamilyIds(entry) == UNION {entry[x] : x \in Members(entry)}

-----------------------------------------------------------------------------
(* Actions.                                                                *)

Init ==
    /\ registrations = [key \in Pseudonyms |-> Nobody]
    /\ monitor = None
    /\ thread = [t \in Threads |-> Idle]

verifyVrf(c) == c.vrf
verifyCredentialLinkage(c) == c.linkage

\* A thread verifies the proofs of a request; registerNode is called for good
\* ones only.
Verify(t, c) ==
    /\ thread[t].step = "idle"
    /\ thread' = [thread EXCEPT ![t] =
          [step |-> IF verifyVrf(c) /\ verifyCredentialLinkage(c) THEN "entering" ELSE "replying",
           claim |-> c, accepted |-> FALSE]]
    /\ UNCHANGED <<registrations, monitor>>

HandleRegisterRelay(c) == Verify("DAProtocol", c)
ServeRequest(c) == Verify("DAServer", c)

\* Mutant: a node that is known replaces its family ids.
M_UpdateKnown(entry, c) ==
    IF Members(entry) = {} THEN "create"
    ELSE IF c.nodeId \notin Members(entry) /\ knownFamilyIds(entry) \cap c.familyIds = {} THEN "reject"
    ELSE "join"

\* Mutant: the first node of a pseudonym needs a shared family too.
M_NoFirst(entry, c) ==
    IF c.nodeId \in Members(entry) THEN "known"
    ELSE IF knownFamilyIds(entry) \cap c.familyIds = {} THEN "reject"
    ELSE "join"

\* What registerNode decides from the entry it finds.
decide(entry, c) ==
    IF Members(entry) = {} THEN "create"
    ELSE IF c.nodeId \in Members(entry) THEN "known"
    ELSE IF knownFamilyIds(entry) \cap c.familyIds = {} THEN "reject"
    ELSE "join"

StepAfter == [create |-> "creating", join |-> "joining", known |-> "replying", reject |-> "replying"]

Enter(t, outcome) ==
    /\ thread[t].step = "entering"
    /\ thread' = [thread EXCEPT ![t] =
          [@ EXCEPT !.step = StepAfter[outcome], !.accepted = (outcome = "known")]]
    /\ UNCHANGED registrations

\* Mutant: registerNode is not synchronized.
M_Unsynchronized(t) ==
    /\ Enter(t, decide(registrations[thread[t].claim.key], thread[t].claim))
    /\ UNCHANGED monitor

\* Mutant: a request that is to be rejected is tried again.
M_TryAgain(t) ==
    LET c == thread[t].claim
        outcome == decide(registrations[c.key], c)
    IN  /\ monitor = None /\ thread[t].step = "entering"
        /\ \/ outcome = "reject" /\ UNCHANGED <<thread, registrations>>
           \/ outcome # "reject" /\ Enter(t, outcome)
        /\ monitor' = IF outcome \in {"create", "join"} THEN t ELSE None

\* registerNode up to its first put or to the return before it.
RegisterNode(t) ==
    LET c == thread[t].claim
        outcome == decide(registrations[c.key], c)
    IN  /\ monitor = None
        /\ Enter(t, outcome)
        /\ monitor' = IF outcome \in {"create", "join"} THEN t ELSE None

\* Mutant: a new node replaces the entry.
M_ReplaceEntry(t) ==
    LET c == thread[t].claim
    IN  /\ thread[t].step \in {"creating", "joining"}
        /\ registrations' = [registrations EXCEPT ![c.key] = [Nobody EXCEPT ![c.nodeId] = c.familyIds]]
        /\ monitor' = None
        /\ thread' = [thread EXCEPT ![t] = [@ EXCEPT !.step = "replying", !.accepted = TRUE]]

\* The rest of registerNode: a new entry with the node in it, or the node
\* added to the entry.
Put(t) ==
    LET c == thread[t].claim
        entry == IF thread[t].step = "creating" THEN Nobody ELSE registrations[c.key]
    IN  /\ thread[t].step \in {"creating", "joining"}
        /\ registrations' = [registrations EXCEPT ![c.key] = [entry EXCEPT ![c.nodeId] = c.familyIds]]
        /\ monitor' = None
        /\ thread' = [thread EXCEPT ![t] = [@ EXCEPT !.step = "replying", !.accepted = TRUE]]

\* The answer goes out, as RegisterRelayReplyMsg or as VALID or INVALID.
Reply(t) ==
    /\ thread[t].step = "replying"
    /\ thread' = [thread EXCEPT ![t] = Idle]
    /\ UNCHANGED <<registrations, monitor>>

Next ==
    \/ \E c \in Claims : HandleRegisterRelay(c) \/ ServeRequest(c)
    \/ \E t \in Threads : RegisterNode(t) \/ Put(t) \/ Reply(t)

Spec == Init /\ [][Next]_vars

\* A thread that is not waiting for a monitor keeps running, and a free
\* monitor is given to some thread that waits for it.
Fairness ==
    /\ \A t \in Threads : WF_vars(Put(t)) /\ WF_vars(Reply(t))
    /\ WF_vars(\E t \in Threads : RegisterNode(t))

FairSpec == Spec /\ Fairness

-----------------------------------------------------------------------------
(* Properties.                                                             *)

\* The registry maps pseudonyms to nodes to families, at most one thread is in
\* registerNode, and each thread is at a step of its handler.
TypeOK ==
    /\ registrations \in [Pseudonyms -> Entry]
    /\ monitor \in {None} \cup Threads
    /\ thread \in [Threads -> ThreadState]

\* Both threads decide and put under the monitor, for requests with good
\* proofs; what registerNode decided still holds when it puts.
Deciding(t) ==
    LET c == thread[t].claim
    IN  /\ thread[t].step \in {"creating", "joining"} <=> monitor = t
        /\ thread[t].step # "idle" => c # None
        /\ thread[t].step \in {"entering", "creating", "joining"} => c.vrf /\ c.linkage
        /\ thread[t].step = "creating" => decide(registrations[c.key], c) = "create"
        /\ thread[t].step = "joining" => decide(registrations[c.key], c) = "join"

\* A family joins two nodes of an entry.
Related(entry, x, y) == entry[x] \cap entry[y] # {}

\* The nodes of an entry are one group: whichever way they are divided, a
\* family joins the two parts.
OneGroup(entry) ==
    \A part \in SUBSET Members(entry) :
        part # {} /\ part # Members(entry) =>
            \E x \in part, y \in Members(entry) \ part : Related(entry, x, y)

\* One identity runs several relays only as a family, whatever the order of
\* requests and the interleaving of the two threads in registerNode.
OneFamily == \A key \in Pseudonyms : OneGroup(registrations[key])

\* A request is answered yes only when its node is in the registry and its
\* proofs were verified, at the time the answer goes out.
AcceptedIsRegistered ==
    \A t \in Threads : thread[t].step = "replying" /\ thread[t].accepted =>
        LET c == thread[t].claim
        IN  c.vrf /\ c.linkage /\ registrations[c.key][c.nodeId] # None

\* Proofs that verify are answered no only when the pseudonym is in use by
\* another node.
RejectedIsTaken ==
    \A t \in Threads : thread[t].step = "replying" /\ ~thread[t].accepted =>
        LET c == thread[t].claim
        IN  c.vrf /\ c.linkage => Members(registrations[c.key]) \ {c.nodeId} # {}

\* No step removes a node or changes the families it was accepted with.
RegistrationsKept ==
    [][\A key \in Pseudonyms : \A x \in Members(registrations[key]) :
          registrations'[key][x] = registrations[key][x]]_vars

\* A request does not wait for ever while no request is answered.
SomeoneAnswered ==
    (\E t \in Threads : thread[t].step = "entering") ~>
    (\E t \in Threads : thread[t].step = "replying")

FR == INSTANCE FamilyRegistry

\* registerNode, in two threads and several steps, does what one atomic step
\* of the promised registry does.
ImplementsFamilyRegistry == FR!Spec

\* The inductive invariant: what registerNode decides in one thread is not
\* disturbed by the other before its put; hence the three properties above.
RegistryInv ==
    /\ TypeOK
    /\ \A t \in Threads : Deciding(t)
    /\ OneFamily
    /\ AcceptedIsRegistered
    /\ RejectedIsTaken
=============================================================================
