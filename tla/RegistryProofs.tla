--------------------------- MODULE RegistryProofs ---------------------------
(* The registry keeps one family per pseudonym, never forgets a node, and  *)
(* implements FamilyRegistry, for any pseudonyms, nodes and families.      *)
EXTENDS Registry, TLAPS

\* Adding a node changes its own place in an entry only.
LEMMA AddMember ==
    ASSUME NEW e \in Entry, NEW x \in Nodes, NEW F \in SUBSET FamilyIds
    PROVE  /\ [e EXCEPT ![x] = F] \in Entry
           /\ [e EXCEPT ![x] = F][x] = F
           /\ \A y \in Nodes : y # x => [e EXCEPT ![x] = F][y] = e[y]
           /\ Members([e EXCEPT ![x] = F]) = Members(e) \cup {x}
BY NoneAssumption DEF Entry, Members

\* A first node is a group.
LEMMA FirstGroup ==
    ASSUME NEW x \in Nodes, NEW F \in SUBSET FamilyIds
    PROVE  OneGroup([Nobody EXCEPT ![x] = F])
<1>1. Nobody \in Entry /\ Members(Nobody) = {}
  BY DEF Nobody, Entry, Members
<1>2. Members([Nobody EXCEPT ![x] = F]) = {x}
  <2>1. Members([Nobody EXCEPT ![x] = F]) = Members(Nobody) \cup {x}
    BY Zenon, <1>1, AddMember
  <2> QED BY Zenon, <1>1, <2>1
<1> QED BY Zenon, <1>2 DEF OneGroup

\* A node that shares a family with a member extends the group.
LEMMA GrowGroup ==
    ASSUME NEW e \in Entry, OneGroup(e), NEW x \in Nodes, e[x] = None,
           NEW F \in SUBSET FamilyIds, NEW y \in Members(e), e[y] \cap F # {}
    PROVE  OneGroup([e EXCEPT ![x] = F])
<1> DEFINE e2 == [e EXCEPT ![x] = F]
<1>1. /\ e2[x] = F /\ \A z \in Nodes : z # x => e2[z] = e[z]
      /\ Members(e2) = Members(e) \cup {x}
  <2>1. e2[x] = F
    BY DEF Entry
  <2>2. \A z \in Nodes : z # x => e2[z] = e[z]
    BY AddMember
  <2>3. Members(e2) = Members(e) \cup {x}
    BY AddMember
  <2> HIDE DEF e2
  <2> QED BY <2>1, <2>2, <2>3
<1>2. x \notin Members(e) /\ Members(e) \subseteq Nodes
  BY DEF Members
<1>3. Related(e2, x, y) /\ Related(e2, y, x)
  BY <1>1, <1>2 DEF Related
<1>4. \A a, b \in Members(e) : Related(e, a, b) => Related(e2, a, b)
  BY <1>1, <1>2 DEF Related
<1> HIDE DEF e2
<1> SUFFICES ASSUME NEW part \in SUBSET Members(e2), part # {}, part # Members(e2)
             PROVE  \E a \in part, b \in Members(e2) \ part : Related(e2, a, b)
  BY Zenon DEF OneGroup, e2
<1> DEFINE old == part \ {x}
<1>5. CASE old # {} /\ old # Members(e)
  <2>1. old \in SUBSET Members(e)
    BY <1>1
  <2>2. PICK a \in old, b \in Members(e) \ old : Related(e, a, b)
    BY Zenon, <1>5, <2>1 DEF OneGroup
  <2>3. a \in part /\ b \in Members(e2) \ part
    BY <1>1, <1>2, <2>1, <2>2
  <2> QED BY <1>4, <2>1, <2>2, <2>3
<1>6. CASE old = {}
  <2>1. part = {x} /\ y \in Members(e2) \ part
    BY <1>1, <1>2, <1>6
  <2> QED BY <1>3, <2>1
<1>7. CASE old = Members(e)
  <2>1. x \notin part /\ y \in part /\ x \in Members(e2)
    BY <1>1, <1>2, <1>7
  <2> QED BY <1>3, <2>1
<1> QED BY <1>5, <1>6, <1>7

-----------------------------------------------------------------------------

LEMMA InitInv == Init => RegistryInv
<1> SUFFICES ASSUME Init PROVE RegistryInv
  OBVIOUS
<1>1. TypeOK
  BY DEF Init, TypeOK, Entry, Nobody, ThreadState, Steps, Idle
<1>2. \A t \in Threads : thread[t] = Idle /\ monitor # t
  <2>1. \A t \in Threads : t # None
    BY NoneAssumption
  <2> QED BY <2>1 DEF Init
<1>3. \A key \in Pseudonyms : Members(registrations[key]) = {}
  BY Zenon DEF Init, Members, Nobody
<1>4. OneFamily
  BY <1>3 DEF OneFamily, OneGroup
<1> QED BY <1>1, <1>2, <1>4 DEF RegistryInv, Deciding, Idle, AcceptedIsRegistered, RejectedIsTaken

\* The put of registerNode: what it was decided from still holds, the node is
\* new, and the entry becomes the old one with the node.
LEMMA PutEffect ==
    ASSUME RegistryInv, NEW t \in Threads, Put(t)
    PROVE  LET c == thread[t].claim
               e == registrations[c.key]
           IN  /\ c \in Claims /\ c \in Claim /\ e \in Entry /\ e[c.nodeId] = None
               /\ registrations' = [registrations EXCEPT ![c.key] = [e EXCEPT ![c.nodeId] = c.familyIds]]
               /\ Members(e) = {} => e = Nobody
               /\ Members(e) # {} => \E y \in Members(e) : e[y] \cap c.familyIds # {}
               /\ c.vrf /\ c.linkage /\ monitor = t
<1> DEFINE c == thread[t].claim
           e == registrations[c.key]
<1>1. thread[t] \in ThreadState /\ Deciding(t) /\ registrations \in [Pseudonyms -> Entry]
  BY DEF RegistryInv, TypeOK
<1>2. thread[t].step \in {"creating", "joining"} /\ monitor = t /\ c \in Claims
      /\ c.vrf /\ c.linkage
  BY <1>1 DEF Put, Deciding, ThreadState
<1>3. c \in Claim /\ e \in Entry /\ c.nodeId \in Nodes
  BY <1>1, <1>2, ClaimsAssumption DEF Claim
<1>4. CASE thread[t].step = "creating"
  <2>1. decide(e, c) = "create"
    BY <1>1, <1>4 DEF Deciding
  <2>2. Members(e) = {}
    BY <2>1 DEF decide
  <2>3. e = Nobody
    BY <1>3, <2>2 DEF Members, Nobody, Entry
  <2>4. registrations' = [registrations EXCEPT ![c.key] = [Nobody EXCEPT ![c.nodeId] = c.familyIds]]
    BY <1>4 DEF Put
  <2> QED BY <1>2, <1>3, <2>2, <2>3, <2>4 DEF Nobody
<1>5. CASE thread[t].step = "joining"
  <2>1. decide(e, c) = "join"
    BY <1>1, <1>5 DEF Deciding
  <2>2. Members(e) # {} /\ c.nodeId \notin Members(e) /\ knownFamilyIds(e) \cap c.familyIds # {}
    BY <2>1 DEF decide
  <2>3. \E y \in Members(e) : e[y] \cap c.familyIds # {}
    BY <2>2 DEF knownFamilyIds
  <2>4. registrations' = [registrations EXCEPT ![c.key] = [e EXCEPT ![c.nodeId] = c.familyIds]]
    BY <1>5 DEF Put
  <2>5. e[c.nodeId] = None
    BY <1>3, <2>2 DEF Members
  <2> QED BY <1>2, <1>3, <2>2, <2>3, <2>4, <2>5
<1> QED BY <1>2, <1>4, <1>5

LEMMA VerifyInv ==
    ASSUME RegistryInv, NEW t \in Threads, NEW c \in Claims, Verify(t, c)
    PROVE  RegistryInv'
<1>1. TypeOK' /\ registrations' = registrations /\ monitor' = monitor
  BY DEF RegistryInv, TypeOK, Verify, ThreadState, Steps
<1>2. \A s \in Threads : s # t => thread'[s] = thread[s]
  BY DEF RegistryInv, TypeOK, Verify
<1>3. /\ thread[t].step = "idle" /\ thread'[t].claim = c /\ ~thread'[t].accepted
      /\ thread'[t].step \in {"entering", "replying"}
      /\ thread'[t].step = "replying" <=> ~(c.vrf /\ c.linkage)
  BY DEF RegistryInv, TypeOK, Verify, verifyVrf, verifyCredentialLinkage
<1>4. \A s \in Threads : Deciding(s)'
  BY <1>1, <1>2, <1>3, NoneAssumption DEF RegistryInv, Deciding
<1>5. OneFamily'
  BY <1>1 DEF RegistryInv, OneFamily
<1>6. AcceptedIsRegistered' /\ RejectedIsTaken'
  BY <1>1, <1>2, <1>3 DEF RegistryInv, AcceptedIsRegistered, RejectedIsTaken
<1> QED BY <1>1, <1>4, <1>5, <1>6 DEF RegistryInv

LEMMA ReplyInv ==
    ASSUME RegistryInv, NEW t \in Threads, Reply(t)
    PROVE  RegistryInv'
<1>1. TypeOK' /\ registrations' = registrations /\ monitor' = monitor
  BY DEF RegistryInv, TypeOK, Reply, Idle, ThreadState, Steps
<1>2. \A s \in Threads : s # t => thread'[s] = thread[s]
  BY DEF RegistryInv, TypeOK, Reply
<1>3. thread[t].step = "replying" /\ thread'[t].step = "idle"
  BY DEF RegistryInv, TypeOK, Reply, Idle
<1>4. \A s \in Threads : Deciding(s)'
  BY <1>1, <1>2, <1>3 DEF RegistryInv, Deciding
<1>5. OneFamily'
  BY <1>1 DEF RegistryInv, OneFamily
<1>6. AcceptedIsRegistered' /\ RejectedIsTaken'
  BY <1>1, <1>2, <1>3 DEF RegistryInv, AcceptedIsRegistered, RejectedIsTaken
<1> QED BY <1>1, <1>4, <1>5, <1>6 DEF RegistryInv

LEMMA RegisterNodeInv ==
    ASSUME RegistryInv, NEW t \in Threads, RegisterNode(t)
    PROVE  RegistryInv'
<1> DEFINE c == thread[t].claim
           e == registrations[c.key]
           outcome == decide(e, c)
<1>1. /\ monitor = None /\ thread[t].step = "entering" /\ registrations' = registrations
      /\ thread' = [thread EXCEPT ![t] =
            [@ EXCEPT !.step = StepAfter[outcome], !.accepted = (outcome = "known")]]
      /\ monitor' = IF outcome \in {"create", "join"} THEN t ELSE None
  BY DEF RegisterNode, Enter
<1>2. thread[t] \in ThreadState /\ thread \in [Threads -> ThreadState] /\ Deciding(t)
  BY DEF RegistryInv, TypeOK
<1>3. c \in Claims /\ c \in Claim /\ c.vrf /\ c.linkage
  BY <1>1, <1>2, ClaimsAssumption DEF ThreadState, Deciding
<1>4. outcome \in {"create", "known", "reject", "join"}
  BY DEF decide
<1>5. outcome = "known" => e[c.nodeId] # None
  BY DEF decide, Members
<1>6. outcome = "reject" => Members(e) \ {c.nodeId} # {}
  BY DEF decide
<1> HIDE DEF outcome
<1>7. StepAfter[outcome] = IF outcome = "create" THEN "creating"
                           ELSE IF outcome = "join" THEN "joining" ELSE "replying"
  BY <1>4 DEF StepAfter
<1>8. /\ thread'[t] \in ThreadState /\ thread'[t].claim = c
      /\ thread'[t].step = StepAfter[outcome] /\ thread'[t].accepted = (outcome = "known")
  BY Zenon, <1>1, <1>2, <1>7 DEF ThreadState, Steps
<1>9. \A s \in Threads : s # t => thread'[s] = thread[s]
  BY <1>1, <1>2
<1>10. TypeOK'
  BY <1>1, <1>2, <1>8 DEF RegistryInv, TypeOK
<1>11. \A s \in Threads : s # None
  BY NoneAssumption
<1>12. \A s \in Threads : s # t => Deciding(s)'
  BY <1>1, <1>9, <1>11 DEF RegistryInv, Deciding
<1>13. Deciding(t)'
  BY <1>1, <1>3, <1>4, <1>7, <1>8, <1>11, NoneAssumption DEF Deciding, outcome
<1>14. OneFamily'
  BY <1>1 DEF RegistryInv, OneFamily
<1>15. AcceptedIsRegistered'
  BY ZenonT(60), <1>1, <1>3, <1>4, <1>5, <1>7, <1>8, <1>9 DEF RegistryInv, AcceptedIsRegistered, outcome
<1>16. RejectedIsTaken'
  BY ZenonT(60), <1>1, <1>4, <1>6, <1>7, <1>8, <1>9 DEF RegistryInv, RejectedIsTaken, outcome
<1> QED BY <1>10, <1>12, <1>13, <1>14, <1>15, <1>16 DEF RegistryInv

LEMMA PutInv ==
    ASSUME RegistryInv, NEW t \in Threads, Put(t)
    PROVE  RegistryInv'
<1> DEFINE c == thread[t].claim
           e == registrations[c.key]
           e2 == [e EXCEPT ![c.nodeId] = c.familyIds]
<1>1. /\ c \in Claims /\ c \in Claim /\ e \in Entry /\ e[c.nodeId] = None
      /\ registrations' = [registrations EXCEPT ![c.key] = e2]
      /\ c.vrf /\ c.linkage /\ monitor = t
  BY PutEffect
<1>2. /\ Members(e) = {} => e = Nobody
      /\ Members(e) # {} => \E y \in Members(e) : e[y] \cap c.familyIds # {}
  BY Zenon, PutEffect
<1>3. /\ registrations \in [Pseudonyms -> Entry] /\ thread \in [Threads -> ThreadState]
      /\ c.key \in Pseudonyms /\ c.nodeId \in Nodes /\ c.familyIds \in SUBSET FamilyIds
      /\ c.familyIds # None
  BY <1>1, NoneAssumption DEF RegistryInv, TypeOK, Claim
<1>4. /\ monitor' = None
      /\ thread' = [thread EXCEPT ![t] = [@ EXCEPT !.step = "replying", !.accepted = TRUE]]
  BY DEF Put
<1>5. e2 \in Entry /\ Members(e2) = Members(e) \cup {c.nodeId}
  <2>1. e2 \in Entry
    BY <1>1, <1>3 DEF Entry
  <2>2. Members(e2) = Members(e) \cup {c.nodeId}
    <3> HIDE DEF e
    <3> QED BY <1>1, <1>3 DEF Entry, Members
  <2> QED BY <2>1, <2>2
<1>6. e2[c.nodeId] = c.familyIds
  BY <1>1, <1>3 DEF Entry
<1>7. OneGroup(e2)
  <2>1. CASE Members(e) = {}
    BY Zenon, <1>2, <1>3, <2>1, FirstGroup
  <2>2. CASE Members(e) # {}
    <3>1. PICK y \in Members(e) : e[y] \cap c.familyIds # {}
      BY <1>2, <2>2
    <3>2. OneGroup(e)
      BY <1>3 DEF RegistryInv, OneFamily
    <3> QED BY Zenon, <1>1, <1>3, <3>1, <3>2, GrowGroup
  <2> QED BY <2>1, <2>2
<1> HIDE DEF e2
<1>8. registrations'[c.key] = e2 /\ \A k \in Pseudonyms : k # c.key => registrations'[k] = registrations[k]
  BY <1>1, <1>3
<1>9. /\ thread'[t] \in ThreadState /\ thread'[t].claim = c
      /\ thread'[t].step = "replying" /\ thread'[t].accepted
  BY Zenon, <1>3, <1>4 DEF ThreadState, Steps
<1>10. \A s \in Threads : s # t => thread'[s] = thread[s]
  BY <1>3, <1>4
<1>11. TypeOK'
  BY <1>1, <1>3, <1>4, <1>5, <1>9 DEF TypeOK
<1>12. \A s \in Threads : s # None
  BY NoneAssumption
<1>13. \A s \in Threads : Deciding(s)'
  BY <1>1, <1>4, <1>9, <1>10, <1>12, NoneAssumption DEF RegistryInv, Deciding
<1>14. OneFamily'
  BY <1>7, <1>8 DEF RegistryInv, OneFamily
<1>15. \A s \in Threads : thread[s].step = "replying" => thread[s].claim \in Claim
  BY <1>3, ClaimsAssumption DEF RegistryInv, Deciding, ThreadState
<1>16. \A k \in Pseudonyms : Members(registrations[k]) \subseteq Members(registrations'[k])
  BY <1>5, <1>8
<1>17. AcceptedIsRegistered'
  BY <1>1, <1>3, <1>6, <1>8, <1>9, <1>10, <1>15, <1>16 DEF RegistryInv, AcceptedIsRegistered, Members, Claim
<1>18. RejectedIsTaken'
  BY Zenon, <1>9, <1>10, <1>15, <1>16 DEF RegistryInv, RejectedIsTaken, Claim
<1> QED BY <1>11, <1>13, <1>14, <1>17, <1>18 DEF RegistryInv

\* Every step keeps the invariant.
LEMMA NextInv == RegistryInv /\ [Next]_vars => RegistryInv'
<1> SUFFICES ASSUME RegistryInv, [Next]_vars PROVE RegistryInv'
  OBVIOUS
<1>1. CASE UNCHANGED vars
  BY <1>1 DEF vars, RegistryInv, TypeOK, Deciding, OneFamily, AcceptedIsRegistered, RejectedIsTaken
<1>2. ASSUME NEW c \in Claims, HandleRegisterRelay(c) \/ ServeRequest(c) PROVE RegistryInv'
  BY <1>2, VerifyInv DEF HandleRegisterRelay, ServeRequest, Threads
<1>3. ASSUME NEW t \in Threads, RegisterNode(t) \/ Put(t) \/ Reply(t) PROVE RegistryInv'
  BY <1>3, RegisterNodeInv, PutInv, ReplyInv
<1> QED BY <1>1, <1>2, <1>3 DEF Next

-----------------------------------------------------------------------------
(* Theorems.                                                               *)

\* The two threads keep the registry consistent: RegistryInv, which contains
\* OneFamily, AcceptedIsRegistered and RejectedIsTaken, holds in every
\* reachable state.
THEOREM RegistryInvariance == Spec => []RegistryInv
BY InitInv, NextInv, PTL DEF Spec

\* However the two threads interleave in registerNode, the nodes of a pseudonym
\* are one family.
THEOREM OneFamilyPerPseudonym == Spec => []OneFamily
<1>1. RegistryInv => OneFamily
  BY DEF RegistryInv
<1> QED BY <1>1, RegistryInvariance, PTL

\* A node that was told yes is in the registry, under the pseudonym it asked
\* for, from then on.
THEOREM AnsweredYes == Spec => []AcceptedIsRegistered
<1>1. RegistryInv => AcceptedIsRegistered
  BY DEF RegistryInv
<1> QED BY <1>1, RegistryInvariance, PTL

\* registerNode never turns a node away from a pseudonym that nobody holds.
THEOREM AnsweredNo == Spec => []RejectedIsTaken
<1>1. RegistryInv => RejectedIsTaken
  BY DEF RegistryInv
<1> QED BY <1>1, RegistryInvariance, PTL

\* Every step is a put of a new node into one entry, or leaves the registry.
LEMMA OnlyPut ==
    ASSUME RegistryInv, [Next]_vars
    PROVE  registrations' = registrations \/ \E t \in Threads : Put(t)
BY Zenon DEF Next, vars, HandleRegisterRelay, ServeRequest, Verify, RegisterNode, Enter, Reply

\* No step of either thread takes a node out of the registry or changes the
\* families it was accepted with.
THEOREM NothingForgotten == Spec => RegistrationsKept
<1> DEFINE Kept == \A key \in Pseudonyms : \A x \in Members(registrations[key]) :
                      registrations'[key][x] = registrations[key][x]
<1>1. RegistryInv /\ [Next]_vars => [Kept]_vars
  <2> SUFFICES ASSUME RegistryInv, [Next]_vars PROVE Kept
    OBVIOUS
  <2>1. CASE registrations' = registrations
    BY <2>1
  <2>2. ASSUME NEW t \in Threads, Put(t) PROVE Kept
    <3> DEFINE c == thread[t].claim
               e == registrations[c.key]
    <3>1. /\ c \in Claim /\ e \in Entry /\ e[c.nodeId] = None
          /\ registrations' = [registrations EXCEPT ![c.key] = [e EXCEPT ![c.nodeId] = c.familyIds]]
      BY <2>2, PutEffect
    <3>2. registrations \in [Pseudonyms -> Entry]
      BY DEF RegistryInv, TypeOK
    <3> QED BY <3>1, <3>2 DEF Members, Entry, Claim
  <2> QED BY <2>1, <2>2, OnlyPut
<1> QED BY <1>1, RegistryInvariance, PTL DEF Spec, RegistrationsKept

\* registerNode, called by two threads and run in several steps, does what the
\* atomic registry promises.
THEOREM RegistryRefinement == Spec => ImplementsFamilyRegistry
<1>1. Init => FR!Init
  BY DEF Init, FR!Init, Nobody, FR!Nobody
<1>2. RegistryInv /\ [Next]_vars => [FR!Next]_registrations
  <2> SUFFICES ASSUME RegistryInv, [Next]_vars, registrations' # registrations PROVE FR!Next
    OBVIOUS
  <2>1. PICK t \in Threads : Put(t)
    BY OnlyPut
  <2> DEFINE c == thread[t].claim
             e == registrations[c.key]
  <2>2. /\ c \in Claim /\ e[c.nodeId] = None
        /\ registrations' = [registrations EXCEPT ![c.key] = [e EXCEPT ![c.nodeId] = c.familyIds]]
        /\ Members(e) # {} => \E y \in Members(e) : e[y] \cap c.familyIds # {}
    BY <2>1, PutEffect
  <2>3. c.key \in Pseudonyms /\ c.nodeId \in Nodes /\ c.familyIds \in SUBSET FamilyIds
    BY <2>2 DEF Claim
  <2>4. FR!Members(e) = Members(e)
    BY DEF FR!Members, Members
  <2>5. FR!Join(c.key, c.nodeId, c.familyIds)
    BY <2>2, <2>4 DEF FR!Join, FR!SharesFamily
  <2> QED BY <2>3, <2>5 DEF FR!Next
<1> QED BY <1>1, <1>2, RegistryInvariance, PTL DEF Spec, ImplementsFamilyRegistry, FR!Spec
=============================================================================
