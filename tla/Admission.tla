----------------------------- MODULE Admission ------------------------------
(* The decision of the Directory Authority in one step: whether a request  *)
(* is accepted, and the registry after it.  Registry shows that two        *)
(* threads in registerNode do exactly this, one request after the other.   *)

CONSTANTS
    Pseudonyms,     \* pairs of a context and a pseudonym
    Nodes,          \* node ids
    FamilyIds,
    None

\* A request; good says whether its VRF and credential proofs verify.
Claim == [key : Pseudonyms, nodeId : Nodes, familyIds : SUBSET FamilyIds, good : BOOLEAN]

ASSUME NoneIsNoFamily == \A ids \in SUBSET FamilyIds : ids # None

Entry == [Nodes -> {None} \cup (SUBSET FamilyIds)]
Registrations == [Pseudonyms -> Entry]

Nobody == [nodeId \in Nodes |-> None]
Empty == [key \in Pseudonyms |-> Nobody]

Members(entry) == {x \in Nodes : entry[x] # None}

SharesFamily(entry, familyIds) == \E x \in Members(entry) : entry[x] \cap familyIds # {}

\* Mutant: the families are not compared.
M_AnyFamily(registrations, c) == c.good

\* The proofs verify, and registerNode returns true.
Accepts(registrations, c) ==
    LET entry == registrations[c.key]
    IN  /\ c.good
        /\ \/ Members(entry) = {}
           \/ c.nodeId \in Members(entry)
           \/ SharesFamily(entry, c.familyIds)

\* The registry after the request: a node that is known stays as it is.
Enter(registrations, c) ==
    IF Accepts(registrations, c) /\ registrations[c.key][c.nodeId] = None
    THEN [registrations EXCEPT ![c.key] = [@ EXCEPT ![c.nodeId] = c.familyIds]]
    ELSE registrations

\* The nodes of an entry are one family: whichever way they are divided, a
\* family id joins the two parts.
OneGroup(entry) ==
    \A part \in SUBSET Members(entry) :
        part # {} /\ part # Members(entry) =>
            \E x \in part, y \in Members(entry) \ part : entry[x] \cap entry[y] # {}
=============================================================================
