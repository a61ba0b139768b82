--------------------------- MODULE FamilyRegistry ---------------------------
(* What the Directory Authority promises: a pseudonym belongs to the first *)
(* node that proves it, another node joins it only through a family it     *)
(* shares with a node already there, and nobody is ever removed.           *)

CONSTANTS
    Pseudonyms,     \* pairs of a context and a pseudonym
    Nodes,          \* node ids
    FamilyIds,      \* family ids
    None

VARIABLE registrations

Nobody == [nodeId \in Nodes |-> None]

Members(entry) == {x \in Nodes : entry[x] # None}

SharesFamily(entry, familyIds) == \E x \in Members(entry) : entry[x] \cap familyIds # {}

Init == registrations = [key \in Pseudonyms |-> Nobody]

Join(key, nodeId, familyIds) ==
    /\ registrations[key][nodeId] = None
    /\ Members(registrations[key]) # {} => SharesFamily(registrations[key], familyIds)
    /\ registrations' = [registrations EXCEPT ![key] = [@ EXCEPT ![nodeId] = familyIds]]

Next == \E key \in Pseudonyms, nodeId \in Nodes, familyIds \in SUBSET FamilyIds :
            Join(key, nodeId, familyIds)

Spec == Init /\ [][Next]_registrations
=============================================================================
