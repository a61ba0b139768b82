------------------------------- MODULE KeyGen -------------------------------
(***************************************************************************)
(* What the distributed key generation promises to the rest of the system: *)
(* every CA establishes a key at most once, keeps it, and all CAs that     *)
(* established one established the same.                                   *)
(***************************************************************************)
CONSTANTS CA, Key, None

VARIABLE key    \* key[i]: the master public key CA i answers with

Init == key = [i \in CA |-> None]

Establish(i, k) ==
    /\ key[i] = None
    /\ \A j \in CA : key[j] \in {None, k}
    /\ key' = [key EXCEPT ![i] = k]

Next == \E i \in CA, k \in Key : Establish(i, k)

Spec == Init /\ [][Next]_key
=============================================================================
