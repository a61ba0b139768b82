--------------------------- MODULE MCDescriptors ----------------------------
(* Small instances of Descriptors.                                         *)
EXTENDS Descriptors

CONSTANT Second     \* the other relay of the family

\* The relays are of a family; users register without one.
OfFamily == [r \in Relays |-> FamilyIds]

\* One relay alone, with everything that can happen to it.
Alone == [builds |-> [r \in Relays |-> IF r = Second THEN MaxGen ELSE 0],
          losses |-> 0, crashes |-> 0, starts |-> 0]

\* Both relays, one descriptor each, with either restarts of Main, restarts of
\* directory servers, or losses.
Both(l, c, s) ==
    [builds |-> [r \in Relays |-> MaxGen - 1], losses |-> l, crashes |-> c, starts |-> s]

Budgets == {Alone, Both(MaxLosses, MaxCrashes, 0), Both(MaxLosses, 0, MaxStarts - 1),
            Both(0, MaxCrashes, MaxStarts - 1)}
=============================================================================
