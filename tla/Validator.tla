----------------------------- MODULE Validator ------------------------------
(* What the bridge promises to the Tor processes: a validation is decided  *)
(* at most once, against the registry of that moment, while the caller     *)
(* waits; the caller gets that verdict, or NULL.                           *)
EXTENDS Admission

CONSTANTS
    Callers,        \* the Tor processes
    Claims          \* the requests they and the users make

VARIABLES
    registrations,
    claim,          \* claim[c]: the request of the caller's current call, or None
    verdict,        \* verdict[c]: what became of that call so far
    answer          \* answer[c]: what the caller's last call returned

vars == <<registrations, claim, verdict, answer>>

Init ==
    /\ registrations = Empty
    /\ claim = [c \in Callers |-> None]
    /\ verdict = [c \in Callers |-> "none"]
    /\ answer = [c \in Callers |-> "none"]

Call(c, x) ==
    /\ claim[c] = None
    /\ claim' = [claim EXCEPT ![c] = x]
    /\ verdict' = [verdict EXCEPT ![c] = "none"]
    /\ UNCHANGED <<registrations, answer>>

Decide(c) ==
    /\ claim[c] # None
    /\ verdict[c] = "none"
    /\ verdict' = [verdict EXCEPT ![c] = IF Accepts(registrations, claim[c]) THEN "VALID" ELSE "INVALID"]
    /\ registrations' = Enter(registrations, claim[c])
    /\ UNCHANGED <<claim, answer>>

\* The connection is closed without a verdict.
Lose(c) ==
    /\ claim[c] # None
    /\ verdict[c] = "none"
    /\ verdict' = [verdict EXCEPT ![c] = "lost"]
    /\ UNCHANGED <<registrations, claim, answer>>

Return(c) ==
    /\ claim[c] # None
    /\ answer' = [answer EXCEPT ![c] = IF verdict[c] \in {"VALID", "INVALID"} THEN verdict[c] ELSE "NULL"]
    /\ claim' = [claim EXCEPT ![c] = None]
    /\ verdict' = [verdict EXCEPT ![c] = "none"]
    /\ UNCHANGED registrations

\* A user registers through the DA's own protocol.
Register(x) ==
    /\ registrations' = Enter(registrations, x)
    /\ UNCHANGED <<claim, verdict, answer>>

\* The DA stops: its registry is gone, and so is what some calls waited for.
Forget(some) ==
    /\ \A c \in some : claim[c] # None
    /\ registrations' = Empty
    /\ verdict' = [c \in Callers |-> IF c \in some THEN "lost" ELSE verdict[c]]
    /\ UNCHANGED <<claim, answer>>

Next ==
    \/ \E c \in Callers, x \in Claims : Call(c, x)
    \/ \E c \in Callers : Decide(c) \/ Lose(c) \/ Return(c)
    \/ \E x \in Claims : Register(x)
    \/ \E some \in SUBSET Callers : Forget(some)

Spec == Init /\ [][Next]_vars
=============================================================================
