--------------------------- MODULE MCCredentials ---------------------------
(* Small instances of Credentials.                                         *)
EXTENDS Credentials

\* A stand-in for SHA-256 that depends on all that is hashed.
MCHash(g1x, pk, r1, r2) == (g1x * g1x + 2 * pk + 3 * r1 * r2 + r2) % P
=============================================================================
