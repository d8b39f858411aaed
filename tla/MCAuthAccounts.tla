--------------------------- MODULE MCAuthAccounts ---------------------------
(* Small instances of AuthAccounts for TLC.                                 *)
EXTENDS AuthAccounts, TLC

CONSTANTS q1, q2, q3, h0, h1, h2, h3, t1, t2, t3, s1, s2

\* An unknown address, a pending one, and a verified one whose hash is old.
MCAccounts == {None,
               [hash |-> h1, version |-> 1, verified |-> FALSE],
               [hash |-> h0, version |-> 1, verified |-> TRUE]}

MCSymmetry == Permutations(Requests) \cup Permutations(Tokens)
              \cup Permutations(Sessions) \cup Permutations({h2, h3})
=============================================================================
