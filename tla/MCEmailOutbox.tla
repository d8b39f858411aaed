--------------------------- MODULE MCEmailOutbox ---------------------------
(* Small instances of EmailOutbox for TLC.                                  *)
EXTENDS EmailOutbox, TLC

CONSTANTS i1, i2, w1, w2, a1, a2, BaseDelay, MaxDelay

\* retryDelay: doubled with each attempt, up to a limit.
MCRetryDelay ==
  [n \in 1..MaxAttempts |->
     LET d == BaseDelay * 2^(n - 1) IN IF d < MaxDelay THEN d ELSE MaxDelay]

MCSymmetry == Permutations({i1, i2}) \cup Permutations({w1, w2})
=============================================================================
