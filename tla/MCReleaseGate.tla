--------------------------- MODULE MCReleaseGate ---------------------------
(* Small instances of ReleaseGate for TLC.                                  *)
EXTENDS ReleaseGate, TLC

CONSTANTS r1, b1, l1, l2, c1, c2, s0, s1, v0, v1

\* The row migration 0009 seeds, and the row of an installation that already
\* serves a published pair.
Seeded == [mode |-> "open", target |-> None, changedAt |-> 0,
           web |-> None, api |-> None]
Published == [mode |-> "open", target |-> s0, changedAt |-> 0,
              web |-> v0, api |-> v0]

MCSeeded == {Seeded}
MCPublished == {Published}
MCSourceOne == v1 :> s1
MCSourceTwo == (v0 :> s0) @@ (v1 :> s1)

MCSymmetry == Permutations({l1, l2}) \cup Permutations({c1, c2})
=============================================================================
