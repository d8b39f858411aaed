--------------------------- MODULE AdmissionGate ---------------------------
(***************************************************************************)
(* What the release gate promises, without saying how PostgreSQL delivers  *)
(* it: admitted work (a set of leases) enters only while the gate is open, *)
(* work already inside may leave at any time, and the gate is opened again *)
(* only when nothing is inside.  A closed gate whose leases have drained is *)
(* therefore exclusively the release's until somebody opens it.            *)
(***************************************************************************)
CONSTANT LeaseIds

VARIABLES open,     \* admission is allowed
          inside    \* leases of the work admitted and not yet released

agVars == <<open, inside>>

Init == /\ open = TRUE
        /\ inside = {}

Enter(l) == /\ open
            /\ l \notin inside
            /\ inside' = inside \cup {l}
            /\ UNCHANGED open

Leave(l) == /\ l \in inside
            /\ inside' = inside \ {l}
            /\ UNCHANGED open

Close == /\ open
         /\ open' = FALSE
         /\ UNCHANGED inside

Open == /\ ~open
        /\ inside = {}
        /\ open' = TRUE
        /\ UNCHANGED inside

Next == \/ \E l \in LeaseIds : Enter(l) \/ Leave(l)
        \/ Close
        \/ Open

Spec == Init /\ [][Next]_agVars
=============================================================================
