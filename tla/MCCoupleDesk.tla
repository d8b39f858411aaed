----------------------------- MODULE MCCoupleDesk -----------------------------
(* Small instances of CoupleDesk for TLC.                                   *)
EXTENDS CoupleDesk, TLC

\* Two tasks, a guest, two items of the run sheet, two tables, a category, a
\* vendor and two expenses, all of the first wedding; and two weddings.
MCOf == [r \in {1, 2} |-> <<9, "planning">>] @@ 3 :> <<9, "guests">> @@
        [r \in {4, 5} |-> <<9, "schedule">>] @@ [r \in {6, 7} |-> <<9, "seating">>] @@
        [r \in {8, 9} |-> <<None, "weddings">>] @@ 10 :> <<9, "categories">> @@
        11 :> <<9, "vendors">> @@ [r \in {12, 13} |-> <<9, "expenses">>]

MCLists == (Weddings \cup {None}) \X ListNames

Saved(at, present, absent) ==
  [r \in Rows |-> IF r \in present THEN [at |-> at, open |-> TRUE]
                  ELSE IF r \in absent THEN None ELSE Gone]

\* A list of tasks, a guest, a run sheet that grows, two tables and a guest to
\* be seated, expenses, and a second wedding.  The first wedding is as old as
\* the clock.
MCRows == {Saved(1, {1, 9}, {2}), Saved(0, {3, 9}, {8}), Saved(0, {4, 9}, {5}),
           Saved(1, {3, 6, 7, 9}, {}), Saved(1, {9, 12}, {13}), Saved(1, {9, 10, 11}, {}),
           Saved(0, {8, 9}, {})}
=============================================================================
