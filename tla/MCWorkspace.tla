------------------------------ MODULE MCWorkspace ------------------------------
(* Small instances of Workspace for TLC.                                    *)
EXTENDS Workspace, TLC

CONSTANTS q1, q2, g1, g2, a1, a2, a3, l1, l2, l3, b1, v1, k1, k2, e1, e2, x1,
          p1, p2, m1, m2, m3, i1, i2, thb, jpy

\* Both lines name one contact, without sides or with one of them on a side; or
\* one line has a side and the other is wrong.
MCReads ==
  m1 :> [l \in Lines |-> [who |-> p1, side |-> None]] @@
  m2 :> (1 :> [who |-> p1, side |-> a1] @@ 2 :> [who |-> p1, side |-> None]) @@
  m3 :> (1 :> [who |-> p1, side |-> a1] @@ 2 :> None)

Unsaved == [guest |-> [g \in Guests |-> None],
            aff |-> [a \in Affiliations |-> -1],
            link |-> [l \in Links |-> None],
            rsvp |-> [g \in Guests |-> None],
            table |-> [t \in Tables |-> 0],
            seat |-> [g \in Guests |-> None],
            currency |-> None, category |-> {},
            quote |-> [v \in Vendors |-> None],
            cost |-> [e \in Expenses |-> None],
            template |-> {}, expired |-> Batches]

\* Two guests, one of them seated and invited, who may change their reply.
Planned ==
  [Unsaved EXCEPT
     !.guest = g1 :> [party |-> 2, archived |-> FALSE, aff |-> a1] @@
               g2 :> [party |-> 1, archived |-> FALSE, aff |-> None],
     !.aff[a1] = 0,
     !.link[l1] = [guest |-> g1, live |-> TRUE],
     !.table = 1 :> 2 @@ 2 :> 3 @@ 3 :> 0,
     !.seat[g1] = 1]

\* A budget that has a category and a template, and no amount yet.
Budgeted ==
  [Unsaved EXCEPT !.aff[a1] = 0, !.currency = thb, !.category = {k1},
                  !.quote[v1] = Unquoted]

\* No guest yet: a file is about to be imported.
Imported == [Unsaved EXCEPT !.aff[a1] = 0, !.expired = {}]

MCRows == {Planned, Budgeted, Imported}

\* No row a behaviour starts from has l2 or l3.
MCSymmetry == Permutations(Requests) \cup Permutations({l2, l3})
=============================================================================
