------------------------------ MODULE SeatingPanel ------------------------------
(***************************************************************************)
(* The seating of a wedding on the page: its tables, the guests at the one *)
(* that is chosen and the guests found to be seated.  The tables and the   *)
(* guests at one of them are read by two requests, one after the other.    *)
(***************************************************************************)
EXTENDS ListPanel

Tables == <<selected, "seating">>
Candidates == <<selected, "guests">>

\* Another table can be chosen while the list loads, but not while it is busy.
SwitchTable ==
  /\ section = "seating" /\ Idle
  /\ \E t \in Ids(Tables) : Reload(filter, t, FALSE, net)
  /\ UNCHANGED <<filter, busy, table, failed, savedAt, listVars, seat>>

\* The table to go on with: none after one is added or deleted.
TableForm == \E c \in Change :
  Adds(c, "seating") /\ Send([Asked("save", {}, c) EXCEPT !.pick = None])

DropTable ==
  table # None /\ Send([Asked("save", {}, [op |-> "drop", row |-> table]) EXCEPT !.pick = None])

SeatGuest == \E g \in Ids(Candidates) : Send(Asked("save", {}, [op |-> "seat", row |-> g]))
FreeSeat == \E g \in Ids(Seats) : Send(Asked("save", {}, [op |-> "unseat", row |-> g]))

FindGuests == Send(Asked("find", {Candidates}, None))

SeatingClick ==
  /\ section = "seating" /\ Idle
  /\ TableForm \/ DropTable \/ (table # None /\ (SeatGuest \/ FreeSeat \/ FindGuests))

\* The table asked for, or the first when it is gone.
Picked(m) ==
  LET there == {e.id : e \in EntriesOf(m)} IN
    IF m.pick \in there THEN m.pick ELSE CHOOSE t \in there : \A u \in there : t <= u

\* The guests at the table are asked for although another list is wanted by then.
DeliverTables(m) ==
  /\ m.kind = "tables" /\ ~Complete(m)
  /\ net' = (net \ {m}) \cup
            {[m EXCEPT !.kind = "load", !.pick = Picked(m), !.lists = m.lists \cup {Seats}]}
  /\ UNCHANGED <<filter, gen, loading, busy, shown, pages, table, failed, savedAt>>

SeatingStep ==
  \/ SwitchTable \/ SeatingClick
  \/ \E m \in net : /\ Arrived(m) /\ DeliverTables(m)
                    /\ UNCHANGED <<listVars, scopeVars, seat>>
=============================================================================
