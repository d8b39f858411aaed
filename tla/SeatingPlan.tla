------------------------------ MODULE SeatingPlan ------------------------------
(***************************************************************************)
(* Tables and who sits at them: the seating half of                        *)
(* PostgresWeddingOperationsRepository.  A seat reserves the guest's whole *)
(* party; table names are left out.                                        *)
(***************************************************************************)
EXTENDS WeddingRows

Capacities == 1..MaxCapacity
TablesThere == {t \in Tables : table[t] > 0}

\* One place for every person of the guests' parties.
Places(gs) == {p \in gs \X (1..MaxParty) : p[2] <= guest[p[1]].party}
Reserved(t) == Cardinality(Places(Seated(t)))

\* Mutant: tables are counted without the wedding's lock.
BeginAddTableUnlocked(q) ==
  /\ Take(q, {}, [Idle EXCEPT !.op = "addTable"])
  /\ UNCHANGED <<guestVars, linkVars, seatVars>>

BeginAddTable(q) ==
  /\ Take(q, {Wedding}, [Idle EXCEPT !.op = "addTable"])
  /\ UNCHANGED <<guestVars, linkVars, seatVars>>

CountTables(q) ==
  /\ Running(q, "addTable")
  /\ Cardinality(TablesThere) < MaxTables
  /\ Decide(q, [call[q] EXCEPT !.op = "newTable"])
  /\ UNCHANGED <<guestVars, linkVars, seatVars>>

AddTable(q) ==
  /\ Running(q, "newTable")
  /\ \E t \in Tables \ TablesThere, size \in Capacities :
       table' = [table EXCEPT ![t] = size]
  /\ Done(q)
  /\ UNCHANGED <<guestVars, linkVars, seat>>

BeginResizeTable(q) ==
  /\ \E t \in TablesThere : Take(q, {t}, [Idle EXCEPT !.op = "resize", !.table = t])
  /\ UNCHANGED <<guestVars, linkVars, seatVars>>

ReadUsage(q) ==
  /\ Running(q, "resize")
  /\ \E size \in Capacities :
       /\ Reserved(call[q].table) <= size
       /\ Decide(q, [call[q] EXCEPT !.op = "resized", !.size = size])
  /\ UNCHANGED <<guestVars, linkVars, seatVars>>

ResizeTable(q) ==
  /\ Running(q, "resized")
  /\ table' = [table EXCEPT ![call[q].table] = call[q].size]
  /\ Done(q)
  /\ UNCHANGED <<guestVars, linkVars, seat>>

\* The seats of a deleted table go with it.
Emptied(t) == seat' = [g \in Guests |-> IF seat[g] = t THEN None ELSE seat[g]]

DeleteTable(q) ==
  \E t \in TablesThere :
    /\ Free(q, {t})
    /\ table' = [table EXCEPT ![t] = 0]
    /\ Emptied(t)
    /\ Once(q)
    /\ UNCHANGED <<guestVars, linkVars>>

-----------------------------------------------------------------------------
\* Seating a party, moving it, or (table None) taking its seats back.  The
\* guest's row is locked first and its old and new tables after it.

MaySit(g) == ~guest[g].archived /\ ~(rsvp[g] # None /\ rsvp[g].size = 0)

BeginAssign(q) ==
  /\ \E g \in Present, t \in Tables \cup {None} :
       /\ t = None \/ MaySit(g)
       /\ Take(q, {g}, [Idle EXCEPT !.op = "assign", !.guests = {g}, !.table = t])
  /\ UNCHANGED <<guestVars, linkVars, seatVars>>

\* Mutant: only the table the guest leaves is locked.
TablesOfOld(g, t) == {seat[g]} \ {None}

TablesOf(g, t) == {seat[g], t} \ {None}

\* The guest's present table, read with their row locked.
ReadSeat(q) ==
  /\ Running(q, "assign")
  /\ \E g \in call[q].guests :
       /\ seat[g] # call[q].table
       /\ Decide(q, [call[q] EXCEPT !.op = "seat", !.need = TablesOf(g, call[q].table)])
  /\ UNCHANGED <<guestVars, linkVars, seatVars>>

HasRoom(t, g) == Reserved(t) + guest[g].party <= table[t]

ReadRoom(q) ==
  /\ Running(q, "seat")
  /\ \A t \in locks[q] \cap Tables : table[t] > 0
  /\ \A g \in call[q].guests : call[q].table # None => HasRoom(call[q].table, g)
  /\ Decide(q, [call[q] EXCEPT !.op = "seated"])
  /\ UNCHANGED <<guestVars, linkVars, seatVars>>

Assign(q) ==
  /\ Running(q, "seated")
  /\ \E g \in call[q].guests : seat' = [seat EXCEPT ![g] = call[q].table]
  /\ Done(q)
  /\ UNCHANGED <<guestVars, linkVars, table>>

SeatStep(q) ==
  \/ BeginAddTable(q) \/ CountTables(q) \/ AddTable(q)
  \/ BeginResizeTable(q) \/ ReadUsage(q) \/ ResizeTable(q) \/ DeleteTable(q)
  \/ BeginAssign(q) \/ ReadSeat(q) \/ ReadRoom(q) \/ Assign(q)
=============================================================================
