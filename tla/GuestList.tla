------------------------------- MODULE GuestList -------------------------------
(***************************************************************************)
(* Guests and affiliations ("sides"): LoveChapterService and the           *)
(* transactions of PostgresLoveChapterRepository.  Names, addresses, notes *)
(* and colours are left out; every caller is a member of the wedding.      *)
(***************************************************************************)
EXTENDS WeddingRows

CONSTANT MaxBulk   \* guests in one bulk call (200 in the code)

\* Mutant: the body schemas let a party be empty.
PartiesFromZero == 0..MaxParty

\* What the handlers accept.
Parties == 1..MaxParty
Bulk == {gs \in SUBSET Guests : gs # {} /\ Cardinality(gs) <= MaxBulk}
Orders ==
  {f \in [Affiliations -> -1..(Cardinality(Affiliations) - 1)] :
     /\ Cardinality({a \in Affiliations : f[a] >= 0}) <= MaxAffiliations
     /\ \A a, b \in Affiliations : a # b /\ f[a] >= 0 => f[a] # f[b]
     /\ \A a \in Affiliations : \A n \in 0..f[a] : \E b \in Affiliations : f[b] = n}

-----------------------------------------------------------------------------
\* Affiliations.  The wedding's row serialises every change of their order.

BeginAddSide(q) ==
  /\ Take(q, {Wedding}, [Idle EXCEPT !.op = "addSide"])
  /\ UNCHANGED <<guestVars, linkVars, seatVars>>

\* Mutant: the new side goes at the count of sides.
NextPositionByCount == Cardinality(Sides)

\* coalesce(max(sort_order), -1) + 1, while there are fewer than the limit.
NextPosition == 1 + CHOOSE n \in {-1} \cup {aff[a] : a \in Affiliations} :
                      \A a \in Affiliations : aff[a] <= n

PlaceSide(q) ==
  /\ Running(q, "addSide")
  /\ Cardinality(Sides) < MaxAffiliations
  /\ Decide(q, [call[q] EXCEPT !.op = "newSide", !.size = NextPosition])
  /\ UNCHANGED <<guestVars, linkVars, seatVars>>

AddSide(q) ==
  /\ Running(q, "newSide")
  /\ \E a \in Affiliations \ Sides : aff' = [aff EXCEPT ![a] = call[q].size]
  /\ Done(q)
  /\ UNCHANGED <<guest, linkVars, seatVars>>

\* The update locks every side it places, which a bulk change may hold.
BeginOrderSides(q) ==
  /\ Take(q, {Wedding}, [Idle EXCEPT !.op = "orderSides", !.need = Sides])
  /\ UNCHANGED <<guestVars, linkVars, seatVars>>

\* The order must name every affiliation there is and no other.
Reordered(order) ==
  /\ {a \in Affiliations : order[a] >= 0} = Sides
  /\ aff' = order

OrderSides(q) ==
  /\ Running(q, "orderSides")
  /\ \E f \in Orders : Reordered(f)
  /\ Done(q)
  /\ UNCHANGED <<guest, linkVars, seatVars>>

Members(a) == {g \in Present : guest[g].aff = a}

\* Locks the wedding, then the affiliation, then the guests it has by then.
BeginDropSide(q) ==
  /\ \E a \in Sides :
       Take(q, {Wedding}, [Idle EXCEPT !.op = "dropSide", !.aff = a, !.need = {a}])
  /\ UNCHANGED <<guestVars, linkVars, seatVars>>

FindMembers(q) ==
  /\ Running(q, "dropSide")
  /\ call[q].aff \in Sides
  /\ Decide(q, [call[q] EXCEPT !.op = "emptySide", !.need = Members(call[q].aff)])
  /\ UNCHANGED <<guestVars, linkVars, seatVars>>

Unassigned(a) ==
  guest' = [g \in Guests |-> IF g \in Members(a) THEN [guest[g] EXCEPT !.aff = None]
                             ELSE guest[g]]

DropSide(q) ==
  /\ Running(q, "emptySide")
  /\ Unassigned(call[q].aff)
  /\ aff' = [aff EXCEPT ![call[q].aff] = -1]
  /\ Done(q)
  /\ UNCHANGED <<linkVars, seatVars>>

-----------------------------------------------------------------------------
\* Guests.

\* A guest with an affiliation locks the wedding and the affiliation; one
\* without it is inserted at once, and the foreign key waits for the wedding.
BeginAddGuest(q) ==
  /\ \/ Take(q, {}, [Idle EXCEPT !.op = "newGuest", !.need = {Wedding}])
     \/ \E a \in Sides :
          Take(q, {Wedding}, [Idle EXCEPT !.op = "addGuest", !.aff = a, !.need = {a}])
  /\ UNCHANGED <<guestVars, linkVars, seatVars>>

NewGuest(size, a) == [party |-> size, archived |-> FALSE, aff |-> a]

AddGuest(q) ==
  /\ Running(q, "addGuest") \/ Running(q, "newGuest")
  /\ Exists(call[q].aff)
  /\ \E g \in Guests \ Present, size \in Parties :
       guest' = [guest EXCEPT ![g] = NewGuest(size, call[q].aff)]
  /\ Done(q)
  /\ UNCHANGED <<aff, linkVars, seatVars>>

\* Locks the wedding, then the affiliation named, then the guest.
BeginSetSide(q) ==
  /\ \E g \in Present, a \in Sides \cup {None} :
       Take(q, {Wedding}, [Idle EXCEPT !.op = "setSide", !.guests = {g}, !.aff = a,
                                       !.need = {g} \cup ({a} \ {None})])
  /\ UNCHANGED <<guestVars, linkVars, seatVars>>

SetSide(q) ==
  /\ Running(q, "setSide")
  /\ Exists(call[q].aff)
  /\ guest' = [g \in Guests |-> IF g \in call[q].guests
                                THEN [guest[g] EXCEPT !.aff = call[q].aff] ELSE guest[g]]
  /\ Done(q)
  /\ UNCHANGED <<aff, linkVars, seatVars>>

\* A patch is an update that locks the guest and, when it changes the
\* affiliation, waits with the guest locked for the foreign key to share the
\* affiliation's row, which need not exist any more by then.
NewSide(g, a) == {a} \ {None, guest[g].aff}
Patch(g, size, a) == [Idle EXCEPT !.op = "patch", !.guests = {g}, !.size = size,
                                  !.aff = a, !.need = NewSide(g, a)]
SidesFor(g) == Sides \cup {None, guest[g].aff}

BeginUpdateGuest(q) ==
  /\ \E g \in Present :
       \E a \in SidesFor(g) : Take(q, {g}, Patch(g, guest[g].party, a))
  /\ UNCHANGED <<guestVars, linkVars, seatVars>>

\* A patch with a party size locks the guest first, so that the seat it reads
\* next cannot change before the update.
BeginResizeParty(q) ==
  /\ \E g \in Present : Take(q, {g}, [Idle EXCEPT !.op = "update", !.guests = {g}])
  /\ UNCHANGED <<guestVars, linkVars, seatVars>>

\* A seated guest keeps the party size their seats were reserved for.
MayResize(g, size) == guest[g].party = size \/ seat[g] = None

CheckSeat(q) ==
  /\ Running(q, "update")
  /\ \E g \in call[q].guests, size \in Parties :
       /\ MayResize(g, size)
       /\ Decide(q, [call[q] EXCEPT !.op = "checked", !.size = size])
  /\ UNCHANGED <<guestVars, linkVars, seatVars>>

ResizeParty(q) ==
  /\ Running(q, "checked")
  /\ \E g \in call[q].guests :
       \E a \in SidesFor(g) : Decide(q, Patch(g, call[q].size, a))
  /\ UNCHANGED <<guestVars, linkVars, seatVars>>

PatchedGuest(g, size, a) ==
  guest' = [guest EXCEPT ![g].party = size, ![g].aff = a]

UpdateGuest(q) ==
  /\ Running(q, "patch")
  /\ \E g \in call[q].guests :
       /\ call[q].aff \in SidesFor(g)
       /\ PatchedGuest(g, call[q].size, call[q].aff)
  /\ Done(q)
  /\ UNCHANGED <<aff, linkVars, seatVars>>

-----------------------------------------------------------------------------
\* Archiving.  The guests are archived and their live links revoked in one
\* transaction that holds the guests' rows; restoring brings no link back.

BeginArchive(q) ==
  /\ \E g \in Present :
       /\ ~guest[g].archived
       /\ Take(q, {g}, [Idle EXCEPT !.op = "archive", !.guests = {g}])
  /\ UNCHANGED <<guestVars, linkVars, seatVars>>

BeginBulkArchive(q) ==
  /\ \E gs \in Bulk \cap SUBSET Present :
       Take(q, {}, [Idle EXCEPT !.op = "bulkArchive", !.guests = gs, !.need = gs])
  /\ UNCHANGED <<guestVars, linkVars, seatVars>>

\* Mutant: archived guests keep their links.
RevokedNone(gs) == UNCHANGED link

Archived(gs) ==
  guest' = [g \in Guests |-> IF g \in gs THEN [guest[g] EXCEPT !.archived = TRUE]
                             ELSE guest[g]]
Revoked(gs) ==
  link' = [l \in Links |-> IF link[l] # None /\ link[l].guest \in gs
                           THEN [link[l] EXCEPT !.live = FALSE] ELSE link[l]]

Archive(q) ==
  /\ Running(q, "archive") \/ Running(q, "bulkArchive")
  /\ Archived(call[q].guests) /\ Revoked(call[q].guests)
  /\ Done(q)
  /\ UNCHANGED <<aff, rsvp, seatVars>>

Restore(q) ==
  \E g \in Present :
    /\ guest[g].archived /\ Free(q, {g})
    /\ guest' = [guest EXCEPT ![g].archived = FALSE]
    /\ Once(q)
    /\ UNCHANGED <<aff, linkVars, seatVars>>

-----------------------------------------------------------------------------
\* One statement that locks the affiliation and the guests, in no fixed order.
BeginBulkSide(q) ==
  /\ \E gs \in Bulk \cap SUBSET Present, a \in Sides \cup {None} :
       Take(q, {}, [Idle EXCEPT !.op = "bulkSide", !.guests = gs, !.aff = a,
                                !.need = gs \cup ({a} \ {None})])
  /\ UNCHANGED <<guestVars, linkVars, seatVars>>

BulkSide(q) ==
  /\ Running(q, "bulkSide")
  /\ Exists(call[q].aff)
  /\ guest' = [g \in Guests |-> IF g \in call[q].guests
                                THEN [guest[g] EXCEPT !.aff = call[q].aff] ELSE guest[g]]
  /\ Done(q)
  /\ UNCHANGED <<aff, linkVars, seatVars>>

\* The routes of the API.
SideRoutes(q) ==
  \/ BeginAddSide(q) \/ PlaceSide(q) \/ AddSide(q)
  \/ BeginOrderSides(q) \/ OrderSides(q)
  \/ BeginDropSide(q) \/ FindMembers(q) \/ DropSide(q)
GuestRoutes(q) ==
  \/ BeginAddGuest(q) \/ AddGuest(q) \/ BeginSetSide(q) \/ SetSide(q)
  \/ BeginUpdateGuest(q) \/ BeginResizeParty(q) \/ CheckSeat(q) \/ ResizeParty(q)
  \/ UpdateGuest(q)
  \/ BeginArchive(q) \/ BeginBulkArchive(q) \/ Archive(q) \/ Restore(q)
  \/ BeginBulkSide(q) \/ BulkSide(q)

GuestStep(q) == SideRoutes(q) \/ GuestRoutes(q)
=============================================================================
