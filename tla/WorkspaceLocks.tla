---------------------------- MODULE WorkspaceLocks ----------------------------
(***************************************************************************)
(* Proof that the calls of a workspace wait for each other in a circle in  *)
(* three known ways only.  Apart from bulk changes and from patches, which *)
(* hold a guest and wait for a side, a call that waits for a side, a guest *)
(* or a row of the budget holds the wedding's row; seats are moved by a    *)
(* guest's row first and then tables in sorted order.                      *)
(***************************************************************************)
EXTENDS WorkspaceProofs

-----------------------------------------------------------------------------
(* What a call holds and still has to lock.                                 *)

\* The calls that lock rows one after the other.
Locking == {"dropSide", "emptySide", "setSide", "addGuest", "orderSides", "newGuest",
            "patch", "insert", "seat", "dropCategory", "dropVendor", "bulkSide",
            "bulkArchive"}

\* The rows a call may still have to lock.
Needs(c) ==
  /\ c.op \notin Locking => c.need = {}
  /\ c.op \in {"patch", "insert", "orderSides"} => c.need \subseteq Affiliations
  /\ c.op \in {"dropSide", "addGuest"} => c.need \subseteq {c.aff} \cap Affiliations
  /\ c.op \in {"setSide", "bulkSide"} => c.need \subseteq Guests \cup Affiliations
  /\ c.op \in {"emptySide", "bulkArchive"} => c.need \subseteq Guests
  /\ c.op = "newGuest" => c.need \subseteq {Wedding}
  /\ c.op = "dropCategory" => c.need \subseteq Categories
  /\ c.op = "dropVendor" => c.need \subseteq Vendors
  /\ c.op = "seat" => c.need \subseteq Tables

\* The calls that hold a side do not wait for another one.
SideHolders == {"setSide", "emptySide", "bulkSide"}

Holds(c, held) ==
  /\ Needs(c)
  /\ \A t \in held \cap Tables :
       /\ c.op \in {"resize", "resized", "seat", "seated"}
       /\ \A u \in c.need : t < u
  /\ held \cap Affiliations # {} =>
       c.op \in SideHolders \/ (c.op \in {"dropSide", "addGuest"} /\ c.need = {})
  /\ c.shares \subseteq Affiliations \cup {Wedding}
  /\ c.op = "insert" /\ c.need # {} => Wedding \in c.shares
  /\ c.op = "newGuest" /\ c.need # {} => held = {} /\ c.shares = {}

LocksInv == \A q \in Requests : Holds(call[q], locks[q])

LEMMA HeldByOthers ==
  ASSUME CallInv, LocksInv, NEW q \in Requests, NEW ops, CallStep(q, ops),
         Holds(call'[q], locks'[q])
  PROVE  LocksInv'
<1>1. \A p \in Requests \ {q} : call'[p] = call[p] /\ locks'[p] = locks[p]
  BY StepOfOne
<1>2. ASSUME NEW p \in Requests PROVE Holds(call'[p], locks'[p])
  BY <1>1 DEF LocksInv
<1>3. QED BY <1>2 DEF LocksInv, Holds

LEMMA IdleHolds == Holds(Idle, {})
BY DEF Holds, Needs, Idle, Locking

LEMMA DoneHolds ==
  ASSUME CallInv, NEW q \in Requests, Done(q)
  PROVE  Holds(call'[q], locks'[q])
<1>1. call'[q] = Idle /\ locks'[q] = {} BY DEF Done, CallInv
<1>2. QED BY <1>1, IdleHolds

LEMMA OnceHolds ==
  ASSUME LocksInv, NEW q \in Requests, Once(q) \/ UNCHANGED callVars
  PROVE  Holds(call'[q], locks'[q])
<1>1. call'[q] = call[q] /\ locks'[q] = locks[q] BY DEF Once, callVars
<1>2. QED BY <1>1 DEF LocksInv

\* A patch waits for one side at most.
LEMMA PatchNeeds ==
  ASSUME Typed, NEW g \in Present, NEW size, NEW a \in SidesFor(g)
  PROVE  /\ Needs(Patch(g, size, a)) /\ Patch(g, size, a).op = "patch"
         /\ Patch(g, size, a).shares = {}
         /\ \A held : held \cap (Tables \cup Affiliations) = {} =>
              Holds(Patch(g, size, a), held)
<1> DEFINE need == NewSide(g, a)
           c == [Idle EXCEPT !.op = "patch", !.guests = {g}, !.size = size,
                             !.aff = a, !.need = need]
<1>1. Patch(g, size, a) = c BY DEF Patch
<1>2. guest[g] \in Guest BY DEF Typed, RowsTyped, Present
<1>3. need \subseteq Affiliations BY <1>2 DEF SidesFor, Sides, Guest, NewSide
<1> HIDE DEF need
<1>4. c.op = "patch" /\ c.need = need /\ c.shares = {} BY DEF Idle
<1> HIDE DEF c
<1>5. Needs(c) BY <1>3, <1>4 DEF Needs, Locking
<1>6. ASSUME NEW held, held \cap (Tables \cup Affiliations) = {} PROVE Holds(c, held)
  BY <1>4, <1>5, <1>6 DEF Holds
<1>7. QED BY <1>1, <1>4, <1>5, <1>6

LEMMA GuestHolds ==
  ASSUME Typed, LocksInv, NEW q \in Requests, GuestStep(q)
  PROVE  Holds(call'[q], locks'[q])
<1>1. CallInv /\ call[q] \in Call /\ Holds(call[q], locks[q])
  BY DEF Typed, CallInv, LocksInv
<1>2. CASE BeginAddSide(q)
  BY <1>1, <1>2, KindsAssumption DEF BeginAddSide, Take, Idle, CallInv, Holds, Needs, Locking
<1>3. CASE BeginOrderSides(q)
  BY <1>1, <1>3, KindsAssumption
  DEF BeginOrderSides, Take, Idle, CallInv, Holds, Needs, Locking, SideHolders, Sides
<1>4. CASE BeginDropSide(q)
  BY <1>1, <1>4, KindsAssumption
  DEF BeginDropSide, Take, Idle, CallInv, Holds, Needs, Locking, Sides
<1>5. CASE BeginAddGuest(q)
  <2>1. CASE Take(q, {}, [Idle EXCEPT !.op = "newGuest", !.need = {Wedding}])
    BY <1>1, <2>1, KindsAssumption DEF Take, Idle, CallInv, Holds, Needs, Locking
  <2>2. ASSUME NEW a \in Sides,
               Take(q, {Wedding}, [Idle EXCEPT !.op = "addGuest", !.aff = a, !.need = {a}])
        PROVE  Holds(call'[q], locks'[q])
    BY <1>1, <2>2, KindsAssumption DEF Take, Idle, CallInv, Holds, Needs, Locking, Sides
  <2>3. QED BY <1>5, <2>1, <2>2 DEF BeginAddGuest
<1>6. CASE BeginSetSide(q)
  BY <1>1, <1>6, KindsAssumption
  DEF BeginSetSide, Take, Idle, CallInv, Holds, Needs, Locking, Sides, Present
<1>7. CASE BeginResizeParty(q)
  BY <1>1, <1>7, KindsAssumption
  DEF BeginResizeParty, Take, Idle, CallInv, Holds, Needs, Locking, Present
<1>8. CASE BeginArchive(q)
  BY <1>1, <1>8, KindsAssumption
  DEF BeginArchive, Take, Idle, CallInv, Holds, Needs, Locking, Present
<1>9. CASE BeginBulkArchive(q)
  BY <1>1, <1>9, KindsAssumption
  DEF BeginBulkArchive, Take, Idle, CallInv, Holds, Needs, Locking, Present
<1>10. CASE BeginBulkSide(q)
  BY <1>1, <1>10, KindsAssumption
  DEF BeginBulkSide, Take, Idle, CallInv, Holds, Needs, Locking, Present, Sides
<1>11. CASE PlaceSide(q)
  <2>1. call[q].op = "addSide" BY <1>11 DEF PlaceSide, Running
  <2>2. /\ call'[q] = [call[q] EXCEPT !.op = "newSide", !.size = NextPosition]
        /\ locks'[q] = locks[q]
    BY <1>1, <1>11 DEF PlaceSide, Decide, CallInv
  <2>3. /\ call'[q].op = "newSide" /\ call'[q].need = call[q].need
        /\ call'[q].shares = call[q].shares
    BY <1>1, <2>2 DEF Call
  <2>4. QED BY <1>1, <2>1, <2>2, <2>3 DEF Holds, Needs, Locking, SideHolders
<1>12. CASE CheckSeat(q)
  <2>1. PICK size : Decide(q, [call[q] EXCEPT !.op = "checked", !.size = size])
    BY <1>12 DEF CheckSeat
  <2>2. call[q].op = "update" BY <1>12 DEF CheckSeat, Running
  <2>3. /\ call'[q] = [call[q] EXCEPT !.op = "checked", !.size = size]
        /\ locks'[q] = locks[q]
    BY <1>1, <2>1 DEF Decide, CallInv
  <2>4. /\ call'[q].op = "checked" /\ call'[q].need = call[q].need
        /\ call'[q].shares = call[q].shares
    BY <1>1, <2>3 DEF Call
  <2>5. QED BY <1>1, <2>2, <2>3, <2>4 DEF Holds, Needs, Locking, SideHolders
<1>13. CASE BeginUpdateGuest(q)
  <2>1. PICK g \in Present : \E a \in SidesFor(g) : Take(q, {g}, Patch(g, guest[g].party, a))
    BY <1>13 DEF BeginUpdateGuest
  <2>2. PICK a \in SidesFor(g) : Take(q, {g}, Patch(g, guest[g].party, a)) BY <2>1
  <2>3. call'[q] = Patch(g, guest[g].party, a) /\ locks'[q] = {g}
    BY <1>1, <2>2 DEF Take, CallInv
  <2>4. g \in Guests BY DEF Present
  <2>5. {g} \cap (Tables \cup Affiliations) = {} BY <2>4, KindsAssumption
  <2>6. QED BY <2>3, <2>5, PatchNeeds DEF Holds
<1>14. CASE ResizeParty(q)
  <2>1. PICK g \in call[q].guests : \E a \in SidesFor(g) : Decide(q, Patch(g, call[q].size, a))
    BY <1>14 DEF ResizeParty
  <2>2. PICK a \in SidesFor(g) : Decide(q, Patch(g, call[q].size, a)) BY <2>1
  <2>3. call'[q] = Patch(g, call[q].size, a) /\ locks'[q] = locks[q]
    BY <1>1, <2>2 DEF Decide, CallInv
  <2>4. g \in Present BY <2>1 DEF Typed, CallInv, Fits
  <2>5. call[q].op = "checked" BY <1>14 DEF ResizeParty, Running
  <2>6. locks[q] \cap (Tables \cup Affiliations) = {} BY <1>1, <2>5 DEF Holds, SideHolders
  <2>7. QED BY <2>3, <2>4, <2>6, PatchNeeds DEF Holds
<1>15. CASE FindMembers(q)
  <2> DEFINE need == Members(call[q].aff)
  <2>1. call[q].op = "dropSide" /\ need \subseteq Guests
    BY <1>15 DEF FindMembers, Running, Members, Present
  <2>2. /\ call'[q] = [call[q] EXCEPT !.op = "emptySide", !.need = need]
        /\ locks'[q] = locks[q]
    BY <1>1, <1>15 DEF FindMembers, Decide, CallInv
  <2> HIDE DEF need
  <2>3. /\ call'[q].op = "emptySide" /\ call'[q].need = need
        /\ call'[q].shares = call[q].shares
    BY <1>1, <2>2 DEF Call
  <2>4. locks[q] \cap Tables = {} BY <1>1, <2>1 DEF Holds
  <2>5. QED BY <1>1, <2>1, <2>2, <2>3, <2>4 DEF Holds, Needs, Locking, SideHolders
<1>16. CASE Restore(q) BY <1>16, OnceHolds DEF Restore
<1>17. CASE Done(q) BY <1>1, <1>17, DoneHolds
<1>18. QED
  BY <1>2, <1>3, <1>4, <1>5, <1>6, <1>7, <1>8, <1>9, <1>10, <1>11, <1>12, <1>13, <1>14,
     <1>15, <1>16, <1>17
  DEF GuestStep, SideRoutes, GuestRoutes, AddSide, OrderSides, DropSide, AddGuest, SetSide,
      UpdateGuest, Archive, BulkSide

LEMMA LinkHolds ==
  ASSUME Typed, LocksInv, NEW q \in Requests, LinkStep(q)
  PROVE  Holds(call'[q], locks'[q])
<1>1. CallInv /\ call[q] \in Call /\ Holds(call[q], locks[q])
  BY DEF Typed, CallInv, LocksInv
<1>2. CASE BeginInvite(q)
  BY <1>1, <1>2, KindsAssumption
  DEF BeginInvite, Take, Idle, CallInv, Holds, Needs, Locking, Present
<1>3. CASE BeginReplace(q)
  BY <1>1, <1>3, KindsAssumption
  DEF BeginReplace, Take, Idle, CallInv, Holds, Needs, Locking, Present
<1>4. CASE BeginReply(q)
  BY <1>1, <1>4, KindsAssumption
  DEF BeginReply, Take, Idle, CallInv, Holds, Needs, Locking
<1>5. CASE Done(q) BY <1>1, <1>5, DoneHolds
<1>6. QED
  BY <1>2, <1>3, <1>4, <1>5
  DEF LinkStep, InvitationRoutes, PublicRoutes, Invite, Replace, SaveReply

LEMMA SeatHolds ==
  ASSUME Typed, LocksInv, NEW q \in Requests, SeatStep(q)
  PROVE  Holds(call'[q], locks'[q])
<1>1. CallInv /\ call[q] \in Call /\ Holds(call[q], locks[q])
  BY DEF Typed, CallInv, LocksInv
<1>2. CASE BeginAddTable(q)
  BY <1>1, <1>2, KindsAssumption
  DEF BeginAddTable, Take, Idle, CallInv, Holds, Needs, Locking
<1>3. CASE BeginResizeTable(q)
  BY <1>1, <1>3, KindsAssumption
  DEF BeginResizeTable, Take, Idle, CallInv, Holds, Needs, Locking, TablesThere
<1>4. CASE BeginAssign(q)
  BY <1>1, <1>4, KindsAssumption
  DEF BeginAssign, Take, Idle, CallInv, Holds, Needs, Locking, Present
<1>5. CASE CountTables(q)
  <2>1. call[q].op = "addTable" BY <1>5 DEF CountTables, Running
  <2>2. /\ call'[q] = [call[q] EXCEPT !.op = "newTable"]
        /\ locks'[q] = locks[q]
    BY <1>1, <1>5 DEF CountTables, Decide, CallInv
  <2>3. /\ call'[q].op = "newTable" /\ call'[q].need = call[q].need
        /\ call'[q].shares = call[q].shares
    BY <1>1, <2>2 DEF Call
  <2>4. QED BY <1>1, <2>1, <2>2, <2>3 DEF Holds, Needs, Locking, SideHolders
<1>6. CASE ReadUsage(q)
  <2>1. PICK size : Decide(q, [call[q] EXCEPT !.op = "resized", !.size = size])
    BY <1>6 DEF ReadUsage
  <2>2. call[q].op = "resize" BY <1>6 DEF ReadUsage, Running
  <2>3. /\ call'[q] = [call[q] EXCEPT !.op = "resized", !.size = size]
        /\ locks'[q] = locks[q]
    BY <1>1, <2>1 DEF Decide, CallInv
  <2>4. /\ call'[q].op = "resized" /\ call'[q].need = call[q].need
        /\ call'[q].shares = call[q].shares
    BY <1>1, <2>3 DEF Call
  <2>5. QED BY <1>1, <2>2, <2>3, <2>4 DEF Holds, Needs, Locking, SideHolders
<1>7. CASE ReadSeat(q)
  <2>1. PICK g \in call[q].guests :
          Decide(q, [call[q] EXCEPT !.op = "seat", !.need = TablesOf(g, call[q].table)])
    BY <1>7 DEF ReadSeat
  <2> DEFINE need == TablesOf(g, call[q].table)
  <2>2. g \in Guests /\ call[q].table \in Tables \cup {None} BY <1>1 DEF Call
  <2>3. need \subseteq Tables BY <2>2 DEF TablesOf, Typed, RowsTyped
  <2>4. /\ call'[q] = [call[q] EXCEPT !.op = "seat", !.need = need]
        /\ locks'[q] = locks[q]
    BY <1>1, <2>1 DEF Decide, CallInv
  <2> HIDE DEF need
  <2>5. /\ call'[q].op = "seat" /\ call'[q].need = need
        /\ call'[q].shares = call[q].shares
    BY <1>1, <2>4 DEF Call
  <2>6. call[q].op = "assign" BY <1>7 DEF ReadSeat, Running
  <2>7. QED BY <1>1, <2>3, <2>4, <2>5, <2>6 DEF Holds, Needs, Locking, SideHolders
<1>8. CASE ReadRoom(q)
  <2>1. call[q].op = "seat" /\ call[q].need = {} BY <1>8 DEF ReadRoom, Running
  <2>2. /\ call'[q] = [call[q] EXCEPT !.op = "seated"]
        /\ locks'[q] = locks[q]
    BY <1>1, <1>8 DEF ReadRoom, Decide, CallInv
  <2>3. /\ call'[q].op = "seated" /\ call'[q].need = {}
        /\ call'[q].shares = call[q].shares
    BY <1>1, <2>1, <2>2 DEF Call
  <2>4. QED BY <1>1, <2>1, <2>2, <2>3 DEF Holds, Needs, Locking, SideHolders
<1>9. CASE DeleteTable(q) BY <1>9, OnceHolds DEF DeleteTable
<1>10. CASE Done(q) BY <1>1, <1>10, DoneHolds
<1>11. QED
  BY <1>2, <1>3, <1>4, <1>5, <1>6, <1>7, <1>8, <1>9, <1>10
  DEF SeatStep, AddTable, ResizeTable, Assign

LEMMA ImportHolds ==
  ASSUME Typed, LocksInv, NEW q \in Requests, ImportStep(q)
  PROVE  Holds(call'[q], locks'[q])
<1>1. CallInv /\ call[q] \in Call /\ Holds(call[q], locks[q])
  BY DEF Typed, CallInv, LocksInv
<1>2. CASE LoadForMapping(q)
  BY <1>1, <1>2, KindsAssumption
  DEF LoadForMapping, Take, Idle, CallInv, Holds, Needs, Locking
<1>3. CASE BeginCommit(q)
  <2>0. PICK b \in Batches : \E version :
          Take(q, {b}, [Idle EXCEPT !.op = "commit", !.batch = b, !.size = version])
    BY <1>3 DEF BeginCommit
  <2>1. PICK version :
          Take(q, {b}, [Idle EXCEPT !.op = "commit", !.batch = b, !.size = version])
    BY <2>0
  <2>2. /\ call'[q] = [Idle EXCEPT !.op = "commit", !.batch = b, !.size = version]
        /\ locks'[q] = {b}
    BY <1>1, <2>1 DEF Take, CallInv
  <2>3. /\ call'[q].op = "commit" /\ call'[q].need = {} /\ call'[q].shares = {}
    BY <2>2 DEF Idle
  <2>4. QED BY <2>2, <2>3, KindsAssumption DEF Holds, Needs, Locking, SideHolders
<1>4. CASE Stage(q) \/ BuildRows(q) \/ RepeatCommit(q)
  BY <1>4, OnceHolds DEF Stage, BuildRows, RepeatCommit
<1>5. CASE InsertGuests(q)
  <2> DEFINE p == batch[call[q].batch].rows
             parents == IF Included(p) = {} THEN {} ELSE {Wedding}
             need == SidesNamed(p)
  <2>1. call[q].op = "commit" BY <1>5 DEF InsertGuests, Running
  <2>2. /\ call'[q] = [call[q] EXCEPT !.op = "insert", !.shares = parents, !.need = need]
        /\ locks'[q] = locks[q]
    BY <1>1, <1>5 DEF InsertGuests, Decide, CallInv
  <2>3. need # {} => Wedding \in parents BY DEF SidesNamed
  <2>4. p \in Preview /\ Importable(p)
    <3>1. call[q].batch \in Batches /\ Confirmed(call[q].batch, call[q].size)
      BY <1>1, <2>1 DEF Typed, CallInv, HeldInv, Fits, ImportOps
    <3>2. batch[call[q].batch] \in BatchRow BY <3>1 DEF Typed, ImportTypeOK, Confirmed
    <3>3. QED BY <3>1, <3>2 DEF Confirmed, BatchRow
  <2> HIDE DEF p
  <2>5. need \subseteq Affiliations BY <2>4, SideNamed DEF SidesNamed
  <2>6. parents \subseteq {Wedding} OBVIOUS
  <2> HIDE DEF need, parents
  <2>7. call'[q].op = "insert" /\ call'[q].need = need /\ call'[q].shares = parents
    BY <1>1, <2>2 DEF Call
  <2>8. locks[q] \cap (Tables \cup Affiliations) = {} BY <1>1, <2>1 DEF Holds, SideHolders
  <2>9. Needs(call'[q]) BY <2>5, <2>7 DEF Needs, Locking
  <2>10. QED BY <2>2, <2>3, <2>6, <2>7, <2>8, <2>9 DEF Holds
<1>6. CASE Done(q) BY <1>1, <1>6, DoneHolds
<1>7. QED
  BY <1>2, <1>3, <1>4, <1>5, <1>6
  DEF ImportStep, ReplacePreview, CommitImport

LEMMA LedgerHolds ==
  ASSUME Typed, LocksInv, NEW q \in Requests, LedgerStep(q)
  PROVE  Holds(call'[q], locks'[q])
<1>1. CallInv /\ call[q] \in Call /\ Holds(call[q], locks[q])
  BY DEF Typed, CallInv, LocksInv
<1>2. CASE BeginBudget(q)
  BY <1>1, <1>2, KindsAssumption
  DEF BeginBudget, Take, Idle, CallInv, Holds, Needs, Locking
<1>3. CASE BeginAddCategory(q)
  BY <1>1, <1>3, KindsAssumption
  DEF BeginAddCategory, Take, Idle, CallInv, Holds, Needs, Locking
<1>4. CASE BeginDropCategory(q)
  BY <1>1, <1>4, KindsAssumption
  DEF BeginDropCategory, Take, Idle, CallInv, Holds, Needs, Locking, Typed, LedgerTypeOK
<1>5. CASE BeginQuote(q)
  BY <1>1, <1>5, KindsAssumption
  DEF BeginQuote, Take, Idle, CallInv, Holds, Needs, Locking
<1>6. CASE BeginDropVendor(q)
  BY <1>1, <1>6, KindsAssumption
  DEF BeginDropVendor, Take, Idle, CallInv, Holds, Needs, Locking, VendorsThere
<1>7. CASE BeginExpense(q)
  BY <1>1, <1>7, KindsAssumption
  DEF BeginExpense, Take, Idle, CallInv, Holds, Needs, Locking
<1>8. CASE CheckCurrency(q)
  <2>1. PICK c : Decide(q, [call[q] EXCEPT !.op = "newBudget", !.currency = c])
    BY <1>8 DEF CheckCurrency
  <2>2. call[q].op = "budget" BY <1>8 DEF CheckCurrency, Running
  <2>3. /\ call'[q] = [call[q] EXCEPT !.op = "newBudget", !.currency = c]
        /\ locks'[q] = locks[q]
    BY <1>1, <2>1 DEF Decide, CallInv
  <2>4. /\ call'[q].op = "newBudget" /\ call'[q].need = call[q].need
        /\ call'[q].shares = call[q].shares
    BY <1>1, <2>3 DEF Call
  <2>5. QED BY <1>1, <2>2, <2>3, <2>4 DEF Holds, Needs, Locking, SideHolders
<1>9. CASE CountCategories(q)
  <2>1. call[q].op = "addCategory" BY <1>9 DEF CountCategories, Running
  <2>2. /\ call'[q] = [call[q] EXCEPT !.op = "newCategory"]
        /\ locks'[q] = locks[q]
    BY <1>1, <1>9 DEF CountCategories, Decide, CallInv
  <2>3. /\ call'[q].op = "newCategory" /\ call'[q].need = call[q].need
        /\ call'[q].shares = call[q].shares
    BY <1>1, <2>2 DEF Call
  <2>4. QED BY <1>1, <2>1, <2>2, <2>3 DEF Holds, Needs, Locking, SideHolders
<1>10. CASE ReadBudget(q)
  <2>1. call[q].op = "vendor" BY <1>10 DEF ReadBudget, Running
  <2>2. /\ call'[q] = [call[q] EXCEPT !.op = "newVendor", !.currency = currency]
        /\ locks'[q] = locks[q]
    BY <1>1, <1>10 DEF ReadBudget, Decide, CallInv
  <2>3. /\ call'[q].op = "newVendor" /\ call'[q].need = call[q].need
        /\ call'[q].shares = call[q].shares
    BY <1>1, <2>2 DEF Call
  <2>4. QED BY <1>1, <2>1, <2>2, <2>3 DEF Holds, Needs, Locking, SideHolders
<1>11. CASE CheckBudget(q)
  <2>1. call[q].op = "expense" BY <1>11 DEF CheckBudget, Running
  <2>2. /\ call'[q] = [call[q] EXCEPT !.op = "newExpense", !.currency = currency]
        /\ locks'[q] = locks[q]
    BY <1>1, <1>11 DEF CheckBudget, Decide, CallInv
  <2>3. /\ call'[q].op = "newExpense" /\ call'[q].need = call[q].need
        /\ call'[q].shares = call[q].shares
    BY <1>1, <2>2 DEF Call
  <2>4. QED BY <1>1, <2>1, <2>2, <2>3 DEF Holds, Needs, Locking, SideHolders
<1>12. CASE SaveVendor(q) \/ DeleteExpense(q)
  BY <1>12, OnceHolds DEF SaveVendor, DeleteExpense
<1>13. CASE Done(q) BY <1>1, <1>13, DoneHolds
<1>14. QED
  BY <1>2, <1>3, <1>4, <1>5, <1>6, <1>7, <1>8, <1>9, <1>10, <1>11, <1>12, <1>13
  DEF LedgerStep, BudgetRoutes, CategoryRoutes, VendorRoutes, ExpenseRoutes,
      SetBudget, AddCategory, DropCategory, SaveQuote, DropVendor, SaveExpense

LEMMA TemplateHolds ==
  ASSUME Typed, LocksInv, NEW q \in Requests, TemplateStep(q)
  PROVE  Holds(call'[q], locks'[q])
<1>1. CallInv /\ call[q] \in Call /\ Holds(call[q], locks[q])
  BY DEF Typed, CallInv, LocksInv
<1>2. CASE BeginAddTemplate(q)
  BY <1>1, <1>2, KindsAssumption
  DEF BeginAddTemplate, Take, Idle, CallInv, Holds, Needs, Locking
<1>3. CASE CountTemplates(q)
  <2>1. call[q].op = "addTemplate" BY <1>3 DEF CountTemplates, Running
  <2>2. /\ call'[q] = [call[q] EXCEPT !.op = "newTemplate"]
        /\ locks'[q] = locks[q]
    BY <1>1, <1>3 DEF CountTemplates, Decide, CallInv
  <2>3. /\ call'[q].op = "newTemplate" /\ call'[q].need = call[q].need
        /\ call'[q].shares = call[q].shares
    BY <1>1, <2>2 DEF Call
  <2>4. QED BY <1>1, <2>1, <2>2, <2>3 DEF Holds, Needs, Locking, SideHolders
<1>4. CASE DeleteTemplate(q) BY <1>4, OnceHolds DEF DeleteTemplate
<1>5. CASE Done(q) BY <1>1, <1>5, DoneHolds
<1>6. QED
  BY <1>2, <1>3, <1>4, <1>5
  DEF TemplateStep, AddTemplate

\* A row is locked only when it is the least the call still needs, if tables are.
LEMMA LockHolds ==
  ASSUME Typed, LocksInv, NEW q \in Requests, LockNext(q)
  PROVE  Holds(call'[q], locks'[q])
<1>1. CallInv /\ call[q] \in Call /\ Holds(call[q], locks[q])
  BY DEF Typed, CallInv, LocksInv
<1>2. PICK row \in NextRows(call[q]) :
        /\ call[q].op \notin Sharing
        /\ locks' = [locks EXCEPT ![q] = @ \cup {row}]
        /\ call' = [call EXCEPT ![q].need = @ \ {row}]
  BY DEF LockNext
<1> DEFINE need == call[q].need \ {row}
<1>3. /\ call'[q] = [call[q] EXCEPT !.need = need]
      /\ locks'[q] = locks[q] \cup {row}
  BY <1>1, <1>2 DEF CallInv
<1>4. row \in call[q].need /\ need = call[q].need \ {row} BY <1>2 DEF NextRows
<1> HIDE DEF need
<1>5. /\ call'[q].op = call[q].op /\ call'[q].need = need
      /\ call'[q].aff = call[q].aff /\ call'[q].shares = call[q].shares
  BY <1>1, <1>3 DEF Call
<1>6. Needs(call'[q]) BY <1>1, <1>4, <1>5 DEF Holds, Needs
<1>7. call[q].op \in Locking \ Sharing BY <1>1, <1>2, <1>4 DEF Holds, Needs
<1>8. CASE call[q].op = "seat"
  <2>1. row \in Tables /\ need \subseteq Tables BY <1>1, <1>4, <1>8 DEF Holds, Needs
  <2>2. \A u \in need : row < u
    <3>1. \A u \in call[q].need : row <= u BY <1>2, <1>8 DEF NextRows
    <3>2. \A u \in need : u \in Nat /\ u # row /\ row <= u
      BY <1>4, <2>1, <3>1, WeddingAssumption
    <3>3. row \in Nat BY <2>1, WeddingAssumption
    <3>4. QED BY <3>2, <3>3
  <2>3. \A t \in locks[q] \cap Tables : \A u \in need : t < u
    BY <1>1, <1>4 DEF Holds
  <2>4. \A t \in locks'[q] \cap Tables : \A u \in need : t < u BY <1>3, <2>2, <2>3
  <2>5. locks'[q] \cap Affiliations = {}
    BY <1>1, <1>3, <1>8, <2>1, KindsAssumption DEF Holds, SideHolders
  <2>6. QED BY <1>1, <1>5, <1>6, <1>8, <2>4, <2>5 DEF Holds
<1>9. CASE call[q].op # "seat"
  <2>1. row \notin Tables
    BY <1>1, <1>4, <1>7, <1>9, KindsAssumption DEF Holds, Needs, Locking, Sharing
  <2>2. locks'[q] \cap Tables = {}
    <3>1. locks[q] \cap Tables = {} BY <1>1, <1>7, <1>9 DEF Holds, Locking
    <3>2. QED BY <1>3, <2>1, <3>1
  <2>3. CASE row \in Affiliations
    <3>1. call[q].op \in {"dropSide", "addGuest", "setSide", "bulkSide"}
      BY <1>1, <1>4, <1>7, <1>9, <2>3, KindsAssumption DEF Holds, Needs, Locking, Sharing
    <3>2. call[q].op \in {"dropSide", "addGuest"} => need = {}
      BY <1>1, <1>4 DEF Holds, Needs
    <3>3. QED BY <1>1, <1>5, <1>6, <2>2, <3>1, <3>2 DEF Holds, SideHolders
  <2>4. CASE row \notin Affiliations
    <3>1. locks'[q] \cap Affiliations = locks[q] \cap Affiliations BY <1>3, <2>4
    <3>2. call[q].op \notin {"insert", "newGuest"} BY <1>2 DEF Sharing
    <3>3. call[q].need = {} => need = {} BY <1>4
    <3>4. QED BY <1>1, <1>5, <1>6, <2>2, <3>1, <3>2, <3>3 DEF Holds
  <2>5. QED BY <2>3, <2>4
<1>10. QED BY <1>8, <1>9

LEMMA ShareHolds ==
  ASSUME Typed, LocksInv, NEW q \in Requests, ShareNext(q)
  PROVE  Holds(call'[q], locks'[q])
<1>1. CallInv /\ call[q] \in Call /\ Holds(call[q], locks[q])
  BY DEF Typed, CallInv, LocksInv
<1>2. PICK row \in call[q].need :
        /\ call[q].op \in Sharing
        /\ call' = [call EXCEPT ![q].need = @ \ {row}, ![q].shares = @ \cup {row}]
        /\ UNCHANGED locks
  BY DEF ShareNext
<1> DEFINE need == call[q].need \ {row}
           shares == call[q].shares \cup {row}
<1>3. call'[q] = [call[q] EXCEPT !.need = need, !.shares = shares]
  BY <1>1, <1>2 DEF CallInv, Call
<1> HIDE DEF need, shares
<1>4. /\ call'[q].op = call[q].op /\ call'[q].need = need /\ call'[q].shares = shares
      /\ call'[q].aff = call[q].aff
  BY <1>1, <1>3 DEF Call
<1>5. Needs(call'[q]) BY <1>1, <1>4 DEF Holds, Needs, need
<1>6. row \in Affiliations \cup {Wedding}
  BY <1>1, <1>2 DEF Holds, Needs, Sharing
<1>7. shares \subseteq Affiliations \cup {Wedding} BY <1>1, <1>6 DEF Holds, shares
<1>8. call[q].op = "insert" => Wedding \in shares BY <1>1, <1>2 DEF Holds, shares
<1>9. call[q].op = "newGuest" => need = {} BY <1>1, <1>2 DEF Holds, Needs, need
<1>10. /\ locks'[q] = locks[q] /\ locks[q] \cap (Tables \cup Affiliations) = {}
  BY <1>1, <1>2 DEF Holds, Sharing, SideHolders
<1>11. QED BY <1>4, <1>5, <1>7, <1>8, <1>9, <1>10 DEF Holds

-----------------------------------------------------------------------------
(* Every step.                                                              *)

LEMMA LocksInit == Init => LocksInv
BY IdleHolds DEF Init, LocksInv

LEMMA LocksStep == Typed /\ LocksInv /\ [Next]_vars => LocksInv'
<1> SUFFICES ASSUME Typed, LocksInv, [Next]_vars PROVE LocksInv'
  OBVIOUS
<1>1. ASSUME NEW q \in Requests, GuestCalls(q) PROVE LocksInv'
  BY <1>1, GuestHolds, GuestCallsTyped, HeldByOthers DEF GuestCalls, Typed
<1>2. ASSUME NEW q \in Requests, LinkCalls(q) PROVE LocksInv'
  BY <1>2, LinkHolds, LinkCallsTyped, HeldByOthers DEF LinkCalls, Typed
<1>3. ASSUME NEW q \in Requests, SeatCalls(q) PROVE LocksInv'
  BY <1>3, SeatHolds, SeatCallsTyped, HeldByOthers DEF SeatCalls, Typed
<1>4. ASSUME NEW q \in Requests, ImportCalls(q) PROVE LocksInv'
  BY <1>4, ImportHolds, ImportCallsTyped, HeldByOthers DEF ImportCalls, Typed
<1>5. ASSUME NEW q \in Requests, LedgerCalls(q) PROVE LocksInv'
  BY <1>5, LedgerHolds, LedgerCallsTyped, HeldByOthers DEF LedgerCalls, Typed
<1>6. ASSUME NEW q \in Requests, TemplateCalls(q) PROVE LocksInv'
  BY <1>6, TemplateHolds, TemplateCallsTyped, HeldByOthers DEF TemplateCalls, Typed
<1>7. ASSUME NEW q \in Requests, Wait(q) PROVE LocksInv'
  BY <1>7, LockHolds, ShareHolds, WaitTyped, HeldByOthers DEF Wait, Typed
<1>8. ASSUME NEW q \in Requests, Fail(q) PROVE LocksInv'
  BY <1>8, DoneHolds, FailTyped, HeldByOthers DEF Fail, Refuse, Typed
<1>9. ASSUME UNCHANGED Others \/ UNCHANGED vars PROVE LocksInv'
  BY <1>9 DEF Others, vars, callVars, LocksInv, Holds, Needs
<1>10. QED
  BY <1>1, <1>2, <1>3, <1>4, <1>5, <1>6, <1>7, <1>8, <1>9 DEF Next

LEMMA AlwaysLocks == Spec => []LocksInv
<1>1. Typed /\ LocksInv /\ [Next]_vars => LocksInv' BY LocksStep
<1>2. QED BY <1>1, LocksInit, AlwaysTyped, PTL DEF Spec

-----------------------------------------------------------------------------
(* Circles.                                                                 *)

\* Who waits has a row to wait for, or the name of a table that another call
\* changes.
LEMMA WaitersNeed ==
  ASSUME NEW p \in Requests, NEW q \in Requests, WaitsFor(p, q)
  PROVE  call[p].need # {} \/ call[p].op \in {"newTable", "resized"}
BY DEF WaitsFor, NextRows

\* The circles that are known, as far as they are named by the calls in them.
Known(S) ==
  \/ \E q \in S : call[q].op \in {"bulkSide", "bulkArchive"}
  \/ \E p, q \in S : /\ call[p].op = "patch" /\ call[q].op \in {"setSide", "emptySide"}
                     /\ call[p].need \cap locks[q] # {}
  \/ \E p, q \in S : p # q /\ call[p].op = "resized" /\ call[q].op = "resized"

LEMMA NoCircle ==
  ASSUME Typed, LocksInv, NEW S \in SUBSET Requests, Stuck(S), ~Known(S)
  PROVE  FALSE
<1>1. \A p \in S : \E q \in S \ {p} : WaitsFor(p, q) BY DEF Stuck
<1>2. \A p \in S : Holds(call[p], locks[p]) BY DEF LocksInv
<1>3. \A p, q \in S : p # q => locks[p] \cap (locks[q] \cup call[q].shares) = {}
  BY DEF Typed, CallInv
\* Who waits for a table's name waits for a call that waits for another's.
<1>4. ASSUME NEW p \in S PROVE call[p].op \notin {"newTable", "resized"}
  <2>1. SUFFICES ASSUME call[p].op \in {"newTable", "resized"} PROVE FALSE OBVIOUS
  <2>2. call[p].need = {} BY <1>2, <2>1 DEF Holds, Needs, Locking
  <2>3. PICK q \in S \ {p} : WaitsFor(p, q) BY <1>1
  <2>4. call[q].op = "resized" BY <2>2, <2>3 DEF WaitsFor, NextRows
  <2>5. call[q].need = {} BY <1>2, <2>4 DEF Holds, Needs, Locking
  <2>6. PICK r \in S \ {q} : WaitsFor(q, r) BY <1>1
  <2>7. call[r].op = "resized" BY <2>5, <2>6 DEF WaitsFor, NextRows
  <2>8. QED BY <2>4, <2>6, <2>7 DEF Known
<1>5. \A p \in S : call[p].need # {} /\ call[p].op \in Locking
  BY <1>1, <1>2, <1>4, WaitersNeed DEF Holds, Needs
\* A call waits for a row of another.
<1>6. ASSUME NEW p \in S
      PROVE  \E q \in S \ {p}, row \in call[p].need :
               /\ call[p].op \notin Sharing => row \in NextRows(call[p])
               /\ row \in locks[q] \/ (call[p].op \notin Sharing /\ row \in call[q].shares)
  <2>1. PICK q \in S \ {p} : WaitsFor(p, q) BY <1>1
  <2>2. QED BY <1>4, <2>1 DEF WaitsFor, NextRows
\* A table is waited for and held by moves only, each waiting for a greater one.
<1>7. ASSUME NEW p \in S PROVE call[p].op # "seat"
  <2> DEFINE T == {t \in Tables : \E q \in S : call[q].op = "seat" /\ t \in NextRows(call[q])}
  <2>1. ASSUME NEW q \in S, call[q].op = "seat"
        PROVE  \E x \in NextRows(call[q]), u \in T : x \in Tables /\ x < u
    <3>1. PICK r \in S \ {q}, x \in NextRows(call[q]) :
            x \in locks[r] \/ x \in call[r].shares
      BY <1>6, <2>1 DEF Sharing
    <3>2. x \in Tables BY <1>2, <2>1, <3>1 DEF NextRows, Holds, Needs
    <3>3. x \in locks[r]
      BY <1>2, <3>1, <3>2, KindsAssumption DEF Holds
    <3>4. call[r].op = "seat" BY <1>2, <1>5, <3>2, <3>3 DEF Holds, Locking
    <3>5. PICK u \in NextRows(call[r]) : TRUE BY <1>6, <3>4 DEF Sharing
    <3>6. u \in Tables /\ u \in call[r].need
      BY <1>2, <3>4, <3>5 DEF NextRows, Holds, Needs
    <3>7. x < u BY <1>2, <3>2, <3>3, <3>6 DEF Holds
    <3>8. QED BY <3>2, <3>4, <3>5, <3>6, <3>7
  <2>2. ASSUME NEW t \in T PROVE \E u \in T : t < u
    <3>1. PICK q \in S : call[q].op = "seat" /\ t \in NextRows(call[q]) OBVIOUS
    <3>2. PICK x \in NextRows(call[q]), u \in T : x \in Tables /\ x < u BY <2>1, <3>1
    <3>3. t \in Nat /\ x \in Nat /\ t <= x /\ x <= t
      BY <3>1, <3>2, WeddingAssumption DEF NextRows
    <3>4. QED BY <3>2, <3>3
  <2>3. T \subseteq Tables OBVIOUS
  <2>4. IsFiniteSet(T) BY <2>3, WeddingAssumption, FS_Subset
  <2>5. T = {}
    <3>1. SUFFICES ASSUME T # {} PROVE FALSE OBVIOUS
    <3> HIDE DEF T
    <3>2. T \subseteq Int
      <4>1. Tables \subseteq Nat BY WeddingAssumption
      <4>2. Nat \subseteq Int OBVIOUS
      <4>3. QED BY <2>3, <4>1, <4>2
    <3> DEFINE f == [t \in T |-> t]
    <3>3. f \in [T -> Int] BY <3>2
    <3>4. \A t \in T : f[t] = t OBVIOUS
    <3> HIDE DEF f
    <3>5. PICK m \in T : \A t \in T : f[t] <= f[m] BY <2>4, <3>1, <3>3, GreatestExists
    <3>6. PICK u \in T : m < u BY <2>2
    <3>7. u <= m /\ u \in Nat /\ m \in Nat BY <2>3, <3>4, <3>5, WeddingAssumption
    <3>8. QED BY <3>6, <3>7
  <2>6. QED BY <2>1, <2>5
\* A side that a patch waits for is held by a call that then locks its guests.
<1>8. ASSUME NEW p \in S PROVE call[p].op # "patch"
  <2>1. SUFFICES ASSUME call[p].op = "patch" PROVE FALSE OBVIOUS
  <2>2. PICK q \in S, row \in call[p].need : row \in locks[q] BY <1>6, <2>1 DEF Sharing
  <2>3. row \in Affiliations BY <1>2, <2>1 DEF Holds, Needs
  <2>4. call[q].op \in SideHolders BY <1>2, <1>5, <2>2, <2>3 DEF Holds
  <2>5. QED BY <2>1, <2>2, <2>4 DEF SideHolders, Known
\* The others hold the wedding, share it, or hold nothing.
<1>9. ASSUME NEW p \in S
      PROVE  \/ call[p].op \notin Sharing \cup {"seat"} /\ Wedding \in locks[p]
             \/ call[p].op = "orderSides" /\ Wedding \in locks[p]
             \/ call[p].op = "insert" /\ Wedding \in call[p].shares
             \/ call[p].op = "newGuest" /\ locks[p] = {} /\ call[p].shares = {}
  <2>1. call[p].op \notin {"bulkSide", "bulkArchive"} BY DEF Known
  <2>2. Fits(call[p], locks[p]) BY DEF Typed, CallInv
  <2>3. QED
    BY <1>2, <1>5, <1>7, <1>8, <2>1, <2>2
    DEF Holds, Fits, WeddingOps, Locking, Sharing
\* An import waits for a side, and who holds one holds the wedding.
<1>10. ASSUME NEW p \in S PROVE call[p].op # "insert"
  <2>1. SUFFICES ASSUME call[p].op = "insert" PROVE FALSE OBVIOUS
  <2>2. Wedding \in call[p].shares BY <1>9, <2>1 DEF Sharing
  <2>3. PICK q \in S \ {p}, row \in call[p].need : row \in locks[q]
    BY <1>6, <2>1 DEF Sharing
  <2>4. row \in Affiliations BY <1>2, <2>1 DEF Holds, Needs
  <2>5. call[q].op \in SideHolders BY <1>2, <1>5, <2>3, <2>4 DEF Holds
  <2>6. Wedding \in locks[q] BY <1>9, <2>5 DEF SideHolders
  <2>7. QED BY <1>3, <2>2, <2>3, <2>6
\* Nobody waits for a call that holds nothing, and one call holds the wedding.
<1>11. ASSUME NEW p \in S PROVE \E q \in S \ {p} : Wedding \in locks[q]
  <2>1. PICK q \in S \ {p} : locks[q] # {} \/ call[q].shares # {} BY <1>6
  <2>2. QED BY <1>9, <1>10, <2>1
<1>12. PICK p \in S : TRUE BY DEF Stuck
<1>13. PICK q \in S \ {p} : Wedding \in locks[q] BY <1>11
<1>14. PICK r \in S \ {q} : Wedding \in locks[r] BY <1>11, <1>13
<1>15. QED BY <1>3, <1>13, <1>14

\* However many calls run and wait, they wait for each other in a circle only if
\* there is a bulk change among them, or a patch that waits for a side which a
\* call holds that then locks guests, or two changes of tables: seating, moving,
\* ordering, importing and deleting always leave one call that can go on.
THEOREM CirclesAreKnown == Spec => []OnlyKnownCircles
<1>1. Typed /\ LocksInv => OnlyKnownCircles
  BY NoCircle DEF OnlyKnownCircles, Known
<1>2. QED BY <1>1, AlwaysTyped, AlwaysLocks, PTL
=============================================================================
