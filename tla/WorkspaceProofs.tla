---------------------------- MODULE WorkspaceProofs ----------------------------
(***************************************************************************)
(* Proofs about Workspace, for any number of calls at a time and any rows: *)
(* what a call knows and holds while it runs, and the types of the rows.   *)
(***************************************************************************)
EXTENDS Workspace, FiniteSetTheorems, WellFoundedInduction, TLAPS

-----------------------------------------------------------------------------
(* What a call may rely on.                                                 *)

GuestOps == {"addGuest", "newGuest", "setSide", "update", "checked", "patch", "archive",
             "bulkArchive", "bulkSide", "addSide", "newSide", "orderSides", "dropSide",
             "emptySide"}
LinkOps == {"invite", "replace", "reply"}
SeatOps == {"addTable", "newTable", "resize", "resized", "assign", "seat", "seated"}
ImportOps == {"map", "commit", "insert"}
LedgerOps == {"budget", "newBudget", "vendor", "newVendor", "dropVendor", "expense",
              "newExpense", "addCategory", "newCategory", "dropCategory"}
TemplateOps == {"addTemplate", "newTemplate"}

\* The calls that hold the wedding's row from their first statement on.
WeddingOps ==
  {"addGuest", "setSide", "addSide", "newSide", "orderSides", "dropSide", "emptySide",
   "addTable", "newTable",
   "budget", "newBudget", "vendor", "newVendor", "dropVendor", "expense",
   "newExpense", "addCategory", "newCategory", "dropCategory", "addTemplate",
   "newTemplate"}

Issued == {l \in Links : link[l] # None}

\* The arguments of a call that holds some rows.
Fits(c, held) ==
  /\ c \in Call
  /\ c.op \in WeddingOps => Wedding \in held
  /\ c.guests \subseteq Present
  /\ c.op \in {"checked", "patch"} => c.size \in Parties
  /\ c.op = "resized" => c.size \in Capacities
  /\ c.op = "reply" => c.link \in Issued
  /\ c.op \in {"newBudget", "newVendor", "newExpense"} => c.currency \in Currencies
  /\ c.op \in ImportOps => c.batch \in Batches
  /\ c.op \in {"commit", "insert"} => c.batch \in held

CallInv ==
  /\ call \in [Requests -> Call]
  /\ locks \in [Requests -> SUBSET Rows]
  /\ calls \in 0..MaxCalls
  /\ \A q \in Requests : Fits(call[q], locks[q])
  /\ \A p, q \in Requests : p # q => locks[p] \cap (locks[q] \cup call[q].shares) = {}

\* A step of q alone.  It leaves a call of ops, no call, or the call it was with
\* no fewer locks.
CallStep(q, ops) ==
  \E c \in Call, held \in SUBSET Rows :
    /\ call' = [call EXCEPT ![q] = c]
    /\ locks' = [locks EXCEPT ![q] = held]
    /\ calls' \in 0..MaxCalls
    /\ Free(q, held) /\ Shareable(q, c.shares) /\ Fits(c, held)
    /\ \/ c.op \in ops \cup {"none"}
       \/ /\ c = [call[q] EXCEPT !.need = c.need, !.shares = c.shares]
          /\ locks[q] \subseteq held
          /\ call[q].need \subseteq c.need \cup held \/ c.op \in Sharing

\* Guests and links are never deleted.
Stays == Present \subseteq Present' /\ Issued \subseteq Issued'

-----------------------------------------------------------------------------
(* The kinds of statements.                                                 *)

LEMMA IdleFits == \A held : Fits(Idle, held)
  BY DEF Fits, Idle, Call, Operations, WeddingOps, ImportOps

LEMMA TakeIsAStep ==
  ASSUME CallInv, NEW q \in Requests, NEW rows \in SUBSET Rows, NEW c, NEW ops,
         Take(q, rows, c), Fits(c, rows), c.op \in ops, c.shares = {}
  PROVE  CallStep(q, ops)
<1>1. c \in Call BY DEF Fits
<1>2. calls' \in 0..MaxCalls BY WeddingAssumption DEF CallInv, Take
<1>3. Shareable(q, c.shares) BY DEF Shareable
<1>4. QED BY <1>1, <1>2, <1>3 DEF Take, CallStep

LEMMA DecideIsAStep ==
  ASSUME CallInv, NEW q \in Requests, NEW c, NEW ops,
         Decide(q, c), Fits(c, locks[q]), c.op \in ops,
         c.shares = call[q].shares \/ Shareable(q, c.shares)
  PROVE  CallStep(q, ops)
<1>1. c \in Call BY DEF Fits
<1>2. /\ locks[q] \in SUBSET Rows
      /\ locks' = [locks EXCEPT ![q] = locks[q]] /\ calls' \in 0..MaxCalls
  BY DEF CallInv, Decide
<1>3. Free(q, locks[q]) /\ Shareable(q, c.shares) BY DEF CallInv, Free, Shareable
<1>4. QED BY <1>1, <1>2, <1>3 DEF Decide, CallStep

LEMMA DoneIsAStep ==
  ASSUME CallInv, NEW q \in Requests, NEW ops, Done(q)
  PROVE  CallStep(q, ops)
<1>1. Idle \in Call /\ Fits(Idle, {}) /\ Idle.op = "none" /\ Idle.shares = {}
  BY IdleFits DEF Fits, Idle
<1>2. calls' \in 0..MaxCalls BY DEF CallInv, Done
<1>3. Free(q, {}) /\ Shareable(q, {}) /\ {} \in SUBSET Rows BY DEF Free, Shareable
<1>4. QED BY <1>1, <1>2, <1>3 DEF Done, CallStep

LEMMA OnceIsAStep ==
  ASSUME CallInv, NEW q \in Requests, NEW ops, Once(q)
  PROVE  CallStep(q, ops)
<1>1. call[q] \in Call /\ Fits(call[q], locks[q]) /\ locks[q] \in SUBSET Rows
  BY DEF CallInv
<1>2. /\ call' = [call EXCEPT ![q] = call[q]] /\ locks' = [locks EXCEPT ![q] = locks[q]]
      /\ calls' \in 0..MaxCalls
  BY WeddingAssumption DEF CallInv, Once
<1>3. /\ Free(q, locks[q]) /\ Shareable(q, call[q].shares)
  BY DEF CallInv, Free, Shareable
<1>4. call[q].op = "none" BY DEF Once, Idle
<1>5. QED BY <1>1, <1>2, <1>3, <1>4 DEF CallStep

\* A statement that changes nothing a call knows or holds.
LEMMA SameIsAStep ==
  ASSUME CallInv, NEW q \in Requests, NEW ops, UNCHANGED callVars
  PROVE  CallStep(q, ops)
<1>1. call[q] \in Call /\ Fits(call[q], locks[q]) /\ locks[q] \in SUBSET Rows
  BY DEF CallInv
<1>2. /\ call' = [call EXCEPT ![q] = call[q]] /\ locks' = [locks EXCEPT ![q] = locks[q]]
      /\ calls' \in 0..MaxCalls
  BY DEF CallInv, callVars
<1>3. /\ Free(q, locks[q]) /\ Shareable(q, call[q].shares)
  BY DEF CallInv, Free, Shareable
<1>4. call[q] = [call[q] EXCEPT !.need = call[q].need, !.shares = call[q].shares]
  BY <1>1 DEF Call
<1>5. QED BY <1>1, <1>2, <1>3, <1>4 DEF CallStep

LEMMA LockIsAStep ==
  ASSUME CallInv, NEW q \in Requests, NEW ops, LockNext(q)
  PROVE  CallStep(q, ops)
<1>1. PICK row \in NextRows(call[q]) :
        /\ Free(q, {row})
        /\ locks' = [locks EXCEPT ![q] = @ \cup {row}]
        /\ call' = [call EXCEPT ![q].need = @ \ {row}]
        /\ UNCHANGED calls
  BY DEF LockNext
<1> DEFINE c == [call[q] EXCEPT !.need = @ \ {row}]
           held == locks[q] \cup {row}
<1>2. call[q] \in Call /\ Fits(call[q], locks[q]) /\ locks[q] \in SUBSET Rows
  BY DEF CallInv
<1>3. row \in Rows
  BY <1>1, <1>2 DEF NextRows, Call
<1>4. c \in Call /\ c = [call[q] EXCEPT !.need = c.need, !.shares = c.shares]
  BY <1>2 DEF Call
<1>5. /\ c.op = call[q].op /\ c.guests = call[q].guests
      /\ c.shares = call[q].shares /\ c.size = call[q].size
      /\ c.link = call[q].link /\ c.currency = call[q].currency
      /\ c.batch = call[q].batch
  BY <1>2 DEF Call
<1>6. Fits(c, held) BY <1>2, <1>4, <1>5 DEF Fits
<1>7. Free(q, held) /\ Shareable(q, c.shares) BY <1>1, <1>5 DEF CallInv, Free, Shareable
<1>8. call' = [call EXCEPT ![q] = c] BY <1>1 DEF CallInv
<1>9. calls' \in 0..MaxCalls BY <1>1 DEF CallInv
<1>10. locks' = [locks EXCEPT ![q] = held] BY <1>1
<1>11. held \in SUBSET Rows /\ locks[q] \subseteq held BY <1>2, <1>3
<1>12. call[q].need \subseteq c.need \cup held BY <1>2 DEF Call
<1> HIDE DEF c, held
<1>13. QED BY <1>4, <1>10, <1>11, <1>12, <1>6, <1>7, <1>8, <1>9 DEF CallStep

LEMMA ShareIsAStep ==
  ASSUME CallInv, NEW q \in Requests, NEW ops, ShareNext(q)
  PROVE  CallStep(q, ops)
<1>1. PICK row \in call[q].need :
        /\ call[q].op \in Sharing /\ Shareable(q, {row})
        /\ call' = [call EXCEPT ![q].need = @ \ {row}, ![q].shares = @ \cup {row}]
        /\ UNCHANGED <<locks, calls>>
  BY DEF ShareNext
<1> DEFINE need == call[q].need \ {row}
           shares == call[q].shares \cup {row}
           c == [call[q] EXCEPT !.need = need, !.shares = shares]
<1>2. call[q] \in Call /\ Fits(call[q], locks[q]) /\ locks[q] \in SUBSET Rows
  BY DEF CallInv
<1>3. need \in SUBSET Rows /\ shares \in SUBSET Rows BY <1>1, <1>2 DEF Call
<1>4. call' = [call EXCEPT ![q] = c] BY <1>1, <1>2 DEF CallInv, Call
<1>5. Shareable(q, shares) BY <1>1 DEF CallInv, Shareable
<1> HIDE DEF need, shares
<1>6. /\ c \in Call /\ c.need = need /\ c.shares = shares
      /\ c.op = call[q].op /\ c.guests = call[q].guests /\ c.size = call[q].size
      /\ c.link = call[q].link /\ c.currency = call[q].currency
      /\ c.batch = call[q].batch
  BY <1>2, <1>3 DEF Call
<1>7. c = [call[q] EXCEPT !.need = c.need, !.shares = c.shares] BY <1>6
<1> HIDE DEF c
<1>8. Fits(c, locks[q]) BY <1>2, <1>6 DEF Fits
<1>9. Free(q, locks[q]) BY DEF CallInv, Free
<1>10. calls' \in 0..MaxCalls /\ locks' = [locks EXCEPT ![q] = locks[q]]
  BY <1>1 DEF CallInv
<1>11. QED BY <1>1, <1>2, <1>4, <1>5, <1>6, <1>7, <1>8, <1>9, <1>10 DEF CallStep

\* Steps of one call leave the others what they rely on.
LEMMA CallsGoOn ==
  ASSUME CallInv, NEW q \in Requests, NEW ops, CallStep(q, ops), Stays
  PROVE  CallInv'
<1>1. PICK c \in Call, held \in SUBSET Rows :
        /\ call' = [call EXCEPT ![q] = c]
        /\ locks' = [locks EXCEPT ![q] = held]
        /\ calls' \in 0..MaxCalls
        /\ Free(q, held) /\ Shareable(q, c.shares) /\ Fits(c, held)
  BY DEF CallStep
<1>2. call' \in [Requests -> Call] /\ locks' \in [Requests -> SUBSET Rows]
  BY <1>1 DEF CallInv
<1>3. \A d, rows : Fits(d, rows) => Fits(d, rows)'
  BY DEF Stays, Fits
<1>4. ASSUME NEW p \in Requests PROVE Fits(call[p], locks[p])'
  <2>1. CASE p = q
    <3>1. call'[p] = c /\ locks'[p] = held BY <1>1, <2>1 DEF CallInv
    <3>2. QED BY <1>1, <1>3, <3>1
  <2>2. CASE p # q
    <3>1. call'[p] = call[p] /\ locks'[p] = locks[p] BY <1>1, <2>2 DEF CallInv
    <3>2. QED BY <1>3, <3>1 DEF CallInv
  <2>3. QED BY <2>1, <2>2
<1>5. ASSUME NEW p1 \in Requests, NEW p2 \in Requests, p1 # p2
      PROVE  locks'[p1] \cap (locks'[p2] \cup call'[p2].shares) = {}
  BY <1>1, <1>5 DEF CallInv, Free, Shareable
<1>6. QED BY <1>1, <1>2, <1>4, <1>5 DEF CallInv

-----------------------------------------------------------------------------
(* The greatest of finitely many numbers, which a new side's place follows.  *)

LEMMA GreatestExists ==
  ASSUME NEW S, IsFiniteSet(S), S # {}, NEW f \in [S -> Int]
  PROVE  \E m \in S : \A x \in S : f[x] <= f[m]
<1> DEFINE Has(A) == \E m \in A : \A x \in A : f[x] <= f[m]
           T == {A \in SUBSET S : A # {} /\ ~Has(A)}
<1>1. SUFFICES ASSUME ~Has(S) PROVE FALSE
  OBVIOUS
<1>2. S \in T BY <1>1
<1>3. IsWellFoundedOn(StrictSubsetOrdering(S), SUBSET S)
  BY FS_StrictSubsetOrderingWellFounded, FS_FiniteSubsetsOfFinite
<1>4. T \subseteq SUBSET S /\ T # {} BY <1>2
<1> HIDE DEF T
<1>5. PICK A \in T : \A B \in T : ~(<<B, A>> \in StrictSubsetOrdering(S))
  BY ONLY <1>3, <1>4, WFMin
<1> USE DEF T
<1>6. PICK a \in A : TRUE OBVIOUS
<1>7. CASE A \ {a} = {}
  <2>1. A = {a} BY <1>6, <1>7
  <2>2. f[a] <= f[a] BY <1>6
  <2>3. QED BY <1>6, <2>1, <2>2
<1>8. CASE A \ {a} # {}
  <2>1. A \ {a} \notin T BY <1>5, <1>6 DEF StrictSubsetOrdering
  <2>2. Has(A \ {a}) BY <1>8, <2>1
  <2>3. PICK m \in A \ {a} : \A x \in A \ {a} : f[x] <= f[m] BY <2>2
  <2>4. \A x \in A : f[x] \in Int OBVIOUS
  <2>5. CASE f[a] <= f[m]
    <3>1. \A x \in A : f[x] <= f[m] BY <2>3, <2>5
    <3>2. QED BY <3>1, <2>3
  <2>6. CASE f[m] <= f[a]
    <3>1. ASSUME NEW x \in A PROVE f[x] <= f[a]
      <4>1. CASE x = a BY <4>1, <2>4
      <4>2. CASE x # a BY <4>2, <2>3, <2>4, <2>6
      <4>3. QED BY <4>1, <4>2
    <3>2. QED BY <3>1, <1>6
  <2>7. QED BY <2>4, <2>5, <2>6, <2>3, <1>6
<1>9. QED BY <1>7, <1>8

\* A new side goes behind every side there is.
LEMMA NextPositionIsLast ==
  ASSUME aff \in [Affiliations -> Nat \cup {-1}]
  PROVE  NextPosition \in Nat /\ \A a \in Affiliations : aff[a] < NextPosition
<1> DEFINE V == {-1} \cup {aff[a] : a \in Affiliations}
           Top(n) == \A a \in Affiliations : aff[a] <= n
<1>1. V \subseteq Int /\ (\A n \in V : n >= -1) OBVIOUS
<1>2. \E n \in V : Top(n)
  <2>1. CASE Affiliations = {} BY <2>1
  <2>2. CASE Affiliations # {}
    <3>1. \E m \in Affiliations : \A x \in Affiliations : aff[x] <= aff[m]
      BY <2>2, GreatestExists, WeddingAssumption, aff \in [Affiliations -> Int]
    <3>2. QED BY <3>1
  <2>3. QED BY <2>1, <2>2
<1> DEFINE n == CHOOSE k \in V : Top(k)
<1>3. n \in V /\ Top(n) BY <1>2
<1>4. NextPosition = 1 + n BY DEF NextPosition
<1> HIDE DEF n
<1>5. \A a \in Affiliations : aff[a] \in Int OBVIOUS
<1>6. n \in Int /\ n >= -1 BY <1>1, <1>3
<1>7. QED BY <1>3, <1>4, <1>5, <1>6

-----------------------------------------------------------------------------
(* The rows of guests, links and seats.                                     *)

\* A link is the link of a guest who is there.
GuestsLinked == \A l \in Issued : link[l].guest \in Present

RowsTyped ==
  /\ guest \in [Guests -> Guest \cup {None}]
  /\ aff \in [Affiliations -> Nat \cup {-1}]
  /\ link \in [Links -> Link \cup {None}]
  /\ rsvp \in [Guests -> Reply \cup {None}]
  /\ table \in [Tables -> 0..MaxCapacity]
  /\ seat \in [Guests -> Tables \cup {None}]
  /\ GuestsLinked

RowsGoOn == RowsTyped' /\ Stays

LEMMA RowsStay ==
  ASSUME RowsTyped, UNCHANGED <<guestVars, linkVars, seatVars>>
  PROVE  RowsGoOn
BY DEF RowsTyped, GuestsLinked, RowsGoOn, Stays, Present, Issued, guestVars, linkVars, seatVars

\* Guests who are there stay there when their rows are written.
LEMMA GuestsWritten ==
  ASSUME RowsTyped, guest' \in [Guests -> Guest \cup {None}],
         \A g \in Present : guest'[g] \in Guest,
         UNCHANGED <<aff, linkVars, seatVars>>
  PROVE  RowsGoOn
BY NoRowAssumption DEF RowsTyped, GuestsLinked, RowsGoOn, Stays, Present, Issued, linkVars, seatVars

LEMMA SidesWritten ==
  ASSUME RowsTyped, aff' \in [Affiliations -> Nat \cup {-1}],
         UNCHANGED <<guest, linkVars, seatVars>>
  PROVE  RowsGoOn
BY DEF RowsTyped, GuestsLinked, RowsGoOn, Stays, Present, Issued, linkVars, seatVars

LEMMA LinksWritten ==
  ASSUME RowsTyped, link' \in [Links -> Link \cup {None}],
         \A l \in Issued : link'[l] \in Link,
         \A l \in Links : link'[l] # None => link'[l].guest \in Present,
         UNCHANGED <<guestVars, rsvp, seatVars>>
  PROVE  RowsGoOn
BY NoRowAssumption
DEF RowsTyped, GuestsLinked, RowsGoOn, Stays, Present, Issued, guestVars, seatVars

LEMMA CapacityWritten ==
  ASSUME RowsTyped, NEW t, NEW size \in 0..MaxCapacity, table' = [table EXCEPT ![t] = size]
  PROVE  table' \in [Tables -> 0..MaxCapacity]
<1> DEFINE S == 0..MaxCapacity
<1>1. table \in [Tables -> S] BY DEF RowsTyped
<1> HIDE DEF S
<1>2. table' \in [Tables -> S] BY <1>1 DEF S
<1>3. QED BY <1>2 DEF S

LEMMA SeatsWritten ==
  ASSUME RowsTyped, table' \in [Tables -> 0..MaxCapacity],
         seat' \in [Guests -> Tables \cup {None}],
         UNCHANGED <<guestVars, linkVars>>
  PROVE  RowsGoOn
BY DEF RowsTyped, GuestsLinked, RowsGoOn, Stays, Present, Issued, guestVars, linkVars

-----------------------------------------------------------------------------
(* Calls that change sides.                                                 *)

LEMMA SideCalls ==
  ASSUME CallInv, RowsTyped, NEW q \in Requests, SideRoutes(q)
  PROVE  CallStep(q, GuestOps) /\ RowsGoOn
<1>1. call[q] \in Call /\ Fits(call[q], locks[q]) BY DEF CallInv
<1>2. CASE BeginAddSide(q)
  <2> DEFINE c == [Idle EXCEPT !.op = "addSide"]
  <2>1. Fits(c, {Wedding}) /\ c.op \in GuestOps /\ c.shares = {}
    BY DEF Fits, Idle, Call, Operations, WeddingOps, ImportOps, GuestOps
  <2>2. {Wedding} \in SUBSET Rows BY DEF Rows
  <2>3. Take(q, {Wedding}, c) BY <1>2 DEF BeginAddSide
  <2>4. RowsGoOn BY <1>2, RowsStay DEF BeginAddSide
  <2> HIDE DEF c
  <2>5. QED BY <2>1, <2>2, <2>3, <2>4, TakeIsAStep
<1>3. CASE PlaceSide(q)
  <2> DEFINE c == [call[q] EXCEPT !.op = "newSide", !.size = NextPosition]
  <2>1. call[q].op = "addSide" BY <1>3 DEF PlaceSide, Running
  <2>2. NextPosition \in Nat BY NextPositionIsLast DEF RowsTyped
  <2>3. /\ c \in Call /\ c.op = "newSide" /\ c.guests = call[q].guests
        /\ c.shares = call[q].shares
    <3>1. "newSide" \in Operations BY DEF Operations
    <3>2. c = [call[q] EXCEPT !.op = "newSide", !.size = NextPosition] OBVIOUS
    <3> HIDE DEF c
    <3>3. c \in Call BY <1>1, <2>2, <3>1, <3>2 DEF Call
    <3>4. /\ c.op = "newSide" /\ c.guests = call[q].guests
          /\ c.shares = call[q].shares
      BY <1>1, <3>2 DEF Call
    <3>5. QED BY <3>3, <3>4
  <2>4. Decide(q, c) BY <1>3 DEF PlaceSide
  <2>5. RowsGoOn BY <1>3, RowsStay DEF PlaceSide
  <2> HIDE DEF c
  <2>6. Fits(c, locks[q]) /\ c.op \in GuestOps
    BY <1>1, <2>1, <2>3 DEF Fits, WeddingOps, ImportOps, GuestOps
  <2>7. QED BY <2>3, <2>4, <2>5, <2>6, DecideIsAStep
<1>4. CASE AddSide(q)
  <2>1. CallStep(q, GuestOps) BY <1>4, DoneIsAStep DEF AddSide
  <2>2. call[q].size \in Nat BY <1>1 DEF Call
  <2>3. aff' \in [Affiliations -> Nat \cup {-1}] BY <1>4, <2>2 DEF AddSide, RowsTyped
  <2>4. RowsGoOn BY <1>4, <2>3, SidesWritten DEF AddSide
  <2>5. QED BY <2>1, <2>4
<1>5. CASE BeginOrderSides(q)
  <2> DEFINE c == [Idle EXCEPT !.op = "orderSides", !.need = Sides]
  <2>0. Sides \in SUBSET Rows BY DEF Sides, Rows
  <2>1. Fits(c, {Wedding}) /\ c.op \in GuestOps /\ c.shares = {}
    BY <2>0 DEF Fits, Idle, Call, Operations, WeddingOps, ImportOps, GuestOps
  <2>2. {Wedding} \in SUBSET Rows BY DEF Rows
  <2>3. Take(q, {Wedding}, c) BY <1>5 DEF BeginOrderSides
  <2>4. RowsGoOn BY <1>5, RowsStay DEF BeginOrderSides
  <2> HIDE DEF c
  <2>5. QED BY <2>1, <2>2, <2>3, <2>4, TakeIsAStep
<1>6. CASE OrderSides(q)
  <2>1. CallStep(q, GuestOps) BY <1>6, DoneIsAStep DEF OrderSides
  <2>2. aff' \in Orders BY <1>6 DEF OrderSides, Reordered
  <2>3. aff' \in [Affiliations -> Nat \cup {-1}]
    <3>1. aff' \in [Affiliations -> -1..(Cardinality(Affiliations) - 1)]
      BY <2>2 DEF Orders
    <3>2. Cardinality(Affiliations) \in Nat BY WeddingAssumption, FS_CardinalityType
    <3>3. -1..(Cardinality(Affiliations) - 1) \subseteq Nat \cup {-1} BY <3>2
    <3>4. QED BY <3>1, <3>3
  <2>4. RowsGoOn BY <1>6, <2>3, SidesWritten DEF OrderSides
  <2>5. QED BY <2>1, <2>4
<1>7. CASE BeginDropSide(q)
  <2>1. PICK a \in Sides :
          Take(q, {Wedding}, [Idle EXCEPT !.op = "dropSide", !.aff = a, !.need = {a}])
    BY <1>7 DEF BeginDropSide
  <2> DEFINE c == [Idle EXCEPT !.op = "dropSide", !.aff = a, !.need = {a}]
  <2>2. a \in Affiliations /\ {a} \in SUBSET Rows /\ {Wedding} \in SUBSET Rows
    BY DEF Sides, Rows
  <2>3. Fits(c, {Wedding}) /\ c.op \in GuestOps /\ c.shares = {}
    BY <2>2 DEF Fits, Idle, Call, Operations, WeddingOps, ImportOps, GuestOps
  <2>4. RowsGoOn BY <1>7, RowsStay DEF BeginDropSide
  <2>5. Take(q, {Wedding}, c) BY <2>1
  <2> HIDE DEF c
  <2>6. QED BY <2>2, <2>3, <2>4, <2>5, TakeIsAStep
<1>10. CASE FindMembers(q)
  <2> DEFINE need == Members(call[q].aff)
             c == [call[q] EXCEPT !.op = "emptySide", !.need = need]
  <2>1. call[q].op = "dropSide" BY <1>10 DEF FindMembers, Running
  <2>2. need \in SUBSET Rows BY DEF Members, Present, Rows
  <2>3. Decide(q, c) BY <1>10 DEF FindMembers
  <2>4. RowsGoOn BY <1>10, RowsStay DEF FindMembers
  <2> HIDE DEF need
  <2>5. /\ c \in Call /\ c.op = "emptySide" /\ c.guests = call[q].guests
        /\ c.shares = call[q].shares
    <3>1. "emptySide" \in Operations BY DEF Operations
    <3>2. QED BY <1>1, <2>2, <3>1 DEF Call
  <2> HIDE DEF c
  <2>6. Fits(c, locks[q]) /\ c.op \in GuestOps
    BY <1>1, <2>1, <2>5 DEF Fits, WeddingOps, ImportOps, GuestOps
  <2>7. QED BY <2>3, <2>4, <2>5, <2>6, DecideIsAStep
<1>8. CASE DropSide(q)
  <2>1. CallStep(q, GuestOps) BY <1>8, DoneIsAStep DEF DropSide
  <2>2. aff' \in [Affiliations -> Nat \cup {-1}] BY <1>8 DEF DropSide, RowsTyped
  <2>3. /\ guest' \in [Guests -> Guest \cup {None}]
        /\ \A g \in Present : guest'[g] \in Guest
    BY <1>8 DEF DropSide, Unassigned, Members, Present, RowsTyped, Guest
  <2>4. RowsGoOn
    BY <1>8, <2>2, <2>3, NoRowAssumption
    DEF DropSide, RowsTyped, GuestsLinked, RowsGoOn, Stays, Present, Issued, linkVars, seatVars
  <2>5. QED BY <2>1, <2>4
<1>11. QED BY <1>2, <1>3, <1>4, <1>5, <1>6, <1>7, <1>8, <1>10 DEF SideRoutes

-----------------------------------------------------------------------------
(* Calls that change guests.                                                *)

LEMMA NewGuestCalls ==
  ASSUME CallInv, RowsTyped, NEW q \in Requests,
         BeginAddGuest(q) \/ AddGuest(q) \/ BeginSetSide(q) \/ SetSide(q)
  PROVE  CallStep(q, GuestOps) /\ RowsGoOn
<1>1. call[q] \in Call /\ Fits(call[q], locks[q]) BY DEF CallInv
<1>2. CASE BeginAddGuest(q)
  <2>1. RowsGoOn BY <1>2, RowsStay DEF BeginAddGuest
  <2>2. CASE Take(q, {}, [Idle EXCEPT !.op = "newGuest", !.need = {Wedding}])
    <3> DEFINE c == [Idle EXCEPT !.op = "newGuest", !.need = {Wedding}]
    <3>1. {Wedding} \in SUBSET Rows /\ {} \in SUBSET Rows BY DEF Rows
    <3>2. Fits(c, {}) /\ c.op \in GuestOps /\ c.shares = {}
      BY <3>1 DEF Fits, Idle, Call, Operations, WeddingOps, ImportOps, GuestOps
    <3>3. Take(q, {}, c) BY <2>2
    <3> HIDE DEF c
    <3>4. QED BY <2>1, <3>1, <3>2, <3>3, TakeIsAStep
  <2>3. ASSUME NEW a \in Sides,
               Take(q, {Wedding}, [Idle EXCEPT !.op = "addGuest", !.aff = a, !.need = {a}])
        PROVE  CallStep(q, GuestOps)
    <3> DEFINE c == [Idle EXCEPT !.op = "addGuest", !.aff = a, !.need = {a}]
    <3>1. a \in Affiliations /\ {a} \in SUBSET Rows /\ {Wedding} \in SUBSET Rows
      BY DEF Sides, Rows
    <3>2. Fits(c, {Wedding}) /\ c.op \in GuestOps /\ c.shares = {}
      BY <3>1 DEF Fits, Idle, Call, Operations, WeddingOps, ImportOps, GuestOps
    <3>3. Take(q, {Wedding}, c) BY <2>3
    <3> HIDE DEF c
    <3>4. QED BY <3>1, <3>2, <3>3, TakeIsAStep
  <2>4. QED BY <1>2, <2>1, <2>2, <2>3 DEF BeginAddGuest
<1>3. CASE AddGuest(q)
  <2>1. CallStep(q, GuestOps) BY <1>3, DoneIsAStep DEF AddGuest
  <2>2. PICK g \in Guests \ Present, size \in Parties :
          guest' = [guest EXCEPT ![g] = NewGuest(size, call[q].aff)]
    BY <1>3 DEF AddGuest
  <2>3. NewGuest(size, call[q].aff) \in Guest
    BY <1>1 DEF Call, NewGuest, Guest, Parties
  <2>4. guest' \in [Guests -> Guest \cup {None}] /\ \A h \in Present : guest'[h] \in Guest
    BY <2>2, <2>3 DEF RowsTyped, Present
  <2>5. RowsGoOn BY <1>3, <2>4, GuestsWritten DEF AddGuest
  <2>6. QED BY <2>1, <2>5
<1>4. CASE BeginSetSide(q)
  <2>1. PICK g \in Present, a \in Sides \cup {None} :
          Take(q, {Wedding}, [Idle EXCEPT !.op = "setSide", !.guests = {g}, !.aff = a,
                                          !.need = {g} \cup ({a} \ {None})])
    BY <1>4 DEF BeginSetSide
  <2> DEFINE need == {g} \cup ({a} \ {None})
             c == [Idle EXCEPT !.op = "setSide", !.guests = {g}, !.aff = a, !.need = need]
  <2>2. /\ a \in Affiliations \cup {None} /\ g \in Guests
        /\ need \in SUBSET Rows /\ {Wedding} \in SUBSET Rows
    BY DEF Sides, Present, Rows
  <2>3. Take(q, {Wedding}, c) BY <2>1
  <2> HIDE DEF need
  <2>4. Fits(c, {Wedding}) /\ c.op \in GuestOps /\ c.shares = {}
    BY <2>2 DEF Fits, Idle, Call, Operations, WeddingOps, ImportOps, GuestOps
  <2>5. RowsGoOn BY <1>4, RowsStay DEF BeginSetSide
  <2> HIDE DEF c
  <2>6. QED BY <2>2, <2>3, <2>4, <2>5, TakeIsAStep
<1>5. CASE SetSide(q)
  <2>1. CallStep(q, GuestOps) BY <1>5, DoneIsAStep DEF SetSide
  <2>2. call[q].guests \subseteq Present /\ call[q].aff \in Affiliations \cup {None}
    BY <1>1 DEF Fits, Call
  <2>3. guest' \in [Guests -> Guest \cup {None}] /\ \A h \in Present : guest'[h] \in Guest
    BY <1>5, <2>2 DEF SetSide, RowsTyped, Present, Guest
  <2>4. RowsGoOn BY <1>5, <2>3, GuestsWritten DEF SetSide
  <2>5. QED BY <2>1, <2>4
<1>6. QED BY <1>2, <1>3, <1>4, <1>5

LEMMA PatchTyped ==
  ASSUME RowsTyped, NEW g \in Present, NEW size \in Parties,
         NEW a \in Affiliations \cup {None}, PatchedGuest(g, size, a),
         UNCHANGED <<aff, linkVars, seatVars>>
  PROVE  RowsGoOn
<1>1. guest[g] \in Guest BY DEF RowsTyped, Present
<1>2. guest' = [guest EXCEPT ![g] = [guest[g] EXCEPT !.party = size, !.aff = a]]
  BY <1>1 DEF PatchedGuest, RowsTyped, Guest
<1>3. [guest[g] EXCEPT !.party = size, !.aff = a] \in Guest
  BY <1>1 DEF Guest, Parties
<1>4. guest' \in [Guests -> Guest \cup {None}] /\ \A h \in Present : guest'[h] \in Guest
  BY <1>2, <1>3 DEF RowsTyped, Present
<1>5. QED BY <1>4, GuestsWritten

\* The call that a patch is from its update on.
LEMMA PatchFits ==
  ASSUME NEW g \in Present, NEW size \in Parties, NEW a \in SidesFor(g), RowsTyped,
         NEW held \in SUBSET Rows
  PROVE  /\ Fits(Patch(g, size, a), held) /\ Patch(g, size, a).op \in GuestOps
         /\ Patch(g, size, a).shares = {}
<1> DEFINE need == NewSide(g, a)
           c == [Idle EXCEPT !.op = "patch", !.guests = {g}, !.size = size,
                             !.aff = a, !.need = need]
<1>1. Patch(g, size, a) = c BY DEF Patch
<1>2. guest[g] \in Guest /\ g \in Guests BY DEF RowsTyped, Present
<1>3. a \in Affiliations \cup {None} BY <1>2 DEF SidesFor, Sides, Guest
<1>4. need \in SUBSET Rows BY <1>3 DEF NewSide, Rows
<1>5. size \in Nat BY WeddingAssumption DEF Parties
<1> HIDE DEF need
<1>6. Fits(c, held) /\ c.op \in GuestOps /\ c.shares = {}
  BY <1>2, <1>3, <1>4, <1>5
  DEF Fits, Idle, Call, Operations, WeddingOps, ImportOps, GuestOps
<1> HIDE DEF c
<1>7. QED BY <1>1, <1>6

LEMMA PatchCalls ==
  ASSUME CallInv, RowsTyped, NEW q \in Requests,
         \/ BeginUpdateGuest(q) \/ BeginResizeParty(q) \/ CheckSeat(q) \/ ResizeParty(q)
         \/ UpdateGuest(q)
  PROVE  CallStep(q, GuestOps) /\ RowsGoOn
<1>1. call[q] \in Call /\ Fits(call[q], locks[q]) BY DEF CallInv
<1>2. CASE BeginUpdateGuest(q)
  <2>1. PICK g \in Present : \E a \in SidesFor(g) : Take(q, {g}, Patch(g, guest[g].party, a))
    BY <1>2 DEF BeginUpdateGuest
  <2>2. PICK a \in SidesFor(g) : Take(q, {g}, Patch(g, guest[g].party, a)) BY <2>1
  <2>3. guest[g].party \in Parties BY DEF RowsTyped, Present, Guest, Parties
  <2>4. {g} \in SUBSET Rows BY DEF Present, Rows
  <2>5. RowsGoOn BY <1>2, RowsStay DEF BeginUpdateGuest
  <2>6. QED BY <2>2, <2>3, <2>4, <2>5, PatchFits, TakeIsAStep
<1>3. CASE BeginResizeParty(q)
  <2>1. PICK g \in Present : Take(q, {g}, [Idle EXCEPT !.op = "update", !.guests = {g}])
    BY <1>3 DEF BeginResizeParty
  <2> DEFINE c == [Idle EXCEPT !.op = "update", !.guests = {g}]
  <2>2. g \in Guests /\ {g} \in SUBSET Rows BY DEF Present, Rows
  <2>3. Fits(c, {g}) /\ c.op \in GuestOps /\ c.shares = {}
    BY <2>2 DEF Fits, Idle, Call, Operations, WeddingOps, ImportOps, GuestOps
  <2>4. Take(q, {g}, c) BY <2>1
  <2>5. RowsGoOn BY <1>3, RowsStay DEF BeginResizeParty
  <2> HIDE DEF c
  <2>6. QED BY <2>2, <2>3, <2>4, <2>5, TakeIsAStep
<1>4. CASE CheckSeat(q)
  <2>1. PICK size \in Parties : Decide(q, [call[q] EXCEPT !.op = "checked", !.size = size])
    BY <1>4 DEF CheckSeat
  <2> DEFINE c == [call[q] EXCEPT !.op = "checked", !.size = size]
  <2>2. size \in Nat BY WeddingAssumption DEF Parties
  <2>3. /\ c \in Call /\ c.op = "checked" /\ c.size = size
        /\ c.guests = call[q].guests /\ c.shares = call[q].shares
    <3>1. "checked" \in Operations BY DEF Operations
    <3>2. c = [call[q] EXCEPT !.op = "checked", !.size = size] OBVIOUS
    <3> HIDE DEF c
    <3>3. c \in Call BY <1>1, <2>2, <3>1, <3>2 DEF Call
    <3>4. /\ c.op = "checked" /\ c.size = size /\ c.guests = call[q].guests
          /\ c.shares = call[q].shares
      BY <1>1, <3>2 DEF Call
    <3>5. QED BY <3>3, <3>4
  <2>4. Decide(q, c) BY <2>1
  <2>5. RowsGoOn BY <1>4, RowsStay DEF CheckSeat
  <2> HIDE DEF c
  <2>6. Fits(c, locks[q]) /\ c.op \in GuestOps
    BY <1>1, <2>3 DEF Fits, WeddingOps, ImportOps, GuestOps
  <2>7. QED BY <2>3, <2>4, <2>5, <2>6, DecideIsAStep
<1>5. CASE ResizeParty(q)
  <2>1. PICK g \in call[q].guests : \E a \in SidesFor(g) : Decide(q, Patch(g, call[q].size, a))
    BY <1>5 DEF ResizeParty
  <2>2. PICK a \in SidesFor(g) : Decide(q, Patch(g, call[q].size, a)) BY <2>1
  <2>3. g \in Present /\ call[q].size \in Parties /\ locks[q] \in SUBSET Rows
    BY <1>1, <1>5 DEF Fits, ResizeParty, Running, CallInv
  <2> DEFINE c == Patch(g, call[q].size, a)
  <2>4. Fits(c, locks[q]) /\ c.op \in GuestOps /\ c.shares = {} BY <2>3, PatchFits
  <2>5. Decide(q, c) BY <2>2
  <2> HIDE DEF c
  <2>6. Shareable(q, c.shares) BY <2>4 DEF Shareable
  <2>7. RowsGoOn BY <1>5, RowsStay DEF ResizeParty
  <2>8. QED BY <2>4, <2>5, <2>6, <2>7, DecideIsAStep
<1>6. CASE UpdateGuest(q)
  <2>1. CallStep(q, GuestOps) BY <1>6, DoneIsAStep DEF UpdateGuest
  <2>2. PICK g \in call[q].guests : PatchedGuest(g, call[q].size, call[q].aff)
    BY <1>6 DEF UpdateGuest
  <2>3. g \in Present /\ call[q].size \in Parties /\ call[q].aff \in Affiliations \cup {None}
    BY <1>1, <1>6 DEF Fits, UpdateGuest, Running, Call
  <2>4. UNCHANGED <<aff, linkVars, seatVars>> BY <1>6 DEF UpdateGuest
  <2>5. QED BY <2>1, <2>2, <2>3, <2>4, PatchTyped
<1>7. QED BY <1>2, <1>3, <1>4, <1>5, <1>6

LEMMA ArchiveCalls ==
  ASSUME CallInv, RowsTyped, NEW q \in Requests,
         BeginArchive(q) \/ BeginBulkArchive(q) \/ Archive(q) \/ Restore(q)
  PROVE  CallStep(q, GuestOps) /\ RowsGoOn
<1>1. call[q] \in Call /\ Fits(call[q], locks[q]) BY DEF CallInv
<1>2. CASE BeginArchive(q)
  <2>1. PICK g \in Present : Take(q, {g}, [Idle EXCEPT !.op = "archive", !.guests = {g}])
    BY <1>2 DEF BeginArchive
  <2> DEFINE c == [Idle EXCEPT !.op = "archive", !.guests = {g}]
  <2>2. g \in Guests /\ {g} \in SUBSET Rows BY DEF Present, Rows
  <2>3. Fits(c, {g}) /\ c.op \in GuestOps /\ c.shares = {}
    BY <2>2 DEF Fits, Idle, Call, Operations, WeddingOps, ImportOps, GuestOps
  <2>4. Take(q, {g}, c) BY <2>1
  <2>5. RowsGoOn BY <1>2, RowsStay DEF BeginArchive
  <2> HIDE DEF c
  <2>6. QED BY <2>2, <2>3, <2>4, <2>5, TakeIsAStep
<1>3. CASE BeginBulkArchive(q)
  <2>1. PICK gs \in SUBSET Present :
          Take(q, {}, [Idle EXCEPT !.op = "bulkArchive", !.guests = gs, !.need = gs])
    BY <1>3 DEF BeginBulkArchive
  <2> DEFINE c == [Idle EXCEPT !.op = "bulkArchive", !.guests = gs, !.need = gs]
  <2>2. gs \in SUBSET Guests /\ gs \in SUBSET Rows /\ {} \in SUBSET Rows
    BY DEF Present, Rows
  <2>3. Fits(c, {}) /\ c.op \in GuestOps /\ c.shares = {}
    BY <2>2 DEF Fits, Idle, Call, Operations, WeddingOps, ImportOps, GuestOps
  <2>4. Take(q, {}, c) BY <2>1
  <2>5. RowsGoOn BY <1>3, RowsStay DEF BeginBulkArchive
  <2> HIDE DEF c
  <2>6. QED BY <2>2, <2>3, <2>4, <2>5, TakeIsAStep
<1>4. CASE Archive(q)
  <2>1. CallStep(q, GuestOps) BY <1>4, DoneIsAStep DEF Archive
  <2>2. call[q].guests \subseteq Present BY <1>1 DEF Fits
  <2>3. guest' \in [Guests -> Guest \cup {None}] /\ \A h \in Present : guest'[h] \in Guest
    <3>1. guest' = [g \in Guests |-> IF g \in call[q].guests
                                    THEN [guest[g] EXCEPT !.archived = TRUE] ELSE guest[g]]
      BY <1>4 DEF Archive, Archived
    <3>2. \A g \in Present : guest[g] \in Guest BY DEF RowsTyped, Present
    <3>3. \A g \in Present : [guest[g] EXCEPT !.archived = TRUE] \in Guest
      BY <3>2 DEF Guest
    <3>4. ASSUME NEW g \in Guests PROVE guest'[g] \in Guest \cup {None}
      BY <2>2, <3>1, <3>3 DEF RowsTyped
    <3>5. ASSUME NEW h \in Present PROVE guest'[h] \in Guest
      BY <3>1, <3>2, <3>3 DEF Present
    <3>6. QED BY <3>1, <3>4, <3>5
  <2>4. link' \in [Links -> Link \cup {None}] /\ \A l \in Issued : link'[l] \in Link
    BY <1>4 DEF Archive, Revoked, RowsTyped, Issued, Link
  <2>5. \A l \in Links : link'[l] # None => link'[l].guest \in Present
    BY <1>4 DEF Archive, Revoked, RowsTyped, GuestsLinked, Issued, Link
  <2>6. RowsGoOn
    BY <1>4, <2>3, <2>4, <2>5, NoRowAssumption
    DEF Archive, RowsTyped, GuestsLinked, RowsGoOn, Stays, Present, Issued, seatVars
  <2>7. QED BY <2>1, <2>6
<1>5. CASE Restore(q)
  <2>1. CallStep(q, GuestOps) BY <1>5, OnceIsAStep DEF Restore
  <2>2. PICK g \in Present : guest' = [guest EXCEPT ![g].archived = FALSE]
    BY <1>5 DEF Restore
  <2>3. guest' \in [Guests -> Guest \cup {None}] /\ \A h \in Present : guest'[h] \in Guest
    BY <2>2 DEF RowsTyped, Present, Guest
  <2>4. RowsGoOn BY <1>5, <2>3, GuestsWritten DEF Restore
  <2>5. QED BY <2>1, <2>4
<1>6. QED BY <1>2, <1>3, <1>4, <1>5

LEMMA BulkSideCalls ==
  ASSUME CallInv, RowsTyped, NEW q \in Requests, BeginBulkSide(q) \/ BulkSide(q)
  PROVE  CallStep(q, GuestOps) /\ RowsGoOn
<1>1. call[q] \in Call /\ Fits(call[q], locks[q]) BY DEF CallInv
<1>2. CASE BeginBulkSide(q)
  <2>1. PICK gs \in SUBSET Present, a \in Sides \cup {None} :
          Take(q, {}, [Idle EXCEPT !.op = "bulkSide", !.guests = gs, !.aff = a,
                                   !.need = gs \cup ({a} \ {None})])
    BY <1>2 DEF BeginBulkSide
  <2> DEFINE c == [Idle EXCEPT !.op = "bulkSide", !.guests = gs, !.aff = a,
                               !.need = gs \cup ({a} \ {None})]
  <2>2. /\ a \in Affiliations \cup {None} /\ gs \in SUBSET Guests
        /\ gs \cup ({a} \ {None}) \in SUBSET Rows /\ {} \in SUBSET Rows
    BY DEF Sides, Present, Rows
  <2>3. Fits(c, {}) /\ c.op \in GuestOps /\ c.shares = {}
    BY <2>2 DEF Fits, Idle, Call, Operations, WeddingOps, ImportOps, GuestOps
  <2>4. Take(q, {}, c) BY <2>1
  <2>5. RowsGoOn BY <1>2, RowsStay DEF BeginBulkSide
  <2> HIDE DEF c
  <2>6. QED BY <2>2, <2>3, <2>4, <2>5, TakeIsAStep
<1>3. CASE BulkSide(q)
  <2>1. CallStep(q, GuestOps) BY <1>3, DoneIsAStep DEF BulkSide
  <2>2. call[q].guests \subseteq Present /\ call[q].aff \in Affiliations \cup {None}
    BY <1>1 DEF Fits, Call
  <2>3. guest' \in [Guests -> Guest \cup {None}] /\ \A h \in Present : guest'[h] \in Guest
    BY <1>3, <2>2 DEF BulkSide, RowsTyped, Present, Guest
  <2>4. RowsGoOn BY <1>3, <2>3, GuestsWritten DEF BulkSide
  <2>5. QED BY <2>1, <2>4
<1>4. QED BY <1>2, <1>3

LEMMA GuestCallsTyped ==
  ASSUME CallInv, RowsTyped, NEW q \in Requests, GuestStep(q)
  PROVE  CallStep(q, GuestOps) /\ RowsGoOn
BY SideCalls, NewGuestCalls, PatchCalls, ArchiveCalls, BulkSideCalls DEF GuestStep, GuestRoutes

-----------------------------------------------------------------------------
(* Calls that change links and replies.                                     *)

LEMMA LinkCallsTyped ==
  ASSUME CallInv, RowsTyped, NEW q \in Requests, LinkStep(q)
  PROVE  CallStep(q, LinkOps) /\ RowsGoOn
<1>1. call[q] \in Call /\ Fits(call[q], locks[q]) BY DEF CallInv
<1>2. CASE BeginInvite(q)
  <2>1. PICK g \in Present : Take(q, {g}, [Idle EXCEPT !.op = "invite", !.guests = {g}])
    BY <1>2 DEF BeginInvite
  <2> DEFINE c == [Idle EXCEPT !.op = "invite", !.guests = {g}]
  <2>2. g \in Guests /\ {g} \in SUBSET Rows BY DEF Present, Rows
  <2>3. Fits(c, {g}) /\ c.op \in LinkOps /\ c.shares = {}
    BY <2>2 DEF Fits, Idle, Call, Operations, WeddingOps, ImportOps, LinkOps
  <2>4. Take(q, {g}, c) BY <2>1
  <2>5. RowsGoOn BY <1>2, RowsStay DEF BeginInvite
  <2> HIDE DEF c
  <2>6. QED BY <2>2, <2>3, <2>4, <2>5, TakeIsAStep
<1>3. CASE Invite(q)
  <2>1. CallStep(q, LinkOps) BY <1>3, DoneIsAStep DEF Invite
  <2>2. PICK g \in call[q].guests, l \in Unused : NewLink(l, g) BY <1>3 DEF Invite
  <2>3. g \in Present /\ g \in Guests BY <1>1 DEF Fits, Call
  <2>4. link' \in [Links -> Link \cup {None}] /\ \A k \in Issued : link'[k] \in Link
    BY <2>2, <2>3 DEF NewLink, Unused, RowsTyped, Issued, Link
  <2>5. \A k \in Links : link'[k] # None => link'[k].guest \in Present
    BY <2>2, <2>3 DEF NewLink, RowsTyped, GuestsLinked, Issued
  <2>6. RowsGoOn BY <1>3, <2>4, <2>5, LinksWritten DEF Invite
  <2>7. QED BY <2>1, <2>6
<1>4. CASE BeginReplace(q)
  <2>1. PICK g \in Present : Take(q, {g}, [Idle EXCEPT !.op = "replace", !.guests = {g}])
    BY <1>4 DEF BeginReplace
  <2> DEFINE c == [Idle EXCEPT !.op = "replace", !.guests = {g}]
  <2>2. g \in Guests /\ {g} \in SUBSET Rows BY DEF Present, Rows
  <2>3. Fits(c, {g}) /\ c.op \in LinkOps /\ c.shares = {}
    BY <2>2 DEF Fits, Idle, Call, Operations, WeddingOps, ImportOps, LinkOps
  <2>4. Take(q, {g}, c) BY <2>1
  <2>5. RowsGoOn BY <1>4, RowsStay DEF BeginReplace
  <2> HIDE DEF c
  <2>6. QED BY <2>2, <2>3, <2>4, <2>5, TakeIsAStep
<1>5. CASE Replace(q)
  <2>1. CallStep(q, LinkOps) BY <1>5, DoneIsAStep DEF Replace
  <2>2. PICK g \in call[q].guests, l \in Unused : Replaced(g, l) BY <1>5 DEF Replace
  <2>3. g \in Present /\ g \in Guests BY <1>1 DEF Fits, Call
  <2>4. link' \in [Links -> Link \cup {None}] /\ \A k \in Issued : link'[k] \in Link
    <3>1. [guest |-> g, live |-> TRUE] \in Link BY <2>3 DEF Link
    <3>2. \A k \in Issued : link[k] \in Link BY DEF RowsTyped, Issued
    <3>3. \A k \in Issued : [link[k] EXCEPT !.live = FALSE] \in Link
      BY <3>2 DEF Link
    <3>4. LiveLinks(g) \subseteq Issued BY DEF LiveLinks, Issued
    <3>5. ASSUME NEW k \in Links PROVE link'[k] \in Link \cup {None}
      BY <2>2, <3>1, <3>3, <3>4 DEF Replaced, RowsTyped
    <3>6. ASSUME NEW k \in Issued PROVE link'[k] \in Link
      BY <2>2, <3>1, <3>2, <3>3, <3>4 DEF Replaced, Issued
    <3>7. QED BY <2>2, <3>5, <3>6 DEF Replaced
  <2>5. \A k \in Links : link'[k] # None => link'[k].guest \in Present
    BY <2>2, <2>3 DEF Replaced, LiveLinks, RowsTyped, GuestsLinked, Issued, Link
  <2>6. RowsGoOn BY <1>5, <2>4, <2>5, LinksWritten DEF Replace
  <2>7. QED BY <2>1, <2>6
<1>6. CASE BeginReply(q)
  <2>1. PICK l \in Links :
          /\ Opens(l)
          /\ Take(q, {}, [Idle EXCEPT !.op = "reply", !.link = l,
                                      !.size = guest[link[l].guest].party])
    BY <1>6 DEF BeginReply
  <2> DEFINE size == guest[link[l].guest].party
             c == [Idle EXCEPT !.op = "reply", !.link = l, !.size = size]
  <2>2. l \in Issued /\ {} \in SUBSET Rows BY <2>1 DEF Opens, Issued
  <2>3. RowsGoOn BY <1>6, RowsStay DEF BeginReply
  <2>4. Take(q, {}, c) BY <2>1
  <2>5. size \in Nat
    <3>1. guest[link[l].guest] \in Guest BY <2>2 DEF RowsTyped, GuestsLinked, Present
    <3>2. QED BY <3>1, WeddingAssumption DEF Guest
  <2> HIDE DEF size
  <2>6. Fits(c, {}) /\ c.op \in LinkOps /\ c.shares = {}
    BY <2>2, <2>5
    DEF Fits, Idle, Call, Operations, WeddingOps, ImportOps, LinkOps, Issued
  <2> HIDE DEF c
  <2>7. QED BY <2>2, <2>3, <2>4, <2>6, TakeIsAStep
<1>7. CASE SaveReply(q)
  <2>1. CallStep(q, LinkOps) BY <1>7, DoneIsAStep DEF SaveReply
  <2>2. PICK size \in Answers :
          rsvp' = [rsvp EXCEPT ![link[call[q].link].guest] =
                     [size |-> size, via |-> call[q].link]]
    BY <1>7 DEF SaveReply
  <2>3. call[q].link \in Links BY <1>1, <1>7 DEF Fits, SaveReply, Running, Issued
  <2>4. rsvp' \in [Guests -> Reply \cup {None}]
    BY <2>2, <2>3 DEF RowsTyped, Reply, Answers
  <2>5. RowsGoOn
    BY <1>7, <2>4
    DEF SaveReply, RowsTyped, GuestsLinked, RowsGoOn, Stays, Present, Issued, guestVars, seatVars
  <2>6. QED BY <2>1, <2>5
<1>8. QED BY <1>2, <1>3, <1>4, <1>5, <1>6, <1>7 DEF LinkStep, InvitationRoutes, PublicRoutes

-----------------------------------------------------------------------------
(* Calls that change tables and seats.                                      *)

LEMMA TableCalls ==
  ASSUME CallInv, RowsTyped, NEW q \in Requests,
         \/ BeginAddTable(q) \/ CountTables(q) \/ AddTable(q)
         \/ BeginResizeTable(q) \/ ReadUsage(q) \/ ResizeTable(q) \/ DeleteTable(q)
  PROVE  CallStep(q, SeatOps) /\ RowsGoOn
<1>1. call[q] \in Call /\ Fits(call[q], locks[q]) BY DEF CallInv
<1>2. CASE BeginAddTable(q)
  <2> DEFINE c == [Idle EXCEPT !.op = "addTable"]
  <2>1. Fits(c, {Wedding}) /\ c.op \in SeatOps /\ c.shares = {}
    BY DEF Fits, Idle, Call, Operations, WeddingOps, ImportOps, SeatOps
  <2>2. {Wedding} \in SUBSET Rows BY DEF Rows
  <2>3. Take(q, {Wedding}, c) BY <1>2 DEF BeginAddTable
  <2>4. RowsGoOn BY <1>2, RowsStay DEF BeginAddTable
  <2> HIDE DEF c
  <2>5. QED BY <2>1, <2>2, <2>3, <2>4, TakeIsAStep
<1>3. CASE CountTables(q)
  <2> DEFINE c == [call[q] EXCEPT !.op = "newTable"]
  <2>1. call[q].op = "addTable" BY <1>3 DEF CountTables, Running
  <2>2. /\ c \in Call /\ c.op = "newTable" /\ c.guests = call[q].guests
        /\ c.shares = call[q].shares
    BY <1>1 DEF Call, Operations
  <2>3. Decide(q, c) BY <1>3 DEF CountTables
  <2>4. RowsGoOn BY <1>3, RowsStay DEF CountTables
  <2> HIDE DEF c
  <2>5. Fits(c, locks[q]) /\ c.op \in SeatOps
    BY <1>1, <2>1, <2>2 DEF Fits, WeddingOps, ImportOps, SeatOps
  <2>6. QED BY <2>2, <2>3, <2>4, <2>5, DecideIsAStep
<1>4. CASE AddTable(q)
  <2>1. CallStep(q, SeatOps) BY <1>4, DoneIsAStep DEF AddTable
  <2>2. PICK t \in Tables \ TablesThere, size \in Capacities :
          table' = [table EXCEPT ![t] = size]
    BY <1>4 DEF AddTable
  <2>3. table' \in [Tables -> 0..MaxCapacity]
    <3>1. size \in 0..MaxCapacity BY WeddingAssumption DEF Capacities
    <3>2. QED BY <2>2, <3>1, CapacityWritten
  <2>4. seat' \in [Guests -> Tables \cup {None}] BY <1>4 DEF AddTable, RowsTyped
  <2>5. RowsGoOn BY <1>4, <2>3, <2>4, SeatsWritten DEF AddTable
  <2>6. QED BY <2>1, <2>5
<1>5. CASE BeginResizeTable(q)
  <2>1. PICK t \in TablesThere : Take(q, {t}, [Idle EXCEPT !.op = "resize", !.table = t])
    BY <1>5 DEF BeginResizeTable
  <2> DEFINE c == [Idle EXCEPT !.op = "resize", !.table = t]
  <2>2. t \in Tables /\ {t} \in SUBSET Rows BY DEF TablesThere, Rows
  <2>3. Fits(c, {t}) /\ c.op \in SeatOps /\ c.shares = {}
    BY <2>2 DEF Fits, Idle, Call, Operations, WeddingOps, ImportOps, SeatOps
  <2>4. Take(q, {t}, c) BY <2>1
  <2>5. RowsGoOn BY <1>5, RowsStay DEF BeginResizeTable
  <2> HIDE DEF c
  <2>6. QED BY <2>2, <2>3, <2>4, <2>5, TakeIsAStep
<1>6. CASE ReadUsage(q)
  <2>1. PICK size \in Capacities : Decide(q, [call[q] EXCEPT !.op = "resized", !.size = size])
    BY <1>6 DEF ReadUsage
  <2> DEFINE c == [call[q] EXCEPT !.op = "resized", !.size = size]
  <2>2. size \in Nat BY WeddingAssumption DEF Capacities
  <2>3. /\ c \in Call /\ c.op = "resized" /\ c.size = size
        /\ c.guests = call[q].guests /\ c.shares = call[q].shares
    <3>1. "resized" \in Operations BY DEF Operations
    <3>2. c = [call[q] EXCEPT !.op = "resized", !.size = size] OBVIOUS
    <3> HIDE DEF c
    <3>3. c \in Call BY <1>1, <2>2, <3>1, <3>2 DEF Call
    <3>4. /\ c.op = "resized" /\ c.size = size /\ c.guests = call[q].guests
          /\ c.shares = call[q].shares
      BY <1>1, <3>2 DEF Call
    <3>5. QED BY <3>3, <3>4
  <2>4. Decide(q, c) BY <2>1
  <2>5. RowsGoOn BY <1>6, RowsStay DEF ReadUsage
  <2> HIDE DEF c
  <2>6. Fits(c, locks[q]) /\ c.op \in SeatOps
    BY <1>1, <2>3 DEF Fits, WeddingOps, ImportOps, SeatOps
  <2>7. QED BY <2>3, <2>4, <2>5, <2>6, DecideIsAStep
<1>7. CASE ResizeTable(q)
  <2>1. CallStep(q, SeatOps) BY <1>7, DoneIsAStep DEF ResizeTable
  <2>2. call[q].size \in Capacities BY <1>1, <1>7 DEF Fits, ResizeTable, Running
  <2>3. table' \in [Tables -> 0..MaxCapacity]
    <3>1. call[q].size \in 0..MaxCapacity BY <2>2, WeddingAssumption DEF Capacities
    <3>2. table' = [table EXCEPT ![call[q].table] = call[q].size] BY <1>7 DEF ResizeTable
    <3>3. QED BY <3>1, <3>2, CapacityWritten
  <2>4. seat' \in [Guests -> Tables \cup {None}] BY <1>7 DEF ResizeTable, RowsTyped
  <2>5. RowsGoOn BY <1>7, <2>3, <2>4, SeatsWritten DEF ResizeTable
  <2>6. QED BY <2>1, <2>5
<1>8. CASE DeleteTable(q)
  <2>1. CallStep(q, SeatOps) BY <1>8, OnceIsAStep DEF DeleteTable
  <2>2. PICK t \in TablesThere : table' = [table EXCEPT ![t] = 0] /\ Emptied(t)
    BY <1>8 DEF DeleteTable
  <2>3. table' \in [Tables -> 0..MaxCapacity]
    <3>1. 0 \in 0..MaxCapacity BY WeddingAssumption
    <3>2. QED BY <2>2, <3>1, CapacityWritten
  <2>4. seat' \in [Guests -> Tables \cup {None}] BY <2>2 DEF Emptied, RowsTyped
  <2>5. RowsGoOn BY <1>8, <2>3, <2>4, SeatsWritten DEF DeleteTable
  <2>6. QED BY <2>1, <2>5
<1>9. QED BY <1>2, <1>3, <1>4, <1>5, <1>6, <1>7, <1>8

LEMMA AssignCalls ==
  ASSUME CallInv, RowsTyped, NEW q \in Requests,
         BeginAssign(q) \/ ReadSeat(q) \/ ReadRoom(q) \/ Assign(q)
  PROVE  CallStep(q, SeatOps) /\ RowsGoOn
<1>1. call[q] \in Call /\ Fits(call[q], locks[q]) BY DEF CallInv
<1>2. CASE BeginAssign(q)
  <2>1. PICK g \in Present, t \in Tables \cup {None} :
          Take(q, {g}, [Idle EXCEPT !.op = "assign", !.guests = {g}, !.table = t])
    BY <1>2 DEF BeginAssign
  <2> DEFINE c == [Idle EXCEPT !.op = "assign", !.guests = {g}, !.table = t]
  <2>2. g \in Guests /\ {g} \in SUBSET Rows BY DEF Present, Rows
  <2>3. Fits(c, {g}) /\ c.op \in SeatOps /\ c.shares = {}
    BY <2>2 DEF Fits, Idle, Call, Operations, WeddingOps, ImportOps, SeatOps
  <2>4. Take(q, {g}, c) BY <2>1
  <2>5. RowsGoOn BY <1>2, RowsStay DEF BeginAssign
  <2> HIDE DEF c
  <2>6. QED BY <2>2, <2>3, <2>4, <2>5, TakeIsAStep
<1>3. CASE ReadSeat(q)
  <2>1. PICK g \in call[q].guests :
          Decide(q, [call[q] EXCEPT !.op = "seat", !.need = TablesOf(g, call[q].table)])
    BY <1>3 DEF ReadSeat
  <2> DEFINE c == [call[q] EXCEPT !.op = "seat", !.need = TablesOf(g, call[q].table)]
  <2>2. g \in Guests /\ call[q].table \in Tables \cup {None} BY <1>1 DEF Call
  <2>3. TablesOf(g, call[q].table) \in SUBSET Rows
    BY <2>2 DEF TablesOf, RowsTyped, Rows
  <2>4. /\ c \in Call /\ c.op = "seat" /\ c.guests = call[q].guests
        /\ c.shares = call[q].shares
    <3> DEFINE need == TablesOf(g, call[q].table)
    <3>1. "seat" \in Operations BY DEF Operations
    <3>2. c = [call[q] EXCEPT !.op = "seat", !.need = need] OBVIOUS
    <3>3. need \in SUBSET Rows BY <2>3
    <3> HIDE DEF c, need
    <3>4. c \in Call BY <1>1, <3>1, <3>2, <3>3 DEF Call
    <3>5. /\ c.op = "seat" /\ c.guests = call[q].guests /\ c.shares = call[q].shares
      BY <1>1, <3>2 DEF Call
    <3>6. QED BY <3>4, <3>5
  <2>5. Decide(q, c) BY <2>1
  <2>6. RowsGoOn BY <1>3, RowsStay DEF ReadSeat
  <2> HIDE DEF c
  <2>7. Fits(c, locks[q]) /\ c.op \in SeatOps
    BY <1>1, <2>4 DEF Fits, WeddingOps, ImportOps, SeatOps
  <2>8. QED BY <2>4, <2>5, <2>6, <2>7, DecideIsAStep
<1>4. CASE ReadRoom(q)
  <2> DEFINE c == [call[q] EXCEPT !.op = "seated"]
  <2>1. /\ c \in Call /\ c.op = "seated" /\ c.guests = call[q].guests
        /\ c.shares = call[q].shares
    BY <1>1 DEF Call, Operations
  <2>2. Decide(q, c) BY <1>4 DEF ReadRoom
  <2>3. RowsGoOn BY <1>4, RowsStay DEF ReadRoom
  <2> HIDE DEF c
  <2>4. Fits(c, locks[q]) /\ c.op \in SeatOps
    BY <1>1, <2>1 DEF Fits, WeddingOps, ImportOps, SeatOps
  <2>5. QED BY <2>1, <2>2, <2>3, <2>4, DecideIsAStep
<1>5. CASE Assign(q)
  <2>1. CallStep(q, SeatOps) BY <1>5, DoneIsAStep DEF Assign
  <2>2. call[q].table \in Tables \cup {None} BY <1>1 DEF Call
  <2>3. table' \in [Tables -> 0..MaxCapacity] BY <1>5 DEF Assign, RowsTyped
  <2>4. seat' \in [Guests -> Tables \cup {None}] BY <1>5, <2>2 DEF Assign, RowsTyped
  <2>5. RowsGoOn BY <1>5, <2>3, <2>4, SeatsWritten DEF Assign
  <2>6. QED BY <2>1, <2>5
<1>6. QED BY <1>2, <1>3, <1>4, <1>5

LEMMA SeatCallsTyped ==
  ASSUME CallInv, RowsTyped, NEW q \in Requests, SeatStep(q)
  PROVE  CallStep(q, SeatOps) /\ RowsGoOn
BY TableCalls, AssignCalls DEF SeatStep

-----------------------------------------------------------------------------
(* Calls that change the budget.                                            *)

LEMMA BudgetCalls ==
  ASSUME CallInv, LedgerTypeOK, NEW q \in Requests, BudgetRoutes(q) \/ CategoryRoutes(q)
  PROVE  CallStep(q, LedgerOps) /\ LedgerTypeOK'
<1>1. call[q] \in Call /\ Fits(call[q], locks[q]) BY DEF CallInv
<1>2. CASE BeginBudget(q)
  <2> DEFINE c == [Idle EXCEPT !.op = "budget"]
  <2>1. Fits(c, {Wedding}) /\ c.op \in LedgerOps /\ c.shares = {}
    BY DEF Fits, Idle, Call, Operations, WeddingOps, ImportOps, LedgerOps
  <2>2. {Wedding} \in SUBSET Rows BY DEF Rows
  <2>3. Take(q, {Wedding}, c) BY <1>2 DEF BeginBudget
  <2>4. LedgerTypeOK' BY <1>2 DEF BeginBudget, LedgerTypeOK, ledgerVars
  <2> HIDE DEF c
  <2>5. QED BY <2>1, <2>2, <2>3, <2>4, TakeIsAStep
<1>3. CASE CheckCurrency(q)
  <2>1. PICK cur \in Currencies :
          Decide(q, [call[q] EXCEPT !.op = "newBudget", !.currency = cur])
    BY <1>3 DEF CheckCurrency
  <2> DEFINE c == [call[q] EXCEPT !.op = "newBudget", !.currency = cur]
  <2>2. call[q].op = "budget" BY <1>3 DEF CheckCurrency, Running
  <2>3. /\ c \in Call /\ c.op = "newBudget" /\ c.guests = call[q].guests
        /\ c.shares = call[q].shares /\ c.currency = cur
    <3>1. "newBudget" \in Operations BY DEF Operations
    <3>2. c = [call[q] EXCEPT !.op = "newBudget", !.currency = cur] OBVIOUS
    <3> HIDE DEF c
    <3>3. c \in Call BY <1>1, <2>1, <3>1, <3>2 DEF Call
    <3>4. /\ c.op = "newBudget" /\ c.guests = call[q].guests
          /\ c.shares = call[q].shares /\ c.currency = cur
      BY <1>1, <3>2 DEF Call
    <3>5. QED BY <3>3, <3>4
  <2>4. Decide(q, c) BY <2>1
  <2>5. LedgerTypeOK' BY <1>3 DEF CheckCurrency, LedgerTypeOK, ledgerVars
  <2> HIDE DEF c
  <2>6. Fits(c, locks[q]) /\ c.op \in LedgerOps
    BY <1>1, <2>1, <2>2, <2>3 DEF Fits, WeddingOps, ImportOps, LedgerOps
  <2>7. QED BY <2>3, <2>4, <2>5, <2>6, DecideIsAStep
<1>4. CASE SetBudget(q)
  <2>1. CallStep(q, LedgerOps) BY <1>4, DoneIsAStep DEF SetBudget
  <2>2. call[q].currency \in Currencies BY <1>1, <1>4 DEF Fits, SetBudget, Running
  <2>3. LedgerTypeOK' BY <1>4, <2>2 DEF SetBudget, LedgerTypeOK
  <2>4. QED BY <2>1, <2>3
<1>5. CASE BeginAddCategory(q)
  <2> DEFINE c == [Idle EXCEPT !.op = "addCategory"]
  <2>1. Fits(c, {Wedding}) /\ c.op \in LedgerOps /\ c.shares = {}
    BY DEF Fits, Idle, Call, Operations, WeddingOps, ImportOps, LedgerOps
  <2>2. {Wedding} \in SUBSET Rows BY DEF Rows
  <2>3. Take(q, {Wedding}, c) BY <1>5 DEF BeginAddCategory
  <2>4. LedgerTypeOK' BY <1>5 DEF BeginAddCategory, LedgerTypeOK, ledgerVars
  <2> HIDE DEF c
  <2>5. QED BY <2>1, <2>2, <2>3, <2>4, TakeIsAStep
<1>6. CASE CountCategories(q)
  <2> DEFINE c == [call[q] EXCEPT !.op = "newCategory"]
  <2>1. call[q].op = "addCategory" BY <1>6 DEF CountCategories, Running
  <2>2. /\ c \in Call /\ c.op = "newCategory" /\ c.guests = call[q].guests
        /\ c.shares = call[q].shares
    BY <1>1 DEF Call, Operations
  <2>3. Decide(q, c) BY <1>6 DEF CountCategories
  <2>4. LedgerTypeOK' BY <1>6 DEF CountCategories, LedgerTypeOK, ledgerVars
  <2> HIDE DEF c
  <2>5. Fits(c, locks[q]) /\ c.op \in LedgerOps
    BY <1>1, <2>1, <2>2 DEF Fits, WeddingOps, ImportOps, LedgerOps
  <2>6. QED BY <2>2, <2>3, <2>4, <2>5, DecideIsAStep
<1>7. CASE AddCategory(q)
  <2>1. CallStep(q, LedgerOps) BY <1>7, DoneIsAStep DEF AddCategory
  <2>2. LedgerTypeOK' BY <1>7 DEF AddCategory, LedgerTypeOK
  <2>3. QED BY <2>1, <2>2
<1>8. CASE BeginDropCategory(q)
  <2>1. PICK k \in category :
          Take(q, {Wedding}, [Idle EXCEPT !.op = "dropCategory", !.item = k, !.need = {k}])
    BY <1>8 DEF BeginDropCategory
  <2> DEFINE c == [Idle EXCEPT !.op = "dropCategory", !.item = k, !.need = {k}]
  <2>2. k \in Vendors \cup Categories /\ {Wedding} \in SUBSET Rows /\ {k} \in SUBSET Rows
    BY DEF Rows, VendorsThere, LedgerTypeOK
  <2>3. Fits(c, {Wedding}) /\ c.op \in LedgerOps /\ c.shares = {}
    BY <2>2 DEF Fits, Idle, Call, Operations, WeddingOps, ImportOps, LedgerOps
  <2>4. Take(q, {Wedding}, c) BY <2>1
  <2>5. LedgerTypeOK' BY <1>8 DEF BeginDropCategory, LedgerTypeOK, ledgerVars
  <2> HIDE DEF c
  <2>6. QED BY <2>2, <2>3, <2>4, <2>5, TakeIsAStep
<1>9. CASE DropCategory(q)
  <2>1. CallStep(q, LedgerOps) BY <1>9, DoneIsAStep DEF DropCategory
  <2>2. LedgerTypeOK' BY <1>9 DEF DropCategory, LedgerTypeOK, Costs, Cost
  <2>3. QED BY <2>1, <2>2
<1>10. QED
  BY <1>2, <1>3, <1>4, <1>5, <1>6, <1>7, <1>8, <1>9 DEF BudgetRoutes, CategoryRoutes

LEMMA VendorCalls ==
  ASSUME CallInv, LedgerTypeOK, NEW q \in Requests, VendorRoutes(q) \/ ExpenseRoutes(q)
  PROVE  CallStep(q, LedgerOps) /\ LedgerTypeOK'
<1>1. call[q] \in Call /\ Fits(call[q], locks[q]) BY DEF CallInv
<1>2. CASE BeginQuote(q)
  <2> DEFINE c == [Idle EXCEPT !.op = "vendor"]
  <2>1. Fits(c, {Wedding}) /\ c.op \in LedgerOps /\ c.shares = {}
    BY DEF Fits, Idle, Call, Operations, WeddingOps, ImportOps, LedgerOps
  <2>2. {Wedding} \in SUBSET Rows BY DEF Rows
  <2>3. Take(q, {Wedding}, c) BY <1>2 DEF BeginQuote
  <2>4. LedgerTypeOK' BY <1>2 DEF BeginQuote, LedgerTypeOK, ledgerVars
  <2> HIDE DEF c
  <2>5. QED BY <2>1, <2>2, <2>3, <2>4, TakeIsAStep
<1>3. CASE ReadBudget(q)
  <2> DEFINE cur == currency
  <2>1. cur \in Currencies /\ Decide(q, [call[q] EXCEPT !.op = "newVendor", !.currency = cur])
    BY <1>3 DEF ReadBudget, LedgerTypeOK
  <2> DEFINE c == [call[q] EXCEPT !.op = "newVendor", !.currency = cur]
  <2>2. call[q].op = "vendor" BY <1>3 DEF ReadBudget, Running
  <2>3. /\ c \in Call /\ c.op = "newVendor" /\ c.guests = call[q].guests
        /\ c.shares = call[q].shares /\ c.currency = cur
    <3>1. "newVendor" \in Operations BY DEF Operations
    <3>2. c = [call[q] EXCEPT !.op = "newVendor", !.currency = cur] OBVIOUS
    <3> HIDE DEF c
    <3>3. c \in Call BY <1>1, <2>1, <3>1, <3>2 DEF Call
    <3>4. /\ c.op = "newVendor" /\ c.guests = call[q].guests
          /\ c.shares = call[q].shares /\ c.currency = cur
      BY <1>1, <3>2 DEF Call
    <3>5. QED BY <3>3, <3>4
  <2>4. Decide(q, c) BY <2>1
  <2>5. LedgerTypeOK' BY <1>3 DEF ReadBudget, LedgerTypeOK, ledgerVars
  <2> HIDE DEF c
  <2>6. Fits(c, locks[q]) /\ c.op \in LedgerOps
    BY <1>1, <2>1, <2>2, <2>3 DEF Fits, WeddingOps, ImportOps, LedgerOps
  <2>7. QED BY <2>3, <2>4, <2>5, <2>6, DecideIsAStep
<1>4. CASE SaveQuote(q)
  <2>1. CallStep(q, LedgerOps) BY <1>4, DoneIsAStep DEF SaveQuote
  <2>2. call[q].currency \in Currencies BY <1>1, <1>4 DEF Fits, SaveQuote, Running
  <2>3. LedgerTypeOK' BY <1>4, <2>2 DEF SaveQuote, LedgerTypeOK
  <2>4. QED BY <2>1, <2>3
<1>5. CASE SaveVendor(q)
  <2>1. CallStep(q, LedgerOps) BY <1>5, OnceIsAStep DEF SaveVendor
  <2>2. LedgerTypeOK' BY <1>5 DEF SaveVendor, LedgerTypeOK
  <2>3. QED BY <2>1, <2>2
<1>6. CASE BeginDropVendor(q)
  <2>1. PICK k \in VendorsThere :
          Take(q, {Wedding}, [Idle EXCEPT !.op = "dropVendor", !.item = k, !.need = {k}])
    BY <1>6 DEF BeginDropVendor
  <2> DEFINE c == [Idle EXCEPT !.op = "dropVendor", !.item = k, !.need = {k}]
  <2>2. k \in Vendors \cup Categories /\ {Wedding} \in SUBSET Rows /\ {k} \in SUBSET Rows
    BY DEF Rows, VendorsThere, LedgerTypeOK
  <2>3. Fits(c, {Wedding}) /\ c.op \in LedgerOps /\ c.shares = {}
    BY <2>2 DEF Fits, Idle, Call, Operations, WeddingOps, ImportOps, LedgerOps
  <2>4. Take(q, {Wedding}, c) BY <2>1
  <2>5. LedgerTypeOK' BY <1>6 DEF BeginDropVendor, LedgerTypeOK, ledgerVars
  <2> HIDE DEF c
  <2>6. QED BY <2>2, <2>3, <2>4, <2>5, TakeIsAStep
<1>7. CASE DropVendor(q)
  <2>1. CallStep(q, LedgerOps) BY <1>7, DoneIsAStep DEF DropVendor
  <2>2. LedgerTypeOK' BY <1>7 DEF DropVendor, LedgerTypeOK, Costs, Cost
  <2>3. QED BY <2>1, <2>2
<1>8. CASE BeginExpense(q)
  <2> DEFINE c == [Idle EXCEPT !.op = "expense"]
  <2>1. Fits(c, {Wedding}) /\ c.op \in LedgerOps /\ c.shares = {}
    BY DEF Fits, Idle, Call, Operations, WeddingOps, ImportOps, LedgerOps
  <2>2. {Wedding} \in SUBSET Rows BY DEF Rows
  <2>3. Take(q, {Wedding}, c) BY <1>8 DEF BeginExpense
  <2>4. LedgerTypeOK' BY <1>8 DEF BeginExpense, LedgerTypeOK, ledgerVars
  <2> HIDE DEF c
  <2>5. QED BY <2>1, <2>2, <2>3, <2>4, TakeIsAStep
<1>9. CASE CheckBudget(q)
  <2> DEFINE cur == currency
  <2>1. cur \in Currencies /\ Decide(q, [call[q] EXCEPT !.op = "newExpense", !.currency = cur])
    BY <1>9 DEF CheckBudget, LedgerTypeOK
  <2> DEFINE c == [call[q] EXCEPT !.op = "newExpense", !.currency = cur]
  <2>2. call[q].op = "expense" BY <1>9 DEF CheckBudget, Running
  <2>3. /\ c \in Call /\ c.op = "newExpense" /\ c.guests = call[q].guests
        /\ c.shares = call[q].shares /\ c.currency = cur
    <3>1. "newExpense" \in Operations BY DEF Operations
    <3>2. c = [call[q] EXCEPT !.op = "newExpense", !.currency = cur] OBVIOUS
    <3> HIDE DEF c
    <3>3. c \in Call BY <1>1, <2>1, <3>1, <3>2 DEF Call
    <3>4. /\ c.op = "newExpense" /\ c.guests = call[q].guests
          /\ c.shares = call[q].shares /\ c.currency = cur
      BY <1>1, <3>2 DEF Call
    <3>5. QED BY <3>3, <3>4
  <2>4. Decide(q, c) BY <2>1
  <2>5. LedgerTypeOK' BY <1>9 DEF CheckBudget, LedgerTypeOK, ledgerVars
  <2> HIDE DEF c
  <2>6. Fits(c, locks[q]) /\ c.op \in LedgerOps
    BY <1>1, <2>1, <2>2, <2>3 DEF Fits, WeddingOps, ImportOps, LedgerOps
  <2>7. QED BY <2>3, <2>4, <2>5, <2>6, DecideIsAStep
<1>10. CASE SaveExpense(q)
  <2>1. CallStep(q, LedgerOps) BY <1>10, DoneIsAStep DEF SaveExpense
  <2>2. PICK e \in Expenses, k \in category \cup {None}, v \in VendorsThere \cup {None} :
          cost' = [cost EXCEPT ![e] = [currency |-> call[q].currency,
                                       category |-> k, vendor |-> v]]
    BY <1>10 DEF SaveExpense
  <2>3. call[q].currency \in Currencies BY <1>1, <1>10 DEF Fits, SaveExpense, Running
  <2>4. [currency |-> call[q].currency, category |-> k, vendor |-> v] \in Cost
    BY <2>3 DEF Cost, LedgerTypeOK, VendorsThere
  <2>5. LedgerTypeOK' BY <1>10, <2>2, <2>4 DEF SaveExpense, LedgerTypeOK
  <2>6. QED BY <2>1, <2>5
<1>11. CASE DeleteExpense(q)
  <2>1. CallStep(q, LedgerOps) BY <1>11, OnceIsAStep DEF DeleteExpense
  <2>2. LedgerTypeOK' BY <1>11 DEF DeleteExpense, LedgerTypeOK, Costs
  <2>3. QED BY <2>1, <2>2
<1>12. QED
  BY <1>2, <1>3, <1>4, <1>5, <1>6, <1>7, <1>8, <1>9, <1>10, <1>11
  DEF VendorRoutes, ExpenseRoutes

LEMMA LedgerCallsTyped ==
  ASSUME CallInv, LedgerTypeOK, NEW q \in Requests, LedgerStep(q)
  PROVE  CallStep(q, LedgerOps) /\ LedgerTypeOK'
BY BudgetCalls, VendorCalls DEF LedgerStep

LEMMA TemplateCallsTyped ==
  ASSUME CallInv, template \subseteq Templates, NEW q \in Requests, TemplateStep(q)
  PROVE  CallStep(q, TemplateOps) /\ template' \subseteq Templates
<1>1. call[q] \in Call /\ Fits(call[q], locks[q]) BY DEF CallInv
<1>2. CASE BeginAddTemplate(q)
  <2> DEFINE c == [Idle EXCEPT !.op = "addTemplate"]
  <2>1. Fits(c, {Wedding}) /\ c.op \in TemplateOps /\ c.shares = {}
    BY DEF Fits, Idle, Call, Operations, WeddingOps, ImportOps, TemplateOps
  <2>2. {Wedding} \in SUBSET Rows BY DEF Rows
  <2>3. Take(q, {Wedding}, c) BY <1>2 DEF BeginAddTemplate
  <2>4. template' \subseteq Templates BY <1>2 DEF BeginAddTemplate
  <2> HIDE DEF c
  <2>5. QED BY <2>1, <2>2, <2>3, <2>4, TakeIsAStep
<1>3. CASE CountTemplates(q)
  <2> DEFINE c == [call[q] EXCEPT !.op = "newTemplate"]
  <2>1. call[q].op = "addTemplate" BY <1>3 DEF CountTemplates, Running
  <2>2. /\ c \in Call /\ c.op = "newTemplate" /\ c.guests = call[q].guests
        /\ c.shares = call[q].shares
    BY <1>1 DEF Call, Operations
  <2>3. Decide(q, c) BY <1>3 DEF CountTemplates
  <2>4. template' \subseteq Templates BY <1>3 DEF CountTemplates
  <2> HIDE DEF c
  <2>5. Fits(c, locks[q]) /\ c.op \in TemplateOps
    BY <1>1, <2>1, <2>2 DEF Fits, WeddingOps, ImportOps, TemplateOps
  <2>6. QED BY <2>2, <2>3, <2>4, <2>5, DecideIsAStep
<1>4. CASE AddTemplate(q)
  <2>1. CallStep(q, TemplateOps) BY <1>4, DoneIsAStep DEF AddTemplate
  <2>2. template' \subseteq Templates BY <1>4 DEF AddTemplate
  <2>3. QED BY <2>1, <2>2
<1>5. CASE DeleteTemplate(q)
  <2>1. CallStep(q, TemplateOps) BY <1>5, OnceIsAStep DEF DeleteTemplate
  <2>2. template' \subseteq Templates BY <1>5 DEF DeleteTemplate
  <2>3. QED BY <2>1, <2>2
<1>6. QED BY <1>2, <1>3, <1>4, <1>5 DEF TemplateStep

-----------------------------------------------------------------------------
(* The import.                                                              *)

\* A mapping change has its draft.  A commit holds the batch whose preview it
\* has confirmed, so the batch stays as it is.
Confirmed(b, version) ==
  /\ batch[b] # None /\ ~batch[b].committed
  /\ batch[b].version = version /\ Importable(batch[b].rows)

HeldInv ==
  \A q \in Requests :
    /\ call[q].op = "map" => draft[q] \in Draft
    /\ call[q].op \in {"commit", "insert"} =>
         key[q] \in Keys /\ Confirmed(call[q].batch, call[q].size)

LEMMA BuiltTyped ==
  ASSUME NEW m \in Mappings, NEW excluded, NEW known
  PROVE  Built(m, excluded, known) \in Preview
<1>1. ASSUME NEW l \in Lines PROVE Candidate(m, l) \in Cell
  BY ImportAssumption DEF Candidate, Cell
<1>2. ASSUME NEW l \in Lines
      PROVE  [cell |-> Candidate(m, l),
              warned |-> Candidate(m, l) # None /\ (Twice(m, l) \/ l \in known),
              included |-> l \notin excluded] \in Line
  BY <1>1 DEF Line
<1>3. QED BY <1>2 DEF Built, Preview

\* What a step of q leaves of its own call, when it is not one of an import.
LEMMA ImportCallKept ==
  ASSUME CallInv, NEW q \in Requests, NEW ops, CallStep(q, ops), ops \cap ImportOps = {},
         NEW p \in Requests, call'[p].op \in ImportOps
  PROVE  /\ call'[p].op = call[p].op /\ call'[p].batch = call[p].batch
         /\ call'[p].size = call[p].size
<1>1. CASE p # q BY <1>1 DEF CallStep, CallInv
<1>2. CASE p = q
  <2>1. PICK c \in Call :
          /\ call' = [call EXCEPT ![q] = c]
          /\ \/ c.op \in ops \cup {"none"}
             \/ c = [call[q] EXCEPT !.need = c.need, !.shares = c.shares]
    BY DEF CallStep
  <2>2. call'[p] = c BY <1>2, <2>1 DEF CallInv
  <2>3. c.op \notin ops \cup {"none"} BY <2>2 DEF ImportOps
  <2>4. call[q] \in Call /\ c = [call[q] EXCEPT !.need = c.need, !.shares = c.shares]
    BY <2>1, <2>3 DEF CallInv
  <2>5. c.op = call[q].op /\ c.batch = call[q].batch /\ c.size = call[q].size
    BY <2>4 DEF Call
  <2>6. QED BY <1>2, <2>2, <2>5
<1>3. QED BY <1>1, <1>2

LEMMA ImportKept ==
  ASSUME CallInv, HeldInv, ImportTypeOK, NEW q \in Requests, NEW ops, CallStep(q, ops),
         ops \cap ImportOps = {}, UNCHANGED importVars
  PROVE  HeldInv' /\ ImportTypeOK'
<1>1. ImportTypeOK' BY DEF ImportTypeOK, importVars
<1>2. UNCHANGED <<batch, draft, key>> BY DEF importVars
<1>3. ASSUME NEW p \in Requests, call'[p].op = "map" PROVE draft'[p] \in Draft
  <2>1. call[p].op = "map" BY <1>3, ImportCallKept DEF ImportOps
  <2>2. QED BY <1>2, <2>1 DEF HeldInv
<1>4. ASSUME NEW p \in Requests, call'[p].op \in {"commit", "insert"}
      PROVE  key'[p] \in Keys /\ Confirmed(call[p].batch, call[p].size)'
  <2>1. /\ call[p].op \in {"commit", "insert"} /\ call'[p].batch = call[p].batch
        /\ call'[p].size = call[p].size
    BY <1>4, ImportCallKept DEF ImportOps
  <2>2. QED BY <1>2, <2>1 DEF HeldInv, Confirmed
<1>5. QED BY <1>1, <1>3, <1>4 DEF HeldInv

\* The calls of others, when the batches they commit keep what they confirmed.
LEMMA OthersHeld ==
  ASSUME HeldInv, CallInv, NEW q \in Requests,
         \A p \in Requests \ {q} :
           call'[p] = call[p] /\ draft'[p] = draft[p] /\ key'[p] = key[p],
         \A p \in Requests \ {q} :
           call[p].op \in {"commit", "insert"} => batch'[call[p].batch] = batch[call[p].batch],
         call'[q].op = "map" => draft'[q] \in Draft,
         call'[q].op \in {"commit", "insert"} =>
           key'[q] \in Keys /\ Confirmed(call[q].batch, call[q].size)'
  PROVE  HeldInv'
<1>1. ASSUME NEW p \in Requests \ {q}, call'[p].op \in {"commit", "insert"}
      PROVE  key'[p] \in Keys /\ Confirmed(call[p].batch, call[p].size)'
  <2>1. call[p].op \in {"commit", "insert"} /\ call'[p] = call[p] BY <1>1
  <2>2. batch'[call[p].batch] = batch[call[p].batch] BY <2>1
  <2>3. key[p] \in Keys /\ Confirmed(call[p].batch, call[p].size) BY <2>1 DEF HeldInv
  <2>4. QED BY <2>1, <2>2, <2>3 DEF Confirmed
<1>2. ASSUME NEW p \in Requests \ {q}, call'[p].op = "map" PROVE draft'[p] \in Draft
  BY <1>2 DEF HeldInv
<1>3. QED BY <1>1, <1>2 DEF HeldInv

LEMMA StepOfOne ==
  ASSUME CallInv, NEW q \in Requests, NEW ops, CallStep(q, ops), NEW p \in Requests \ {q}
  PROVE  call'[p] = call[p] /\ locks'[p] = locks[p]
BY DEF CallStep, CallInv

LEMMA IdleAfterDone ==
  ASSUME CallInv, NEW q \in Requests, Done(q)
  PROVE  call'[q].op = "none"
BY DEF Done, CallInv, Idle

LEMMA StageCalls ==
  ASSUME CallInv, HeldInv, ImportTypeOK, RowsTyped, NEW q \in Requests, Stage(q)
  PROVE  CallStep(q, ImportOps) /\ RowsGoOn /\ HeldInv' /\ ImportTypeOK'
<1>1. CallStep(q, ImportOps) BY OnceIsAStep DEF Stage
<1>2. RowsGoOn BY RowsStay DEF Stage
<1>3. PICK b \in Batches, m \in Mappings, known \in SUBSET Lines :
        /\ batch[b] = None
        /\ batch' = [batch EXCEPT ![b] = NewBatch(Built(m, {}, known))]
        /\ shown' = [shown EXCEPT ![b] = <<Built(m, {}, known)>>]
        /\ UNCHANGED <<expired, draft, key, added, told>>
        /\ UNCHANGED call /\ call[q] = Idle
  BY DEF Stage, Once
<1>4. Built(m, {}, known) \in Preview BY BuiltTyped
<1>5. NewBatch(Built(m, {}, known)) \in BatchRow BY <1>4 DEF NewBatch, BatchRow
<1>6. <<Built(m, {}, known)>> \in Seq(Preview) BY <1>4
<1>7. ImportTypeOK' BY <1>3, <1>5, <1>6 DEF ImportTypeOK
<1>8. HeldInv'
  <2>1. \A p \in Requests \ {q} : call[p].op \in {"commit", "insert"} => call[p].batch # b
    BY <1>3 DEF HeldInv, Confirmed
  <2>2. call'[q].op = "none" BY <1>3 DEF Idle
  <2>3. \A p \in Requests \ {q} :
          call[p].op \in {"commit", "insert"} => batch'[call[p].batch] = batch[call[p].batch]
    BY <1>3, <2>1 DEF ImportTypeOK
  <2>4. \A p \in Requests \ {q} :
          call'[p] = call[p] /\ draft'[p] = draft[p] /\ key'[p] = key[p]
    BY <1>3
  <2>5. QED BY <2>2, <2>3, <2>4, OthersHeld
<1>9. QED BY <1>1, <1>2, <1>7, <1>8

LEMMA RemappedTyped ==
  ASSUME NEW row \in BatchRow, NEW p \in Preview
  PROVE  Remapped(row, p) \in BatchRow
<1> DEFINE n == row.version + 1
<1>1. n \in Nat BY DEF BatchRow
<1>2. Remapped(row, p) = [row EXCEPT !.rows = p, !.version = n] BY DEF Remapped
<1> HIDE DEF n
<1>3. [row EXCEPT !.rows = p, !.version = n] \in BatchRow BY <1>1 DEF BatchRow
<1>4. QED BY <1>2, <1>3

LEMMA AppendTyped ==
  ASSUME NEW S, NEW s \in Seq(S), NEW e \in S
  PROVE  Append(s, e) \in Seq(S)
OBVIOUS

LEMMA MapCalls ==
  ASSUME CallInv, HeldInv, ImportTypeOK, RowsTyped, NEW q \in Requests,
         LoadForMapping(q) \/ BuildRows(q) \/ ReplacePreview(q)
  PROVE  CallStep(q, ImportOps) /\ RowsGoOn /\ HeldInv' /\ ImportTypeOK'
<1>1. call[q] \in Call /\ Fits(call[q], locks[q]) BY DEF CallInv
<1>2. CASE LoadForMapping(q)
  <2>1. PICK b \in Batches, m \in Mappings, excluded \in SUBSET Lines :
          /\ Found(b)
          /\ Take(q, {}, [Idle EXCEPT !.op = "map", !.batch = b, !.size = batch[b].version])
          /\ draft' = [draft EXCEPT ![q] = [mapping |-> m, excluded |-> excluded,
                                            rows |-> None]]
    BY <1>2 DEF LoadForMapping
  <2> DEFINE size == batch[b].version
             c == [Idle EXCEPT !.op = "map", !.batch = b, !.size = size]
  <2>2. size \in Nat BY <2>1 DEF Found, ImportTypeOK, BatchRow
  <2>3. Take(q, {}, c) BY <2>1
  <2> HIDE DEF size
  <2>4. Fits(c, {}) /\ c.op = "map" /\ c.shares = {}
    BY <2>2 DEF Fits, Idle, Call, Operations, WeddingOps, ImportOps
  <2> HIDE DEF c
  <2>5. CallStep(q, ImportOps) BY <2>3, <2>4, TakeIsAStep DEF ImportOps
  <2>6. RowsGoOn BY <1>2, RowsStay DEF LoadForMapping
  <2>7. [mapping |-> m, excluded |-> excluded, rows |-> None] \in Draft BY DEF Draft
  <2>8. ImportTypeOK' BY <1>2, <2>1, <2>7 DEF LoadForMapping, ImportTypeOK
  <2>9. HeldInv'
    <3>1. UNCHANGED <<batch, key>> BY <1>2 DEF LoadForMapping
    <3>2. call'[q] = c BY <2>3 DEF Take, CallInv
    <3>3. draft'[q] \in Draft BY <2>1, <2>7 DEF ImportTypeOK
    <3>4. \A p \in Requests \ {q} :
            call'[p] = call[p] /\ draft'[p] = draft[p] /\ key'[p] = key[p]
      BY <2>1, <2>5, <3>1, StepOfOne
    <3>5. QED BY <2>4, <3>1, <3>2, <3>3, <3>4, OthersHeld
  <2>10. QED BY <2>5, <2>6, <2>8, <2>9
<1>3. CASE BuildRows(q)
  <2>1. PICK known \in SUBSET Lines :
          draft' = [draft EXCEPT ![q].rows = Built(draft[q].mapping, draft[q].excluded, known)]
    BY <1>3 DEF BuildRows
  <2>2. draft[q] \in Draft BY <1>3 DEF BuildRows, Running, HeldInv
  <2>3. Built(draft[q].mapping, draft[q].excluded, known) \in Preview
    BY <2>2, BuiltTyped DEF Draft
  <2> DEFINE p0 == Built(draft[q].mapping, draft[q].excluded, known)
  <2>4. draft' = [draft EXCEPT ![q] = [draft[q] EXCEPT !.rows = p0]]
    BY <2>1, <2>2 DEF ImportTypeOK
  <2> HIDE DEF p0
  <2>5. p0 \in Preview BY <2>3 DEF p0
  <2>6. [draft[q] EXCEPT !.rows = p0] \in Draft BY <2>2, <2>5 DEF Draft
  <2>7. ImportTypeOK' BY <1>3, <2>4, <2>6 DEF BuildRows, ImportTypeOK
  <2>8. CallStep(q, ImportOps) BY <1>3, SameIsAStep DEF BuildRows
  <2>9. RowsGoOn BY <1>3, RowsStay DEF BuildRows
  <2>10. HeldInv'
    <3>1. UNCHANGED <<batch, key, call>> BY <1>3 DEF BuildRows, callVars
    <3>2. call'[q].op = "map" BY <1>3, <3>1 DEF BuildRows, Running
    <3>3. draft'[q] \in Draft BY <2>4, <2>6 DEF ImportTypeOK
    <3>4. \A p \in Requests \ {q} :
            call'[p] = call[p] /\ draft'[p] = draft[p] /\ key'[p] = key[p]
      BY <2>4, <3>1
    <3>5. QED BY <3>1, <3>2, <3>3, <3>4, OthersHeld
  <2>11. QED BY <2>7, <2>8, <2>9, <2>10
<1>4. CASE ReplacePreview(q)
  <2> DEFINE b == call[q].batch
             p0 == draft[q].rows
  <2>1. /\ b \in Batches /\ draft[q] \in Draft
    BY <1>1, <1>4 DEF ReplacePreview, Running, HeldInv, Fits, ImportOps
  <2>2. /\ Found(b) /\ Free(q, {b}) /\ p0 # None
        /\ batch' = [batch EXCEPT ![b] = Remapped(@, p0)]
        /\ shown' = [shown EXCEPT ![b] = Append(@, p0)]
        /\ draft' = [draft EXCEPT ![q] = None]
        /\ UNCHANGED <<expired, key, added, told>>
        /\ Done(q)
    BY <1>4 DEF ReplacePreview
  <2>3. p0 \in Preview BY <2>1, <2>2 DEF Draft
  <2>4. batch[b] \in BatchRow BY <2>1, <2>2 DEF Found, ImportTypeOK
  <2> HIDE DEF p0
  <2>5. Remapped(batch[b], p0) \in BatchRow BY <2>3, <2>4, RemappedTyped
  <2>6. batch' = [batch EXCEPT ![b] = Remapped(batch[b], p0)] BY <2>2
  <2>7. Append(shown[b], p0) \in Seq(Preview) BY <2>1, <2>3 DEF ImportTypeOK
  <2>8. shown' = [shown EXCEPT ![b] = Append(shown[b], p0)] BY <2>2
  <2>9. ImportTypeOK'
    <3>1. batch' \in [Batches -> BatchRow \cup {None}]
      BY <2>5, <2>6 DEF ImportTypeOK
    <3>2. shown' \in [Batches -> Seq(Preview)] BY <2>7, <2>8 DEF ImportTypeOK
    <3>3. draft' \in [Requests -> Draft \cup {None}] BY <2>2 DEF ImportTypeOK
    <3>4. QED BY <2>2, <3>1, <3>2, <3>3 DEF ImportTypeOK
  <2>10. CallStep(q, ImportOps) BY <2>2, DoneIsAStep
  <2>11. RowsGoOn BY <1>4, RowsStay DEF ReplacePreview
  <2>12. HeldInv'
    <3>1. call'[q].op = "none" BY <2>2, IdleAfterDone
    <3>2. \A p \in Requests \ {q} :
            call'[p] = call[p] /\ draft'[p] = draft[p] /\ key'[p] = key[p]
      BY <2>2, <2>10, StepOfOne
    <3>3. \A p \in Requests \ {q} : call[p].op \in {"commit", "insert"} => call[p].batch # b
      BY <2>2 DEF Free, CallInv, Fits
    <3>4. \A p \in Requests \ {q} :
            call[p].op \in {"commit", "insert"} => batch'[call[p].batch] = batch[call[p].batch]
      BY <2>6, <3>3 DEF CallInv, Fits, ImportOps, ImportTypeOK
    <3>5. QED BY <3>1, <3>2, <3>4, OthersHeld
  <2>13. QED BY <2>9, <2>10, <2>11, <2>12
<1>5. QED BY <1>2, <1>3, <1>4

\* A confirmed preview has a contact in every line it inserts.
LEMMA SideNamed ==
  ASSUME NEW p \in Preview, Importable(p), NEW l \in Included(p)
  PROVE  p[l].cell.side \in Affiliations \cup {None}
<1>1. p[l].cell # None /\ p[l] \in Line BY DEF Importable, Included, Preview
<1>2. p[l].cell \in Cell /\ p[l].cell # None BY <1>1 DEF Line
<1>3. p[l].cell \in [who : Contacts, side : Affiliations \cup {None}] BY <1>2 DEF Cell
<1>4. QED BY <1>3

LEMMA InsertedTyped ==
  ASSUME RowsTyped, NEW p \in Preview, Importable(p), Inserted(p),
         UNCHANGED <<aff, linkVars, seatVars>>
  PROVE  RowsGoOn
<1>1. PICK who \in [Included(p) -> Guests \ Present] :
        guest' = [g \in Guests |->
                    IF \E l \in Included(p) : who[l] = g
                    THEN [party |-> 1, archived |-> FALSE,
                          aff |-> p[CHOOSE l \in Included(p) : who[l] = g].cell.side]
                    ELSE guest[g]]
  BY DEF Inserted
<1>2. \A l \in Included(p) : p[l].cell.side \in Affiliations \cup {None} BY SideNamed
<1>3. ASSUME NEW g \in Guests PROVE guest'[g] \in Guest \cup {None}
  <2>1. CASE \E l \in Included(p) : who[l] = g
    <3> DEFINE l == CHOOSE k \in Included(p) : who[k] = g
    <3>1. l \in Included(p) BY <2>1
    <3>2. guest'[g] = [party |-> 1, archived |-> FALSE, aff |-> p[l].cell.side]
      BY <1>1, <2>1
    <3> HIDE DEF l
    <3>3. QED BY <1>2, <3>1, <3>2, WeddingAssumption DEF Guest
  <2>2. CASE ~\E l \in Included(p) : who[l] = g BY <1>1, <2>2 DEF RowsTyped
  <2>3. QED BY <2>1, <2>2
<1>4. ASSUME NEW g \in Present PROVE guest'[g] \in Guest
  <2>1. ~\E l \in Included(p) : who[l] = g BY <1>1
  <2>2. g \in Guests /\ guest[g] \in Guest BY DEF Present, RowsTyped
  <2>3. QED BY <1>1, <2>1, <2>2
<1>5. guest' \in [Guests -> Guest \cup {None}] BY <1>1, <1>3
<1>6. QED BY <1>4, <1>5, GuestsWritten

\* What a batch has shown its couple: the previews by version, the one it holds
\* last, and nothing imported before it is committed.
Told(b) ==
  /\ batch[b].rows = shown[b][Len(shown[b])]
  /\ Len(shown[b]) = batch[b].version /\ shown[b] # <<>>
  /\ batch[b].committed =>
       /\ batch[b].result # None
       /\ told[b] = {[key |-> batch[b].key, rows |-> batch[b].result]}
  /\ ~batch[b].committed => added[b] = <<>> /\ told[b] = {}

PreviewInv ==
  \A b \in Batches :
    /\ batch[b] = None /\ b \notin expired =>
         shown[b] = <<>> /\ added[b] = <<>> /\ told[b] = {}
    /\ batch[b] # None => Told(b)

LEMMA CommitCalls ==
  ASSUME CallInv, HeldInv, PreviewInv, ImportTypeOK, RowsTyped, NEW q \in Requests,
         BeginCommit(q) \/ InsertGuests(q) \/ CommitImport(q) \/ RepeatCommit(q)
  PROVE  CallStep(q, ImportOps) /\ RowsGoOn /\ HeldInv' /\ ImportTypeOK'
<1>1. call[q] \in Call /\ Fits(call[q], locks[q]) BY DEF CallInv
<1>2. CASE BeginCommit(q)
  <2>1. PICK b \in Batches, version \in Nat, k \in Keys :
          /\ Found(b)
          /\ IsCurrent(b, version) /\ Confirms(shown[b][version], batch[b].rows)
          /\ Take(q, {b}, [Idle EXCEPT !.op = "commit", !.batch = b, !.size = version])
          /\ key' = [key EXCEPT ![q] = k]
    <3>1. ASSUME NEW b \in Batches, NEW version \in 1..Len(shown[b]) PROVE version \in Nat
      <4>1. Len(shown[b]) \in Nat BY DEF ImportTypeOK
      <4>2. QED BY <4>1
    <3>2. QED BY <1>2, <3>1 DEF BeginCommit
  <2> DEFINE c == [Idle EXCEPT !.op = "commit", !.batch = b, !.size = version]
  <2>3. Fits(c, {b}) /\ c.op = "commit" /\ c.shares = {}
    BY DEF Fits, Idle, Call, Operations, WeddingOps, ImportOps
  <2>4. c.batch = b /\ c.size = version BY DEF Idle
  <2>5. Take(q, {b}, c) /\ {b} \in SUBSET Rows BY <2>1 DEF Rows
  <2> HIDE DEF c
  <2>6. CallStep(q, ImportOps) BY <2>3, <2>5, TakeIsAStep DEF ImportOps
  <2>7. RowsGoOn BY <1>2, RowsStay DEF BeginCommit
  <2>8. ImportTypeOK' BY <1>2, <2>1 DEF BeginCommit, ImportTypeOK
  <2>9. HeldInv'
    <3>1. UNCHANGED <<batch, draft>> BY <1>2 DEF BeginCommit
    <3>2. call'[q] = c BY <2>5 DEF Take, CallInv
    <3>3. key'[q] \in Keys BY <2>1 DEF ImportTypeOK
    <3>4. Confirmed(b, version)'
      BY <2>1, <3>1 DEF Confirmed, Found, IsCurrent, Confirms
    <3>5. Confirmed(call[q].batch, call[q].size)' BY <2>4, <3>2, <3>4
    <3>6. \A p \in Requests \ {q} :
            call'[p] = call[p] /\ draft'[p] = draft[p] /\ key'[p] = key[p]
      BY <2>1, <2>6, <3>1, StepOfOne
    <3>7. QED BY <2>3, <3>1, <3>2, <3>3, <3>5, <3>6, OthersHeld
  <2>10. QED BY <2>6, <2>7, <2>8, <2>9
<1>3. CASE CommitImport(q)
  <2> DEFINE b == call[q].batch
             p == batch[b].rows
  <2>1. /\ Inserted(p) /\ Done(q)
        /\ batch' = [batch EXCEPT ![b] = Marked(@, key[q])]
        /\ added' = [added EXCEPT ![b] =
                       Append(@, [confirmed |-> shown[b][call[q].size], inserted |-> p])]
        /\ told' = [told EXCEPT ![b] = @ \cup {[key |-> key[q], rows |-> p]}]
        /\ key' = [key EXCEPT ![q] = None]
        /\ UNCHANGED <<aff, expired, draft, shown, linkVars, seatVars>>
        /\ IsCurrent(b, call[q].size)
    BY <1>3 DEF CommitImport
  <2>2. /\ b \in Batches /\ b \in locks[q]
        /\ key[q] \in Keys /\ Confirmed(b, call[q].size)
    BY <1>1, <1>3 DEF CommitImport, Running, HeldInv, Fits, ImportOps
  <2>3. batch[b] \in BatchRow BY <2>2 DEF Confirmed, ImportTypeOK
  <2>4. p \in Preview /\ Importable(p) BY <2>2, <2>3 DEF Confirmed, BatchRow
  <2>5. CallStep(q, ImportOps) BY <2>1, DoneIsAStep
  <2>6. RowsGoOn BY <2>1, <2>4, InsertedTyped
  <2>7. Marked(batch[b], key[q]) \in BatchRow BY <2>2, <2>3 DEF Marked, BatchRow
  <2>8. shown[b][call[q].size] \in Preview
    <3>1. /\ Len(shown[b]) = batch[b].version /\ shown[b] # <<>>
          /\ batch[b].version = call[q].size
      BY <2>1, <2>2 DEF IsCurrent, Confirmed, PreviewInv, Told
    <3>2. shown[b] \in Seq(Preview) BY <2>2 DEF ImportTypeOK
    <3>3. call[q].size \in 1..Len(shown[b]) BY <3>1, <3>2
    <3>4. QED BY <3>2, <3>3
  <2>9. ImportTypeOK'
    <3> DEFINE e == [confirmed |-> shown[b][call[q].size], inserted |-> p]
    <3>1. e \in [confirmed : Preview, inserted : Preview] BY <2>4, <2>8
    <3>2. added' = [added EXCEPT ![b] = Append(added[b], e)] BY <2>1
    <3> HIDE DEF e
    <3>3. Append(added[b], e) \in Seq([confirmed : Preview, inserted : Preview])
      <4>1. added[b] \in Seq([confirmed : Preview, inserted : Preview])
        BY <2>2 DEF ImportTypeOK
      <4>2. QED BY <3>1, <4>1, AppendTyped
    <3>4. added' \in [Batches -> Seq([confirmed : Preview, inserted : Preview])]
      BY <2>2, <3>2, <3>3 DEF ImportTypeOK
    <3>5. told[b] \cup {[key |-> key[q], rows |-> p]} \in SUBSET Receipt
      BY <2>2, <2>4 DEF ImportTypeOK, Receipt
    <3>6. told' \in [Batches -> SUBSET Receipt]
      BY <2>1, <2>2, <3>5 DEF ImportTypeOK
    <3>7. batch' \in [Batches -> BatchRow \cup {None}]
      BY <2>1, <2>7 DEF ImportTypeOK
    <3>8. QED BY <2>1, <3>4, <3>6, <3>7 DEF ImportTypeOK
  <2>10. HeldInv'
    <3>1. call'[q].op = "none" BY <2>1, IdleAfterDone
    <3>2. \A r \in Requests \ {q} :
            call'[r] = call[r] /\ draft'[r] = draft[r] /\ key'[r] = key[r]
      BY <2>1, <2>5, StepOfOne
    <3>3. \A r \in Requests \ {q} : call[r].op \in {"commit", "insert"} => call[r].batch # b
      BY <2>2 DEF CallInv, Fits
    <3>4. \A r \in Requests \ {q} :
            call[r].op \in {"commit", "insert"} => batch'[call[r].batch] = batch[call[r].batch]
      BY <2>1, <3>3 DEF CallInv, Fits, ImportOps, ImportTypeOK
    <3>5. QED BY <3>1, <3>2, <3>4, OthersHeld
  <2>11. QED BY <2>5, <2>6, <2>9, <2>10
<1>4. CASE InsertGuests(q)
  <2> DEFINE p == batch[call[q].batch].rows
             parents == IF Included(p) = {} THEN {} ELSE {Wedding}
             need == SidesNamed(p)
             c == [call[q] EXCEPT !.op = "insert", !.shares = parents, !.need = need]
  <2>1. /\ call[q].op = "commit" /\ Shareable(q, parents) /\ Decide(q, c)
        /\ UNCHANGED <<importVars, guestVars, linkVars, seatVars>>
    BY <1>4 DEF InsertGuests, Running
  <2>2. /\ call[q].batch \in Batches /\ call[q].batch \in locks[q]
        /\ key[q] \in Keys /\ Confirmed(call[q].batch, call[q].size)
    BY <1>1, <2>1 DEF HeldInv, Fits, ImportOps
  <2>3. batch[call[q].batch] \in BatchRow BY <2>2 DEF Confirmed, ImportTypeOK
  <2>4. p \in Preview /\ Importable(p) BY <2>2, <2>3 DEF Confirmed, BatchRow
  <2> HIDE DEF p
  <2>5. need \in SUBSET Rows /\ parents \in SUBSET Rows
    BY <2>4, SideNamed DEF SidesNamed, Rows
  <2> HIDE DEF need, parents
  <2>6. /\ c \in Call /\ c.op = "insert" /\ c.batch = call[q].batch
        /\ c.size = call[q].size /\ c.guests = call[q].guests /\ c.shares = parents
    <3>1. "insert" \in Operations BY DEF Operations
    <3>2. QED BY <1>1, <2>5, <3>1 DEF Call
  <2> HIDE DEF c
  <2>7. Fits(c, locks[q]) BY <1>1, <2>2, <2>6 DEF Fits, WeddingOps, ImportOps
  <2>8. CallStep(q, ImportOps) BY <2>1, <2>6, <2>7, DecideIsAStep DEF ImportOps
  <2>9. RowsGoOn BY <2>1, RowsStay
  <2>10. ImportTypeOK' BY <2>1 DEF ImportTypeOK, importVars
  <2>11. HeldInv'
    <3>1. UNCHANGED <<batch, draft, key>> BY <2>1 DEF importVars
    <3>2. call'[q] = c BY <2>1 DEF Decide, CallInv
    <3>3. Confirmed(call[q].batch, call[q].size)'
      BY <2>2, <2>6, <3>1, <3>2 DEF Confirmed
    <3>4. \A r \in Requests \ {q} :
            call'[r] = call[r] /\ draft'[r] = draft[r] /\ key'[r] = key[r]
      BY <2>8, <3>1, StepOfOne
    <3>5. QED BY <2>2, <2>6, <3>1, <3>2, <3>3, <3>4, OthersHeld
  <2>12. QED BY <2>8, <2>9, <2>10, <2>11
<1>5. CASE RepeatCommit(q)
  <2>1. PICK b \in Batches, k \in Keys :
          /\ Found(b) /\ batch[b].committed /\ batch[b].key = k /\ Once(q)
          /\ told' = [told EXCEPT ![b] = @ \cup {[key |-> k, rows |-> batch[b].result]}]
          /\ UNCHANGED <<batch, expired, draft, key, shown, added>>
    BY <1>5 DEF RepeatCommit, SameKey
  <2>2. batch[b] \in BatchRow /\ batch[b].result # None
    BY <2>1 DEF Found, ImportTypeOK, PreviewInv, Told
  <2>3. batch[b].result \in Preview BY <2>2 DEF BatchRow
  <2>4. [key |-> k, rows |-> batch[b].result] \in Receipt BY <2>3 DEF Receipt
  <2>5. ImportTypeOK' BY <2>1, <2>4 DEF ImportTypeOK
  <2>6. CallStep(q, ImportOps) BY <2>1, OnceIsAStep
  <2>7. RowsGoOn BY <1>5, RowsStay DEF RepeatCommit
  <2>8. HeldInv' BY <2>1 DEF HeldInv, Once, Confirmed
  <2>9. QED BY <2>5, <2>6, <2>7, <2>8
<1>6. QED BY <1>2, <1>3, <1>4, <1>5

-----------------------------------------------------------------------------
(* What an import has shown, and that it is the import OneImport promises.  *)

LEMMA OthersTold ==
  ASSUME PreviewInv, NEW b \in Batches, UNCHANGED expired,
         \A k \in Batches \ {b} :
           /\ batch'[k] = batch[k] /\ shown'[k] = shown[k]
           /\ added'[k] = added[k] /\ told'[k] = told[k],
         batch'[b] # None, Told(b)'
  PROVE  PreviewInv'
<1>1. ASSUME NEW k \in Batches \ {b}, batch'[k] # None PROVE Told(k)'
  BY <1>1 DEF PreviewInv, Told
<1>2. ASSUME NEW k \in Batches, batch'[k] = None /\ k \notin expired'
      PROVE  shown'[k] = <<>> /\ added'[k] = <<>> /\ told'[k] = {}
  BY <1>2 DEF PreviewInv
<1>3. ASSUME NEW k \in Batches, batch'[k] # None PROVE Told(k)'
  BY <1>1, <1>3
<1>4. QED BY <1>2, <1>3 DEF PreviewInv

LEMMA StageTold ==
  ASSUME ImportTypeOK, PreviewInv, NEW q \in Requests, Stage(q)
  PROVE  PreviewInv' /\ Import!Next
<1>1. PICK b \in Batches, m \in Mappings, known \in SUBSET Lines :
        /\ batch[b] = None /\ b \notin expired
        /\ batch' = [batch EXCEPT ![b] = NewBatch(Built(m, {}, known))]
        /\ shown' = [shown EXCEPT ![b] = <<Built(m, {}, known)>>]
        /\ UNCHANGED <<expired, added, told>>
  BY DEF Stage
<1> DEFINE p == Built(m, {}, known)
<1>2. p \in Preview BY BuiltTyped
<1>3. /\ batch' = [batch EXCEPT ![b] = NewBatch(p)]
      /\ shown' = [shown EXCEPT ![b] = <<p>>]
  BY <1>1
<1> HIDE DEF p
<1>4. shown[b] = <<>> /\ added[b] = <<>> /\ told[b] = {} BY <1>1 DEF PreviewInv
<1>5. /\ NewBatch(p).rows = p /\ NewBatch(p).version = 1 /\ ~NewBatch(p).committed
      /\ NewBatch(p) \in BatchRow
  BY <1>2 DEF NewBatch, BatchRow
<1>6. NewBatch(p) # None BY <1>5, ImportAssumption
<1>7. batch'[b] = NewBatch(p) /\ shown'[b] = <<p>>
  BY <1>3 DEF ImportTypeOK
<1>8. Len(<<p>>) = 1 /\ <<p>>[1] = p /\ <<p>> # <<>> OBVIOUS
<1>9. Told(b)' BY <1>1, <1>4, <1>5, <1>7, <1>8 DEF Told
<1>10. PreviewInv' BY <1>1, <1>3, <1>6, <1>7, <1>9, OthersTold DEF ImportTypeOK
<1>11. Append(shown[b], p) = <<p>> BY <1>4
<1>12. Len(shown'[b]) > Len(shown[b]) BY <1>4, <1>7, <1>8
<1>13. Import!Offer(b)
  BY <1>1, <1>2, <1>3, <1>4, <1>11, <1>12 DEF Import!Offer
<1>14. QED BY <1>10, <1>13 DEF Import!Next

LEMMA ReplaceTold ==
  ASSUME CallInv, HeldInv, ImportTypeOK, PreviewInv, NEW q \in Requests, ReplacePreview(q)
  PROVE  PreviewInv' /\ Import!Next
<1>1. call[q].batch \in Batches /\ draft[q] \in Draft /\ draft[q].rows # None
  BY DEF ReplacePreview, Running, CallInv, HeldInv, Fits, ImportOps
<1>2. PICK b \in Batches, p \in Preview : b = call[q].batch /\ p = draft[q].rows
  BY <1>1 DEF Draft
<1>3. /\ Found(b) /\ IsCurrent(b, call[q].size)
      /\ batch' = [batch EXCEPT ![b] = Remapped(@, p)]
      /\ shown' = [shown EXCEPT ![b] = Append(@, p)]
      /\ UNCHANGED <<expired, added, told>>
  BY <1>2 DEF ReplacePreview
<1>4. batch[b] \in BatchRow /\ Told(b) /\ ~batch[b].committed
  BY <1>3 DEF Found, IsCurrent, ImportTypeOK, PreviewInv
<1>5. shown[b] \in Seq(Preview) /\ added[b] = <<>> /\ told[b] = {}
  BY <1>4 DEF ImportTypeOK, Told
<1>6. batch'[b] = Remapped(batch[b], p) /\ shown'[b] = Append(shown[b], p)
  BY <1>3 DEF ImportTypeOK
<1>7. Remapped(batch[b], p) \in BatchRow BY <1>4, RemappedTyped
<1>8. /\ Remapped(batch[b], p).rows = p /\ ~Remapped(batch[b], p).committed
      /\ Remapped(batch[b], p).version = batch[b].version + 1
  BY <1>4 DEF Remapped, BatchRow
<1>9. /\ Len(Append(shown[b], p)) = Len(shown[b]) + 1
      /\ Append(shown[b], p)[Len(shown[b]) + 1] = p /\ Append(shown[b], p) # <<>>
  BY <1>5
<1>10. Len(shown[b]) = batch[b].version BY <1>4 DEF Told
<1>11. Told(b)' BY <1>3, <1>5, <1>6, <1>8, <1>9, <1>10 DEF Told
<1>12. batch'[b] # None BY <1>6, <1>7, ImportAssumption
<1>13. PreviewInv' BY <1>3, <1>11, <1>12, OthersTold DEF ImportTypeOK
<1>14. Len(shown'[b]) > Len(shown[b]) BY <1>5, <1>6, <1>9
<1>15. Import!Offer(b) BY <1>3, <1>5, <1>14 DEF Import!Offer
<1>16. QED BY <1>13, <1>15 DEF Import!Next

\* The preview that is imported is the last one shown, and the one confirmed.
LEMMA CommitTold ==
  ASSUME CallInv, HeldInv, ImportTypeOK, PreviewInv, NEW q \in Requests, CommitImport(q)
  PROVE  PreviewInv' /\ Import!Next
<1>1. /\ call[q].batch \in Batches /\ key[q] \in Keys
      /\ Confirmed(call[q].batch, call[q].size)
  BY DEF CommitImport, Running, CallInv, HeldInv, Fits, ImportOps
<1>2. PICK b \in Batches : b = call[q].batch BY <1>1
<1>3. batch[b] \in BatchRow /\ Told(b) /\ ~batch[b].committed
  BY <1>1, <1>2 DEF Confirmed, ImportTypeOK, PreviewInv
<1>4. batch[b].rows \in Preview /\ Importable(batch[b].rows)
  BY <1>1, <1>2, <1>3 DEF Confirmed, BatchRow
<1>5. PICK p \in Preview : p = batch[b].rows /\ Importable(p) BY <1>4
<1>6. /\ IsCurrent(b, call[q].size)
      /\ batch' = [batch EXCEPT ![b] = Marked(@, key[q])]
      /\ added' = [added EXCEPT ![b] =
                     Append(@, [confirmed |-> shown[b][call[q].size], inserted |-> p])]
      /\ told' = [told EXCEPT ![b] = @ \cup {[key |-> key[q], rows |-> p]}]
      /\ UNCHANGED <<expired, shown>>
  BY <1>2, <1>5 DEF CommitImport
<1>7. /\ Len(shown[b]) = call[q].size /\ shown[b] # <<>>
      /\ p = shown[b][Len(shown[b])] /\ added[b] = <<>> /\ told[b] = {}
  BY <1>3, <1>5, <1>6 DEF Told, IsCurrent
<1>8. Marked(batch[b], key[q]) \in BatchRow BY <1>1, <1>3 DEF Marked, BatchRow
<1>9. /\ Marked(batch[b], key[q]).rows = p /\ Marked(batch[b], key[q]).committed
      /\ Marked(batch[b], key[q]).result = p /\ Marked(batch[b], key[q]).key = key[q]
      /\ Marked(batch[b], key[q]).version = batch[b].version
  BY <1>3, <1>5 DEF Marked, BatchRow
<1> DEFINE e == [confirmed |-> p, inserted |-> p]
           r == [key |-> key[q], rows |-> p]
<1>10. /\ batch'[b] = Marked(batch[b], key[q])
       /\ added' = [added EXCEPT ![b] = Append(added[b], e)]
       /\ told' = [told EXCEPT ![b] = {r}]
  BY <1>6, <1>7 DEF ImportTypeOK
<1>11. p # None /\ told'[b] = {r} BY <1>10, ImportAssumption DEF ImportTypeOK
<1>12. Told(b)' BY <1>3, <1>5, <1>6, <1>7, <1>9, <1>10, <1>11 DEF Told
<1>13. batch'[b] # None BY <1>8, <1>10, ImportAssumption
<1>14. PreviewInv' BY <1>6, <1>10, <1>12, <1>13, OthersTold DEF ImportTypeOK
<1>15. Append(added[b], e) = <<e>> BY <1>7
<1>16. \E k \in Keys : told' = [told EXCEPT ![b] = {[key |-> k, rows |-> p]}]
  BY <1>1, <1>10
<1> HIDE DEF r
<1>17. Import!Accept(b) BY <1>5, <1>6, <1>7, <1>10, <1>15, <1>16 DEF Import!Accept
<1>18. QED BY <1>14, <1>17 DEF Import!Next

LEMMA ImportTold ==
  ASSUME CallInv, HeldInv, ImportTypeOK, PreviewInv, NEW q \in Requests, ImportStep(q)
  PROVE  PreviewInv' /\ (Import!Next \/ UNCHANGED Import!vars)
<1>1. CASE Stage(q) BY <1>1, StageTold
<1>2. CASE ReplacePreview(q) BY <1>2, ReplaceTold
<1>3. CASE CommitImport(q) BY <1>3, CommitTold
<1>4. CASE LoadForMapping(q) \/ BuildRows(q) \/ BeginCommit(q) \/ InsertGuests(q)
  <2>1. UNCHANGED <<batch, expired, shown, added, told>>
    BY <1>4 DEF LoadForMapping, BuildRows, BeginCommit, InsertGuests, importVars
  <2>2. QED BY <2>1 DEF PreviewInv, Told, Import!vars
<1>5. CASE RepeatCommit(q)
  <2>1. PICK b \in Batches, k \in Keys :
          /\ Found(b) /\ batch[b].committed /\ batch[b].key = k
          /\ told' = [told EXCEPT ![b] = @ \cup {[key |-> k, rows |-> batch[b].result]}]
          /\ UNCHANGED <<batch, expired, shown, added>>
    BY <1>5 DEF RepeatCommit, SameKey
  <2>2. told[b] = {[key |-> k, rows |-> batch[b].result]}
    BY <2>1 DEF Found, PreviewInv, Told
  <2>3. told' = told BY <2>1, <2>2 DEF ImportTypeOK
  <2>4. QED BY <2>1, <2>3 DEF PreviewInv, Told, Import!vars
<1>6. QED BY <1>1, <1>2, <1>3, <1>4, <1>5 DEF ImportStep

-----------------------------------------------------------------------------
(* Every step of the workspace.                                             *)

\* What holds of the rows and the calls whatever the calls are about.
Typed ==
  /\ CallInv /\ RowsTyped
  /\ LedgerTypeOK /\ template \subseteq Templates
  /\ ImportTypeOK /\ HeldInv /\ PreviewInv

LEMMA TypedInit == Init => Typed
<1> SUFFICES ASSUME Init PROVE Typed
  OBVIOUS
<1>1. CallInv
  <2>1. /\ call = [q \in Requests |-> Idle] /\ locks = [q \in Requests |-> {}]
        /\ calls = 0
    BY DEF Init
  <2>2. Idle \in Call /\ Fits(Idle, {})
    <3>1. Fits(Idle, {}) BY IdleFits
    <3>2. QED BY <3>1 DEF Fits
  <2>3. calls \in 0..MaxCalls BY <2>1, WeddingAssumption
  <2>4. QED BY <2>1, <2>2, <2>3 DEF CallInv
<1>2. PICK rows \in InitialRows :
        /\ guest = rows.guest /\ aff = rows.aff /\ link = rows.link
        /\ rsvp = rows.rsvp /\ table = rows.table /\ seat = rows.seat
        /\ currency = rows.currency /\ quote = rows.quote /\ cost = rows.cost
        /\ category = rows.category /\ template = rows.template
        /\ expired = rows.expired
  BY DEF Init
<1>3. RowsTyped
  <2>1. \A l \in Links : link[l] # None => guest[link[l].guest] # None
    BY <1>2, RowsAssumption
  <2>2. link \in [Links -> Link \cup {None}] BY <1>2, RowsAssumption
  <2>3. GuestsLinked BY <2>1, <2>2 DEF GuestsLinked, Issued, Present, Link
  <2>4. QED BY <1>2, <2>3, RowsAssumption DEF RowsTyped
<1>4. LedgerTypeOK /\ template \subseteq Templates
  BY <1>2, RowsAssumption DEF LedgerTypeOK
<1>5. ImportTypeOK /\ HeldInv /\ PreviewInv
  <2>1. /\ batch = [b \in Batches |-> None] /\ draft = [q \in Requests |-> None]
        /\ key = [q \in Requests |-> None] /\ shown = [b \in Batches |-> <<>>]
        /\ added = [b \in Batches |-> <<>>] /\ told = [b \in Batches |-> {}]
        /\ expired \subseteq Batches
    BY <1>2, RowsAssumption DEF Init, ImportInit
  <2>2. \A S : <<>> \in Seq(S) OBVIOUS
  <2>3. ImportTypeOK BY <2>1, <2>2 DEF ImportTypeOK
  <2>4. \A q \in Requests : call[q].op = "none" BY DEF Init, Idle
  <2>5. HeldInv BY <2>4 DEF HeldInv
  <2>6. PreviewInv BY <2>1 DEF PreviewInv
  <2>7. QED BY <2>3, <2>5, <2>6
<1>6. QED BY <1>1, <1>3, <1>4, <1>5 DEF Typed

\* A call that is not one of an import leaves the import to the others.
LEMMA ImportGoesOn ==
  ASSUME Typed, NEW q \in Requests, NEW ops, CallStep(q, ops), ops \cap ImportOps = {},
         UNCHANGED importVars
  PROVE  ImportTypeOK' /\ HeldInv' /\ PreviewInv'
<1>1. ImportTypeOK' /\ HeldInv' BY ImportKept DEF Typed
<1>2. PreviewInv' BY DEF Typed, PreviewInv, Told, importVars
<1>3. QED BY <1>1, <1>2

LEMMA RowsAndCallsGoOn ==
  ASSUME Typed, NEW q \in Requests, NEW ops, CallStep(q, ops), RowsGoOn
  PROVE  CallInv' /\ RowsTyped'
BY CallsGoOn DEF Typed, RowsGoOn

LEMMA ImportCallsTyped ==
  ASSUME Typed, NEW q \in Requests, ImportStep(q)
  PROVE  CallStep(q, ImportOps) /\ RowsGoOn /\ HeldInv' /\ ImportTypeOK' /\ PreviewInv'
<1>1. PreviewInv' BY ImportTold DEF Typed
<1>2. QED BY <1>1, StageCalls, MapCalls, CommitCalls DEF Typed, ImportStep

LEMMA FailTyped ==
  ASSUME Typed, NEW q \in Requests, Refuse(q), ForgetImport(q)
  PROVE  CallStep(q, {}) /\ RowsGoOn /\ HeldInv' /\ ImportTypeOK' /\ PreviewInv'
<1>1. CallStep(q, {}) BY DoneIsAStep DEF Refuse, Typed
<1>2. RowsGoOn BY RowsStay DEF Refuse, Typed
<1>3. ImportTypeOK' BY DEF ForgetImport, Typed, ImportTypeOK
<1>4. PreviewInv' BY DEF ForgetImport, Typed, PreviewInv, Told
<1>5. HeldInv'
  <2>1. call'[q].op = "none" BY IdleAfterDone DEF Refuse, Typed
  <2>2. \A p \in Requests \ {q} :
          call'[p] = call[p] /\ draft'[p] = draft[p] /\ key'[p] = key[p]
    BY <1>1, StepOfOne DEF ForgetImport, Typed, ImportTypeOK
  <2>3. UNCHANGED batch BY DEF ForgetImport
  <2>4. QED BY <2>1, <2>2, <2>3, OthersHeld DEF Typed
<1>6. QED BY <1>1, <1>2, <1>3, <1>4, <1>5

LEMMA WaitTyped ==
  ASSUME Typed, NEW q \in Requests, Wait(q)
  PROVE  CallStep(q, {}) /\ RowsGoOn
<1>1. CallStep(q, {}) BY LockIsAStep, ShareIsAStep DEF Wait, Typed
<1>2. RowsGoOn BY RowsStay DEF Wait, LockNext, ShareNext, Typed
<1>3. QED BY <1>1, <1>2

\* A batch is swept away only when no commit holds it.
LEMMA BatchesAge ==
  ASSUME Typed, NEW b \in Batches, Expire(b) \/ Cleanup(b), UNCHANGED callVars
  PROVE  HeldInv' /\ ImportTypeOK' /\ PreviewInv'
<1>1. CASE Expire(b)
  <2>1. /\ batch[b] # None /\ expired' = expired \cup {b}
        /\ UNCHANGED <<batch, draft, key, shown, added, told>>
    BY <1>1 DEF Expire
  <2>2. ImportTypeOK' BY <2>1 DEF Typed, ImportTypeOK
  <2>3. HeldInv' BY <2>1 DEF Typed, HeldInv, Confirmed, callVars
  <2>4. PreviewInv' BY <2>1 DEF Typed, PreviewInv, Told
  <2>5. QED BY <2>2, <2>3, <2>4
<1>2. CASE Cleanup(b)
  <2>1. /\ b \in expired /\ batch' = [batch EXCEPT ![b] = None]
        /\ UNCHANGED <<expired, draft, key, shown, added, told>>
        /\ \A q \in Requests : b \notin locks[q]
    BY <1>2 DEF Cleanup
  <2>2. ImportTypeOK' BY <2>1 DEF Typed, ImportTypeOK
  <2>3. \A k \in Batches \ {b} : batch'[k] = batch[k]
    BY <2>1 DEF Typed, ImportTypeOK
  <2>4. \A q \in Requests :
          call[q].op \in {"commit", "insert"} => call[q].batch \in Batches \ {b}
    BY <2>1 DEF Typed, CallInv, Fits, ImportOps
  <2>5. HeldInv' BY <2>1, <2>3, <2>4 DEF Typed, HeldInv, Confirmed, callVars
  <2>6. PreviewInv'
    <3>1. batch'[b] = None /\ b \in expired' BY <2>1 DEF Typed, ImportTypeOK
    <3>2. ASSUME NEW k \in Batches \ {b}, batch'[k] # None PROVE Told(k)'
      BY <2>1, <2>3, <3>2 DEF Typed, PreviewInv, Told
    <3>3. ASSUME NEW k \in Batches \ {b}, batch'[k] = None /\ k \notin expired'
          PROVE  shown'[k] = <<>> /\ added'[k] = <<>> /\ told'[k] = {}
      BY <2>1, <2>3, <3>3 DEF Typed, PreviewInv
    <3>4. QED BY <3>1, <3>2, <3>3 DEF PreviewInv
  <2>7. QED BY <2>2, <2>5, <2>6
<1>3. QED BY <1>1, <1>2

LEMMA TypedStep == Typed /\ [Next]_vars => Typed'
<1> SUFFICES ASSUME Typed, [Next]_vars PROVE Typed'
  OBVIOUS
<1>1. ASSUME NEW q \in Requests, GuestCalls(q) PROVE Typed'
  <2>1. CallStep(q, GuestOps) /\ RowsGoOn
    BY <1>1, GuestCallsTyped DEF GuestCalls, Typed
  <2>2. CallInv' /\ RowsTyped' BY <2>1, RowsAndCallsGoOn
  <2>3. ImportTypeOK' /\ HeldInv' /\ PreviewInv'
    BY <1>1, <2>1, ImportGoesOn DEF GuestCalls, GuestOps, ImportOps
  <2>4. QED BY <1>1, <2>2, <2>3 DEF GuestCalls, Typed, LedgerTypeOK, ledgerVars
<1>2. ASSUME NEW q \in Requests, LinkCalls(q) PROVE Typed'
  <2>1. CallStep(q, LinkOps) /\ RowsGoOn
    BY <1>2, LinkCallsTyped DEF LinkCalls, Typed
  <2>2. CallInv' /\ RowsTyped' BY <2>1, RowsAndCallsGoOn
  <2>3. ImportTypeOK' /\ HeldInv' /\ PreviewInv'
    BY <1>2, <2>1, ImportGoesOn DEF LinkCalls, LinkOps, ImportOps
  <2>4. QED BY <1>2, <2>2, <2>3 DEF LinkCalls, Typed, LedgerTypeOK, ledgerVars
<1>3. ASSUME NEW q \in Requests, SeatCalls(q) PROVE Typed'
  <2>1. CallStep(q, SeatOps) /\ RowsGoOn
    BY <1>3, SeatCallsTyped DEF SeatCalls, Typed
  <2>2. CallInv' /\ RowsTyped' BY <2>1, RowsAndCallsGoOn
  <2>3. ImportTypeOK' /\ HeldInv' /\ PreviewInv'
    BY <1>3, <2>1, ImportGoesOn DEF SeatCalls, SeatOps, ImportOps
  <2>4. QED BY <1>3, <2>2, <2>3 DEF SeatCalls, Typed, LedgerTypeOK, ledgerVars
<1>4. ASSUME NEW q \in Requests, ImportCalls(q) PROVE Typed'
  <2>1. /\ CallStep(q, ImportOps) /\ RowsGoOn
        /\ HeldInv' /\ ImportTypeOK' /\ PreviewInv'
    BY <1>4, ImportCallsTyped DEF ImportCalls
  <2>2. CallInv' /\ RowsTyped' BY <2>1, RowsAndCallsGoOn
  <2>3. QED BY <1>4, <2>1, <2>2 DEF ImportCalls, Typed, LedgerTypeOK, ledgerVars
<1>5. ASSUME NEW q \in Requests, LedgerCalls(q) PROVE Typed'
  <2>1. CallStep(q, LedgerOps) /\ LedgerTypeOK'
    BY <1>5, LedgerCallsTyped DEF LedgerCalls, Typed
  <2>2. RowsGoOn BY <1>5, RowsStay DEF LedgerCalls, Typed
  <2>3. CallInv' /\ RowsTyped' BY <2>1, <2>2, RowsAndCallsGoOn
  <2>4. ImportTypeOK' /\ HeldInv' /\ PreviewInv'
    BY <1>5, <2>1, ImportGoesOn DEF LedgerCalls, LedgerOps, ImportOps
  <2>5. QED BY <1>5, <2>1, <2>3, <2>4 DEF LedgerCalls, Typed
<1>6. ASSUME NEW q \in Requests, TemplateCalls(q) PROVE Typed'
  <2>1. CallStep(q, TemplateOps) /\ template' \subseteq Templates
    BY <1>6, TemplateCallsTyped DEF TemplateCalls, Typed
  <2>2. RowsGoOn BY <1>6, RowsStay DEF TemplateCalls, Typed
  <2>3. CallInv' /\ RowsTyped' BY <2>1, <2>2, RowsAndCallsGoOn
  <2>4. ImportTypeOK' /\ HeldInv' /\ PreviewInv'
    BY <1>6, <2>1, ImportGoesOn DEF TemplateCalls, TemplateOps, ImportOps
  <2>5. QED
    BY <1>6, <2>1, <2>3, <2>4 DEF TemplateCalls, Typed, LedgerTypeOK, ledgerVars
<1>7. ASSUME NEW q \in Requests, Wait(q) PROVE Typed'
  <2>1. CallStep(q, {}) /\ RowsGoOn BY <1>7, WaitTyped
  <2>2. CallInv' /\ RowsTyped' BY <2>1, RowsAndCallsGoOn
  <2>3. ImportTypeOK' /\ HeldInv' /\ PreviewInv' BY <1>7, <2>1, ImportGoesOn DEF Wait
  <2>4. QED BY <1>7, <2>2, <2>3 DEF Wait, Typed, LedgerTypeOK, ledgerVars
<1>8. ASSUME NEW q \in Requests, Fail(q) PROVE Typed'
  <2>1. CallStep(q, {}) /\ RowsGoOn /\ HeldInv' /\ ImportTypeOK' /\ PreviewInv'
    BY <1>8, FailTyped DEF Fail
  <2>2. CallInv' /\ RowsTyped' BY <2>1, RowsAndCallsGoOn
  <2>3. QED BY <1>8, <2>1, <2>2 DEF Fail, Typed, LedgerTypeOK, ledgerVars
<1>9. ASSUME NEW b \in Batches, Expire(b) \/ Cleanup(b), UNCHANGED Others PROVE Typed'
  <2>1. RowsGoOn BY <1>9, RowsStay DEF Others, Typed
  <2>2. CallInv' BY <1>9 DEF Others, callVars, guestVars, linkVars, Typed, CallInv,
                             Fits, Present, Issued
  <2>3. HeldInv' /\ ImportTypeOK' /\ PreviewInv' BY <1>9, BatchesAge DEF Others
  <2>4. QED
    BY <1>9, <2>1, <2>2, <2>3 DEF Others, Typed, RowsGoOn, LedgerTypeOK, ledgerVars
<1>10. CASE UNCHANGED vars
  <2>1. RowsGoOn BY <1>10, RowsStay DEF vars, Typed
  <2>2. CallInv' BY <1>10 DEF vars, callVars, guestVars, linkVars, Typed, CallInv,
                              Fits, Present, Issued
  <2>3. HeldInv' /\ ImportTypeOK' /\ PreviewInv'
    BY <1>10 DEF vars, callVars, importVars, Typed, HeldInv, Confirmed, ImportTypeOK,
                 PreviewInv, Told
  <2>4. QED
    BY <1>10, <2>1, <2>2, <2>3 DEF vars, Typed, RowsGoOn, LedgerTypeOK, ledgerVars
<1>11. QED
  BY <1>1, <1>2, <1>3, <1>4, <1>5, <1>6, <1>7, <1>8, <1>9, <1>10 DEF Next

LEMMA AlwaysTyped == Spec => []Typed
BY TypedInit, TypedStep, PTL DEF Spec

\* Whatever the calls do and however they overlap, every row, lock and batch is
\* of its type: in particular no request reads a batch or a draft that is gone.
THEOREM TypeCorrect == Spec => []TypeOK
<1>1. Typed => TypeOK BY DEF Typed, TypeOK, CallInv, RowsTyped
<1>2. QED BY <1>1, AlwaysTyped, PTL
=============================================================================
