------------------------------ MODULE WeddingRows ------------------------------
(***************************************************************************)
(* The rows of one wedding that several handlers of the API touch, and the *)
(* row locks its transactions hold.  An API call is a request q that runs  *)
(* one operation: its first statement locks rows (Take), LockNext and      *)
(* ShareNext lock the rows a later statement needs, one at a time and      *)
(* keeping those it has, a statement that reads keeps what it decided in   *)
(* the call (Decide), and a last action writes, commits and frees the      *)
(* locks (Done).  PostgreSQL runs at READ COMMITTED: every statement reads *)
(* what is committed when it starts, a locked row keeps its value until    *)
(* its holder ends, and the writes of a transaction are seen from its      *)
(* commit on, so they are applied there.  A statement that is alone in its *)
(* transaction and waits for one row at most is one action.  An argument   *)
(* of a call is chosen by the statement that first uses it.  A row that    *)
(* was deleted leaves its identifier to new rows, which UUIDs never do:    *)
(* the model allows more than the code.                                    *)
(***************************************************************************)
EXTENDS Integers, FiniteSets

CONSTANTS Requests,      \* API calls that run at the same time
          Guests, Affiliations, Links, Tables, Batches,   \* row identifiers
          Vendors, Categories,
          Currencies,
          Wedding,       \* the row of the wedding itself
          None,
          MaxParty, MaxCapacity, MaxAffiliations, MaxTables,
          MaxCalls       \* bound: calls a behaviour makes

ASSUME WeddingAssumption ==
  /\ Tables \subseteq Nat            \* assignSeating sorts table identifiers
  /\ None \notin Guests \cup Affiliations \cup Links \cup Tables \cup Batches
               \cup Vendors \cup Categories \cup Currencies
  /\ MaxParty \in Nat \ {0} /\ MaxCapacity \in Nat \ {0}
  /\ MaxAffiliations \in Nat /\ MaxTables \in Nat /\ MaxCalls \in Nat
  /\ IsFiniteSet(Guests) /\ IsFiniteSet(Affiliations) /\ IsFiniteSet(Tables)

VARIABLES guest,   \* guests: the row, or None
          aff,     \* guest_affiliations: sort_order, -1 when there is no row
          link,    \* invitations: the row, or None
          rsvp,    \* rsvps: the reply of a guest, or None
          table,   \* seating_tables: capacity, 0 when there is no row
          seat,    \* seating_assignments: the table of a guest, or None
          call,    \* what each request is running
          locks,   \* the rows each request holds FOR UPDATE
          calls    \* calls made so far

guestVars == <<guest, aff>>
linkVars == <<link, rsvp>>
seatVars == <<table, seat>>
callVars == <<call, locks, calls>>

Guest == [party : 1..MaxParty, archived : BOOLEAN,
          aff : Affiliations \cup {None}]
Link == [guest : Guests, live : BOOLEAN]
\* The size of a reply: 0 when the guest declines.
Reply == [size : 0..MaxParty, via : Links]

\* The rows of different tables are different rows.
ASSUME KindsAssumption ==
  /\ Wedding \notin Guests \cup Affiliations \cup Tables \cup Batches \cup Vendors
                   \cup Categories
  /\ Guests \cap (Affiliations \cup Tables \cup Batches \cup Vendors \cup Categories) = {}
  /\ Affiliations \cap (Tables \cup Batches \cup Vendors \cup Categories) = {}
  /\ Tables \cap (Batches \cup Vendors \cup Categories) = {}
  /\ Batches \cap (Vendors \cup Categories) = {} /\ Vendors \cap Categories = {}

ASSUME NoRowAssumption == None \notin Guest \cup Link \cup Reply

Rows == Guests \cup Affiliations \cup Tables \cup Batches \cup Vendors
        \cup Categories \cup {Wedding}

Operations ==
  {"none", "addGuest", "setSide", "update", "patch", "archive", "bulkArchive",
   "bulkSide", "addSide", "newSide", "orderSides", "dropSide", "emptySide",
   "newGuest", "checked", "invite", "replace", "reply", "addTable", "newTable",
   "resize", "resized", "assign", "seat", "seated", "map", "commit", "insert",
   "budget", "newBudget", "vendor",
   "newVendor", "dropVendor", "expense", "newExpense", "addCategory",
   "newCategory", "dropCategory", "addTemplate", "newTemplate"}

\* The arguments of a call, what it read so far, the rows it has to lock and
\* those it holds in a mode that other calls may share.
Call == [op : Operations, guests : SUBSET Guests, aff : Affiliations \cup {None},
         table : Tables \cup {None}, link : Links \cup {None},
         batch : Batches \cup {None}, size : Nat, item : Vendors \cup Categories \cup {None},
         currency : Currencies \cup {None}, need : SUBSET Rows,
         shares : SUBSET Rows]

Idle == [op |-> "none", guests |-> {}, aff |-> None, table |-> None,
         link |-> None, batch |-> None, size |-> 0, item |-> None,
         currency |-> None, need |-> {}, shares |-> {}]

Present == {g \in Guests : guest[g] # None}
Sides == {a \in Affiliations : aff[a] >= 0}
Exists(a) == a \in Sides \cup {None}
LiveLinks(g) == {l \in Links : link[l] # None /\ link[l].guest = g /\ link[l].live}
Seated(t) == {g \in Guests : seat[g] = t}

\* Rows that can be locked FOR UPDATE, and rows that can be locked FOR KEY
\* SHARE or FOR NO KEY UPDATE, which only wait for FOR UPDATE.
Free(q, rows) ==
  \A p \in Requests \ {q} : (locks[p] \cup call[p].shares) \cap rows = {}
Shareable(q, rows) == \A p \in Requests \ {q} : locks[p] \cap rows = {}

\* Running(q, op): the call has every lock it waited for.
Running(q, op) == call[q].op = op /\ call[q].need = {}

\* The first statement of a call locks rows and leaves c to be done.
Take(q, rows, c) ==
  /\ call[q] = Idle /\ calls < MaxCalls
  /\ Free(q, rows)
  /\ call' = [call EXCEPT ![q] = c]
  /\ locks' = [locks EXCEPT ![q] = rows]
  /\ calls' = calls + 1

\* A call of one statement: it starts and ends at once.
Once(q) ==
  /\ call[q] = Idle /\ calls < MaxCalls
  /\ calls' = calls + 1
  /\ UNCHANGED <<call, locks>>

\* A statement between the first and the last: c is what the call knows now.
Decide(q, c) ==
  /\ call' = [call EXCEPT ![q] = c]
  /\ UNCHANGED <<locks, calls>>

Done(q) ==
  /\ call' = [call EXCEPT ![q] = Idle]
  /\ locks' = [locks EXCEPT ![q] = {}]
  /\ UNCHANGED calls

\* Mutant: the tables of a move are not sorted.
NextRowsUnsorted(c) == c.need

\* The rows the next statement may lock first: tables in sorted order, a side
\* before a guest that is given it, and no order for anything else.
NextRows(c) ==
  {r \in c.need : /\ c.op = "seat" => \A u \in c.need : r <= u
                  /\ c.op = "setSide" => r \in Affiliations \/ c.need \subseteq Guests}

\* Calls that wait for rows to share: inserts and updates whose foreign keys
\* lock what they refer to, and the update that writes the order of the sides.
Sharing == {"newGuest", "insert", "patch", "orderSides"}

LockNext(q) ==
  \E row \in NextRows(call[q]) :
    /\ call[q].op \notin Sharing
    /\ Free(q, {row})
    /\ locks' = [locks EXCEPT ![q] = @ \cup {row}]
    /\ call' = [call EXCEPT ![q].need = @ \ {row}]
    /\ UNCHANGED <<calls, guestVars, linkVars, seatVars>>

ShareNext(q) ==
  \E row \in call[q].need :
    /\ call[q].op \in Sharing
    /\ Shareable(q, {row})
    /\ call' = [call EXCEPT ![q].need = @ \ {row}, ![q].shares = @ \cup {row}]
    /\ UNCHANGED <<locks, calls, guestVars, linkVars, seatVars>>

\* A call that ends with nothing written: what it read after its first lock
\* makes it answer 404, 409 or 422, its connection is lost, or PostgreSQL
\* ends it to break a circle of waits.
Refuse(q) ==
  /\ call[q] # Idle
  /\ Done(q)
  /\ UNCHANGED <<guestVars, linkVars, seatVars>>
=============================================================================
