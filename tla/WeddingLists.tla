------------------------------ MODULE WeddingLists ------------------------------
(***************************************************************************)
(* The lists of a wedding that are read page by page: planning tasks,      *)
(* vendors, expenses, the run sheet and guests.  A page holds the rows     *)
(* that follow a cursor in the order of the list, newest first, and a      *)
(* cursor is the time and the identifier of the last row of a page (the    *)
(* run sheet counts the other way, from the start of its items).  Members  *)
(* of the wedding change the rows between two pages.  created_at is the    *)
(* time its transaction began, so rows can appear behind a cursor.         *)
(***************************************************************************)
EXTENDS Integers, FiniteSets

CONSTANTS Rows,        \* identifiers, compared by PostgreSQL
          Lists, Of,          \* Of[r]: the list of a row
          PageSize,
          Milli,       \* microseconds in a millisecond
          MaxTime, MaxChanges,   \* bounds: time passed, rows changed
          None, Gone

ASSUME ListsAssumption ==
  /\ Rows \subseteq Nat /\ IsFiniteSet(Rows)
  /\ Of \in [Rows -> Lists]
  /\ PageSize \in Nat \ {0} /\ Milli \in Nat \ {0}
  /\ MaxTime \in Nat /\ MaxChanges \in Nat
  /\ None \notin Nat /\ Gone # None

ASSUME NoRowAssumption ==
  /\ None \notin [at : Nat, open : BOOLEAN] \cup [at : Nat, id : Nat]
  /\ Gone \notin [at : Nat, open : BOOLEAN]

VARIABLES row,      \* None before it is inserted, Gone after it is deleted
          pending,  \* inserts that are not committed yet
          clock,
          changes,  \* history: the changes committed so far
          touched   \* history: the last of them that changed each row

listVars == <<row, pending, clock, changes, touched>>

Row == [at : 0..MaxTime, open : BOOLEAN]
Key == [at : Nat, id : Rows]
Filters == {"all", "open", "done"}

There == {r \in Rows : row[r] \notin {None, Gone}}

\* A task without completed_at is open, and so is a guest who is not archived.
Matches(filter, entry) ==
  filter = "all" \/ entry.open = (filter = "open")

-----------------------------------------------------------------------------
\* Keyset pages.

Newer(k, l) == k.at > l.at \/ (k.at = l.at /\ k.id > l.id)
KeyOf(r) == [at |-> row[r].at, id |-> r]

\* The rows behind the cursor, and those of them a page holds.
Behind(w, filter, cursor) ==
  {r \in There : /\ Of[r] = w /\ Matches(filter, row[r])
                 /\ cursor = None \/ Newer(cursor, KeyOf(r))}
Page(w, filter, cursor) ==
  LET behind == Behind(w, filter, cursor) IN
    {r \in behind :
       Cardinality({s \in behind : Newer(KeyOf(s), KeyOf(r))}) < PageSize}

LastOf(page) == CHOOSE r \in page : \A s \in page : s = r \/ Newer(KeyOf(s), KeyOf(r))

\* One row more than the page is asked for, to know whether to give a cursor.
MoreThan(w, filter, cursor) == Page(w, filter, cursor) # Behind(w, filter, cursor)

\* Guests and weddings go through a Date: the cursor is cut to milliseconds.
DateCursor(w, filter, cursor) ==
  IF MoreThan(w, filter, cursor)
  THEN LET last == LastOf(Page(w, filter, cursor)) IN
         [at |-> row[last].at - (row[last].at % Milli), id |-> last]
  ELSE None

\* Tasks, vendors, expenses and the run sheet keep the microseconds.
ExactCursor(w, filter, cursor) ==
  IF MoreThan(w, filter, cursor) THEN KeyOf(LastOf(Page(w, filter, cursor))) ELSE None

-----------------------------------------------------------------------------
\* Changes of the rows.  A change that finds no row changes nothing.

Change == [op : {"add", "close", "reopen", "move", "drop"}, row : Rows]

Finds(c) == IF c.op = "add" THEN row[c.row] = None ELSE c.row \in There

\* Mutant: the time of a new row is taken from a clock that runs ahead.
AfterAhead(c) ==
  IF c.op = "drop" THEN Gone
  ELSE [at |-> IF c.op \in {"add", "move"} THEN clock + 1 ELSE row[c.row].at,
        open |-> c.op # "close"]

After(c) ==
  IF c.op = "drop" THEN Gone
  ELSE [at |-> IF c.op \in {"add", "move"} THEN clock ELSE row[c.row].at,
        open |-> IF c.op = "move" THEN row[c.row].open ELSE c.op # "close"]

Apply(c) ==
  /\ Finds(c) /\ changes < MaxChanges
  /\ row' = [row EXCEPT ![c.row] = After(c)]
  /\ changes' = changes + 1
  /\ touched' = [touched EXCEPT ![c.row] = changes + 1]
  /\ UNCHANGED <<pending, clock>>

\* Another member of the wedding, in one statement.
OthersChange == \E c \in Change : c.op # "add" /\ Apply(c)

InPending == UNION {p.rows : p \in pending}

\* Others insert rows in one transaction, several when they import guests.
BeginInsert ==
  \E rows \in SUBSET {r \in Rows \ InPending : row[r] = None} :
    /\ rows # {} /\ changes < MaxChanges
    /\ pending' = pending \cup {[rows |-> rows, at |-> clock]}
    /\ UNCHANGED <<row, clock, changes, touched>>

CommitInsert ==
  \E p \in pending :
    /\ changes < MaxChanges
    /\ row' = [r \in Rows |-> IF r \in p.rows THEN [at |-> p.at, open |-> TRUE] ELSE row[r]]
    /\ pending' = pending \ {p}
    /\ changes' = changes + 1
    /\ touched' = [r \in Rows |-> IF r \in p.rows THEN changes + 1 ELSE touched[r]]
    /\ UNCHANGED clock

Tick == /\ clock < MaxTime /\ clock' = clock + 1
        /\ UNCHANGED <<row, pending, changes, touched>>

Others == OthersChange \/ BeginInsert \/ CommitInsert \/ Tick

\* The rows a list must show when it was read since the change number v: they
\* have belonged to it all the time.
Steady(w, filter, v) ==
  {r \in There : Of[r] = w /\ Matches(filter, row[r]) /\ touched[r] <= v}

ListsTypeOK ==
  /\ row \in [Rows -> Row \cup {None, Gone}]
  /\ pending \subseteq [rows : SUBSET Rows, at : 0..MaxTime]
  /\ clock \in 0..MaxTime
  /\ changes \in 0..MaxChanges
  /\ touched \in [Rows -> 0..MaxChanges]
=============================================================================
