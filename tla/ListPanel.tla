-------------------------------- MODULE ListPanel --------------------------------
(***************************************************************************)
(* A panel of the browser that shows lists and saves changes of their      *)
(* rows: PlanningWorkspace, BudgetPanel, RunSheetPanel and, with module    *)
(* SeatingPanel, the tables.  Requests are answered in any order; a panel  *)
(* knows the answers it no longer wants by a generation number.  Planning  *)
(* empties its list and lets go of its controls while it loads again, the  *)
(* other panels keep both.                                                 *)
(***************************************************************************)
EXTENDS WeddingLists, DeskScope

VARIABLES filter, gen, loading, busy,
          shown,    \* the entries on the page
          pages,    \* for each list read: its cursor, and the changes then committed
          table,    \* the seating table chosen
          failed,   \* an error is shown
          net,      \* requests and their replies
          savedAt,  \* history: the change the panel was told is saved last
          seat      \* in the database: the table of each guest

panelVars == <<filter, gen, loading, busy, shown, pages, table, failed, net, savedAt>>

\* The lists a section reads.  Categories and tables are read whole, and the
\* guests at the chosen table are read after the tables.
Parts(s) == IF s = "budget" THEN {"categories", "vendors", "expenses"} ELSE {s}
ListNames == {"seats", "guests", "weddings"} \cup UNION {Parts(s) : s \in Panels}
Whole(l) == l[2] \in {"categories", "seating", "seats"}
Seats == <<selected, "seats">>

Entry == [id : Rows, list : Lists, open : BOOLEAN]
Answer == [list : Lists, entries : SUBSET Entry, cursor : Key \cup {None}, at : Nat]

Mounted == section \in Panels
Ids(l) == {e.id : e \in {f \in shown : f.list = l}}

\* A request, the lists read for it so far and the change it was told is saved.
Asked(kind, lists, c) ==
  [kind |-> kind, gen |-> gen, filter |-> filter, lists |-> lists, cursor |-> None,
   change |-> c, pick |-> table, holds |-> TRUE,   \* busy until it is answered
   read |-> {}, reply |-> None]

\* Seating reads its tables first, then the guests of the one it picks.
Load(s, f, pick, holds) ==
  [Asked(IF s = "seating" THEN "tables" ELSE "load", {selected} \X Parts(s), None)
     EXCEPT !.gen = gen + 1, !.filter = f, !.pick = pick, !.holds = holds]

\* A save that is on its way when the panel goes is still carried out.
Late == {[m EXCEPT !.kind = "late"] :
           m \in {n \in net : n.kind \in {"save", "late"} /\ n.reply = None}}

\* The panel is shown: it loads the first page of everything.
Mount(s) ==
  /\ filter' = "all" /\ gen' = gen + 1 /\ busy' = FALSE
  /\ shown' = {} /\ pages' = None /\ table' = None /\ failed' = FALSE /\ savedAt' = 0
  /\ loading' = (s \in Panels)
  /\ net' = Late \cup IF s \in Panels THEN {Load(s, "all", None, FALSE)} ELSE {}

\* reload: a new generation, whose lists replace what is shown.
Reload(f, pick, holds, requests) ==
  /\ gen' = gen + 1 /\ loading' = TRUE
  /\ IF section = "planning" THEN shown' = {} /\ pages' = None
                             ELSE UNCHANGED <<shown, pages>>
  /\ net' = requests \cup {Load(section, f, pick, holds)}

-----------------------------------------------------------------------------
\* Clicks.

\* The filter of the planning list can be chosen while the panel is busy.
ChooseFilter ==
  /\ section = "planning" /\ Click
  /\ \E f \in Filters \ {filter} :
       filter' = f /\ Reload(f, None, FALSE, net)
  /\ UNCHANGED <<busy, table, failed, savedAt, listVars, seat>>

\* The form adds a row, or changes texts of one, which no list is ordered or
\* filtered by; buttons beside the rows shown do the rest.
Adds(c, name) == c.op = "add" /\ Of[c.row] = <<selected, name>>
Drops(c, name) == c.op = "drop" /\ c.row \in Ids(<<selected, name>>)

TaskForm(c) == Adds(c, "planning")
TaskButtons(c) ==
  \/ c.op \in {"close", "reopen"} /\ c.row \in Ids(<<selected, "planning">>)
  \/ Drops(c, "planning")
CategorySaves(c) == Adds(c, "categories") \/ Drops(c, "categories")
VendorSaves(c) == Adds(c, "vendors") \/ Drops(c, "vendors")
ExpenseForm(c) == Adds(c, "expenses")
ExpenseButtons(c) == Drops(c, "expenses")
ItemForm(c) ==
  \/ Adds(c, "schedule")
  \/ c.op = "move" /\ c.row \in Ids(<<selected, "schedule">>)
ItemButtons(c) == Drops(c, "schedule")

Saves(c) ==
  \/ section = "planning" /\ (TaskForm(c) \/ TaskButtons(c))
  \/ section = "budget" /\ (CategorySaves(c) \/ VendorSaves(c) \/ ExpenseForm(c) \/ ExpenseButtons(c))
  \/ section = "schedule" /\ (ItemForm(c) \/ ItemButtons(c))

\* The controls of a panel are disabled while it is busy.
Idle == Mounted /\ ~busy /\ Click
Send(m) ==
  /\ net' = net \cup {m} /\ busy' = TRUE
  /\ failed' = (failed /\ m.kind # "save")
  /\ UNCHANGED <<filter, gen, loading, shown, pages, table, savedAt, listVars, seat>>

Save == Idle /\ \E c \in Change : Saves(c) /\ Send(Asked("save", {}, c))

More ==
  /\ Idle /\ pages # None
  /\ \E l \in DOMAIN pages :
       /\ pages[l].cursor # None
       /\ Send([Asked("more", {l}, None) EXCEPT !.cursor = pages[l].cursor])

-----------------------------------------------------------------------------
\* The API answers, or the request or its answer is lost.

Answered(m, r) == net' = (net \ {m}) \cup {[m EXCEPT !.reply = r]}

AtTable(t) == {g \in There : seat[g] = t}

Selects(l, m) ==
  IF l[2] = "seats" THEN AtTable(m.pick)
  ELSE IF Whole(l) THEN Behind(l, "all", None)
  ELSE Page(l, IF l[2] = "guests" THEN "open" ELSE m.filter, m.cursor)

NextCursor(l, m) ==
  IF Whole(l) THEN None
  ELSE IF l[2] = "guests" THEN DateCursor(l, "open", m.cursor)
  ELSE ExactCursor(l, m.filter, m.cursor)

Listed(l, m) ==
  [list |-> l,
   entries |-> {[id |-> r, list |-> l, open |-> row[r].open] : r \in Selects(l, m)},
   cursor |-> NextCursor(l, m), at |-> changes]

Reads == {"tables", "load", "more", "find"}
ListsRead(m) == {a.list : a \in m.read}
Arrived(m) == m.reply # None \/ (m.kind \in Reads /\ ListsRead(m) = m.lists)

\* Each list is read by a request of its own.
ServeList(m) ==
  /\ m.kind \in Reads /\ ~Arrived(m)
  /\ \E l \in m.lists \ ListsRead(m) :
       /\ l[2] = "seats" => m.pick \in There
       /\ net' = (net \ {m}) \cup {[m EXCEPT !.read = @ \cup {Listed(l, m)}]}
  /\ UNCHANGED <<listVars, seat>>

\* A guest is given a seat, or loses it.
MaySeat(g, t) == g \in There /\ row[g].open /\ (t = None \/ t \in There)
PutAt(g, t) ==
  /\ MaySeat(g, t) /\ changes < MaxChanges
  /\ seat' = [seat EXCEPT ![g] = t]
  /\ changes' = changes + 1
  /\ UNCHANGED <<row, pending, clock, touched>>

Store(m) ==
  \/ m.change.op = "seat" /\ PutAt(m.change.row, m.pick)
  \/ m.change.op = "unseat" /\ PutAt(m.change.row, None)
  \/ m.change \in Change /\ Apply(m.change) /\ UNCHANGED seat

ServeSave(m) ==
  /\ m.kind \in {"save", "late"} /\ m.reply = None
  /\ Store(m) /\ Answered(m, changes + 1)

LoseReply(m) ==
  /\ \/ ~Arrived(m) /\ UNCHANGED <<listVars, seat>>
     \/ m.kind = "save" /\ m.reply = None /\ Store(m)
  /\ Answered(m, NoAnswer)

Serve(m) == (ServeList(m) \/ ServeSave(m) \/ LoseReply(m)) /\
            UNCHANGED <<scopeVars, filter, gen, loading, busy, shown, pages, table,
                        failed, savedAt>>

-----------------------------------------------------------------------------
\* The answer arrives.

\* Mutant: answers are taken whatever was asked since.
CurrentAlways(m) == TRUE

Current(m) == m.gen = gen

PageRead(m, l) ==
  LET a == CHOOSE b \in m.read : b.list = l IN [cursor |-> a.cursor, at |-> a.at]
EntriesOf(m) == UNION {a.entries : a \in m.read}

Complete(m) ==
  \/ m.kind = "load"
  \/ m.kind = "tables" /\ (m.reply = NoAnswer \/ EntriesOf(m) = {})

\* The guests found for the seating panel stay on it.
Found == {e \in shown : e.list[2] = "guests"}

DeliverLoad(m) ==
  /\ Complete(m)
  /\ net' = net \ {m}
  /\ busy' = (busy /\ ~m.holds)
  /\ loading' = (loading /\ ~Current(m))
  /\ IF Current(m) /\ m.reply # NoAnswer
     THEN /\ shown' = EntriesOf(m) \cup Found
          /\ pages' = [l \in m.lists \cup {e.list : e \in Found} |->
                         IF l \in m.lists THEN PageRead(m, l) ELSE pages[l]]
          /\ table' = IF m.kind = "load" THEN m.pick ELSE None
          /\ failed' = FALSE
     ELSE failed' = (failed \/ Current(m)) /\ UNCHANGED <<shown, pages, table>>
  /\ UNCHANGED <<filter, gen, savedAt>>

NewEntries(m) == {e \in EntriesOf(m) : \A old \in shown : old.list = e.list => old.id # e.id}

\* A guest list found for the seating panel starts again without a cursor.
Appended(m) ==
  IF m.kind = "find" /\ m.cursor = None
  THEN {e \in shown : e.list \notin m.lists} \cup EntriesOf(m)
  ELSE shown \cup NewEntries(m)

DeliverMore(m) ==
  /\ m.kind \in {"more", "find"}
  /\ net' = net \ {m}
  /\ busy' = (busy /\ ~Current(m))
  /\ IF Current(m) /\ m.reply # NoAnswer
     THEN /\ shown' = Appended(m)
          /\ pages' = [l \in DOMAIN pages \cup m.lists |->
                         IF l \notin m.lists THEN pages[l]
                         ELSE IF m.cursor = None THEN PageRead(m, l)
                         ELSE [PageRead(m, l) EXCEPT !.at = pages[l].at]]
          /\ UNCHANGED failed
     ELSE failed' = (failed \/ Current(m)) /\ UNCHANGED <<shown, pages>>
  /\ UNCHANGED <<filter, gen, loading, table, savedAt>>

\* Mutant: nothing is read again after a save.
AfterSaveNothing(m) ==
  /\ net' = net \ {m} /\ busy' = FALSE
  /\ UNCHANGED <<gen, loading, shown, pages>>

\* Planning loads again by itself, the others stay busy until they have.
AfterSave(m) ==
  /\ Reload(filter, m.pick, section # "planning", net \ {m})
  /\ busy' = (section # "planning")

DeliverSave(m) ==
  /\ m.kind = "save"
  /\ IF m.reply = NoAnswer
     THEN /\ net' = net \ {m} /\ failed' = TRUE /\ busy' = FALSE
          /\ UNCHANGED <<gen, loading, shown, pages, savedAt>>
     ELSE AfterSave(m) /\ savedAt' = m.reply /\ UNCHANGED failed
  /\ UNCHANGED <<filter, table>>

\* Nobody waits for it any more.
DropLate(m) ==
  /\ m.kind = "late" /\ net' = net \ {m}
  /\ UNCHANGED <<filter, gen, loading, busy, shown, pages, table, failed, savedAt>>

Deliver(m) ==
  /\ Arrived(m)
  /\ DeliverLoad(m) \/ DeliverMore(m) \/ DeliverSave(m) \/ DropLate(m)
  /\ UNCHANGED <<listVars, scopeVars, seat>>

PanelStep ==
  \/ ChooseFilter \/ Save \/ More
  \/ \E m \in net : Serve(m) \/ Deliver(m)
=============================================================================
