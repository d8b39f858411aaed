-------------------------- MODULE CoupleDeskProofs --------------------------
(***************************************************************************)
(* Proofs about CoupleDesk, for any rows, lists, weddings and page size:   *)
(* the page of a wedding shows what was chosen, its full lists miss no row *)
(* that was there all the time, and the couple sees its own saves.         *)
(***************************************************************************)
EXTENDS CoupleDesk, FiniteSetTheorems, WellFoundedInduction, TLAPS

-----------------------------------------------------------------------------
(* The inductive invariant.                                                 *)

\* What a request of the panel can be.
SeatChange == [op : {"seat", "unseat"}, row : Rows]
PanelChange == Change \cup SeatChange
Kinds == Reads \cup {"save", "late"}
Request ==
  [kind : Kinds, gen : Nat, filter : Filters, lists : SUBSET Lists,
   cursor : Key \cup {None}, change : PanelChange \cup {None}, pick : Rows \cup {None},
   holds : BOOLEAN, read : SUBSET Answer, reply : Nat \cup {None, NoAnswer}]

\* A guest and a table of the same wedding.
Together(g, t) ==
  \E w \in Weddings \cup {None} : Of[g] = Guests(w) /\ Of[t] = <<w, "seating">>

\* The lists are typed, and guests sit at tables of their own wedding.
ListsInv ==
  /\ ListsTypeOK
  /\ seat \in [Rows -> Rows \cup {None}]
  /\ \A g \in Rows : seat[g] # None => Together(g, seat[g])

\* A wedding is being created only after the click that counts it.
ScopeInv ==
  /\ selected \in menu /\ menu \subseteq Weddings /\ section \in Sections
  /\ scope \in Nat /\ acts \in 0..MaxActs
  /\ scope <= acts /\ (creating => scope < acts)
  /\ creating \in BOOLEAN /\ moreBusy \in BOOLEAN

\* The lists of the section, and those a panel may show.
Own == {selected} \X Parts(section)
Shows == IF section = "seating" THEN {Tables, Seats, Candidates} ELSE Own

\* A request of the panel is typed and never from a later generation, one that
\* saves names rows that belong together, and only saves outlive their panel.
RequestOK(m) ==
  /\ m \in Request /\ m.gen <= gen
  /\ m.reply \in (0..changes) \cup {None, NoAnswer}
  /\ m.kind \in Reads => m.reply \in {None, NoAnswer}
  /\ m.kind \in {"save", "late"} =>
       /\ m.change \in PanelChange
       /\ m.change.op = "seat" => Together(m.change.row, m.pick)
  /\ m.kind # "late" => Mounted
  /\ m.kind = "save" /\ section # "seating" => m.pick = None

\* The answer will be taken: the lists it reads have not been asked for again.
Wanted(m) == m.kind \in Reads /\ m.gen = gen
IdsIn(a) == {e.id : e \in a.entries}

\* An entry belongs on the page that is shown.
EntryOK(e) ==
  /\ e \in Entry
  /\ IF e.list \in {Seats, Candidates}
     THEN section = "seating" /\ Of[e.id] = Guests(selected)
     ELSE Of[e.id] = e.list /\ e.list \in Own /\ Matches(filter, e)

\* A list that was read for a request that is still wanted can be shown: it was
\* read after the last save, and has every steady row up to its own cursor.
AnswerOK(m, a) ==
  /\ a.list \in m.lists /\ savedAt <= a.at /\ a.at <= changes
  /\ Whole(a.list) => a.cursor = None
  /\ a.cursor # None => a.entries # {}
  /\ \A e \in a.entries : e.list = a.list /\ EntryOK(e)
  /\ \A e, f \in a.entries : e.id = f.id => e = f
  /\ a.list \in Own =>
       \A r \in Steady(a.list, filter, a.at) :
         (m.cursor = None \/ Newer(m.cursor, KeyOf(r))) =>
           r \in IdsIn(a) \/ (a.cursor # None /\ Newer(a.cursor, KeyOf(r)))

\* What is shown of each list has every steady row up to the cursor kept for it.
PagesOK ==
  /\ Mounted
  /\ Own \subseteq DOMAIN pages /\ DOMAIN pages \subseteq Shows
  /\ \A l \in DOMAIN pages :
       /\ pages[l] \in [cursor : Key \cup {None}, at : Nat] /\ pages[l].at <= changes
       /\ Whole(l) => pages[l].cursor = None
       /\ l = Candidates /\ pages[l].cursor # None => \E e \in shown : e.list = l
  /\ \A l \in Own : \A r \in Steady(l, filter, pages[l].at) :
       r \in Ids(l) \/ (pages[l].cursor # None /\ Newer(pages[l].cursor, KeyOf(r)))
  /\ \A e \in shown : e.list \in DOMAIN pages

Loads(m) == m.kind \in {"load", "tables"}

\* What a load that is wanted asks for.  The budget and the run sheet are busy
\* until it is answered unless they show nothing yet, so no page is asked for
\* besides it; seating keeps its controls.
LoadOK(m) ==
  Loads(m) =>
    /\ m.cursor = None
    /\ section # "seating" => m.kind = "load" /\ m.lists = Own /\ m.pick = None
                              /\ (m.holds \/ pages = None)
    /\ section = "seating" => Tables \in m.lists
    /\ section = "seating" /\ m.kind = "tables" => m.lists = {Tables}
    /\ section = "seating" /\ m.kind = "load" =>
         /\ m.lists = {Tables, Seats}
         /\ \E a \in m.read : a.list = Tables /\ m.pick \in IdsIn(a)

\* A page that is wanted goes on where the list shown ends.
MoreOK(m) ==
  /\ m.kind \in {"more", "find"} => PagesOK
  /\ m.kind = "find" => section = "seating" /\ m.lists = {Candidates} /\ m.cursor = None
  /\ m.kind = "more" =>
       /\ m.cursor # None /\ (section # "seating" => pages # None)
       /\ \E l \in DOMAIN pages :
            /\ m.lists = {l} /\ pages[l].cursor = m.cursor
            /\ \A a \in m.read : pages[l].at <= a.at

\* The requests that are wanted are about what is chosen.
WantedOK(m) ==
  /\ m.filter = filter
  /\ LoadOK(m) /\ MoreOK(m)
  /\ \A a \in m.read : AnswerOK(m, a)
  /\ \A a, b \in m.read : a.list = b.list => a = b

\* The answers that make the panel idle again.
Clears(m) ==
  \/ m.kind = "save"
  \/ Loads(m) /\ m.holds
  \/ m.kind \in {"more", "find"} /\ m.gen = gen

\* The panel is busy until the one request it waits for is answered, and one
\* load at most is wanted.
OneAtATime ==
  /\ \A m \in net : Clears(m) => busy
  /\ \A m, n \in net : Clears(m) /\ Clears(n) => m = n
  /\ \A m, n \in net : Wanted(m) /\ Wanted(n) /\ Loads(m) /\ Loads(n) => m = n

NetInv ==
  /\ \A m \in net : RequestOK(m) /\ (Wanted(m) => WantedOK(m))
  /\ OneAtATime

\* The page: it is empty, or every list on it can be trusted.
PageInv ==
  /\ filter \in Filters /\ gen \in Nat /\ shown \subseteq Entry
  /\ loading \in BOOLEAN /\ busy \in BOOLEAN /\ failed \in BOOLEAN
  /\ table \in Rows \cup {None} /\ savedAt \in 0..changes
  /\ section # "planning" => filter = "all"
  /\ section # "seating" => table = None
  /\ ~Mounted => shown = {} /\ pages = None
  /\ \A e \in shown : EntryOK(e)
  /\ \A e, f \in shown : e.id = f.id /\ e.list = f.list => e = f
  /\ table # None => table \in Ids(Tables)
  /\ (pages = None /\ shown = {}) \/ PagesOK

Saving == \E m \in net : m.kind = "save"

\* A panel that does not load, save or show an error shows what was saved.
SavedInv ==
  Mounted => \/ loading \/ failed \/ Saving
             \/ PagesOK /\ \A l \in Own : savedAt <= pages[l].at

GuestAnswer == [entries : SUBSET Summary, cursor : Key \cup {None}, at : Nat]
GuestRequest ==
  [kind : {"first", "page", "guest", "edit", "assign", "link", "side", "paint"},
   wedding : Weddings, scope : Nat, instance : Nat, request : Nat, mutation : Nat,
   view : Views, cursor : Key \cup {None}, append : BOOLEAN, frees : BOOLEAN,
   change : Change \cup {None}, reply : GuestAnswer \cup {None, NoAnswer}]

\* A guest request of the wedding chosen last, or of the list that is mounted,
\* is about the wedding on the page.
GuestRequestOK(m) ==
  /\ m \in GuestRequest /\ m.scope <= scope /\ m.instance <= instance
  /\ m.scope = scope => m.wedding = selected
  /\ m.instance = instance /\ guestsLoaded /\ ~guestLoadError => m.wedding = selected
  /\ m.kind \in {"guest", "edit", "assign", "link"} =>
       m.change \in Change /\ Of[m.change.row] = Guests(m.wedding)
  /\ m.reply \notin {None, NoAnswer} => \A s \in m.reply.entries : Of[s.id] = Guests(m.wedding)

\* The guests on the page and their links are of the wedding chosen.
GuestInv ==
  /\ guests \cup listed \subseteq Summary
  /\ {guestCursor, nextCursor} \subseteq Key \cup {None} /\ view \in Views
  /\ {guestRequestId, workspaceMutationVersion, instance, requestId, mutationVersion} \subseteq Nat
  /\ guestsLoaded \in BOOLEAN /\ guestLoadError \in BOOLEAN /\ listBusy \in BOOLEAN
  /\ invitations \subseteq Rows
  /\ \A s \in guests \cup listed : Of[s.id] = Guests(selected)
  /\ \A g \in invitations : Of[g] = Guests(selected)
  /\ \A m \in guestNet : GuestRequestOK(m)

MenuAnswer == [weddings : SUBSET Weddings, cursor : Key \cup {None}]
MenuRequest ==
  [wedding : Weddings \cup {None}, cursor : Key \cup {None},
   reply : MenuAnswer \cup {None, NoAnswer}]

\* One wedding at a time is being created.
MenuInv ==
  /\ menuCursor \in Key \cup {None}
  /\ menuNet \subseteq MenuRequest
  /\ \A m \in menuNet : m.wedding # None => creating
  /\ \A m, n \in menuNet : m.wedding # None /\ n.wedding # None => m = n

IInv == ListsInv /\ ScopeInv /\ PageInv /\ SavedInv /\ NetInv /\ GuestInv /\ MenuInv

-----------------------------------------------------------------------------
\* Pages of a list.

\* A set of numbers that is not empty has a least one.
LEMMA LeastExists ==
  ASSUME NEW S, S \subseteq Nat, S # {}
  PROVE  \E m \in S : \A n \in S : m <= n
<1> DEFINE R == OpToRel(<, Nat)
<1>1. IsWellFoundedOn(R, Nat)
  BY NatLessThanWellFounded
<1>2. PICK m \in S : \A n \in S : <<n, m>> \notin R
  <2> HIDE DEF R
  <2> QED
    BY <1>1, WFMin
<1>3. \A n \in S : ~(n < m)
  BY <1>2 DEF OpToRel
<1> HIDE DEF R
<1> QED
  BY <1>3

\* The rows of a list have times, and rows are finitely many.
LEMMA RowsThere ==
  ASSUME ListsTypeOK, NEW r \in There
  PROVE  r \in Rows /\ r \in Nat /\ row[r] \in Row /\ row[r].at \in Nat
         /\ row[r].open \in BOOLEAN /\ KeyOf(r) \in Key
BY ListsAssumption DEF ListsTypeOK, There, Row, KeyOf, Key

LEMMA FiniteRows ==
  ASSUME ListsTypeOK, NEW S \in SUBSET There
  PROVE  IsFiniteSet(S) /\ Cardinality(S) \in Nat
BY ListsAssumption, FS_Subset, FS_CardinalityType DEF There

\* A page that is not empty has a last row.
LEMMA LastOfPage ==
  ASSUME ListsTypeOK, NEW page \in SUBSET There, page # {}
  PROVE  /\ LastOf(page) \in page
         /\ \A s \in page : s = LastOf(page) \/ Newer(KeyOf(s), KeyOf(LastOf(page)))
<1> DEFINE times == {row[r].at : r \in page}
<1>1. times \subseteq Nat /\ times # {}
  BY RowsThere
<1>2. \E m \in times : \A n \in times : m <= n
  BY <1>1, LeastExists
<1>3. PICK a \in times : \A n \in times : a <= n
  BY <1>2
<1> DEFINE ties == {r \in page : row[r].at = a}
<1>4. ties \subseteq Nat /\ ties # {}
  BY <1>3, RowsThere
<1>5. \E m \in ties : \A n \in ties : m <= n
  BY <1>4, LeastExists
<1>6. PICK last \in ties : \A n \in ties : last <= n
  BY <1>5
<1>7. last \in page
  BY <1>6
<1>8. ASSUME NEW s \in page
      PROVE  s = last \/ Newer(KeyOf(s), KeyOf(last))
  <2>1. s \in Nat /\ last \in Nat /\ row[s].at \in Nat /\ row[last].at \in Nat
    BY <1>7, RowsThere
  <2>2. row[last].at = a
    BY <1>6
  <2>3. a <= row[s].at
    BY <1>3
  <2>4. CASE row[s].at = a
    BY <2>1, <2>2, <2>4, <1>6 DEF Newer, KeyOf
  <2>5. CASE row[s].at # a
    BY <2>1, <2>2, <2>3, <2>5 DEF Newer, KeyOf
  <2> QED
    BY <2>4, <2>5
<1> QED
  BY <1>7, <1>8 DEF LastOf

\* The rows of a list that are newer than one of them.
Above(rows, r) == {s \in rows : Newer(KeyOf(s), KeyOf(r))}

\* Newer is an order of the rows there are.
LEMMA RowsInOrder ==
  ASSUME ListsTypeOK, NEW r \in There, NEW s \in There, NEW t \in There
  PROVE  /\ ~Newer(KeyOf(r), KeyOf(r))
         /\ r = s \/ Newer(KeyOf(r), KeyOf(s)) \/ Newer(KeyOf(s), KeyOf(r))
         /\ Newer(KeyOf(r), KeyOf(s)) /\ Newer(KeyOf(s), KeyOf(t))
              => Newer(KeyOf(r), KeyOf(t))
<1>1. /\ r \in Nat /\ s \in Nat /\ t \in Nat
      /\ row[r].at \in Nat /\ row[s].at \in Nat /\ row[t].at \in Nat
  BY RowsThere
<1> QED
  BY <1>1 DEF Newer, KeyOf

LEMMA AboveShrinks ==
  ASSUME ListsTypeOK, NEW rows \in SUBSET There, NEW r \in rows, NEW s \in rows,
         Newer(KeyOf(s), KeyOf(r))
  PROVE  Cardinality(Above(rows, s)) < Cardinality(Above(rows, r))
<1> DEFINE A == Above(rows, s)
           B == Above(rows, r)
<1>1. A \subseteq B
  BY RowsInOrder DEF Above
<1>2. s \in B /\ s \notin A
  BY RowsInOrder DEF Above
<1>3. A \in SUBSET There /\ B \in SUBSET There
  BY DEF Above
<1> HIDE DEF A, B
<1>4. IsFiniteSet(B) /\ Cardinality(A) \in Nat /\ Cardinality(B) \in Nat
  BY <1>3, FiniteRows
<1>5. Cardinality(A) <= Cardinality(B) /\ (Cardinality(A) = Cardinality(B) => A = B)
  BY <1>1, <1>4, FS_Subset
<1>6. Cardinality(A) < Cardinality(B)
  BY <1>2, <1>4, <1>5
<1> QED
  BY <1>6 DEF A, B

LEMMA BehindIsThere ==
  ASSUME NEW w, NEW f, NEW c
  PROVE  /\ Behind(w, f, c) \in SUBSET There /\ Page(w, f, c) \in SUBSET Behind(w, f, c)
         /\ Page(w, f, c) = {r \in Behind(w, f, c) :
                               Cardinality(Above(Behind(w, f, c), r)) < PageSize}
BY DEF Behind, Page, Above

\* A page is empty only when there are no rows behind the cursor.
LEMMA PageIsFull ==
  ASSUME ListsTypeOK, NEW w, NEW f, NEW c, Behind(w, f, c) # {}
  PROVE  Page(w, f, c) # {}
<1> DEFINE rows == Behind(w, f, c)
           ranks == {Cardinality(Above(rows, r)) : r \in rows}
<1>1. rows \in SUBSET There
  BY BehindIsThere
<1>2. \A r \in rows : Above(rows, r) \in SUBSET There
  BY <1>1 DEF Above
<1>3. ranks \subseteq Nat /\ ranks # {}
  BY <1>2, FiniteRows
<1>4. \E m \in ranks : \A n \in ranks : m <= n
  BY <1>3, LeastExists
<1>5. PICK top \in rows : \A r \in rows : Cardinality(Above(rows, top)) <= Cardinality(Above(rows, r))
  BY <1>4
<1>6. Above(rows, top) = {}
  <2> SUFFICES ASSUME NEW s \in Above(rows, top)
               PROVE  FALSE
    OBVIOUS
  <2>1. s \in rows /\ Newer(KeyOf(s), KeyOf(top))
    BY DEF Above
  <2>2. Cardinality(Above(rows, s)) < Cardinality(Above(rows, top))
    BY <2>1, <1>1, AboveShrinks
  <2>3. Cardinality(Above(rows, top)) <= Cardinality(Above(rows, s))
    BY <2>1, <1>5
  <2>4. Cardinality(Above(rows, top)) \in Nat /\ Cardinality(Above(rows, s)) \in Nat
    BY <1>2, <2>1, FiniteRows
  <2> QED
    BY <2>2, <2>3, <2>4
<1>7. Cardinality(Above(rows, top)) < PageSize
  BY <1>6, FS_EmptySet, ListsAssumption
<1>8. top \in Page(w, f, c)
  BY <1>7, BehindIsThere
<1> QED
  BY <1>8

\* The rows behind the cursor that a page leaves out are behind its last row.
LEMMA RowsOffThePage ==
  ASSUME ListsTypeOK, NEW w, NEW f, NEW c,
         NEW r \in Behind(w, f, c), r \notin Page(w, f, c)
  PROVE  Newer(KeyOf(LastOf(Page(w, f, c))), KeyOf(r))
<1> DEFINE rows == Behind(w, f, c)
           last == LastOf(Page(w, f, c))
<1>1. rows \in SUBSET There /\ Page(w, f, c) \in SUBSET rows
  BY BehindIsThere
<1>2. Page(w, f, c) # {} /\ Page(w, f, c) \in SUBSET There
  BY <1>1, PageIsFull
<1>3. last \in Page(w, f, c)
  BY <1>2, LastOfPage
<1>4. Cardinality(Above(rows, last)) < PageSize /\ ~(Cardinality(Above(rows, r)) < PageSize)
  BY <1>3, BehindIsThere
<1> SUFFICES ASSUME ~Newer(KeyOf(last), KeyOf(r))
             PROVE  FALSE
  OBVIOUS
<1>5. last \in rows /\ last # r /\ last \in There /\ r \in There
  BY <1>1, <1>3
<1> HIDE DEF rows, last
<1>6. Newer(KeyOf(r), KeyOf(last))
  BY <1>5, RowsInOrder
<1>7. r \in rows
  BY DEF rows
<1>8. Cardinality(Above(rows, r)) < Cardinality(Above(rows, last))
  BY <1>1, <1>5, <1>6, <1>7, AboveShrinks
<1>9. Above(rows, r) \in SUBSET There /\ Above(rows, last) \in SUBSET There
  BY <1>1 DEF Above
<1>10. Cardinality(Above(rows, r)) \in Nat /\ Cardinality(Above(rows, last)) \in Nat
  BY <1>9, FiniteRows
<1> QED
  BY <1>4, <1>8, <1>10, ListsAssumption

\* A cursor is the key of the last row of a page that is not empty.
LEMMA CursorOfAPage ==
  ASSUME ListsTypeOK, NEW w, NEW f, NEW c, MoreThan(w, f, c)
  PROVE  /\ Page(w, f, c) # {} /\ LastOf(Page(w, f, c)) \in Page(w, f, c)
         /\ LastOf(Page(w, f, c)) \in There
<1>1. Page(w, f, c) \in SUBSET Behind(w, f, c) /\ Behind(w, f, c) \in SUBSET There
  BY BehindIsThere
<1>2. Behind(w, f, c) # {}
  BY <1>1 DEF MoreThan
<1>3. Page(w, f, c) # {}
  BY <1>2, PageIsFull
<1>4. Page(w, f, c) \in SUBSET There
  BY <1>1
<1>5. LastOf(Page(w, f, c)) \in Page(w, f, c)
  BY <1>3, <1>4, LastOfPage
<1> QED
  BY <1>3, <1>4, <1>5

LEMMA ExactCursorType ==
  ASSUME ListsTypeOK, NEW w, NEW f, NEW c
  PROVE  /\ ExactCursor(w, f, c) \in Key \cup {None}
         /\ ExactCursor(w, f, c) # None => Page(w, f, c) # {}
<1>1. CASE MoreThan(w, f, c)
  <2>1. LastOf(Page(w, f, c)) \in There /\ Page(w, f, c) # {}
    BY <1>1, CursorOfAPage
  <2>2. KeyOf(LastOf(Page(w, f, c))) \in Key
    BY <2>1, RowsThere
  <2> QED
    BY <1>1, <2>1, <2>2 DEF ExactCursor
<1>2. CASE ~MoreThan(w, f, c)
  BY <1>2 DEF ExactCursor
<1> QED
  BY <1>1, <1>2

LEMMA DateCursorType ==
  ASSUME ListsTypeOK, NEW w, NEW f, NEW c
  PROVE  /\ DateCursor(w, f, c) \in Key \cup {None}
         /\ DateCursor(w, f, c) # None => Page(w, f, c) # {}
<1>1. CASE MoreThan(w, f, c)
  <2> DEFINE last == LastOf(Page(w, f, c))
  <2>1. last \in There /\ Page(w, f, c) # {}
    BY <1>1, CursorOfAPage
  <2>2. last \in Rows /\ row[last].at \in Nat
    BY <2>1, RowsThere
  <2>3. row[last].at - (row[last].at % Milli) \in Nat
    <3> DEFINE n == row[last].at
    <3>1. n \in Nat /\ Milli \in Nat \ {0}
      BY <2>2, ListsAssumption
    <3> HIDE DEF n
    <3>2. n - (n % Milli) \in Nat
      BY <3>1
    <3> QED
      BY <3>2 DEF n
  <2>4. [at |-> row[last].at - (row[last].at % Milli), id |-> last] \in Key
    BY <2>2, <2>3 DEF Key
  <2>5. DateCursor(w, f, c) = [at |-> row[last].at - (row[last].at % Milli), id |-> last]
    BY <1>1 DEF DateCursor
  <2> QED
    BY <2>1, <2>4, <2>5
<1>2. CASE ~MoreThan(w, f, c)
  BY <1>2 DEF DateCursor
<1> QED
  BY <1>1, <1>2

\* A row behind the cursor is on the page or behind the cursor it gives.
LEMMA NothingIsSkipped ==
  ASSUME ListsTypeOK, NEW w, NEW f, NEW c, NEW r \in Behind(w, f, c)
  PROVE  \/ r \in Page(w, f, c)
         \/ ExactCursor(w, f, c) # None /\ Newer(ExactCursor(w, f, c), KeyOf(r))
<1> SUFFICES ASSUME r \notin Page(w, f, c)
             PROVE  /\ ExactCursor(w, f, c) # None
                    /\ Newer(ExactCursor(w, f, c), KeyOf(r))
  OBVIOUS
<1>1. MoreThan(w, f, c)
  BY DEF MoreThan
<1>2. LastOf(Page(w, f, c)) \in There
  BY <1>1, CursorOfAPage
<1>3. ExactCursor(w, f, c) = KeyOf(LastOf(Page(w, f, c)))
  BY <1>1 DEF ExactCursor
<1>4. KeyOf(LastOf(Page(w, f, c))) \in Key
  BY <1>2, RowsThere
<1>5. None \notin Key
  BY ListsAssumption, NoRowAssumption DEF Key
<1> QED
  BY <1>3, <1>4, <1>5, RowsOffThePage

-----------------------------------------------------------------------------
\* Rows change.

\* Steps of the lists: the rows that were not touched since stay as they are.
ListsGoOn ==
  /\ ListsInv' /\ changes <= changes'
  /\ \A r \in Rows, v \in 0..changes :
       touched'[r] <= v => row'[r] = row[r] /\ touched'[r] = touched[r]

LEMMA AfterAChange ==
  ASSUME ListsInv, NEW c \in Change, Finds(c)
  PROVE  After(c) \in Row \cup {None, Gone}
<1>1. CASE c.op = "drop"
  BY <1>1 DEF After
<1>2. CASE c.op = "add"
  BY <1>2 DEF After, Row, ListsInv, ListsTypeOK
<1>3. CASE c.op \notin {"add", "drop"}
  <2>1. c.row \in There
    BY <1>3 DEF Finds
  <2>2. row[c.row] \in Row
    BY <2>1, RowsThere DEF ListsInv
  <2> QED
    BY <1>3, <2>2 DEF After, Row, ListsInv, ListsTypeOK
<1> QED
  BY <1>1, <1>2, <1>3

LEMMA ApplyGoesOn ==
  ASSUME ListsInv, NEW c \in Change, Apply(c), UNCHANGED seat
  PROVE  ListsGoOn
<1>1. c.row \in Rows /\ After(c) \in Row \cup {None, Gone}
  BY AfterAChange DEF Change, Apply
<1>2. changes \in Nat /\ MaxChanges \in Nat /\ changes < MaxChanges
  BY ListsAssumption DEF ListsInv, ListsTypeOK, Apply
<1>3. row' \in [Rows -> Row \cup {None, Gone}]
  BY <1>1 DEF Apply, ListsInv, ListsTypeOK
<1>4. changes' \in 0..MaxChanges /\ touched' \in [Rows -> 0..MaxChanges]
  <2>1. changes' = changes + 1 /\ touched' = [touched EXCEPT ![c.row] = changes + 1]
    BY DEF Apply
  <2>2. changes + 1 \in 0..MaxChanges
    BY <1>2
  <2> QED
    BY <2>1, <2>2 DEF ListsInv, ListsTypeOK
<1>5. ListsInv'
  BY <1>3, <1>4 DEF Apply, ListsInv, ListsTypeOK, Together
<1>6. ASSUME NEW r \in Rows, NEW v \in 0..changes, touched'[r] <= v
      PROVE  row'[r] = row[r] /\ touched'[r] = touched[r]
  <2>1. r # c.row
    BY <1>2, <1>6 DEF Apply, ListsInv, ListsTypeOK
  <2> QED
    BY <2>1 DEF Apply, ListsInv, ListsTypeOK
<1> QED
  BY <1>2, <1>5, <1>6 DEF ListsGoOn, Apply

LEMMA PutAtGoesOn ==
  ASSUME ListsInv, NEW g \in Rows, NEW t \in Rows \cup {None},
         t # None => Together(g, t), PutAt(g, t)
  PROVE  ListsGoOn
<1>1. changes' = changes + 1 /\ changes \in Nat /\ changes < MaxChanges /\ MaxChanges \in Nat
  BY ListsAssumption DEF ListsInv, ListsTypeOK, PutAt
<1>2. UNCHANGED <<row, pending, clock, touched>> /\ seat' = [seat EXCEPT ![g] = t]
  BY DEF PutAt
<1>3. ListsTypeOK'
  BY <1>1, <1>2 DEF ListsInv, ListsTypeOK
<1>4. seat' \in [Rows -> Rows \cup {None}]
  BY <1>2 DEF ListsInv
<1>5. ASSUME NEW h \in Rows, seat'[h] # None
      PROVE  Together(h, seat'[h])
  <2>1. CASE h = g
    BY <1>2, <1>5, <2>1 DEF ListsInv
  <2>2. CASE h # g
    BY <1>2, <1>5, <2>2 DEF ListsInv
  <2> QED
    BY <2>1, <2>2
<1>6. ListsInv'
  BY <1>3, <1>4, <1>5 DEF ListsInv, Together
<1> QED
  BY <1>1, <1>2, <1>6 DEF ListsGoOn

LEMMA BeginGoesOn ==
  ASSUME ListsInv, BeginInsert, UNCHANGED seat
  PROVE  ListsGoOn
<1>1. UNCHANGED <<row, clock, changes, touched>>
  BY DEF BeginInsert
<1>2. pending' \subseteq [rows : SUBSET Rows, at : 0..MaxTime]
  BY DEF BeginInsert, ListsInv, ListsTypeOK
<1>3. ListsInv'
  BY <1>1, <1>2 DEF ListsInv, ListsTypeOK, Together
<1> QED
  BY <1>1, <1>3 DEF ListsGoOn, ListsInv, ListsTypeOK

LEMMA CommitGoesOn ==
  ASSUME ListsInv, CommitInsert, UNCHANGED seat
  PROVE  ListsGoOn
<1> PICK p \in pending :
      /\ changes < MaxChanges
      /\ row' = [r \in Rows |-> IF r \in p.rows THEN [at |-> p.at, open |-> TRUE] ELSE row[r]]
      /\ pending' = pending \ {p}
      /\ changes' = changes + 1
      /\ touched' = [r \in Rows |-> IF r \in p.rows THEN changes + 1 ELSE touched[r]]
      /\ UNCHANGED clock
  BY DEF CommitInsert
<1>1. changes \in Nat /\ MaxChanges \in Nat
  BY ListsAssumption DEF ListsInv, ListsTypeOK
<1>2. p.at \in 0..MaxTime
  BY DEF ListsInv, ListsTypeOK
<1>3. row' \in [Rows -> Row \cup {None, Gone}]
  BY <1>2 DEF Row, ListsInv, ListsTypeOK
<1>4. changes' \in 0..MaxChanges /\ touched' \in [Rows -> 0..MaxChanges]
  BY <1>1 DEF ListsInv, ListsTypeOK
<1>5. ListsInv'
  BY <1>3, <1>4 DEF ListsInv, ListsTypeOK, Together
<1>6. ASSUME NEW r \in Rows, NEW v \in 0..changes, touched'[r] <= v
      PROVE  row'[r] = row[r] /\ touched'[r] = touched[r]
  BY <1>1, <1>6
<1> QED
  BY <1>1, <1>5, <1>6 DEF ListsGoOn

LEMMA TickGoesOn ==
  ASSUME ListsInv, Tick, UNCHANGED seat
  PROVE  ListsGoOn
<1>1. clock' \in 0..MaxTime
  BY ListsAssumption DEF Tick, ListsInv, ListsTypeOK
<1>2. ListsInv'
  BY <1>1 DEF ListsInv, ListsTypeOK, Together, Tick
<1> QED
  BY <1>2 DEF ListsGoOn, ListsInv, ListsTypeOK, Tick

LEMMA StillGoesOn ==
  ASSUME ListsInv, UNCHANGED <<listVars, seat>>
  PROVE  ListsGoOn
<1>1. ListsInv'
  BY DEF ListsInv, ListsTypeOK, Together, listVars
<1> QED
  BY <1>1 DEF ListsGoOn, ListsInv, ListsTypeOK, listVars

\* A save of a panel is carried out.
LEMMA StoreGoesOn ==
  ASSUME ListsInv, NEW m \in Request, m.change \in PanelChange,
         m.change.op = "seat" => Together(m.change.row, m.pick), Store(m)
  PROVE  ListsGoOn
<1>1. m.change.row \in Rows /\ m.pick \in Rows \cup {None}
  BY DEF PanelChange, Change, SeatChange, Request
<1>2. CASE m.change.op = "seat" /\ PutAt(m.change.row, m.pick)
  BY <1>1, <1>2, PutAtGoesOn
<1>3. CASE m.change.op = "unseat" /\ PutAt(m.change.row, None)
  BY <1>1, <1>3, PutAtGoesOn
<1>4. CASE m.change \in Change /\ Apply(m.change) /\ UNCHANGED seat
  BY <1>4, ApplyGoesOn
<1> QED
  BY <1>2, <1>3, <1>4 DEF Store

\* What others do to the rows and the seats.
LEMMA OthersGoOn ==
  ASSUME ListsInv, OthersStep
  PROVE  ListsGoOn
<1>1. CASE UNCHANGED seat /\ BeginInsert
  BY <1>1, BeginGoesOn
<1>2. CASE UNCHANGED seat /\ CommitInsert
  BY <1>2, CommitGoesOn
<1>3. CASE UNCHANGED seat /\ Tick
  BY <1>3, TickGoesOn
<1>4. ASSUME UNCHANGED seat, NEW r \in There, NEW op \in Edits(Of[r][2]),
             Apply([op |-> op, row |-> r])
      PROVE  ListsGoOn
  <2>1. [op |-> op, row |-> r] \in Change
    BY DEF Change, Edits, There
  <2> QED
    BY <1>4, <2>1, ApplyGoesOn
<1>5. ASSUME NEW w \in Weddings, NEW g \in RowsOf(Guests(w)),
             NEW t \in RowsOf(<<w, "seating">>) \cup {None}, PutAt(g, t)
      PROVE  ListsGoOn
  <2>1. g \in Rows /\ t \in Rows \cup {None} /\ (t # None => Together(g, t))
    BY DEF RowsOf, Together
  <2> QED
    BY <1>5, <2>1, PutAtGoesOn
<1> QED
  BY <1>1, <1>2, <1>3, <1>4, <1>5 DEF OthersStep

-----------------------------------------------------------------------------
\* The weddings to choose from.

LEMMA PageIsOfTheList ==
  ASSUME ListsTypeOK, NEW w, NEW f, NEW c, NEW r \in Behind(w, f, c)
  PROVE  r \in There /\ Of[r] = w /\ Matches(f, row[r])
         /\ (c = None \/ Newer(c, KeyOf(r)))
BY DEF Behind

LEMMA WeddingsOnAPage ==
  ASSUME ListsTypeOK, NEW f, NEW c
  PROVE  Page(Memberships, f, c) \subseteq Weddings
<1> SUFFICES ASSUME NEW r \in Page(Memberships, f, c)
             PROVE  r \in Weddings
  OBVIOUS
<1>1. r \in There /\ Of[r] = Memberships
  BY BehindIsThere, PageIsOfTheList
<1> QED
  BY <1>1, RowsThere, DeskAssumption

LEMMA ScopeStays ==
  ASSUME ScopeInv, UNCHANGED <<scopeVars, menu>>
  PROVE  ScopeInv'
BY DEF ScopeInv, scopeVars

LEMMA ClickKeepsScope ==
  ASSUME ScopeInv, Act, UNCHANGED <<selected, section, scope, creating, menu>>,
         moreBusy' \in BOOLEAN
  PROVE  ScopeInv'
BY ScopeAssumption DEF ScopeInv, Act

LEMMA ChangeSectionKeepsScope ==
  ASSUME ScopeInv, ChangeSection
  PROVE  ScopeInv'
BY ScopeAssumption DEF ScopeInv, ChangeSection, Act, menuVars

LEMMA ChooseWeddingKeepsScope ==
  ASSUME ScopeInv, ChooseWedding
  PROVE  ScopeInv'
<1>1. section' \in Sections /\ ~creating' /\ creating' \in BOOLEAN
  BY DEF ChooseWedding, Sections, Act, ScopeInv
<1>2. moreBusy' \in BOOLEAN
  BY DEF ChooseWedding
<1> QED
  BY <1>1, <1>2, ScopeAssumption DEF ScopeInv, ChooseWedding, Act, menuVars

LEMMA MenuStays ==
  ASSUME MenuInv, UNCHANGED <<menuVars, creating>>
  PROVE  MenuInv'
BY DEF MenuInv, menuVars

LEMMA MoreWeddingsKeepsMenu ==
  ASSUME ScopeInv, MenuInv, MoreWeddings
  PROVE  ScopeInv' /\ MenuInv'
<1> DEFINE m == [wedding |-> None, cursor |-> menuCursor, reply |-> None]
<1>1. m \in MenuRequest /\ m.wedding = None
  BY DEF MenuInv, MenuRequest
<1> HIDE DEF m
<1>2. menuNet' = menuNet \cup {m}
  BY DEF MoreWeddings, m
<1>3. MenuInv'
  BY <1>1, <1>2 DEF MenuInv, MoreWeddings
<1>4. ScopeInv'
  BY DEF ScopeInv, MoreWeddings
<1> QED
  BY <1>3, <1>4

LEMMA CreateWeddingKeepsMenu ==
  ASSUME ScopeInv, MenuInv, CreateWedding
  PROVE  ScopeInv' /\ MenuInv'
<1> PICK w \in Weddings :
      menuNet' = menuNet \cup {[wedding |-> w, cursor |-> None, reply |-> None]}
  BY DEF CreateWedding
<1> DEFINE m == [wedding |-> w, cursor |-> None, reply |-> None]
<1>1. m \in MenuRequest
  BY DEF MenuRequest
<1>2. menuNet' = menuNet \cup {m}
  OBVIOUS
<1> HIDE DEF m
<1>3. \A n \in menuNet : n.wedding = None
  BY DEF CreateWedding, Act, MenuInv
<1>4. MenuInv'
  BY <1>1, <1>2, <1>3 DEF MenuInv, CreateWedding
<1>5. ScopeInv'
  BY ScopeAssumption DEF ScopeInv, CreateWedding, Act
<1> QED
  BY <1>4, <1>5

\* A request is answered.
LEMMA MenuReplyKeepsMenu ==
  ASSUME MenuInv, NEW m \in menuNet, NEW r \in MenuAnswer \cup {None, NoAnswer},
         MenuReply(m, r), UNCHANGED <<menu, menuCursor, creating>>
  PROVE  MenuInv'
<1> DEFINE n == [m EXCEPT !.reply = r]
<1>1. n \in MenuRequest /\ n.wedding = m.wedding
  BY DEF MenuInv, MenuRequest
<1>2. menuNet' = (menuNet \ {m}) \cup {n}
  BY DEF MenuReply
<1> HIDE DEF n
<1> QED
  BY <1>1, <1>2 DEF MenuInv

LEMMA ServeMenuKeepsMenu ==
  ASSUME ListsInv, ScopeInv, MenuInv, NEW m \in menuNet, ServeMenu(m), UNCHANGED seat
  PROVE  ScopeInv' /\ MenuInv' /\ ListsGoOn
<1>1. UNCHANGED <<menu, menuCursor, scopeVars>> /\ creating' = creating
  BY DEF ServeMenu, scopeVars
<1>2. ScopeInv'
  BY <1>1, ScopeStays
<1>3. WeddingPage(m) \in MenuAnswer
  BY DateCursorType, WeddingsOnAPage DEF WeddingPage, MenuAnswer, ListsInv
<1>4. m.wedding \in Weddings \cup {None}
  BY DEF MenuInv, MenuRequest
<1>5. ASSUME m.wedding # None, StoreWedding(m.wedding)
      PROVE  ListsGoOn /\ [weddings |-> {m.wedding}, cursor |-> None] \in MenuAnswer
  <2>1. m.wedding \in Weddings /\ m.wedding \in Rows
    BY <1>4, <1>5, DeskAssumption
  <2>2. [op |-> "add", row |-> m.wedding] \in Change
    BY <2>1 DEF Change
  <2>3. ListsGoOn
    BY <1>5, <2>2, ApplyGoesOn DEF StoreWedding
  <2> QED
    BY <2>1, <2>3 DEF MenuAnswer
<1>6. CASE m.wedding = None /\ MenuReply(m, WeddingPage(m)) /\ UNCHANGED listVars
  BY <1>1, <1>2, <1>3, <1>6, MenuReplyKeepsMenu, StillGoesOn
<1>7. CASE /\ m.wedding # None /\ StoreWedding(m.wedding)
           /\ MenuReply(m, [weddings |-> {m.wedding}, cursor |-> None])
  BY <1>1, <1>2, <1>5, <1>7, MenuReplyKeepsMenu
<1>8. CASE m.wedding # None /\ StoreWedding(m.wedding) /\ MenuReply(m, NoAnswer)
  BY <1>1, <1>2, <1>5, <1>8, MenuReplyKeepsMenu
<1>9. CASE MenuReply(m, NoAnswer) /\ UNCHANGED listVars
  BY <1>1, <1>2, <1>9, MenuReplyKeepsMenu, StillGoesOn
<1> QED
  BY <1>6, <1>7, <1>8, <1>9 DEF ServeMenu

LEMMA DeliverWeddingsKeepsMenu ==
  ASSUME ScopeInv, MenuInv, NEW m \in menuNet, m.reply # None, DeliverWeddings(m)
  PROVE  ScopeInv' /\ MenuInv'
<1>1. m.reply # NoAnswer => m.reply.weddings \subseteq Weddings
                            /\ m.reply.cursor \in Key \cup {None}
  BY DEF MenuInv, MenuRequest, MenuAnswer
<1>2. menuCursor' \in Key \cup {None} /\ selected \in menu' /\ menu' \subseteq Weddings
  BY <1>1 DEF MenuInv, ScopeInv, DeliverWeddings
<1>3. MenuInv'
  BY <1>2 DEF MenuInv, DeliverWeddings
<1>4. ScopeInv'
  BY <1>2 DEF ScopeInv, DeliverWeddings
<1> QED
  BY <1>3, <1>4

LEMMA DeliverRefusalKeepsMenu ==
  ASSUME ScopeInv, MenuInv, NEW m \in menuNet, DeliverRefusal(m)
  PROVE  ScopeInv' /\ MenuInv'
<1>1. \A n \in menuNet' : n \in menuNet /\ n.wedding = None
  BY DEF MenuInv, DeliverRefusal
<1>2. MenuInv'
  BY <1>1 DEF MenuInv, DeliverRefusal
<1>3. ~creating' /\ creating' \in BOOLEAN
  BY DEF DeliverRefusal
<1>4. ScopeInv'
  BY <1>3 DEF ScopeInv, DeliverRefusal
<1> QED
  BY <1>2, <1>4

LEMMA DeliverCreatedKeepsMenu ==
  ASSUME ScopeInv, MenuInv, NEW m \in menuNet, DeliverCreated(m)
  PROVE  ScopeInv' /\ MenuInv'
<1>1. \A n \in menuNet' : n \in menuNet /\ n.wedding = None
  BY DEF MenuInv, DeliverCreated
<1>2. MenuInv'
  BY <1>1 DEF MenuInv, DeliverCreated
<1>3. creating /\ m.wedding \in Weddings
  BY DEF MenuInv, MenuRequest, DeliverCreated
<1>4. section' \in Sections /\ ~creating' /\ creating' \in BOOLEAN
  BY DEF DeliverCreated, Sections
<1>5. ScopeInv'
  BY <1>3, <1>4 DEF ScopeInv, DeliverCreated
<1> QED
  BY <1>2, <1>5

-----------------------------------------------------------------------------
\* The guests on the page.

LEMMA GuestsStay ==
  ASSUME GuestInv, UNCHANGED <<guestVars, scope, selected>>
  PROVE  GuestInv'
BY DEF GuestInv, GuestRequestOK, guestVars, workspaceVars, childVars

\* A request stays as good while its wedding is shown by the same list.
LEMMA GuestRequestStays ==
  ASSUME ScopeInv, GuestInv, NEW m, GuestRequestOK(m),
         scope' \in Nat, instance' \in Nat, scope <= scope', instance <= instance',
         scope' = scope => selected' = selected,
         instance' = instance /\ guestsLoaded' /\ ~guestLoadError' =>
           guestsLoaded /\ ~guestLoadError /\ selected' = selected
  PROVE  GuestRequestOK(m)'
<1>1. m.scope \in Nat /\ m.instance \in Nat /\ m.scope <= scope /\ m.instance <= instance
  BY DEF GuestRequestOK, GuestRequest
<1>2. scope \in Nat /\ instance \in Nat
  BY DEF ScopeInv, GuestInv
<1>3. m.scope <= scope' /\ m.instance <= instance'
  BY <1>1, <1>2
<1>4. m.scope = scope' => m.scope = scope /\ scope' = scope
  BY <1>1, <1>2
<1>5. m.instance = instance' => m.instance = instance /\ instance' = instance
  BY <1>1, <1>2
<1> QED
  BY <1>3, <1>4, <1>5 DEF GuestRequestOK

GuestKinds == {"first", "page", "guest", "edit", "assign", "link", "side", "paint"}

\* A request that is sent now.
LEMMA SentIsGood ==
  ASSUME ScopeInv, GuestInv, NEW kind \in GuestKinds
  PROVE  /\ Sent(kind) \in GuestRequest /\ Sent(kind).kind = kind
         /\ Sent(kind).wedding = selected /\ Sent(kind).scope = scope
         /\ Sent(kind).instance = instance /\ Sent(kind).reply = None
BY DEF Sent, GuestRequest, GuestKinds, ScopeInv, GuestInv

LEMMA UnmountedIsGood ==
  ASSUME GuestInv, Unmounted
  PROVE  /\ listed' = {} /\ nextCursor' \in Key \cup {None} /\ view' \in Views
         /\ requestId' \in Nat /\ mutationVersion' \in Nat /\ listBusy' \in BOOLEAN
         /\ instance' = instance
BY DEF Unmounted, GuestInv, Views

\* The first page is asked for, for the wedding that is shown.
LEMMA LoadGuestsKeepsGuests ==
  ASSUME ScopeInv, GuestInv, LoadGuests, Unmounted \/ UNCHANGED childVars,
         UNCHANGED <<scope, selected>>
  PROVE  GuestInv'
<1> PICK m : m = [Sent("first") EXCEPT !.request = guestRequestId + 1,
                                       !.mutation = workspaceMutationVersion, !.view = "open"]
  OBVIOUS
<1>1. Sent("first") \in GuestRequest /\ Sent("first").kind = "first"
      /\ Sent("first").wedding = selected /\ Sent("first").scope = scope
      /\ Sent("first").instance = instance /\ Sent("first").reply = None
  BY SentIsGood DEF GuestKinds
<1>2. m \in GuestRequest /\ m.kind = "first" /\ m.wedding = selected /\ m.scope = scope
      /\ m.instance = instance /\ m.reply = None
  <2>1. guestRequestId + 1 \in Nat /\ workspaceMutationVersion \in Nat /\ "open" \in Views
    BY DEF GuestInv, Views
  <2> QED
    BY <1>1, <2>1 DEF GuestRequest
<1>3. guestNet' = Kept(guestNet) \cup {m}
  BY DEF LoadGuests
<1>4. instance' = instance /\ instance \in Nat /\ scope \in Nat
  BY DEF Unmounted, childVars, GuestInv, ScopeInv
<1>5. ~guestsLoaded'
  BY DEF LoadGuests
<1>6. GuestRequestOK(m)'
  BY <1>2, <1>4 DEF GuestRequestOK
<1>7. \A n \in Kept(guestNet) : GuestRequestOK(n)'
  BY <1>4, <1>5, GuestRequestStays DEF Kept, GuestInv
<1>8. \A n \in guestNet' : GuestRequestOK(n)'
  BY <1>3, <1>6, <1>7
<1>9. guests' = {} /\ guestsLoaded' = FALSE /\ guestLoadError' = FALSE /\ guestRequestId' \in Nat
      /\ UNCHANGED <<guestCursor, workspaceMutationVersion, invitations>>
  BY DEF LoadGuests, GuestInv
<1>10. /\ listed' \subseteq listed /\ nextCursor' \in Key \cup {None} /\ view' \in Views
       /\ requestId' \in Nat /\ mutationVersion' \in Nat /\ listBusy' \in BOOLEAN
  <2>1. CASE Unmounted
    BY <2>1, UnmountedIsGood
  <2>2. CASE UNCHANGED childVars
    BY <2>2 DEF childVars, GuestInv
  <2> QED
    BY <2>1, <2>2
<1> QED
  BY <1>4, <1>8, <1>9, <1>10 DEF GuestInv

LEMMA LeaveKeepsGuests ==
  ASSUME ScopeInv, GuestInv, LeaveGuests, UNCHANGED <<scope, selected>>
  PROVE  GuestInv'
<1>1. UNCHANGED <<guests, guestCursor, guestsLoaded, guestLoadError,
                 workspaceMutationVersion, invitations>>
      /\ guestRequestId' \in Nat /\ guestNet' \subseteq guestNet /\ Unmounted
  BY DEF LeaveGuests, GuestInv, Kept
<1>2. instance \in Nat /\ scope \in Nat
  BY DEF GuestInv, ScopeInv
<1>3. \A n \in guestNet' : GuestRequestOK(n)'
  BY <1>1, <1>2, UnmountedIsGood, GuestRequestStays DEF GuestInv
<1> QED
  BY <1>1, <1>3, UnmountedIsGood DEF GuestInv

\* Another wedding is chosen.
LEMMA ForgetKeepsGuests ==
  ASSUME ScopeInv, GuestInv, ForgetGuests, scope' = scope + 1
  PROVE  GuestInv'
<1>1. UNCHANGED <<guestLoadError, workspaceMutationVersion>> /\ Unmounted
      /\ guests' = {} /\ guestCursor' = None /\ guestsLoaded' = FALSE /\ invitations' = {}
      /\ guestRequestId' \in Nat /\ guestNet' \subseteq guestNet
  BY DEF ForgetGuests, GuestInv, Kept
<1>2. instance \in Nat /\ scope \in Nat /\ instance' = instance
  BY <1>1, UnmountedIsGood DEF GuestInv, ScopeInv
<1>3. \A n \in guestNet' : GuestRequestOK(n)'
  BY <1>1, <1>2, GuestRequestStays DEF GuestInv
<1> QED
  BY <1>1, <1>3, UnmountedIsGood DEF GuestInv

-----------------------------------------------------------------------------
\* Clicks in the guest section.

LEMMA AskKeepsRequests ==
  ASSUME ScopeInv, GuestInv, NEW m, GuestRequestOK(m), Ask(m),
         UNCHANGED <<scope, selected, instance, guestsLoaded, guestLoadError>>
  PROVE  \A n \in guestNet' : GuestRequestOK(n)'
<1>1. instance \in Nat /\ scope \in Nat
  BY DEF GuestInv, ScopeInv
<1>2. \A n \in guestNet' : GuestRequestOK(n)
  BY DEF Ask, GuestInv
<1> QED
  BY <1>1, <1>2, GuestRequestStays

LEMMA SaveSideKeepsGuests ==
  ASSUME ScopeInv, GuestInv, SaveSide
  PROVE  GuestInv'
<1>1. PICK kind \in {"side", "paint"} : Ask(Sent(kind))
  BY DEF SaveSide
<1>2. GuestRequestOK(Sent(kind))
  BY <1>1, SentIsGood DEF GuestRequestOK, GuestKinds, ScopeInv, GuestInv
<1>3. UNCHANGED <<workspaceVars, invitations, childVars, scope, selected>>
  BY DEF SaveSide
<1>4. \A n \in guestNet' : GuestRequestOK(n)'
  BY <1>1, <1>2, <1>3, AskKeepsRequests DEF workspaceVars, childVars
<1> QED
  BY <1>3, <1>4 DEF GuestInv, workspaceVars, childVars

\* The list asks for itself.
LEMMA PageOfIsGood ==
  ASSUME ScopeInv, GuestInv, NEW f \in Views, NEW c \in Key \cup {None}, NEW append \in BOOLEAN
  PROVE  GuestRequestOK(PageOf(f, c, append)) /\ PageOf(f, c, append) \in GuestRequest
         /\ PageOf(f, c, append).kind = "page" /\ PageOf(f, c, append).wedding = selected
         /\ PageOf(f, c, append).scope = scope /\ PageOf(f, c, append).instance = instance
         /\ PageOf(f, c, append).reply = None
<1>1. Sent("page") \in GuestRequest /\ Sent("page").kind = "page"
      /\ Sent("page").wedding = selected /\ Sent("page").scope = scope
      /\ Sent("page").instance = instance /\ Sent("page").reply = None
  BY SentIsGood DEF GuestKinds
<1>2. /\ PageOf(f, c, append) \in GuestRequest /\ PageOf(f, c, append).kind = "page"
      /\ PageOf(f, c, append).wedding = selected /\ PageOf(f, c, append).scope = scope
      /\ PageOf(f, c, append).instance = instance /\ PageOf(f, c, append).reply = None
  <2>1. requestId + 1 \in Nat /\ mutationVersion \in Nat
    BY DEF GuestInv
  <2> QED
    BY <1>1, <2>1 DEF PageOf, GuestRequest
<1>3. GuestRequestOK(PageOf(f, c, append))
  BY <1>2 DEF GuestRequestOK, ScopeInv, GuestInv
<1> QED
  BY <1>2, <1>3

LEMMA LoadPageKeepsGuests ==
  ASSUME ScopeInv, GuestInv, NEW f \in Views, NEW c \in Key \cup {None},
         NEW append \in BOOLEAN, LoadPage(f, c, append), view' \in Views,
         UNCHANGED <<scope, selected, workspaceVars, invitations>>
  PROVE  GuestInv'
<1>1. \A n \in guestNet' : GuestRequestOK(n)'
  BY PageOfIsGood, AskKeepsRequests DEF LoadPage, workspaceVars
<1> QED
  BY <1>1 DEF GuestInv, LoadPage, workspaceVars

LEMMA SaveGuestKeepsGuests ==
  ASSUME ScopeInv, GuestInv, SaveGuest
  PROVE  GuestInv'
<1>1. PICK kind \in {"guest", "edit", "assign", "link"}, c \in Change :
        CanSave(kind, c) /\ Ask([Sent(kind) EXCEPT !.change = c])
  BY DEF SaveGuest
<1> DEFINE m == [Sent(kind) EXCEPT !.change = c]
<1>2. Sent(kind) \in GuestRequest /\ Sent(kind).kind = kind
      /\ Sent(kind).wedding = selected /\ Sent(kind).scope = scope
      /\ Sent(kind).instance = instance /\ Sent(kind).reply = None
  BY SentIsGood DEF GuestKinds
<1>3. m \in GuestRequest /\ m.wedding = selected /\ m.scope = scope
      /\ m.instance = instance /\ m.reply = None /\ m.change = c
  BY <1>2 DEF GuestRequest
<1>4. Of[c.row] = Guests(selected)
  BY <1>1 DEF CanSave
<1> HIDE DEF m
<1>5. GuestRequestOK(m)
  BY <1>3, <1>4 DEF GuestRequestOK, ScopeInv, GuestInv
<1>6. UNCHANGED <<workspaceVars, invitations, instance, listed, nextCursor, view,
                 requestId, mutationVersion, scope, selected>> /\ listBusy' \in BOOLEAN
  BY DEF SaveGuest, Click
<1>7. \A n \in guestNet' : GuestRequestOK(n)'
  BY <1>1, <1>5, <1>6, AskKeepsRequests DEF m, workspaceVars
<1> QED
  BY <1>6, <1>7 DEF GuestInv, workspaceVars

-----------------------------------------------------------------------------
\* Answers about guests.

LEMMA GuestReplyKeepsGuests ==
  ASSUME ScopeInv, GuestInv, NEW m \in guestNet, NEW r,
         (r \in {None, NoAnswer})
           \/ (r \in GuestAnswer /\ \A s \in r.entries : Of[s.id] = Guests(m.wedding)),
         GuestReply(m, r),
         UNCHANGED <<scope, selected, workspaceVars, invitations, childVars>>
  PROVE  GuestInv'
<1> DEFINE n == [m EXCEPT !.reply = r]
<1>1. GuestRequestOK(m)
  BY DEF GuestInv
<1>2. n \in GuestRequest /\ n.kind = m.kind /\ n.wedding = m.wedding /\ n.scope = m.scope
      /\ n.instance = m.instance /\ n.change = m.change /\ n.reply = r
  BY <1>1 DEF GuestRequestOK, GuestRequest
<1>3. guestNet' = (guestNet \ {m}) \cup {n}
  BY DEF GuestReply
<1> HIDE DEF n
<1>4. GuestRequestOK(n)
  BY <1>1, <1>2 DEF GuestRequestOK
<1>5. \A k \in guestNet' : GuestRequestOK(k)
  BY <1>3, <1>4 DEF GuestInv
<1>6. instance \in Nat /\ scope \in Nat
      /\ UNCHANGED <<instance, guestsLoaded, guestLoadError>>
  BY DEF GuestInv, ScopeInv, workspaceVars, childVars
<1>7. \A k \in guestNet' : GuestRequestOK(k)'
  BY <1>5, <1>6, GuestRequestStays
<1> QED
  BY <1>7 DEF GuestInv, workspaceVars, childVars

LEMMA GuestsListedIsGood ==
  ASSUME ListsInv, NEW m, m.wedding \in Weddings
  PROVE  /\ GuestsListed(m) \in GuestAnswer
         /\ \A s \in GuestsListed(m).entries : Of[s.id] = Guests(m.wedding)
<1> DEFINE list == Guests(m.wedding)
           page == Page(list, m.view, m.cursor)
<1>1. \A r \in page : r \in Rows /\ Of[r] = list
  BY BehindIsThere, PageIsOfTheList, RowsThere DEF ListsInv
<1>2. DateCursor(list, m.view, m.cursor) \in Key \cup {None}
  BY DateCursorType DEF ListsInv
<1>3. changes \in Nat
  BY DEF ListsInv, ListsTypeOK
<1> HIDE DEF list
<1>4. {[id |-> r, at |-> changes] : r \in page} \subseteq Summary
  BY <1>1, <1>3 DEF Summary
<1>5. GuestsListed(m) = [entries |-> {[id |-> r, at |-> changes] : r \in page},
                         cursor |-> DateCursor(list, m.view, m.cursor), at |-> changes]
  BY DEF GuestsListed, list
<1> HIDE DEF page
<1>6. GuestsListed(m) \in GuestAnswer
  BY <1>2, <1>3, <1>4, <1>5 DEF GuestAnswer
<1>7. \A s \in GuestsListed(m).entries : \E r \in page : s.id = r
  BY <1>5
<1> QED
  BY <1>1, <1>6, <1>7 DEF list

LEMMA ServeGuestsKeepsGuests ==
  ASSUME ListsInv, ScopeInv, GuestInv, NEW m \in guestNet, ServeGuests(m), UNCHANGED seat
  PROVE  GuestInv' /\ ListsGoOn
<1>1. UNCHANGED <<scope, selected, workspaceVars, invitations, childVars>>
  BY DEF ServeGuests, scopeVars
<1>2. GuestRequestOK(m) /\ m.wedding \in Weddings
  BY DEF GuestInv, GuestRequestOK, GuestRequest
<1>3. \A v \in Nat : Told(v) \in GuestAnswer /\ Told(v).entries = {}
  BY DEF Told, GuestAnswer
<1>4. changes \in Nat /\ changes + 1 \in Nat
  BY DEF ListsInv, ListsTypeOK
<1>5. CASE m.kind \in {"first", "page"} /\ GuestReply(m, GuestsListed(m)) /\ UNCHANGED listVars
  BY <1>1, <1>2, <1>5, GuestsListedIsGood, GuestReplyKeepsGuests, StillGoesOn
<1>6. CASE m.kind = "guest" /\ Apply(m.change) /\ GuestReply(m, Told(changes + 1))
  <2>1. ListsGoOn
    BY <1>2, <1>6, ApplyGoesOn DEF GuestRequestOK
  <2> QED
    BY <2>1, <1>1, <1>3, <1>4, <1>6, GuestReplyKeepsGuests
<1>7. CASE m.kind = "guest" /\ Apply(m.change) /\ GuestReply(m, NoAnswer)
  <2>1. ListsGoOn
    BY <1>2, <1>7, ApplyGoesOn DEF GuestRequestOK
  <2> QED
    BY <2>1, <1>1, <1>7, GuestReplyKeepsGuests
<1>8. CASE GuestReply(m, Told(changes)) /\ UNCHANGED listVars
  BY <1>1, <1>3, <1>4, <1>8, GuestReplyKeepsGuests, StillGoesOn
<1>9. CASE GuestReply(m, NoAnswer) /\ UNCHANGED listVars
  BY <1>1, <1>9, GuestReplyKeepsGuests, StillGoesOn
<1> QED
  BY <1>5, <1>6, <1>7, <1>8, <1>9 DEF ServeGuests

LEMMA FewerRequests ==
  ASSUME ScopeInv, GuestInv, guestNet' \subseteq guestNet,
         UNCHANGED <<scope, selected, instance, guestsLoaded, guestLoadError>>
  PROVE  \A n \in guestNet' : GuestRequestOK(n)'
<1>1. instance \in Nat /\ scope \in Nat
  BY DEF GuestInv, ScopeInv
<1> QED
  BY <1>1, GuestRequestStays DEF GuestInv

\* What an answer says belongs to the wedding it was asked for.
LEMMA AnswerIsOfItsWedding ==
  ASSUME GuestInv, NEW m \in guestNet, m.reply # None, ~Lost(m)
  PROVE  /\ m.reply.entries \subseteq Summary /\ m.reply.cursor \in Key \cup {None}
         /\ m.reply.at \in Nat
         /\ \A s \in m.reply.entries : Of[s.id] = Guests(m.wedding)
<1>1. GuestRequestOK(m) /\ m.reply \notin {None, NoAnswer}
  BY DEF GuestInv, Lost
<1>2. m.reply \in GuestAnswer
  BY <1>1 DEF GuestRequestOK, GuestRequest
<1> QED
  BY <1>1, <1>2 DEF GuestRequestOK, GuestAnswer

LEMMA AliveIsOfTheWedding ==
  ASSUME GuestInv, NEW m \in guestNet
  PROVE  /\ Alive(m) => m.wedding = selected
         /\ Fresh(m) => m.wedding = selected
BY DEF GuestInv, GuestRequestOK, Alive, Fresh, GuestsShown

LEMMA DeliverFirstKeepsGuests ==
  ASSUME ScopeInv, GuestInv, NEW m \in guestNet, m.reply # None, DeliverFirst(m),
         UNCHANGED scopeVars
  PROVE  GuestInv'
<1>1. UNCHANGED <<guestRequestId, workspaceMutationVersion, invitations, scope, selected>>
      /\ guestNet' \subseteq guestNet
  BY DEF DeliverFirst, Taken, scopeVars
<1>2. instance \in Nat /\ scope \in Nat /\ \A n \in guestNet : GuestRequestOK(n)
  BY DEF GuestInv, ScopeInv
<1>3. CASE Fresh(m) /\ m.request = guestRequestId
  <2>1. guestsLoaded' = TRUE /\ guestLoadError' = Lost(m)
    BY <1>3 DEF DeliverFirst
  <2>2. /\ guests' \subseteq Summary /\ guestCursor' \in Key \cup {None}
        /\ \A s \in guests' : Of[s.id] = Guests(selected)
    <3>1. CASE ~Lost(m) /\ m.mutation = workspaceMutationVersion
      <4>1. guests' = m.reply.entries /\ guestCursor' = m.reply.cursor
        BY <1>3, <3>1 DEF DeliverFirst
      <4> QED
        BY <1>3, <3>1, <4>1, AnswerIsOfItsWedding, AliveIsOfTheWedding
    <3>2. CASE ~(~Lost(m) /\ m.mutation = workspaceMutationVersion)
      BY <1>3, <3>2 DEF DeliverFirst, GuestInv
    <3> QED
      BY <3>1, <3>2
  <2>3. CASE Lost(m)
    <3>1. Unmounted /\ guestLoadError'
      BY <1>3, <2>1, <2>3 DEF DeliverFirst
    <3>2. \A n \in guestNet' : GuestRequestOK(n)'
      BY <1>1, <1>2, <3>1, UnmountedIsGood, GuestRequestStays
    <3>3. guestsLoaded' \in BOOLEAN /\ guestLoadError' \in BOOLEAN
      BY <2>1 DEF Lost
    <3> QED
      BY <1>1, <2>2, <3>1, <3>2, <3>3, UnmountedIsGood DEF GuestInv
  <2>4. CASE ~Lost(m)
    <3>1. MountOn(guests', guestCursor')
      BY <1>3, <2>4 DEF DeliverFirst
    <3>2. /\ instance' = instance + 1 /\ listed' = guests' /\ nextCursor' = guestCursor'
          /\ view' \in Views /\ requestId' \in Nat /\ mutationVersion' \in Nat
          /\ listBusy' \in BOOLEAN
      BY <3>1 DEF MountOn, Views
    <3>3. \A n \in guestNet' : GuestRequestOK(n)'
      <4>1. instance' \in Nat /\ instance <= instance' /\ instance' # instance
        BY <1>2, <3>2
      <4>2. ASSUME NEW n \in guestNet'
            PROVE  GuestRequestOK(n)'
        <5>1. GuestRequestOK(n) /\ n.instance \in Nat /\ n.instance <= instance
          BY <1>1, <1>2 DEF GuestRequestOK, GuestRequest
        <5>2. n.instance # instance' /\ n.instance <= instance'
          BY <1>2, <3>2, <5>1
        <5> QED
          BY <1>1, <5>1, <5>2 DEF GuestRequestOK
      <4> QED
        BY <4>2
    <3>4. guestsLoaded' \in BOOLEAN /\ guestLoadError' \in BOOLEAN
      BY <2>1 DEF Lost
    <3> QED
      BY <1>1, <1>2, <2>2, <3>2, <3>3, <3>4 DEF GuestInv
  <2> QED
    BY <2>3, <2>4
<1>4. CASE ~(Fresh(m) /\ m.request = guestRequestId)
  <2>1. UNCHANGED <<guests, guestCursor, guestsLoaded, guestLoadError, childVars>>
    BY <1>4 DEF DeliverFirst
  <2>2. \A n \in guestNet' : GuestRequestOK(n)'
    BY <1>1, <2>1, FewerRequests DEF childVars
  <2> QED
    BY <1>1, <2>1, <2>2 DEF GuestInv, childVars
<1> QED
  BY <1>3, <1>4

LEMMA DeliverSideKeepsGuests ==
  ASSUME ScopeInv, GuestInv, NEW m \in guestNet, DeliverSide(m)
  PROVE  GuestInv'
<1>1. UNCHANGED <<guests, guestCursor, guestsLoaded, guestLoadError, guestRequestId,
                 invitations, instance, view, requestId, mutationVersion, listBusy,
                 scope, selected>>
      /\ guestNet' \subseteq guestNet
  BY DEF DeliverSide, Taken
<1>2. workspaceMutationVersion' \in Nat
  BY DEF DeliverSide, GuestInv
<1>3. (listed' = guests /\ nextCursor' = guestCursor) \/ UNCHANGED <<listed, nextCursor>>
  BY DEF DeliverSide
<1>4. \A n \in guestNet' : GuestRequestOK(n)'
  BY <1>1, FewerRequests
<1> QED
  BY <1>1, <1>2, <1>3, <1>4 DEF GuestInv

\* The list on the page becomes another one of the same wedding.
LEMMA RelistKeepsGuests ==
  ASSUME ScopeInv, GuestInv,
         listed' \subseteq Summary, \A s \in listed' : Of[s.id] = Guests(selected),
         nextCursor' \in Key \cup {None}, mutationVersion' \in Nat, requestId' \in Nat,
         listBusy' \in BOOLEAN, invitations' \subseteq Rows,
         \A g \in invitations' : Of[g] = Guests(selected),
         \A n \in guestNet' : GuestRequestOK(n)',
         UNCHANGED <<workspaceVars, instance, view, selected>>
  PROVE  GuestInv'
BY DEF GuestInv, workspaceVars

LEMMA DeliverPageKeepsGuests ==
  ASSUME ScopeInv, GuestInv, NEW m \in guestNet, m.reply # None, DeliverPage(m),
         UNCHANGED scopeVars
  PROVE  GuestInv'
<1>1. UNCHANGED <<workspaceVars, invitations, instance, view, requestId, mutationVersion,
                 scope, selected>>
      /\ guestNet' \subseteq guestNet
  BY DEF DeliverPage, Taken, scopeVars
<1>2. \A n \in guestNet' : GuestRequestOK(n)'
  BY <1>1, FewerRequests DEF workspaceVars
<1>3. listBusy' \in BOOLEAN
  BY DEF DeliverPage, GuestInv
<1>4. /\ listed' \subseteq Summary /\ nextCursor' \in Key \cup {None}
      /\ \A s \in listed' : Of[s.id] = Guests(selected)
  <2>1. CASE Alive(m) /\ m.request = requestId /\ m.mutation = mutationVersion /\ ~Lost(m)
    <3>1. /\ m.reply.entries \subseteq Summary /\ m.reply.cursor \in Key \cup {None}
          /\ \A s \in m.reply.entries : Of[s.id] = Guests(selected)
      BY <2>1, AnswerIsOfItsWedding, AliveIsOfTheWedding
    <3>2. /\ listed' \subseteq listed \cup m.reply.entries
          /\ nextCursor' = m.reply.cursor
      BY <2>1 DEF DeliverPage, NewGuests
    <3> QED
      BY <3>1, <3>2 DEF GuestInv
  <2>2. CASE ~(Alive(m) /\ m.request = requestId /\ m.mutation = mutationVersion /\ ~Lost(m))
    <3>1. UNCHANGED <<listed, nextCursor>>
      BY <2>2 DEF DeliverPage
    <3> QED
      BY <3>1 DEF GuestInv
  <2> QED
    BY <2>1, <2>2
<1> QED
  BY <1>1, <1>2, <1>3, <1>4, RelistKeepsGuests DEF GuestInv

\* A change was made to a guest of the wedding it was asked for.
LEMMA ChangeIsOfItsWedding ==
  ASSUME GuestInv, NEW m \in guestNet, m.kind \in {"guest", "edit", "assign", "link"}
  PROVE  m.change.row \in Rows /\ Of[m.change.row] = Guests(m.wedding)
BY DEF GuestInv, GuestRequestOK, Change

LEMMA DeliverGuestKeepsGuests ==
  ASSUME ScopeInv, GuestInv, NEW m \in guestNet, m.reply # None, DeliverGuest(m),
         UNCHANGED scopeVars
  PROVE  GuestInv'
<1>1. UNCHANGED <<workspaceVars, instance, nextCursor, view, requestId, scope, selected>>
      /\ guestNet' \subseteq guestNet /\ m.kind = "guest"
  BY DEF DeliverGuest, Taken, scopeVars
<1>2. \A n \in guestNet' : GuestRequestOK(n)'
  BY <1>1, FewerRequests DEF workspaceVars
<1>3. listBusy' \in BOOLEAN /\ mutationVersion' \in Nat
  <2>1. listBusy' \in BOOLEAN
    BY DEF DeliverGuest, GuestInv
  <2>2. mutationVersion \in Nat
    BY DEF GuestInv
  <2>3. mutationVersion' = mutationVersion \/ mutationVersion' = mutationVersion + 1
    BY DEF DeliverGuest
  <2>4. mutationVersion' \in Nat
    BY <2>2, <2>3
  <2> QED
    BY <2>1, <2>4
<1>4. invitations' \subseteq invitations
  BY DEF DeliverGuest
<1>5. listed' \subseteq Summary /\ \A s \in listed' : Of[s.id] = Guests(selected)
  <2>1. CASE Alive(m) /\ ~Lost(m)
    <3> DEFINE new == [id |-> m.change.row, at |-> m.reply.at]
    <3>1. new \in Summary /\ Of[new.id] = Guests(selected)
      BY <1>1, <2>1, ChangeIsOfItsWedding, AnswerIsOfItsWedding, AliveIsOfTheWedding
         DEF Summary
    <3>2. listed' = Relisted(m)
      BY <2>1 DEF DeliverGuest
    <3> HIDE DEF new
    <3>3. listed' \subseteq listed \cup {new}
      BY <3>2 DEF Relisted, Without, new
    <3> QED
      BY <3>1, <3>3 DEF GuestInv
  <2>2. CASE ~(Alive(m) /\ ~Lost(m))
    BY <2>2 DEF DeliverGuest, GuestInv
  <2> QED
    BY <2>1, <2>2
<1> QED
  BY <1>1, <1>2, <1>3, <1>4, <1>5, RelistKeepsGuests DEF GuestInv

LEMMA DeliverEditKeepsGuests ==
  ASSUME ScopeInv, GuestInv, NEW m \in guestNet, m.reply # None, DeliverEdit(m),
         UNCHANGED scopeVars
  PROVE  GuestInv'
<1>1. UNCHANGED <<workspaceVars, invitations, instance, nextCursor, view, requestId,
                 scope, selected>>
      /\ guestNet' \subseteq guestNet /\ m.kind = "edit"
  BY DEF DeliverEdit, Taken, scopeVars
<1>2. \A n \in guestNet' : GuestRequestOK(n)'
  BY <1>1, FewerRequests DEF workspaceVars
<1>3. listBusy' \in BOOLEAN /\ mutationVersion' \in Nat
  <2>1. listBusy' \in BOOLEAN
    BY DEF DeliverEdit, GuestInv
  <2>2. mutationVersion \in Nat
    BY DEF GuestInv
  <2>3. mutationVersion' = mutationVersion \/ mutationVersion' = mutationVersion + 1
    BY DEF DeliverEdit
  <2>4. mutationVersion' \in Nat
    BY <2>2, <2>3
  <2> QED
    BY <2>1, <2>4
<1>4. listed' \subseteq Summary /\ \A s \in listed' : Of[s.id] = Guests(selected)
  <2>1. CASE Alive(m) /\ ~Lost(m)
    <3>1. m.reply.at \in Nat
      BY <2>1, AnswerIsOfItsWedding
    <3>2. listed' = Edited(m)
      BY <2>1 DEF DeliverEdit
    <3>3. \A s \in listed : /\ s \in Summary /\ [s EXCEPT !.at = m.reply.at] \in Summary
                            /\ [s EXCEPT !.at = m.reply.at].id = s.id
      BY <3>1 DEF GuestInv, Summary
    <3>4. \A e \in listed' : \E s \in listed : e = s \/ e = [s EXCEPT !.at = m.reply.at]
      BY <3>2 DEF Edited
    <3>5. \A s \in listed : Of[s.id] = Guests(selected)
      BY DEF GuestInv
    <3> QED
      BY <3>3, <3>4, <3>5
  <2>2. CASE ~(Alive(m) /\ ~Lost(m))
    BY <2>2 DEF DeliverEdit, GuestInv
  <2> QED
    BY <2>1, <2>2
<1> QED
  BY <1>1, <1>2, <1>3, <1>4, RelistKeepsGuests DEF GuestInv

LEMMA DeliverAssignKeepsGuests ==
  ASSUME ScopeInv, GuestInv, NEW m \in guestNet, m.reply # None, DeliverAssign(m),
         UNCHANGED scopeVars
  PROVE  GuestInv'
<1>1. UNCHANGED <<workspaceVars, invitations, instance, listed, nextCursor, view,
                 scope, selected>>
  BY DEF DeliverAssign, scopeVars
<1>2. listBusy' \in BOOLEAN /\ mutationVersion' \in Nat /\ requestId' \in Nat
  <2>1. listBusy' \in BOOLEAN
    BY DEF DeliverAssign, GuestInv
  <2>2. mutationVersion \in Nat /\ requestId \in Nat
    BY DEF GuestInv
  <2>3. /\ mutationVersion' = mutationVersion \/ mutationVersion' = mutationVersion + 1
        /\ requestId' = requestId \/ requestId' = requestId + 1
    BY DEF DeliverAssign
  <2>4. mutationVersion' \in Nat /\ requestId' \in Nat
    BY <2>2, <2>3
  <2> QED
    BY <2>1, <2>4
<1>3. \A n \in guestNet' : GuestRequestOK(n)'
  <2>1. CASE Alive(m) /\ ~Lost(m)
    <3>0. PICK k : k = [PageOf(m.view, None, FALSE) EXCEPT
                          !.mutation = mutationVersion + 1, !.frees = TRUE]
      OBVIOUS
    <3>1. m.view \in Views
      BY DEF GuestInv, GuestRequestOK, GuestRequest
    <3>2. mutationVersion + 1 \in Nat
      BY DEF GuestInv
    <3>3. PageOf(m.view, None, FALSE) \in GuestRequest
          /\ PageOf(m.view, None, FALSE).kind = "page"
          /\ PageOf(m.view, None, FALSE).wedding = selected
          /\ PageOf(m.view, None, FALSE).scope = scope
          /\ PageOf(m.view, None, FALSE).instance = instance
          /\ PageOf(m.view, None, FALSE).reply = None
      BY <3>1, PageOfIsGood
    <3>4. k \in GuestRequest /\ k.kind = "page" /\ k.wedding = selected /\ k.scope = scope
          /\ k.instance = instance /\ k.reply = None
      BY <3>0, <3>2, <3>3 DEF GuestRequest
    <3>5. GuestRequestOK(k)
      <4>1. scope \in Nat /\ instance \in Nat
        BY DEF ScopeInv, GuestInv
      <4> QED
        BY <3>4, <4>1 DEF GuestRequestOK
    <3>6. guestNet' = (guestNet \ {m}) \cup {k}
      BY <2>1, <3>0 DEF DeliverAssign
    <3>7. \A n \in guestNet' : GuestRequestOK(n)
      BY <3>5, <3>6 DEF GuestInv
    <3>8. instance \in Nat /\ scope \in Nat
      BY DEF GuestInv, ScopeInv
    <3> QED
      BY <1>1, <3>7, <3>8, GuestRequestStays DEF workspaceVars
  <2>2. CASE ~(Alive(m) /\ ~Lost(m))
    <3>1. guestNet' \subseteq guestNet
      BY <2>2 DEF DeliverAssign, Taken
    <3> QED
      BY <1>1, <3>1, FewerRequests DEF workspaceVars
  <2> QED
    BY <2>1, <2>2
<1> QED
  BY <1>1, <1>2, <1>3, RelistKeepsGuests DEF GuestInv

LEMMA DeliverLinkKeepsGuests ==
  ASSUME ScopeInv, GuestInv, NEW m \in guestNet, m.reply # None, DeliverLink(m),
         UNCHANGED scopeVars
  PROVE  GuestInv'
<1>1. UNCHANGED <<workspaceVars, instance, listed, nextCursor, view, requestId,
                 mutationVersion, scope, selected>>
      /\ guestNet' \subseteq guestNet /\ m.kind = "link"
  BY DEF DeliverLink, Taken, scopeVars
<1>2. \A n \in guestNet' : GuestRequestOK(n)'
  BY <1>1, FewerRequests DEF workspaceVars
<1>3. listBusy' \in BOOLEAN
  BY DEF DeliverLink, GuestInv
<1>4. \A g \in invitations' : g \in invitations \/ (Fresh(m) /\ g = m.change.row)
  BY DEF DeliverLink
<1>5. \A g \in invitations' : g \in Rows /\ Of[g] = Guests(selected)
  BY <1>1, <1>4, ChangeIsOfItsWedding, AliveIsOfTheWedding DEF GuestInv
<1> QED
  BY <1>1, <1>2, <1>3, <1>5, RelistKeepsGuests DEF GuestInv

LEMMA GuestStepKeepsGuests ==
  ASSUME ListsInv, ScopeInv, GuestInv, GuestStep, UNCHANGED <<menu, seat>>
  PROVE  /\ GuestInv' /\ ScopeInv' /\ ListsGoOn
         /\ UNCHANGED <<selected, section, scope, creating>>
<1>1. CASE Retry
  <2>1. LoadGuests /\ UNCHANGED <<childVars, listVars, selected, section, scope, creating, moreBusy>>
        /\ Act
    BY <1>1 DEF Retry, Click
  <2>2. GuestInv'
    BY <2>1, LoadGuestsKeepsGuests
  <2> QED
    BY <2>1, <2>2, ClickKeepsScope, StillGoesOn DEF ScopeInv
<1>2. CASE SaveSide
  <2>1. /\ UNCHANGED <<listVars, selected, section, scope, creating>> /\ Act
        /\ moreBusy' \in BOOLEAN
    BY <1>2 DEF SaveSide
  <2> QED
    BY <1>2, <2>1, SaveSideKeepsGuests, ClickKeepsScope, StillGoesOn
<1>3. CASE ChooseView
  <2>1. UNCHANGED <<listVars, selected, section, scope, creating, moreBusy,
                    workspaceVars, invitations>> /\ Act
    BY <1>3 DEF ChooseView, Click
  <2>2. GuestInv'
    BY <1>3, <2>1, LoadPageKeepsGuests DEF ChooseView
  <2> QED
    BY <2>1, <2>2, ClickKeepsScope, StillGoesOn DEF ScopeInv
<1>4. CASE Refresh
  <2>1. UNCHANGED <<listVars, selected, section, scope, creating, moreBusy,
                    workspaceVars, invitations, view>> /\ Act
    BY <1>4 DEF Refresh, Click
  <2>2. view \in Views /\ nextCursor \in Key \cup {None}
    BY DEF GuestInv
  <2>3. LoadPage(view, None, FALSE) \/ LoadPage(view, nextCursor, TRUE)
    BY <1>4 DEF Refresh
  <2>4. GuestInv'
    BY <2>1, <2>2, <2>3, LoadPageKeepsGuests
  <2> QED
    BY <2>1, <2>4, ClickKeepsScope, StillGoesOn DEF ScopeInv
<1>5. CASE SaveGuest
  <2>1. UNCHANGED <<listVars, selected, section, scope, creating, moreBusy>> /\ Act
    BY <1>5 DEF SaveGuest, Click
  <2> QED
    BY <1>5, <2>1, SaveGuestKeepsGuests, ClickKeepsScope, StillGoesOn DEF ScopeInv
<1>6. ASSUME NEW m \in guestNet, ServeGuests(m)
      PROVE  /\ GuestInv' /\ ScopeInv' /\ ListsGoOn
             /\ UNCHANGED <<selected, section, scope, creating>>
  <2>1. UNCHANGED scopeVars
    BY <1>6 DEF ServeGuests
  <2> QED
    BY <1>6, <2>1, ServeGuestsKeepsGuests, ScopeStays DEF scopeVars
<1>7. ASSUME NEW m \in guestNet, DeliverSide(m)
      PROVE  /\ GuestInv' /\ ScopeInv' /\ ListsGoOn
             /\ UNCHANGED <<selected, section, scope, creating>>
  <2>1. UNCHANGED <<selected, section, scope, creating, acts, listVars>>
        /\ moreBusy' \in BOOLEAN
    BY <1>7 DEF DeliverSide
  <2>2. ScopeInv'
    BY <2>1 DEF ScopeInv
  <2> QED
    BY <1>7, <2>1, <2>2, DeliverSideKeepsGuests, StillGoesOn
<1>8. ASSUME NEW m \in guestNet, DeliverToGuests(m)
      PROVE  /\ GuestInv' /\ ScopeInv' /\ ListsGoOn
             /\ UNCHANGED <<selected, section, scope, creating>>
  <2>1. UNCHANGED <<listVars, scopeVars>> /\ m.reply # None
    BY <1>8 DEF DeliverToGuests
  <2>2. GuestInv'
    BY <1>8, <2>1, DeliverFirstKeepsGuests, DeliverPageKeepsGuests, DeliverGuestKeepsGuests,
       DeliverEditKeepsGuests, DeliverAssignKeepsGuests, DeliverLinkKeepsGuests
       DEF DeliverToGuests
  <2> QED
    BY <2>1, <2>2, ScopeStays, StillGoesOn DEF scopeVars
<1> QED
  BY <1>1, <1>2, <1>3, <1>4, <1>5, <1>6, <1>7, <1>8 DEF GuestStep

-----------------------------------------------------------------------------
\* What the panel knows stays true while the lists go on.

LEMMA RequestStays ==
  ASSUME NEW m, RequestOK(m), gen' \in Nat, changes' \in Nat, changes \in Nat, gen \in Nat,
         gen <= gen', changes <= changes', m.kind = "late" \/ section' = section
  PROVE  RequestOK(m)'
<1>1. m \in Request /\ m.gen \in Nat /\ m.gen <= gen
  BY DEF RequestOK, Request
<1>2. m.gen <= gen'
  BY <1>1
<1>3. m.reply \in (0..changes') \cup {None, NoAnswer}
  BY DEF RequestOK
<1>4. m.kind # "late" => Mounted'
  BY DEF RequestOK, Mounted
<1>5. m.kind = "save" /\ section' # "seating" => m.pick = None
  BY DEF RequestOK
<1> QED
  BY <1>1, <1>2, <1>3, <1>4, <1>5 DEF RequestOK, Together

\* A row that belongs to a list since an earlier change still has its key.
LEMMA SteadyStays ==
  ASSUME ListsInv, ListsGoOn, UNCHANGED filter, NEW l, NEW v \in Nat, v <= changes
  PROVE  \A r \in Steady(l, filter, v)' :
           r \in Steady(l, filter, v) /\ KeyOf(r)' = KeyOf(r)
<1> TAKE r \in Steady(l, filter, v)'
<1>1. r \in Rows /\ row'[r] \notin {None, Gone} /\ Of[r] = l
      /\ Matches(filter, row'[r]) /\ touched'[r] <= v
  BY DEF Steady, There
<1>2. v \in 0..changes
  BY DEF ListsInv, ListsTypeOK
<1>3. row'[r] = row[r] /\ touched'[r] = touched[r]
  BY <1>1, <1>2 DEF ListsGoOn
<1>4. r \in Steady(l, filter, v)
  BY <1>1, <1>3 DEF Steady, There
<1>5. KeyOf(r)' = KeyOf(r)
  BY <1>3 DEF KeyOf
<1> QED
  BY <1>4, <1>5

LEMMA EntryStays ==
  ASSUME NEW e, EntryOK(e), UNCHANGED <<section, selected, filter>>
  PROVE  EntryOK(e)'
BY DEF EntryOK, Own, Seats, Candidates

LEMMA AnswerStays ==
  ASSUME ListsInv, ListsGoOn, NEW m, NEW a \in m.read, a.at \in Nat, AnswerOK(m, a),
         UNCHANGED <<section, selected, filter, savedAt>>
  PROVE  AnswerOK(m, a)'
<1>1. /\ a.list \in m.lists /\ savedAt' <= a.at
      /\ Whole(a.list) => a.cursor = None
      /\ a.cursor # None => a.entries # {}
      /\ \A e, f \in a.entries : e.id = f.id => e = f
  BY DEF AnswerOK
<1>2. a.at <= changes'
  BY DEF AnswerOK, ListsGoOn, ListsInv, ListsTypeOK
<1>3. \A e \in a.entries : e.list = a.list /\ EntryOK(e)'
  BY EntryStays DEF AnswerOK
<1>4. ASSUME a.list \in Own', NEW r \in Steady(a.list, filter, a.at)',
             m.cursor = None \/ Newer(m.cursor, KeyOf(r)')
      PROVE  r \in IdsIn(a) \/ (a.cursor # None /\ Newer(a.cursor, KeyOf(r)'))
  <2>1. r \in Steady(a.list, filter, a.at) /\ KeyOf(r)' = KeyOf(r)
    BY <1>4, SteadyStays DEF AnswerOK
  <2>2. a.list \in Own
    BY <1>4 DEF Own
  <2>3. m.cursor = None \/ Newer(m.cursor, KeyOf(r))
    BY <1>4, <2>1
  <2> QED
    BY <2>1, <2>2, <2>3 DEF AnswerOK
<1>5. (\A r \in Steady(a.list, filter, a.at) :
         (m.cursor = None \/ Newer(m.cursor, KeyOf(r))) =>
           r \in IdsIn(a) \/ (a.cursor # None /\ Newer(a.cursor, KeyOf(r))))'
      \/ a.list \notin Own'
  BY <1>4 DEF Newer, IdsIn
<1> QED
  BY <1>1, <1>2, <1>3, <1>5 DEF AnswerOK, Whole

LEMMA PagesStay ==
  ASSUME ListsInv, ListsGoOn, PagesOK,
         UNCHANGED <<section, selected, filter, shown, pages>>
  PROVE  PagesOK'
<1>1. Mounted' /\ Own' = Own /\ Shows' = Shows /\ Candidates' = Candidates
      /\ changes \in Nat /\ changes' \in Nat /\ changes <= changes'
  BY DEF PagesOK, Mounted, Own, Shows, Candidates, Tables, Seats,
         ListsGoOn, ListsInv, ListsTypeOK
<1>2. Own' \subseteq DOMAIN pages' /\ DOMAIN pages' \subseteq Shows'
      /\ \A e \in shown' : e.list \in DOMAIN pages'
  BY <1>1 DEF PagesOK
<1>3. ASSUME NEW l \in DOMAIN pages
      PROVE  /\ pages'[l] \in [cursor : Key \cup {None}, at : Nat] /\ pages'[l].at <= changes'
             /\ Whole(l) => pages'[l].cursor = None
             /\ l = Candidates' /\ pages'[l].cursor # None => \E e \in shown' : e.list = l
  <2>1. pages[l] \in [cursor : Key \cup {None}, at : Nat] /\ pages[l].at <= changes
    BY DEF PagesOK
  <2>2. pages[l].at \in Nat /\ pages[l].at <= changes'
    BY <1>1, <2>1
  <2> QED
    BY <1>1, <2>1, <2>2 DEF PagesOK
<1>4. ASSUME NEW l \in Own, NEW r \in Steady(l, filter, pages[l].at)'
      PROVE  r \in Ids(l)' \/ (pages'[l].cursor # None /\ Newer(pages'[l].cursor, KeyOf(r)'))
  <2>1. PICK v \in Nat : v = pages[l].at /\ v = pages'[l].at /\ v <= changes
    BY DEF PagesOK
  <2>2. r \in Steady(l, filter, v)'
    BY <1>4, <2>1
  <2>3. r \in Steady(l, filter, v) /\ KeyOf(r)' = KeyOf(r)
    BY <2>1, <2>2, SteadyStays
  <2>4. r \in Ids(l) \/ (pages[l].cursor # None /\ Newer(pages[l].cursor, KeyOf(r)))
    BY <2>1, <2>3 DEF PagesOK
  <2>5. Ids(l)' = Ids(l)
    BY DEF Ids
  <2> QED
    BY <2>3, <2>4, <2>5
<1>5. \A l \in Own' : \A r \in Steady(l, filter, pages[l].at)' :
        r \in Ids(l)' \/ (pages'[l].cursor # None /\ Newer(pages'[l].cursor, KeyOf(r)'))
  BY <1>1, <1>4
<1> QED
  BY <1>1, <1>2, <1>3, <1>5 DEF PagesOK

LEMMA WantedStays ==
  ASSUME ListsInv, ListsGoOn, NEW m \in Request, WantedOK(m),
         UNCHANGED <<section, selected, filter, savedAt, shown, pages>>
  PROVE  WantedOK(m)'
<1>1. m.filter = filter' /\ \A a, b \in m.read : a.list = b.list => a = b
  BY DEF WantedOK
<1>2. \A a \in m.read : AnswerOK(m, a)'
  <2>1. \A a \in m.read : a.at \in Nat
    BY DEF Request, Answer
  <2> QED
    BY <2>1, AnswerStays DEF WantedOK
<1>3. LoadOK(m)'
  BY DEF WantedOK, LoadOK, Loads, Own, Tables, Seats, IdsIn
<1>4. MoreOK(m)'
  BY PagesStay DEF WantedOK, MoreOK, Candidates
<1> QED
  BY <1>1, <1>2, <1>3, <1>4 DEF WantedOK

\* The lists go on, and the panel stays as it is.
LEMMA PageInvStays ==
  ASSUME ListsInv, ListsGoOn, PageInv,
         UNCHANGED <<section, selected, filter, gen, savedAt, shown, pages, table>>,
         loading' \in BOOLEAN, busy' \in BOOLEAN, failed' \in BOOLEAN
  PROVE  PageInv'
<1>1. savedAt' \in 0..changes'
  BY DEF PageInv, ListsGoOn, ListsInv, ListsTypeOK
<1>2. \A e \in shown' : EntryOK(e)'
  BY EntryStays DEF PageInv
<1>3. (pages' = None /\ shown' = {}) \/ PagesOK'
  BY PagesStay DEF PageInv
<1>4. /\ filter' \in Filters /\ gen' \in Nat /\ shown' \subseteq Entry
      /\ table' \in Rows \cup {None}
      /\ section' # "planning" => filter' = "all"
      /\ section' # "seating" => table' = None
      /\ ~Mounted' => shown' = {} /\ pages' = None
      /\ \A e, f \in shown' : e.id = f.id /\ e.list = f.list => e = f
      /\ table' # None => table' \in Ids(Tables)'
  BY DEF PageInv, Mounted, Ids, Tables
<1> QED
  BY <1>1, <1>2, <1>3, <1>4 DEF PageInv

LEMMA RequestsStay ==
  ASSUME ListsInv, ListsGoOn, PageInv, NEW m, RequestOK(m), Wanted(m) => WantedOK(m),
         UNCHANGED <<section, selected, filter, gen, savedAt, shown, pages>>
  PROVE  RequestOK(m)' /\ (Wanted(m)' => WantedOK(m)')
<1>1. gen \in Nat /\ changes \in Nat /\ changes' \in Nat /\ changes <= changes'
  BY DEF PageInv, ListsGoOn, ListsInv, ListsTypeOK
<1>2. RequestOK(m)'
  BY <1>1, RequestStays
<1>3. m \in Request
  BY DEF RequestOK
<1>4. Wanted(m)' => Wanted(m)
  BY DEF Wanted
<1> QED
  BY <1>2, <1>3, <1>4, WantedStays

LEMMA SavedStays ==
  ASSUME ListsInv, ListsGoOn, SavedInv,
         UNCHANGED <<section, selected, filter, shown, pages, savedAt>>,
         loading => loading' \/ failed', failed => failed' \/ Saving',
         Saving => Saving' \/ failed'
  PROVE  SavedInv'
<1>1. Mounted' = Mounted /\ Own' = Own
  BY DEF Mounted, Own
<1> QED
  BY <1>1, PagesStay DEF SavedInv

LEMMA PanelStays ==
  ASSUME ListsInv, ListsGoOn, PageInv, SavedInv, NetInv,
         UNCHANGED <<panelVars, section, selected>>
  PROVE  PageInv' /\ SavedInv' /\ NetInv'
<1>1. UNCHANGED <<filter, gen, loading, busy, shown, pages, table, failed, net, savedAt,
                 section, selected>>
  BY DEF panelVars
<1>2. PageInv'
  BY <1>1, PageInvStays DEF PageInv
<1>3. SavedInv'
  BY <1>1, SavedStays DEF Saving
<1>4. \A m \in net' : RequestOK(m)' /\ (Wanted(m)' => WantedOK(m)')
  BY <1>1, RequestsStay DEF NetInv
<1>5. OneAtATime'
  BY <1>1 DEF NetInv, OneAtATime, Clears, Wanted, Loads
<1> QED
  BY <1>2, <1>3, <1>4, <1>5 DEF NetInv

-----------------------------------------------------------------------------
\* Clicks on a panel that send a request.

LEMMA ListsOfTheWedding ==
  ASSUME ScopeInv
  PROVE  /\ Tables \in Lists /\ Seats \in Lists /\ Candidates \in Lists
         /\ section \in Panels => Own \subseteq Lists /\ Shows \subseteq Lists
<1>1. Parts("seating") \subseteq ListNames
  BY DEF ListNames, Panels
<1>2. {"seating", "seats", "guests"} \subseteq ListNames
  <2>1. "seating" \in Parts("seating")
    BY DEF Parts
  <2>2. {"seats", "guests"} \subseteq ListNames
    BY DEF ListNames
  <2> QED
    BY <1>1, <2>1, <2>2
<1>3. \A n \in ListNames : <<selected, n>> \in Lists
  BY DeskAssumption DEF ScopeInv
<1>4. Tables \in Lists /\ Seats \in Lists /\ Candidates \in Lists
  BY <1>2, <1>3 DEF Tables, Seats, Candidates
<1>5. ASSUME section \in Panels
      PROVE  Own \subseteq Lists
  <2>1. Parts(section) \subseteq ListNames
    BY <1>5 DEF ListNames
  <2> QED
    BY <1>3, <2>1 DEF Own
<1> QED
  BY <1>4, <1>5 DEF Shows

LEMMA AskedIsARequest ==
  ASSUME ScopeInv, PageInv, NEW kind \in Kinds, NEW lists \in SUBSET Lists,
         NEW c \in PanelChange \cup {None}
  PROVE  /\ Asked(kind, lists, c) \in Request /\ Asked(kind, lists, c).kind = kind
         /\ Asked(kind, lists, c).gen = gen /\ Asked(kind, lists, c).filter = filter
         /\ Asked(kind, lists, c).lists = lists /\ Asked(kind, lists, c).cursor = None
         /\ Asked(kind, lists, c).change = c /\ Asked(kind, lists, c).pick = table
         /\ Asked(kind, lists, c).read = {} /\ Asked(kind, lists, c).reply = None
BY DEF Asked, Request, PageInv

\* One request is on its way while the panel is busy.
LEMMA SendIsAlone ==
  ASSUME OneAtATime, ~busy, NEW m, m.kind \in {"save", "more", "find"},
         net' = net \cup {m}, busy' = TRUE, gen' = gen
  PROVE  OneAtATime'
<1>1. \A n \in net : ~Clears(n)
  BY DEF OneAtATime
<1>2. \A n \in net' : Clears(n)' => n = m
  BY <1>1 DEF Clears, Loads
<1>3. ~Loads(m)
  BY DEF Loads
<1>4. \A n, k \in net' : Wanted(n)' /\ Wanted(k)' /\ Loads(n) /\ Loads(k) => n = k
  BY <1>3 DEF OneAtATime, Wanted
<1> QED
  BY <1>2, <1>4 DEF OneAtATime, Loads

LEMMA SendKeepsPanel ==
  ASSUME ListsInv, ScopeInv, PageInv, SavedInv, NetInv, Idle, NEW m, Send(m),
         m.kind \in {"save", "more", "find"}, RequestOK(m), Wanted(m) => WantedOK(m),
         UNCHANGED menu
  PROVE  /\ PageInv' /\ SavedInv' /\ NetInv' /\ ScopeInv' /\ ListsGoOn
         /\ UNCHANGED <<selected, section, scope, creating>>
<1>1. /\ UNCHANGED <<filter, gen, loading, shown, pages, table, savedAt>>
      /\ UNCHANGED <<listVars, seat>>
      /\ UNCHANGED <<selected, section, scope, creating, moreBusy>>
      /\ Act /\ ~busy /\ busy' = TRUE /\ net' = net \cup {m}
      /\ failed' = (failed /\ m.kind # "save")
  BY DEF Send, Idle, Click
<1>2. ListsGoOn
  BY <1>1, StillGoesOn
<1>3. ScopeInv'
  BY <1>1, ClickKeepsScope DEF ScopeInv
<1>4. loading' \in BOOLEAN /\ busy' \in BOOLEAN /\ failed' \in BOOLEAN
  BY <1>1 DEF PageInv
<1>5. PageInv'
  BY <1>1, <1>2, <1>4, PageInvStays
<1>6. SavedInv'
  <2>1. Saving => Saving'
    BY <1>1 DEF Saving
  <2>2. failed => failed' \/ Saving'
    BY <1>1 DEF Saving
  <2> QED
    BY <1>1, <1>2, <2>1, <2>2, SavedStays
<1>7. \A n \in net' : RequestOK(n)' /\ (Wanted(n)' => WantedOK(n)')
  <2>1. \A n \in net' : RequestOK(n) /\ (Wanted(n) => WantedOK(n))
    BY <1>1 DEF NetInv
  <2> QED
    BY <1>1, <1>2, <2>1, RequestsStay
<1>8. OneAtATime'
  BY <1>1, SendIsAlone DEF NetInv
<1> QED
  BY <1>1, <1>2, <1>3, <1>5, <1>6, <1>7, <1>8 DEF NetInv

\* A save is good when its change is one of the panel's.
LEMMA SaveIsGood ==
  ASSUME ListsInv, PageInv, NEW m \in Request, Mounted, m.kind = "save", m.gen = gen,
         m.reply = None, m.change \in PanelChange,
         m.change.op = "seat" => Together(m.change.row, m.pick),
         section # "seating" => m.pick = None
  PROVE  RequestOK(m) /\ ~Wanted(m)
BY DEF RequestOK, Wanted, Reads, PageInv

LEMMA SaveKeepsPanel ==
  ASSUME ListsInv, ScopeInv, PageInv, SavedInv, NetInv, Save, UNCHANGED menu
  PROVE  /\ PageInv' /\ SavedInv' /\ NetInv' /\ ScopeInv' /\ ListsGoOn
         /\ UNCHANGED <<selected, section, scope, creating>>
<1>1. PICK c \in Change : Saves(c) /\ Send(Asked("save", {}, c))
  BY DEF Save
<1>2. PICK m : m = Asked("save", {}, c)
  OBVIOUS
<1>3. /\ m \in Request /\ m.kind = "save" /\ m.gen = gen /\ m.reply = None
      /\ m.change = c /\ m.pick = table
  BY <1>2, AskedIsARequest DEF Kinds, PanelChange
<1>4. section # "seating" => m.pick = None
  BY <1>3 DEF PageInv
<1>5. Idle /\ Mounted /\ Send(m)
  BY <1>1, <1>2 DEF Save, Idle
<1>6. RequestOK(m) /\ ~Wanted(m)
  BY <1>3, <1>4, <1>5, SaveIsGood DEF PanelChange, Change
<1> QED
  BY <1>3, <1>5, <1>6, SendKeepsPanel

LEMMA MoreKeepsPanel ==
  ASSUME ListsInv, ScopeInv, PageInv, SavedInv, NetInv, More, UNCHANGED menu
  PROVE  /\ PageInv' /\ SavedInv' /\ NetInv' /\ ScopeInv' /\ ListsGoOn
         /\ UNCHANGED <<selected, section, scope, creating>>
<1>1. PICK l \in DOMAIN pages :
        /\ pages[l].cursor # None
        /\ Send([Asked("more", {l}, None) EXCEPT !.cursor = pages[l].cursor])
  BY DEF More
<1>2. Idle /\ Mounted /\ pages # None /\ PagesOK
  BY DEF More, Idle, PageInv
<1>3. l \in Lists /\ pages[l].cursor \in Key \cup {None}
  <2>1. l \in Shows
    BY <1>2 DEF PagesOK
  <2>2. Shows \subseteq Lists
    BY <1>2, ListsOfTheWedding DEF Mounted
  <2> QED
    BY <1>2, <2>1, <2>2 DEF PagesOK
<1>4. PICK m : m = [Asked("more", {l}, None) EXCEPT !.cursor = pages[l].cursor]
  OBVIOUS
<1>5. /\ m \in Request /\ m.kind = "more" /\ m.gen = gen /\ m.reply = None /\ m.read = {}
      /\ m.lists = {l} /\ m.cursor = pages[l].cursor /\ m.filter = filter
  <2>1. /\ Asked("more", {l}, None) \in Request /\ Asked("more", {l}, None).kind = "more"
        /\ Asked("more", {l}, None).gen = gen /\ Asked("more", {l}, None).reply = None
        /\ Asked("more", {l}, None).read = {} /\ Asked("more", {l}, None).lists = {l}
        /\ Asked("more", {l}, None).filter = filter
    BY <1>3, AskedIsARequest DEF Kinds, Reads
  <2> QED
    BY <1>3, <1>4, <2>1 DEF Request
<1>6. RequestOK(m)
  BY <1>2, <1>5 DEF RequestOK, PageInv
<1>7. WantedOK(m)
  BY <1>1, <1>2, <1>5 DEF WantedOK, LoadOK, MoreOK, Loads
<1>8. Send(m)
  BY <1>1, <1>4
<1> QED
  BY <1>2, <1>5, <1>6, <1>7, <1>8, SendKeepsPanel

\* The table chosen is one of the wedding, and so are the guests found.
LEMMA TableIsOfTheWedding ==
  ASSUME PageInv, table # None
  PROVE  table \in Rows /\ Of[table] = <<selected, "seating">> /\ PagesOK
<1>1. PICK e \in shown : e.list = Tables /\ e.id = table
  BY DEF PageInv, Ids
<1>2. EntryOK(e) /\ Tables \notin {Seats, Candidates}
  BY DEF PageInv, Tables, Seats, Candidates
<1> QED
  BY <1>1, <1>2 DEF PageInv, EntryOK, Entry, Tables

LEMMA FoundAreOfTheWedding ==
  ASSUME PageInv, NEW l \in {Seats, Candidates}, NEW g \in Ids(l)
  PROVE  g \in Rows /\ Of[g] = Guests(selected)
<1>1. PICK e \in shown : e.list = l /\ e.id = g
  BY DEF Ids
<1> QED
  BY <1>1 DEF PageInv, EntryOK, Entry

LEMMA SeatingClickKeepsPanel ==
  ASSUME ListsInv, ScopeInv, PageInv, SavedInv, NetInv, SeatingClick, UNCHANGED menu
  PROVE  /\ PageInv' /\ SavedInv' /\ NetInv' /\ ScopeInv' /\ ListsGoOn
         /\ UNCHANGED <<selected, section, scope, creating>>
<1>1. section = "seating" /\ Idle /\ Mounted
  BY DEF SeatingClick, Idle
<1>2. table \in Rows \cup {None}
  BY DEF PageInv
<1> DEFINE Keeping == /\ PageInv' /\ SavedInv' /\ NetInv' /\ ScopeInv' /\ ListsGoOn
                      /\ UNCHANGED <<selected, section, scope, creating>>
<1>3. ASSUME NEW c \in Change, Send([Asked("save", {}, c) EXCEPT !.pick = None])
      PROVE  Keeping
  <2>1. PICK m : m = [Asked("save", {}, c) EXCEPT !.pick = None]
    OBVIOUS
  <2>2. /\ Asked("save", {}, c) \in Request /\ Asked("save", {}, c).kind = "save"
        /\ Asked("save", {}, c).gen = gen /\ Asked("save", {}, c).reply = None
        /\ Asked("save", {}, c).change = c
    BY AskedIsARequest DEF Kinds, PanelChange
  <2>3. /\ m \in Request /\ m.kind = "save" /\ m.gen = gen /\ m.reply = None
        /\ m.change = c /\ m.pick = None
    BY <2>1, <2>2 DEF Request
  <2>4. RequestOK(m) /\ ~Wanted(m)
    BY <1>1, <2>3, SaveIsGood DEF PanelChange, Change
  <2>5. Send(m)
    BY <1>3, <2>1
  <2> QED
    BY <1>1, <2>3, <2>4, <2>5, SendKeepsPanel
<1>4. ASSUME NEW c \in SeatChange, table # None, Of[c.row] = Guests(selected),
             Send(Asked("save", {}, c))
      PROVE  Keeping
  <2>1. PICK m : m = Asked("save", {}, c)
    OBVIOUS
  <2>6. c \in PanelChange \cup {None} /\ "save" \in Kinds
    BY DEF PanelChange, Kinds
  <2>2. /\ m \in Request /\ m.kind = "save" /\ m.gen = gen /\ m.reply = None
        /\ m.change = c /\ m.pick = table
    BY <2>6, <2>1, AskedIsARequest
  <2>3. Together(c.row, table)
    BY <1>4, TableIsOfTheWedding DEF Together, ScopeInv
  <2>4. RequestOK(m) /\ ~Wanted(m)
    BY <1>1, <2>2, <2>3, SaveIsGood DEF PanelChange
  <2>5. Send(m)
    BY <1>4, <2>1
  <2> QED
    BY <1>1, <2>2, <2>4, <2>5, SendKeepsPanel
<1>5. CASE TableForm
  BY <1>3, <1>5 DEF TableForm
<1>6. CASE DropTable
  <2>1. [op |-> "drop", row |-> table] \in Change
    BY <1>2, <1>6 DEF DropTable, Change
  <2> QED
    BY <1>3, <1>6, <2>1 DEF DropTable
<1>7. CASE table # None /\ SeatGuest
  <2>1. PICK g \in Ids(Candidates) : Send(Asked("save", {}, [op |-> "seat", row |-> g]))
    BY <1>7 DEF SeatGuest
  <2>2. g \in Rows /\ Of[g] = Guests(selected)
    BY FoundAreOfTheWedding
  <2>3. [op |-> "seat", row |-> g] \in SeatChange
    BY <2>2 DEF SeatChange
  <2> QED
    BY <1>4, <1>7, <2>1, <2>2, <2>3
<1>8. CASE table # None /\ FreeSeat
  <2>1. PICK g \in Ids(Seats) : Send(Asked("save", {}, [op |-> "unseat", row |-> g]))
    BY <1>8 DEF FreeSeat
  <2>2. g \in Rows /\ Of[g] = Guests(selected)
    BY FoundAreOfTheWedding
  <2>3. [op |-> "unseat", row |-> g] \in SeatChange
    BY <2>2 DEF SeatChange
  <2> QED
    BY <1>4, <1>8, <2>1, <2>2, <2>3
<1>9. CASE table # None /\ FindGuests
  <2>1. PICK m : m = Asked("find", {Candidates}, None)
    OBVIOUS
  <2>2. Candidates \in Lists
    BY ListsOfTheWedding
  <2>3. /\ m \in Request /\ m.kind = "find" /\ m.gen = gen /\ m.reply = None /\ m.read = {}
        /\ m.lists = {Candidates} /\ m.cursor = None /\ m.filter = filter
    <3>1. "find" \in Kinds /\ {Candidates} \in SUBSET Lists
      BY <2>2 DEF Kinds, Reads
    <3> QED
      BY <3>1, <2>1, AskedIsARequest
  <2>4. RequestOK(m)
    BY <1>1, <2>3 DEF RequestOK, PageInv
  <2>5. WantedOK(m)
    BY <1>1, <1>9, <2>3, TableIsOfTheWedding DEF WantedOK, LoadOK, MoreOK, Loads
  <2>6. Send(m)
    BY <1>9, <2>1 DEF FindGuests
  <2> QED
    BY <1>1, <2>3, <2>4, <2>5, <2>6, SendKeepsPanel
<1> QED
  BY <1>5, <1>6, <1>7, <1>8, <1>9 DEF SeatingClick

-----------------------------------------------------------------------------
\* The API answers the panel.

LEMMA OwnNames ==
  ASSUME Mounted, NEW l \in Own
  PROVE  /\ l = <<selected, l[2]>> /\ l[2] \in Parts(section)
         /\ l[2] \notin {"seats", "guests"}
         /\ l \notin {Seats, Candidates}
         /\ Whole(l) => section \in {"budget", "seating"}
<1>1. l = <<selected, l[2]>> /\ l[2] \in Parts(section)
  BY DEF Own
<1>2. l[2] \notin {"seats", "guests"} /\ (Whole(l) => section \in {"budget", "seating"})
  BY <1>1 DEF Mounted, Panels, Parts, Whole
<1>3. Seats[2] = "seats" /\ Candidates[2] = "guests"
  BY DEF Seats, Candidates
<1> QED
  BY <1>1, <1>2, <1>3

\* What a request that is still wanted reads.
LEMMA WantedLists ==
  ASSUME Mounted, NEW m, Wanted(m), WantedOK(m)
  PROVE  /\ m.lists \subseteq Shows
         /\ Seats \in m.lists => m.kind = "load" /\ section = "seating"
         /\ Candidates \in m.lists => section = "seating"
<1>1. Own \subseteq Shows
  <2>1. CASE section = "seating"
    BY <2>1 DEF Own, Shows, Parts, Tables
  <2>2. CASE section # "seating"
    BY <2>2 DEF Shows
  <2> QED
    BY <2>1, <2>2
<1>2. Seats \notin Own /\ Candidates \notin Own
  BY OwnNames
<1>3. /\ Tables # Seats /\ Tables # Candidates /\ Seats # Candidates
      /\ Whole(Seats)
  BY DEF Tables, Seats, Candidates, Whole
<1>4. CASE m.kind = "load"
  BY <1>1, <1>2, <1>3, <1>4 DEF WantedOK, LoadOK, Loads, Shows
<1>5. CASE m.kind = "tables"
  BY <1>1, <1>2, <1>3, <1>5 DEF WantedOK, LoadOK, Loads, Shows
<1>6. CASE m.kind = "find"
  BY <1>1, <1>2, <1>3, <1>6 DEF WantedOK, MoreOK, Shows
<1>7. CASE m.kind = "more"
  <2>1. PICK l \in DOMAIN pages : m.lists = {l} /\ pages[l].cursor = m.cursor
    BY <1>7 DEF WantedOK, MoreOK
  <2>2. PagesOK /\ m.cursor # None
    BY <1>7 DEF WantedOK, MoreOK
  <2>3. l \in Shows /\ ~Whole(l)
    BY <2>1, <2>2 DEF PagesOK
  <2> QED
    BY <1>2, <1>3, <2>1, <2>3 DEF Shows
<1> QED
  BY <1>4, <1>5, <1>6, <1>7 DEF Wanted, Reads

LEMMA ListedIsAnAnswer ==
  ASSUME ListsInv, NEW l \in Lists, NEW m
  PROVE  /\ Selects(l, m) \in SUBSET There
         /\ NextCursor(l, m) \in Key \cup {None}
         /\ NextCursor(l, m) # None => Selects(l, m) # {}
         /\ Listed(l, m) \in Answer
<1>1. Selects(l, m) \in SUBSET There
  BY BehindIsThere DEF Selects, AtTable
<1>2. NextCursor(l, m) \in Key \cup {None}
  BY ExactCursorType, DateCursorType DEF NextCursor, ListsInv
<1>3. ASSUME NextCursor(l, m) # None
      PROVE  Selects(l, m) # {}
  <2>1. ~Whole(l) /\ l[2] # "seats"
    BY <1>3 DEF NextCursor, Whole
  <2>2. CASE l[2] = "guests"
    BY <1>3, <2>1, <2>2, DateCursorType DEF NextCursor, Selects, ListsInv
  <2>3. CASE l[2] # "guests"
    BY <1>3, <2>1, <2>3, ExactCursorType DEF NextCursor, Selects, ListsInv
  <2> QED
    BY <2>2, <2>3
<1>4. \A r \in Selects(l, m) : [id |-> r, list |-> l, open |-> row[r].open] \in Entry
  BY <1>1, RowsThere DEF Entry, ListsInv
<1>5. changes \in Nat
  BY DEF ListsInv, ListsTypeOK
<1>6. Listed(l, m) \in Answer
  BY <1>2, <1>4, <1>5 DEF Listed, Answer
<1> QED
  BY <1>1, <1>2, <1>3, <1>6

\* A list that is read now is a good answer to a request that is still wanted.
LEMMA ListedIsGood ==
  ASSUME ListsInv, PageInv, Mounted, NEW m \in Request, Wanted(m), WantedOK(m),
         NEW l \in m.lists
  PROVE  AnswerOK(m, Listed(l, m))
<1> PICK a : a = Listed(l, m)
  OBVIOUS
<1>1. /\ a \in Answer /\ a.list = l /\ a.at = changes /\ a.cursor = NextCursor(l, m)
      /\ a.entries = {[id |-> r, list |-> l, open |-> row[r].open] : r \in Selects(l, m)}
      /\ Selects(l, m) \in SUBSET There
      /\ NextCursor(l, m) # None => Selects(l, m) # {}
  BY ListedIsAnAnswer DEF Listed, Request
<1>2. savedAt <= a.at /\ a.at <= changes /\ changes \in Nat
  BY <1>1 DEF PageInv, ListsInv, ListsTypeOK
<1>3. Whole(l) => a.cursor = None
  BY <1>1 DEF NextCursor
<1>4. a.cursor # None => a.entries # {}
  BY <1>1
<1>5. \A e, f \in a.entries : e.id = f.id => e = f
  BY <1>1
<1>6. m.filter = filter /\ filter \in Filters
  BY DEF WantedOK, PageInv
<1>7. /\ l \in Shows /\ (l \in {Seats, Candidates} => section = "seating")
      /\ (l = Seats => m.kind = "load")
      /\ (l \notin {Seats, Candidates} => l \in Own)
  <2>1. Tables \in Own \/ section # "seating"
    BY DEF Own, Tables, Parts
  <2> QED
    BY <2>1, WantedLists DEF Shows
<1>8. Selects(l, m) \subseteq Rows
  BY <1>1 DEF There
<1>9. ASSUME NEW e \in a.entries
      PROVE  e.list = l /\ EntryOK(e)
  <2>1. PICK r \in Selects(l, m) : e = [id |-> r, list |-> l, open |-> row[r].open]
    BY <1>1
  <2>2. e \in Entry /\ e.id = r /\ e.list = l /\ e.open = row[r].open /\ r \in There /\ r \in Rows
    BY <1>1, <1>8, <2>1 DEF Answer
  <2>3. CASE l = Seats
    <3>1. m.kind = "load" /\ section = "seating" /\ r \in AtTable(m.pick)
      BY <1>7, <2>3 DEF Selects, Seats
    <3>2. PICK b \in m.read : b.list = Tables /\ m.pick \in IdsIn(b)
      BY <3>1 DEF WantedOK, LoadOK, Loads
    <3>3. PICK t \in b.entries : t.id = m.pick
      BY <3>2 DEF IdsIn
    <3>4. t.list = Tables /\ EntryOK(t) /\ Tables \notin {Seats, Candidates}
      BY <3>2, <3>3 DEF WantedOK, AnswerOK, Tables, Seats, Candidates
    <3>5. m.pick \in Rows /\ Of[m.pick] = <<selected, "seating">>
      BY <3>3, <3>4 DEF EntryOK, Entry, Tables
    <3>6. seat[r] = m.pick /\ m.pick # None
      BY <3>1, <3>5, ListsAssumption DEF AtTable
    <3>7. Together(r, m.pick)
      BY <2>2, <3>6 DEF ListsInv
    <3>8. Of[r] = Guests(selected)
      BY <3>5, <3>7 DEF Together, Guests
    <3> QED
      BY <2>2, <2>3, <3>1, <3>8 DEF EntryOK
  <2>4. CASE l = Candidates
    <3>1. r \in Page(l, "open", m.cursor)
      BY <2>4 DEF Selects, Candidates, Whole
    <3>2. Of[r] = Guests(selected)
      BY <2>4, <3>1, BehindIsThere, PageIsOfTheList DEF ListsInv, Candidates, Guests
    <3> QED
      BY <1>7, <2>2, <2>4, <3>2 DEF EntryOK
  <2>5. CASE l \notin {Seats, Candidates}
    <3>1. l \in Own
      BY <1>7, <2>5
    <3>2. l[2] \notin {"seats", "guests"} /\ (Whole(l) => section \in {"budget", "seating"})
      BY <3>1, OwnNames
    <3>3. CASE Whole(l)
      <4>1. r \in Behind(l, "all", None)
        BY <3>2, <3>3 DEF Selects
      <4>2. Of[r] = l
        BY <4>1, PageIsOfTheList DEF ListsInv
      <4>3. Matches(filter, e)
        BY <3>2, <3>3 DEF PageInv, Matches
      <4> QED
        BY <2>2, <2>5, <3>1, <4>2, <4>3 DEF EntryOK
    <3>4. CASE ~Whole(l)
      <4>1. r \in Page(l, filter, m.cursor)
        BY <1>6, <3>2, <3>4 DEF Selects
      <4>2. Of[r] = l /\ Matches(filter, row[r])
        BY <4>1, BehindIsThere, PageIsOfTheList DEF ListsInv
      <4>3. Matches(filter, e)
        BY <2>2, <4>2 DEF Matches
      <4> QED
        BY <2>2, <2>5, <3>1, <4>2, <4>3 DEF EntryOK
    <3> QED
      BY <3>3, <3>4
  <2> QED
    BY <2>2, <2>3, <2>4, <2>5
<1>10. ASSUME l \in Own, NEW r \in Steady(l, filter, a.at),
              m.cursor = None \/ Newer(m.cursor, KeyOf(r))
       PROVE  r \in IdsIn(a) \/ (a.cursor # None /\ Newer(a.cursor, KeyOf(r)))
  <2>1. r \in There /\ Of[r] = l /\ Matches(filter, row[r])
    BY DEF Steady
  <2>2. l[2] \notin {"seats", "guests"}
    BY <1>10, OwnNames
  <2>3. ASSUME r \in Selects(l, m)
        PROVE  r \in IdsIn(a)
    <3>1. [id |-> r, list |-> l, open |-> row[r].open] \in a.entries
      BY <1>1, <2>3
    <3>2. [id |-> r, list |-> l, open |-> row[r].open].id = r
      OBVIOUS
    <3> QED
      BY <3>1, <3>2 DEF IdsIn
  <2>4. CASE Whole(l)
    <3>1. r \in Behind(l, "all", None)
      BY <2>1 DEF Behind, Matches
    <3> QED
      BY <2>2, <2>3, <2>4, <3>1 DEF Selects
  <2>5. CASE ~Whole(l)
    <3>1. r \in Behind(l, filter, m.cursor)
      BY <1>10, <2>1 DEF Behind
    <3>2. \/ r \in Page(l, filter, m.cursor)
          \/ /\ ExactCursor(l, filter, m.cursor) # None
             /\ Newer(ExactCursor(l, filter, m.cursor), KeyOf(r))
      BY <3>1, NothingIsSkipped DEF ListsInv
    <3>3. Selects(l, m) = Page(l, filter, m.cursor)
          /\ a.cursor = ExactCursor(l, filter, m.cursor)
      BY <1>1, <1>6, <2>2, <2>5 DEF Selects, NextCursor
    <3> QED
      BY <2>3, <3>2, <3>3
  <2> QED
    BY <2>4, <2>5
<1>11. AnswerOK(m, a)
  BY <1>1, <1>2, <1>3, <1>4, <1>5, <1>9, <1>10 DEF AnswerOK
<1> QED
  BY <1>11

\* One request is replaced by what has become of it.
LEMMA ReplaceIsAlone ==
  ASSUME OneAtATime, NEW m \in net, NEW n, net' = (net \ {m}) \cup {n},
         UNCHANGED <<gen, busy>>, n.gen = m.gen, n.holds = m.holds,
         n.kind = m.kind \/ (Loads(m) /\ Loads(n))
  PROVE  OneAtATime'
<1>1. Loads(n) = Loads(m) /\ (Clears(n)' => Clears(m)) /\ (Wanted(n)' /\ Loads(n) => Wanted(m))
  BY DEF Loads, Clears, Wanted, Reads
<1>2. \A k \in net : (Clears(k)' => Clears(k)) /\ (Wanted(k)' => Wanted(k))
  BY DEF Clears, Wanted, Loads
<1>3. \A k \in net' : Clears(k)' => busy'
  BY <1>1, <1>2 DEF OneAtATime
<1>4. ASSUME NEW k \in net', NEW j \in net', Clears(k)', Clears(j)'
      PROVE  k = j
  <2>1. k \in net \ {m} \/ k = n
    OBVIOUS
  <2>2. j \in net \ {m} \/ j = n
    OBVIOUS
  <2> QED
    BY <1>1, <1>2, <1>4, <2>1, <2>2 DEF OneAtATime
<1>5. ASSUME NEW k \in net', NEW j \in net', Wanted(k)', Wanted(j)', Loads(k), Loads(j)
      PROVE  k = j
  <2>1. k \in net \ {m} \/ k = n
    OBVIOUS
  <2>2. j \in net \ {m} \/ j = n
    OBVIOUS
  <2> QED
    BY <1>1, <1>2, <1>5, <2>1, <2>2 DEF OneAtATime
<1> QED
  BY <1>3, <1>4, <1>5 DEF OneAtATime, Loads

LEMMA ReplaceKeepsPanel ==
  ASSUME ListsInv, ListsGoOn, PageInv, SavedInv, NetInv,
         NEW m \in net, NEW n, net' = (net \ {m}) \cup {n},
         n.gen = m.gen, n.holds = m.holds,
         n.kind = m.kind \/ (Loads(m) /\ Loads(n)),
         RequestOK(n)', Wanted(n)' => WantedOK(n)',
         UNCHANGED <<section, selected, filter, gen, loading, busy, shown, pages, table,
                     failed, savedAt>>
  PROVE  PageInv' /\ SavedInv' /\ NetInv'
<1>1. PageInv'
  BY PageInvStays DEF PageInv
<1>2. SavedInv'
  <2>1. Saving => Saving'
    <3>1. m.kind = "save" => n.kind = "save"
      BY DEF Loads
    <3> QED
      BY <3>1 DEF Saving
  <2> QED
    BY <2>1, SavedStays
<1>3. \A k \in net' : RequestOK(k)' /\ (Wanted(k)' => WantedOK(k)')
  <2>1. \A k \in net : RequestOK(k)' /\ (Wanted(k)' => WantedOK(k)')
    BY RequestsStay DEF NetInv
  <2> QED
    BY <2>1
<1>4. OneAtATime'
  BY ReplaceIsAlone DEF NetInv
<1> QED
  BY <1>1, <1>2, <1>3, <1>4 DEF NetInv

\* A request that has been answered is as good as it was.
LEMMA AnsweredIsGood ==
  ASSUME NEW m, RequestOK(m), NEW r \in (0..changes) \cup {None, NoAnswer}, changes \in Nat,
         m.kind \in Reads => r \in {None, NoAnswer}, NEW n, n = [m EXCEPT !.reply = r]
  PROVE  /\ RequestOK(n) /\ n.kind = m.kind /\ n.gen = m.gen /\ n.holds = m.holds
         /\ WantedOK(m) => WantedOK(n)
<1>1. m \in Request
  BY DEF RequestOK
<1>2. /\ n \in Request /\ n.kind = m.kind /\ n.gen = m.gen /\ n.filter = m.filter
      /\ n.lists = m.lists /\ n.cursor = m.cursor /\ n.change = m.change /\ n.pick = m.pick
      /\ n.holds = m.holds /\ n.read = m.read /\ n.reply = r
  BY <1>1 DEF Request
<1>3. RequestOK(n)
  BY <1>2 DEF RequestOK
<1>4. WantedOK(m) => WantedOK(n)
  <2> SUFFICES ASSUME WantedOK(m)
               PROVE  WantedOK(n)
    OBVIOUS
  <2>1. LoadOK(n) /\ MoreOK(n)
    BY <1>2 DEF WantedOK, LoadOK, MoreOK, Loads
  <2>2. \A a \in n.read : AnswerOK(n, a)
    BY <1>2 DEF WantedOK, AnswerOK
  <2> QED
    BY <1>2, <2>1, <2>2 DEF WantedOK
<1> QED
  BY <1>2, <1>3, <1>4

\* A request that has read one more list.
LEMMA ReadIsGood ==
  ASSUME ListsInv, PageInv, NEW m, RequestOK(m), m.kind \in Reads, Wanted(m) => WantedOK(m),
         NEW l \in m.lists \ ListsRead(m),
         NEW n, n = [m EXCEPT !.read = @ \cup {Listed(l, m)}]
  PROVE  /\ RequestOK(n) /\ n.kind = m.kind /\ n.gen = m.gen /\ n.holds = m.holds
         /\ Wanted(n) => WantedOK(n)
<1>1. m \in Request /\ m.kind # "late" /\ Mounted /\ l \in Lists
  BY DEF RequestOK, Request, Reads
<1> PICK a : a = Listed(l, m)
  OBVIOUS
<1>2. a \in Answer /\ a.list = l /\ a.at = changes
  BY <1>1, ListedIsAnAnswer DEF Listed
<1>3. /\ n \in Request /\ n.kind = m.kind /\ n.gen = m.gen /\ n.filter = m.filter
      /\ n.lists = m.lists /\ n.cursor = m.cursor /\ n.change = m.change /\ n.pick = m.pick
      /\ n.holds = m.holds /\ n.read = m.read \cup {a} /\ n.reply = m.reply
  BY <1>1, <1>2 DEF Request
<1>4. RequestOK(n)
  BY <1>3 DEF RequestOK
<1>5. ASSUME Wanted(m)
      PROVE  WantedOK(n)
  <2>1. WantedOK(m)
    BY <1>5
  <2>2. AnswerOK(m, a)
    BY <1>1, <1>5, <2>1, ListedIsGood
  <2>3. \A b \in n.read : AnswerOK(m, b)
    BY <1>3, <2>1, <2>2 DEF WantedOK
  <2>4. \A b \in n.read : AnswerOK(n, b)
    BY <1>3, <2>3 DEF AnswerOK
  <2>5. \A b, c \in n.read : b.list = c.list => b = c
    <3>1. \A b \in m.read : b.list # a.list
      BY <1>2 DEF ListsRead
    <3> QED
      BY <1>3, <2>1, <3>1 DEF WantedOK
  <2>6. LoadOK(n)
    BY <1>3, <2>1 DEF WantedOK, LoadOK, Loads
  <2>7. MoreOK(n)
    <3>1. CASE m.kind = "more"
      <4>1. PICK k \in DOMAIN pages : /\ m.lists = {k} /\ pages[k].cursor = m.cursor
                                      /\ \A b \in m.read : pages[k].at <= b.at
        BY <2>1, <3>1 DEF WantedOK, MoreOK
      <4>2. PagesOK
        BY <2>1, <3>1 DEF WantedOK, MoreOK
      <4>3. pages[k].at <= a.at
        BY <1>2, <4>2 DEF PagesOK
      <4>4. \A b \in n.read : pages[k].at <= b.at
        BY <1>3, <4>1, <4>3
      <4> QED
        BY <1>3, <2>1, <3>1, <4>1, <4>4 DEF WantedOK, MoreOK
    <3>2. CASE m.kind # "more"
      BY <1>3, <2>1, <3>2 DEF WantedOK, MoreOK
    <3> QED
      BY <3>1, <3>2
  <2> QED
    BY <1>3, <2>1, <2>4, <2>5, <2>6, <2>7 DEF WantedOK
<1>6. Wanted(n) => Wanted(m)
  BY <1>3 DEF Wanted
<1> QED
  BY <1>3, <1>4, <1>5, <1>6

LEMMA StoreCounts ==
  ASSUME NEW m, Store(m)
  PROVE  changes' = changes + 1
BY DEF Store, PutAt, Apply

LEMMA ServeKeepsPanel ==
  ASSUME ListsInv, ScopeInv, PageInv, SavedInv, NetInv, NEW m \in net, Serve(m)
  PROVE  PageInv' /\ SavedInv' /\ NetInv' /\ ListsGoOn
<1>1. UNCHANGED <<section, selected, filter, gen, loading, busy, shown, pages, table,
                 failed, savedAt>>
  BY DEF Serve, scopeVars
<1>2. RequestOK(m) /\ (Wanted(m) => WantedOK(m)) /\ m \in Request
  BY DEF NetInv, RequestOK
<1>3. changes \in Nat
  BY DEF ListsInv, ListsTypeOK
<1>4. CASE ServeList(m)
  <2>1. ListsGoOn
    BY <1>4, StillGoesOn DEF ServeList
  <2>2. PICK l \in m.lists \ ListsRead(m) :
          net' = (net \ {m}) \cup {[m EXCEPT !.read = @ \cup {Listed(l, m)}]}
    BY <1>4 DEF ServeList
  <2>3. PICK n : n = [m EXCEPT !.read = @ \cup {Listed(l, m)}]
    OBVIOUS
  <2>4. /\ RequestOK(n) /\ n.kind = m.kind /\ n.gen = m.gen /\ n.holds = m.holds
        /\ Wanted(n) => WantedOK(n)
    BY <1>2, <1>4, <2>3, ReadIsGood DEF ServeList
  <2>5. RequestOK(n)' /\ (Wanted(n)' => WantedOK(n)')
    BY <1>1, <2>1, <2>4, RequestsStay
  <2>6. net' = (net \ {m}) \cup {n}
    BY <2>2, <2>3
  <2> QED
    BY <1>1, <2>1, <2>4, <2>5, <2>6, ReplaceKeepsPanel
<1>5. ASSUME ListsGoOn, NEW r \in {None, NoAnswer}, Answered(m, r)
      PROVE  PageInv' /\ SavedInv' /\ NetInv'
  <2>1. PICK n : n = [m EXCEPT !.reply = r]
    OBVIOUS
  <2>2. /\ RequestOK(n) /\ n.kind = m.kind /\ n.gen = m.gen /\ n.holds = m.holds
        /\ WantedOK(m) => WantedOK(n)
    BY <1>2, <1>3, <2>1, AnsweredIsGood
  <2>3. Wanted(n) => WantedOK(n)
    BY <1>2, <2>2 DEF Wanted
  <2>4. RequestOK(n)' /\ (Wanted(n)' => WantedOK(n)')
    BY <1>1, <1>5, <2>2, <2>3, RequestsStay
  <2>5. net' = (net \ {m}) \cup {n}
    BY <1>5, <2>1 DEF Answered
  <2> QED
    BY <1>1, <1>5, <2>2, <2>4, <2>5, ReplaceKeepsPanel
<1>6. ASSUME m.kind \in {"save", "late"}, Store(m)
      PROVE  ListsGoOn /\ changes' = changes + 1
  BY <1>2, <1>6, StoreGoesOn, StoreCounts DEF RequestOK
<1>7. CASE ServeSave(m)
  <2>1. ListsGoOn /\ changes' = changes + 1 /\ Answered(m, changes + 1)
        /\ m.kind \in {"save", "late"}
    BY <1>6, <1>7 DEF ServeSave
  <2>2. PICK n : n = [m EXCEPT !.reply = changes + 1]
    OBVIOUS
  <2>3. /\ n \in Request /\ n.kind = m.kind /\ n.gen = m.gen /\ n.change = m.change
        /\ n.pick = m.pick /\ n.holds = m.holds /\ n.reply = changes + 1
    BY <1>2, <1>3, <2>2 DEF Request
  <2>4. RequestOK(m)'
    BY <1>1, <1>2, <2>1, RequestsStay
  <2>5. RequestOK(n)' /\ ~Wanted(n)'
    <3>1. n.reply \in 0..changes' /\ n.kind \notin Reads
      BY <1>3, <2>1, <2>3 DEF Reads
    <3> QED
      BY <2>3, <2>4, <3>1 DEF RequestOK, Wanted
  <2>6. net' = (net \ {m}) \cup {n}
    BY <2>1, <2>2 DEF Answered
  <2> QED
    BY <1>1, <2>1, <2>3, <2>5, <2>6, ReplaceKeepsPanel
<1>8. CASE LoseReply(m)
  <2>1. ListsGoOn
    <3>1. CASE UNCHANGED <<listVars, seat>>
      BY <3>1, StillGoesOn
    <3>2. CASE m.kind = "save" /\ Store(m)
      BY <1>6, <3>2
    <3> QED
      BY <1>8, <3>1, <3>2 DEF LoseReply
  <2> QED
    BY <1>5, <1>8, <2>1 DEF LoseReply
<1> QED
  BY <1>4, <1>7, <1>8 DEF Serve

-----------------------------------------------------------------------------
\* The panel loads again.

LEMMA LoadIsARequest ==
  ASSUME ScopeInv, PageInv, NEW s \in Panels, NEW f \in Filters,
         NEW pick \in Rows \cup {None}, NEW holds \in BOOLEAN,
         NEW n, n = Load(s, f, pick, holds)
  PROVE  /\ n \in Request /\ n.gen = gen + 1 /\ n.filter = f /\ n.pick = pick
         /\ n.holds = holds /\ n.cursor = None /\ n.read = {} /\ n.reply = None
         /\ n.kind = (IF s = "seating" THEN "tables" ELSE "load")
         /\ n.lists = {selected} \X Parts(s) /\ Loads(n)
<1>1. PICK kind \in {"tables", "load"} : kind = IF s = "seating" THEN "tables" ELSE "load"
  OBVIOUS
<1>2. PICK lists : lists = {selected} \X Parts(s)
  OBVIOUS
<1>3. lists \in SUBSET Lists
  <2>1. Parts(s) \subseteq ListNames
    BY DEF ListNames
  <2> QED
    BY <1>2, <2>1, DeskAssumption DEF ScopeInv
<1>4. PICK a : a = Asked(kind, lists, None)
  OBVIOUS
<1>5. /\ a \in Request /\ a.kind = kind /\ a.lists = lists /\ a.cursor = None
      /\ a.read = {} /\ a.reply = None
  <2>1. kind \in Kinds /\ None \in PanelChange \cup {None}
    BY DEF Kinds, Reads
  <2> QED
    BY <1>3, <1>4, <2>1, AskedIsARequest
<1>6. n = [a EXCEPT !.gen = gen + 1, !.filter = f, !.pick = pick, !.holds = holds]
  BY <1>1, <1>2, <1>4 DEF Load
<1>7. gen + 1 \in Nat
  BY DEF PageInv
<1>8. /\ n \in Request /\ n.gen = gen + 1 /\ n.filter = f /\ n.pick = pick
      /\ n.holds = holds /\ n.cursor = None /\ n.read = {} /\ n.reply = None
      /\ n.kind = kind /\ n.lists = lists
  BY <1>5, <1>6, <1>7 DEF Request
<1> QED
  BY <1>1, <1>2, <1>8 DEF Loads

\* The request that replaces the older ones is good on the page that asks it.
LEMMA LoadIsGood ==
  ASSUME NEW s \in Panels, NEW n \in Request, n.read = {}, n.reply = None, n.cursor = None,
         n.kind = (IF s = "seating" THEN "tables" ELSE "load"),
         n.lists = {selected} \X Parts(s), s # "seating" => n.pick = None,
         s # "seating" => n.holds \/ pages' = None,
         gen' = n.gen, filter' = n.filter, section' = s, selected' = selected
  PROVE  RequestOK(n)' /\ WantedOK(n)'
<1>1. n.gen \in Nat /\ n.gen <= gen'
  BY DEF Request
<1>2. n.kind \in {"tables", "load"} /\ Mounted'
  BY DEF Mounted
<1>3. RequestOK(n)'
  BY <1>1, <1>2 DEF RequestOK
<1>4. n.lists = Own'
  BY DEF Own
<1>5. s = "seating" => n.lists = {Tables'}
  BY DEF Parts, Tables
<1>6. LoadOK(n)'
  BY <1>4, <1>5 DEF LoadOK, Loads
<1>7. MoreOK(n)'
  BY <1>2 DEF MoreOK
<1> QED
  BY <1>3, <1>6, <1>7 DEF WantedOK

LEMMA ReloadIsAlone ==
  ASSUME OneAtATime, gen \in Nat, gen' = gen + 1, NEW requests \in SUBSET net,
         \A m \in requests : m.gen \in Nat /\ m.gen <= gen,
         NEW n, n.gen = gen + 1, Loads(n), net' = requests \cup {n},
         \A m \in requests : Clears(m) => busy',
         n.holds => busy' /\ \A m \in requests : ~Clears(m)
  PROVE  OneAtATime'
<1>1. \A m \in requests : m.gen # gen'
  OBVIOUS
<1>2. \A m \in requests : ~Wanted(m)' /\ (Clears(m)' => Clears(m))
  BY <1>1 DEF Wanted, Clears, Loads
<1>3. Clears(n)' => n.holds
  BY DEF Clears, Loads
<1>4. \A m \in net' : Clears(m)' => busy'
  BY <1>2, <1>3
<1>5. ASSUME NEW m \in net', NEW k \in net', Clears(m)', Clears(k)'
      PROVE  m = k
  <2>1. CASE m = n
    BY <1>2, <1>3, <1>5, <2>1
  <2>2. CASE k = n
    BY <1>2, <1>3, <1>5, <2>2
  <2>3. CASE m \in requests /\ k \in requests
    BY <1>2, <1>5, <2>3 DEF OneAtATime
  <2> QED
    BY <2>1, <2>2, <2>3
<1>6. \A m, k \in net' : Wanted(m)' /\ Wanted(k)' => m = k
  BY <1>2
<1> QED
  BY <1>4, <1>5, <1>6 DEF OneAtATime

LEMMA ReloadKeepsPage ==
  ASSUME ListsInv, ListsGoOn, PageInv, Mounted, NEW f \in Filters,
         section # "planning" => f = filter,
         gen' = gen + 1, filter' = f, loading' = TRUE,
         section = "planning" => shown' = {} /\ pages' = None,
         section # "planning" => UNCHANGED <<shown, pages>>,
         UNCHANGED <<section, selected, table>>, savedAt' \in 0..changes',
         busy' \in BOOLEAN, failed' \in BOOLEAN
  PROVE  PageInv'
<1>1. gen' \in Nat /\ loading' \in BOOLEAN /\ table' \in Rows \cup {None}
  BY DEF PageInv
<1>2. section' # "planning" => filter' = "all"
  BY DEF PageInv
<1>3. section' # "seating" => table' = None
  BY DEF PageInv
<1>4. Mounted'
  BY DEF Mounted
<1>5. CASE section = "planning"
  <2>1. table' = None
    BY <1>3, <1>5
  <2> QED
    BY <1>1, <1>2, <1>4, <1>5, <2>1 DEF PageInv
<1>6. CASE section # "planning"
  <2>1. UNCHANGED <<shown, pages, filter>>
    BY <1>6
  <2>2. \A e \in shown' : EntryOK(e)'
    BY <2>1, EntryStays DEF PageInv
  <2>3. (pages' = None /\ shown' = {}) \/ PagesOK'
    BY <2>1, PagesStay DEF PageInv
  <2>4. table' # None => table' \in Ids(Tables)'
    BY <2>1 DEF PageInv, Ids, Tables
  <2>5. shown' \subseteq Entry /\ \A e, k \in shown' : e.id = k.id /\ e.list = k.list => e = k
    BY <2>1 DEF PageInv
  <2> QED
    BY <1>1, <1>2, <1>3, <1>4, <2>2, <2>3, <2>4, <2>5 DEF PageInv
<1> QED
  BY <1>5, <1>6

LEMMA ReloadKeepsPanel ==
  ASSUME ListsInv, ListsGoOn, ScopeInv, PageInv, NetInv, Mounted,
         NEW f \in Filters, section # "planning" => f = filter,
         NEW pick \in Rows \cup {None}, section # "seating" => pick = None,
         NEW holds \in BOOLEAN, section \notin {"planning", "seating"} => holds,
         NEW requests \in SUBSET net, Reload(f, pick, holds, requests), filter' = f,
         \A m \in requests : Clears(m) => busy',
         holds => busy' /\ \A m \in requests : ~Clears(m),
         UNCHANGED <<section, selected, table>>, savedAt' \in 0..changes',
         busy' \in BOOLEAN, failed' \in BOOLEAN
  PROVE  PageInv' /\ SavedInv' /\ NetInv'
<1>1. PICK n : n = Load(section, f, pick, holds)
  OBVIOUS
<1>2. /\ gen' = gen + 1 /\ loading' = TRUE /\ net' = requests \cup {n}
      /\ section = "planning" => shown' = {} /\ pages' = None
      /\ section # "planning" => UNCHANGED <<shown, pages>>
  <2>1. gen' = gen + 1 /\ loading' = TRUE
    BY DEF Reload
  <2>2. net' = requests \cup {n}
    BY <1>1 DEF Reload
  <2>3. section = "planning" => shown' = {} /\ pages' = None
    BY DEF Reload
  <2>4. section # "planning" => UNCHANGED <<shown, pages>>
    BY DEF Reload
  <2> QED
    BY <2>1, <2>2, <2>3, <2>4
<1>3. PageInv'
  BY <1>2, ReloadKeepsPage
<1>4. SavedInv'
  BY <1>2 DEF SavedInv
<1>5. section \in Panels
  BY DEF Mounted
<1>6. /\ n \in Request /\ n.gen = gen + 1 /\ n.filter = f /\ n.pick = pick
      /\ n.holds = holds /\ n.cursor = None /\ n.read = {} /\ n.reply = None
      /\ n.kind = (IF section = "seating" THEN "tables" ELSE "load")
      /\ n.lists = {selected} \X Parts(section) /\ Loads(n)
  BY <1>1, <1>5, LoadIsARequest
<1>7. RequestOK(n)' /\ WantedOK(n)'
  BY <1>2, <1>5, <1>6, LoadIsGood
<1>8. /\ gen \in Nat /\ gen' \in Nat /\ gen <= gen'
      /\ changes \in Nat /\ changes' \in Nat /\ changes <= changes'
  BY <1>2 DEF PageInv, ListsGoOn, ListsInv, ListsTypeOK
<1>9. ASSUME NEW m \in requests
      PROVE  RequestOK(m)' /\ ~Wanted(m)' /\ m.gen \in Nat /\ m.gen <= gen
  <2>1. RequestOK(m) /\ m.gen \in Nat /\ m.gen <= gen
    BY DEF NetInv, RequestOK, Request
  <2>2. RequestOK(m)'
    BY <1>8, <2>1, RequestStays
  <2>3. m.gen # gen'
    BY <1>2, <1>8, <2>1
  <2> QED
    BY <2>1, <2>2, <2>3 DEF Wanted
<1>10. OneAtATime'
  BY <1>2, <1>6, <1>8, <1>9, ReloadIsAlone DEF NetInv
<1> QED
  BY <1>2, <1>3, <1>4, <1>7, <1>9, <1>10 DEF NetInv

LEMMA ChooseFilterKeepsPanel ==
  ASSUME ListsInv, ScopeInv, PageInv, SavedInv, NetInv, ChooseFilter, UNCHANGED menu
  PROVE  /\ PageInv' /\ SavedInv' /\ NetInv' /\ ScopeInv' /\ ListsGoOn
         /\ UNCHANGED <<selected, section, scope, creating>>
<1>1. /\ section = "planning" /\ Act
      /\ UNCHANGED <<busy, table, failed, savedAt, selected, section, scope, creating, moreBusy>>
      /\ UNCHANGED <<listVars, seat>>
  BY DEF ChooseFilter, Click
<1>2. ListsGoOn
  BY <1>1, StillGoesOn
<1>3. ScopeInv'
  BY <1>1, ClickKeepsScope DEF ScopeInv
<1>4. PICK f \in Filters : filter' = f /\ Reload(f, None, FALSE, net)
  BY DEF ChooseFilter
<1>5. Mounted
  BY <1>1 DEF Mounted, Panels
<1>6. savedAt' \in 0..changes' /\ busy' \in BOOLEAN /\ failed' \in BOOLEAN
  BY <1>1 DEF PageInv, listVars
<1>7. \A m \in net : Clears(m) => busy'
  BY <1>1 DEF NetInv, OneAtATime
<1> QED
  BY <1>1, <1>2, <1>3, <1>4, <1>5, <1>6, <1>7, ReloadKeepsPanel

LEMMA SwitchTableKeepsPanel ==
  ASSUME ListsInv, ScopeInv, PageInv, SavedInv, NetInv, SwitchTable, UNCHANGED menu
  PROVE  /\ PageInv' /\ SavedInv' /\ NetInv' /\ ScopeInv' /\ ListsGoOn
         /\ UNCHANGED <<selected, section, scope, creating>>
<1>1. /\ section = "seating" /\ Act /\ Mounted /\ ~busy
      /\ UNCHANGED <<filter, busy, table, failed, savedAt, selected, section, scope,
                     creating, moreBusy>>
      /\ UNCHANGED <<listVars, seat>>
  BY DEF SwitchTable, Idle, Click
<1>2. ListsGoOn
  BY <1>1, StillGoesOn
<1>3. ScopeInv'
  BY <1>1, ClickKeepsScope DEF ScopeInv
<1>4. PICK t \in Ids(Tables) : Reload(filter, t, FALSE, net)
  BY DEF SwitchTable
<1>5. t \in Rows /\ filter \in Filters
  BY DEF Ids, PageInv, Entry
<1>6. savedAt' \in 0..changes' /\ busy' \in BOOLEAN /\ failed' \in BOOLEAN
  BY <1>1 DEF PageInv, listVars
<1>7. \A m \in net : Clears(m) => busy'
  BY <1>1 DEF NetInv, OneAtATime
<1> QED
  BY <1>1, <1>2, <1>3, <1>4, <1>5, <1>6, <1>7, ReloadKeepsPanel

\* After a save the panel loads again, and whatever was asked before it is old.
LEMMA DeliverSaveKeepsPanel ==
  ASSUME ListsInv, ScopeInv, PageInv, SavedInv, NetInv, NEW m \in net,
         Arrived(m), DeliverSave(m), UNCHANGED <<listVars, scopeVars, seat>>
  PROVE  PageInv' /\ SavedInv' /\ NetInv'
<1>1. /\ m.kind = "save" /\ UNCHANGED <<filter, table, selected, section>>
  BY DEF DeliverSave, scopeVars
<1>2. ListsGoOn
  BY StillGoesOn
<1>3. RequestOK(m) /\ Mounted /\ m.reply \in (0..changes) \cup {None, NoAnswer}
      /\ m.reply # None /\ m.pick \in Rows \cup {None} /\ (section # "seating" => m.pick = None)
  BY <1>1 DEF NetInv, RequestOK, Arrived, Reads, Request
<1>4. \A n \in net \ {m} : ~Clears(n)
  BY <1>1 DEF NetInv, OneAtATime, Clears
<1>5. CASE m.reply = NoAnswer
  <2>1. /\ net' = net \ {m} /\ failed' = TRUE /\ busy' = FALSE
        /\ UNCHANGED <<gen, loading, shown, pages, savedAt>>
    BY <1>5 DEF DeliverSave
  <2>2. loading' \in BOOLEAN /\ busy' \in BOOLEAN /\ failed' \in BOOLEAN
    BY <2>1 DEF PageInv
  <2>3. PageInv'
    BY <1>1, <1>2, <2>1, <2>2, PageInvStays
  <2>4. SavedInv'
    BY <2>1 DEF SavedInv
  <2>5. \A n \in net' : RequestOK(n)' /\ (Wanted(n)' => WantedOK(n)')
    BY <1>1, <1>2, <2>1, RequestsStay DEF NetInv
  <2>6. OneAtATime'
    BY <1>4, <2>1 DEF NetInv, OneAtATime, Clears, Wanted, Loads
  <2> QED
    BY <2>3, <2>4, <2>5, <2>6 DEF NetInv
<1>6. CASE m.reply # NoAnswer
  <2>1. AfterSave(m) /\ savedAt' = m.reply /\ UNCHANGED failed
    BY <1>6 DEF DeliverSave
  <2>2. PICK holds \in BOOLEAN : holds = (section # "planning")
    OBVIOUS
  <2>3. Reload(filter, m.pick, holds, net \ {m}) /\ busy' = holds
    BY <2>1, <2>2 DEF AfterSave
  <2>4. savedAt' \in 0..changes'
    BY <1>3, <1>6, <2>1 DEF listVars
  <2>5. busy' \in BOOLEAN /\ failed' \in BOOLEAN
    BY <2>1, <2>3 DEF PageInv
  <2>6. filter \in Filters
    BY DEF PageInv
  <2> QED
    BY <1>1, <1>2, <1>3, <1>4, <2>2, <2>3, <2>4, <2>5, <2>6, ReloadKeepsPanel
<1> QED
  BY <1>5, <1>6

-----------------------------------------------------------------------------
\* Answers that arrive.

\* A request that is gone, with what it held.
LEMMA OneLessIsAlone ==
  ASSUME OneAtATime, NEW m \in net, net' = net \ {m}, UNCHANGED gen,
         busy' = busy \/ Clears(m)
  PROVE  OneAtATime'
<1>1. \A n \in net' : (Clears(n)' => Clears(n)) /\ (Wanted(n)' => Wanted(n))
  BY DEF Clears, Wanted, Loads
<1>2. \A n \in net' : Clears(n)' => busy'
  BY <1>1 DEF OneAtATime
<1>3. \A n, k \in net' : Clears(n)' /\ Clears(k)' => n = k
  BY <1>1 DEF OneAtATime
<1>4. \A n, k \in net' : Wanted(n)' /\ Wanted(k)' /\ Loads(n) /\ Loads(k) => n = k
  BY <1>1 DEF OneAtATime
<1> QED
  BY <1>2, <1>3, <1>4 DEF OneAtATime, Loads

\* The request is gone and the page is as it was.
LEMMA OneLessKeepsPanel ==
  ASSUME ListsInv, ListsGoOn, PageInv, SavedInv, NetInv, NEW m \in net, net' = net \ {m},
         UNCHANGED <<section, selected, filter, gen, savedAt, shown, pages, table>>,
         m.kind # "save", busy' = busy \/ Clears(m),
         loading' \in BOOLEAN, busy' \in BOOLEAN, failed' \in BOOLEAN,
         loading => loading' \/ failed', failed => failed'
  PROVE  PageInv' /\ SavedInv' /\ NetInv'
<1>1. PageInv'
  BY PageInvStays
<1>2. SavedInv'
  <2>1. Saving => Saving'
    BY DEF Saving
  <2> QED
    BY <2>1, SavedStays
<1>3. \A n \in net' : RequestOK(n)' /\ (Wanted(n)' => WantedOK(n)')
  BY RequestsStay DEF NetInv
<1>4. OneAtATime'
  BY OneLessIsAlone DEF NetInv
<1> QED
  BY <1>1, <1>2, <1>3, <1>4 DEF NetInv

LEMMA DropLateKeepsPanel ==
  ASSUME ListsInv, ScopeInv, PageInv, SavedInv, NetInv, NEW m \in net,
         DropLate(m), UNCHANGED <<listVars, scopeVars, seat>>
  PROVE  PageInv' /\ SavedInv' /\ NetInv'
<1>1. /\ m.kind = "late" /\ net' = net \ {m}
      /\ UNCHANGED <<section, selected, filter, gen, savedAt, shown, pages, table,
                     loading, busy, failed>>
  BY DEF DropLate, scopeVars
<1>2. ListsGoOn
  BY StillGoesOn
<1>3. loading' \in BOOLEAN /\ busy' \in BOOLEAN /\ failed' \in BOOLEAN
  BY <1>1 DEF PageInv
<1> QED
  BY <1>1, <1>2, <1>3, OneLessKeepsPanel

\* A request whose lists have all been read.
LEMMA ReadInFull ==
  ASSUME NEW m, RequestOK(m), m.kind \in Reads, Arrived(m), m.reply # NoAnswer,
         Wanted(m) => WantedOK(m)
  PROVE  /\ m \in Request /\ m.reply = None /\ ListsRead(m) = m.lists
         /\ EntriesOf(m) \subseteq Entry
         /\ \A l \in m.lists : \E a \in m.read : a.list = l
         /\ Wanted(m) =>
              /\ \A a \in m.read : AnswerOK(m, a)
              /\ \A l \in m.lists, a \in m.read :
                   a.list = l => PageRead(m, l) = [cursor |-> a.cursor, at |-> a.at]
              /\ \A e \in EntriesOf(m) :
                   EntryOK(e) /\ \E a \in m.read : a.list = e.list /\ e \in a.entries
<1>1. m \in Request /\ m.reply = None
  BY DEF RequestOK
<1>2. ListsRead(m) = m.lists
  BY <1>1 DEF Arrived
<1>3. EntriesOf(m) \subseteq Entry
  BY <1>1 DEF Request, Answer, EntriesOf
<1>4. \A l \in m.lists : \E a \in m.read : a.list = l
  BY <1>2 DEF ListsRead
<1>5. ASSUME Wanted(m)
      PROVE  /\ \A a \in m.read : AnswerOK(m, a)
             /\ \A l \in m.lists, a \in m.read :
                  a.list = l => PageRead(m, l) = [cursor |-> a.cursor, at |-> a.at]
             /\ \A e \in EntriesOf(m) :
                  EntryOK(e) /\ \E a \in m.read : a.list = e.list /\ e \in a.entries
  <2>1. /\ \A a \in m.read : AnswerOK(m, a)
        /\ \A a, b \in m.read : a.list = b.list => a = b
    BY <1>5 DEF WantedOK
  <2>2. ASSUME NEW l \in m.lists, NEW a \in m.read, a.list = l
        PROVE  PageRead(m, l) = [cursor |-> a.cursor, at |-> a.at]
    <3>1. (CHOOSE b \in m.read : b.list = l) = a
      BY <2>1, <2>2
    <3> QED
      BY <3>1 DEF PageRead
  <2>3. ASSUME NEW e \in EntriesOf(m)
        PROVE  EntryOK(e) /\ \E a \in m.read : a.list = e.list /\ e \in a.entries
    <3>1. PICK a \in m.read : e \in a.entries
      BY DEF EntriesOf
    <3> QED
      BY <2>1, <3>1 DEF AnswerOK
  <2> QED
    BY <2>1, <2>2, <2>3
<1> QED
  BY <1>1, <1>2, <1>3, <1>4, <1>5

\* The tables are read: the guests at one of them are asked for.
LEMMA PickedIsRead ==
  ASSUME NEW m, EntriesOf(m) \subseteq Entry, EntriesOf(m) # {}
  PROVE  Picked(m) \in Rows /\ \E e \in EntriesOf(m) : e.id = Picked(m)
<1> DEFINE there == {e.id : e \in EntriesOf(m)}
<1>1. there \subseteq Rows /\ there \subseteq Nat /\ there # {}
  <2>1. \A e \in EntriesOf(m) : e.id \in Rows
    BY DEF Entry
  <2> QED
    BY <2>1, ListsAssumption
<1>2. \E t \in there : \A u \in there : t <= u
  BY <1>1, LeastExists
<1>3. Picked(m) \in there
  BY <1>2 DEF Picked
<1> QED
  BY <1>1, <1>3

LEMMA DeliverTablesKeepsPanel ==
  ASSUME ListsInv, ScopeInv, PageInv, SavedInv, NetInv, NEW m \in net,
         Arrived(m), DeliverTables(m), UNCHANGED <<listVars, scopeVars, seat>>
  PROVE  PageInv' /\ SavedInv' /\ NetInv'
<1>1. /\ m.kind = "tables" /\ m.reply # NoAnswer /\ EntriesOf(m) # {}
      /\ UNCHANGED <<section, selected, filter, gen, loading, busy, shown, pages, table,
                     failed, savedAt>>
  BY DEF DeliverTables, Complete, scopeVars
<1>2. ListsGoOn
  BY StillGoesOn
<1>3. RequestOK(m) /\ (Wanted(m) => WantedOK(m)) /\ m.kind \in Reads
  BY <1>1 DEF NetInv, Reads
<1>4. m \in Request /\ m.reply = None /\ EntriesOf(m) \subseteq Entry
  BY <1>1, <1>3, ReadInFull
<1>5. PICK t \in Rows : t = Picked(m) /\ \E e \in EntriesOf(m) : e.id = t
  BY <1>1, <1>4, PickedIsRead
<1>6. PICK n : n = [m EXCEPT !.kind = "load", !.pick = t, !.lists = m.lists \cup {Seats}]
  OBVIOUS
<1>7. net' = (net \ {m}) \cup {n}
  BY <1>5, <1>6 DEF DeliverTables
<1>8. /\ n \in Request /\ n.kind = "load" /\ n.pick = t /\ n.lists = m.lists \cup {Seats}
      /\ n.gen = m.gen /\ n.filter = m.filter /\ n.cursor = m.cursor /\ n.holds = m.holds
      /\ n.read = m.read /\ n.reply = m.reply
  <2>1. Seats \in Lists /\ "load" \in Kinds
    BY ListsOfTheWedding DEF Kinds, Reads
  <2> QED
    BY <1>4, <1>6, <2>1 DEF Request
<1>9. RequestOK(n)
  BY <1>1, <1>3, <1>4, <1>8 DEF RequestOK
<1>10. ASSUME Wanted(n)
       PROVE  WantedOK(n)
  <2>1. Wanted(m) /\ WantedOK(m)
    BY <1>3, <1>8, <1>10 DEF Wanted
  <2>2. section = "seating" /\ m.lists = {Tables} /\ m.cursor = None
    BY <1>1, <2>1 DEF WantedOK, LoadOK, Loads
  <2>3. PICK e \in EntriesOf(m) : e.id = t
    BY <1>5
  <2>4. PICK a \in m.read : a.list = e.list /\ e \in a.entries
    BY <1>1, <1>3, <2>1, ReadInFull
  <2>5. a.list = Tables /\ t \in IdsIn(a)
    BY <2>1, <2>2, <2>3, <2>4 DEF WantedOK, AnswerOK, IdsIn
  <2>6. LoadOK(n)
    BY <1>8, <2>2, <2>5 DEF LoadOK, Loads
  <2>7. MoreOK(n)
    BY <1>8 DEF MoreOK
  <2>8. \A b \in n.read : AnswerOK(n, b)
    <3>1. \A b \in m.read : AnswerOK(m, b)
      BY <2>1 DEF WantedOK
    <3> QED
      BY <1>8, <3>1 DEF AnswerOK
  <2> QED
    BY <1>8, <2>1, <2>6, <2>7, <2>8 DEF WantedOK
<1>11. RequestOK(n)' /\ (Wanted(n)' => WantedOK(n)')
  BY <1>1, <1>2, <1>9, <1>10, RequestsStay
<1> QED
  BY <1>1, <1>2, <1>7, <1>8, <1>11, ReplaceKeepsPanel DEF Loads

-----------------------------------------------------------------------------
\* The next page of a list, or the guests found.

LEMMA MoreIsGood ==
  ASSUME ListsInv, ScopeInv, PageInv, NEW m, RequestOK(m), WantedOK(m), Wanted(m),
         m.kind \in {"more", "find"}, Arrived(m), m.reply # NoAnswer,
         shown' = Appended(m),
         pages' = [l \in DOMAIN pages \cup m.lists |->
                     IF l \notin m.lists THEN pages[l]
                     ELSE IF m.cursor = None THEN PageRead(m, l)
                     ELSE [PageRead(m, l) EXCEPT !.at = pages[l].at]],
         UNCHANGED <<section, selected, filter, gen, savedAt, table, loading>>,
         UNCHANGED <<listVars, seat>>, busy' \in BOOLEAN, failed' \in BOOLEAN
  PROVE  /\ PageInv' /\ PagesOK'
         /\ \A k \in Own : pages'[k].at = pages[k].at
<1>1. m \in Request /\ ListsRead(m) = m.lists /\ EntriesOf(m) \subseteq Entry
  BY ReadInFull DEF Reads
<1>2. PagesOK /\ Mounted
  BY DEF WantedOK, MoreOK, PagesOK
<1>3. PICK l : /\ m.lists = {l}
               /\ m.kind = "find" => l = Candidates /\ m.cursor = None /\ section = "seating"
               /\ m.kind = "more" => /\ l \in DOMAIN pages /\ pages[l].cursor = m.cursor
                                     /\ m.cursor # None
                                     /\ \A a \in m.read : pages[l].at <= a.at
  <2>1. CASE m.kind = "find"
    BY <2>1 DEF WantedOK, MoreOK
  <2>2. CASE m.kind = "more"
    BY <2>2 DEF WantedOK, MoreOK
  <2> QED
    BY <2>1, <2>2
<1>4. PICK a \in m.read : a.list = l
  BY <1>3, ReadInFull DEF Reads
<1>5. /\ AnswerOK(m, a) /\ PageRead(m, l) = [cursor |-> a.cursor, at |-> a.at]
      /\ \A e \in EntriesOf(m) : EntryOK(e) /\ e.list = l /\ e \in a.entries
  <2>1. /\ \A b \in m.read : AnswerOK(m, b)
        /\ \A k \in m.lists, b \in m.read :
             b.list = k => PageRead(m, k) = [cursor |-> b.cursor, at |-> b.at]
        /\ \A e \in EntriesOf(m) :
             EntryOK(e) /\ \E b \in m.read : b.list = e.list /\ e \in b.entries
    BY ReadInFull DEF Reads
  <2>2. \A b, c \in m.read : b.list = c.list => b = c
    BY DEF WantedOK
  <2>3. \A b \in m.read : b.list = l
    BY <1>3, <2>1 DEF AnswerOK
  <2> QED
    BY <1>3, <1>4, <2>1, <2>2, <2>3
<1>6. a \in Answer /\ a.entries \subseteq EntriesOf(m)
  BY <1>1 DEF Request, EntriesOf
<1>7. /\ \A e \in shown' : e \in shown \/ (e \in EntriesOf(m) /\ e.list = l)
      /\ \A e \in shown : e.list # l => e \in shown'
      /\ m.kind = "more" => shown \subseteq shown'
      /\ m.kind = "find" => a.entries \subseteq shown' /\ \A e \in shown' : e.list = l => e \in EntriesOf(m)
      /\ \A e \in a.entries : \E f \in shown' : f.id = e.id /\ f.list = l
      /\ m.kind = "more" => \A e \in shown' \ shown, f \in shown : f.list = e.list => f.id # e.id
  <2>1. CASE m.kind = "find"
    <3>1. shown' = {e \in shown : e.list # l} \cup EntriesOf(m)
      BY <1>3, <2>1 DEF Appended
    <3> QED
      BY <1>5, <1>6, <2>1, <3>1
  <2>2. CASE m.kind = "more"
    <3>1. shown' = shown \cup NewEntries(m)
      BY <1>3, <2>2 DEF Appended
    <3> QED
      BY <1>5, <1>6, <2>2, <3>1 DEF NewEntries
  <2> QED
    BY <2>1, <2>2
<1>8. /\ DOMAIN pages' = DOMAIN pages \cup {l}
      /\ \A k \in DOMAIN pages : k # l => pages'[k] = pages[k]
      /\ m.kind = "find" => pages'[l] = [cursor |-> a.cursor, at |-> a.at]
      /\ m.kind = "more" => pages'[l] = [cursor |-> a.cursor, at |-> pages[l].at]
  BY <1>3, <1>5
<1>9. l \in Shows
  <2>1. m.kind = "find" => l \in Shows
    BY <1>3 DEF Shows
  <2> QED
    BY <1>2, <1>3, <2>1 DEF PagesOK
<1>10. \A e \in shown' : EntryOK(e)' /\ e \in Entry
  <2>1. \A e \in shown' : EntryOK(e) /\ e \in Entry
    BY <1>1, <1>5, <1>7 DEF PageInv
  <2> QED
    BY <2>1, EntryStays
<1>11. \A e, f \in shown' : e.id = f.id /\ e.list = f.list => e = f
  <2>1. \A e, f \in shown : e.id = f.id /\ e.list = f.list => e = f
    BY DEF PageInv
  <2>2. \A e, f \in EntriesOf(m) : e.id = f.id => e = f
    BY <1>5 DEF AnswerOK
  <2>3. CASE m.kind = "find"
    BY <1>7, <2>1, <2>2, <2>3
  <2>4. CASE m.kind = "more"
    BY <1>7, <2>1, <2>2, <2>4
  <2> QED
    BY <2>3, <2>4
<1>12. table' # None => table' \in Ids(Tables)'
  <2> SUFFICES ASSUME table # None
               PROVE  table \in Ids(Tables)'
    OBVIOUS
  <2>1. PICK e \in shown : e.list = Tables /\ e.id = table
    BY DEF PageInv, Ids
  <2>2. Tables' = Tables /\ Tables # Candidates
    BY DEF Tables, Candidates
  <2>3. e \in shown'
    BY <1>3, <1>7, <2>1, <2>2
  <2> QED
    BY <2>1, <2>2, <2>3 DEF Ids
<1>13. ASSUME NEW k \in DOMAIN pages'
       PROVE  /\ pages'[k] \in [cursor : Key \cup {None}, at : Nat] /\ pages'[k].at <= changes'
              /\ Whole(k) => pages'[k].cursor = None
              /\ k = Candidates' /\ pages'[k].cursor # None => \E e \in shown' : e.list = k
  <2>1. Candidates' = Candidates /\ changes' = changes
    BY DEF Candidates, listVars
  <2>2. CASE k # l
    <3>1. /\ pages'[k] = pages[k] /\ k \in DOMAIN pages
          /\ pages[k] \in [cursor : Key \cup {None}, at : Nat] /\ pages[k].at <= changes
          /\ Whole(k) => pages[k].cursor = None
          /\ k = Candidates /\ pages[k].cursor # None => \E e \in shown : e.list = k
      BY <1>2, <1>8, <2>2 DEF PagesOK
    <3> QED
      BY <1>7, <2>1, <2>2, <3>1
  <2>3. CASE k = l
    <3>1. a.cursor \in Key \cup {None} /\ a.at \in Nat /\ a.at <= changes
          /\ (Whole(l) => a.cursor = None) /\ (a.cursor # None => a.entries # {})
      BY <1>4, <1>5, <1>6 DEF AnswerOK, Answer
    <3>2. m.kind = "more" => pages[l].at \in Nat /\ pages[l].at <= changes
      BY <1>2, <1>3 DEF PagesOK
    <3>3. a.cursor # None => \E e \in shown' : e.list = l
      BY <1>7, <3>1
    <3>4. CASE m.kind = "find"
      BY <1>8, <2>1, <2>3, <3>1, <3>3, <3>4
    <3>5. CASE m.kind = "more"
      BY <1>8, <2>1, <2>3, <3>1, <3>2, <3>3, <3>5
    <3> QED
      BY <3>4, <3>5
  <2> QED
    BY <2>2, <2>3
<1>14. \A k \in Own : k \in DOMAIN pages /\ pages'[k].at = pages[k].at
                      /\ (k = l => m.kind = "more")
  BY <1>2, <1>3, <1>8, OwnNames DEF PagesOK
<1>15. ASSUME NEW k \in Own, NEW r \in Steady(k, filter, pages[k].at)
       PROVE  r \in Ids(k)' \/ (pages'[k].cursor # None /\ Newer(pages'[k].cursor, KeyOf(r)))
  <2>1. r \in Ids(k) \/ (pages[k].cursor # None /\ Newer(pages[k].cursor, KeyOf(r)))
    BY <1>2 DEF PagesOK
  <2>2. CASE k # l
    <3>1. Ids(k) \subseteq Ids(k)'
      BY <1>7, <2>2 DEF Ids
    <3> QED
      BY <1>8, <1>14, <2>1, <2>2, <3>1
  <2>3. CASE k = l
    <3>1. m.kind = "more" /\ pages'[k].cursor = a.cursor /\ m.cursor = pages[k].cursor
          /\ pages[k].at <= a.at
      BY <1>3, <1>8, <1>14, <2>3
    <3>2. Ids(k) \subseteq Ids(k)'
      BY <1>7, <3>1 DEF Ids
    <3>3. ASSUME r \notin Ids(k)
          PROVE  r \in Ids(k)' \/ (a.cursor # None /\ Newer(a.cursor, KeyOf(r)))
      <4>1. Newer(m.cursor, KeyOf(r))
        BY <2>1, <3>1, <3>3
      <4>2. r \in Steady(k, filter, a.at)
        <5>1. r \in There /\ Of[r] = k /\ Matches(filter, row[r]) /\ touched[r] <= pages[k].at
          BY DEF Steady
        <5>2. touched[r] \in Nat /\ pages[k].at \in Nat /\ a.at \in Nat
          BY <1>2, <1>6, <1>14, <5>1 DEF ListsInv, ListsTypeOK, There, PagesOK, Answer
        <5>3. touched[r] <= a.at
          BY <3>1, <5>1, <5>2
        <5> QED
          BY <5>1, <5>3 DEF Steady
      <4>3. r \in IdsIn(a) \/ (a.cursor # None /\ Newer(a.cursor, KeyOf(r)))
        BY <1>4, <1>5, <2>3, <4>1, <4>2 DEF AnswerOK
      <4>4. r \in IdsIn(a) => r \in Ids(k)'
        BY <1>7, <2>3 DEF IdsIn, Ids
      <4> QED
        BY <4>3, <4>4
    <3> QED
      BY <3>1, <3>2, <3>3
  <2> QED
    BY <2>2, <2>3
<1>16. PagesOK'
  <2>1. Mounted' /\ Own' = Own /\ Shows' = Shows
    BY <1>2 DEF Mounted, Own, Shows, Tables, Seats, Candidates
  <2>2. Own' \subseteq DOMAIN pages' /\ DOMAIN pages' \subseteq Shows'
    BY <1>2, <1>8, <1>9, <2>1 DEF PagesOK
  <2>3. \A e \in shown' : e.list \in DOMAIN pages'
    BY <1>2, <1>7, <1>8 DEF PagesOK
  <2>4. \A k \in Own' : \A r \in Steady(k, filter, pages[k].at)' :
          r \in Ids(k)' \/ (pages'[k].cursor # None /\ Newer(pages'[k].cursor, KeyOf(r)'))
    <3> SUFFICES ASSUME NEW k \in Own, NEW r \in Steady(k, filter, pages[k].at)'
                 PROVE  r \in Ids(k)' \/ (pages'[k].cursor # None
                                            /\ Newer(pages'[k].cursor, KeyOf(r)'))
      BY <2>1
    <3>1. r \in Steady(k, filter, pages[k].at) /\ KeyOf(r)' = KeyOf(r)
      BY <1>14 DEF Steady, There, KeyOf, listVars
    <3> QED
      BY <1>15, <3>1
  <2> QED
    BY <1>13, <2>1, <2>2, <2>3, <2>4 DEF PagesOK, Whole
<1>17. savedAt' \in 0..changes' /\ filter' \in Filters /\ gen' \in Nat
       /\ table' \in Rows \cup {None}
  BY DEF PageInv, listVars
<1>18. loading' \in BOOLEAN
  BY DEF PageInv
<1>19. /\ section' # "planning" => filter' = "all"
       /\ section' # "seating" => table' = None
       /\ Mounted'
  BY <1>2 DEF PageInv, Mounted
<1>20. PageInv'
  BY <1>10, <1>11, <1>12, <1>16, <1>17, <1>18, <1>19 DEF PageInv
<1> QED
  BY <1>14, <1>16, <1>20

LEMMA DeliverMoreKeepsPanel ==
  ASSUME ListsInv, ScopeInv, PageInv, SavedInv, NetInv, NEW m \in net,
         Arrived(m), DeliverMore(m), UNCHANGED <<listVars, scopeVars, seat>>
  PROVE  PageInv' /\ SavedInv' /\ NetInv'
<1>1. /\ m.kind \in {"more", "find"} /\ net' = net \ {m}
      /\ UNCHANGED <<section, selected, filter, gen, loading, table, savedAt>>
  BY DEF DeliverMore, scopeVars
<1>2. busy' = (busy /\ ~Current(m))
  BY DEF DeliverMore
<1>3. ListsGoOn
  BY StillGoesOn
<1>4. RequestOK(m) /\ (Wanted(m) => WantedOK(m)) /\ m.kind \in Reads
  BY <1>1 DEF NetInv, Reads
<1>5. loading' \in BOOLEAN /\ busy' \in BOOLEAN
  BY <1>1, <1>2 DEF PageInv
<1>6. Current(m) => Clears(m)
  BY <1>1 DEF Current, Clears
<1>7. busy' = busy \/ Clears(m)
  BY <1>2, <1>5, <1>6 DEF PageInv
<1>8. CASE ~(Current(m) /\ m.reply # NoAnswer)
  <2>1. failed' = (failed \/ Current(m)) /\ UNCHANGED <<shown, pages>>
    BY <1>8 DEF DeliverMore
  <2>2. failed' \in BOOLEAN /\ (failed => failed')
    BY <2>1 DEF PageInv
  <2> QED
    BY <1>1, <1>3, <1>5, <1>7, <2>1, <2>2, OneLessKeepsPanel
<1>9. CASE Current(m) /\ m.reply # NoAnswer
  <2>1. /\ shown' = Appended(m)
        /\ pages' = [l \in DOMAIN pages \cup m.lists |->
                       IF l \notin m.lists THEN pages[l]
                       ELSE IF m.cursor = None THEN PageRead(m, l)
                       ELSE [PageRead(m, l) EXCEPT !.at = pages[l].at]]
        /\ UNCHANGED failed
    BY <1>9 DEF DeliverMore
  <2>2. Wanted(m) /\ WantedOK(m)
    BY <1>4, <1>9 DEF Wanted, Current
  <2>3. failed' \in BOOLEAN
    BY <2>1 DEF PageInv
  <2>4. PageInv' /\ PagesOK' /\ \A k \in Own : pages'[k].at = pages[k].at
    BY <1>1, <1>4, <1>5, <1>9, <2>1, <2>2, <2>3, MoreIsGood
  <2>5. PagesOK /\ (section # "seating" => pages # None)
    BY <1>1, <2>2 DEF WantedOK, MoreOK
  <2>6. SavedInv'
    <3>1. Saving => Saving'
      BY <1>1 DEF Saving
    <3>2. Own' = Own /\ Mounted
      BY <1>1, <2>5 DEF Own, PagesOK
    <3> QED
      BY <1>1, <2>1, <2>4, <3>1, <3>2 DEF SavedInv
  <2>7. \A n \in net' : ~Clears(n)
    BY <1>1, <1>6, <1>9 DEF NetInv, OneAtATime
  <2>8. ASSUME NEW n \in net'
        PROVE  RequestOK(n)' /\ (Wanted(n)' => WantedOK(n)')
    <3>1. RequestOK(n) /\ (Wanted(n) => WantedOK(n)) /\ n \in Request
      BY <1>1 DEF NetInv, RequestOK
    <3>2. RequestOK(n)'
      <4>1. gen \in Nat /\ changes \in Nat /\ changes' \in Nat /\ changes <= changes' /\ gen <= gen'
        BY <1>1, <1>3 DEF PageInv, ListsGoOn, ListsInv, ListsTypeOK
      <4> QED
        BY <1>1, <3>1, <4>1, RequestStays
    <3>3. ASSUME Wanted(n)'
          PROVE  WantedOK(n)'
      <4>1. Wanted(n) /\ WantedOK(n)
        BY <1>1, <3>1, <3>3 DEF Wanted
      <4>2. Loads(n) /\ ~n.holds
        BY <2>7, <4>1 DEF Clears, Wanted, Reads, Loads
      <4>3. section = "seating"
        BY <2>5, <4>1, <4>2 DEF WantedOK, LoadOK
      <4>4. LoadOK(n)'
        BY <1>1, <4>1, <4>3 DEF WantedOK, LoadOK, Loads, Tables, Seats, IdsIn
      <4>5. MoreOK(n)'
        BY <4>2 DEF MoreOK, Loads
      <4>6. \A a \in n.read : AnswerOK(n, a)'
        <5>1. \A a \in n.read : a.at \in Nat
          BY <3>1 DEF Request, Answer
        <5> QED
          BY <1>1, <1>3, <4>1, <5>1, AnswerStays DEF WantedOK
      <4> QED
        BY <1>1, <4>1, <4>4, <4>5, <4>6 DEF WantedOK
    <3> QED
      BY <3>2, <3>3
  <2>9. OneAtATime'
    BY <1>1, <1>7, OneLessIsAlone DEF NetInv
  <2> QED
    BY <2>4, <2>6, <2>8, <2>9 DEF NetInv
<1> QED
  BY <1>8, <1>9

-----------------------------------------------------------------------------
\* The lists the panel asked for replace what it shows.

\* Guests found for the seating panel are on no list it loads.
LEMMA FoundOnSeating ==
  ASSUME PageInv, NEW e \in Found
  PROVE  e \in shown /\ e.list = Candidates /\ section = "seating" /\ PagesOK
<1>1. e \in shown /\ e.list[2] = "guests" /\ EntryOK(e) /\ PagesOK
  BY DEF Found, PageInv
<1>2. e.list \notin Own
  BY <1>1, OwnNames DEF PagesOK
<1>3. e.list \in {Seats, Candidates} /\ section = "seating"
  BY <1>1, <1>2 DEF EntryOK
<1>4. e.list # Seats
  BY <1>1 DEF Seats
<1> QED
  BY <1>1, <1>3, <1>4

LEMMA LoadIsTaken ==
  ASSUME ListsInv, ScopeInv, PageInv, NEW m, RequestOK(m), WantedOK(m), Wanted(m), Loads(m),
         Complete(m), Arrived(m), m.reply # NoAnswer,
         shown' = EntriesOf(m) \cup Found,
         pages' = [l \in m.lists \cup {e.list : e \in Found} |->
                     IF l \in m.lists THEN PageRead(m, l) ELSE pages[l]],
         table' = IF m.kind = "load" THEN m.pick ELSE None,
         UNCHANGED <<section, selected, filter, gen, savedAt>>,
         UNCHANGED <<listVars, seat>>,
         loading' \in BOOLEAN, busy' \in BOOLEAN, failed' \in BOOLEAN
  PROVE  PageInv' /\ PagesOK' /\ \A k \in Own : savedAt <= pages'[k].at
<1>1. m \in Request /\ ListsRead(m) = m.lists /\ EntriesOf(m) \subseteq Entry
  BY ReadInFull DEF Reads, Loads
<1>2. /\ \A a \in m.read : AnswerOK(m, a)
      /\ \A l \in m.lists : \E a \in m.read : a.list = l
      /\ \A l \in m.lists, a \in m.read :
           a.list = l => PageRead(m, l) = [cursor |-> a.cursor, at |-> a.at]
      /\ \A e \in EntriesOf(m) :
           EntryOK(e) /\ \E a \in m.read : a.list = e.list /\ e \in a.entries
  BY ReadInFull DEF Reads, Loads
<1>3. \A a, b \in m.read : a.list = b.list => a = b
  BY DEF WantedOK
<1>4. Mounted /\ m.cursor = None /\ LoadOK(m)
  BY DEF RequestOK, WantedOK, LoadOK, Loads
<1>5. /\ m.lists \subseteq Shows /\ Own \subseteq m.lists /\ Candidates \notin m.lists
      /\ section # "seating" => m.kind = "load" /\ m.pick = None
  <2>1. m.lists \subseteq Shows
    BY <1>4, WantedLists
  <2>2. CASE section = "seating"
    <3>1. Own = {Tables}
      BY <2>2 DEF Own, Parts, Tables
    <3>2. m.lists = {Tables} \/ m.lists = {Tables, Seats}
      BY <1>4, <2>2 DEF LoadOK, Loads
    <3>3. Candidates # Tables /\ Candidates # Seats
      BY DEF Candidates, Tables, Seats
    <3> QED
      BY <2>1, <2>2, <3>1, <3>2, <3>3
  <2>3. CASE section # "seating"
    <3>1. m.lists = Own /\ m.kind = "load" /\ m.pick = None
      BY <1>4, <2>3 DEF LoadOK
    <3> QED
      BY <1>4, <2>1, <3>1, OwnNames
  <2> QED
    BY <2>2, <2>3
<1>6. \A e \in Found : e \in shown /\ e.list = Candidates /\ section = "seating" /\ PagesOK
  BY FoundOnSeating
<1>7. \A e \in EntriesOf(m) : e.list \in m.lists
  BY <1>2 DEF AnswerOK
<1>8. \A e \in shown' : EntryOK(e)' /\ e \in Entry
  <2>1. \A e \in shown' : EntryOK(e) /\ e \in Entry
    BY <1>1, <1>2, <1>6 DEF PageInv
  <2> QED
    BY <2>1, EntryStays
<1>9. \A e, f \in shown' : e.id = f.id /\ e.list = f.list => e = f
  <2>1. ASSUME NEW e \in EntriesOf(m), NEW f \in EntriesOf(m), e.id = f.id, e.list = f.list
        PROVE  e = f
    <3>1. PICK a \in m.read : a.list = e.list /\ e \in a.entries
      BY <1>2
    <3>2. PICK b \in m.read : b.list = f.list /\ f \in b.entries
      BY <1>2
    <3>3. a = b
      BY <1>3, <2>1, <3>1, <3>2
    <3> QED
      BY <1>2, <2>1, <3>1, <3>2, <3>3 DEF AnswerOK
  <2>2. \A e, f \in Found : e.id = f.id /\ e.list = f.list => e = f
    BY <1>6 DEF PageInv
  <2>3. \A e \in EntriesOf(m), f \in Found : e.list # f.list
    BY <1>5, <1>6, <1>7
  <2> QED
    BY <2>1, <2>2, <2>3
<1>10. /\ DOMAIN pages' = m.lists \cup {e.list : e \in Found}
       /\ \A k \in m.lists : pages'[k] = PageRead(m, k)
       /\ \A k \in DOMAIN pages' : k \notin m.lists =>
            /\ k = Candidates /\ section = "seating" /\ PagesOK
            /\ \E e \in Found : e.list = k
            /\ k \in DOMAIN pages /\ pages'[k] = pages[k]
  <2>1. \A e \in Found : e.list \in DOMAIN pages
    BY <1>6 DEF PagesOK
  <2> QED
    BY <1>6, <2>1
<1>11. ASSUME NEW k \in m.lists
       PROVE  \E a \in m.read : /\ a.list = k /\ pages'[k] = [cursor |-> a.cursor, at |-> a.at]
                                /\ a \in Answer /\ AnswerOK(m, a)
                                /\ \A e \in a.entries : e \in EntriesOf(m)
  <2>1. PICK a \in m.read : a.list = k
    BY <1>2
  <2>2. a \in Answer /\ \A e \in a.entries : e \in EntriesOf(m)
    BY <1>1 DEF Request, EntriesOf
  <2>3. AnswerOK(m, a) /\ PageRead(m, k) = [cursor |-> a.cursor, at |-> a.at]
    BY <1>2, <2>1
  <2>4. pages'[k] = PageRead(m, k)
    BY <1>10
  <2> QED
    BY <2>1, <2>2, <2>3, <2>4
<1>12. /\ table' \in Rows \cup {None} /\ (section # "seating" => table' = None)
       /\ table' # None => table' \in Ids(Tables)'
  <2>1. CASE section # "seating"
    BY <1>5, <2>1
  <2>2. CASE section = "seating" /\ m.kind # "load"
    BY <2>2
  <2>3. CASE section = "seating" /\ m.kind = "load"
    <3>1. PICK a \in m.read : a.list = Tables /\ m.pick \in IdsIn(a)
      BY <1>4, <2>3 DEF LoadOK, Loads
    <3>2. PICK e \in a.entries : e.id = m.pick
      BY <3>1 DEF IdsIn
    <3>3. e \in EntriesOf(m) /\ e.list = Tables /\ e \in shown'
      BY <1>2, <3>1, <3>2 DEF EntriesOf, AnswerOK
    <3>4. Tables' = Tables
      BY DEF Tables
    <3>5. m.pick \in Rows
      BY <1>1, <3>2, <3>3 DEF Entry
    <3> QED
      BY <2>3, <3>2, <3>3, <3>4, <3>5 DEF Ids
  <2> QED
    BY <2>1, <2>2, <2>3
<1>13. ASSUME NEW k \in DOMAIN pages'
       PROVE  /\ pages'[k] \in [cursor : Key \cup {None}, at : Nat] /\ pages'[k].at <= changes'
              /\ Whole(k) => pages'[k].cursor = None
              /\ k = Candidates' /\ pages'[k].cursor # None => \E e \in shown' : e.list = k
  <2>1. Candidates' = Candidates /\ changes' = changes
    BY DEF Candidates, listVars
  <2>2. CASE k \in m.lists
    <3>1. PICK a \in Answer : /\ pages'[k] = [cursor |-> a.cursor, at |-> a.at]
                              /\ a.list = k /\ AnswerOK(m, a)
      BY <1>11, <2>2
    <3>2. a.cursor \in Key \cup {None} /\ a.at \in Nat /\ a.at <= changes
          /\ (Whole(k) => a.cursor = None)
      BY <3>1 DEF AnswerOK, Answer
    <3> QED
      BY <1>5, <2>1, <2>2, <3>1, <3>2
  <2>3. CASE k \notin m.lists
    <3>1. /\ PagesOK /\ k \in DOMAIN pages /\ pages'[k] = pages[k]
          /\ \E e \in shown' : e.list = k
      BY <1>10, <2>3
    <3> QED
      BY <2>1, <3>1 DEF PagesOK
  <2> QED
    BY <2>2, <2>3
<1>14. ASSUME NEW k \in Own
       PROVE  /\ savedAt <= pages'[k].at
              /\ \A r \in Steady(k, filter, pages'[k].at) :
                   r \in Ids(k)' \/ (pages'[k].cursor # None /\ Newer(pages'[k].cursor, KeyOf(r)))
  <2>1. k \in m.lists
    BY <1>5
  <2>2. PICK a \in m.read : /\ a.list = k /\ pages'[k] = [cursor |-> a.cursor, at |-> a.at]
                            /\ a \in Answer /\ AnswerOK(m, a)
                            /\ \A e \in a.entries : e \in EntriesOf(m)
    BY <1>11, <2>1
  <2>3. pages'[k].at = a.at /\ pages'[k].cursor = a.cursor
    BY <2>2
  <2>4. savedAt <= pages'[k].at
    BY <2>2, <2>3 DEF AnswerOK
  <2>5. ASSUME NEW r \in Steady(k, filter, a.at)
        PROVE  r \in Ids(k)' \/ (a.cursor # None /\ Newer(a.cursor, KeyOf(r)))
    <3>1. r \in IdsIn(a) \/ (a.cursor # None /\ Newer(a.cursor, KeyOf(r)))
      BY <1>4, <2>2 DEF AnswerOK
    <3>2. ASSUME r \in IdsIn(a)
          PROVE  r \in Ids(k)'
      <4>1. PICK e \in a.entries : e.id = r
        BY <3>2 DEF IdsIn
      <4>2. e.list = k /\ e \in shown'
        BY <2>2, <4>1 DEF AnswerOK
      <4> QED
        BY <4>1, <4>2 DEF Ids
    <3> QED
      BY <3>1, <3>2
  <2> QED
    BY <2>3, <2>4, <2>5
<1>15. PagesOK'
  <2>1. Mounted' /\ Own' = Own /\ Shows' = Shows
    BY <1>4 DEF Mounted, Own, Shows, Tables, Seats, Candidates
  <2>2. Own' \subseteq DOMAIN pages' /\ DOMAIN pages' \subseteq Shows'
    BY <1>5, <1>10, <2>1 DEF Shows
  <2>3. \A e \in shown' : e.list \in DOMAIN pages'
    BY <1>7, <1>10
  <2>4. \A k \in Own' : \A r \in Steady(k, filter, pages[k].at)' :
          r \in Ids(k)' \/ (pages'[k].cursor # None /\ Newer(pages'[k].cursor, KeyOf(r)'))
    <3> SUFFICES ASSUME NEW k \in Own, NEW r \in Steady(k, filter, pages[k].at)'
                 PROVE  r \in Ids(k)' \/ (pages'[k].cursor # None
                                            /\ Newer(pages'[k].cursor, KeyOf(r)'))
      BY <2>1
    <3>1. PICK v : v = pages'[k].at
      OBVIOUS
    <3>2. r \in Steady(k, filter, v) /\ KeyOf(r)' = KeyOf(r)
      BY <3>1 DEF Steady, There, KeyOf, listVars
    <3> QED
      BY <1>14, <3>1, <3>2
  <2> QED
    BY <1>13, <2>1, <2>2, <2>3, <2>4 DEF PagesOK, Whole
<1>16. savedAt' \in 0..changes' /\ filter' \in Filters /\ gen' \in Nat
       /\ (section' # "planning" => filter' = "all")
  BY DEF PageInv, listVars
<1>17. Mounted'
  BY <1>4 DEF Mounted
<1>18. PageInv'
  BY <1>8, <1>9, <1>12, <1>15, <1>16, <1>17 DEF PageInv
<1> QED
  BY <1>14, <1>15, <1>18

LEMMA DeliverLoadKeepsPanel ==
  ASSUME ListsInv, ScopeInv, PageInv, SavedInv, NetInv, NEW m \in net,
         Arrived(m), DeliverLoad(m), UNCHANGED <<listVars, scopeVars, seat>>
  PROVE  PageInv' /\ SavedInv' /\ NetInv'
<1>1. /\ Loads(m) /\ Complete(m) /\ net' = net \ {m}
      /\ UNCHANGED <<section, selected, filter, gen, savedAt>>
  BY DEF DeliverLoad, Complete, Loads, scopeVars
<1>2. busy' = (busy /\ ~m.holds) /\ loading' = (loading /\ ~Current(m))
  BY DEF DeliverLoad
<1>3. ListsGoOn
  BY StillGoesOn
<1>4. RequestOK(m) /\ (Wanted(m) => WantedOK(m)) /\ m.kind \in Reads /\ m.kind # "save"
  BY <1>1 DEF NetInv, Reads, Loads
<1>5. loading' \in BOOLEAN /\ busy' \in BOOLEAN
  BY <1>2 DEF PageInv
<1>6. busy' = busy \/ Clears(m)
  BY <1>1, <1>2, <1>5 DEF PageInv, Clears
<1>7. CASE ~(Current(m) /\ m.reply # NoAnswer)
  <2>1. failed' = (failed \/ Current(m)) /\ UNCHANGED <<shown, pages, table>>
    BY <1>7 DEF DeliverLoad
  <2>2. failed' \in BOOLEAN /\ (failed => failed') /\ (loading => loading' \/ failed')
    BY <1>2, <2>1 DEF PageInv
  <2> QED
    BY <1>1, <1>3, <1>4, <1>5, <1>6, <2>1, <2>2, OneLessKeepsPanel
<1>8. CASE Current(m) /\ m.reply # NoAnswer
  <2>1. /\ shown' = EntriesOf(m) \cup Found
        /\ pages' = [l \in m.lists \cup {e.list : e \in Found} |->
                       IF l \in m.lists THEN PageRead(m, l) ELSE pages[l]]
        /\ table' = (IF m.kind = "load" THEN m.pick ELSE None)
        /\ failed' = FALSE
    BY <1>8 DEF DeliverLoad
  <2>2. Wanted(m) /\ WantedOK(m) /\ failed' \in BOOLEAN
    BY <1>4, <1>8, <2>1 DEF Wanted, Current
  <2>3. PageInv' /\ PagesOK' /\ \A k \in Own : savedAt <= pages'[k].at
    BY <1>1, <1>4, <1>5, <1>8, <2>1, <2>2, LoadIsTaken
  <2>4. SavedInv'
    <3>1. Own' = Own
      BY <1>1 DEF Own
    <3> QED
      BY <1>1, <2>3, <3>1 DEF SavedInv
  <2>5. ASSUME NEW n \in net'
        PROVE  RequestOK(n)' /\ (Wanted(n)' => WantedOK(n)')
    <3>1. RequestOK(n) /\ (Wanted(n) => WantedOK(n)) /\ n \in Request
      BY <1>1 DEF NetInv, RequestOK
    <3>2. RequestOK(n)'
      <4>1. gen \in Nat /\ changes \in Nat /\ changes' \in Nat /\ changes <= changes' /\ gen <= gen'
        BY <1>1, <1>3 DEF PageInv, ListsGoOn, ListsInv, ListsTypeOK
      <4> QED
        BY <1>1, <3>1, <4>1, RequestStays
    <3>3. ASSUME Wanted(n)'
          PROVE  WantedOK(n)'
      <4>1. Wanted(n) /\ WantedOK(n)
        BY <1>1, <3>1, <3>3 DEF Wanted
      <4>2. ~Loads(n)
        BY <1>1, <2>2, <4>1 DEF NetInv, OneAtATime
      <4>3. n.kind \in {"more", "find"} /\ Clears(n)
        BY <4>1, <4>2 DEF Wanted, Reads, Loads, Clears
      <4>4. ~m.holds
        BY <1>1, <4>3 DEF NetInv, OneAtATime, Clears
      <4>5. section = "seating"
        <5>1. section # "seating" => pages = None
          BY <1>1, <2>2, <4>4 DEF WantedOK, LoadOK
        <5> QED
          BY <4>1, <4>3, <5>1 DEF WantedOK, MoreOK
      <4>6. ASSUME n.kind = "more"
            PROVE  \E l \in DOMAIN pages' :
                     /\ n.lists = {l} /\ pages'[l].cursor = n.cursor
                     /\ \A a \in n.read : pages'[l].at <= a.at
        <5>1. PICK l \in DOMAIN pages :
                /\ n.lists = {l} /\ pages[l].cursor = n.cursor /\ n.cursor # None
                /\ \A a \in n.read : pages[l].at <= a.at
          BY <4>1, <4>6 DEF WantedOK, MoreOK
        <5>2. PagesOK
          BY <4>1, <4>3 DEF WantedOK, MoreOK
        <5>3. l = Candidates
          <6>1. l \in Shows /\ ~Whole(l)
            BY <5>1, <5>2 DEF PagesOK
          <6> QED
            BY <4>5, <6>1 DEF Shows, Whole, Tables, Seats
        <5>4. PICK e \in shown : e.list = l
          BY <5>1, <5>2, <5>3 DEF PagesOK
        <5>5. e \in Found /\ l \notin m.lists
          <6>1. e \in Found
            BY <5>3, <5>4 DEF Found, Candidates
          <6>2. m.lists \subseteq {Tables, Seats}
            BY <1>1, <2>2, <4>5 DEF WantedOK, LoadOK, Loads
          <6>3. Candidates # Tables /\ Candidates # Seats
            BY DEF Candidates, Tables, Seats
          <6> QED
            BY <5>3, <6>1, <6>2, <6>3
        <5>6. l \in DOMAIN pages' /\ pages'[l] = pages[l]
          BY <2>1, <5>4, <5>5
        <5> QED
          BY <5>1, <5>6
      <4>7. MoreOK(n)'
        <5>1. Candidates' = Candidates
          BY <1>1 DEF Candidates
        <5>2. n.kind = "find" => n.lists = {Candidates} /\ n.cursor = None
          BY <4>1 DEF WantedOK, MoreOK
        <5>3. n.kind = "more" => n.cursor # None
          BY <4>1 DEF WantedOK, MoreOK
        <5> QED
          BY <1>1, <2>3, <4>5, <4>6, <5>1, <5>2, <5>3 DEF MoreOK
      <4>8. LoadOK(n)'
        BY <4>2 DEF LoadOK, Loads
      <4>9. \A a \in n.read : AnswerOK(n, a)'
        <5>1. \A a \in n.read : a.at \in Nat
          BY <3>1 DEF Request, Answer
        <5> QED
          BY <1>1, <1>3, <4>1, <5>1, AnswerStays DEF WantedOK
      <4> QED
        BY <1>1, <4>1, <4>7, <4>8, <4>9 DEF WantedOK
    <3> QED
      BY <3>2, <3>3
  <2>6. OneAtATime'
    BY <1>1, <1>6, OneLessIsAlone DEF NetInv
  <2> QED
    BY <2>3, <2>4, <2>5, <2>6 DEF NetInv
<1> QED
  BY <1>7, <1>8

\* Every step of the panel.
LEMMA PanelStepKeepsPanel ==
  ASSUME ListsInv, ScopeInv, PageInv, SavedInv, NetInv, PanelStep \/ SeatingStep, UNCHANGED menu
  PROVE  /\ PageInv' /\ SavedInv' /\ NetInv' /\ ScopeInv' /\ ListsGoOn
         /\ UNCHANGED <<selected, section, scope, creating>>
<1>1. CASE ChooseFilter
  BY <1>1, ChooseFilterKeepsPanel
<1>2. CASE Save
  BY <1>2, SaveKeepsPanel
<1>3. CASE More
  BY <1>3, MoreKeepsPanel
<1>4. CASE SwitchTable
  BY <1>4, SwitchTableKeepsPanel
<1>5. CASE SeatingClick
  BY <1>5, SeatingClickKeepsPanel
<1>6. ASSUME NEW m \in net, Serve(m)
      PROVE  /\ PageInv' /\ SavedInv' /\ NetInv' /\ ScopeInv' /\ ListsGoOn
             /\ UNCHANGED <<selected, section, scope, creating>>
  <2>1. UNCHANGED scopeVars
    BY <1>6 DEF Serve, scopeVars
  <2>2. ScopeInv' /\ UNCHANGED <<selected, section, scope, creating>>
    BY <2>1, ScopeStays DEF scopeVars
  <2> QED
    BY <1>6, <2>2, ServeKeepsPanel
<1>7. ASSUME NEW m \in net, Arrived(m), UNCHANGED <<listVars, scopeVars, seat>>,
             DeliverLoad(m) \/ DeliverMore(m) \/ DeliverSave(m) \/ DropLate(m) \/ DeliverTables(m)
      PROVE  /\ PageInv' /\ SavedInv' /\ NetInv' /\ ScopeInv' /\ ListsGoOn
             /\ UNCHANGED <<selected, section, scope, creating>>
  <2>1. ListsGoOn /\ ScopeInv' /\ UNCHANGED <<selected, section, scope, creating>>
    BY <1>7, StillGoesOn, ScopeStays DEF scopeVars
  <2>2. PageInv' /\ SavedInv' /\ NetInv'
    BY <1>7, DeliverLoadKeepsPanel, DeliverMoreKeepsPanel, DeliverSaveKeepsPanel,
       DropLateKeepsPanel, DeliverTablesKeepsPanel
  <2> QED
    BY <2>1, <2>2
<1> QED
  BY <1>1, <1>2, <1>3, <1>4, <1>5, <1>6, <1>7 DEF PanelStep, SeatingStep, Deliver

-----------------------------------------------------------------------------
\* Another section, or another wedding, is shown.

LEMMA LateIsGood ==
  ASSUME ListsInv, PageInv, NetInv, gen' = gen + 1, UNCHANGED changes, NEW n \in Late
  PROVE  /\ RequestOK(n)' /\ n.kind = "late" /\ ~Wanted(n)' /\ ~Clears(n)' /\ ~Loads(n)
<1>1. PICK m \in net : m.kind \in {"save", "late"} /\ n = [m EXCEPT !.kind = "late"]
  BY DEF Late
<1>2. RequestOK(m) /\ m \in Request /\ m.gen \in Nat /\ m.gen <= gen /\ gen \in Nat
  BY DEF NetInv, RequestOK, Request, PageInv
<1>3. /\ n \in Request /\ n.kind = "late" /\ n.gen = m.gen /\ n.reply = m.reply
      /\ n.change = m.change /\ n.pick = m.pick
  <2>1. "late" \in Kinds
    BY DEF Kinds
  <2> QED
    BY <1>1, <1>2, <2>1 DEF Request
<1>4. n.gen <= gen'
  BY <1>2, <1>3
<1>5. RequestOK(n)'
  BY <1>1, <1>2, <1>3, <1>4 DEF RequestOK, Together, Reads
<1> QED
  BY <1>3, <1>5 DEF Wanted, Reads, Clears, Loads

LEMMA MountIsGood ==
  ASSUME ListsInv, ScopeInv, PageInv, NetInv, NEW s \in Sections, Mount(s),
         section' = s, s \in Panels => selected' = selected, UNCHANGED <<listVars, seat>>
  PROVE  PageInv' /\ SavedInv' /\ NetInv'
<1>1. /\ filter' = "all" /\ gen' = gen + 1 /\ busy' = FALSE
      /\ shown' = {} /\ pages' = None /\ table' = None /\ failed' = FALSE /\ savedAt' = 0
      /\ loading' = (s \in Panels)
      /\ UNCHANGED changes
  BY DEF Mount, listVars
<1>2. gen \in Nat /\ gen' \in Nat /\ changes' \in Nat
  BY <1>1 DEF PageInv, ListsInv, ListsTypeOK
<1>3. PageInv'
  <2>1. loading' \in BOOLEAN /\ busy' \in BOOLEAN /\ failed' \in BOOLEAN
    <3>1. busy' \in BOOLEAN /\ failed' \in BOOLEAN
      BY <1>1
    <3>2. loading' \in BOOLEAN
      BY DEF Mount
    <3> QED
      BY <3>1, <3>2
  <2>2. savedAt' \in 0..changes' /\ filter' \in Filters
    <3>1. savedAt' = 0 /\ filter' = "all"
      BY <1>1
    <3> QED
      BY <1>2, <3>1 DEF Filters
  <2>3. shown' = {} /\ pages' = None /\ table' = None /\ filter' = "all"
    BY <1>1
  <2> QED
    BY <1>2, <2>1, <2>2, <2>3 DEF PageInv
<1>4. SavedInv'
  BY <1>1 DEF SavedInv, Mounted
<1>5. \A n \in Late : RequestOK(n)' /\ ~Wanted(n)' /\ ~Clears(n)' /\ ~Loads(n)
  BY <1>1, LateIsGood
<1>6. CASE s \notin Panels
  <2>1. net' = Late
    BY <1>6 DEF Mount
  <2> QED
    BY <1>3, <1>4, <1>5, <2>1 DEF NetInv, OneAtATime
<1>7. CASE s \in Panels
  <2> PICK holds \in BOOLEAN : ~holds /\ holds = FALSE
    OBVIOUS
  <2>1. PICK n : n = Load(s, "all", None, holds) /\ n = Load(s, "all", None, FALSE)
    OBVIOUS
  <2>2. net' = Late \cup {n}
    BY <1>7, <2>1 DEF Mount
  <2>3. /\ n \in Request /\ n.gen = gen + 1 /\ n.filter = "all" /\ n.pick = None
        /\ n.holds = holds /\ n.cursor = None /\ n.read = {} /\ n.reply = None
        /\ n.kind = (IF s = "seating" THEN "tables" ELSE "load")
        /\ n.lists = {selected} \X Parts(s) /\ Loads(n)
    <3>1. "all" \in Filters /\ None \in Rows \cup {None}
      BY DEF Filters
    <3> QED
      BY <1>7, <2>1, <3>1, LoadIsARequest
  <2>4. RequestOK(n)' /\ WantedOK(n)'
    BY <1>1, <1>7, <2>3, LoadIsGood
  <2>5. ~Clears(n)'
    BY <2>3 DEF Clears, Loads
  <2>6. OneAtATime'
    BY <1>5, <2>2, <2>5 DEF OneAtATime
  <2> QED
    BY <1>3, <1>4, <1>5, <2>2, <2>4, <2>6 DEF NetInv
<1> QED
  BY <1>6, <1>7

\* The panel of the section is replaced, and the guests of the page too.
LEMMA ChangeSectionKeepsAll ==
  ASSUME IInv, ChangeSection
  PROVE  IInv'
<1>1. PICK s \in Sections : section' = s /\ Mount(s)
  BY DEF ChangeSection
<1>2. UNCHANGED <<listVars, seat>> /\ UNCHANGED <<selected, scope, creating>> /\ UNCHANGED menuVars
  BY DEF ChangeSection
<1>3. ListsInv'
  BY <1>2, StillGoesOn DEF IInv, ListsGoOn
<1>4. ScopeInv'
  BY ChangeSectionKeepsScope DEF IInv
<1>5. PageInv' /\ SavedInv' /\ NetInv'
  BY <1>1, <1>2, MountIsGood DEF IInv
<1>6. MenuInv'
  BY <1>2, MenuStays DEF IInv
<1>7. GuestInv'
  <2>1. EnterGuests \/ LeaveGuests \/ UNCHANGED guestVars
    BY DEF ChangeSection
  <2>2. CASE EnterGuests
    BY <1>2, <2>2, LoadGuestsKeepsGuests DEF EnterGuests, IInv
  <2>3. CASE LeaveGuests
    BY <1>2, <2>3, LeaveKeepsGuests DEF IInv
  <2>4. CASE UNCHANGED guestVars
    BY <1>2, <2>4, GuestsStay DEF IInv
  <2> QED
    BY <2>1, <2>2, <2>3, <2>4
<1> QED
  BY <1>3, <1>4, <1>5, <1>6, <1>7 DEF IInv

LEMMA ChooseWeddingKeepsAll ==
  ASSUME IInv, ChooseWedding
  PROVE  IInv'
<1>1. Mount("overview") /\ section' = "overview" /\ ForgetGuests /\ scope' = scope + 1
  BY DEF ChooseWedding
<1>2. UNCHANGED <<listVars, seat>> /\ UNCHANGED creating /\ UNCHANGED menuVars
  BY DEF ChooseWedding
<1>3. ListsInv'
  BY <1>2, StillGoesOn DEF IInv, ListsGoOn
<1>4. ScopeInv'
  BY ChooseWeddingKeepsScope DEF IInv
<1>5. "overview" \in Sections /\ "overview" \notin Panels
  BY DEF Sections, Panels
<1>6. PageInv' /\ SavedInv' /\ NetInv'
  BY <1>1, <1>2, <1>5, MountIsGood DEF IInv
<1>7. MenuInv'
  BY <1>2, MenuStays DEF IInv
<1>8. GuestInv'
  BY <1>1, ForgetKeepsGuests DEF IInv
<1> QED
  BY <1>3, <1>4, <1>6, <1>7, <1>8 DEF IInv

LEMMA MenuStepKeepsAll ==
  ASSUME IInv, MenuStep
  PROVE  IInv'
<1>1. ASSUME ScopeInv', MenuInv', ListsGoOn, UNCHANGED <<panelVars, guestVars>>,
             UNCHANGED <<section, selected, scope>>
      PROVE  IInv'
  <2>1. PageInv' /\ SavedInv' /\ NetInv'
    BY <1>1, PanelStays DEF IInv
  <2>2. GuestInv'
    BY <1>1, GuestsStay DEF IInv
  <2> QED
    BY <1>1, <2>1, <2>2 DEF IInv, ListsGoOn
<1>2. CASE /\ \/ MoreWeddings \/ CreateWedding
              \/ \E m \in menuNet : m.reply # None /\ (DeliverWeddings(m) \/ DeliverRefusal(m))
           /\ UNCHANGED <<listVars, seat, panelVars, guestVars>>
  <2>1. ScopeInv' /\ MenuInv'
    BY <1>2, MoreWeddingsKeepsMenu, CreateWeddingKeepsMenu, DeliverWeddingsKeepsMenu,
       DeliverRefusalKeepsMenu DEF IInv
  <2>2. UNCHANGED <<section, selected, scope>>
    BY <1>2 DEF MoreWeddings, CreateWedding, DeliverWeddings, DeliverRefusal
  <2>3. ListsGoOn
    BY <1>2, StillGoesOn DEF IInv
  <2> QED
    BY <1>1, <1>2, <2>1, <2>2, <2>3
<1>3. ASSUME NEW m \in menuNet, ServeMenu(m), UNCHANGED <<seat, panelVars, guestVars>>
      PROVE  IInv'
  <2>1. ScopeInv' /\ MenuInv' /\ ListsGoOn
    BY <1>3, ServeMenuKeepsMenu DEF IInv
  <2>2. UNCHANGED <<section, selected, scope>>
    BY <1>3 DEF ServeMenu, scopeVars
  <2> QED
    BY <1>1, <1>3, <2>1, <2>2
<1>4. ASSUME NEW m \in menuNet, DeliverCreated(m), Mount("overview"), ForgetGuests,
             UNCHANGED <<listVars, seat>>
      PROVE  IInv'
  <2>1. ScopeInv' /\ MenuInv'
    BY <1>4, DeliverCreatedKeepsMenu DEF IInv
  <2>2. section' = "overview" /\ scope' = scope + 1
    BY <1>4 DEF DeliverCreated
  <2>3. "overview" \in Sections /\ "overview" \notin Panels
    BY DEF Sections, Panels
  <2>4. PageInv' /\ SavedInv' /\ NetInv'
    BY <1>4, <2>2, <2>3, MountIsGood DEF IInv
  <2>5. GuestInv'
    BY <1>4, <2>2, ForgetKeepsGuests DEF IInv
  <2>6. ListsInv'
    BY <1>4, StillGoesOn DEF IInv, ListsGoOn
  <2> QED
    BY <2>1, <2>4, <2>5, <2>6 DEF IInv
<1> QED
  BY <1>2, <1>3, <1>4 DEF MenuStep

-----------------------------------------------------------------------------
\* The page is opened.

\* The newest wedding is on the first page of the menu.
LEMMA FirstIsOnTheMenu ==
  ASSUME ListsTypeOK, row \in FirstRows
  PROVE  First \in FirstMenu /\ FirstMenu \subseteq Weddings
<1> DEFINE rows == Behind(Memberships, "all", None)
<1>1. First \in Rows /\ Of[First] = Memberships /\ row[First] \in Row
  BY DeskAssumption
<1>2. First \in There
  BY <1>1, NoRowAssumption DEF There, Row
<1>3. First \in rows
  BY <1>1, <1>2 DEF Behind, Matches
<1>4. rows \in SUBSET There
  BY BehindIsThere
<1>5. ASSUME NEW s \in rows
      PROVE  ~Newer(KeyOf(s), KeyOf(First))
  <2>1. s \in Weddings /\ row[s] \in Row /\ s \in There
    BY <1>4, PageIsOfTheList, RowsThere, DeskAssumption
  <2>2. s # First => Newer(KeyOf(First), KeyOf(s))
    BY <2>1, DeskAssumption DEF KeyOf
  <2>3. ~Newer(KeyOf(First), KeyOf(First))
    BY <1>2, RowsInOrder
  <2>4. Newer(KeyOf(First), KeyOf(s)) => ~Newer(KeyOf(s), KeyOf(First))
    BY <1>2, <2>1, <2>3, RowsInOrder
  <2> QED
    BY <2>2, <2>3, <2>4
<1>6. Above(rows, First) = {}
  BY <1>5 DEF Above
<1>7. Cardinality(Above(rows, First)) < PageSize
  BY <1>6, FS_EmptySet, ListsAssumption
<1>8. First \in FirstMenu
  BY <1>3, <1>7, BehindIsThere DEF FirstMenu
<1> QED
  BY <1>8, WeddingsOnAPage DEF FirstMenu

LEMMA Starts == Init => IInv
<1> SUFFICES ASSUME Init
             PROVE  IInv
  OBVIOUS
<1>1. row \in FirstRows /\ row \in [Rows -> Row \cup {None, Gone}] /\ row[First] \in Row
  BY DeskAssumption DEF Init
<1>2. clock \in 0..MaxTime /\ changes = 0 /\ changes \in 0..MaxChanges
      /\ touched \in [Rows -> 0..MaxChanges] /\ pending = {}
  BY <1>1, ListsAssumption DEF Init, Row
<1>3. ListsTypeOK
  BY <1>1, <1>2 DEF ListsTypeOK
<1>4. ListsInv
  BY <1>3 DEF Init, ListsInv
<1>5. ScopeInv
  <2>1. selected \in menu /\ menu \subseteq Weddings /\ section \in Sections
    BY <1>1, <1>3, FirstIsOnTheMenu DEF Init, Sections
  <2>2. scope \in Nat /\ acts \in 0..MaxActs /\ scope <= acts
    BY ScopeAssumption DEF Init
  <2>3. creating = FALSE /\ moreBusy = FALSE
    BY DEF Init
  <2> QED
    BY <2>1, <2>2, <2>3 DEF ScopeInv
<1>6. ~Mounted
  BY DEF Init, Mounted, Panels
<1>7. PageInv
  <2>1. loading \in BOOLEAN /\ busy \in BOOLEAN /\ failed \in BOOLEAN
    BY DEF Init
  <2>2. filter = "all" /\ gen = 0 /\ savedAt = 0 /\ shown = {} /\ pages = None /\ table = None
    BY DEF Init
  <2>3. filter \in Filters /\ gen \in Nat /\ savedAt \in 0..changes
    BY <1>2, <2>2 DEF Filters
  <2> QED
    BY <2>1, <2>2, <2>3 DEF PageInv
<1>8. SavedInv
  BY <1>6 DEF SavedInv
<1>9. NetInv
  BY DEF Init, NetInv, OneAtATime
<1>10. GuestInv
  <2>1. guestsLoaded \in BOOLEAN /\ guestLoadError \in BOOLEAN /\ listBusy \in BOOLEAN
    BY DEF Init
  <2>2. /\ guests = {} /\ listed = {} /\ guestCursor = None /\ nextCursor = None /\ view = "open"
        /\ guestRequestId = 0 /\ workspaceMutationVersion = 0 /\ instance = 0
        /\ requestId = 0 /\ mutationVersion = 0 /\ invitations = {} /\ guestNet = {}
    BY DEF Init
  <2> QED
    BY <2>1, <2>2 DEF GuestInv, Views
<1>11. MenuInv
  BY <1>3, DateCursorType DEF Init, MenuInv
<1> QED
  BY <1>4, <1>5, <1>7, <1>8, <1>9, <1>10, <1>11 DEF IInv

-----------------------------------------------------------------------------
\* Every step keeps the invariant.

LEMMA Keeps == IInv /\ [Next]_vars => IInv'
<1> SUFFICES ASSUME IInv, [Next]_vars
             PROVE  IInv'
  OBVIOUS
<1>1. CASE ChangeSection
  BY <1>1, ChangeSectionKeepsAll
<1>2. CASE ChooseWedding
  BY <1>2, ChooseWeddingKeepsAll
<1>3. CASE MenuStep
  BY <1>3, MenuStepKeepsAll
<1>4. CASE (PanelStep \/ SeatingStep) /\ UNCHANGED <<guestVars, menuVars>>
  <2>1. /\ PageInv' /\ SavedInv' /\ NetInv' /\ ScopeInv' /\ ListsGoOn
        /\ UNCHANGED <<selected, section, scope, creating>>
    BY <1>4, PanelStepKeepsPanel DEF IInv, menuVars
  <2>2. GuestInv' /\ MenuInv'
    BY <1>4, <2>1, GuestsStay, MenuStays DEF IInv
  <2> QED
    BY <2>1, <2>2 DEF IInv, ListsGoOn
<1>5. CASE GuestStep /\ UNCHANGED <<panelVars, menuVars, seat>>
  <2>1. /\ GuestInv' /\ ScopeInv' /\ ListsGoOn
        /\ UNCHANGED <<selected, section, scope, creating>>
    BY <1>5, GuestStepKeepsGuests DEF IInv, menuVars
  <2>2. PageInv' /\ SavedInv' /\ NetInv'
    BY <1>5, <2>1, PanelStays DEF IInv
  <2>3. MenuInv'
    BY <1>5, <2>1, MenuStays DEF IInv
  <2> QED
    BY <2>1, <2>2, <2>3 DEF IInv, ListsGoOn
<1>6. ASSUME ListsGoOn, UNCHANGED deskVars
      PROVE  IInv'
  <2>1. UNCHANGED <<scopeVars, panelVars, guestVars, menuVars>>
        /\ UNCHANGED <<selected, section, scope, creating, menu>>
    BY <1>6 DEF deskVars, scopeVars, menuVars
  <2>2. PageInv' /\ SavedInv' /\ NetInv'
    BY <1>6, <2>1, PanelStays DEF IInv
  <2>3. GuestInv' /\ MenuInv' /\ ScopeInv'
    BY <2>1, GuestsStay, MenuStays, ScopeStays DEF IInv
  <2> QED
    BY <1>6, <2>2, <2>3 DEF IInv, ListsGoOn
<1>7. CASE OthersStep /\ UNCHANGED deskVars
  BY <1>6, <1>7, OthersGoOn DEF IInv
<1>8. CASE UNCHANGED vars
  BY <1>6, <1>8, StillGoesOn DEF IInv, vars
<1> QED
  BY <1>1, <1>2, <1>3, <1>4, <1>5, <1>7, <1>8 DEF Next

-----------------------------------------------------------------------------
\* What the invariant says of the page.

LEMMA IsTyped == IInv => TypeOK
<1> SUFFICES ASSUME IInv
             PROVE  TypeOK
  OBVIOUS
<1>1. ListsInv /\ ScopeInv /\ PageInv /\ NetInv /\ GuestInv /\ MenuInv
  BY DEF IInv
<1>2. ListsTypeOK /\ seat \in [Rows -> Rows \cup {None}] /\ changes \in Nat
  BY <1>1 DEF ListsInv, ListsTypeOK
<1>3. /\ selected \in menu /\ menu \subseteq Weddings /\ section \in Sections
      /\ scope \in 0..MaxActs /\ acts \in 0..MaxActs
  <2>1. /\ selected \in menu /\ menu \subseteq Weddings /\ section \in Sections
        /\ scope \in Nat /\ acts \in 0..MaxActs /\ scope <= acts
    BY <1>1 DEF ScopeInv
  <2> QED
    BY <2>1, ScopeAssumption
<1>4. /\ filter \in Filters /\ view \in Views
      /\ shown \subseteq Entry /\ guests \cup listed \subseteq Summary
      /\ {guestCursor, nextCursor, menuCursor} \subseteq Key \cup {None}
      /\ table \in Rows \cup {None} /\ invitations \subseteq Rows
      /\ savedAt \in 0..changes
  BY <1>1 DEF PageInv, GuestInv, MenuInv
<1>5. pages = None \/ \A l \in DOMAIN pages : l \in Lists /\ pages[l].at \in 0..changes
  <2> SUFFICES ASSUME pages # None, NEW l \in DOMAIN pages
               PROVE  l \in Lists /\ pages[l].at \in 0..changes
    OBVIOUS
  <2>1. PagesOK
    BY <1>1 DEF PageInv
  <2>2. Shows \subseteq Lists
    BY <1>1, <2>1, ListsOfTheWedding DEF PagesOK, Mounted
  <2>3. pages[l].at \in Nat /\ pages[l].at <= changes /\ l \in Shows
    BY <2>1 DEF PagesOK
  <2> QED
    BY <1>2, <2>2, <2>3
<1>6. \A m \in net : m.gen <= gen /\ m.lists \subseteq Lists
  BY <1>1 DEF NetInv, RequestOK, Request
<1>7. \A m \in guestNet : m.scope <= scope /\ m.instance <= instance
  BY <1>1 DEF GuestInv, GuestRequestOK
<1>8. loading \in BOOLEAN /\ busy \in BOOLEAN /\ failed \in BOOLEAN
  BY <1>1 DEF PageInv
<1>9. guestsLoaded \in BOOLEAN /\ guestLoadError \in BOOLEAN /\ listBusy \in BOOLEAN
  BY <1>1 DEF GuestInv
<1>10. creating \in BOOLEAN /\ moreBusy \in BOOLEAN
  BY <1>1 DEF ScopeInv
<1>11. {loading, busy, failed, guestsLoaded, guestLoadError, listBusy,
        creating, moreBusy} \subseteq BOOLEAN
  BY <1>8, <1>9, <1>10
<1> QED
  BY <1>2, <1>3, <1>4, <1>5, <1>6, <1>7, <1>11 DEF TypeOK

LEMMA ChosenIsShown == IInv => ShowsWhatWasChosen
BY DEF IInv, ShowsWhatWasChosen, PageInv, EntryOK, Own, GuestInv

LEMMA SteadyIsShown == IInv => FullListShowsSteadyRows
<1> SUFFICES ASSUME IInv, Mounted, pages # None, NEW l \in Own, pages[l].cursor = None
             PROVE  Steady(l, filter, pages[l].at) \subseteq Ids(l)
  BY DEF FullListShowsSteadyRows, Own
<1>1. PagesOK
  BY DEF IInv, PageInv
<1> QED
  BY <1>1 DEF PagesOK

LEMMA SavedIsShown == IInv => OwnSaveIsShown
<1> SUFFICES ASSUME IInv, Mounted, pages # None, ~loading, ~busy, ~failed, NEW l \in Own
             PROVE  savedAt <= pages[l].at
  BY DEF OwnSaveIsShown, Own
<1>1. ~Saving
  BY DEF IInv, NetInv, OneAtATime, Clears, Saving
<1> QED
  BY <1>1 DEF IInv, SavedInv

\* Every component of CoupleWorkspace keeps what it was given: weddings, rows,
\* pages, cursors and counters have their types whatever is clicked, answered,
\* lost or changed by others, and no request is newer than its counter.
THEOREM TypeCorrect == Spec => []TypeOK
BY Starts, Keeps, IsTyped, PTL DEF Spec

\* An answer never lands on a page it was not asked for: every task, expense,
\* item, table and guest shown belongs to the wedding, section and filter
\* chosen and is there once, because each panel drops answers of an older
\* generation and each guest list those of an older instance or wedding.
THEOREM PageShowsWhatWasChosen == Spec => []ShowsWhatWasChosen
BY Starts, Keeps, ChosenIsShown, PTL DEF Spec

\* Keyset paging with exact cursors skips nothing: a list read to its end,
\* page by page while rows are added, moved, closed and deleted, shows every
\* row that matched the filter from before its first page was read.
THEOREM FullListsShowSteadyRows == Spec => []FullListShowsSteadyRows
BY Starts, Keeps, SteadyIsShown, PTL DEF Spec

\* After a save the panel reloads, so once it is quiet and shows no error every
\* list of its section was read after the save, even when an older load is
\* answered late.
THEOREM OwnSavesAreShown == Spec => []OwnSaveIsShown
BY Starts, Keeps, SavedIsShown, PTL DEF Spec
=============================================================================
