------------------------------- MODULE CoupleDesk -------------------------------
(***************************************************************************)
(* The browser of one member of a wedding: CoupleWorkspace with the panel  *)
(* or the guests of the section it shows, while others change the rows.    *)
(***************************************************************************)
EXTENDS SeatingPanel, GuestDesk, WeddingMenu

CONSTANTS First,       \* the wedding shown at first
          FirstRows    \* the rows there may be when the page is opened

ASSUME DeskAssumption ==
  /\ Weddings \subseteq Rows /\ First \in Weddings
  /\ Lists = (Weddings \cup {None}) \X ListNames
  /\ \A w \in Rows : w \in Weddings <=> Of[w] = Memberships
  /\ FirstRows \subseteq [Rows -> Row \cup {None, Gone}]
  /\ \A rows \in FirstRows :
       /\ rows[First] \in Row
       /\ \A w \in Weddings \ {First} : rows[w] \in Row =>
            Newer([at |-> rows[First].at, id |-> First], [at |-> rows[w].at, id |-> w])

deskVars == <<scopeVars, panelVars, guestVars, menuVars>>
vars == <<listVars, seat, deskVars>>

Init ==
  /\ row \in FirstRows /\ pending = {}
  /\ clock = row[First].at
  /\ changes = 0 /\ touched = [r \in Rows |-> 0] /\ seat = [r \in Rows |-> None]
  /\ selected = First /\ section = "overview" /\ scope = 0 /\ acts = 0
  /\ creating = FALSE /\ moreBusy = FALSE
  /\ menu = FirstMenu /\ menuCursor = DateCursor(Memberships, "all", None) /\ menuNet = {}
  /\ filter = "all" /\ gen = 0 /\ loading = FALSE /\ busy = FALSE
  /\ shown = {} /\ pages = None /\ table = None /\ failed = FALSE /\ net = {}
  /\ savedAt = 0
  /\ guests = {} /\ guestCursor = None /\ guestsLoaded = FALSE /\ guestLoadError = FALSE
  /\ guestRequestId = 0 /\ workspaceMutationVersion = 0 /\ invitations = {}
  /\ instance = 0 /\ listed = {} /\ nextCursor = None /\ view = "open"
  /\ requestId = 0 /\ mutationVersion = 0 /\ listBusy = FALSE /\ guestNet = {}
  /\ hiddenAt = [r \in Rows |-> 0]

\* Bound: a section is opened when there are, or may come, rows for its lists.
InUse(s) ==
  \/ s = "overview"
  \/ \E r \in Rows : Of[r][2] \in Parts(s) /\ (row[r] # Gone \/ touched[r] > 0)

\* The panel of the section is replaced by the one of the next.
ChangeSection ==
  /\ Act
  /\ \E s \in Sections \ {section} :
       /\ InUse(s) /\ section' = s /\ Mount(s)
       /\ IF s = "guests" THEN EnterGuests
          ELSE IF section = "guests" THEN LeaveGuests ELSE UNCHANGED guestVars
  /\ UNCHANGED <<selected, scope, creating, moreBusy, menuVars, listVars, seat>>

ChooseWedding ==
  /\ Act
  /\ selected' \in menu
  /\ section' = "overview" /\ scope' = scope + 1 /\ moreBusy' = FALSE
  /\ Mount("overview") /\ ForgetGuests
  /\ UNCHANGED <<creating, menuVars, listVars, seat>>

MenuStep ==
  \/ /\ \/ MoreWeddings \/ CreateWedding
        \/ \E m \in menuNet : m.reply # None /\ (DeliverWeddings(m) \/ DeliverRefusal(m))
     /\ UNCHANGED <<listVars, seat, panelVars, guestVars>>
  \/ \E m \in menuNet : ServeMenu(m) /\ UNCHANGED <<seat, panelVars, guestVars>>
  \/ \E m \in menuNet : /\ m.reply # None /\ DeliverCreated(m)
                        /\ Mount("overview") /\ ForgetGuests
                        /\ UNCHANGED <<listVars, seat>>

\* What can be done to a row of a list.
Edits(name) ==
  (IF name \in {"planning", "guests"} THEN {"close", "reopen"} ELSE {}) \cup
  (IF name = "schedule" THEN {"move"} ELSE {}) \cup
  (IF name \in {"guests", "weddings"} THEN {} ELSE {"drop"})

RowsOf(l) == {r \in Rows : Of[r] = l}

\* Others change the rows of a wedding, and seat its guests at its tables.
OthersStep ==
  \/ /\ UNCHANGED seat
     /\ \/ BeginInsert \/ CommitInsert \/ Tick
        \/ \E r \in There : \E op \in Edits(Of[r][2]) : Apply([op |-> op, row |-> r])
     /\ \A w \in Weddings : row'[w] = row[w] /\ \A p \in pending' : w \notin p.rows
  \/ \E w \in Weddings :
       \E g \in RowsOf(Guests(w)), t \in RowsOf(<<w, "seating">>) \cup {None} :
         seat[g] # t /\ PutAt(g, t)

Next ==
  \/ ChangeSection \/ ChooseWedding \/ MenuStep
  \/ (PanelStep \/ SeatingStep) /\ UNCHANGED <<guestVars, menuVars>>
  \/ GuestStep /\ UNCHANGED <<panelVars, menuVars, seat>>
  \/ OthersStep /\ UNCHANGED deskVars

Spec == Init /\ [][Next]_vars

-----------------------------------------------------------------------------
TypeOK ==
  /\ ListsTypeOK
  /\ seat \in [Rows -> Rows \cup {None}]
  /\ selected \in menu /\ menu \subseteq Weddings /\ section \in Sections
  /\ scope \in 0..MaxActs /\ acts \in 0..MaxActs
  /\ filter \in Filters /\ view \in Views
  /\ shown \subseteq Entry /\ guests \cup listed \subseteq Summary
  /\ {guestCursor, nextCursor, menuCursor} \subseteq Key \cup {None}
  /\ pages = None \/ \A l \in DOMAIN pages : l \in Lists /\ pages[l].at \in 0..changes
  /\ table \in Rows \cup {None} /\ invitations \subseteq Rows
  /\ \A m \in net : m.gen <= gen /\ m.lists \subseteq Lists
  /\ \A m \in guestNet : m.scope <= scope /\ m.instance <= instance
  /\ {loading, busy, failed, guestsLoaded, guestLoadError, listBusy,
      creating, moreBusy} \subseteq BOOLEAN
  /\ savedAt \in 0..changes

\* What is on the page belongs to the wedding, the section and the filter that
\* are chosen, and is there once, whatever was asked for before: an answer to
\* an older question never lands on the new page.  The table chosen is always
\* among the tables shown.
ShowsWhatWasChosen ==
  /\ \A e \in shown :
       IF e.list \in {Seats, Candidates}
       THEN section = "seating" /\ Of[e.id] = Guests(selected)
       ELSE /\ Of[e.id] = e.list /\ e.list \in {selected} \X Parts(section)
            /\ Matches(filter, e)
  /\ \A e, f \in shown : e.id = f.id /\ e.list = f.list => e = f
  /\ table # None => table \in Ids(Tables)
  /\ \A g \in guests \cup listed : Of[g.id] = Guests(selected)
  /\ \A g \in invitations : Of[g] = Guests(selected)

\* A list without a next page, read page by page while others add, change and
\* delete rows, has every row that belonged to it all the time.
FullListShowsSteadyRows ==
  Mounted /\ pages # None =>
    \A l \in {selected} \X Parts(section) :
      pages[l].cursor = None => Steady(l, filter, pages[l].at) \subseteq Ids(l)

\* Once the panel is quiet, what it shows was read after its last save.
OwnSaveIsShown ==
  Mounted /\ pages # None /\ ~loading /\ ~busy /\ ~failed =>
    \A l \in {selected} \X Parts(section) : savedAt <= pages[l].at

\* A guest archived from this page is not listed again among the active guests
\* by data that is older than the archive.
ArchivedStaysHidden ==
  view = "open" => \A g \in listed : hiddenAt[g.id] <= g.at
=============================================================================
