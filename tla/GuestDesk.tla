-------------------------------- MODULE GuestDesk --------------------------------
(***************************************************************************)
(* The guests of the wedding on the page.  CoupleWorkspace reads the first *)
(* page and the sides when the section is opened and keeps them, with the  *)
(* invitation links issued so far; GuestWorkspace is mounted on that page  *)
(* and goes on with a list of its own.  Requests are answered in any order *)
(* and each component drops the answers it no longer wants by counters.    *)
(***************************************************************************)
EXTENDS WeddingLists, DeskScope

VARIABLES
  \* CoupleWorkspace
  guests, guestCursor, guestsLoaded, guestLoadError,
  guestRequestId, workspaceMutationVersion,
  invitations,   \* the guests whose new link is on the page
  \* WeddingGuestWorkspace
  instance,      \* counts the times it was mounted
  listed, nextCursor, view, requestId, mutationVersion, listBusy,
  guestNet,      \* requests of both and their replies
  hiddenAt       \* history: the change by which a guest was archived from here

workspaceVars == <<guests, guestCursor, guestsLoaded, guestLoadError,
                   guestRequestId, workspaceMutationVersion>>
childVars == <<instance, listed, nextCursor, view, requestId, mutationVersion, listBusy>>
guestVars == <<workspaceVars, invitations, childVars, guestNet, hiddenAt>>

Guests(w) == <<w, "guests">>
Views == {"open", "done"}   \* active guests and archived ones
GuestsShown == section = "guests" /\ guestsLoaded /\ ~guestLoadError

\* A guest as the page has it: at is the change it was read after.
Summary == [id : Rows, at : Nat]

Sent(kind) ==
  [kind |-> kind, wedding |-> selected, scope |-> scope, instance |-> instance,
   request |-> 0, mutation |-> 0, view |-> view, cursor |-> None,
   append |-> FALSE, frees |-> FALSE, change |-> None, reply |-> None]

\* Requests that change something are carried out although the page has gone on.
Kept(requests) ==
  {m \in requests : m.kind \notin {"first", "page"} /\ m.reply = None}

-----------------------------------------------------------------------------
\* The guest section is opened, left, and loaded again after a failure.

Unmounted ==
  /\ listed' = {} /\ nextCursor' = None /\ view' = "open"
  /\ requestId' = 0 /\ mutationVersion' = 0 /\ listBusy' = FALSE
  /\ UNCHANGED instance

LoadGuests ==
  /\ guestRequestId' = guestRequestId + 1
  /\ guests' = {} /\ guestsLoaded' = FALSE /\ guestLoadError' = FALSE
  /\ guestNet' = Kept(guestNet) \cup
                 {[Sent("first") EXCEPT !.request = guestRequestId + 1,
                                           !.mutation = workspaceMutationVersion,
                                           !.view = "open"]}
  /\ UNCHANGED <<guestCursor, workspaceMutationVersion, invitations, hiddenAt>>

EnterGuests == LoadGuests /\ Unmounted

LeaveGuests ==
  /\ guestRequestId' = guestRequestId + 1
  /\ guestNet' = Kept(guestNet)
  /\ Unmounted
  /\ UNCHANGED <<guests, guestCursor, guestsLoaded, guestLoadError,
                 workspaceMutationVersion, invitations, hiddenAt>>

\* Another wedding is chosen.
ForgetGuests ==
  /\ guestRequestId' = guestRequestId + 1
  /\ guests' = {} /\ guestCursor' = None /\ guestsLoaded' = FALSE /\ invitations' = {}
  /\ guestNet' = Kept(guestNet)
  /\ Unmounted
  /\ UNCHANGED <<guestLoadError, workspaceMutationVersion, hiddenAt>>

Retry ==
  /\ section = "guests" /\ guestLoadError /\ Click
  /\ LoadGuests
  /\ UNCHANGED <<childVars, listVars>>

-----------------------------------------------------------------------------
\* Clicks in the section.

Ask(m) == guestNet' = guestNet \cup {m}

\* A side is added or moved, or it is renamed or deleted: "paint" changes the
\* guests the workspace keeps too.
SaveSide ==
  /\ GuestsShown /\ Act
  /\ \E kind \in {"side", "paint"} : Ask(Sent(kind))
  /\ moreBusy' = FALSE /\ UNCHANGED <<selected, section, scope, creating>>
  /\ UNCHANGED <<workspaceVars, invitations, childVars, hiddenAt, listVars>>

PageOf(f, c, append) ==
  [Sent("page") EXCEPT !.request = requestId + 1, !.mutation = mutationVersion,
                          !.view = f, !.cursor = c, !.append = append]

\* loadPage: the list asks for itself.
LoadPage(f, c, append) ==
  /\ Ask(PageOf(f, c, append))
  /\ requestId' = requestId + 1 /\ listBusy' = TRUE
  /\ UNCHANGED <<instance, listed, nextCursor, mutationVersion>>

\* The view can be chosen while the list is busy.
ChooseView ==
  /\ GuestsShown /\ Click
  /\ \E v \in Views \ {view} : view' = v /\ LoadPage(v, None, FALSE)
  /\ UNCHANGED <<workspaceVars, invitations, hiddenAt, listVars>>

Refresh ==
  /\ GuestsShown /\ ~listBusy /\ Click
  /\ \/ LoadPage(view, None, FALSE)
     \/ nextCursor # None /\ LoadPage(view, nextCursor, TRUE)
  /\ UNCHANGED <<workspaceVars, invitations, view, hiddenAt, listVars>>

ListedIds == {s.id : s \in listed}

\* What can be saved; for an edit, a side or a link the change names the guest.
AddsGuest(kind, c) == kind = "guest" /\ c.op = "add" /\ ~listBusy

\* Opening the guest to be edited has made the list idle again.
EditsGuest(kind, c) == kind = "edit" /\ c.op = "close" /\ c.row \in ListedIds

SetsSides(kind, c) ==
  kind = "assign" /\ c.op = "close" /\ c.row \in ListedIds /\ ~listBusy

\* The buttons of one guest to archive and restore are never disabled.
GuestButtons(kind, c) ==
  /\ c.row \in ListedIds
  /\ \/ kind = "guest" /\ c.op = (IF view = "open" THEN "close" ELSE "reopen")
     \/ kind = "link" /\ c.op = "close" /\ view = "open" /\ ~listBusy

CanSave(kind, c) ==
  /\ Of[c.row] = Guests(selected)
  /\ AddsGuest(kind, c) \/ EditsGuest(kind, c) \/ SetsSides(kind, c) \/ GuestButtons(kind, c)

SaveGuest ==
  /\ GuestsShown /\ Click
  /\ \E kind \in {"guest", "edit", "assign", "link"}, c \in Change :
       CanSave(kind, c) /\ Ask([Sent(kind) EXCEPT !.change = c])
  /\ listBusy' = TRUE
  /\ UNCHANGED <<workspaceVars, invitations, instance, listed, nextCursor, view,
                 requestId, mutationVersion, hiddenAt, listVars>>

-----------------------------------------------------------------------------
\* The API answers, refuses, or the answer is lost.

GuestReply(m, r) == guestNet' = (guestNet \ {m}) \cup {[m EXCEPT !.reply = r]}

GuestsListed(m) ==
  LET list == Guests(m.wedding) IN
    [entries |-> {[id |-> r, at |-> changes] : r \in Page(list, m.view, m.cursor)},
     cursor |-> DateCursor(list, m.view, m.cursor), at |-> changes]

\* What a save answers: it was the change number v, or came after it.
Told(v) == [entries |-> {}, cursor |-> None, at |-> v]

ServeGuests(m) ==
  /\ m.reply = None
  /\ \/ m.kind \in {"first", "page"} /\ GuestReply(m, GuestsListed(m)) /\ UNCHANGED listVars
     \/ m.kind = "guest" /\ Apply(m.change) /\ GuestReply(m, Told(changes + 1))
     \/ m.kind = "guest" /\ Apply(m.change) /\ GuestReply(m, NoAnswer)
     \/ m.kind = "link" /\ m.change.row \in There /\ row[m.change.row].open
        /\ GuestReply(m, Told(changes)) /\ UNCHANGED listVars
     \/ m.kind \in {"side", "paint", "edit", "assign"}
        /\ GuestReply(m, Told(changes)) /\ UNCHANGED listVars
     \/ GuestReply(m, NoAnswer) /\ UNCHANGED listVars
  /\ UNCHANGED <<scopeVars, workspaceVars, invitations, childVars, hiddenAt>>

-----------------------------------------------------------------------------
\* The answer arrives.

Fresh(m) == m.scope = scope
Lost(m) == m.reply = NoAnswer
Taken(m) == guestNet' = guestNet \ {m}
Alive(m) == GuestsShown /\ m.instance = instance

\* The child starts from what the workspace keeps.
MountOn(page, c) ==
  /\ instance' = instance + 1
  /\ listed' = page /\ nextCursor' = c /\ view' = "open"
  /\ requestId' = 1 /\ mutationVersion' = 0 /\ listBusy' = FALSE

\* The page is dropped when a side was saved meanwhile, but counts as loaded.
DeliverFirst(m) ==
  /\ m.kind = "first" /\ Taken(m)
  /\ IF Fresh(m) /\ m.request = guestRequestId
     THEN /\ guestsLoaded' = TRUE /\ guestLoadError' = Lost(m)
          /\ IF ~Lost(m) /\ m.mutation = workspaceMutationVersion
             THEN guests' = m.reply.entries /\ guestCursor' = m.reply.cursor
             ELSE UNCHANGED <<guests, guestCursor>>
          /\ IF Lost(m) THEN Unmounted ELSE MountOn(guests', guestCursor')
     ELSE UNCHANGED <<guests, guestCursor, guestsLoaded, guestLoadError, childVars>>
  /\ UNCHANGED <<guestRequestId, workspaceMutationVersion, invitations, hiddenAt>>

\* The guests the workspace keeps are written again with the new side, which
\* gives the child its first page back.
DeliverSide(m) ==
  /\ m.kind \in {"side", "paint"} /\ m.reply # None /\ Taken(m)
  /\ moreBusy' = (moreBusy /\ ~Fresh(m))
  /\ UNCHANGED <<selected, section, scope, creating, acts, listVars>>
  /\ IF Fresh(m) /\ ~Lost(m)
     THEN /\ workspaceMutationVersion' = workspaceMutationVersion + 1
          /\ IF m.kind = "paint" /\ GuestsShown
             THEN listed' = guests /\ nextCursor' = guestCursor
             ELSE UNCHANGED <<listed, nextCursor>>
     ELSE UNCHANGED <<workspaceMutationVersion, listed, nextCursor>>
  /\ UNCHANGED <<guests, guestCursor, guestsLoaded, guestLoadError, guestRequestId,
                 invitations, instance, view, requestId, mutationVersion, listBusy,
                 hiddenAt>>

NewGuests(entries) == {e \in entries : e.id \notin ListedIds}

DeliverPage(m) ==
  /\ m.kind = "page" /\ Taken(m)
  /\ IF Alive(m)
     THEN /\ IF m.request = requestId /\ m.mutation = mutationVersion /\ ~Lost(m)
             THEN /\ listed' = IF m.append THEN listed \cup NewGuests(m.reply.entries)
                                           ELSE m.reply.entries
                  /\ nextCursor' = m.reply.cursor
             ELSE UNCHANGED <<listed, nextCursor>>
          /\ listBusy' = (listBusy /\ m.request # requestId /\ ~m.frees)
     ELSE UNCHANGED <<listed, nextCursor, listBusy>>
  /\ UNCHANGED <<workspaceVars, invitations, instance, view, requestId,
                 mutationVersion, hiddenAt>>

Without(id) == {s \in listed : s.id # id}

\* What the list becomes when a guest is added, archived or restored.
Relisted(m) ==
  IF m.change.op # "add" THEN Without(m.change.row)
  ELSE IF m.view = "open" THEN Without(m.change.row) \cup {[id |-> m.change.row, at |-> m.reply.at]}
  ELSE listed

\* A link goes to the workspace even when the child is gone by then.
DeliverGuest(m) ==
  /\ m.kind = "guest" /\ Taken(m)
  /\ IF Alive(m)
     THEN /\ listBusy' = FALSE
          /\ IF Lost(m) THEN UNCHANGED <<listed, mutationVersion>>
             ELSE listed' = Relisted(m) /\ mutationVersion' = mutationVersion + 1
     ELSE UNCHANGED <<listed, mutationVersion, listBusy>>
  /\ IF Fresh(m) /\ ~Lost(m) /\ m.change.op = "close"
     THEN /\ invitations' = invitations \ {m.change.row}
          /\ hiddenAt' = [hiddenAt EXCEPT ![m.change.row] = m.reply.at]
     ELSE UNCHANGED <<invitations, hiddenAt>>
  /\ UNCHANGED <<workspaceVars, instance, nextCursor, view, requestId>>

\* The guest on the page, if it still is, becomes the one the API answered.
Edited(m) == {IF s.id = m.change.row THEN [s EXCEPT !.at = m.reply.at] ELSE s : s \in listed}

DeliverEdit(m) ==
  /\ m.kind = "edit" /\ Taken(m)
  /\ IF Alive(m)
     THEN /\ listBusy' = FALSE
          /\ IF Lost(m) THEN UNCHANGED <<listed, mutationVersion>>
             ELSE listed' = Edited(m) /\ mutationVersion' = mutationVersion + 1
     ELSE UNCHANGED <<listBusy, listed, mutationVersion>>
  /\ UNCHANGED <<workspaceVars, invitations, instance, nextCursor, view, requestId, hiddenAt>>

\* Selected guests got a side: the list is read again, with the filters the
\* page had when the button was pressed.
DeliverAssign(m) ==
  /\ m.kind = "assign"
  /\ IF ~Alive(m) THEN Taken(m) /\ UNCHANGED <<requestId, mutationVersion, listBusy>>
     ELSE IF Lost(m)
     THEN Taken(m) /\ listBusy' = FALSE /\ UNCHANGED <<requestId, mutationVersion>>
     ELSE /\ mutationVersion' = mutationVersion + 1
          /\ requestId' = requestId + 1 /\ listBusy' = TRUE
          /\ guestNet' = (guestNet \ {m}) \cup
                         {[PageOf(m.view, None, FALSE) EXCEPT
                             !.mutation = mutationVersion + 1, !.frees = TRUE]}
  /\ UNCHANGED <<workspaceVars, invitations, instance, listed, nextCursor, view, hiddenAt>>

DeliverLink(m) ==
  /\ m.kind = "link" /\ Taken(m)
  /\ listBusy' = (listBusy /\ ~Alive(m))
  /\ invitations' = IF Fresh(m) /\ ~Lost(m) THEN invitations \cup {m.change.row}
                                            ELSE invitations
  /\ UNCHANGED <<workspaceVars, instance, listed, nextCursor, view, requestId,
                 mutationVersion, hiddenAt>>

DeliverToGuests(m) ==
  /\ m.reply # None
  /\ \/ DeliverFirst(m) \/ DeliverPage(m) \/ DeliverGuest(m) \/ DeliverEdit(m)
     \/ DeliverAssign(m) \/ DeliverLink(m)
  /\ UNCHANGED <<listVars, scopeVars>>

GuestStep ==
  \/ Retry \/ SaveSide \/ ChooseView \/ Refresh \/ SaveGuest
  \/ \E m \in guestNet : ServeGuests(m) \/ DeliverSide(m) \/ DeliverToGuests(m)
=============================================================================
