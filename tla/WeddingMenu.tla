------------------------------- MODULE WeddingMenu -------------------------------
(***************************************************************************)
(* The weddings the couple can choose from, read page by page, and the     *)
(* creation of a new one, which is shown as soon as the API answers.       *)
(***************************************************************************)
EXTENDS WeddingLists, DeskScope

CONSTANT Weddings   \* their rows

VARIABLES menu, menuCursor, menuNet

menuVars == <<menu, menuCursor, menuNet>>

Memberships == <<None, "weddings">>

FirstMenu == Page(Memberships, "all", None)

\* Only the button that was pressed is disabled: a wedding that is chosen, or
\* a side that is saved, enables it again.
MoreWeddings ==
  /\ menuCursor # None /\ ~moreBusy /\ ~creating
  /\ menuNet' = menuNet \cup {[wedding |-> None, cursor |-> menuCursor, reply |-> None]}
  /\ moreBusy' = TRUE
  /\ UNCHANGED <<menu, menuCursor, selected, section, scope, creating, acts>>

CreateWedding ==
  /\ Act /\ creating' = TRUE
  /\ \E w \in Weddings :
       /\ row[w] = None
       /\ menuNet' = menuNet \cup {[wedding |-> w, cursor |-> None, reply |-> None]}
  /\ UNCHANGED <<menu, menuCursor, selected, section, scope, moreBusy>>

MenuReply(m, r) == menuNet' = (menuNet \ {m}) \cup {[m EXCEPT !.reply = r]}

WeddingPage(m) ==
  [weddings |-> Page(Memberships, "all", m.cursor),
   cursor |-> DateCursor(Memberships, "all", m.cursor)]

\* The wedding and its owner's membership are stored in one transaction.
StoreWedding(w) == Apply([op |-> "add", row |-> w])

ServeMenu(m) ==
  /\ m.reply = None
  /\ \/ m.wedding = None /\ MenuReply(m, WeddingPage(m)) /\ UNCHANGED listVars
     \/ m.wedding # None /\ StoreWedding(m.wedding) /\ MenuReply(m, [weddings |-> {m.wedding}, cursor |-> None])
     \/ m.wedding # None /\ StoreWedding(m.wedding) /\ MenuReply(m, NoAnswer)
     \/ MenuReply(m, NoAnswer) /\ UNCHANGED listVars
  /\ UNCHANGED <<menu, menuCursor, scopeVars>>

\* A page of weddings is added whatever was chosen meanwhile.
DeliverWeddings(m) ==
  /\ m.wedding = None
  /\ menuNet' = menuNet \ {m} /\ moreBusy' = FALSE
  /\ IF m.reply = NoAnswer THEN UNCHANGED <<menu, menuCursor>>
     ELSE menu' = menu \cup m.reply.weddings /\ menuCursor' = m.reply.cursor
  /\ UNCHANGED <<selected, section, scope, creating, acts>>

DeliverRefusal(m) ==
  /\ m.wedding # None /\ m.reply = NoAnswer
  /\ menuNet' = menuNet \ {m} /\ creating' = FALSE
  /\ UNCHANGED <<menu, menuCursor, selected, section, scope, moreBusy, acts>>

\* The new wedding is chosen.
DeliverCreated(m) ==
  /\ m.wedding # None /\ m.reply # NoAnswer
  /\ menuNet' = menuNet \ {m} /\ creating' = FALSE
  /\ menu' = menu \cup {m.wedding}
  /\ selected' = m.wedding /\ section' = "overview" /\ scope' = scope + 1
  /\ UNCHANGED <<menuCursor, moreBusy, acts>>
=============================================================================
