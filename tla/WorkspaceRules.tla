----------------------------- MODULE WorkspaceRules -----------------------------
(***************************************************************************)
(* Proofs that the calls of a workspace keep its rules, whichever of them  *)
(* overlap: about invitation links and replies, the import, the order and  *)
(* number of sides, the limits that creations count rows for, the currency *)
(* of the amounts, and the seats at the tables.                            *)
(***************************************************************************)
EXTENDS WorkspaceProofs

-----------------------------------------------------------------------------
(* The import.                                                              *)

LEMMA ImportStarts == Init => Import!Init
BY DEF Init, ImportInit, Import!Init

LEMMA ImportSteps == Typed /\ [Next]_vars => [Import!Next]_(Import!vars)
<1> SUFFICES ASSUME Typed, [Next]_vars PROVE Import!Next \/ UNCHANGED Import!vars
  OBVIOUS
<1>1. ASSUME NEW q \in Requests, ImportCalls(q)
      PROVE  Import!Next \/ UNCHANGED Import!vars
  BY <1>1, ImportTold DEF ImportCalls, Typed
<1>2. ASSUME NEW q \in Requests,
             \/ GuestCalls(q) \/ LinkCalls(q) \/ SeatCalls(q)
             \/ LedgerCalls(q) \/ TemplateCalls(q) \/ Wait(q) \/ Fail(q)
      PROVE  UNCHANGED Import!vars
  BY <1>2 DEF GuestCalls, LinkCalls, SeatCalls, LedgerCalls, TemplateCalls, Wait, Fail,
              ForgetImport, importVars, Import!vars
<1>3. ASSUME NEW b \in Batches, Expire(b) \/ Cleanup(b) PROVE UNCHANGED Import!vars
  BY <1>3 DEF Expire, Cleanup, Import!vars
<1>4. CASE UNCHANGED vars BY <1>4 DEF vars, importVars, Import!vars
<1>5. QED BY <1>1, <1>2, <1>3, <1>4 DEF Next

\* At most one preview of a file is imported, it is the last one shown, the one
\* its caller saw and confirmed, and everyone who is told a result is told that
\* one, whatever calls overlap, are repeated, fail or find the batch expired:
\* commitGuestImport and its keys and versions implement OneImport.
THEOREM ImportIsOneImport == Spec => ImportSpec
BY ImportStarts, ImportSteps, AlwaysTyped, PTL DEF Spec, ImportSpec, Import!Spec

-----------------------------------------------------------------------------
(* Links and replies.                                                       *)

\* A step that archives nobody, issues no link and revives none.
Calm ==
  /\ \A l \in Links : link'[l] # None /\ link'[l].live =>
       link[l] # None /\ link[l].live /\ link'[l].guest = link[l].guest
  /\ \A g \in Present : guest'[g].archived => guest[g].archived

LEMMA CalmKeepsLinks ==
  ASSUME Stays, OneLiveLink, Calm
  PROVE  OneLiveLink'
<1>1. ASSUME NEW g \in Guests PROVE LiveLinks(g)' \subseteq LiveLinks(g)
  BY DEF LiveLinks, Calm
<1>2. ASSUME NEW g \in Guests, LiveLinks(g) # {}
      PROVE  guest'[g] # None /\ ~guest'[g].archived
  BY <1>2 DEF OneLiveLink, Calm, Stays, Present
<1>3. QED BY <1>1, <1>2 DEF OneLiveLink

LEMMA GuestsKeepLinks ==
  ASSUME Typed, OneLiveLink, NEW q \in Requests, GuestStep(q)
  PROVE  OneLiveLink'
<1>1. RowsTyped /\ call[q] \in Call /\ Fits(call[q], locks[q]) BY DEF Typed, CallInv
<1>2. Stays BY GuestCallsTyped DEF Typed, RowsGoOn
<1>3. ASSUME NEW g \in Present PROVE guest[g] \in Guest /\ guest[g] # None /\ g \in Guests
  BY <1>1 DEF Present, RowsTyped
<1>4. CASE UNCHANGED <<guest, link>> BY <1>4 DEF OneLiveLink, LiveLinks
<1>5. CASE AddGuest(q)
  <2>1. UNCHANGED link BY <1>5 DEF AddGuest, linkVars
  <2>2. \A g \in Present : guest'[g] = guest[g]
    BY <1>1, <1>5 DEF AddGuest, Present, RowsTyped
  <2>3. Calm BY <2>1, <2>2 DEF Calm
  <2>4. QED BY <1>2, <2>3, CalmKeepsLinks
<1>6. CASE DropSide(q) \/ SetSide(q) \/ BulkSide(q)
  <2>1. UNCHANGED link BY <1>6 DEF DropSide, SetSide, BulkSide, linkVars
  <2>2. ASSUME NEW g \in Present PROVE guest'[g].archived = guest[g].archived
    <3>1. guest'[g] = guest[g] \/ \E a : guest'[g] = [guest[g] EXCEPT !.aff = a]
      BY <1>3, <1>6 DEF DropSide, SetSide, BulkSide, Unassigned
    <3>2. QED BY <1>3, <3>1 DEF Guest
  <2>3. Calm BY <2>1, <2>2 DEF Calm
  <2>4. QED BY <1>2, <2>3, CalmKeepsLinks
<1>7. CASE UpdateGuest(q)
  <2>1. UNCHANGED link BY <1>7 DEF UpdateGuest, linkVars
  <2>0. PICK g \in Guests : \E size, a : PatchedGuest(g, size, a)
    BY <1>1, <1>7 DEF UpdateGuest, Call
  <2>2. PICK size, a : PatchedGuest(g, size, a) BY <2>0
  <2>3. guest' = [guest EXCEPT ![g] = [guest[g] EXCEPT !.party = size, !.aff = a]]
    BY <2>2 DEF PatchedGuest
  <2>4. ASSUME NEW h \in Present PROVE guest'[h].archived = guest[h].archived
    <3>1. CASE h # g BY <1>1, <1>3, <2>3, <3>1 DEF RowsTyped
    <3>2. CASE h = g
      <4>1. guest'[h] = [guest[h] EXCEPT !.party = size, !.aff = a]
        BY <1>1, <2>3, <3>2 DEF RowsTyped
      <4>2. QED BY <1>3, <4>1 DEF Guest
    <3>3. QED BY <3>1, <3>2
  <2>5. Calm BY <2>1, <2>4 DEF Calm
  <2>6. QED BY <1>2, <2>5, CalmKeepsLinks
<1>8. CASE Archive(q)
  <2> DEFINE gs == call[q].guests
  <2>1. Archived(gs) /\ Revoked(gs) BY <1>8 DEF Archive
  <2>2. \A l \in Links : link'[l] # None /\ link'[l].live =>
          /\ link'[l] = link[l] /\ link[l].guest \notin gs
    BY <1>1, <2>1 DEF Revoked, RowsTyped, Link
  <2> HIDE DEF gs
  <2>3. ASSUME NEW g \in Guests PROVE LiveLinks(g)' \subseteq LiveLinks(g)
    BY <2>2 DEF LiveLinks
  <2>4. ASSUME NEW g \in Guests, LiveLinks(g)' # {}
        PROVE  guest'[g] # None /\ ~guest'[g].archived
    <3>1. g \notin gs BY <2>2, <2>4 DEF LiveLinks
    <3>2. guest'[g] = guest[g] BY <2>1, <3>1 DEF Archived
    <3>3. QED BY <2>3, <2>4, <3>2 DEF OneLiveLink
  <2>5. QED BY <2>3, <2>4 DEF OneLiveLink
<1>9. CASE Restore(q)
  <2>1. UNCHANGED link BY <1>9 DEF Restore, linkVars
  <2>2. PICK h \in Present : guest' = [guest EXCEPT ![h].archived = FALSE]
    BY <1>9 DEF Restore
  <2>3. guest' = [guest EXCEPT ![h] = [guest[h] EXCEPT !.archived = FALSE]] BY <2>2
  <2>4. ASSUME NEW g \in Present, guest'[g].archived PROVE guest[g].archived
    <3>1. CASE g # h BY <1>1, <1>3, <2>3, <2>4, <3>1 DEF RowsTyped
    <3>2. CASE g = h
      <4>1. guest'[g] = [guest[g] EXCEPT !.archived = FALSE]
        BY <1>1, <1>3, <2>3, <3>2 DEF RowsTyped
      <4>2. QED BY <1>3, <2>4, <4>1 DEF Guest
    <3>3. QED BY <3>1, <3>2
  <2>5. Calm BY <2>1, <2>4 DEF Calm
  <2>6. QED BY <1>2, <2>5, CalmKeepsLinks
<1>10. CASE SideRoutes(q)
  <2>1. CASE DropSide(q) BY <1>6, <2>1
  <2>2. CASE ~DropSide(q)
    <3>1. UNCHANGED <<guest, link>>
      BY <1>10, <2>2 DEF SideRoutes, BeginAddSide, PlaceSide, AddSide, BeginOrderSides,
                         OrderSides, BeginDropSide, FindMembers, guestVars, linkVars
    <3>2. QED BY <1>4, <3>1
  <2>3. QED BY <2>1, <2>2
<1>11. CASE BeginAddGuest(q) \/ BeginSetSide(q) \/ BeginUpdateGuest(q)
            \/ BeginResizeParty(q) \/ CheckSeat(q) \/ ResizeParty(q)
            \/ BeginArchive(q) \/ BeginBulkArchive(q) \/ BeginBulkSide(q)
  <2>1. UNCHANGED <<guest, link>>
    BY <1>11 DEF BeginAddGuest, BeginSetSide, BeginUpdateGuest, BeginResizeParty, CheckSeat,
                 ResizeParty, BeginArchive, BeginBulkArchive, BeginBulkSide, guestVars,
                 linkVars
  <2>2. QED BY <1>4, <2>1
<1>12. QED
  BY <1>5, <1>6, <1>7, <1>8, <1>9, <1>10, <1>11 DEF GuestStep, GuestRoutes

LEMMA LinksKeepLinks ==
  ASSUME Typed, OneLiveLink, NEW q \in Requests, LinkStep(q)
  PROVE  OneLiveLink'
<1>1. RowsTyped /\ call[q] \in Call /\ Fits(call[q], locks[q]) BY DEF Typed, CallInv
<1>2. CASE UNCHANGED <<guest, link>> BY <1>2 DEF OneLiveLink, LiveLinks
<1>3. CASE Invite(q)
  <2>1. PICK g \in call[q].guests, l \in Unused :
          ~guest[g].archived /\ OneActive(g) /\ NewLink(l, g)
    BY <1>3 DEF Invite
  <2>2. g \in Guests /\ guest[g] # None /\ UNCHANGED guest
    BY <1>1, <1>3 DEF Fits, Present, Invite, guestVars
  <2>3. /\ link'[l] = [guest |-> g, live |-> TRUE]
        /\ \A k \in Links \ {l} : link'[k] = link[k]
    BY <1>1, <2>1 DEF NewLink, Unused, RowsTyped
  <2>4. LiveLinks(g)' = {l}
    <3>1. ASSUME NEW k \in Links \ {l} PROVE k \notin LiveLinks(g)'
      BY <2>1, <2>3 DEF LiveLinks, OneActive
    <3>2. [guest |-> g, live |-> TRUE] \in Link BY <2>2 DEF Link
    <3>3. l \in LiveLinks(g)' BY <2>1, <2>3, <3>2, NoRowAssumption DEF LiveLinks, Unused
    <3>4. LiveLinks(g)' \subseteq Links BY DEF LiveLinks
    <3>5. QED BY <3>1, <3>3, <3>4
  <2>5. ASSUME NEW h \in Guests \ {g} PROVE LiveLinks(h)' = LiveLinks(h)
    BY <2>1, <2>3 DEF LiveLinks, Unused
  <2>6. QED BY <2>1, <2>2, <2>4, <2>5 DEF OneLiveLink
<1>4. CASE Replace(q)
  <2>1. PICK g \in call[q].guests, l \in Unused : ~guest[g].archived /\ Replaced(g, l)
    BY <1>4 DEF Replace
  <2>2. g \in Guests /\ guest[g] # None /\ UNCHANGED guest
    BY <1>1, <1>4 DEF Fits, Present, Replace, guestVars
  <2>3. /\ link'[l] = [guest |-> g, live |-> TRUE]
        /\ \A k \in Links \ {l} : k \notin LiveLinks(g) => link'[k] = link[k]
        /\ \A k \in LiveLinks(g) \ {l} : link'[k] = [link[k] EXCEPT !.live = FALSE]
    <3>1. ASSUME NEW k \in LiveLinks(g) \ {l}
          PROVE  link'[k] = [link[k] EXCEPT !.live = FALSE]
      <4>1. k \in Links BY DEF LiveLinks
      <4>2. QED BY <2>1, <4>1 DEF Replaced
    <3>2. QED BY <2>1, <3>1 DEF Replaced, Unused
  <2>4. ASSUME NEW k \in LiveLinks(g) \ {l}
        PROVE  link'[k].guest = g /\ ~link'[k].live
    <3>1. link[k] \in Link /\ link[k].guest = g BY <1>1 DEF LiveLinks, RowsTyped
    <3>2. QED BY <2>3, <3>1 DEF Link
  <2>5. LiveLinks(g)' = {l}
    <3>1. ASSUME NEW k \in Links \ {l} PROVE k \notin LiveLinks(g)'
      BY <2>3, <2>4 DEF LiveLinks
    <3>2. [guest |-> g, live |-> TRUE] \in Link BY <2>2 DEF Link
    <3>3. l \in LiveLinks(g)' BY <2>1, <2>3, <3>2, NoRowAssumption DEF LiveLinks, Unused
    <3>4. LiveLinks(g)' \subseteq Links BY DEF LiveLinks
    <3>5. QED BY <3>1, <3>3, <3>4
  <2>6. ASSUME NEW h \in Guests \ {g} PROVE LiveLinks(h)' = LiveLinks(h)
    BY <2>1, <2>3, <2>4 DEF LiveLinks, Unused
  <2>7. QED BY <2>1, <2>2, <2>5, <2>6 DEF OneLiveLink
<1>5. CASE BeginInvite(q) \/ BeginReplace(q) \/ BeginReply(q) \/ SaveReply(q)
  <2>1. UNCHANGED <<guest, link>>
    BY <1>5 DEF BeginInvite, BeginReplace, BeginReply, SaveReply, guestVars, linkVars
  <2>2. QED BY <1>2, <2>1
<1>6. QED BY <1>3, <1>4, <1>5 DEF LinkStep, InvitationRoutes, PublicRoutes

\* An import and what the other calls do to guests and links.
LEMMA ImportKeepsLinks ==
  ASSUME Typed, OneLiveLink, NEW q \in Requests, ImportStep(q)
  PROVE  OneLiveLink'
<1>1. Stays BY ImportCallsTyped DEF RowsGoOn
<1>2. CASE CommitImport(q)
  <2>1. UNCHANGED link BY <1>2 DEF CommitImport, linkVars
  <2>2. \E p : Inserted(p) BY <1>2 DEF CommitImport
  <2>3. ASSUME NEW g \in Present PROVE guest'[g] = guest[g]
    BY <2>2 DEF Inserted, Present
  <2>4. Calm BY <2>1, <2>3 DEF Calm
  <2>5. QED BY <1>1, <2>4, CalmKeepsLinks
<1>3. CASE ~CommitImport(q)
  <2>1. UNCHANGED <<guest, link>>
    BY <1>3 DEF ImportStep, Stage, LoadForMapping, BuildRows, ReplacePreview, BeginCommit,
                InsertGuests, RepeatCommit, guestVars, linkVars
  <2>2. QED BY <2>1 DEF OneLiveLink, LiveLinks
<1>4. QED BY <1>2, <1>3

LEMMA OneLiveLinkStep == Typed /\ OneLiveLink /\ [Next]_vars => OneLiveLink'
<1> SUFFICES ASSUME Typed, OneLiveLink, [Next]_vars PROVE OneLiveLink'
  OBVIOUS
<1>1. CASE UNCHANGED <<guest, link>> BY <1>1 DEF OneLiveLink, LiveLinks
<1>2. ASSUME NEW q \in Requests, GuestCalls(q) \/ LinkCalls(q) \/ ImportCalls(q)
      PROVE  OneLiveLink'
  BY <1>2, GuestsKeepLinks, LinksKeepLinks, ImportKeepsLinks
  DEF GuestCalls, LinkCalls, ImportCalls
<1>3. ASSUME NEW q \in Requests, SeatCalls(q) PROVE UNCHANGED <<guest, link>>
  BY <1>3 DEF SeatCalls, SeatStep, BeginAddTable, CountTables, AddTable, BeginResizeTable,
              ReadUsage, ResizeTable, DeleteTable, BeginAssign, ReadSeat, ReadRoom, Assign,
              guestVars, linkVars
<1>4. ASSUME NEW q \in Requests,
             LedgerCalls(q) \/ TemplateCalls(q) \/ Wait(q) \/ Fail(q)
      PROVE  UNCHANGED <<guest, link>>
  BY <1>4 DEF LedgerCalls, TemplateCalls, Wait, LockNext, ShareNext, Fail, Refuse, guestVars, linkVars
<1>5. ASSUME UNCHANGED Others \/ UNCHANGED vars PROVE UNCHANGED <<guest, link>>
  BY <1>5 DEF Others, vars, guestVars, linkVars
<1>6. QED BY <1>1, <1>2, <1>3, <1>4, <1>5 DEF Next

LEMMA OneLiveLinkInit == Init => OneLiveLink
<1> SUFFICES ASSUME Init PROVE OneLiveLink
  OBVIOUS
<1>1. PICK rows \in InitialRows : guest = rows.guest /\ link = rows.link BY DEF Init
<1>2. ASSUME NEW l \in Links, link[l] # None, link[l].live
      PROVE  /\ guest[link[l].guest] # None /\ ~guest[link[l].guest].archived
             /\ \A k \in Links \ {l} :
                  link[k] = None \/ ~link[k].live \/ link[k].guest # link[l].guest
  BY <1>1, <1>2, RowsAssumption
<1>3. QED BY <1>2 DEF OneLiveLink, LiveLinks

\* However invitations are sent and replaced and guests archived and restored at
\* the same time, a guest has one live link at most, and an archived guest none.
THEOREM LinksAreSingle == Spec => []OneLiveLink
<1>1. Typed /\ OneLiveLink /\ [Next]_vars => OneLiveLink' BY OneLiveLinkStep
<1>2. QED BY <1>1, OneLiveLinkInit, AlwaysTyped, PTL DEF Spec

\* A reply that waited for its link's row reads the link again; the guest cannot
\* have been archived meanwhile without the link having been revoked.
LEMMA RepliesStep ==
  ASSUME Typed, OneLiveLink, [Next]_vars, NEW g \in Guests, rsvp'[g] # rsvp[g]
  PROVE  rsvp'[g] # None /\ Opens(rsvp'[g].via) /\ link[rsvp'[g].via].guest = g
<1>1. ASSUME NEW q \in Requests, LinkCalls(q)
      PROVE  rsvp'[g] # None /\ Opens(rsvp'[g].via) /\ link[rsvp'[g].via].guest = g
  <2>1. SaveReply(q)
    BY <1>1 DEF LinkCalls, LinkStep, InvitationRoutes, PublicRoutes, BeginInvite, Invite,
                BeginReplace, Replace, BeginReply, linkVars
  <2>2. PICK l \in Links : l = call[q].link /\ link[l] # None
    BY <2>1 DEF SaveReply, Running, Typed, CallInv, Fits, Issued
  <2>3. PICK size \in Answers :
          rsvp' = [rsvp EXCEPT ![link[l].guest] = [size |-> size, via |-> l]]
    BY <2>1, <2>2 DEF SaveReply
  <2>4. link[l].guest = g /\ rsvp'[g] = [size |-> size, via |-> l]
    BY <2>3 DEF Typed, RowsTyped
  <2>5. rsvp'[g] # None
    <3>1. [size |-> size, via |-> l] \in Reply BY DEF Reply, Answers
    <3>2. QED BY <2>4, <3>1, NoRowAssumption
  <2>6. l \in LiveLinks(g)
    BY <2>1, <2>2, <2>4 DEF SaveReply, StillOpens, LiveLinks
  <2>7. Opens(l) BY <2>4, <2>6 DEF OneLiveLink, LiveLinks, Opens
  <2>8. QED BY <2>4, <2>5, <2>7
<1>2. ASSUME NEW q \in Requests, GuestCalls(q) PROVE UNCHANGED rsvp
  BY <1>2 DEF GuestCalls, GuestStep, SideRoutes, GuestRoutes, BeginAddSide, PlaceSide, AddSide,
              BeginOrderSides, OrderSides, BeginDropSide, FindMembers, DropSide, BeginAddGuest, AddGuest,
              BeginSetSide, SetSide, BeginUpdateGuest, BeginResizeParty, CheckSeat, ResizeParty, UpdateGuest,
              BeginArchive, BeginBulkArchive, Archive, Restore, BeginBulkSide, BulkSide, linkVars
<1>3. ASSUME NEW q \in Requests, SeatCalls(q) \/ ImportCalls(q) PROVE UNCHANGED rsvp
  BY <1>3 DEF SeatCalls, SeatStep, BeginAddTable, CountTables, AddTable, BeginResizeTable,
              ReadUsage, ResizeTable, DeleteTable, BeginAssign, ReadSeat, ReadRoom, Assign,
              ImportCalls, ImportStep, Stage, LoadForMapping, BuildRows, ReplacePreview,
              BeginCommit, InsertGuests, CommitImport, RepeatCommit, linkVars
<1>4. ASSUME NEW q \in Requests,
             LedgerCalls(q) \/ TemplateCalls(q) \/ Wait(q) \/ Fail(q)
      PROVE  UNCHANGED rsvp
  BY <1>4 DEF LedgerCalls, TemplateCalls, Wait, LockNext, ShareNext, Fail, Refuse, linkVars
<1>5. ASSUME UNCHANGED Others \/ UNCHANGED vars PROVE UNCHANGED rsvp
  BY <1>5 DEF Others, vars, linkVars
<1>6. QED BY <1>1, <1>2, <1>3, <1>4, <1>5 DEF Next

\* The public page stores a reply only through a link that is open when the reply
\* is stored, although the statement that stores it looked for the link earlier.
THEOREM RepliesNeedOpenLinks == Spec => RepliesComeThroughOpenLinks
<1>1. Typed /\ OneLiveLink /\ [Next]_vars =>
        [\A g \in Guests :
           rsvp'[g] # rsvp[g] => /\ rsvp'[g] # None /\ Opens(rsvp'[g].via)
                                 /\ link[rsvp'[g].via].guest = g]_vars
  BY RepliesStep
<1>2. QED
  BY <1>1, AlwaysTyped, LinksAreSingle, PTL DEF Spec, RepliesComeThroughOpenLinks

-----------------------------------------------------------------------------
(* What a call decided stays true until it ends.                            *)

LEMMA CallKept ==
  ASSUME CallInv, NEW q \in Requests, NEW ops, CallStep(q, ops), NEW p \in Requests,
         p # q \/ call'[p].op \notin ops \cup {"none"}
  PROVE  /\ call'[p].op = call[p].op /\ call'[p].size = call[p].size
         /\ call'[p].table = call[p].table /\ call'[p].currency = call[p].currency
         /\ locks[p] \subseteq locks'[p]
<1>1. CASE p # q BY <1>1, StepOfOne
<1>2. CASE p = q
  <2>1. PICK c \in Call, held \in SUBSET Rows :
          /\ call' = [call EXCEPT ![q] = c] /\ locks' = [locks EXCEPT ![q] = held]
          /\ \/ c.op \in ops \cup {"none"}
             \/ c = [call[q] EXCEPT !.need = c.need, !.shares = c.shares] /\ locks[q] \subseteq held
    BY DEF CallStep
  <2>2. call'[p] = c /\ locks'[p] = held BY <1>2, <2>1 DEF CallInv
  <2>3. c.op \notin ops \cup {"none"} BY <1>2, <2>2
  <2>4. call[q] \in Call /\ c = [call[q] EXCEPT !.need = c.need, !.shares = c.shares] /\ locks[q] \subseteq held
    BY <2>1, <2>3 DEF CallInv
  <2>5. /\ c.op = call[q].op /\ c.size = call[q].size
        /\ c.table = call[q].table /\ c.currency = call[q].currency
    BY <2>4 DEF Call
  <2>6. QED BY <1>2, <2>2, <2>4, <2>5
<1>3. QED BY <1>1, <1>2

\* One call at a time holds the wedding's row.
LEMMA WeddingAlone ==
  ASSUME CallInv, NEW p \in Requests, NEW q \in Requests,
         call[p].op \in WeddingOps, call[q].op \in WeddingOps
  PROVE  p = q
BY DEF CallInv, Fits

-----------------------------------------------------------------------------
(* Sides.                                                                   *)

SidesInv ==
  /\ SidesInOrder /\ Cardinality(Sides) <= MaxAffiliations
  /\ \A q \in Requests : call[q].op = "newSide" =>
       /\ Cardinality(Sides) < MaxAffiliations
       /\ \A a \in Affiliations : aff[a] < call[q].size

LEMMA SidesFinite == IsFiniteSet(Sides) /\ Cardinality(Sides) \in Nat
<1>1. Sides \subseteq Affiliations BY DEF Sides
<1>2. IsFiniteSet(Sides) BY <1>1, WeddingAssumption, FS_Subset
<1>3. QED BY <1>2, FS_CardinalityType

LEMMA SidesStay ==
  ASSUME SidesInv, UNCHANGED aff,
         \A p \in Requests : call'[p].op = "newSide" =>
           call[p].op = "newSide" /\ call'[p].size = call[p].size
  PROVE  SidesInv'
<1>1. Sides' = Sides BY DEF Sides
<1>2. SidesInOrder' BY <1>1 DEF SidesInv, SidesInOrder
<1>3. QED BY <1>1, <1>2 DEF SidesInv

\* No call waits to add a side while another changes the sides.
LEMMA SidesChange ==
  ASSUME Typed, NEW q \in Requests, Done(q), call[q].op \in WeddingOps,
         NEW p \in Requests
  PROVE  call'[p].op # "newSide"
<1>1. CASE p = q BY <1>1, IdleAfterDone DEF Typed
<1>2. CASE p # q
  <2>1. call'[p] = call[p] BY <1>2 DEF Done, Typed, CallInv
  <2>2. QED BY <1>2, <2>1, WeddingAlone DEF Typed, WeddingOps
<1>3. QED BY <1>1, <1>2

LEMMA AddGuestCall ==
  ASSUME CallInv, NEW q \in Requests, BeginAddGuest(q)
  PROVE  call'[q].op \in {"newGuest", "addGuest"}
<1>1. CASE Take(q, {}, [Idle EXCEPT !.op = "newGuest", !.need = {Wedding}])
  BY <1>1 DEF Take, Idle, CallInv
<1>2. CASE \E a \in Sides :
          Take(q, {Wedding}, [Idle EXCEPT !.op = "addGuest", !.aff = a, !.need = {a}])
  BY <1>2 DEF Take, Idle, CallInv
<1>3. QED BY <1>1, <1>2 DEF BeginAddGuest

LEMMA OnlyPlaced ==
  ASSUME CallInv, NEW q \in Requests, GuestStep(q), ~PlaceSide(q)
  PROVE  call'[q].op # "newSide"
<1>1. CASE BeginAddSide(q) BY <1>1 DEF BeginAddSide, Take, Idle, CallInv
<1>2. CASE BeginOrderSides(q) BY <1>2 DEF BeginOrderSides, Take, Idle, CallInv
<1>3. CASE BeginDropSide(q) BY <1>3 DEF BeginDropSide, Take, Idle, CallInv
<1>4. CASE BeginAddGuest(q) BY <1>4, AddGuestCall
<1>5. CASE BeginSetSide(q) BY <1>5 DEF BeginSetSide, Take, Idle, CallInv
<1>6. CASE BeginResizeParty(q) BY <1>6 DEF BeginResizeParty, Take, Idle, CallInv
<1>7. CASE BeginArchive(q) BY <1>7 DEF BeginArchive, Take, Idle, CallInv
<1>8. CASE BeginBulkArchive(q) BY <1>8 DEF BeginBulkArchive, Take, Idle, CallInv
<1>9. CASE BeginBulkSide(q) BY <1>9 DEF BeginBulkSide, Take, Idle, CallInv
<1>10. CASE CheckSeat(q)
  <2>1. PICK size : Decide(q, [call[q] EXCEPT !.op = "checked", !.size = size])
    BY <1>10 DEF CheckSeat
  <2>2. call'[q] = [call[q] EXCEPT !.op = "checked", !.size = size]
    BY <2>1 DEF Decide, CallInv
  <2>3. call[q] \in Call BY DEF CallInv
  <2>4. QED BY <2>2, <2>3 DEF Call
<1>11. CASE Restore(q) BY <1>11 DEF Restore, Once, Idle
<1>12. CASE Done(q) BY <1>12, IdleAfterDone
<1>13. CASE BeginUpdateGuest(q) BY <1>13 DEF BeginUpdateGuest, Take, Patch, Idle, CallInv
<1>14. CASE ResizeParty(q) BY <1>14 DEF ResizeParty, Decide, Patch, Idle, CallInv
<1>15. CASE FindMembers(q)
  <2>1. PICK need : call'[q] = [call[q] EXCEPT !.op = "emptySide", !.need = need]
    BY <1>15 DEF FindMembers, Decide, CallInv
  <2>2. call[q] \in Call BY DEF CallInv
  <2>3. QED BY <2>1, <2>2 DEF Call
<1>16. QED
  BY <1>1, <1>2, <1>3, <1>4, <1>5, <1>6, <1>7, <1>8, <1>9, <1>10, <1>11, <1>12, <1>13,
     <1>14, <1>15
  DEF GuestStep, SideRoutes, GuestRoutes, AddSide, OrderSides, DropSide, AddGuest, SetSide,
      UpdateGuest, Archive, BulkSide

LEMMA GuestsKeepSides ==
  ASSUME Typed, SidesInv, NEW q \in Requests, GuestStep(q)
  PROVE  SidesInv'
<1>1. /\ aff \in [Affiliations -> Nat \cup {-1}] /\ CallInv
      /\ call[q] \in Call /\ CallStep(q, GuestOps)
  BY GuestCallsTyped DEF Typed, RowsTyped, CallInv
<1>2. Cardinality(Sides) \in Nat /\ IsFiniteSet(Sides) BY SidesFinite
<1>3. CASE PlaceSide(q)
  <2>1. /\ call' = [call EXCEPT ![q] = [call[q] EXCEPT !.op = "newSide", !.size = NextPosition]]
        /\ Cardinality(Sides) < MaxAffiliations /\ call[q].op = "addSide" /\ UNCHANGED aff
    BY <1>3 DEF PlaceSide, Running, Decide, guestVars
  <2>2. call'[q].size = NextPosition BY <1>1, <2>1 DEF CallInv, Call
  <2>3. Sides' = Sides BY <2>1 DEF Sides
  <2>4. \A a \in Affiliations : aff[a] < NextPosition BY <1>1, NextPositionIsLast
  <2>5. ASSUME NEW p \in Requests, call'[p].op = "newSide"
        PROVE  /\ Cardinality(Sides') < MaxAffiliations
               /\ \A a \in Affiliations : aff'[a] < call'[p].size
    <3>1. CASE p = q BY <2>1, <2>2, <2>3, <2>4, <3>1
    <3>2. CASE p # q
      <4>1. call[p].op = "newSide" BY <1>1, <2>5, <3>2, StepOfOne
      <4>2. QED BY <1>1, <2>1, <3>2, <4>1, WeddingAlone DEF WeddingOps
    <3>3. QED BY <3>1, <3>2
  <2>6. SidesInOrder' BY <2>1, <2>3 DEF SidesInv, SidesInOrder
  <2>7. QED BY <2>3, <2>5, <2>6 DEF SidesInv
<1>4. CASE AddSide(q)
  <2>1. PICK a \in Affiliations \ Sides : aff' = [aff EXCEPT ![a] = call[q].size]
    BY <1>4 DEF AddSide
  <2>2. /\ Cardinality(Sides) < MaxAffiliations /\ call[q].size \in Nat
        /\ \A b \in Affiliations : aff[b] < call[q].size
    BY <1>1, <1>4 DEF AddSide, Running, SidesInv, Call
  <2>3. aff'[a] = call[q].size /\ \A b \in Affiliations \ {a} : aff'[b] = aff[b]
    BY <1>1, <2>1
  <2>4. Sides' = Sides \cup {a} BY <1>1, <2>2, <2>3 DEF Sides
  <2>5. Cardinality(Sides \cup {a}) = Cardinality(Sides) + 1
    BY <1>2, <2>1, FS_AddElement
  <2>6. Cardinality(Sides') <= MaxAffiliations
    BY <1>2, <2>2, <2>4, <2>5, WeddingAssumption
  <2>7. SidesInOrder'
    <3>1. ASSUME NEW b \in Sides', NEW k \in Sides', b # k PROVE aff'[b] # aff'[k]
      <4>1. \A j \in Sides : aff'[j] = aff[j] /\ aff'[j] < call[q].size /\ aff'[j] \in Int
        BY <1>1, <2>1, <2>2, <2>3 DEF Sides
      <4>2. CASE b \in Sides /\ k \in Sides
        BY <3>1, <4>1, <4>2 DEF SidesInv, SidesInOrder
      <4>3. CASE b = a \/ k = a BY <2>2, <2>3, <2>4, <3>1, <4>1, <4>3
      <4>4. QED BY <2>4, <4>2, <4>3
    <3>2. QED BY <3>1 DEF SidesInOrder
  <2>8. \A p \in Requests : call'[p].op # "newSide"
    BY <1>4, SidesChange DEF AddSide, Running, WeddingOps
  <2>9. QED BY <2>6, <2>7, <2>8 DEF SidesInv
<1>5. CASE OrderSides(q)
  <2>1. aff' \in Orders /\ Sides' = Sides
    BY <1>5 DEF OrderSides, Reordered, Sides
  <2>2. SidesInOrder' BY <2>1 DEF Orders, SidesInOrder, Sides
  <2>3. \A p \in Requests : call'[p].op # "newSide"
    BY <1>5, SidesChange DEF OrderSides, Running, WeddingOps
  <2>4. QED BY <2>1, <2>2, <2>3 DEF SidesInv
<1>6. CASE DropSide(q)
  <2>1. aff' = [aff EXCEPT ![call[q].aff] = -1] BY <1>6 DEF DropSide
  <2>2. Sides' \subseteq Sides /\ \A a \in Sides' : aff'[a] = aff[a]
    BY <1>1, <2>1 DEF Sides
  <2>3. Cardinality(Sides') <= Cardinality(Sides) /\ Cardinality(Sides') \in Nat
    BY <1>2, <2>2, FS_Subset, FS_CardinalityType
  <2>4. Cardinality(Sides') <= MaxAffiliations
    BY <1>2, <2>3, WeddingAssumption DEF SidesInv
  <2>5. SidesInOrder' BY <2>2 DEF SidesInv, SidesInOrder
  <2>6. \A p \in Requests : call'[p].op # "newSide"
    BY <1>6, SidesChange DEF DropSide, Running, WeddingOps
  <2>7. QED BY <2>4, <2>5, <2>6 DEF SidesInv
<1>7. CASE ~PlaceSide(q) /\ ~AddSide(q) /\ ~OrderSides(q) /\ ~DropSide(q)
  <2>1. UNCHANGED aff
    BY <1>7 DEF GuestStep, SideRoutes, GuestRoutes, BeginAddSide, BeginOrderSides,
                BeginDropSide, FindMembers, BeginAddGuest, AddGuest, BeginSetSide, SetSide,
                BeginUpdateGuest,
                BeginResizeParty, CheckSeat, ResizeParty, UpdateGuest, BeginArchive, BeginBulkArchive,
                Archive, Restore, BeginBulkSide, BulkSide, guestVars
  <2>2. ASSUME NEW p \in Requests, call'[p].op = "newSide"
        PROVE  call[p].op = "newSide" /\ call'[p].size = call[p].size
    <3>1. p # q BY <1>1, <1>7, <2>2, OnlyPlaced
    <3>2. QED BY <1>1, <2>2, <3>1, CallKept
  <2>3. QED BY <2>1, <2>2, SidesStay
<1>8. QED BY <1>3, <1>4, <1>5, <1>6, <1>7

\* The steps of other calls leave the sides as they are.
LEMMA OthersKeepSides ==
  ASSUME Typed, SidesInv, NEW q \in Requests, NEW ops, CallStep(q, ops),
         "newSide" \notin ops, UNCHANGED aff
  PROVE  SidesInv'
<1>1. ASSUME NEW p \in Requests, call'[p].op = "newSide"
      PROVE  call[p].op = "newSide" /\ call'[p].size = call[p].size
  BY <1>1, CallKept DEF Typed
<1>2. QED BY <1>1, SidesStay

-----------------------------------------------------------------------------
(* Tables.                                                                  *)

\* The table a call resizes is there and its row is locked.
TablesInv ==
  /\ Cardinality(TablesThere) <= MaxTables
  /\ \A q \in Requests :
       /\ call[q].op = "newTable" => Cardinality(TablesThere) < MaxTables
       /\ call[q].op \in {"resize", "resized"} =>
            call[q].table \in TablesThere /\ call[q].table \in locks[q]

LEMMA TablesFinite == IsFiniteSet(TablesThere) /\ Cardinality(TablesThere) \in Nat
<1>1. TablesThere \subseteq Tables BY DEF TablesThere
<1>2. IsFiniteSet(TablesThere) BY <1>1, WeddingAssumption, FS_Subset
<1>3. QED BY <1>2, FS_CardinalityType

LEMMA TablesStay ==
  ASSUME TablesInv, UNCHANGED table,
         \A p \in Requests : call'[p].op \in {"newTable", "resize", "resized"} =>
           /\ call'[p].op = call[p].op /\ call'[p].table = call[p].table
           /\ locks[p] \subseteq locks'[p]
  PROVE  TablesInv'
<1>1. TablesThere' = TablesThere BY DEF TablesThere
<1>2. QED BY <1>1 DEF TablesInv

LEMMA OthersKeepTables ==
  ASSUME Typed, TablesInv, NEW q \in Requests, NEW ops, CallStep(q, ops),
         ops \cap SeatOps = {}, UNCHANGED table
  PROVE  TablesInv'
<1>1. ASSUME NEW p \in Requests, call'[p].op \in {"newTable", "resize", "resized"}
      PROVE  /\ call'[p].op = call[p].op /\ call'[p].table = call[p].table
             /\ locks[p] \subseteq locks'[p]
  <2>1. call'[p].op \notin ops \cup {"none"} BY <1>1 DEF SeatOps
  <2>2. QED BY <2>1, CallKept DEF Typed
<1>2. QED BY <1>1, TablesStay

LEMMA SeatsKeepTables ==
  ASSUME Typed, TablesInv, NEW q \in Requests, SeatStep(q)
  PROVE  TablesInv'
<1>1. /\ table \in [Tables -> 0..MaxCapacity] /\ CallInv
      /\ call[q] \in Call /\ CallStep(q, SeatOps) /\ Fits(call[q], locks[q])
  BY SeatCallsTyped DEF Typed, RowsTyped, CallInv
<1>2. Cardinality(TablesThere) \in Nat /\ IsFiniteSet(TablesThere) BY TablesFinite
<1>3. \A p \in Requests \ {q} : call'[p] = call[p] /\ locks'[p] = locks[p]
  BY <1>1, StepOfOne
<1>4. ASSUME UNCHANGED table, call'[q].op \notin {"newTable", "resize", "resized"}
      PROVE  TablesInv'
  BY <1>3, <1>4, TablesStay
<1>5. CASE BeginAddTable(q)
  <2>1. call'[q].op = "addTable" BY <1>1, <1>5 DEF BeginAddTable, Take, Idle, CallInv
  <2>2. QED BY <1>4, <1>5, <2>1 DEF BeginAddTable, seatVars
<1>6. CASE BeginAssign(q)
  <2>1. call'[q].op = "assign" BY <1>1, <1>6 DEF BeginAssign, Take, Idle, CallInv
  <2>2. QED BY <1>4, <1>6, <2>1 DEF BeginAssign, seatVars
<1>7. CASE ReadSeat(q)
  <2>1. PICK need : Decide(q, [call[q] EXCEPT !.op = "seat", !.need = need])
    BY <1>7 DEF ReadSeat
  <2>2. call'[q] = [call[q] EXCEPT !.op = "seat", !.need = need]
    BY <1>1, <2>1 DEF Decide, CallInv
  <2>3. call'[q].op = "seat" BY <1>1, <2>2 DEF Call
  <2>4. QED BY <1>4, <1>7, <2>3 DEF ReadSeat, seatVars
<1>8. CASE ReadRoom(q)
  <2>1. call'[q] = [call[q] EXCEPT !.op = "seated"]
    BY <1>1, <1>8 DEF ReadRoom, Decide, CallInv
  <2>2. call'[q].op = "seated" BY <1>1, <2>1 DEF Call
  <2>3. QED BY <1>4, <1>8, <2>2 DEF ReadRoom, seatVars
<1>9. CASE Assign(q)
  <2>1. call'[q].op = "none" BY <1>1, <1>9, IdleAfterDone DEF Assign
  <2>2. QED BY <1>4, <1>9, <2>1 DEF Assign
<1>10. CASE CountTables(q)
  <2>1. call'[q] = [call[q] EXCEPT !.op = "newTable"]
    BY <1>1, <1>10 DEF CountTables, Decide, CallInv
  <2>2. call'[q].op = "newTable" BY <1>1, <2>1 DEF Call
  <2>3. TablesThere' = TablesThere BY <1>10 DEF CountTables, TablesThere, seatVars
  <2>4. Cardinality(TablesThere) < MaxTables BY <1>10 DEF CountTables
  <2>5. QED BY <1>3, <2>2, <2>3, <2>4 DEF TablesInv
<1>11. CASE BeginResizeTable(q)
  <2>1. PICK t \in TablesThere : Take(q, {t}, [Idle EXCEPT !.op = "resize", !.table = t])
    BY <1>11 DEF BeginResizeTable
  <2>2. call'[q] = [Idle EXCEPT !.op = "resize", !.table = t] /\ locks'[q] = {t}
    BY <1>1, <2>1 DEF Take, CallInv
  <2>3. call'[q].op = "resize" /\ call'[q].table = t BY <2>2 DEF Idle
  <2>4. TablesThere' = TablesThere BY <1>11 DEF BeginResizeTable, TablesThere, seatVars
  <2>5. QED BY <1>3, <2>1, <2>2, <2>3, <2>4 DEF TablesInv
<1>12. CASE ReadUsage(q)
  <2>1. PICK size : Decide(q, [call[q] EXCEPT !.op = "resized", !.size = size])
    BY <1>12 DEF ReadUsage
  <2>2. /\ call'[q] = [call[q] EXCEPT !.op = "resized", !.size = size]
        /\ locks'[q] = locks[q]
    BY <1>1, <2>1 DEF Decide, CallInv
  <2>3. call'[q].op = "resized" /\ call'[q].table = call[q].table
    BY <1>1, <2>2 DEF Call
  <2>4. TablesThere' = TablesThere BY <1>12 DEF ReadUsage, TablesThere, seatVars
  <2>5. call[q].op = "resize" BY <1>12 DEF ReadUsage, Running
  <2>6. QED BY <1>3, <2>2, <2>3, <2>4, <2>5 DEF TablesInv
<1>13. CASE AddTable(q)
  <2>1. PICK t \in Tables \ TablesThere, size \in Capacities :
          table' = [table EXCEPT ![t] = size]
    BY <1>13 DEF AddTable
  <2>2. table'[t] = size /\ size > 0 /\ \A u \in Tables \ {t} : table'[u] = table[u]
    BY <1>1, <2>1 DEF Capacities
  <2>3. TablesThere' = TablesThere \cup {t} BY <2>1, <2>2 DEF TablesThere
  <2>4. Cardinality(TablesThere') = Cardinality(TablesThere) + 1
    BY <1>2, <2>1, <2>3, FS_AddElement
  <2>5. call[q].op = "newTable" BY <1>13 DEF AddTable, Running
  <2>6. Cardinality(TablesThere') <= MaxTables
    BY <1>2, <2>4, <2>5, WeddingAssumption DEF TablesInv
  <2>7. call'[q].op = "none" BY <1>1, <1>13, IdleAfterDone DEF AddTable
  <2>8. ASSUME NEW p \in Requests PROVE call'[p].op # "newTable"
    BY <1>1, <1>3, <2>5, <2>7, WeddingAlone DEF WeddingOps
  <2>9. QED BY <1>3, <2>3, <2>6, <2>7, <2>8 DEF TablesInv
<1>14. CASE ResizeTable(q)
  <2>1. /\ call[q].op = "resized" /\ call[q].table \in TablesThere
        /\ call[q].size \in Capacities
    BY <1>1, <1>14 DEF ResizeTable, Running, TablesInv, Fits
  <2>2. table' = [table EXCEPT ![call[q].table] = call[q].size] BY <1>14 DEF ResizeTable
  <2>3. TablesThere' = TablesThere BY <1>1, <2>1, <2>2 DEF TablesThere, Capacities
  <2>4. call'[q].op = "none" BY <1>1, <1>14, IdleAfterDone DEF ResizeTable
  <2>5. QED BY <1>3, <2>3, <2>4 DEF TablesInv
<1>15. CASE DeleteTable(q)
  <2>1. PICK t \in TablesThere : Free(q, {t}) /\ table' = [table EXCEPT ![t] = 0] /\ Once(q)
    BY <1>15 DEF DeleteTable
  <2>2. t \in Tables /\ TablesThere' = TablesThere \ {t} BY <1>1, <2>1 DEF TablesThere
  <2>3. Cardinality(TablesThere') <= Cardinality(TablesThere)
    BY <1>2, <2>2, FS_Subset
  <2>4. Cardinality(TablesThere') \in Nat BY <1>2, <2>2, FS_Subset, FS_CardinalityType
  <2>5. call'[q].op = "none" BY <2>1 DEF Once, Idle
  <2>6. \A p \in Requests \ {q} : t \notin locks[p] BY <2>1 DEF Free
  <2>7. Cardinality(TablesThere') <= MaxTables
    BY <1>2, <2>3, <2>4, WeddingAssumption DEF TablesInv
  <2>8. ASSUME NEW p \in Requests, call'[p].op = "newTable"
        PROVE  Cardinality(TablesThere') < MaxTables
    <3>1. call[p].op = "newTable" BY <1>3, <2>5, <2>8
    <3>2. QED BY <1>2, <2>3, <2>4, <3>1, WeddingAssumption DEF TablesInv
  <2>9. ASSUME NEW p \in Requests, call'[p].op \in {"resize", "resized"}
        PROVE  call'[p].table \in TablesThere' /\ call'[p].table \in locks'[p]
    <3>1. p # q BY <2>5, <2>9
    <3>2. call[p].table \in TablesThere /\ call[p].table \in locks[p]
      BY <1>3, <2>9, <3>1 DEF TablesInv
    <3>3. QED BY <1>3, <2>2, <2>6, <3>1, <3>2
  <2>10. QED BY <2>7, <2>8, <2>9 DEF TablesInv
<1>16. QED
  BY <1>5, <1>6, <1>7, <1>8, <1>9, <1>10, <1>11, <1>12, <1>13, <1>14, <1>15 DEF SeatStep

-----------------------------------------------------------------------------
(* Envelope templates.                                                      *)

TemplatesInv ==
  /\ Cardinality(template) <= MaxTemplates
  /\ \A q \in Requests : call[q].op = "newTemplate" => Cardinality(template) < MaxTemplates

LEMMA OthersKeepTemplates ==
  ASSUME Typed, TemplatesInv, NEW q \in Requests, NEW ops, CallStep(q, ops),
         "newTemplate" \notin ops, UNCHANGED template
  PROVE  TemplatesInv'
<1>1. ASSUME NEW p \in Requests, call'[p].op = "newTemplate" PROVE call[p].op = "newTemplate"
  BY <1>1, CallKept DEF Typed
<1>2. QED BY <1>1 DEF TemplatesInv

LEMMA TemplatesKept ==
  ASSUME Typed, TemplatesInv, NEW q \in Requests, TemplateStep(q)
  PROVE  TemplatesInv'
<1>1. /\ CallInv /\ call[q] \in Call /\ CallStep(q, TemplateOps)
  BY TemplateCallsTyped DEF Typed, CallInv
<1>2. Cardinality(template) \in Nat /\ IsFiniteSet(template)
  BY TemplatesAssumption, FS_Subset, FS_CardinalityType DEF Typed
<1>3. \A p \in Requests \ {q} : call'[p] = call[p] BY <1>1, StepOfOne
<1>4. CASE BeginAddTemplate(q)
  <2>1. call'[q].op = "addTemplate" BY <1>1, <1>4 DEF BeginAddTemplate, Take, Idle, CallInv
  <2>2. QED BY <1>3, <1>4, <2>1 DEF BeginAddTemplate, TemplatesInv
<1>5. CASE CountTemplates(q)
  <2>1. Cardinality(template) < MaxTemplates /\ UNCHANGED template
    BY <1>5 DEF CountTemplates
  <2>2. QED BY <2>1 DEF TemplatesInv
<1>6. CASE AddTemplate(q)
  <2>1. PICK e \in Templates \ template : template' = template \cup {e}
    BY <1>6 DEF AddTemplate
  <2>2. call[q].op = "newTemplate" BY <1>6 DEF AddTemplate, Running
  <2>3. Cardinality(template') = Cardinality(template) + 1
    BY <1>2, <2>1, FS_AddElement
  <2>4. Cardinality(template') <= MaxTemplates
    BY <1>2, <2>2, <2>3, TemplatesAssumption DEF TemplatesInv
  <2>5. call'[q].op = "none" BY <1>1, <1>6, IdleAfterDone DEF AddTemplate
  <2>6. ASSUME NEW p \in Requests PROVE call'[p].op # "newTemplate"
    BY <1>1, <1>3, <2>2, <2>5, WeddingAlone DEF WeddingOps
  <2>7. QED BY <2>4, <2>6 DEF TemplatesInv
<1>7. CASE DeleteTemplate(q)
  <2>1. PICK e \in template : template' = template \ {e} /\ Once(q)
    BY <1>7 DEF DeleteTemplate
  <2>2. Cardinality(template') <= Cardinality(template) /\ Cardinality(template') \in Nat
    BY <1>2, <2>1, FS_Subset, FS_CardinalityType
  <2>3. UNCHANGED call BY <2>1 DEF Once
  <2>4. QED BY <1>2, <2>2, <2>3, TemplatesAssumption DEF TemplatesInv
<1>8. QED BY <1>4, <1>5, <1>6, <1>7 DEF TemplateStep

-----------------------------------------------------------------------------
(* The budget.                                                              *)

\* What a call has decided about the ledger under the wedding's lock.
LedgerInv ==
  /\ AmountsKeepTheirCurrency
  /\ Cardinality(category) <= MaxCategories
  /\ \A q \in Requests :
       /\ call[q].op = "newCategory" => Cardinality(category) < MaxCategories
       /\ call[q].op = "newBudget" => MayUse(call[q].currency)
       /\ call[q].op \in {"newVendor", "newExpense"} => call[q].currency = currency

Decided == {"newCategory", "newBudget", "newVendor", "newExpense"}

LEMMA OthersKeepLedger ==
  ASSUME Typed, LedgerInv, NEW q \in Requests, NEW ops, CallStep(q, ops),
         ops \cap LedgerOps = {}, UNCHANGED ledgerVars
  PROVE  LedgerInv'
<1>1. UNCHANGED <<currency, category, quote, cost>> BY DEF ledgerVars
<1>2. ASSUME NEW p \in Requests, call'[p].op \in Decided
      PROVE  call[p].op = call'[p].op /\ call'[p].currency = call[p].currency
  <2>1. call'[p].op \notin ops \cup {"none"} BY <1>2 DEF LedgerOps, Decided
  <2>2. QED BY <2>1, CallKept DEF Typed
<1>3. QED
  BY <1>1, <1>2 DEF LedgerInv, Decided, AmountsKeepTheirCurrency, MayUse, Costs, Quotes

LEMMA CategoriesFinite ==
  ASSUME Typed
  PROVE  IsFiniteSet(category) /\ Cardinality(category) \in Nat
BY LedgerAssumption, FS_Subset, FS_CardinalityType DEF Typed, LedgerTypeOK

\* A step of q that leaves q undecided and the others' decisions true.
LEMMA LedgerWritten ==
  ASSUME Typed, LedgerInv, NEW q \in Requests, CallStep(q, LedgerOps),
         call'[q].op \notin Decided, AmountsKeepTheirCurrency',
         Cardinality(category') <= MaxCategories,
         \/ call[q].op \in WeddingOps
         \/ category' = category /\ currency' = currency
            /\ Costs' \subseteq Costs /\ Quotes' \subseteq Quotes
  PROVE  LedgerInv'
<1>1. CallInv BY DEF Typed
<1>2. ASSUME NEW p \in Requests, call'[p].op \in Decided
      PROVE  /\ category' = category /\ currency' = currency
             /\ Costs' \subseteq Costs /\ Quotes' \subseteq Quotes
             /\ call'[p] = call[p]
  <2>1. p # q BY <1>2
  <2>2. call'[p] = call[p] BY <1>1, <2>1, StepOfOne
  <2>3. call[q].op \notin WeddingOps
    BY <1>1, <1>2, <2>1, <2>2, WeddingAlone DEF Decided, WeddingOps
  <2>4. QED BY <2>2, <2>3
<1>3. QED BY <1>2 DEF LedgerInv, Decided, MayUse

LEMMA BudgetKept ==
  ASSUME Typed, LedgerInv, NEW q \in Requests, BudgetRoutes(q)
  PROVE  LedgerInv'
<1>1. /\ CallInv /\ call[q] \in Call /\ LedgerTypeOK /\ CallStep(q, LedgerOps)
  BY LedgerCallsTyped DEF Typed, CallInv, LedgerStep
<1>2. \A p \in Requests \ {q} : call'[p] = call[p] BY <1>1, StepOfOne
<1>3. CASE BeginBudget(q)
  <2>1. call'[q].op = "budget" BY <1>1, <1>3 DEF BeginBudget, Take, Idle, CallInv
  <2>2. UNCHANGED <<currency, category, quote, cost>> BY <1>3 DEF BeginBudget, ledgerVars
  <2>3. QED BY <1>2, <2>1, <2>2 DEF LedgerInv, AmountsKeepTheirCurrency, MayUse, Costs, Quotes
<1>4. CASE CheckCurrency(q)
  <2>1. PICK c \in Currencies :
          MayUse(c) /\ Decide(q, [call[q] EXCEPT !.op = "newBudget", !.currency = c])
    BY <1>4 DEF CheckCurrency
  <2>2. call'[q] = [call[q] EXCEPT !.op = "newBudget", !.currency = c]
    BY <1>1, <2>1 DEF Decide, CallInv
  <2>3. call'[q].op = "newBudget" /\ call'[q].currency = c BY <1>1, <2>2 DEF Call
  <2>4. UNCHANGED <<currency, category, quote, cost>> BY <1>4 DEF CheckCurrency, ledgerVars
  <2>5. MayUse(c)' BY <2>1, <2>4 DEF MayUse, Costs, Quotes
  <2>6. QED
    BY <1>2, <2>3, <2>4, <2>5 DEF LedgerInv, AmountsKeepTheirCurrency, MayUse, Costs, Quotes
<1>5. CASE SetBudget(q)
  <2>1. /\ currency' = call[q].currency /\ UNCHANGED <<category, quote, cost>>
        /\ call[q].op = "newBudget" /\ MayUse(call[q].currency)
    BY <1>5 DEF SetBudget, Running, LedgerInv
  <2>2. Costs' = Costs /\ Quotes' = Quotes BY <2>1 DEF Costs, Quotes
  <2>3. AmountsKeepTheirCurrency'
    <3>1. CASE currency = call[q].currency
      BY <2>1, <2>2, <3>1 DEF LedgerInv, AmountsKeepTheirCurrency
    <3>2. CASE Costs = {} /\ Quotes = {}
      BY <2>2, <3>2 DEF AmountsKeepTheirCurrency
    <3>3. CASE currency = None
      <4>1. \A e \in Costs : cost[e].currency \in Currencies
        BY <1>1 DEF LedgerTypeOK, Costs, Cost
      <4>2. \A v \in Quotes : quote[v] \in Currencies BY DEF Quotes
      <4>3. Costs = {} /\ Quotes = {}
        BY <3>3, <4>1, <4>2, WeddingAssumption DEF LedgerInv, AmountsKeepTheirCurrency
      <4>4. QED BY <3>2, <4>3
    <3>4. QED BY <2>1, <3>1, <3>2, <3>3 DEF MayUse
  <2>4. call'[q].op = "none" BY <1>1, <1>5, IdleAfterDone DEF SetBudget
  <2>5. QED BY <1>1, <2>1, <2>3, <2>4, LedgerWritten DEF LedgerInv, Decided, WeddingOps
<1>6. QED BY <1>3, <1>4, <1>5 DEF BudgetRoutes

LEMMA CategoriesKept ==
  ASSUME Typed, LedgerInv, NEW q \in Requests, CategoryRoutes(q)
  PROVE  LedgerInv'
<1>1. /\ CallInv /\ call[q] \in Call /\ LedgerTypeOK /\ CallStep(q, LedgerOps)
  BY LedgerCallsTyped DEF Typed, CallInv, LedgerStep
<1>2. \A p \in Requests \ {q} : call'[p] = call[p] BY <1>1, StepOfOne
<1>3. Cardinality(category) \in Nat /\ IsFiniteSet(category) BY CategoriesFinite
<1>4. CASE BeginAddCategory(q)
  <2>1. call'[q].op = "addCategory" BY <1>1, <1>4 DEF BeginAddCategory, Take, Idle, CallInv
  <2>2. UNCHANGED <<currency, category, quote, cost>> BY <1>4 DEF BeginAddCategory, ledgerVars
  <2>3. QED BY <1>2, <2>1, <2>2 DEF LedgerInv, AmountsKeepTheirCurrency, MayUse, Costs, Quotes
<1>5. CASE CountCategories(q)
  <2>1. call'[q] = [call[q] EXCEPT !.op = "newCategory"]
    BY <1>1, <1>5 DEF CountCategories, Decide, CallInv
  <2>2. call'[q].op = "newCategory" BY <1>1, <2>1 DEF Call
  <2>3. UNCHANGED <<currency, category, quote, cost>> BY <1>5 DEF CountCategories, ledgerVars
  <2>4. Cardinality(category) < MaxCategories BY <1>5 DEF CountCategories
  <2>5. QED
    BY <1>2, <2>2, <2>3, <2>4 DEF LedgerInv, AmountsKeepTheirCurrency, MayUse, Costs, Quotes
<1>6. CASE AddCategory(q)
  <2>1. PICK k \in Categories \ category : category' = category \cup {k}
    BY <1>6 DEF AddCategory
  <2>2. call[q].op = "newCategory" /\ UNCHANGED <<currency, quote, cost>>
    BY <1>6 DEF AddCategory, Running
  <2>3. Cardinality(category') = Cardinality(category) + 1 BY <1>3, <2>1, FS_AddElement
  <2>4. Cardinality(category') <= MaxCategories
    BY <1>3, <2>2, <2>3, LedgerAssumption DEF LedgerInv
  <2>5. AmountsKeepTheirCurrency'
    BY <2>2 DEF LedgerInv, AmountsKeepTheirCurrency, Costs, Quotes
  <2>6. call'[q].op = "none" BY <1>1, <1>6, IdleAfterDone DEF AddCategory
  <2>7. QED BY <1>1, <2>2, <2>4, <2>5, <2>6, LedgerWritten DEF Decided, WeddingOps
<1>7. CASE BeginDropCategory(q)
  <2>1. call'[q].op = "dropCategory" BY <1>1, <1>7 DEF BeginDropCategory, Take, Idle, CallInv
  <2>2. UNCHANGED <<currency, category, quote, cost>> BY <1>7 DEF BeginDropCategory, ledgerVars
  <2>3. QED BY <1>2, <2>1, <2>2 DEF LedgerInv, AmountsKeepTheirCurrency, MayUse, Costs, Quotes
<1>8. CASE DropCategory(q)
  <2>1. /\ call[q].op = "dropCategory" /\ UNCHANGED <<currency, quote>>
        /\ category' = category \ {call[q].item}
        /\ cost' = [e \in Expenses |->
                      IF e \in Costs /\ cost[e].category = call[q].item
                      THEN [cost[e] EXCEPT !.category = None] ELSE cost[e]]
    BY <1>8 DEF DropCategory, Running
  <2>2. Cardinality(category') <= Cardinality(category) /\ Cardinality(category') \in Nat
    BY <1>3, <2>1, FS_Subset, FS_CardinalityType
  <2>3. Cardinality(category') <= MaxCategories
    BY <1>3, <2>2, LedgerAssumption DEF LedgerInv
  <2>4. AmountsKeepTheirCurrency'
    <3>1. ASSUME NEW e \in Costs' PROVE e \in Costs /\ cost'[e].currency = cost[e].currency
      BY <1>1, <2>1 DEF Costs, LedgerTypeOK, Cost
    <3>2. Quotes' = Quotes BY <2>1 DEF Quotes
    <3>3. QED BY <2>1, <3>1, <3>2 DEF LedgerInv, AmountsKeepTheirCurrency
  <2>5. call'[q].op = "none" BY <1>1, <1>8, IdleAfterDone DEF DropCategory
  <2>6. QED BY <1>1, <2>1, <2>3, <2>4, <2>5, LedgerWritten DEF Decided, WeddingOps
<1>9. QED BY <1>4, <1>5, <1>6, <1>7, <1>8 DEF CategoryRoutes

LEMMA VendorsKept ==
  ASSUME Typed, LedgerInv, NEW q \in Requests, VendorRoutes(q)
  PROVE  LedgerInv'
<1>1. /\ CallInv /\ call[q] \in Call /\ LedgerTypeOK /\ CallStep(q, LedgerOps)
  BY LedgerCallsTyped DEF Typed, CallInv, LedgerStep
<1>2. \A p \in Requests \ {q} : call'[p] = call[p] BY <1>1, StepOfOne
<1>3. CASE BeginQuote(q)
  <2>1. call'[q].op = "vendor" BY <1>1, <1>3 DEF BeginQuote, Take, Idle, CallInv
  <2>2. UNCHANGED <<currency, category, quote, cost>> BY <1>3 DEF BeginQuote, ledgerVars
  <2>3. QED BY <1>2, <2>1, <2>2 DEF LedgerInv, AmountsKeepTheirCurrency, MayUse, Costs, Quotes
<1>4. CASE ReadBudget(q)
  <2>1. call'[q] = [call[q] EXCEPT !.op = "newVendor", !.currency = currency]
    BY <1>1, <1>4 DEF ReadBudget, Decide, CallInv
  <2>2. call'[q].op = "newVendor" /\ call'[q].currency = currency BY <1>1, <2>1 DEF Call
  <2>3. UNCHANGED <<currency, category, quote, cost>> BY <1>4 DEF ReadBudget, ledgerVars
  <2>4. QED
    BY <1>2, <2>2, <2>3 DEF LedgerInv, AmountsKeepTheirCurrency, MayUse, Costs, Quotes
<1>5. CASE SaveQuote(q)
  <2>1. PICK v \in Vendors : quote' = [quote EXCEPT ![v] = call[q].currency]
    BY <1>5 DEF SaveQuote
  <2>2. /\ call[q].op = "newVendor" /\ call[q].currency = currency
        /\ UNCHANGED <<currency, category, cost>>
    BY <1>5 DEF SaveQuote, Running, LedgerInv
  <2>3. AmountsKeepTheirCurrency'
    <3>1. Costs' = Costs BY <2>2 DEF Costs
    <3>2. ASSUME NEW w \in Quotes' PROVE quote'[w] = currency
      <4>1. w \in Vendors /\ quote'[w] \in Currencies BY DEF Quotes
      <4>2. quote'[w] = IF w = v THEN currency ELSE quote[w]
        BY <1>1, <2>1, <2>2, <4>1 DEF LedgerTypeOK
      <4>3. QED BY <4>1, <4>2 DEF Quotes, LedgerInv, AmountsKeepTheirCurrency
    <3>3. QED BY <2>2, <3>1, <3>2 DEF LedgerInv, AmountsKeepTheirCurrency
  <2>4. call'[q].op = "none" BY <1>1, <1>5, IdleAfterDone DEF SaveQuote
  <2>5. QED BY <1>1, <2>2, <2>3, <2>4, LedgerWritten DEF LedgerInv, Decided, WeddingOps
<1>6. CASE SaveVendor(q)
  <2>1. PICK v \in Vendors : quote' = [quote EXCEPT ![v] = Unquoted] /\ Once(q)
    BY <1>6 DEF SaveVendor
  <2>2. UNCHANGED <<currency, category, cost>> BY <1>6 DEF SaveVendor
  <2>3. Costs' = Costs BY <2>2 DEF Costs
  <2>4. ASSUME NEW w \in Quotes' PROVE w \in Quotes /\ quote'[w] = quote[w]
    <3>1. w \in Vendors /\ quote'[w] \in Currencies BY DEF Quotes
    <3>2. quote'[w] = IF w = v THEN Unquoted ELSE quote[w]
      BY <1>1, <2>1, <3>1 DEF LedgerTypeOK
    <3>3. QED BY <3>1, <3>2, LedgerAssumption DEF Quotes
  <2>5. AmountsKeepTheirCurrency'
    BY <2>2, <2>3, <2>4 DEF LedgerInv, AmountsKeepTheirCurrency
  <2>6. call'[q].op = "none" BY <2>1 DEF Once, Idle
  <2>7. QED
    BY <1>1, <2>2, <2>3, <2>4, <2>5, <2>6, LedgerWritten DEF LedgerInv, Decided
<1>7. CASE BeginDropVendor(q)
  <2>1. call'[q].op = "dropVendor" BY <1>1, <1>7 DEF BeginDropVendor, Take, Idle, CallInv
  <2>2. UNCHANGED <<currency, category, quote, cost>> BY <1>7 DEF BeginDropVendor, ledgerVars
  <2>3. QED BY <1>2, <2>1, <2>2 DEF LedgerInv, AmountsKeepTheirCurrency, MayUse, Costs, Quotes
<1>8. CASE DropVendor(q)
  <2>1. /\ call[q].op = "dropVendor" /\ UNCHANGED <<currency, category>>
        /\ quote' = [quote EXCEPT ![call[q].item] = None]
        /\ cost' = [e \in Expenses |->
                      IF e \in Costs /\ cost[e].vendor = call[q].item
                      THEN [cost[e] EXCEPT !.vendor = None] ELSE cost[e]]
    BY <1>8 DEF DropVendor, Running
  <2>2. ASSUME NEW e \in Costs' PROVE e \in Costs /\ cost'[e].currency = cost[e].currency
    BY <1>1, <2>1 DEF Costs, LedgerTypeOK, Cost
  <2>3. ASSUME NEW w \in Quotes' PROVE w \in Quotes /\ quote'[w] = quote[w]
    <3>1. w \in Vendors /\ quote'[w] \in Currencies BY DEF Quotes
    <3>2. quote'[w] = IF w = call[q].item THEN None ELSE quote[w]
      BY <1>1, <2>1, <3>1 DEF LedgerTypeOK
    <3>3. QED BY <3>1, <3>2, WeddingAssumption DEF Quotes
  <2>4. AmountsKeepTheirCurrency'
    BY <2>1, <2>2, <2>3 DEF LedgerInv, AmountsKeepTheirCurrency
  <2>5. call'[q].op = "none" BY <1>1, <1>8, IdleAfterDone DEF DropVendor
  <2>6. QED
    BY <1>1, <2>1, <2>4, <2>5, LedgerWritten DEF LedgerInv, Decided, WeddingOps
<1>9. QED BY <1>3, <1>4, <1>5, <1>6, <1>7, <1>8 DEF VendorRoutes

LEMMA ExpensesKept ==
  ASSUME Typed, LedgerInv, NEW q \in Requests, ExpenseRoutes(q)
  PROVE  LedgerInv'
<1>1. /\ CallInv /\ call[q] \in Call /\ LedgerTypeOK /\ CallStep(q, LedgerOps)
  BY LedgerCallsTyped DEF Typed, CallInv, LedgerStep
<1>2. \A p \in Requests \ {q} : call'[p] = call[p] BY <1>1, StepOfOne
<1>3. CASE BeginExpense(q)
  <2>1. call'[q].op = "expense" BY <1>1, <1>3 DEF BeginExpense, Take, Idle, CallInv
  <2>2. UNCHANGED <<currency, category, quote, cost>> BY <1>3 DEF BeginExpense, ledgerVars
  <2>3. QED BY <1>2, <2>1, <2>2 DEF LedgerInv, AmountsKeepTheirCurrency, MayUse, Costs, Quotes
<1>4. CASE CheckBudget(q)
  <2>1. call'[q] = [call[q] EXCEPT !.op = "newExpense", !.currency = currency]
    BY <1>1, <1>4 DEF CheckBudget, Decide, CallInv
  <2>2. call'[q].op = "newExpense" /\ call'[q].currency = currency BY <1>1, <2>1 DEF Call
  <2>3. UNCHANGED <<currency, category, quote, cost>> BY <1>4 DEF CheckBudget, ledgerVars
  <2>4. QED
    BY <1>2, <2>2, <2>3 DEF LedgerInv, AmountsKeepTheirCurrency, MayUse, Costs, Quotes
<1>5. CASE SaveExpense(q)
  <2>0. PICK e \in Expenses : \E k, v :
          cost' = [cost EXCEPT ![e] = [currency |-> call[q].currency,
                                       category |-> k, vendor |-> v]]
    BY <1>5 DEF SaveExpense
  <2>1. PICK k, v :
          cost' = [cost EXCEPT ![e] = [currency |-> call[q].currency,
                                       category |-> k, vendor |-> v]]
    BY <2>0
  <2>2. /\ call[q].op = "newExpense" /\ call[q].currency = currency
        /\ UNCHANGED <<currency, category, quote>>
    BY <1>5 DEF SaveExpense, Running, LedgerInv
  <2>3. ASSUME NEW x \in Costs' PROVE cost'[x].currency = currency
    <3>1. x \in Expenses /\ cost'[x] # None BY DEF Costs
    <3>2. CASE x = e BY <1>1, <2>1, <2>2, <3>2 DEF LedgerTypeOK
    <3>3. CASE x # e
      BY <1>1, <2>1, <3>1, <3>3 DEF LedgerTypeOK, Costs, LedgerInv, AmountsKeepTheirCurrency
    <3>4. QED BY <3>2, <3>3
  <2>4. Quotes' = Quotes BY <2>2 DEF Quotes
  <2>5. AmountsKeepTheirCurrency'
    BY <2>2, <2>3, <2>4 DEF LedgerInv, AmountsKeepTheirCurrency
  <2>6. call'[q].op = "none" BY <1>1, <1>5, IdleAfterDone DEF SaveExpense
  <2>7. QED BY <1>1, <2>2, <2>5, <2>6, LedgerWritten DEF LedgerInv, Decided, WeddingOps
<1>6. CASE DeleteExpense(q)
  <2>1. PICK e \in Costs : cost' = [cost EXCEPT ![e] = None] /\ Once(q)
    BY <1>6 DEF DeleteExpense
  <2>2. UNCHANGED <<currency, category, quote>> BY <1>6 DEF DeleteExpense
  <2>3. Costs' \subseteq Costs /\ \A x \in Costs' : cost'[x] = cost[x]
    BY <1>1, <2>1 DEF Costs, LedgerTypeOK
  <2>4. Quotes' = Quotes BY <2>2 DEF Quotes
  <2>5. AmountsKeepTheirCurrency'
    BY <2>2, <2>3, <2>4 DEF LedgerInv, AmountsKeepTheirCurrency
  <2>6. call'[q].op = "none" BY <2>1 DEF Once, Idle
  <2>7. QED
    BY <1>1, <2>2, <2>3, <2>4, <2>5, <2>6, LedgerWritten DEF LedgerInv, Decided
<1>7. QED BY <1>3, <1>4, <1>5, <1>6 DEF ExpenseRoutes

LEMMA LedgerKept ==
  ASSUME Typed, LedgerInv, NEW q \in Requests, LedgerStep(q)
  PROVE  LedgerInv'
BY BudgetKept, CategoriesKept, VendorsKept, ExpensesKept DEF LedgerStep

-----------------------------------------------------------------------------
(* The rules of the workspace.                                              *)

Rules == SidesInv /\ TablesInv /\ TemplatesInv /\ LedgerInv

\* A call of something else leaves sides, tables, templates and budget alone.
LEMMA RulesOfOthers ==
  ASSUME Typed, Rules, NEW q \in Requests, NEW ops, CallStep(q, ops),
         ops \cap {"newSide", "newTemplate"} = {}, ops \cap SeatOps = {},
         ops \cap LedgerOps = {}, UNCHANGED <<aff, table, template, ledgerVars>>
  PROVE  Rules'
BY OthersKeepSides, OthersKeepTables, OthersKeepTemplates, OthersKeepLedger DEF Rules

LEMMA RulesStutter ==
  ASSUME Rules, UNCHANGED <<aff, table, template, ledgerVars, call, locks>>
  PROVE  Rules'
<1>1. UNCHANGED <<currency, category, quote, cost>> BY DEF ledgerVars
<1>2. Sides' = Sides /\ TablesThere' = TablesThere BY DEF Sides, TablesThere
<1>3. Costs' = Costs /\ Quotes' = Quotes BY <1>1 DEF Costs, Quotes
<1>4. SidesInv' BY <1>2 DEF Rules, SidesInv, SidesInOrder
<1>5. TablesInv' /\ TemplatesInv' BY <1>2 DEF Rules, TablesInv, TemplatesInv
<1>6. LedgerInv' BY <1>1, <1>3 DEF Rules, LedgerInv, AmountsKeepTheirCurrency, MayUse
<1>7. QED BY <1>4, <1>5, <1>6 DEF Rules

LEMMA RulesInit == Init => Rules
<1> SUFFICES ASSUME Init PROVE Rules
  OBVIOUS
<1>1. PICK rows \in InitialRows :
        /\ aff = rows.aff /\ table = rows.table /\ currency = rows.currency
        /\ quote = rows.quote /\ cost = rows.cost /\ category = rows.category
        /\ template = rows.template
  BY DEF Init
<1>2. \A q \in Requests : call[q].op = "none" BY DEF Init, Idle
<1>3. Cardinality({a \in Affiliations : aff[a] >= 0}) <= MaxAffiliations
  BY <1>1, RowsAssumption
<1>4. \A a, b \in Affiliations : a # b /\ aff[a] >= 0 => aff[a] # aff[b]
  BY <1>1, RowsAssumption
<1>5. SidesInv BY <1>2, <1>3, <1>4 DEF SidesInv, SidesInOrder, Sides
<1>6. Cardinality({t \in Tables : table[t] > 0}) <= MaxTables
  BY <1>1, RowsAssumption
<1>7. TablesInv BY <1>2, <1>6 DEF TablesInv, TablesThere
<1>8. Cardinality(template) <= MaxTemplates /\ Cardinality(category) <= MaxCategories
  BY <1>1, RowsAssumption
<1>9. TemplatesInv BY <1>2, <1>8 DEF TemplatesInv
<1>10. /\ \A e \in Expenses : cost[e] # None => cost[e].currency = currency
       /\ \A v \in Vendors : quote[v] \in Currencies => quote[v] = currency
  BY <1>1, RowsAssumption
<1>11. LedgerInv
  BY <1>2, <1>8, <1>10 DEF LedgerInv, AmountsKeepTheirCurrency, Costs, Quotes
<1>12. QED BY <1>5, <1>7, <1>9, <1>11 DEF Rules

LEMMA GuestRules ==
  ASSUME Typed, Rules, NEW q \in Requests, GuestCalls(q)
  PROVE  Rules'
<1>1. GuestStep(q) /\ UNCHANGED <<importVars, ledgerVars, template>> BY DEF GuestCalls
<1>2. CallStep(q, GuestOps) BY <1>1, GuestCallsTyped DEF Typed
<1>3. UNCHANGED seatVars
  BY <1>1 DEF GuestStep, SideRoutes, GuestRoutes, BeginAddSide, PlaceSide, AddSide,
              BeginOrderSides, OrderSides, BeginDropSide, FindMembers, DropSide, BeginAddGuest, AddGuest,
              BeginSetSide, SetSide, BeginUpdateGuest, BeginResizeParty, CheckSeat, ResizeParty, UpdateGuest,
              BeginArchive, BeginBulkArchive, Archive, Restore, BeginBulkSide, BulkSide
<1>4. SidesInv' BY <1>1, GuestsKeepSides DEF Rules
<1>5. TablesInv'
  BY <1>2, <1>3, OthersKeepTables DEF Rules, GuestOps, SeatOps, seatVars
<1>6. TemplatesInv' BY <1>1, <1>2, OthersKeepTemplates DEF Rules, GuestOps
<1>7. LedgerInv' BY <1>1, <1>2, OthersKeepLedger DEF Rules, GuestOps, LedgerOps
<1>8. QED BY <1>4, <1>5, <1>6, <1>7 DEF Rules

LEMMA LinkAndImportRules ==
  ASSUME Typed, Rules, NEW q \in Requests, LinkCalls(q) \/ ImportCalls(q)
  PROVE  Rules'
<1>1. CASE LinkCalls(q)
  <2>1. CallStep(q, LinkOps) BY <1>1, LinkCallsTyped DEF LinkCalls, Typed
  <2>2. UNCHANGED <<aff, table, template, ledgerVars>>
    BY <1>1 DEF LinkCalls, LinkStep, InvitationRoutes, PublicRoutes, BeginInvite, Invite,
                BeginReplace, Replace, BeginReply, SaveReply, guestVars, seatVars
  <2>3. QED BY <2>1, <2>2, RulesOfOthers DEF LinkOps, SeatOps, LedgerOps
<1>2. CASE ImportCalls(q)
  <2>1. CallStep(q, ImportOps) BY <1>2, ImportCallsTyped DEF ImportCalls
  <2>2. UNCHANGED <<aff, table, template, ledgerVars>>
    BY <1>2 DEF ImportCalls, ImportStep, Stage, LoadForMapping, BuildRows, ReplacePreview,
                BeginCommit, InsertGuests, CommitImport, RepeatCommit, guestVars, seatVars
  <2>3. QED BY <2>1, <2>2, RulesOfOthers DEF ImportOps, SeatOps, LedgerOps
<1>3. QED BY <1>1, <1>2

LEMMA SeatRules ==
  ASSUME Typed, Rules, NEW q \in Requests, SeatCalls(q)
  PROVE  Rules'
<1>1. SeatStep(q) /\ UNCHANGED <<importVars, ledgerVars, template>> BY DEF SeatCalls
<1>2. CallStep(q, SeatOps) BY <1>1, SeatCallsTyped DEF Typed
<1>3. UNCHANGED guestVars
  BY <1>1 DEF SeatStep, BeginAddTable, CountTables, AddTable, BeginResizeTable, ReadUsage,
              ResizeTable, DeleteTable, BeginAssign, ReadSeat, ReadRoom, Assign
<1>4. SidesInv' BY <1>2, <1>3, OthersKeepSides DEF Rules, SeatOps, guestVars
<1>5. TablesInv' BY <1>1, SeatsKeepTables DEF Rules
<1>6. TemplatesInv' BY <1>1, <1>2, OthersKeepTemplates DEF Rules, SeatOps
<1>7. LedgerInv' BY <1>1, <1>2, OthersKeepLedger DEF Rules, SeatOps, LedgerOps
<1>8. QED BY <1>4, <1>5, <1>6, <1>7 DEF Rules

LEMMA LedgerRules ==
  ASSUME Typed, Rules, NEW q \in Requests, LedgerCalls(q)
  PROVE  Rules'
<1>1. /\ LedgerStep(q) /\ UNCHANGED <<aff, table, template>>
  BY DEF LedgerCalls, guestVars, seatVars
<1>2. CallStep(q, LedgerOps) BY <1>1, LedgerCallsTyped DEF Typed
<1>3. SidesInv' BY <1>1, <1>2, OthersKeepSides DEF Rules, LedgerOps
<1>4. TablesInv' BY <1>1, <1>2, OthersKeepTables DEF Rules, LedgerOps, SeatOps
<1>5. TemplatesInv' BY <1>1, <1>2, OthersKeepTemplates DEF Rules, LedgerOps
<1>6. LedgerInv' BY <1>1, LedgerKept DEF Rules
<1>7. QED BY <1>3, <1>4, <1>5, <1>6 DEF Rules

LEMMA TemplateRules ==
  ASSUME Typed, Rules, NEW q \in Requests, TemplateCalls(q)
  PROVE  Rules'
<1>1. TemplateStep(q) /\ UNCHANGED <<aff, table, ledgerVars>>
  BY DEF TemplateCalls, guestVars, seatVars
<1>2. CallStep(q, TemplateOps) BY <1>1, TemplateCallsTyped DEF Typed
<1>3. SidesInv' BY <1>1, <1>2, OthersKeepSides DEF Rules, TemplateOps
<1>4. TablesInv' BY <1>1, <1>2, OthersKeepTables DEF Rules, TemplateOps, SeatOps
<1>5. TemplatesInv' BY <1>1, TemplatesKept DEF Rules
<1>6. LedgerInv' BY <1>1, <1>2, OthersKeepLedger DEF Rules, TemplateOps, LedgerOps
<1>7. QED BY <1>3, <1>4, <1>5, <1>6 DEF Rules

LEMMA RulesStep == Typed /\ Rules /\ [Next]_vars => Rules'
<1> SUFFICES ASSUME Typed, Rules, [Next]_vars PROVE Rules'
  OBVIOUS
<1>1. ASSUME NEW q \in Requests, Wait(q) \/ Fail(q) PROVE Rules'
  <2>1. CallStep(q, {})
    BY <1>1, WaitTyped, FailTyped DEF Fail
  <2>2. UNCHANGED <<aff, table, template, ledgerVars>>
    BY <1>1 DEF Wait, LockNext, ShareNext, Fail, Refuse, guestVars, seatVars
  <2>3. QED BY <2>1, <2>2, RulesOfOthers
<1>2. ASSUME UNCHANGED Others \/ UNCHANGED vars PROVE Rules'
  <2>1. UNCHANGED <<aff, table, template, ledgerVars, call, locks>>
    BY <1>2 DEF Others, vars, guestVars, seatVars, callVars
  <2>2. QED BY <2>1, RulesStutter
<1>3. QED
  BY <1>1, <1>2, GuestRules, LinkAndImportRules, SeatRules, LedgerRules, TemplateRules
  DEF Next

LEMMA AlwaysRules == Spec => []Rules
<1>1. Typed /\ Rules /\ [Next]_vars => Rules' BY RulesStep
<1>2. QED BY <1>1, RulesInit, AlwaysTyped, PTL DEF Spec

\* The place a new side takes is read before the side is added, and the order is
\* rewritten whole: no two sides ever share a place.
THEOREM SidesStayInOrder == Spec => []SidesInOrder
<1>1. Rules => SidesInOrder BY DEF Rules, SidesInv
<1>2. QED BY <1>1, AlwaysRules, PTL

\* Sides, tables, categories and templates are counted in one statement and added
\* in a later one: the wedding's lock keeps any number of calls within the limits.
THEOREM LimitsAreKept == Spec => []WithinLimits
<1>1. Rules => WithinLimits
  BY DEF Rules, SidesInv, TablesInv, TemplatesInv, LedgerInv, WithinLimits
<1>2. QED BY <1>1, AlwaysRules, PTL

\* No expense or quote is saved in one currency while the budget moves to another.
THEOREM CurrencyIsKept == Spec => []AmountsKeepTheirCurrency
<1>1. Rules => AmountsKeepTheirCurrency BY DEF Rules, LedgerInv
<1>2. QED BY <1>1, AlwaysRules, PTL

-----------------------------------------------------------------------------
(* Seats.                                                                   *)

\* What a call that seats, moves or resizes a party or resizes a table has
\* locked, and what it read that must still be true when it writes.
Reserves(c, held) ==
  /\ c.op \in {"update", "checked", "patch", "assign", "seat", "seated"} =>
       c.guests \subseteq held /\ \A g, h \in c.guests : g = h
  /\ c.op \in {"checked", "patch"} => \A g \in c.guests : MayResize(g, c.size)
  /\ c.op = "resized" => Reserved(c.table) <= c.size
  /\ c.op = "seat" => \A g \in c.guests : TablesOf(g, c.table) \subseteq held \cup c.need
  /\ c.op = "seated" => \A g \in c.guests :
       /\ TablesOf(g, c.table) \subseteq held
       /\ c.table # None => HasRoom(c.table, g)

SeatsInv ==
  /\ SeatsFit
  /\ \A g \in Guests : seat[g] # None => g \in Present
  /\ \A q \in Requests : Reserves(call[q], locks[q])

LEMMA PlacesFinite ==
  ASSUME NEW t
  PROVE  IsFiniteSet(Places(Seated(t))) /\ Reserved(t) \in Nat
<1> DEFINE N == 1..MaxParty
<1>1. IsFiniteSet(N) BY FS_Interval, WeddingAssumption
<1>2. IsFiniteSet(Guests) BY WeddingAssumption
<1> HIDE DEF N
<1>3. IsFiniteSet(Guests \X N) BY <1>1, <1>2, FS_Product
<1> USE DEF N
<1>4. Places(Seated(t)) \subseteq Guests \X N BY DEF Places, Seated
<1> HIDE DEF N
<1>5. IsFiniteSet(Places(Seated(t))) BY <1>3, <1>4, FS_Subset
<1>6. QED BY <1>5, FS_CardinalityType DEF Reserved

\* Nobody joins a table whose guests were all there with the party they have.
LEMMA ReservedShrinks ==
  ASSUME NEW t,
         \A g \in Guests : seat'[g] = t => seat[g] = t /\ guest'[g].party = guest[g].party
  PROVE  Reserved(t)' \in Nat /\ Reserved(t)' <= Reserved(t)
<1> DEFINE P == Places(Seated(t))
           R == Places(Seated(t))'
<1>1. R \subseteq P BY DEF Places, Seated
<1>2. IsFiniteSet(P) BY PlacesFinite
<1>3. Reserved(t)' = Cardinality(R) /\ Reserved(t) = Cardinality(P) BY DEF Reserved
<1> HIDE DEF P, R
<1>4. IsFiniteSet(R) /\ Cardinality(R) <= Cardinality(P) BY <1>1, <1>2, FS_Subset
<1>5. Cardinality(R) \in Nat BY <1>4, FS_CardinalityType
<1>6. QED BY <1>3, <1>4, <1>5

LEMMA ReservedGrows ==
  ASSUME RowsTyped, NEW g \in Present, NEW t \in Tables, UNCHANGED guest,
         seat' = [seat EXCEPT ![g] = t]
  PROVE  Reserved(t)' \in Nat /\ Reserved(t)' <= Reserved(t) + guest[g].party
<1> DEFINE n == guest[g].party
           P == Places(Seated(t))
           R == Places(Seated(t))'
           N == 1..n
           Q == {g} \X N
<1>1. n \in Nat /\ g \in Guests BY WeddingAssumption DEF RowsTyped, Present, Guest
<1>2. IsFiniteSet(P) /\ Reserved(t) \in Nat BY PlacesFinite
<1>3. R \subseteq P \cup Q BY <1>1 DEF Places, Seated, RowsTyped
<1>4. Reserved(t)' = Cardinality(R) /\ Reserved(t) = Cardinality(P) BY DEF Reserved
<1> HIDE DEF n, P, R
<1>5. IsFiniteSet(N) /\ Cardinality(N) = n
  <2>1. IsFiniteSet(1..n) /\ Cardinality(1..n) = IF 1 > n THEN 0 ELSE n - 1 + 1
    BY <1>1, FS_Interval
  <2>2. QED BY <1>1, <2>1
<1> HIDE DEF N
<1>6. IsFiniteSet({g}) /\ Cardinality({g}) = 1 BY FS_Singleton
<1>7. IsFiniteSet(Q) /\ Cardinality(Q) = 1 * Cardinality(N) BY <1>5, <1>6, FS_Product
<1> HIDE DEF Q
<1>8. /\ IsFiniteSet(P \cup Q)
      /\ Cardinality(P \cup Q) = Cardinality(P) + Cardinality(Q) - Cardinality(P \cap Q)
  BY <1>2, <1>7, FS_Union
<1>9. IsFiniteSet(R) /\ Cardinality(R) <= Cardinality(P \cup Q) BY <1>3, <1>8, FS_Subset
<1>10. IsFiniteSet(P \cap Q) BY <1>2, FS_Subset
<1>11. /\ Cardinality(P \cap Q) \in Nat /\ Cardinality(R) \in Nat /\ Cardinality(P) \in Nat
  BY <1>2, <1>9, <1>10, FS_CardinalityType
<1>12. QED BY <1>1, <1>4, <1>5, <1>7, <1>8, <1>9, <1>11 DEF n

\* A step that leaves alone what these rows were locked for: nobody joins the
\* tables, they stay as large, and the guests keep their party and their seat or
\* lose it.
Leaves(held) ==
  /\ \A t \in held \cap Tables :
       /\ table'[t] \in Nat /\ table[t] <= table'[t]
       /\ \A g \in Guests :
            seat'[g] = t => seat[g] = t /\ guest'[g].party = guest[g].party
  /\ \A g \in held \cap Present :
       guest'[g].party = guest[g].party /\ seat'[g] \in {seat[g], None}

LEMMA ReservesStay ==
  ASSUME RowsTyped, NEW c \in Call, NEW held, Reserves(c, held), c.guests \subseteq Present,
         c.op = "resized" => c.table \in held \cap Tables, Leaves(held)
  PROVE  Reserves(c, held)'
<1>1. \A t \in held \cap Tables : Reserved(t)' \in Nat /\ Reserved(t)' <= Reserved(t)
  BY ReservedShrinks DEF Leaves
<1>2. \A t \in Tables : Reserved(t) \in Nat /\ table[t] \in Nat
  BY PlacesFinite, WeddingAssumption DEF RowsTyped
<1>3. c.op \in {"checked", "patch"} => \A g \in c.guests : MayResize(g, c.size)'
  BY DEF Reserves, MayResize, Leaves
<1>4. c.op = "resized" => Reserved(c.table)' <= c.size
  <2>1. c.size \in Nat BY DEF Call
  <2>2. QED BY <1>1, <1>2, <2>1 DEF Reserves
<1>5. ASSUME NEW g \in c.guests, c.op \in {"seat", "seated"}
      PROVE  TablesOf(g, c.table)' \subseteq TablesOf(g, c.table)
  BY <1>5 DEF Reserves, TablesOf, Leaves
<1>6. ASSUME c.op = "seated", NEW g \in c.guests, c.table # None
      PROVE  HasRoom(c.table, g)'
  <2>1. c.table \in held \cap Tables BY <1>6 DEF Reserves, TablesOf, Call
  <2>2. guest[g] \in Guest BY DEF RowsTyped, Present
  <2>3. guest'[g].party = guest[g].party /\ guest[g].party \in Nat
    BY <1>6, <2>2, WeddingAssumption DEF Reserves, Guest, Leaves
  <2>4. Reserved(c.table) + guest[g].party <= table[c.table]
    BY <1>6 DEF Reserves, HasRoom
  <2>5. Reserved(c.table)' + guest'[g].party <= table'[c.table]
    BY <1>1, <1>2, <2>1, <2>3, <2>4 DEF Leaves
  <2>6. QED BY <2>5 DEF HasRoom
<1>7. QED BY <1>3, <1>4, <1>5, <1>6 DEF Reserves

LEMMA TablesAreNumbers == RowsTyped => \A t \in Tables : t # None /\ table[t] \in Nat
BY WeddingAssumption DEF RowsTyped

LEMMA SeatsGoOn ==
  ASSUME Typed, TablesInv, SeatsInv, NEW q \in Requests, NEW ops, CallStep(q, ops), Stays,
         \A p \in Requests \ {q} : Leaves(locks[p]),
         \A g \in Guests : seat'[g] # None => g \in Present,
         SeatsFit', Reserves(call[q], locks[q])'
  PROVE  SeatsInv'
<1>1. ASSUME NEW p \in Requests PROVE Reserves(call[p], locks[p])'
  <2>1. CASE p = q BY <2>1
  <2>2. CASE p # q
    <3>1. call'[p] = call[p] /\ locks'[p] = locks[p] BY <2>2, StepOfOne DEF Typed
    <3>2. /\ RowsTyped /\ call[p] \in Call /\ call[p].guests \subseteq Present
          /\ Reserves(call[p], locks[p])
      BY DEF Typed, CallInv, Fits, SeatsInv
    <3>3. call[p].op = "resized" => call[p].table \in locks[p] \cap Tables
      BY DEF TablesInv, TablesThere
    <3>4. PICK c, held : c = call[p] /\ held = locks[p] OBVIOUS
    <3>5. Reserves(c, held)' BY <3>2, <3>3, <3>4, <2>2, ReservesStay
    <3>6. QED BY <3>1, <3>4, <3>5
  <2>3. QED BY <2>1, <2>2
<1>2. QED BY <1>1 DEF SeatsInv, Stays

\* A step that seats nobody and changes the party of a guest it locked at most,
\* who has no seat.
LEMMA SeatsUnchanged ==
  ASSUME Typed, TablesInv, SeatsInv, NEW q \in Requests, NEW ops, CallStep(q, ops), Stays,
         UNCHANGED seatVars,
         \A g \in Present :
           guest'[g].party = guest[g].party \/ (g \in locks[q] /\ seat[g] = None),
         Reserves(call[q], locks[q])'
  PROVE  SeatsInv'
<1>1. \A t \in Tables : t # None /\ table[t] \in Nat BY TablesAreNumbers DEF Typed
<1>2. \A t \in Tables : table'[t] \in Nat /\ table[t] <= table'[t]
  BY <1>1 DEF seatVars
<1>3. \A t \in Tables : \A g \in Guests :
        seat'[g] = t => seat[g] = t /\ guest'[g].party = guest[g].party
  BY <1>1 DEF seatVars, SeatsInv
<1>4. SeatsFit'
  <2>1. ASSUME NEW t \in Tables PROVE Reserved(t)' <= table'[t]
    <3>1. Reserved(t)' \in Nat /\ Reserved(t)' <= Reserved(t) BY <1>3, ReservedShrinks
    <3>2. Reserved(t) \in Nat BY PlacesFinite
    <3>3. Reserved(t) <= table[t] BY DEF SeatsInv, SeatsFit
    <3>4. QED BY <1>1, <3>1, <3>2, <3>3 DEF seatVars
  <2>2. QED BY <2>1 DEF SeatsFit
<1>5. ASSUME NEW p \in Requests \ {q} PROVE Leaves(locks[p])
  <2>1. \A g \in locks[p] : g \notin locks[q] BY DEF Typed, CallInv
  <2>2. QED BY <1>2, <1>3, <2>1 DEF Leaves, seatVars
<1>6. QED BY <1>4, <1>5, SeatsGoOn DEF SeatsInv, seatVars

\* The calls that rely on a seat, a party or a table.
Reserving == {"update", "checked", "patch", "resized", "assign", "seat", "seated"}

LEMMA ReservesMore ==
  ASSUME NEW c \in Call, NEW d \in Call, NEW held, NEW more, Reserves(c, held),
         d = [c EXCEPT !.need = d.need, !.shares = d.shares], held \subseteq more,
         c.need \subseteq d.need \cup more \/ d.op \in Sharing
  PROVE  Reserves(d, more)
<1>1. /\ d.op = c.op /\ d.guests = c.guests /\ d.size = c.size /\ d.table = c.table
  BY DEF Call
<1>2. QED BY <1>1 DEF Reserves, Sharing

LEMMA SeatsQuiet ==
  ASSUME Typed, TablesInv, SeatsInv, NEW q \in Requests, NEW ops, CallStep(q, ops), Stays,
         UNCHANGED seatVars, \A g \in Present : guest'[g].party = guest[g].party,
         call'[q].op \notin Reserving \/ ops \cap Reserving = {}
  PROVE  SeatsInv'
<1>1. PICK c \in Call, held \in SUBSET Rows :
        /\ call' = [call EXCEPT ![q] = c] /\ locks' = [locks EXCEPT ![q] = held]
        /\ \/ c.op \in ops \cup {"none"}
           \/ /\ c = [call[q] EXCEPT !.need = c.need, !.shares = c.shares]
              /\ locks[q] \subseteq held
              /\ call[q].need \subseteq c.need \cup held \/ c.op \in Sharing
  BY DEF CallStep
<1>2. call'[q] = c /\ locks'[q] = held BY <1>1 DEF Typed, CallInv
<1>3. CASE c.op \notin Reserving
  <2>1. Reserves(call[q], locks[q])' BY <1>2, <1>3 DEF Reserves, Reserving
  <2>2. QED BY <2>1, SeatsUnchanged
<1>4. CASE c.op \in Reserving
  <2>1. /\ c = [call[q] EXCEPT !.need = c.need, !.shares = c.shares]
        /\ locks[q] \subseteq held
        /\ call[q].need \subseteq c.need \cup held \/ c.op \in Sharing
    BY <1>1, <1>2, <1>4 DEF Reserving
  <2>2. call[q] \in Call /\ Reserves(call[q], locks[q]) /\ call[q].guests \subseteq Present
    BY DEF Typed, CallInv, Fits, SeatsInv
  <2>3. Reserves(c, held) BY <2>1, <2>2, ReservesMore
  <2>4. c.guests \subseteq Present /\ c.op = call[q].op /\ c.table = call[q].table
    BY <2>1, <2>2 DEF Call
  <2>5. c.op = "resized" => c.table \in held \cap Tables
    BY <2>1, <2>4 DEF TablesInv, TablesThere
  <2>6. Leaves(held)
    <3>1. \A t \in Tables : t # None /\ table[t] \in Nat BY TablesAreNumbers DEF Typed
    <3>2. QED BY <3>1 DEF Leaves, seatVars, SeatsInv
  <2>7. Reserves(c, held)' BY <2>3, <2>4, <2>5, <2>6, ReservesStay DEF Typed
  <2>8. Reserves(call[q], locks[q])' BY <1>2, <2>7
  <2>9. QED BY <2>8, SeatsUnchanged
<1>5. QED BY <1>3, <1>4

LEMMA PatchedParty ==
  ASSUME RowsTyped, NEW h \in Present, NEW size, NEW a, PatchedGuest(h, size, a),
         NEW g \in Present
  PROVE  guest'[g].party = IF g = h THEN size ELSE guest[g].party
<1>1. guest[g] \in Guest /\ g \in Guests /\ h \in Guests BY DEF RowsTyped, Present
<1>2. guest' = [guest EXCEPT ![h] = [guest[h] EXCEPT !.party = size, !.aff = a]]
  BY DEF PatchedGuest
<1>3. guest'[g] = IF g = h THEN [guest[g] EXCEPT !.party = size, !.aff = a] ELSE guest[g]
  BY <1>1, <1>2 DEF RowsTyped
<1>4. QED BY <1>1, <1>3 DEF Guest

LEMMA GuestsKeepSeats ==
  ASSUME Typed, TablesInv, SeatsInv, NEW q \in Requests, GuestStep(q)
  PROVE  SeatsInv'
<1>1. /\ CallInv /\ RowsTyped /\ call[q] \in Call /\ Fits(call[q], locks[q])
      /\ Reserves(call[q], locks[q])
  BY DEF Typed, CallInv, SeatsInv
<1>2. CallStep(q, GuestOps) /\ Stays BY GuestCallsTyped DEF Typed, RowsGoOn
<1>3. \A g \in Present : guest[g] \in Guest /\ g \in Guests
  BY <1>1, NoRowAssumption DEF Present, RowsTyped
<1>4. ASSUME UNCHANGED seatVars, call'[q].op \notin Reserving,
             \A g \in Present : guest'[g].party = guest[g].party
      PROVE  SeatsInv'
  BY <1>2, <1>4, SeatsQuiet
<1>5. CASE \/ BeginAddSide(q) \/ BeginOrderSides(q) \/ BeginDropSide(q) \/ BeginAddGuest(q)
           \/ BeginSetSide(q) \/ BeginArchive(q) \/ BeginBulkArchive(q) \/ BeginBulkSide(q)
  <2>1. UNCHANGED <<guest, seatVars>>
    BY <1>5 DEF BeginAddSide, BeginOrderSides, BeginDropSide, BeginAddGuest, BeginSetSide,
                BeginArchive, BeginBulkArchive, BeginBulkSide, guestVars
  <2>2. call'[q].op \notin Reserving
    <3>1. CASE BeginAddSide(q) BY <1>1, <3>1 DEF BeginAddSide, Take, Idle, CallInv, Reserving
    <3>2. CASE BeginOrderSides(q) BY <1>1, <3>2 DEF BeginOrderSides, Take, Idle, CallInv, Reserving
    <3>3. CASE BeginDropSide(q) BY <1>1, <3>3 DEF BeginDropSide, Take, Idle, CallInv, Reserving
    <3>4. CASE BeginAddGuest(q) BY <1>1, <3>4, AddGuestCall DEF Reserving
    <3>5. CASE BeginSetSide(q) BY <1>1, <3>5 DEF BeginSetSide, Take, Idle, CallInv, Reserving
    <3>6. CASE BeginArchive(q) BY <1>1, <3>6 DEF BeginArchive, Take, Idle, CallInv, Reserving
    <3>7. CASE BeginBulkArchive(q) BY <1>1, <3>7 DEF BeginBulkArchive, Take, Idle, CallInv, Reserving
    <3>8. CASE BeginBulkSide(q) BY <1>1, <3>8 DEF BeginBulkSide, Take, Idle, CallInv, Reserving
    <3>9. QED BY <1>5, <3>1, <3>2, <3>3, <3>4, <3>5, <3>6, <3>7, <3>8
  <2>3. QED BY <1>4, <2>1, <2>2
<1>6. CASE PlaceSide(q) \/ FindMembers(q)
  <2>1. \/ call'[q] = [call[q] EXCEPT !.op = "newSide", !.size = NextPosition]
        \/ call'[q] = [call[q] EXCEPT !.op = "emptySide", !.need = Members(call[q].aff)]
    BY <1>1, <1>6 DEF PlaceSide, FindMembers, Decide, CallInv
  <2>2. call'[q].op \notin Reserving BY <1>1, <2>1 DEF Call, Reserving
  <2>3. UNCHANGED <<guest, seatVars>> BY <1>6 DEF PlaceSide, FindMembers, guestVars
  <2>4. QED BY <1>4, <2>2, <2>3
<1>7. CASE AddSide(q) \/ OrderSides(q)
  <2>1. UNCHANGED <<guest, seatVars>> /\ Done(q) BY <1>7 DEF AddSide, OrderSides
  <2>2. call'[q].op \notin Reserving BY <1>1, <2>1, IdleAfterDone DEF Reserving
  <2>3. QED BY <1>4, <2>1, <2>2
<1>8. CASE AddGuest(q)
  <2>1. UNCHANGED seatVars /\ Done(q) BY <1>8 DEF AddGuest
  <2>2. call'[q].op \notin Reserving BY <1>1, <2>1, IdleAfterDone DEF Reserving
  <2>3. \A g \in Present : guest'[g] = guest[g]
    BY <1>1, <1>8 DEF AddGuest, Present, RowsTyped
  <2>4. QED BY <1>4, <2>1, <2>2, <2>3
<1>9. CASE DropSide(q) \/ SetSide(q) \/ BulkSide(q) \/ Archive(q)
  <2>1. UNCHANGED seatVars /\ Done(q) BY <1>9 DEF DropSide, SetSide, BulkSide, Archive
  <2>2. call'[q].op \notin Reserving BY <1>1, <2>1, IdleAfterDone DEF Reserving
  <2>3. ASSUME NEW g \in Present PROVE guest'[g].party = guest[g].party
    <3>1. \/ guest'[g] = guest[g] \/ \E a : guest'[g] = [guest[g] EXCEPT !.aff = a]
          \/ guest'[g] = [guest[g] EXCEPT !.archived = TRUE]
      BY <1>3, <1>9 DEF DropSide, SetSide, BulkSide, Archive, Archived, Unassigned
    <3>2. QED BY <1>3, <3>1 DEF Guest
  <2>4. QED BY <1>4, <2>1, <2>2, <2>3
<1>10. CASE Restore(q)
  <2>1. PICK h \in Present : guest' = [guest EXCEPT ![h].archived = FALSE]
    BY <1>10 DEF Restore
  <2>2. UNCHANGED seatVars /\ call'[q].op \notin Reserving
    BY <1>10 DEF Restore, Once, Idle, Reserving
  <2>3. guest' = [guest EXCEPT ![h] = [guest[h] EXCEPT !.archived = FALSE]] BY <2>1
  <2>4. ASSUME NEW g \in Present PROVE guest'[g].party = guest[g].party
    <3>1. guest'[g] = IF g = h THEN [guest[g] EXCEPT !.archived = FALSE] ELSE guest[g]
      BY <1>1, <1>3, <2>3 DEF RowsTyped
    <3>2. QED BY <1>3, <3>1 DEF Guest
  <2>5. QED BY <1>4, <2>2, <2>4
<1>11. CASE BeginUpdateGuest(q)
  <2>1. PICK g \in Present : \E a \in SidesFor(g) : Take(q, {g}, Patch(g, guest[g].party, a))
    BY <1>11 DEF BeginUpdateGuest
  <2>2. PICK a \in SidesFor(g) : Take(q, {g}, Patch(g, guest[g].party, a)) BY <2>1
  <2>3. call'[q] = Patch(g, guest[g].party, a) /\ locks'[q] = {g}
    BY <1>1, <2>2 DEF Take, CallInv
  <2>4. UNCHANGED <<guest, seatVars>> BY <1>11 DEF BeginUpdateGuest, guestVars
  <2>5. Reserves(call[q], locks[q])'
    BY <2>3, <2>4 DEF Reserves, Patch, Idle, MayResize
  <2>6. QED BY <1>2, <2>4, <2>5, SeatsUnchanged
<1>12. CASE BeginResizeParty(q)
  <2>1. PICK g \in Present : Take(q, {g}, [Idle EXCEPT !.op = "update", !.guests = {g}])
    BY <1>12 DEF BeginResizeParty
  <2>2. call'[q] = [Idle EXCEPT !.op = "update", !.guests = {g}] /\ locks'[q] = {g}
    BY <1>1, <2>1 DEF Take, CallInv
  <2>3. Reserves(call[q], locks[q])' BY <2>2 DEF Reserves, Idle
  <2>4. UNCHANGED <<guest, seatVars>> BY <1>12 DEF BeginResizeParty, guestVars
  <2>5. QED BY <1>2, <2>3, <2>4, SeatsUnchanged
<1>13. CASE CheckSeat(q)
  <2>1. PICK g \in call[q].guests, size \in Parties :
          /\ MayResize(g, size)
          /\ Decide(q, [call[q] EXCEPT !.op = "checked", !.size = size])
    BY <1>13 DEF CheckSeat
  <2>2. /\ call'[q] = [call[q] EXCEPT !.op = "checked", !.size = size]
        /\ locks'[q] = locks[q]
    BY <1>1, <2>1 DEF Decide, CallInv
  <2>3. /\ call'[q].op = "checked" /\ call'[q].size = size
        /\ call'[q].guests = call[q].guests
    BY <1>1, <2>2 DEF Call
  <2>4. UNCHANGED <<guest, seatVars>> BY <1>13 DEF CheckSeat, guestVars
  <2>5. call[q].op = "update" BY <1>13 DEF CheckSeat, Running
  <2>6. call[q].guests = {g} /\ g \in locks[q] BY <1>1, <2>1, <2>5 DEF Reserves
  <2>7. Reserves(call[q], locks[q])'
    BY <2>1, <2>2, <2>3, <2>4, <2>6 DEF Reserves, MayResize, seatVars
  <2>8. QED BY <1>2, <2>4, <2>7, SeatsUnchanged
<1>14. CASE ResizeParty(q)
  <2>1. call[q].op = "checked" BY <1>14 DEF ResizeParty, Running
  <2>2. PICK g \in call[q].guests : \E a \in SidesFor(g) : Decide(q, Patch(g, call[q].size, a))
    BY <1>14 DEF ResizeParty
  <2>3. PICK a \in SidesFor(g) : Decide(q, Patch(g, call[q].size, a)) BY <2>2
  <2>4. call'[q] = Patch(g, call[q].size, a) /\ locks'[q] = locks[q]
    BY <1>1, <2>3 DEF Decide, CallInv
  <2>5. UNCHANGED <<guest, seatVars>> BY <1>14 DEF ResizeParty, guestVars
  <2>6. g \in locks[q] /\ MayResize(g, call[q].size) BY <1>1, <2>1, <2>2 DEF Reserves
  <2>7. Reserves(call[q], locks[q])'
    BY <2>4, <2>5, <2>6 DEF Reserves, Patch, Idle, MayResize, seatVars
  <2>8. QED BY <1>2, <2>5, <2>7, SeatsUnchanged
<1>15. CASE UpdateGuest(q)
  <2>1. call[q].op = "patch" /\ UNCHANGED seatVars /\ Done(q)
    BY <1>15 DEF UpdateGuest, Running
  <2>2. PICK h \in call[q].guests : PatchedGuest(h, call[q].size, call[q].aff)
    BY <1>15 DEF UpdateGuest
  <2>3. h \in Present /\ h \in locks[q] /\ MayResize(h, call[q].size)
    BY <1>1, <2>1, <2>2 DEF Fits, Reserves
  <2>4. ASSUME NEW g \in Present
        PROVE  guest'[g].party = guest[g].party \/ (g \in locks[q] /\ seat[g] = None)
    BY <1>1, <1>3, <2>2, <2>3, PatchedParty DEF MayResize
  <2>5. call'[q].op \notin Reserving BY <1>1, <2>1, IdleAfterDone DEF Reserving
  <2>6. Reserves(call[q], locks[q])' BY <2>5 DEF Reserves, Reserving
  <2>7. QED BY <1>2, <2>1, <2>4, <2>6, SeatsUnchanged
<1>16. QED
  BY <1>5, <1>6, <1>7, <1>8, <1>9, <1>10, <1>11, <1>12, <1>13, <1>14, <1>15
  DEF GuestStep, SideRoutes, GuestRoutes

LEMMA TablesKeepSeats ==
  ASSUME Typed, TablesInv, SeatsInv, NEW q \in Requests,
         AddTable(q) \/ ResizeTable(q) \/ DeleteTable(q)
  PROVE  SeatsInv'
<1>1. /\ CallInv /\ RowsTyped /\ call[q] \in Call /\ Fits(call[q], locks[q])
      /\ Reserves(call[q], locks[q])
  BY DEF Typed, CallInv, SeatsInv
<1>2. CallStep(q, SeatOps) /\ Stays BY SeatCallsTyped DEF Typed, SeatStep, RowsGoOn
<1>3. \A t \in Tables : t # None /\ table[t] \in Nat /\ Reserved(t) \in Nat
  BY <1>1, TablesAreNumbers, PlacesFinite
<1>4. UNCHANGED guest /\ call'[q].op = "none" /\ \A g \in Guests : seat'[g] \in {seat[g], None}
  <2>1. UNCHANGED guest /\ \A g \in Guests : seat'[g] \in {seat[g], None}
    BY DEF AddTable, ResizeTable, DeleteTable, Emptied, guestVars
  <2>2. Done(q) \/ Once(q) BY DEF AddTable, ResizeTable, DeleteTable
  <2>3. QED BY <1>1, <2>1, <2>2, IdleAfterDone DEF Once, Idle
<1>5. Reserves(call[q], locks[q])' BY <1>4 DEF Reserves
<1>6. ASSUME NEW t \in Tables
      PROVE  /\ \A g \in Guests : seat'[g] = t => seat[g] = t /\ guest'[g].party = guest[g].party
             /\ Reserved(t)' \in Nat /\ Reserved(t)' <= Reserved(t)
  <2>1. \A g \in Guests : seat'[g] = t => seat[g] = t /\ guest'[g].party = guest[g].party
    BY <1>3, <1>4
  <2>2. QED BY <2>1, ReservedShrinks
<1>7. \A g \in Guests : seat'[g] # None => g \in Present BY <1>4 DEF SeatsInv
<1>8. ASSUME \A t \in Tables : Reserved(t)' <= table'[t],
             \A p \in Requests \ {q} : \A t \in locks[p] \cap Tables :
               table'[t] \in Nat /\ table[t] <= table'[t]
      PROVE  SeatsInv'
  <2>1. \A p \in Requests \ {q} : Leaves(locks[p])
    BY <1>4, <1>6, <1>8 DEF Leaves, Present
  <2>2. QED BY <1>2, <1>5, <1>7, <1>8, <2>1, SeatsGoOn DEF SeatsFit
<1>9. CASE AddTable(q)
  <2>1. PICK u \in Tables \ TablesThere, size \in Capacities :
          table' = [table EXCEPT ![u] = size]
    BY <1>9 DEF AddTable
  <2>2. table[u] = 0 /\ size \in Nat
    BY <1>3, <2>1, WeddingAssumption DEF TablesThere, Capacities
  <2>3. \A t \in Tables : table'[t] \in Nat /\ table[t] <= table'[t]
    BY <1>1, <1>3, <2>1, <2>2 DEF RowsTyped
  <2>4. ASSUME NEW t \in Tables PROVE Reserved(t)' <= table'[t]
    <3>1. Reserved(t) <= table[t] BY DEF SeatsInv, SeatsFit
    <3>2. QED BY <1>3, <1>6, <2>3, <3>1
  <2>5. QED BY <1>8, <2>3, <2>4
<1>10. CASE ResizeTable(q)
  <2> DEFINE u == call[q].table
  <2>1. /\ table' = [table EXCEPT ![u] = call[q].size] /\ call[q].op = "resized"
        /\ call[q].size \in Nat
    BY <1>1, <1>10 DEF ResizeTable, Running, Call
  <2>2. u \in Tables /\ u \in locks[q] /\ Reserved(u) <= call[q].size
    BY <1>1, <2>1 DEF TablesInv, TablesThere, Reserves
  <2> HIDE DEF u
  <2>3. \A t \in Tables : table'[t] = IF t = u THEN call[q].size ELSE table[t]
    BY <1>1, <2>1 DEF RowsTyped
  <2>4. ASSUME NEW t \in Tables PROVE Reserved(t)' <= table'[t]
    <3>1. Reserved(t) <= table[t] BY DEF SeatsInv, SeatsFit
    <3>2. QED BY <1>3, <1>6, <2>1, <2>2, <2>3, <3>1
  <2>5. ASSUME NEW p \in Requests \ {q}, NEW t \in locks[p] \cap Tables
        PROVE  table'[t] \in Nat /\ table[t] <= table'[t]
    <3>1. t # u BY <1>1, <2>2 DEF CallInv
    <3>2. QED BY <1>3, <2>3, <3>1
  <2>6. QED BY <1>8, <2>4, <2>5
<1>11. CASE DeleteTable(q)
  <2>1. PICK u \in TablesThere : /\ Free(q, {u}) /\ table' = [table EXCEPT ![u] = 0]
                                 /\ Emptied(u)
    BY <1>11 DEF DeleteTable
  <2>2. \A t \in Tables : table'[t] = IF t = u THEN 0 ELSE table[t]
    BY <1>1, <2>1 DEF RowsTyped
  <2>3. u \in Tables /\ \A g \in Guests : seat'[g] # u
    BY <1>3, <2>1 DEF Emptied, TablesThere
  <2>4. Reserved(u)' = 0
    <3>1. Places(Seated(u))' = {} BY <2>3 DEF Places, Seated
    <3>2. QED BY <3>1, FS_EmptySet DEF Reserved
  <2>5. ASSUME NEW t \in Tables PROVE Reserved(t)' <= table'[t]
    <3>1. CASE t = u BY <2>2, <2>4, <3>1
    <3>2. CASE t # u
      <4>1. Reserved(t) <= table[t] BY DEF SeatsInv, SeatsFit
      <4>2. QED BY <1>3, <1>6, <2>2, <3>2, <4>1
    <3>3. QED BY <3>1, <3>2
  <2>6. ASSUME NEW p \in Requests \ {q}, NEW t \in locks[p] \cap Tables
        PROVE  table'[t] \in Nat /\ table[t] <= table'[t]
    BY <1>3, <2>1, <2>2 DEF Free
  <2>7. QED BY <1>8, <2>5, <2>6
<1>12. QED BY <1>9, <1>10, <1>11

LEMMA AssignKeepsSeats ==
  ASSUME Typed, TablesInv, SeatsInv, NEW q \in Requests, Assign(q)
  PROVE  SeatsInv'
<1>1. /\ CallInv /\ RowsTyped /\ call[q] \in Call /\ Fits(call[q], locks[q])
      /\ Reserves(call[q], locks[q])
  BY DEF Typed, CallInv, SeatsInv
<1>2. CallStep(q, SeatOps) /\ Stays BY SeatCallsTyped DEF Typed, SeatStep, RowsGoOn
<1>3. \A t \in Tables : t # None /\ table[t] \in Nat /\ Reserved(t) \in Nat
  BY <1>1, TablesAreNumbers, PlacesFinite
<1> DEFINE u == call[q].table
<1>4. PICK g \in call[q].guests : seat' = [seat EXCEPT ![g] = u] BY DEF Assign
<1>5. /\ call[q].op = "seated" /\ UNCHANGED <<guest, table>> /\ Done(q)
      /\ u \in Tables \cup {None}
  BY <1>1 DEF Assign, Running, guestVars, Call
<1>6. g \in Present /\ g \in Guests /\ g \in locks[q] BY <1>1, <1>5 DEF Fits, Reserves, Call
<1>7. TablesOf(g, u) \subseteq locks[q] /\ (u # None => HasRoom(u, g))
  BY <1>1, <1>5 DEF Reserves
<1>8. call'[q].op = "none" BY <1>1, <1>5, IdleAfterDone
<1>9. Reserves(call[q], locks[q])' BY <1>8 DEF Reserves
<1> HIDE DEF u
<1>10. \A h \in Guests : seat'[h] = IF h = g THEN u ELSE seat[h]
  BY <1>1, <1>4 DEF RowsTyped
<1>11. ASSUME NEW t \in Tables, t # u
       PROVE  /\ \A h \in Guests : seat'[h] = t => seat[h] = t /\ guest'[h].party = guest[h].party
              /\ Reserved(t)' \in Nat /\ Reserved(t)' <= Reserved(t)
  <2>1. \A h \in Guests : seat'[h] = t => seat[h] = t /\ guest'[h].party = guest[h].party
    BY <1>5, <1>10, <1>11
  <2>2. QED BY <2>1, ReservedShrinks
<1>12. ASSUME NEW t \in Tables PROVE Reserved(t)' <= table'[t]
  <2>1. Reserved(t) <= table[t] BY DEF SeatsInv, SeatsFit
  <2>2. CASE t # u BY <1>3, <1>5, <1>11, <2>1, <2>2
  <2>3. CASE t = u
    <3>1. Reserved(t)' \in Nat /\ Reserved(t)' <= Reserved(t) + guest[g].party
      BY <1>1, <1>4, <1>5, <1>6, <2>3, ReservedGrows
    <3>2. Reserved(t) + guest[g].party <= table[t] BY <1>3, <1>7, <2>3 DEF HasRoom
    <3>3. guest[g].party \in Nat
      BY <1>1, <1>6, WeddingAssumption DEF RowsTyped, Present, Guest
    <3>4. QED BY <1>3, <1>5, <3>1, <3>2, <3>3
  <2>4. QED BY <2>2, <2>3
<1>13. ASSUME NEW p \in Requests \ {q} PROVE Leaves(locks[p])
  <2>1. locks[p] \cap locks[q] = {} BY <1>1 DEF CallInv
  <2>2. ASSUME NEW t \in locks[p] \cap Tables PROVE t # u
    BY <1>3, <1>7, <2>1 DEF TablesOf
  <2>3. \A h \in locks[p] : h # g BY <1>6, <2>1
  <2>4. \A h \in locks[p] \cap Present : seat'[h] = seat[h] BY <1>10, <2>3 DEF Present
  <2>5. QED BY <1>3, <1>5, <1>11, <2>2, <2>4 DEF Leaves
<1>14. \A h \in Guests : seat'[h] # None => h \in Present
  BY <1>6, <1>10 DEF SeatsInv
<1>15. QED BY <1>2, <1>9, <1>12, <1>13, <1>14, SeatsGoOn DEF SeatsFit

LEMMA SeatCallsKeepSeats ==
  ASSUME Typed, TablesInv, SeatsInv, NEW q \in Requests, SeatStep(q)
  PROVE  SeatsInv'
<1>1. /\ CallInv /\ RowsTyped /\ call[q] \in Call /\ Fits(call[q], locks[q])
      /\ Reserves(call[q], locks[q])
  BY DEF Typed, CallInv, SeatsInv
<1>2. CallStep(q, SeatOps) /\ Stays BY SeatCallsTyped DEF Typed, RowsGoOn
<1>3. ASSUME UNCHANGED <<guestVars, seatVars>>, Reserves(call[q], locks[q])' PROVE SeatsInv'
  BY <1>2, <1>3, SeatsUnchanged DEF guestVars
<1>4. ASSUME UNCHANGED <<guestVars, seatVars>>, call'[q].op \notin Reserving PROVE SeatsInv'
  BY <1>3, <1>4 DEF Reserves, Reserving
<1>5. CASE BeginAddTable(q)
  <2>1. call'[q].op = "addTable" BY <1>1, <1>5 DEF BeginAddTable, Take, Idle, CallInv
  <2>2. QED BY <1>4, <1>5, <2>1 DEF BeginAddTable, Reserving
<1>6. CASE CountTables(q)
  <2>1. call'[q] = [call[q] EXCEPT !.op = "newTable"]
    BY <1>1, <1>6 DEF CountTables, Decide, CallInv
  <2>2. call'[q].op = "newTable" BY <1>1, <2>1 DEF Call
  <2>3. QED BY <1>4, <1>6, <2>2 DEF CountTables, Reserving
<1>7. CASE BeginResizeTable(q)
  <2>1. PICK t \in TablesThere : Take(q, {t}, [Idle EXCEPT !.op = "resize", !.table = t])
    BY <1>7 DEF BeginResizeTable
  <2>2. call'[q].op = "resize" BY <1>1, <2>1 DEF Take, Idle, CallInv
  <2>3. QED BY <1>4, <1>7, <2>2 DEF BeginResizeTable, Reserving
<1>8. CASE ReadUsage(q)
  <2>1. PICK size \in Capacities :
          /\ Reserved(call[q].table) <= size
          /\ Decide(q, [call[q] EXCEPT !.op = "resized", !.size = size])
    BY <1>8 DEF ReadUsage
  <2>2. call'[q] = [call[q] EXCEPT !.op = "resized", !.size = size]
    BY <1>1, <2>1 DEF Decide, CallInv
  <2>3. call'[q].op = "resized" /\ call'[q].size = size /\ call'[q].table = call[q].table
    BY <1>1, <2>2 DEF Call
  <2>4. UNCHANGED <<guestVars, seatVars>> BY <1>8 DEF ReadUsage
  <2>5. PICK t : t = call[q].table OBVIOUS
  <2>6. Reserved(t)' \in Nat /\ Reserved(t)' <= Reserved(t)
    BY <2>4, ReservedShrinks DEF guestVars, seatVars
  <2>7. Reserved(t) \in Nat /\ size \in Nat BY PlacesFinite, WeddingAssumption DEF Capacities
  <2>8. Reserved(t)' <= size BY <2>1, <2>5, <2>6, <2>7
  <2>9. Reserved(call[q].table)' <= call'[q].size BY <2>3, <2>5, <2>8
  <2>10. Reserves(call[q], locks[q])' BY <2>3, <2>9 DEF Reserves
  <2>11. QED BY <1>3, <2>4, <2>10
<1>9. CASE BeginAssign(q)
  <2>1. PICK g \in Present, t \in Tables \cup {None} :
          Take(q, {g}, [Idle EXCEPT !.op = "assign", !.guests = {g}, !.table = t])
    BY <1>9 DEF BeginAssign
  <2>2. /\ call'[q] = [Idle EXCEPT !.op = "assign", !.guests = {g}, !.table = t]
        /\ locks'[q] = {g}
    BY <1>1, <2>1 DEF Take, CallInv
  <2>3. Reserves(call[q], locks[q])' BY <2>2 DEF Reserves, Idle
  <2>4. QED BY <1>3, <1>9, <2>3 DEF BeginAssign
<1>10. CASE ReadSeat(q)
  <2>1. PICK g \in call[q].guests :
          Decide(q, [call[q] EXCEPT !.op = "seat", !.need = TablesOf(g, call[q].table)])
    BY <1>10 DEF ReadSeat
  <2> DEFINE need == TablesOf(g, call[q].table)
  <2>2. call'[q] = [call[q] EXCEPT !.op = "seat", !.need = need] /\ locks'[q] = locks[q]
    BY <1>1, <2>1 DEF Decide, CallInv
  <2>3. call[q].guests = {g} /\ g \in locks[q]
    BY <1>1, <1>10 DEF ReadSeat, Running, Reserves
  <2>4. UNCHANGED <<guestVars, seatVars>> BY <1>10 DEF ReadSeat
  <2> HIDE DEF need
  <2>5. /\ call'[q].op = "seat" /\ call'[q].need = need /\ call'[q].table = call[q].table
        /\ call'[q].guests = {g}
    BY <1>1, <2>2, <2>3 DEF Call
  <2>6. TablesOf(g, call[q].table)' \subseteq call'[q].need
    BY <2>4, <2>5 DEF need, TablesOf, seatVars
  <2>7. Reserves(call[q], locks[q])' BY <2>2, <2>3, <2>5, <2>6 DEF Reserves
  <2>8. QED BY <1>3, <2>4, <2>7
<1>11. CASE ReadRoom(q)
  <2>1. call'[q] = [call[q] EXCEPT !.op = "seated"] /\ locks'[q] = locks[q]
    BY <1>1, <1>11 DEF ReadRoom, Decide, CallInv
  <2>2. /\ call'[q].op = "seated" /\ call'[q].guests = call[q].guests
        /\ call'[q].table = call[q].table
    BY <1>1, <2>1 DEF Call
  <2>3. call[q].op = "seat" /\ call[q].need = {} BY <1>11 DEF ReadRoom, Running
  <2>4. UNCHANGED <<guestVars, seatVars>> BY <1>11 DEF ReadRoom
  <2>5. \A g \in call[q].guests : TablesOf(g, call[q].table)' \subseteq locks[q]
    BY <1>1, <2>2, <2>3, <2>4 DEF Reserves, TablesOf, seatVars
  <2>6. ASSUME NEW g \in call[q].guests, call[q].table # None
        PROVE  HasRoom(call[q].table, g)'
    <3>1. PICK t : t = call[q].table OBVIOUS
    <3>2. HasRoom(t, g) BY <1>11, <2>6, <3>1 DEF ReadRoom
    <3>3. Reserved(t)' \in Nat /\ Reserved(t)' <= Reserved(t)
      BY <2>4, ReservedShrinks DEF guestVars, seatVars
    <3>4. t \in Tables BY <1>1, <2>6, <3>1 DEF Call
    <3>5. guest[g].party \in Nat /\ table[t] \in Nat /\ Reserved(t) \in Nat
      BY <1>1, <3>4, TablesAreNumbers, PlacesFinite, WeddingAssumption
      DEF RowsTyped, Fits, Present, Guest
    <3>6. HasRoom(t, g)'
      BY <2>4, <3>2, <3>3, <3>5 DEF HasRoom, guestVars, seatVars
    <3>7. QED BY <2>2, <3>1, <3>6
  <2>7. Reserves(call[q], locks[q])' BY <1>1, <2>1, <2>2, <2>3, <2>5, <2>6 DEF Reserves
  <2>8. QED BY <1>3, <2>4, <2>7
<1>12. CASE AddTable(q) \/ ResizeTable(q) \/ DeleteTable(q) BY <1>12, TablesKeepSeats
<1>13. CASE Assign(q) BY <1>13, AssignKeepsSeats
<1>14. QED
  BY <1>5, <1>6, <1>7, <1>8, <1>9, <1>10, <1>11, <1>12, <1>13 DEF SeatStep

LEMMA SeatsStep == Typed /\ TablesInv /\ SeatsInv /\ [Next]_vars => SeatsInv'
<1> SUFFICES ASSUME Typed, TablesInv, SeatsInv, [Next]_vars PROVE SeatsInv'
  OBVIOUS
<1>1. CallInv /\ RowsTyped BY DEF Typed
<1>2. ASSUME NEW q \in Requests, GuestCalls(q) \/ SeatCalls(q) PROVE SeatsInv'
  BY <1>2, GuestsKeepSeats, SeatCallsKeepSeats DEF GuestCalls, SeatCalls
<1>3. ASSUME NEW q \in Requests, LinkCalls(q) PROVE SeatsInv'
  <2>1. LinkStep(q) BY <1>3 DEF LinkCalls
  <2>2. CallStep(q, LinkOps) /\ Stays BY <1>1, <2>1, LinkCallsTyped DEF RowsGoOn
  <2>3. UNCHANGED <<guest, seatVars>>
    BY <2>1 DEF LinkStep, InvitationRoutes, PublicRoutes, BeginInvite, Invite, BeginReplace,
                Replace, BeginReply, SaveReply, guestVars
  <2>4. QED BY <2>2, <2>3, SeatsQuiet DEF LinkOps, Reserving
<1>4. ASSUME NEW q \in Requests, ImportCalls(q) PROVE SeatsInv'
  <2>1. ImportStep(q) BY <1>4 DEF ImportCalls
  <2>2. CallStep(q, ImportOps) /\ Stays BY <1>4, ImportCallsTyped DEF ImportCalls, RowsGoOn
  <2>3. UNCHANGED seatVars
    BY <2>1 DEF ImportStep, Stage, LoadForMapping, BuildRows, ReplacePreview, BeginCommit,
                InsertGuests, CommitImport, RepeatCommit
  <2>4. ASSUME NEW g \in Present PROVE guest'[g] = guest[g]
    <3>1. CASE CommitImport(q)
      <4>1. \E p : Inserted(p) BY <3>1 DEF CommitImport
      <4>2. QED BY <4>1 DEF Inserted, Present
    <3>2. CASE ~CommitImport(q)
      BY <2>1, <3>2 DEF ImportStep, Stage, LoadForMapping, BuildRows, ReplacePreview,
                        BeginCommit, InsertGuests, RepeatCommit, guestVars
    <3>3. QED BY <3>1, <3>2
  <2>5. QED BY <2>2, <2>3, <2>4, SeatsQuiet DEF ImportOps, Reserving
<1>5. ASSUME NEW q \in Requests, LedgerCalls(q) \/ TemplateCalls(q) \/ Wait(q) \/ Fail(q)
      PROVE  SeatsInv'
  <2>1. UNCHANGED <<guest, seatVars>>
    BY <1>5 DEF LedgerCalls, TemplateCalls, Wait, LockNext, ShareNext, Fail, Refuse, guestVars, seatVars
  <2>2. Stays
    BY <1>5 DEF LedgerCalls, TemplateCalls, Wait, LockNext, ShareNext, Fail, Refuse, Stays, Present,
                Issued, guestVars, linkVars
  <2>3. PICK ops : CallStep(q, ops) /\ ops \cap Reserving = {}
    <3>1. CASE LedgerCalls(q)
      <4>1. CallStep(q, LedgerOps) BY <3>1, LedgerCallsTyped DEF LedgerCalls, Typed
      <4>2. QED BY <4>1 DEF LedgerOps, Reserving
    <3>2. CASE TemplateCalls(q)
      <4>1. CallStep(q, TemplateOps) BY <3>2, TemplateCallsTyped DEF TemplateCalls, Typed
      <4>2. QED BY <4>1 DEF TemplateOps, Reserving
    <3>3. CASE Wait(q) \/ Fail(q)
      <4>1. CallStep(q, {}) BY <3>3, WaitTyped, FailTyped DEF Fail
      <4>2. QED BY <4>1
    <3>4. QED BY <1>5, <3>1, <3>2, <3>3
  <2>4. QED BY <2>1, <2>2, <2>3, SeatsQuiet
<1>6. ASSUME UNCHANGED Others \/ UNCHANGED vars PROVE SeatsInv'
  <2>1. UNCHANGED <<guest, seat, table, call, locks>>
    BY <1>6 DEF Others, vars, guestVars, seatVars, callVars
  <2>2. Present' = Present /\ \A t : Reserved(t)' = Reserved(t)
    BY <2>1 DEF Present, Reserved, Places, Seated
  <2>3. \A c, held : Reserves(c, held) => Reserves(c, held)'
    BY <2>1, <2>2 DEF Reserves, MayResize, TablesOf, HasRoom
  <2>4. QED BY <2>1, <2>2, <2>3 DEF SeatsInv, SeatsFit
<1>7. QED BY <1>2, <1>3, <1>4, <1>5, <1>6 DEF Next

LEMMA SeatsInit == Init => SeatsInv
<1> SUFFICES ASSUME Init PROVE SeatsInv
  OBVIOUS
<1>1. PICK rows \in InitialRows :
        guest = rows.guest /\ table = rows.table /\ seat = rows.seat
  BY DEF Init
<1>2. \A q \in Requests : call[q].op = "none" BY DEF Init, Idle
<1>3. \A g \in Guests : seat[g] # None => g \in Present
  BY <1>1, SeatedAssumption DEF Present
<1>4. ASSUME NEW t \in Tables PROVE Reserved(t) <= table[t]
  <2>1. Cardinality({p \in {g \in Guests : rows.seat[g] = t} \X (1..MaxParty) :
                       p[2] <= rows.guest[p[1]].party}) <= rows.table[t]
    BY SeatedAssumption
  <2>2. QED BY <1>1, <2>1 DEF Reserved, Places, Seated
<1>5. QED BY <1>2, <1>3, <1>4 DEF SeatsInv, SeatsFit, Reserves

\* Guests are seated, moved, resized and imported and tables resized and deleted
\* at the same time, each call in several statements: no table is ever given more
\* people than it seats.
THEOREM SeatsAlwaysFit == Spec => []SeatsFit
<1>1. Rules => TablesInv BY DEF Rules
<1>2. Typed /\ TablesInv /\ SeatsInv /\ [Next]_vars => SeatsInv' BY SeatsStep
<1>3. SeatsInv => SeatsFit BY DEF SeatsInv
<1>4. QED BY <1>1, <1>2, <1>3, SeatsInit, AlwaysTyped, AlwaysRules, PTL DEF Spec
=============================================================================
