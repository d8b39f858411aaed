---------------------------- MODULE InvitationLinks ----------------------------
(***************************************************************************)
(* Invitation links and the replies that come through them.  A link is     *)
(* known by its token, of which the database keeps a hash; the service     *)
(* never gives a link an expiry.  Couples make and replace links under the *)
(* guest's row lock; the public reply locks the link alone.                *)
(***************************************************************************)
EXTENDS WeddingRows

\* What the public page may send: declined, or attending with some people.
Answers == 0..MaxParty

NewLink(l, g) == link' = [link EXCEPT ![l] = [guest |-> g, live |-> TRUE]]
Unused == {l \in Links : link[l] = None}

BeginInvite(q) ==
  /\ \E g \in Present :
       /\ ~guest[g].archived
       /\ Take(q, {g}, [Idle EXCEPT !.op = "invite", !.guests = {g}])
  /\ UNCHANGED <<guestVars, linkVars, seatVars>>

\* One live link a guest: a partial unique index refuses a second one.
OneActive(g) == LiveLinks(g) = {}

Invite(q) ==
  /\ Running(q, "invite")
  /\ \E g \in call[q].guests, l \in Unused :
       /\ ~guest[g].archived
       /\ OneActive(g)
       /\ NewLink(l, g)
  /\ Done(q)
  /\ UNCHANGED <<guestVars, rsvp, seatVars>>

BeginReplace(q) ==
  /\ \E g \in Present :
       /\ ~guest[g].archived
       /\ Take(q, {g}, [Idle EXCEPT !.op = "replace", !.guests = {g}])
  /\ UNCHANGED <<guestVars, linkVars, seatVars>>

\* Revokes the guest's live links and adds one, in the same transaction.
Replaced(g, l) ==
  link' = [k \in Links |->
             IF k = l THEN [guest |-> g, live |-> TRUE]
             ELSE IF k \in LiveLinks(g) THEN [link[k] EXCEPT !.live = FALSE]
             ELSE link[k]]

Replace(q) ==
  /\ Running(q, "replace")
  /\ \E g \in call[q].guests, l \in Unused :
       ~guest[g].archived /\ Replaced(g, l)
  /\ Done(q)
  /\ UNCHANGED <<guestVars, rsvp, seatVars>>

-----------------------------------------------------------------------------
\* The public page.

\* The link a token opens: live, of a guest who is not archived.
Opens(l) == /\ link[l] # None /\ link[l].live
            /\ ~guest[link[l].guest].archived

\* The reply is one statement.  It finds the link, the guest and the party
\* allowance in its snapshot, and may then wait for the link's row.
BeginReply(q) ==
  /\ \E l \in Links :
       /\ Opens(l)
       /\ Take(q, {}, [Idle EXCEPT !.op = "reply", !.link = l,
                                   !.size = guest[link[l].guest].party])
  /\ UNCHANGED <<guestVars, linkVars, seatVars>>

\* Mutant: the link found in the snapshot is not read again.
StillOpensUnread(l) == TRUE

\* With the link's row locked its own columns are read again, the guest's
\* are not: a link revoked during the wait is refused, an allowance changed
\* during the wait is not seen.
StillOpens(l) == link[l].live
SizeFits(size, allowed) == size <= allowed

SaveReply(q) ==
  /\ Running(q, "reply")
  /\ StillOpens(call[q].link)
  /\ \E size \in Answers :
       /\ SizeFits(size, call[q].size)
       /\ rsvp' = [rsvp EXCEPT ![link[call[q].link].guest] =
                     [size |-> size, via |-> call[q].link]]
  /\ Done(q)
  /\ UNCHANGED <<guestVars, link, seatVars>>

InvitationRoutes(q) == BeginInvite(q) \/ Invite(q) \/ BeginReplace(q) \/ Replace(q)
PublicRoutes(q) == BeginReply(q) \/ SaveReply(q)

LinkStep(q) == InvitationRoutes(q) \/ PublicRoutes(q)
=============================================================================
