------------------------------- MODULE OneImport -------------------------------
(***************************************************************************)
(* What a guest import promises the couple, without locks, keys or         *)
(* versions of rows: previews are offered one after the other, at most one *)
(* of them is accepted, it is the last one offered, the one its caller saw *)
(* and confirmed, and only the sender of that one commit, known by its     *)
(* key, is told that it was made.                                          *)
(***************************************************************************)
EXTENDS Naturals, Sequences

CONSTANTS Batches, Preview, Keys,
          Sendable   \* the previews that may be imported

VARIABLES offered,    \* the previews of each batch, oldest first
          accepted,   \* the imports: what was confirmed, and what was inserted
          told        \* what callers were told is imported, by their key

vars == <<offered, accepted, told>>

Init ==
  /\ offered = [b \in Batches |-> <<>>]
  /\ accepted = [b \in Batches |-> <<>>]
  /\ told = [b \in Batches |-> {}]

\* The second conjunct follows from the third; it spares TLC the previews in the
\* many steps that offer nothing.
Offer(b) ==
  /\ accepted[b] = <<>>
  /\ Len(offered'[b]) > Len(offered[b])
  /\ \E p \in Preview : offered' = [offered EXCEPT ![b] = Append(@, p)]
  /\ UNCHANGED <<accepted, told>>

Accept(b) ==
  /\ offered[b] # <<>> /\ accepted[b] = <<>>
  /\ LET last == offered[b][Len(offered[b])] IN
       /\ last \in Sendable
       /\ accepted' = [accepted EXCEPT ![b] =
                                     <<[confirmed |-> last, inserted |-> last]>>]
       /\ \E k \in Keys : told' = [told EXCEPT ![b] = {[key |-> k, rows |-> last]}]
  /\ UNCHANGED offered

Next == \E b \in Batches : Offer(b) \/ Accept(b)

Spec == Init /\ [][Next]_vars
=============================================================================
