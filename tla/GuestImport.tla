------------------------------ MODULE GuestImport ------------------------------
(***************************************************************************)
(* Importing guests from a CSV file: a batch is staged with a preview of   *)
(* every line, mapped again as often as the couple likes, and committed    *)
(* once; it expires a day after it is staged and is then swept away.       *)
(* LoveChapterService and PostgresGuestImportRepository.                   *)
(*                                                                         *)
(* Guests' e-mails and phones are left out: which lines match a guest who  *)
(* is already there is any set of lines, chosen when the lookup runs.      *)
(***************************************************************************)
EXTENDS WeddingRows, Sequences

CONSTANTS Lines,      \* the data lines of the file
          Mappings,   \* the column mappings a couple tries
          Reads,      \* [Mappings -> [Lines -> Cell]]: what a line says under one
          Contacts, Keys

VARIABLES batch,    \* guest_import_batches with its guest_import_rows, or None
          expired,  \* the batches whose expires_at has passed
          draft,    \* a mapping change between its two transactions, or None
          key,      \* the idempotency key each commit in progress was sent with
          shown,    \* history: the previews of each batch, by version
          added,    \* history: the imports, with what their caller confirmed
          told      \* history: what callers were told is imported, by their key

importVars == <<batch, expired, draft, key, shown, added, told>>

\* A line as the file has it: a contact and the affiliation it names.
Cell == [who : Contacts, side : Affiliations \cup {None}] \cup {None}

\* A previewed line: cell None when the line has errors.
Line == [cell : Cell, warned : BOOLEAN, included : BOOLEAN]
Preview == [Lines -> Line]
BatchRow == [version : Nat, rows : Preview, committed : BOOLEAN,
             key : Keys \cup {None}, result : Preview \cup {None}]

Draft == [mapping : Mappings, excluded : SUBSET Lines, rows : Preview \cup {None}]

\* What the sender of a commit learns: its key, and the rows imported for it.
Receipt == [key : Keys, rows : Preview]

ASSUME ImportAssumption ==
  /\ Reads \in [Mappings -> [Lines -> Cell]]
  /\ None \notin Keys \cup Preview \cup BatchRow \cup Draft
  /\ None \notin [who : Contacts, side : Affiliations \cup {None}]

ImportInit ==
  /\ batch = [b \in Batches |-> None]
  /\ draft = [q \in Requests |-> None] /\ key = [q \in Requests |-> None]
  /\ shown = [b \in Batches |-> <<>>]
  /\ added = [b \in Batches |-> <<>>]
  /\ told = [b \in Batches |-> {}]

-----------------------------------------------------------------------------
\* Building a preview.

\* A line is wrong when it names an affiliation that is not there.
Candidate(m, l) ==
  IF Reads[m][l] # None /\ Exists(Reads[m][l].side) THEN Reads[m][l] ELSE None

\* Lines that name the same contact warn of each other, excluded ones too.
Twice(m, l) ==
  \E k \in Lines \ {l} : /\ Candidate(m, k) # None /\ Candidate(m, l) # None
                         /\ Candidate(m, k).who = Candidate(m, l).who

\* known: the lines the lookup finds among the wedding's active guests.
Built(m, excluded, known) ==
  [l \in Lines |->
     [cell |-> Candidate(m, l),
      warned |-> Candidate(m, l) # None /\ (Twice(m, l) \/ l \in known),
      included |-> l \notin excluded]]

\* The lines a request may send: an import of exactly the included lines,
\* none wrong.
Included(p) == {l \in Lines : p[l].included}
Warned(p) == {l \in Included(p) : p[l].warned}
Importable(p) == \A l \in Included(p) : p[l].cell # None

-----------------------------------------------------------------------------
\* A batch in the database that has not expired.
Found(b) == batch[b] # None /\ b \notin expired

NewBatch(p) == [version |-> 1, rows |-> p, committed |-> FALSE,
                key |-> None, result |-> None]

Stage(q) ==
  \E b \in Batches :
    /\ batch[b] = None /\ b \notin expired
    /\ Shareable(q, {Wedding})      \* the foreign key's lock
    /\ \E m \in Mappings, known \in SUBSET Lines :
         /\ batch' = [batch EXCEPT ![b] = NewBatch(Built(m, {}, known))]
         /\ shown' = [shown EXCEPT ![b] = <<Built(m, {}, known)>>]
    /\ Once(q)
    /\ UNCHANGED <<expired, draft, key, added, told, guestVars, linkVars, seatVars>>

\* The first transaction of a mapping change reads the batch and lets go of it.
LoadForMapping(q) ==
  \E b \in Batches :
    /\ Found(b) /\ Free(q, {b}) /\ ~batch[b].committed
    /\ Take(q, {}, [Idle EXCEPT !.op = "map", !.batch = b, !.size = batch[b].version])
    /\ \E m \in Mappings, excluded \in SUBSET Lines :
         draft' = [draft EXCEPT ![q] = [mapping |-> m, excluded |-> excluded, rows |-> None]]
    /\ UNCHANGED <<batch, expired, key, shown, added, told, guestVars, linkVars, seatVars>>

\* Affiliations and likely duplicates are then read with no lock at all.
BuildRows(q) ==
  /\ Running(q, "map") /\ draft[q].rows = None
  /\ \E known \in SUBSET Lines :
       draft' = [draft EXCEPT ![q].rows = Built(draft[q].mapping, draft[q].excluded, known)]
  /\ UNCHANGED <<batch, expired, key, shown, added, told, callVars,
                 guestVars, linkVars, seatVars>>

\* Mutant: the version the caller saw is not compared.
IsUncommitted(b, version) == ~batch[b].committed

\* Whether the preview a caller names is the one the batch has.
IsCurrent(b, version) == ~batch[b].committed /\ batch[b].version = version

Remapped(old, p) == [old EXCEPT !.rows = p, !.version = @ + 1]

ReplacePreview(q) ==
  /\ Running(q, "map") /\ draft[q].rows # None
  /\ LET b == call[q].batch IN
       /\ Found(b) /\ Free(q, {b})
       /\ IsCurrent(b, call[q].size)
       /\ batch' = [batch EXCEPT ![b] = Remapped(@, draft[q].rows)]
       /\ shown' = [shown EXCEPT ![b] = Append(@, draft[q].rows)]
  /\ draft' = [draft EXCEPT ![q] = None]
  /\ Done(q)
  /\ UNCHANGED <<expired, key, added, told, guestVars, linkVars, seatVars>>

-----------------------------------------------------------------------------
\* Committing.  The caller names the version of the preview it saw, every
\* line included there and every warning it accepts, and a key of its own.

\* The lines named are those the batch holds, and none of them is wrong.
Confirms(seen, p) ==
  /\ Included(seen) = Included(p) /\ Importable(p)
  /\ Warned(seen) = Warned(p)

BeginCommit(q) ==
  \E b \in Batches :
    /\ Found(b)
    /\ \E version \in 1..Len(shown[b]) :
         /\ IsCurrent(b, version) /\ Confirms(shown[b][version], batch[b].rows)
         /\ Take(q, {b}, [Idle EXCEPT !.op = "commit", !.batch = b, !.size = version])
    /\ \E k \in Keys : key' = [key EXCEPT ![q] = k]
    /\ UNCHANGED <<batch, expired, draft, shown, added, told, guestVars, linkVars, seatVars>>

\* One new guest for every included line.
Inserted(p) ==
  \E who \in [Included(p) -> Guests \ Present] :
    /\ \A k, l \in Included(p) : k # l => who[k] # who[l]
    /\ guest' = [g \in Guests |->
                   IF \E l \in Included(p) : who[l] = g
                   THEN [party |-> 1, archived |-> FALSE,
                         aff |-> p[CHOOSE l \in Included(p) : who[l] = g].cell.side]
                   ELSE guest[g]]

Marked(old, k) == [old EXCEPT !.committed = TRUE, !.key = k, !.result = old.rows]

\* The insert's foreign keys share the wedding's row and then the rows of the
\* sides, one after the other.  Nothing is locked when no line is included.
SidesNamed(p) == {p[l].cell.side : l \in Included(p)} \ {None}

InsertGuests(q) ==
  /\ Running(q, "commit")
  /\ LET p == batch[call[q].batch].rows
         parents == IF Included(p) = {} THEN {} ELSE {Wedding} IN
       /\ Shareable(q, parents)
       /\ Decide(q, [call[q] EXCEPT !.op = "insert", !.shares = parents,
                                     !.need = SidesNamed(p)])
  /\ UNCHANGED <<importVars, guestVars, linkVars, seatVars>>

CommitImport(q) ==
  /\ Running(q, "insert")
  /\ LET b == call[q].batch
         p == batch[b].rows IN
       /\ \A l \in Included(p) : Exists(p[l].cell.side)
       /\ Inserted(p)
       /\ IsCurrent(b, call[q].size)
       /\ batch' = [batch EXCEPT ![b] = Marked(@, key[q])]
       /\ added' = [added EXCEPT ![b] =
                      Append(@, [confirmed |-> shown[b][call[q].size], inserted |-> p])]
       /\ told' = [told EXCEPT ![b] = @ \cup {[key |-> key[q], rows |-> p]}]
  /\ key' = [key EXCEPT ![q] = None]
  /\ Done(q)
  /\ UNCHANGED <<aff, expired, draft, shown, linkVars, seatVars>>

\* Mutant: the key a commit was made with is not compared.
AnyKey(b, k) == batch[b].committed

\* Whether a commit is the one that was made, sent again.
SameKey(b, k) == batch[b].committed /\ batch[b].key = k

\* The same commit sent again: the stored result, to the same key only.
RepeatCommit(q) ==
  \E b \in Batches :
    /\ Found(b) /\ Free(q, {b})
    /\ \E k \in Keys :
         /\ SameKey(b, k)
         /\ told' = [told EXCEPT ![b] = @ \cup {[key |-> k, rows |-> batch[b].result]}]
    /\ Once(q)
    /\ UNCHANGED <<batch, expired, draft, key, shown, added, guestVars, linkVars, seatVars>>

-----------------------------------------------------------------------------
\* A day passes.
Expire(b) ==
  /\ batch[b] # None /\ b \notin expired
  /\ expired' = expired \cup {b}
  /\ UNCHANGED <<batch, draft, key, shown, added, told>>

\* The cron's sweep deletes expired batches whose row nobody holds.
Cleanup(b) ==
  /\ batch[b] # None /\ b \in expired
  /\ \A q \in Requests : b \notin locks[q]
  /\ batch' = [batch EXCEPT ![b] = None]
  /\ UNCHANGED <<expired, draft, key, shown, added, told>>

\* A call that fails forgets its draft and its key with it.
ForgetImport(q) ==
  /\ draft' = [draft EXCEPT ![q] = None]
  /\ key' = [key EXCEPT ![q] = None]
  /\ UNCHANGED <<batch, expired, shown, added, told>>

ImportStep(q) ==
  \/ Stage(q) \/ LoadForMapping(q) \/ BuildRows(q) \/ ReplacePreview(q)
  \/ BeginCommit(q) \/ InsertGuests(q) \/ CommitImport(q) \/ RepeatCommit(q)

-----------------------------------------------------------------------------
ImportTypeOK ==
  /\ batch \in [Batches -> BatchRow \cup {None}]
  /\ expired \subseteq Batches
  /\ draft \in [Requests -> Draft \cup {None}]
  /\ key \in [Requests -> Keys \cup {None}]
  /\ shown \in [Batches -> Seq(Preview)]
  /\ added \in [Batches -> Seq([confirmed : Preview, inserted : Preview])]
  /\ told \in [Batches -> SUBSET Receipt]
=============================================================================
