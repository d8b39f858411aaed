------------------------------- MODULE Workspace -------------------------------
(***************************************************************************)
(* One wedding's workspace: guests and sides, invitation links and         *)
(* replies, tables and seats, the CSV import, the budget and the envelope  *)
(* templates, changed by several API calls at a time over one set of rows  *)
(* and row locks.                                                          *)
(***************************************************************************)
EXTENDS GuestList, InvitationLinks, SeatingPlan, GuestImport, Ledger,
        EnvelopeTemplates

CONSTANT InitialRows   \* the rows a behaviour may start from

\* The rows that calls before these have left.
ASSUME RowsAssumption ==
  \A rows \in InitialRows :
    /\ rows.guest \in [Guests -> Guest \cup {None}]
    /\ rows.aff \in [Affiliations -> Nat \cup {-1}]
    /\ rows.link \in [Links -> Link \cup {None}]
    /\ rows.rsvp \in [Guests -> Reply \cup {None}]
    /\ rows.table \in [Tables -> 0..MaxCapacity]
    /\ rows.seat \in [Guests -> Tables \cup {None}]
    /\ rows.currency \in Currencies \cup {None}
    /\ rows.category \subseteq Categories /\ rows.template \subseteq Templates
    /\ rows.quote \in [Vendors -> Currencies \cup {Unquoted, None}]
    /\ rows.cost \in [Expenses -> Cost \cup {None}]
    /\ rows.expired \subseteq Batches
    /\ \A l \in Links : rows.link[l] # None => rows.guest[rows.link[l].guest] # None
    /\ \A l \in Links : rows.link[l] # None /\ rows.link[l].live =>
         /\ ~rows.guest[rows.link[l].guest].archived
         /\ \A k \in Links \ {l} :
              rows.link[k] = None \/ ~rows.link[k].live \/
              rows.link[k].guest # rows.link[l].guest
    /\ \A a, b \in Affiliations : a # b /\ rows.aff[a] >= 0 => rows.aff[a] # rows.aff[b]
    /\ Cardinality({a \in Affiliations : rows.aff[a] >= 0}) <= MaxAffiliations
    /\ Cardinality({t \in Tables : rows.table[t] > 0}) <= MaxTables
    /\ Cardinality(rows.category) <= MaxCategories
    /\ Cardinality(rows.template) <= MaxTemplates
    /\ \A e \in Expenses : rows.cost[e] # None => rows.cost[e].currency = rows.currency
    /\ \A v \in Vendors : rows.quote[v] \in Currencies => rows.quote[v] = rows.currency

\* Guests who are there sit at tables that seat their parties.
ASSUME SeatedAssumption ==
  \A rows \in InitialRows :
    /\ \A g \in Guests : rows.seat[g] # None => rows.guest[g] # None
    /\ \A t \in Tables :
         Cardinality({p \in {g \in Guests : rows.seat[g] = t} \X (1..MaxParty) :
                        p[2] <= rows.guest[p[1]].party}) <= rows.table[t]

vars == <<guestVars, linkVars, seatVars, callVars, importVars, ledgerVars, template>>

Init ==
  /\ \E rows \in InitialRows :
       /\ guest = rows.guest /\ aff = rows.aff /\ link = rows.link
       /\ rsvp = rows.rsvp /\ table = rows.table /\ seat = rows.seat
       /\ currency = rows.currency /\ quote = rows.quote /\ cost = rows.cost
       /\ category = rows.category /\ template = rows.template
       /\ expired = rows.expired /\ calls = 0
  /\ ImportInit
  /\ call = [q \in Requests |-> Idle]
  /\ locks = [q \in Requests |-> {}]

\* The routes of the API, and what ends or blocks a call.
GuestCalls(q) == GuestStep(q) /\ UNCHANGED <<importVars, ledgerVars, template>>
LinkCalls(q) == LinkStep(q) /\ UNCHANGED <<importVars, ledgerVars, template>>
SeatCalls(q) == SeatStep(q) /\ UNCHANGED <<importVars, ledgerVars, template>>
ImportCalls(q) == ImportStep(q) /\ UNCHANGED <<ledgerVars, template>>
LedgerCalls(q) ==
  LedgerStep(q) /\ UNCHANGED <<guestVars, linkVars, seatVars, importVars, template>>
TemplateCalls(q) ==
  TemplateStep(q) /\ UNCHANGED <<guestVars, linkVars, seatVars, importVars, ledgerVars>>
Wait(q) == (LockNext(q) \/ ShareNext(q)) /\ UNCHANGED <<importVars, ledgerVars, template>>
Fail(q) == Refuse(q) /\ ForgetImport(q) /\ UNCHANGED <<ledgerVars, template>>

Others == <<guestVars, linkVars, seatVars, callVars, ledgerVars, template>>

Next ==
  \/ \E q \in Requests :
       \/ GuestCalls(q) \/ LinkCalls(q) \/ SeatCalls(q) \/ ImportCalls(q)
       \/ LedgerCalls(q) \/ TemplateCalls(q) \/ Wait(q) \/ Fail(q)
  \/ \E b \in Batches : (Expire(b) \/ Cleanup(b)) /\ UNCHANGED Others

Spec == Init /\ [][Next]_vars

-----------------------------------------------------------------------------
TypeOK ==
  /\ guest \in [Guests -> Guest \cup {None}]
  /\ aff \in [Affiliations -> Nat \cup {-1}]
  /\ link \in [Links -> Link \cup {None}]
  /\ rsvp \in [Guests -> Reply \cup {None}]
  /\ table \in [Tables -> 0..MaxCapacity]
  /\ seat \in [Guests -> Tables \cup {None}]
  /\ call \in [Requests -> Call]
  /\ locks \in [Requests -> SUBSET Rows]
  /\ calls \in 0..MaxCalls
  /\ ImportTypeOK
  /\ LedgerTypeOK
  /\ template \subseteq Templates

\* No table is given more people than it seats, whatever order guests are
\* seated, moved and resized in and tables are resized or deleted in.
SeatsFit == \A t \in Tables : Reserved(t) <= table[t]

\* A guest has one link that opens at most, and an archived guest has none:
\* a link never opens again after the guest was archived and restored.
OneLiveLink ==
  \A g \in Guests :
    /\ \A k, l \in LiveLinks(g) : k = l
    /\ LiveLinks(g) # {} => guest[g] # None /\ ~guest[g].archived

\* Two sides never take the same place in the list.
SidesInOrder == \A a, b \in Sides : a # b => aff[a] # aff[b]

\* Concurrent creations stay within the limits they count rows for.
WithinLimits ==
  /\ Cardinality(Sides) <= MaxAffiliations
  /\ Cardinality(TablesThere) <= MaxTables
  /\ Cardinality(category) <= MaxCategories
  /\ Cardinality(template) <= MaxTemplates

\* Every expense and every quote counts in the currency the budget shows it
\* in: the rows do not say which currency they were saved under.
AmountsKeepTheirCurrency ==
  /\ \A e \in Costs : cost[e].currency = currency
  /\ \A v \in Quotes : quote[v] = currency

\* Whether what p does next may wait for q: for a row, or for the name of a
\* table.  Names are left out: any two may be the same, and a call that changes
\* a table keeps the old and the new name until it ends.
WaitsFor(p, q) ==
  \/ /\ call[p].op \notin Sharing
     /\ NextRows(call[p]) \cap (locks[q] \cup call[q].shares) # {}
  \/ /\ call[p].op \in Sharing
     /\ call[p].need \cap locks[q] # {}
  \/ /\ call[p].op \in {"newTable", "resized"}
     /\ call[q].op = "resized"

Stuck(S) == S # {} /\ \A p \in S : \E q \in S \ {p} : WaitsFor(p, q)

\* Calls that wait for each other in a circle have a bulk change among them, or
\* a patch that gives a guest a side which a call holds that locks guests
\* after it, or two tables that exchange names.  Any other calls, however they
\* overlap, leave one that can go on: moving parties between tables in opposite
\* directions, changing sides, importing, adding and deleting.
OnlyKnownCircles ==
  \A S \in SUBSET Requests :
    Stuck(S) =>
      \/ \E q \in S : call[q].op \in {"bulkSide", "bulkArchive"}
      \/ \E p, q \in S : /\ call[p].op = "patch" /\ call[q].op \in {"setSide", "emptySide"}
                         /\ call[p].need \cap locks[q] # {}
      \/ \E p, q \in S : p # q /\ call[p].op = "resized" /\ call[q].op = "resized"

\* A reply is stored only while the link it came through is open.
RepliesComeThroughOpenLinks ==
  [][\A g \in Guests :
       rsvp'[g] # rsvp[g] => /\ rsvp'[g] # None /\ Opens(rsvp'[g].via)
                             /\ link[rsvp'[g].via].guest = g]_vars

\* The import of a file is what OneImport promises.
Import == INSTANCE OneImport WITH
            offered <- shown, accepted <- added,
            Sendable <- {p \in Preview : Importable(p)}
ImportSpec == Import!Spec
=============================================================================
