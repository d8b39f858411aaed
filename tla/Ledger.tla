------------------------------- MODULE Ledger -------------------------------
(***************************************************************************)
(* The budget of a wedding: its currency, cost categories, vendors with    *)
(* their quotes, and expenses.  PostgresWeddingOperationsRepository.  An   *)
(* amount is left out, but not the currency it counts minor units of: that *)
(* is nowhere in its row, and quote and cost keep it as history.           *)
(***************************************************************************)
EXTENDS WeddingRows

CONSTANTS Expenses, Unquoted, MaxCategories

VARIABLES currency,   \* budget_configs: the budget's currency, None without one
          category,   \* budget_categories: the rows there are
          quote,      \* vendors: None, Unquoted, or the currency of the quote
          cost        \* expenses: the row, or None

ledgerVars == <<currency, category, quote, cost>>

Cost == [currency : Currencies, category : Categories \cup {None},
         vendor : Vendors \cup {None}]

ASSUME LedgerAssumption ==
  /\ Unquoted \notin Currencies \cup {None} /\ None \notin Cost
  /\ IsFiniteSet(Categories) /\ MaxCategories \in Nat

VendorsThere == {v \in Vendors : quote[v] # None}
Costs == {e \in Expenses : cost[e] # None}
Quotes == {v \in Vendors : quote[v] \in Currencies}

-----------------------------------------------------------------------------
\* The currency is fixed once anything is counted in it.
MayUse(c) == currency = c \/ currency = None \/ (Costs = {} /\ Quotes = {})

\* All writes that interpret the currency take the wedding's lock first.
BeginBudget(q) ==
  /\ Take(q, {Wedding}, [Idle EXCEPT !.op = "budget"])
  /\ UNCHANGED ledgerVars

CheckCurrency(q) ==
  /\ Running(q, "budget")
  /\ \E c \in Currencies :
       /\ MayUse(c)
       /\ Decide(q, [call[q] EXCEPT !.op = "newBudget", !.currency = c])
  /\ UNCHANGED ledgerVars

SetBudget(q) ==
  /\ Running(q, "newBudget")
  /\ currency' = call[q].currency
  /\ Done(q)
  /\ UNCHANGED <<category, quote, cost>>

-----------------------------------------------------------------------------
\* Categories.

BeginAddCategory(q) ==
  /\ Take(q, {Wedding}, [Idle EXCEPT !.op = "addCategory"])
  /\ UNCHANGED ledgerVars

CountCategories(q) ==
  /\ Running(q, "addCategory")
  /\ Cardinality(category) < MaxCategories
  /\ Decide(q, [call[q] EXCEPT !.op = "newCategory"])
  /\ UNCHANGED ledgerVars

AddCategory(q) ==
  /\ Running(q, "newCategory")
  /\ \E k \in Categories \ category : category' = category \cup {k}
  /\ Done(q)
  /\ UNCHANGED <<currency, quote, cost>>

BeginDropCategory(q) ==
  /\ \E k \in category :
       Take(q, {Wedding}, [Idle EXCEPT !.op = "dropCategory", !.item = k, !.need = {k}])
  /\ UNCHANGED ledgerVars

\* The expenses of a deleted category stay, without one.
DropCategory(q) ==
  /\ Running(q, "dropCategory") /\ call[q].item \in category
  /\ category' = category \ {call[q].item}
  /\ cost' = [e \in Expenses |-> IF e \in Costs /\ cost[e].category = call[q].item
                                 THEN [cost[e] EXCEPT !.category = None] ELSE cost[e]]
  /\ Done(q)
  /\ UNCHANGED <<currency, quote>>

-----------------------------------------------------------------------------
\* Vendors.  Only a save with a quote takes the wedding's lock.

BeginQuote(q) ==
  /\ Take(q, {Wedding}, [Idle EXCEPT !.op = "vendor"])
  /\ UNCHANGED ledgerVars

ReadBudget(q) ==
  /\ Running(q, "vendor")
  /\ currency # None
  /\ Decide(q, [call[q] EXCEPT !.op = "newVendor", !.currency = currency])
  /\ UNCHANGED ledgerVars

SaveQuote(q) ==
  /\ Running(q, "newVendor")
  /\ \E v \in Vendors : quote' = [quote EXCEPT ![v] = call[q].currency]
  /\ Done(q)
  /\ UNCHANGED <<currency, category, cost>>

\* A vendor without a quote is saved in one statement; a new row waits for
\* the wedding's row, an old one for its own.
SaveVendor(q) ==
  \E v \in Vendors :
    /\ IF quote[v] = None THEN Shareable(q, {Wedding}) ELSE Free(q, {v})
    /\ quote' = [quote EXCEPT ![v] = Unquoted]
    /\ Once(q)
    /\ UNCHANGED <<currency, category, cost>>

BeginDropVendor(q) ==
  /\ \E v \in VendorsThere :
       Take(q, {Wedding}, [Idle EXCEPT !.op = "dropVendor", !.item = v, !.need = {v}])
  /\ UNCHANGED ledgerVars

DropVendor(q) ==
  /\ Running(q, "dropVendor") /\ call[q].item \in VendorsThere
  /\ quote' = [quote EXCEPT ![call[q].item] = None]
  /\ cost' = [e \in Expenses |-> IF e \in Costs /\ cost[e].vendor = call[q].item
                                 THEN [cost[e] EXCEPT !.vendor = None] ELSE cost[e]]
  /\ Done(q)
  /\ UNCHANGED <<currency, category>>

-----------------------------------------------------------------------------
\* Expenses.

\* Mutant: an expense is saved without the wedding's lock.
BeginExpenseUnlocked(q) ==
  /\ Take(q, {}, [Idle EXCEPT !.op = "expense"])
  /\ UNCHANGED ledgerVars

BeginExpense(q) ==
  /\ Take(q, {Wedding}, [Idle EXCEPT !.op = "expense"])
  /\ UNCHANGED ledgerVars

CheckBudget(q) ==
  /\ Running(q, "expense")
  /\ currency # None
  /\ Decide(q, [call[q] EXCEPT !.op = "newExpense", !.currency = currency])
  /\ UNCHANGED ledgerVars

\* The category and the vendor must be rows of this wedding.
SaveExpense(q) ==
  /\ Running(q, "newExpense")
  /\ \E e \in Expenses, k \in category \cup {None}, v \in VendorsThere \cup {None} :
       cost' = [cost EXCEPT ![e] = [currency |-> call[q].currency,
                                    category |-> k, vendor |-> v]]
  /\ Done(q)
  /\ UNCHANGED <<currency, category, quote>>

DeleteExpense(q) ==
  \E e \in Costs :
    /\ cost' = [cost EXCEPT ![e] = None]
    /\ Once(q)
    /\ UNCHANGED <<currency, category, quote>>

BudgetRoutes(q) == BeginBudget(q) \/ CheckCurrency(q) \/ SetBudget(q)
CategoryRoutes(q) ==
  \/ BeginAddCategory(q) \/ CountCategories(q) \/ AddCategory(q)
  \/ BeginDropCategory(q) \/ DropCategory(q)
VendorRoutes(q) ==
  \/ BeginQuote(q) \/ ReadBudget(q) \/ SaveQuote(q) \/ SaveVendor(q)
  \/ BeginDropVendor(q) \/ DropVendor(q)
ExpenseRoutes(q) ==
  BeginExpense(q) \/ CheckBudget(q) \/ SaveExpense(q) \/ DeleteExpense(q)

LedgerStep(q) ==
  BudgetRoutes(q) \/ CategoryRoutes(q) \/ VendorRoutes(q) \/ ExpenseRoutes(q)

-----------------------------------------------------------------------------
LedgerTypeOK ==
  /\ currency \in Currencies \cup {None}
  /\ category \subseteq Categories
  /\ quote \in [Vendors -> Currencies \cup {Unquoted, None}]
  /\ cost \in [Expenses -> Cost \cup {None}]
=============================================================================
