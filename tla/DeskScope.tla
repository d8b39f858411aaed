-------------------------------- MODULE DeskScope --------------------------------
(* What the couple looks at in the browser: one section of one wedding.      *)
EXTENDS Integers

CONSTANTS MaxActs,   \* bound: clicks of the couple
          NoAnswer   \* a request fails, or its answer is lost

ASSUME ScopeAssumption == MaxActs \in Nat

VARIABLES selected, section,
          scope,      \* weddingGeneration: counts the weddings chosen
          creating,   \* a wedding is being created: nothing can be clicked
          moreBusy,   \* busy = "more-weddings"
          acts

scopeVars == <<selected, section, scope, creating, moreBusy, acts>>

Panels == {"planning", "budget", "schedule", "seating"}
Sections == Panels \cup {"overview", "guests"}

Act == ~creating /\ acts < MaxActs /\ acts' = acts + 1
Click == Act /\ UNCHANGED <<selected, section, scope, creating, moreBusy>>
=============================================================================
