--------------------------- MODULE EnvelopeTemplates ---------------------------
(***************************************************************************)
(* The envelope print templates of a wedding: PostgresEnvelopeRepository.  *)
(* Their names and layouts are left out, so changing one is no step.       *)
(***************************************************************************)
EXTENDS WeddingRows

CONSTANTS Templates, MaxTemplates

ASSUME TemplatesAssumption == IsFiniteSet(Templates) /\ MaxTemplates \in Nat

VARIABLE template   \* envelope_print_templates: the rows there are

BeginAddTemplate(q) ==
  /\ Take(q, {Wedding}, [Idle EXCEPT !.op = "addTemplate"])
  /\ UNCHANGED template

CountTemplates(q) ==
  /\ Running(q, "addTemplate")
  /\ Cardinality(template) < MaxTemplates
  /\ Decide(q, [call[q] EXCEPT !.op = "newTemplate"])
  /\ UNCHANGED template

AddTemplate(q) ==
  /\ Running(q, "newTemplate")
  /\ \E e \in Templates \ template : template' = template \cup {e}
  /\ Done(q)

DeleteTemplate(q) ==
  \E e \in template : template' = template \ {e} /\ Once(q)

TemplateStep(q) ==
  \/ BeginAddTemplate(q) \/ CountTemplates(q) \/ AddTemplate(q) \/ DeleteTemplate(q)
=============================================================================
