------------------------------- MODULE Config -------------------------------
(***************************************************************************)
(* The rules of a configuration, from the file or from EnrichmentRules     *)
(* (internal/config/config.go), as far as the engine and the enforcement   *)
(* of tenancy look at them, and which are valid (validate.go).  A matcher  *)
(* is the set of values it stands for; one source is declared.  The        *)
(* definitions commented "Mutant" are deliberate faults nothing uses.      *)
(***************************************************************************)
EXTENDS Naturals, Sequences

CONSTANTS Names,      \* of labels and annotations
          Reserved,   \* config.ReservedLabels
          Values      \* of labels and annotations, the empty string included

ASSUME ConfigAssumption == Reserved \subseteq Names

Kinds == {"label", "annotation"}

\* set.value is never empty; from has a default or not.
SetAction == [op : {"set"}, kind : Kinds, name : Names,
              by : {"value", "template", "from", "fromOrDefault"},
              overwrite : BOOLEAN, force : BOOLEAN]
DropAction == [op : {"drop"}, kind : Kinds, name : Names, force : BOOLEAN]
Matcher == [name : Names, values : SUBSET Values, negated : BOOLEAN]
Rule == [match : SUBSET Matcher, actions : Seq(SetAction \cup DropAction),
         required : BOOLEAN, dryRun : BOOLEAN]

\* Mutant: only drop honours the reserved labels.
ValidSetUnguarded(s) == s.kind = "annotation" => ~s.force

ValidSet(s) ==
  IF s.kind = "annotation" THEN ~s.force
                           ELSE s.name \in Reserved /\ s.overwrite => s.force

ValidDrop(d) ==
  IF d.kind = "annotation" THEN ~d.force ELSE d.name \in Reserved => d.force

ValidAction(a) == IF a.op = "set" THEN ValidSet(a) ELSE ValidDrop(a)

ValidRule(r) == r.actions # <<>> /\ \A i \in DOMAIN r.actions : ValidAction(r.actions[i])
=============================================================================
