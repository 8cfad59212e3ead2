----------------------------- MODULE MCEvaluate -----------------------------
(***************************************************************************)
(* Instances of Evaluate for TLC: two EnrichmentRules of one namespace and *)
(* one of another, under one policy that limits a namespace to a single    *)
(* rule and one that does not limit it.                                    *)
(***************************************************************************)
EXTENDS Evaluate, TLC

CONSTANTS team, severity, a, b, limited, free, alien

Namespace == [c \in CRs |-> IF c = 3 THEN b ELSE a]

NoNames == [allow |-> {}, deny |-> {}]

TwoPolicies ==
  << [selects |-> {limited}, match |-> {}, labels |-> [allow |-> {}, deny |-> {severity}],
      annotations |-> NoNames, sources |-> FALSE, required |-> FALSE, maxRules |-> 1],
     [selects |-> {free}, match |-> {}, labels |-> [allow |-> {}, deny |-> {severity}],
      annotations |-> NoNames, sources |-> FALSE, required |-> FALSE, maxRules |-> 0] >>

\* A rule that drops a label.
DropsLabel(name) ==
  [match |-> {}, required |-> FALSE, dryRun |-> FALSE,
   actions |-> <<[op |-> "drop", kind |-> "label", name |-> name, force |-> FALSE]>>]

\* Permitted, early or late, or disallowed.
SomeSpecs ==
  {[order |-> 0, rule |-> DropsLabel(severity)]} \cup
    [order : {0, 1}, rule : {DropsLabel(team)}]

Symmetry == Permutations(Evaluations)
=============================================================================
