------------------------------ MODULE MCTenancy ------------------------------
(***************************************************************************)
(* Instances of Tenancy for TLC: two namespaces under two policies, one of *)
(* which also asserts the cluster and leaves the other labels alone.       *)
(***************************************************************************)
EXTENDS Tenancy

CONSTANTS namespace, cluster, severity, a, b, isolated, trusted

NoNames == [allow |-> {}, deny |-> {}]
OnCluster == [name |-> cluster, values |-> {a}, negated |-> FALSE]

TwoPolicies ==
  << [selects |-> {isolated}, match |-> {OnCluster}, labels |-> NoNames,
      annotations |-> NoNames, sources |-> FALSE, required |-> FALSE, maxRules |-> 0],
     [selects |-> Profiles, match |-> {}, labels |-> [allow |-> {}, deny |-> {severity}],
      annotations |-> NoNames, sources |-> TRUE, required |-> TRUE, maxRules |-> 0] >>

Profiled == [n \in Namespaces |-> IF n = a THEN isolated ELSE trusted]

Sets(by, name) ==
  [op |-> "set", kind |-> "label", name |-> name, by |-> by, overwrite |-> TRUE,
   force |-> FALSE]
Drops(name) == [op |-> "drop", kind |-> "label", name |-> name, force |-> FALSE]

RuleOf(matches, actions, required) ==
  [match : matches, actions : [1 .. 1 -> actions], required : required, dryRun : {FALSE}]

FileLists == {<<>>} \cup [1 .. 1 -> RuleOf({{}}, {Sets("template", n) : n \in Names}, {FALSE})]

TenantRules ==
  RuleOf({{}, {[name |-> severity, values |-> {a}, negated |-> FALSE]}},
         {Sets("template", namespace), Sets("from", cluster), Sets("template", severity)}
           \cup {Drops(n) : n \in Names}, BOOLEAN)

TwoCRs == [1 .. 2 -> Namespaces \X TenantRules]

EveryAlert ==
  [label : [Names -> Values \cup {NoValue}], annotation : {[n \in Names |-> NoValue]}]
=============================================================================
