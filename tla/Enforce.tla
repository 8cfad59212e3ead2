------------------------------ MODULE Enforce ------------------------------
(***************************************************************************)
(* internal/enforce/enforce.go: whether a rule of a namespace's            *)
(* EnrichmentRule may exist under the enforcement policies, and what it    *)
(* compiles to.  A namespace's labels are its profile, the one thing a     *)
(* policy's selector looks at.  The definitions commented "Mutant" are     *)
(* deliberate faults nothing uses.                                         *)
(***************************************************************************)
EXTENDS Config

CONSTANTS Namespaces,
          Profiles,        \* the label sets a namespace may have
          NamespaceLabel,  \* enforcement.namespaceMatcherLabel, or Unset
          Unset,
          Policies         \* enforcement.rules

NameList == [allow : SUBSET Names, deny : SUBSET Names]
Policy == [selects : SUBSET Profiles, match : SUBSET Matcher, labels : NameList,
           annotations : NameList, sources : BOOLEAN, required : BOOLEAN, maxRules : Nat]

ASSUME EnforceAssumption ==
  /\ Namespaces \subseteq Values
  /\ Unset \notin Names /\ NamespaceLabel \in Names \cup {Unset}
  /\ Policies \in Seq(Policy)

Selecting(profile) == {p \in DOMAIN Policies : profile \in Policies[p].selects}

\* The first entry that selects the namespace, if Selecting it is not empty.
SelectPolicy(profile) ==
  Policies[CHOOSE p \in Selecting(profile) : \A q \in Selecting(profile) : p <= q]

\* Mutants: one of the two kinds of asserted labels is forgotten.
ProtectedByPolicy(policy) == {m.name : m \in policy.match}
ProtectedByNamespace(policy) == {NamespaceLabel}

\* protectedLabels: what a policy asserts, its rules may not write.
Protected(policy) == ({NamespaceLabel} \ {Unset}) \cup {m.name : m \in policy.match}

\* checkPolicy
Allows(list, name) == IF list.allow # {} THEN name \in list.allow ELSE name \notin list.deny

\* checkTarget: annotations are never protected.
MayTarget(a, policy) ==
  IF a.kind = "annotation" THEN Allows(policy.annotations, a.name)
                           ELSE a.name \notin Protected(policy) /\ Allows(policy.labels, a.name)

LooksUp(a) == a.op = "set" /\ a.by \in {"from", "fromOrDefault"}

\* Mutant: required is not looked at.
MayBeRequiredAnyway(r, policy) == TRUE

MayBeRequired(r, policy) == r.required => policy.required

Permits(policy, r) ==
  /\ MayBeRequired(r, policy)
  /\ \A i \in DOMAIN r.actions : /\ LooksUp(r.actions[i]) => policy.sources
                                 /\ MayTarget(r.actions[i], policy)

\* Whether Rule returns a rule for r, from a namespace of that profile.
Accepted(r, profile) ==
  /\ ValidRule(r)
  /\ \/ Policies = <<>>
     \/ Selecting(profile) # {} /\ Permits(SelectPolicy(profile), r)

\* authoritativeMatchers
Authoritative(ns, policy) ==
  policy.match \cup
    IF NamespaceLabel = Unset THEN {}
    ELSE {[name |-> NamespaceLabel, values |-> {ns}, negated |-> FALSE]}

\* The rule that Rule returns, if it is accepted.
Enforced(r, ns, profile) ==
  IF Policies = <<>> THEN r
  ELSE [r EXCEPT !.match = @ \cup Authoritative(ns, SelectPolicy(profile))]
=============================================================================
