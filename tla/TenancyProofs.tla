---------------------------- MODULE TenancyProofs ----------------------------
(***************************************************************************)
(* Theorems about Tenancy, for any namespaces, policies, rules and alerts: *)
(* what the rules that pass enforcement can do when the engine runs them.  *)
(* Two hypotheses are the operator's to meet: there are policies, and      *)
(* namespaceMatcherLabel is configured.  Without the first nothing is      *)
(* enforced at all (docs/configuration.md:563); without the second a       *)
(* policy's own matchers are all that separates two namespaces.            *)
(***************************************************************************)
EXTENDS Tenancy, EngineProofs, FiniteSetTheorems, SequenceTheorems, NaturalsInduction

-----------------------------------------------------------------------------
(* Lemmas about enforcement *)

\* A set of numbers that is not empty has a least member.
LEMMA LeastNumber ==
  ASSUME NEW T \in SUBSET Nat, T # {}
  PROVE  \E x \in T : \A y \in T : x <= y
<1> DEFINE R == {ss \in Nat \X Nat : ss[1] < ss[2]}
<1>1. IsWellFoundedOn(R, Nat)
  BY NatLessThanWellFounded DEF OpToRel
<1> HIDE DEF R
<1>2. PICK x \in T : \A y \in T : ~(<<y, x>> \in R)
  BY <1>1, WFMin
<1>3. \A y \in T : ~(y < x)
  BY <1>2 DEF R
<1> QED
  BY <1>2, <1>3

\* A selected namespace gets one of the policies.
LEMMA SelectedPolicy ==
  ASSUME NEW profile, Selecting(profile) # {}
  PROVE  \E p \in DOMAIN Policies : SelectPolicy(profile) = Policies[p]
<1>1. Selecting(profile) \in SUBSET Nat /\ Selecting(profile) \subseteq DOMAIN Policies
  BY EnforceAssumption DEF Selecting
<1>2. \E p \in Selecting(profile) : \A q \in Selecting(profile) : p <= q
  BY <1>1, LeastNumber
<1> QED
  BY <1>1, <1>2 DEF SelectPolicy

\* What the rule of a namespace is, if there are policies: the first of them to
\* select the namespace permits it, and it has the matchers that one asserts.
TenantRule(ns, r) ==
  /\ Selecting(Profile[ns]) # {}
  /\ Permits(PolicyOf(ns), r)
  /\ Authoritative(ns, PolicyOf(ns)) \subseteq r.match

\* An accepted rule compiles to a valid one, which is as TenantRule says.
LEMMA EnforcedRule ==
  ASSUME NEW r \in Rule, NEW ns \in Namespaces, Accepted(r, Profile[ns])
  PROVE  LET e == Enforced(r, ns, Profile[ns])
         IN  /\ e \in Rule /\ ValidRule(e)
             /\ Policies # <<>> => TenantRule(ns, e)
<1> DEFINE e == Enforced(r, ns, Profile[ns])
           extra == Authoritative(ns, PolicyOf(ns))
<1>1. ValidRule(r)
  BY DEF Accepted
<1>2. CASE Policies = <<>>
  BY <1>1, <1>2 DEF Enforced
<1>3. CASE Policies # <<>>
  <2>1. Selecting(Profile[ns]) # {} /\ Permits(PolicyOf(ns), r)
    BY <1>3 DEF Accepted, PolicyOf
  <2>2. PolicyOf(ns) \in Policy
    BY <2>1, SelectedPolicy, EnforceAssumption DEF PolicyOf
  <2>3. extra \subseteq Matcher
    <3>1. NamespaceLabel # Unset =>
            [name |-> NamespaceLabel, values |-> {ns}, negated |-> FALSE] \in Matcher
      BY EnforceAssumption DEF Matcher
    <3>2. PolicyOf(ns).match \subseteq Matcher
      BY <2>2 DEF Policy
    <3> QED
      BY <3>1, <3>2 DEF Authoritative
  <2>4. e = [r EXCEPT !.match = @ \cup extra]
    BY <1>3 DEF Enforced, PolicyOf
  <2> HIDE DEF extra
  <2>5. /\ e.match = r.match \cup extra /\ e.actions = r.actions
        /\ e.required = r.required /\ e \in Rule
    BY <2>3, <2>4 DEF Rule
  <2> HIDE DEF e
  <2>6. ValidRule(e)
    BY <1>1, <2>5 DEF ValidRule
  <2>7. TenantRule(ns, e)
    BY <2>1, <2>5 DEF TenantRule, Permits, MayBeRequired, extra
  <2> QED
    BY <2>5, <2>6, <2>7 DEF e
<1> QED
  BY <1>2, <1>3

\* A rule that a policy permits writes none of the labels it asserts.
LEMMA PermittedWrites ==
  ASSUME NEW policy, NEW r, Permits(policy, r), NEW j \in DOMAIN r.actions,
         r.actions[j].kind = "label"
  PROVE  r.actions[j].name \notin Protected(policy)
BY DEF Permits, MayTarget

\* An asserted matcher is about a protected label: two alerts that agree on
\* these are in the same scopes.
LEMMA SameScope ==
  ASSUME NEW ns, NEW a, NEW b,
         \A n \in Protected(PolicyOf(ns)) : a["label"][n] = b["label"][n]
  PROVE  InScope(ns, a) <=> InScope(ns, b)
<1>1. \A m \in Authoritative(ns, PolicyOf(ns)) : m.name \in Protected(PolicyOf(ns))
  BY EnforceAssumption DEF Authoritative, Protected
<1> QED
  BY <1>1 DEF InScope

\* The scope of a namespace holds the alerts that carry its name.
LEMMA ScopeNames ==
  ASSUME NamespaceLabel # Unset, NEW ns, NEW a, InScope(ns, a)
  PROVE  a["label"][NamespaceLabel] = ns
<1> DEFINE m == [name |-> NamespaceLabel, values |-> {ns}, negated |-> FALSE]
<1>1. m \in Authoritative(ns, PolicyOf(ns))
  BY DEF Authoritative
<1>2. (a["label"][m.name] \in m.values) # m.negated
  BY <1>1 DEF InScope
<1>3. m.name = NamespaceLabel /\ m.values = {ns} /\ m.negated = FALSE
  OBVIOUS
<1> HIDE DEF m
<1>4. (a["label"][NamespaceLabel] \in {ns}) # FALSE
  BY <1>2, <1>3, Zenon
<1>5. CASE a["label"][NamespaceLabel] \notin {ns}
  <2>1. (a["label"][NamespaceLabel] \in {ns}) = FALSE
    BY <1>5
  <2> QED
    BY <1>4, <2>1
<1> QED
  BY <1>5

-----------------------------------------------------------------------------
(* The inductive invariant *)

\* Every rule that is not the admin's is a namespace's, and enforced.
OwnersKnown ==
  /\ DOMAIN owners = DOMAIN rules
  /\ \A i \in DOMAIN rules : owners[i] # Admin =>
       owners[i] \in Namespaces /\ (Policies # <<>> => TenantRule(owners[i], rules[i]))

\* Apply fails in a rule that is required.
FailedIsRequired == status = "failed" => ri \in DOMAIN rules /\ rules[ri].required

\* No rule moves an alert to another namespace.
NamespaceKept == alert["label"][NamespaceLabel] = original["label"][NamespaceLabel]

\* No rule changes a label that is asserted of the alert's own namespace.
ScopeKept ==
  \A ns \in Namespaces :
    Selecting(Profile[ns]) # {} /\ original["label"][NamespaceLabel] = ns =>
      \A n \in Protected(PolicyOf(ns)) : alert["label"][n] = original["label"][n]

\* The namespaces whose rules have run, or are running, had the alert in their
\* scope when it came in.
EnteredInScope ==
  /\ \A i \in DOMAIN results :
       owners[i] # Admin /\ ~results[i].skipped => InScope(owners[i], original)
  /\ ai # 0 /\ owners[ri] # Admin => InScope(owners[ri], original)

TenancyInv ==
  /\ EngineInv /\ OwnersKnown /\ FailedIsRequired
  /\ Policies # <<>> /\ NamespaceLabel # Unset /\ AdminWritesNoAsserted =>
       NamespaceKept /\ ScopeKept /\ EnteredInScope

-----------------------------------------------------------------------------
(* Initially *)

\* The accepted positions are members of them, and finitely many.
LEMMA KeptAccepted ==
  ASSUME NEW crs \in Submitted, NEW kept \in InOrder(AcceptedOf(crs))
  PROVE  /\ \E n \in Nat : DOMAIN kept = 1 .. n
         /\ \A i \in DOMAIN kept :
              /\ crs[kept[i]] \in Namespaces \X Rule
              /\ Accepted(crs[kept[i]][2], Profile[crs[kept[i]][1]])
<1>1. crs \in Seq(Namespaces \X Rule)
  BY TenancyAssumption
<1>2. IsFiniteSet(AcceptedOf(crs)) /\ AcceptedOf(crs) \subseteq DOMAIN crs
  BY <1>1, FS_Interval, FS_Subset DEF AcceptedOf
<1>3. Cardinality(AcceptedOf(crs)) \in Nat
  BY <1>2, FS_CardinalityType
<1>4. kept \in [1 .. Cardinality(AcceptedOf(crs)) -> AcceptedOf(crs)]
  BY DEF InOrder
<1>5. DOMAIN kept = 1 .. Cardinality(AcceptedOf(crs))
  BY <1>4
<1>6. ASSUME NEW i \in DOMAIN kept
      PROVE  /\ crs[kept[i]] \in Namespaces \X Rule
             /\ Accepted(crs[kept[i]][2], Profile[crs[kept[i]][1]])
  <2>1. kept[i] \in AcceptedOf(crs)
    BY <1>4, <1>5
  <2>2. kept[i] \in DOMAIN crs
    BY <1>2, <2>1
  <2> QED
    BY <1>1, <2>1, <2>2 DEF AcceptedOf
<1> QED
  BY <1>3, <1>5, <1>6

LEMMA InitTenancyInv == TenancyInit => TenancyInv
<1> SUFFICES ASSUME TenancyInit PROVE TenancyInv
  OBVIOUS
<1>1. PICK file \in FileRules, crs \in Submitted :
        /\ \A i \in DOMAIN file : ValidRule(file[i])
        /\ \E kept \in InOrder(AcceptedOf(crs)) :
             /\ Begin(file \o Compiled(crs, kept))
             /\ owners = Owners(file, crs, kept)
  BY DEF TenancyInit
<1>2. PICK kept \in InOrder(AcceptedOf(crs)) :
        /\ Begin(file \o Compiled(crs, kept))
        /\ owners = Owners(file, crs, kept)
  BY <1>1
<1> DEFINE compiled == Compiled(crs, kept)
           admins == [i \in DOMAIN file |-> Admin]
           tenants == [i \in DOMAIN kept |-> crs[kept[i]][1]]
<1>3. PICK n \in Nat : DOMAIN kept = 1 .. n
  BY KeptAccepted
<1>4. \A i \in 1 .. n : /\ tenants[i] \in Namespaces
                        /\ compiled[i] \in Rule /\ ValidRule(compiled[i])
                        /\ Policies # <<>> => TenantRule(tenants[i], compiled[i])
  <2> SUFFICES ASSUME NEW i \in 1 .. n
               PROVE  /\ tenants[i] \in Namespaces
                      /\ compiled[i] \in Rule /\ ValidRule(compiled[i])
                      /\ Policies # <<>> => TenantRule(tenants[i], compiled[i])
    OBVIOUS
  <2> DEFINE ns == crs[kept[i]][1]
             r == crs[kept[i]][2]
  <2>1. ns \in Namespaces /\ r \in Rule /\ Accepted(r, Profile[ns])
    BY <1>3, KeptAccepted
  <2>2. tenants[i] = ns /\ compiled[i] = Enforced(r, ns, Profile[ns])
    BY <1>3 DEF Compiled
  <2> HIDE DEF ns, r, tenants, compiled
  <2> QED
    BY <2>1, <2>2, EnforcedRule
<1>5. compiled \in Seq(Rule) /\ Len(compiled) = n
  <2>1. compiled \in [1 .. n -> Rule]
    BY <1>3, <1>4 DEF Compiled
  <2> QED
    BY <1>3, <2>1
<1>6. tenants \in Seq(Namespaces) /\ Len(tenants) = n
  <2>1. tenants \in [1 .. n -> Namespaces]
    BY <1>3, <1>4
  <2> QED
    BY <1>3, <2>1
<1>7. file \in Seq(Rule) /\ Len(file) \in Nat /\ DOMAIN file = 1 .. Len(file)
  BY TenancyAssumption
<1>8. admins \in Seq({Admin}) /\ Len(admins) = Len(file)
  <2>1. admins \in [1 .. Len(file) -> {Admin}]
    BY <1>7
  <2> QED
    BY <1>7, <2>1
<1>9. rules = file \o compiled /\ owners = admins \o tenants
  BY <1>2 DEF Begin, Owners
<1> HIDE DEF compiled, admins, tenants
<1>10. /\ rules \in Seq(Rule) /\ Len(rules) = Len(file) + n
       /\ \A i \in 1 .. Len(file) + n :
            rules[i] = IF i <= Len(file) THEN file[i] ELSE compiled[i - Len(file)]
  BY <1>5, <1>7, <1>9, ConcatProperties
<1>11. /\ owners \in Seq(Namespaces \cup {Admin}) /\ Len(owners) = Len(file) + n
       /\ \A i \in 1 .. Len(file) + n :
            owners[i] = IF i <= Len(file) THEN admins[i] ELSE tenants[i - Len(file)]
  <2> DEFINE Owner == Namespaces \cup {Admin}
  <2>1. Namespaces \subseteq Owner /\ {Admin} \subseteq Owner
    OBVIOUS
  <2> HIDE DEF Owner
  <2>2. admins \in Seq(Owner) /\ tenants \in Seq(Owner)
    BY <1>6, <1>8, <2>1
  <2>3. /\ owners \in Seq(Owner) /\ Len(owners) = Len(admins) + Len(tenants)
        /\ \A i \in 1 .. Len(admins) + Len(tenants) :
             owners[i] = IF i <= Len(admins) THEN admins[i] ELSE tenants[i - Len(admins)]
    BY <1>9, <2>2, ConcatProperties
  <2> QED
    BY <1>6, <1>8, <2>3 DEF Owner
<1>12. \A i \in DOMAIN rules : ValidRule(rules[i])
  BY <1>1, <1>4, <1>7, <1>10
<1>13. OwnersKnown
  <2>1. \A i \in 1 .. Len(file) : admins[i] = Admin
    BY <1>7 DEF admins
  <2>2. /\ DOMAIN rules = 1 .. Len(file) + n /\ DOMAIN owners = DOMAIN rules
        /\ Len(file) \in Nat
    BY <1>7, <1>10, <1>11
  <2>3. ASSUME NEW i \in DOMAIN rules, owners[i] # Admin
        PROVE  owners[i] \in Namespaces
                 /\ (Policies # <<>> => TenantRule(owners[i], rules[i]))
    <3>1. ~(i <= Len(file)) /\ i - Len(file) \in 1 .. n
      BY <1>11, <2>1, <2>2, <2>3
    <3>2. owners[i] = tenants[i - Len(file)] /\ rules[i] = compiled[i - Len(file)]
      BY <1>10, <1>11, <2>2, <3>1
    <3> QED
      BY <1>4, <3>1, <3>2
  <2> QED
    BY <2>2, <2>3 DEF OwnersKnown
<1>14. EngineInv
  BY <1>2, <1>9, <1>10, <1>12, BeginEngineInv DEF compiled
<1>15. alert = original /\ results = <<>> /\ ai = 0 /\ status # "failed"
  BY <1>2 DEF Begin
<1> QED
  BY <1>13, <1>14, <1>15
     DEF TenancyInv, FailedIsRequired, NamespaceKept, ScopeKept, EnteredInScope

-----------------------------------------------------------------------------
(* Steps *)

\* A label that changes is one a rule writes, whose owner is not the admin's if
\* it is asserted, and then asserted of another namespace.
LEMMA LabelChanges ==
  ASSUME EngineInv, Next, NEW n \in Names, alert'["label"][n] # alert["label"][n]
  PROVE  /\ ri \in DOMAIN rules /\ ai # 0
         /\ \E j \in DOMAIN rules[ri].actions :
              rules[ri].actions[j].kind = "label" /\ rules[ri].actions[j].name = n
<1>1. TypeOK /\ alert \in Alerts
  BY DEF EngineInv, TypeOK
<1>2. PICK x \in Action, v \in NameOrNone : Acts(x, v) /\ alert' = After(alert, x, v)
  BY <1>1, AlertChanges
<1>3. x.kind = "label" /\ x.name = n
  BY <1>1, <1>2, AfterChanges DEF Kinds
<1>4. /\ ri \in DOMAIN rules /\ ai # 0 /\ ai \in DOMAIN rules[ri].actions
      /\ x = rules[ri].actions[ai]
  BY <1>1, <1>2, ActsEffect DEF CurrentRule, CurrentAction
<1> QED
  BY <1>3, <1>4

LEMMA NextOwnersKnown ==
  ASSUME EngineInv, OwnersKnown, TenancyNext
  PROVE  OwnersKnown'
<1>1. UNCHANGED <<rules, owners>>
  BY AlertChanges DEF EngineInv, TenancyNext
<1> QED
  BY <1>1 DEF OwnersKnown, TenantRule, PolicyOf

LEMMA NextFailedIsRequired ==
  ASSUME EngineInv, FailedIsRequired, TenancyNext
  PROVE  FailedIsRequired'
<1>0. TypeOK /\ Next
  BY DEF EngineInv, TenancyNext
<1>1. SkipRule \/ EnterRule \/ LeaveRule \/ Finish \/ SkipsAction => status' # "failed"
  BY DEF SkipRule, EnterRule, LeaveRule, Finish, SkipsAction, SetSkipped, InAction, Running
<1>2. ASSUME NEW x \in Action, NEW v \in NameOrNone, Acts(x, v)
      PROVE  status' # "failed"
  BY <1>0, <1>2, ActsEffect
<1>3. CASE FailsAction
  <2>1. ri \in DOMAIN rules
    BY <1>0, <1>3, CurrentOnes DEF FailsAction
  <2> QED
    BY <1>3, <2>1 DEF FailsAction, SetFails, FailedIsRequired, CurrentRule
<1> QED
  BY <1>0, <1>1, <1>2, <1>3, StepKinds DEF FailedIsRequired

\* An asserted label that a running rule writes is asserted of another namespace.
LEMMA ForeignLabels ==
  ASSUME EngineInv, OwnersKnown, Policies # <<>>, NamespaceLabel # Unset,
         AdminWritesNoAsserted, EnteredInScope, Next,
         NEW ns \in Namespaces, Selecting(Profile[ns]) # {},
         original["label"][NamespaceLabel] = ns,
         NEW n \in Protected(PolicyOf(ns))
  PROVE  alert'["label"][n] = alert["label"][n]
<1>1. PICK p \in DOMAIN Policies : PolicyOf(ns) = Policies[p]
  BY SelectedPolicy DEF PolicyOf
<1>2. n \in Names
  <2>1. Policies[p].match \subseteq Matcher
    <3>1. Policies[p] \in Policy
      BY EnforceAssumption
    <3> QED
      BY <3>1 DEF Policy
  <2>2. \A m \in Matcher : m.name \in Names
    BY DEF Matcher
  <2> QED
    BY <1>1, <2>1, <2>2, EnforceAssumption DEF Protected
<1> SUFFICES ASSUME alert'["label"][n] # alert["label"][n] PROVE FALSE
  OBVIOUS
<1>3. /\ ri \in DOMAIN rules /\ ai # 0
      /\ \E j \in DOMAIN rules[ri].actions :
           rules[ri].actions[j].kind = "label" /\ rules[ri].actions[j].name = n
  BY <1>2, LabelChanges
<1>4. owners[ri] # Admin
  BY <1>1, <1>3 DEF AdminWritesNoAsserted
<1>5. owners[ri] = ns
  BY <1>3, <1>4, ScopeNames DEF EnteredInScope
<1>6. Permits(PolicyOf(ns), rules[ri])
  BY <1>3, <1>4, <1>5 DEF OwnersKnown, TenantRule
<1> QED
  BY <1>3, <1>6, PermittedWrites

LEMMA NextNamespaceKept ==
  ASSUME EngineInv, OwnersKnown, Policies # <<>>, NamespaceLabel # Unset,
         AdminWritesNoAsserted, NamespaceKept, EnteredInScope, Next
  PROVE  NamespaceKept'
<1>1. original' = original
  BY AlertChanges DEF EngineInv
<1> SUFFICES ASSUME alert'["label"][NamespaceLabel] # alert["label"][NamespaceLabel]
             PROVE  FALSE
  BY <1>1 DEF NamespaceKept
<1>2. NamespaceLabel \in Names /\ \A policy : NamespaceLabel \in Protected(policy)
  BY EnforceAssumption DEF Protected
<1>3. /\ ri \in DOMAIN rules /\ ai # 0
      /\ \E j \in DOMAIN rules[ri].actions :
           rules[ri].actions[j].kind = "label" /\ rules[ri].actions[j].name = NamespaceLabel
  BY <1>2, LabelChanges
<1>4. 1 \in DOMAIN Policies
  BY EnforceAssumption
<1>5. owners[ri] # Admin
  BY <1>2, <1>3, <1>4 DEF AdminWritesNoAsserted
<1>6. Permits(PolicyOf(owners[ri]), rules[ri])
  BY <1>3, <1>5 DEF OwnersKnown, TenantRule
<1> QED
  BY <1>2, <1>3, <1>6, PermittedWrites

LEMMA NextScopeKept ==
  ASSUME EngineInv, OwnersKnown, Policies # <<>>, NamespaceLabel # Unset,
         AdminWritesNoAsserted, ScopeKept, EnteredInScope, Next
  PROVE  ScopeKept'
<1>1. original' = original
  BY AlertChanges DEF EngineInv
<1> QED
  BY <1>1, ForeignLabels DEF ScopeKept, PolicyOf

\* A rule of a namespace is entered only by an alert that came in its scope.
LEMMA EntersInScope ==
  ASSUME EngineInv, OwnersKnown, Policies # <<>>, NamespaceLabel # Unset,
         NamespaceKept, ScopeKept, EnterRule, owners[ri] # Admin
  PROVE  InScope(owners[ri], original)
<1> DEFINE ns == owners[ri]
<1>1. ri \in DOMAIN rules
  BY DEF EngineInv, TypeOK, EnterRule
<1>2. ns \in Namespaces /\ TenantRule(ns, rules[ri])
  BY <1>1 DEF OwnersKnown
<1>3. InScope(ns, alert)
  BY <1>2 DEF TenantRule, EnterRule, Matches, InScope, CurrentRule
<1>4. original["label"][NamespaceLabel] = ns
  BY <1>3, ScopeNames DEF NamespaceKept
<1>5. \A n \in Protected(PolicyOf(ns)) : alert["label"][n] = original["label"][n]
  BY <1>2, <1>4 DEF ScopeKept, TenantRule
<1> QED
  BY <1>3, <1>5, SameScope

LEMMA NextEnteredInScope ==
  ASSUME EngineInv, OwnersKnown, Policies # <<>>, NamespaceLabel # Unset,
         NamespaceKept, ScopeKept, EnteredInScope, TenancyNext
  PROVE  EnteredInScope'
<1>0. /\ TypeOK /\ Next /\ UNCHANGED <<original, owners>>
      /\ results \in Seq(Result) /\ ri \in Nat /\ ai \in Nat
      /\ Len(results) = IF status = "failed" THEN ri ELSE ri - 1
  BY AlertChanges DEF EngineInv, TenancyNext, TypeOK
<1>1. CASE SkipRule
  <2>1. results' = Append(results, [NoResult EXCEPT !.skipped = TRUE]) /\ ai' = 0
    BY <1>1 DEF SkipRule, AfterSkip
  <2>2. [NoResult EXCEPT !.skipped = TRUE].skipped = TRUE
    BY DEF NoResult
  <2> QED
    BY <1>0, <2>1, <2>2 DEF EnteredInScope, InScope, PolicyOf
<1>2. CASE EnterRule
  <2>1. UNCHANGED <<results, ri>>
    BY <1>2 DEF EnterRule
  <2> QED
    BY <1>0, <1>2, <2>1, EntersInScope DEF EnteredInScope, InScope, PolicyOf
<1>3. CASE LeaveRule \/ FailsAction
  <2>1. /\ results' = Append(results, res) /\ ai # 0 /\ status # "failed"
        /\ ai' = 0 \/ UNCHANGED <<ai, ri>>
    <3>1. CASE LeaveRule
      <4>1. ri \in 1 .. Len(rules)
        BY <1>0, <3>1 DEF LeaveRule, TypeOK
      <4>2. Len(CurrentRule.actions) \in Nat
        BY <4>1 DEF CurrentRule, EngineInv, TypeOK, Rule
      <4> QED
        BY <3>1, <4>2 DEF LeaveRule, Running
    <3>2. CASE FailsAction
      BY <1>0, <3>2, CurrentOnes DEF FailsAction, SetFails
    <3> QED
      BY <1>3, <3>1, <3>2
  <2>2. /\ DOMAIN results' = 1 .. ri /\ DOMAIN results = 1 .. ri - 1
        /\ \A i \in 1 .. ri - 1 : results'[i] = results[i]
    BY <1>0, <2>1
  <2> QED
    BY <1>0, <2>1, <2>2 DEF EnteredInScope, InScope, PolicyOf
<1>4. CASE Finish
  BY <1>0, <1>4 DEF Finish, EnteredInScope, InScope, PolicyOf
<1>5. CASE SkipsAction
  <2>1. ai # 0 /\ UNCHANGED <<results, ri>>
    BY <1>0, <1>5, CurrentOnes DEF SkipsAction, SetSkipped
  <2> QED
    BY <1>0, <2>1 DEF EnteredInScope, InScope, PolicyOf
<1>6. ASSUME NEW x \in Action, NEW v \in NameOrNone, Acts(x, v)
      PROVE  EnteredInScope'
  <2>1. ai # 0 /\ UNCHANGED <<results, ri>>
    BY <1>0, <1>6, ActsEffect
  <2> QED
    BY <1>0, <2>1 DEF EnteredInScope, InScope, PolicyOf
<1> QED
  BY <1>0, <1>1, <1>2, <1>3, <1>4, <1>5, <1>6, StepKinds

LEMMA TenancyInvariance == TenancySpec => []TenancyInv
<1>1. TenancyInv /\ [TenancyNext]_tenancyVars => TenancyInv'
  <2> SUFFICES ASSUME TenancyInv, [TenancyNext]_tenancyVars PROVE TenancyInv'
    OBVIOUS
  <2>1. CASE TenancyNext
    <3>1. Next /\ UNCHANGED <<rules, owners>>
      BY <2>1, AlertChanges DEF TenancyInv, EngineInv, TenancyNext
    <3>2. AdminWritesNoAsserted' <=> AdminWritesNoAsserted
      BY <3>1 DEF AdminWritesNoAsserted
    <3>3. EngineInv'
      BY <3>1, NextEngineInv DEF TenancyInv
    <3>4. OwnersKnown' /\ FailedIsRequired'
      BY <2>1, NextOwnersKnown, NextFailedIsRequired DEF TenancyInv
    <3>5. Policies # <<>> /\ NamespaceLabel # Unset /\ AdminWritesNoAsserted =>
            NamespaceKept' /\ ScopeKept' /\ EnteredInScope'
      BY <2>1, <3>1, NextNamespaceKept, NextScopeKept, NextEnteredInScope DEF TenancyInv
    <3> QED
      BY <3>2, <3>3, <3>4, <3>5 DEF TenancyInv
  <2>2. CASE UNCHANGED tenancyVars
    <3>1. UNCHANGED vars /\ UNCHANGED owners
      BY <2>2 DEF tenancyVars
    <3>2. EngineInv'
      BY <3>1, NextEngineInv DEF TenancyInv
    <3> QED
      BY <3>1, <3>2
         DEF TenancyInv, vars, OwnersKnown, TenantRule, PolicyOf, FailedIsRequired,
             NamespaceKept, ScopeKept, EnteredInScope, InScope, AdminWritesNoAsserted
  <2> QED
    BY <2>1, <2>2
<1> QED
  BY <1>1, InitTenancyInv, PTL DEF TenancySpec

-----------------------------------------------------------------------------
(* Theorems *)

\* An alert leaves the engine in the scope of every namespace whose rules had
\* to do with it, whatever any number of namespaces submit.  Without policies,
\* or without a namespace label, enforce.Rule injects no namespace matcher.
THEOREM NobodyMasquerades ==
  ASSUME Policies # <<>>, NamespaceLabel # Unset
  PROVE  TenancySpec => []NoMasquerade
<1>1. TenancyInv => NoMasquerade
  <2> SUFFICES ASSUME TenancyInv, AdminWritesNoAsserted, NEW i \in DOMAIN results,
                      owners[i] # Admin, ~results[i].skipped
               PROVE  InScope(owners[i], alert)
    BY DEF NoMasquerade
  <2> DEFINE ns == owners[i]
  <2>1. InScope(ns, original)
    BY DEF TenancyInv, EnteredInScope
  <2>2. i \in DOMAIN rules
    <3>1. /\ i \in 1 .. Len(results) /\ ri \in 1 .. Len(rules) + 1 /\ Len(rules) \in Nat
          /\ Len(results) = IF status = "failed" THEN ri ELSE ri - 1
          /\ DOMAIN rules = 1 .. Len(rules)
      BY DEF TenancyInv, EngineInv, TypeOK
    <3>2. status = "failed" => ri \in 1 .. Len(rules)
      BY <3>1 DEF TenancyInv, FailedIsRequired
    <3> QED
      BY <3>1, <3>2
  <2>3. ns \in Namespaces /\ Selecting(Profile[ns]) # {}
    BY <2>2 DEF TenancyInv, OwnersKnown, TenantRule
  <2>4. \A n \in Protected(PolicyOf(ns)) : alert["label"][n] = original["label"][n]
    BY <2>1, <2>3, ScopeNames DEF TenancyInv, ScopeKept
  <2> QED
    BY <2>1, <2>4, SameScope
<1> QED
  BY <1>1, TenancyInvariance, PTL

\* A namespace's rules change an alert only if it was in their scope when it
\* came in: what enforce.Rule injects cannot be undone by any rule before it.
THEOREM RulesStayInTheirScope ==
  ASSUME Policies # <<>>, NamespaceLabel # Unset
  PROVE  TenancySpec => TenantsAreScoped
<1>1. TenancyInv /\ [TenancyNext]_tenancyVars =>
        [alert' # alert /\ AdminWritesNoAsserted /\ owners[ri] # Admin
           => InScope(owners[ri], original)]_tenancyVars
  <2> SUFFICES ASSUME TenancyInv, TenancyNext, alert' # alert, AdminWritesNoAsserted,
                      owners[ri] # Admin
               PROVE  InScope(owners[ri], original)
    BY DEF tenancyVars, vars
  <2>1. PICK x \in Action, v \in NameOrNone : Acts(x, v)
    BY AlertChanges DEF TenancyInv, EngineInv, TenancyNext
  <2>2. ai # 0
    BY <2>1, ActsEffect DEF TenancyInv, EngineInv
  <2> QED
    BY <2>2 DEF TenancyInv, EnteredInScope
<1> QED
  BY <1>1, TenancyInvariance, PTL DEF TenancySpec, TenantsAreScoped

\* A batch is failed by the admin's rules, or by those of a namespace that was
\* given leave to (enforce.go).  Without policies every namespace has it.
THEOREM OnlyTrustedRulesFailBatches ==
  ASSUME Policies # <<>>
  PROVE  TenancySpec => []TenantsCannotFailTheBatch
<1>1. TenancyInv => TenantsCannotFailTheBatch
  BY DEF TenancyInv, FailedIsRequired, OwnersKnown, TenantRule, Permits, MayBeRequired,
         TenantsCannotFailTheBatch
<1> QED
  BY <1>1, TenancyInvariance, PTL

\* What holds of the file's rules holds of them with the namespaces' added: no
\* alert loses its last label, and a reserved label takes force.
THEOREM TenantsAreHeldToTheSameRules ==
  TenancySpec => [](LastLabelKept /\ ReservedKept)
<1>1. TenancyInv => LastLabelKept /\ ReservedKept
  BY DEF TenancyInv, EngineInv
<1> QED
  BY <1>1, TenancyInvariance, PTL
=============================================================================
