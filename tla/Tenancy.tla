------------------------------- MODULE Tenancy -------------------------------
(***************************************************************************)
(* The engine of server.compile: the rules of the file, then those of the  *)
(* EnrichmentRules that pass enforcement, in evaluate's order, whatever it *)
(* is.  Every EnrichmentRule considered has a rule that decodes.  Each     *)
(* rule of the engine has an owner, a namespace or the admin, which no     *)
(* code keeps.                                                             *)
(***************************************************************************)
EXTENDS Engine, Enforce, FiniteSets

CONSTANTS Admin,
          FileRules,   \* the rules of the file: a set of sequences
          Submitted,   \* a set of sequences of <<namespace, rule>>
          Profile      \* of each namespace

ASSUME TenancyAssumption ==
  /\ Admin \notin Namespaces
  /\ FileRules \subseteq Seq(Rule) /\ Submitted \subseteq Seq(Namespaces \X Rule)
  /\ Profile \in [Namespaces -> Profiles]

VARIABLE owners

tenancyVars == <<vars, owners>>

\* The positions in crs of the rules that are accepted.
AcceptedOf(crs) == {i \in DOMAIN crs : Accepted(crs[i][2], Profile[crs[i][1]])}

\* The members of S in order.
InOrder(S) ==
  {s \in [1 .. Cardinality(S) -> S] : \A i \in DOMAIN s, j \in DOMAIN s : i < j => s[i] < s[j]}

\* What evaluate returns for the EnrichmentRules crs, of which it keeps those at
\* the positions kept.
Compiled(crs, kept) ==
  [i \in DOMAIN kept |-> Enforced(crs[kept[i]][2], crs[kept[i]][1], Profile[crs[kept[i]][1]])]

Owners(file, crs, kept) ==
  [i \in DOMAIN file |-> Admin] \o [i \in DOMAIN kept |-> crs[kept[i]][1]]

TenancyInit ==
  \E file \in {f \in FileRules : \A i \in DOMAIN f : ValidRule(f[i])}, crs \in Submitted :
    \E kept \in InOrder(AcceptedOf(crs)) :
      /\ Begin(file \o Compiled(crs, kept))
      /\ owners = Owners(file, crs, kept)

TenancyNext == Next /\ UNCHANGED owners

TenancySpec == TenancyInit /\ [][TenancyNext]_tenancyVars

-----------------------------------------------------------------------------
(* Properties *)

PolicyOf(ns) == SelectPolicy(Profile[ns])

\* Alert a is in the scope that ns's policy asserts for it.
InScope(ns, a) ==
  \A m \in Authoritative(ns, PolicyOf(ns)) : (a["label"][m.name] \in m.values) # m.negated

\* No rule of the file writes a label that some policy asserts.
AdminWritesNoAsserted ==
  \A i \in DOMAIN rules : owners[i] = Admin =>
    \A j \in DOMAIN rules[i].actions, p \in DOMAIN Policies :
      LET x == rules[i].actions[j]
      IN  x.kind = "label" => x.name \notin Protected(Policies[p])

\* A namespace's rules change an alert only if it was in their scope when it
\* came in: no rule, of its own or of another namespace, can bring it there
\* (docs/configuration.md:518-523, "what stops namespace A from rewriting
\* namespace B's alerts").
TenantsAreScoped ==
  [][alert' # alert /\ AdminWritesNoAsserted /\ owners[ri] # Admin
       => InScope(owners[ri], original)]_tenancyVars

\* An alert leaves the engine in the scope of every namespace whose rules had
\* to do with it: none passes it off as something else
\* (docs/configuration.md:577-587, every asserted label is unwritable).
NoMasquerade ==
  AdminWritesNoAsserted =>
    \A i \in DOMAIN results :
      owners[i] # Admin /\ ~results[i].skipped => InScope(owners[i], alert)

\* A batch is failed by the admin's rules, or by those of a namespace that was
\* given leave to (docs/configuration.md:551).
TenantsCannotFailTheBatch ==
  status = "failed" => owners[ri] = Admin \/ PolicyOf(owners[ri]).required
=============================================================================
