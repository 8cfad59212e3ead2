------------------------------ MODULE Evaluate ------------------------------
(***************************************************************************)
(* Watcher.evaluate in internal/crd/crd.go: the EnrichmentRules of the     *)
(* informer cache are listed, sorted, judged one by one, and counted by    *)
(* the ale_crd_rules gauges.  The cache goes on changing meanwhile, and    *)
(* evaluations may overlap, as the debounce timer runs each on a goroutine *)
(* of its own.  The definitions commented "Mutant" are deliberate faults   *)
(* no action uses.                                                         *)
(***************************************************************************)
EXTENDS Enforce, FiniteSets, SequencesExt

CONSTANTS CRs,          \* the EnrichmentRules there may be, numbered by namespace, name
          NsOf,         \* the namespace of each
          Specs,        \* their specs: an order and a rule
          Undecodable,  \* a spec that does not decode
          Absent,
          MaxRules,     \* crd.maxRules
          Evaluations,  \* evaluations under way at once
          MaxChanges    \* bound: changes of the cache

Reasons == {"Compiled", "DecodeError", "NamespaceUnreadable", "PolicyViolation",
            "MaxRulesExceeded"}

ASSUME EvaluateAssumption ==
  /\ CRs \subseteq Nat /\ IsFiniteSet(CRs)
  /\ NsOf \in [CRs -> Namespaces]
  /\ Specs \subseteq [order : Nat, rule : Rule] /\ Undecodable \notin Specs
  /\ Absent \notin Profiles \cup Specs \cup {Undecodable} \cup Reasons
  /\ MaxRules \in Nat /\ MaxChanges \in Nat

Candidate == [cr : CRs, order : Nat, rule : Rule]

VARIABLES
  store,       \* EnrichmentRules, in the informer cache
  profiles,    \* namespaces, in the informer cache
  changes,     \* changes so far
  phase,       \* of each evaluation: idle, judging, returned
  candidates,  \* what it listed and could decode, in order
  next,        \* index of the one to be judged next
  known,       \* nsLabelsCache
  out,         \* rules accepted so far, in order
  decisions,   \* decisions so far: why, of each EnrichmentRule listed
  gauges,      \* ale_crd_rules{namespace,state}
  seen         \* seenNamespaces

vars == <<store, profiles, changes, phase, candidates, next, known, out, decisions,
          gauges, seen>>

-----------------------------------------------------------------------------
(* The order, the caps and the counts *)

\* By order, then namespace, then name.
Before(s, t) == s.order < t.order \/ (s.order = t.order /\ s.cr < t.cr)

\* What sort.Slice makes of the candidates in S: Before leaves it no choice.
Sorted(S) ==
  {s \in SetToSeqs(S) : \A i \in DOMAIN s, j \in DOMAIN s : i < j => Before(s[i], s[j])}

\* How many of namespace n evaluation e has decided on for a reason among rs.
Count(e, n, rs) == Cardinality({c \in CRs : NsOf[c] = n /\ decisions[e][c] \in rs})

AcceptedIn(e, n) == Count(e, n, {"Compiled"})

\* Rules that do not decode are not counted.
RejectedIn(e, n) ==
  Count(e, n, {"NamespaceUnreadable", "PolicyViolation", "MaxRulesExceeded"})

\* maxRulesFor: 0 means unlimited.
Limit(profile) ==
  IF Selecting(profile) = {} THEN 0 ELSE SelectPolicy(profile).maxRules

NamespaceFull(e, n, profile) ==
  Limit(profile) > 0 /\ AcceptedIn(e, n) >= Limit(profile)

\* Mutant: a rule over the limit is reported as such, and returned all the same.
CompilesOver(verdict) == verdict \in {"Compiled", "MaxRulesExceeded"}

Compiles(verdict) == verdict = "Compiled"

ClusterFull(e) == MaxRules > 0 /\ Len(out[e]) >= MaxRules

\* The decision on candidate t, whose namespace has that profile.
Judgement(e, t, profile) ==
  CASE profile = Absent -> "NamespaceUnreadable"
    [] profile # Absent /\ ~Accepted(t.rule, profile) -> "PolicyViolation"
    [] OTHER -> IF NamespaceFull(e, NsOf[t.cr], profile) \/ ClusterFull(e)
                THEN "MaxRulesExceeded" ELSE "Compiled"

\* Mutant: the labels are read again for every rule.
LabelsReread(e, n) == profiles[n]

\* Those read first in this evaluation, if the namespace could be read.
LabelsOf(e, n) == IF known[e][n] # Absent THEN known[e][n] ELSE profiles[n]

-----------------------------------------------------------------------------
Init ==
  /\ store \in [CRs -> Specs \cup {Undecodable, Absent}]
  /\ profiles \in [Namespaces -> Profiles \cup {Absent}]
  /\ changes = 0
  /\ phase = [e \in Evaluations |-> "idle"]
  /\ candidates = [e \in Evaluations |-> <<>>]
  /\ next = [e \in Evaluations |-> 1]
  /\ known = [e \in Evaluations |-> [n \in Namespaces |-> Absent]]
  /\ out = [e \in Evaluations |-> <<>>]
  /\ decisions = [e \in Evaluations |-> [c \in CRs |-> Absent]]
  /\ gauges = [n \in Namespaces |-> [accepted |-> 0, rejected |-> 0]]
  /\ seen = {}

\* The cache is listed; what does not decode is rejected on the spot.
List(e) ==
  /\ phase[e] # "judging"
  /\ phase' = [phase EXCEPT ![e] = "judging"]
  /\ LET decoded == {c \in CRs : store[c] \in Specs}
     IN  \E s \in Sorted({[cr |-> c, order |-> store[c].order, rule |-> store[c].rule] :
                            c \in decoded}) :
           candidates' = [candidates EXCEPT ![e] = s]
  /\ next' = [next EXCEPT ![e] = 1]
  /\ decisions' = [decisions EXCEPT ![e] =
       [c \in CRs |-> IF store[c] = Undecodable THEN "DecodeError" ELSE Absent]]
  /\ known' = [known EXCEPT ![e] = [n \in Namespaces |-> Absent]]
  /\ out' = [out EXCEPT ![e] = <<>>]
  /\ UNCHANGED <<store, profiles, changes, gauges, seen>>

\* One candidate more; a namespace that cannot be read is tried again for the
\* next one.
Judge(e) ==
  /\ phase[e] = "judging" /\ next[e] \in DOMAIN candidates[e]
  /\ LET t == candidates[e][next[e]]
         profile == LabelsOf(e, NsOf[t.cr])
         verdict == Judgement(e, t, profile)
     IN  /\ known' = [known EXCEPT ![e][NsOf[t.cr]] = profile]
         /\ decisions' = [decisions EXCEPT ![e][t.cr] = verdict]
         /\ out' = [out EXCEPT ![e] = IF Compiles(verdict) THEN Append(@, t.cr) ELSE @]
  /\ next' = [next EXCEPT ![e] = @ + 1]
  /\ UNCHANGED <<store, profiles, changes, phase, candidates, gauges, seen>>

\* Mutant: namespaces that are gone keep their gauges.
GoneNone(current) == {}

\* Namespaces that had rules last time and have none now.
Gone(current) == seen \ current

\* updateGauges: a gauge is set if its count is not zero, or if its namespace
\* is gone.
Return(e) ==
  /\ phase[e] = "judging" /\ next[e] \notin DOMAIN candidates[e]
  /\ phase' = [phase EXCEPT ![e] = "returned"]
  /\ LET current == {n \in Namespaces : AcceptedIn(e, n) + RejectedIn(e, n) > 0}
         Set(n, old, count) ==
           IF n \in Gone(current) THEN 0 ELSE IF count > 0 THEN count ELSE old
     IN  /\ gauges' = [n \in Namespaces |->
               [accepted |-> Set(n, gauges[n].accepted, AcceptedIn(e, n)),
                rejected |-> Set(n, gauges[n].rejected, RejectedIn(e, n))]]
         /\ seen' = current
  /\ UNCHANGED <<store, profiles, changes, candidates, next, known, out, decisions>>

\* The informers bring a new version, or the removal, of an object.
Change ==
  /\ changes < MaxChanges
  /\ changes' = changes + 1
  /\ \/ /\ \E c \in CRs, s \in Specs \cup {Undecodable, Absent} :
             store' = [store EXCEPT ![c] = s]
        /\ UNCHANGED profiles
     \/ /\ \E n \in Namespaces, p \in Profiles \cup {Absent} :
             profiles' = [profiles EXCEPT ![n] = p]
        /\ UNCHANGED store
  /\ UNCHANGED <<phase, candidates, next, known, out, decisions, gauges, seen>>

Next == Change \/ \E e \in Evaluations : List(e) \/ Judge(e) \/ Return(e)

Spec == Init /\ [][Next]_vars

-----------------------------------------------------------------------------
(* Properties *)

\* Types; and what is returned is what the statuses will say was compiled.
TypeOK ==
  /\ store \in [CRs -> Specs \cup {Undecodable, Absent}]
  /\ profiles \in [Namespaces -> Profiles \cup {Absent}]
  /\ changes \in 0 .. MaxChanges
  /\ phase \in [Evaluations -> {"idle", "judging", "returned"}]
  /\ candidates \in [Evaluations -> Seq(Candidate)]
  /\ known \in [Evaluations -> [Namespaces -> Profiles \cup {Absent}]]
  /\ decisions \in [Evaluations -> [CRs -> Reasons \cup {Absent}]]
  /\ gauges \in [Namespaces -> [accepted : Nat, rejected : Nat]]
  /\ seen \subseteq Namespaces
  /\ \A e \in Evaluations :
       /\ next[e] \in 1 .. Len(candidates[e]) + 1
       /\ Range(out[e]) = {c \in CRs : decisions[e][c] = "Compiled"}

\* The first k members of the positions ps, all of them if k is 0.
First(k, ps) == {i \in ps : k = 0 \/ Cardinality({j \in ps : j < i}) < k}

\* The candidates of namespace n that its policy permits, by their positions.
\* Those judged while the namespace could not be read are not among them.
Permitted(e, n) ==
  {i \in DOMAIN candidates[e] :
     LET t == candidates[e][i]
     IN  /\ NsOf[t.cr] = n /\ decisions[e][t.cr] # "NamespaceUnreadable"
         /\ Accepted(t.rule, known[e][n])}

\* Whatever happens to the cache meanwhile, the rules returned are the first
\* ones of the cluster among the first ones of each namespace, by its one
\* policy; a broken or disallowed rule takes nobody's place (crd.go:225-232,
\* 420-424).
TheCutIsExact ==
  \A e \in Evaluations : phase[e] = "returned" =>
    LET cut == First(MaxRules,
                     UNION {First(Limit(known[e][n]), Permitted(e, n)) : n \in Namespaces})
    IN  {i \in DOMAIN candidates[e] : candidates[e][i].cr \in Range(out[e])} = cut

Returns(e) == phase[e] = "judging" /\ phase'[e] = "returned"

\* A namespace without rules has no gauge left that is not zero, whichever of
\* several evaluations reported it last (crd.go:587-590).
TheGoneHaveNoGauge ==
  [][\A e \in Evaluations, n \in Namespaces :
       Returns(e) /\ (\A c \in CRs : NsOf[c] = n => decisions[e][c] = Absent)
         => gauges'[n] = [accepted |-> 0, rejected |-> 0]]_vars
=============================================================================
