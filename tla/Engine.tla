------------------------------- MODULE Engine -------------------------------
(***************************************************************************)
(* Engine.Apply in internal/engine/engine.go: every rule of a validated    *)
(* configuration against one alert, in declared order, one action at a     *)
(* time, each seeing what the ones before it did.  Lookups, jq queries and *)
(* templates may yield anything or fail.  A label or annotation that is    *)
(* absent holds NoValue.                                                   *)
(*                                                                         *)
(* The definitions commented "Mutant" are deliberate faults no action      *)
(* uses.                                                                   *)
(***************************************************************************)
EXTENDS Config

CONSTANTS Empty,      \* the empty string
          NoValue,
          RuleLists,  \* the configurations considered, valid or not
          Originals   \* the alerts considered

Alerts == [Kinds -> [Names -> Values \cup {NoValue}]]

ASSUME EngineAssumption ==
  /\ Empty \in Values /\ NoValue \notin Values
  /\ RuleLists \subseteq Seq(Rule) /\ Originals \subseteq Alerts

VARIABLES
  rules,     \* of the engine
  original,  \* the alert as decoded
  alert,     \* the alert's labels and annotations, mutated in place
  ri,        \* index of the current rule
  ai,        \* index of its current action, 0 before its matchers are tried
  res,       \* its Result so far
  results,   \* Results of the rules that are done
  status     \* running, done (nil), failed (RequiredFailure), unreadable

vars == <<rules, original, alert, ri, ai, res, results, status>>

-----------------------------------------------------------------------------
(* One action on an alert's maps *)

Exists(a, k, n) == a[k][n] # NoValue

\* Mutant: the alert's annotations count as labels.
IsLastLabelOfAny(a, k, n) ==
  k = "label" /\ \A j \in Kinds, m \in Names : Exists(a, j, m) => <<j, m>> = <<k, n>>

\* Dropping <<k, n>>, which exists, would leave no label.
IsLastLabel(a, k, n) == k = "label" /\ \A m \in Names : Exists(a, k, m) => m = n

\* What action x does to a, given that it has a value to set.
Verdict(a, x) ==
  IF x.op = "drop"
  THEN IF ~Exists(a, x.kind, x.name) THEN "nothing"
       ELSE IF IsLastLabel(a, x.kind, x.name) THEN "refused" ELSE "dropped"
  ELSE IF ~Exists(a, x.kind, x.name) THEN "added"
       ELSE IF x.overwrite THEN "overwritten" ELSE "nothing"

\* a after action x with value v, which is NoValue for a drop.
After(a, x, v) ==
  IF Verdict(a, x) \in {"added", "overwritten", "dropped"}
  THEN [a EXCEPT ![x.kind][x.name] = v] ELSE a

Targeted == SUBSET (Kinds \X Names)
Result == [skipped : BOOLEAN, added : Targeted, overwritten : Targeted,
           dropped : Targeted, refused : Targeted]

NoResult == [skipped |-> FALSE, added |-> {}, overwritten |-> {}, dropped |-> {},
             refused |-> {}]

\* r with the verdict on action x in it.
Reporting(r, verdict, x) ==
  IF verdict = "nothing" THEN r ELSE [r EXCEPT ![verdict] = @ \cup {<<x.kind, x.name>>}]

\* matches: absent labels fail a plain matcher and pass a negated one.
Matches(r, a) == \A m \in r.match : (a["label"][m.name] \in m.values) # m.negated

-----------------------------------------------------------------------------
(* resolveValue: the values and lookup outcomes set action s may come to *)

\* A query that finds something finds more than an empty string.
Found == Values \ {Empty}

Default(s) == IF s.by = "fromOrDefault" THEN Values \ {Empty} ELSE {NoValue}

Resolutions(s) ==
  CASE s.by = "value" -> (Values \ {Empty}) \X {"none"}
    [] s.by = "template" -> (Values \cup {NoValue}) \X {"none"}
    [] OTHER -> (Default(s) \X {"error", "miss", "hit"}) \cup (Found \X {"miss", "hit"})

-----------------------------------------------------------------------------
Running == status = "running"
CurrentRule == rules[ri]
CurrentAction == CurrentRule.actions[ai]

\* Mutant: a skipped rule has no result.
AfterSkipUnrecorded == results

AfterSkip == Append(results, [NoResult EXCEPT !.skipped = TRUE])

\* Mutant: a dry run mutates the alert too.
MutatesAlways == TRUE

Mutates == ~CurrentRule.dryRun

\* Mutant: a required rule only fails on an error, not on a clean miss.
FailsOnError(o) == CurrentRule.required /\ o[2] = "error"

\* A required rule without a value fails, whatever the reason.
Fails(o) == CurrentRule.required

\* The engine that was compiled from rs is given an alert.
Begin(rs) ==
  /\ rules = rs
  /\ original \in Originals
  /\ alert = original
  /\ ri = 1 /\ ai = 0
  /\ res = NoResult
  /\ results = <<>>
  /\ status \in {"running", "unreadable"}

Init == \E rs \in {l \in RuleLists : \A i \in DOMAIN l : ValidRule(l[i])} : Begin(rs)

\* The matchers decide: skip the rule, or run its actions.
SkipRule ==
  /\ Running /\ ri <= Len(rules) /\ ai = 0 /\ ~Matches(CurrentRule, alert)
  /\ results' = AfterSkip
  /\ ri' = ri + 1
  /\ UNCHANGED <<rules, original, alert, ai, res, status>>

EnterRule ==
  /\ Running /\ ri <= Len(rules) /\ ai = 0 /\ Matches(CurrentRule, alert)
  /\ ai' = 1
  /\ res' = NoResult
  /\ UNCHANGED <<rules, original, alert, ri, results, status>>

\* Action x takes effect with value v.
Perform(x, v) ==
  /\ alert' = IF Mutates THEN After(alert, x, v) ELSE alert
  /\ res' = Reporting(res, Verdict(alert, x), x)
  /\ ai' = ai + 1
  /\ UNCHANGED <<rules, original, ri, results, status>>

InAction(op) ==
  Running /\ ri <= Len(rules) /\ ai \in DOMAIN CurrentRule.actions /\ CurrentAction.op = op

Drop ==
  /\ InAction("drop")
  /\ Perform(CurrentAction, NoValue)

SetTo(v) ==
  /\ v # NoValue
  /\ Perform(CurrentAction, v)

\* No value and not required: only this action is skipped.
SetSkipped ==
  /\ ai' = ai + 1
  /\ UNCHANGED <<rules, original, alert, ri, res, results, status>>

\* No value and required: Apply returns at once.
SetFails ==
  /\ status' = "failed"
  /\ results' = Append(results, res)
  /\ UNCHANGED <<rules, original, alert, ri, ai, res>>

Set ==
  /\ InAction("set")
  /\ \E o \in Resolutions(CurrentAction) :
       \/ SetTo(o[1])
       \/ o[1] = NoValue /\ ~Fails(o) /\ SetSkipped
       \/ o[1] = NoValue /\ Fails(o) /\ SetFails

LeaveRule ==
  /\ Running /\ ri <= Len(rules) /\ ai = Len(CurrentRule.actions) + 1
  /\ results' = Append(results, res)
  /\ ri' = ri + 1 /\ ai' = 0
  /\ UNCHANGED <<rules, original, alert, res, status>>

Finish ==
  /\ Running /\ ri = Len(rules) + 1
  /\ status' = "done"
  /\ UNCHANGED <<rules, original, alert, ri, ai, res, results>>

Next == SkipRule \/ EnterRule \/ Drop \/ Set \/ LeaveRule \/ Finish

Spec == Init /\ [][Next]_vars

-----------------------------------------------------------------------------
(* Properties *)

\* Types, and one result for every rule that was evaluated, whether it matched,
\* was skipped or failed (ale_rule_evaluations_total).
TypeOK ==
  /\ rules \in Seq(Rule)
  /\ original \in Alerts /\ alert \in Alerts
  /\ ri \in 1 .. Len(rules) + 1
  /\ ai \in Nat
  /\ (ai # 0 => ri <= Len(rules) /\ ai <= Len(CurrentRule.actions) + 1)
  /\ res \in Result /\ results \in Seq(Result)
  /\ Len(results) = IF status = "failed" THEN ri ELSE ri - 1
  /\ status \in {"running", "done", "failed", "unreadable"}

HasLabel(a) == \E n \in Names : Exists(a, "label", n)

\* No sequence of rules strips an alert of its last label, which would make
\* Alertmanager refuse the whole POST (docs/configuration.md:283-295).
LastLabelKept == HasLabel(original) => HasLabel(alert)

\* A reserved label that is present changes only if some action acknowledged it
\* with force, whatever order the drops and sets come in
\* (docs/configuration.md:305-311).
ReservedKept ==
  \A n \in Reserved :
    \/ original["label"][n] \in {NoValue, alert["label"][n]}
    \/ \E i \in DOMAIN rules : \E j \in DOMAIN rules[i].actions :
         LET x == rules[i].actions[j]
         IN  x.kind = "label" /\ x.name = n /\ x.force

\* The result of rule i, the rule under way included.
ResultOf(i) == IF i \in DOMAIN results THEN results[i]
               ELSE IF i = ri /\ ai # 0 THEN res ELSE NoResult

\* Every change of a label, which moves the alert's fingerprint, is counted for
\* a rule that is not a dry run (docs/configuration.md:267-271).
FingerprintChangesReported ==
  \A n \in Names :
    \/ original["label"][n] = alert["label"][n]
    \/ \E i \in DOMAIN rules :
         /\ ~rules[i].dryRun
         /\ LET r == ResultOf(i)
            IN  <<"label", n>> \in r.dropped \cup r.overwritten \cup r.added

\* Once Apply returns nil, whatever a required rule that matched sets is there,
\* unless a drop of it was reported by that rule or a later one
\* (proxy.go:183-187: forwarding without the required label is unsafe).
RequiredIsPresent ==
  status = "done" =>
    \A i \in DOMAIN rules :
      rules[i].required /\ ~rules[i].dryRun /\ ~results[i].skipped =>
        \A j \in DOMAIN rules[i].actions :
          LET x == rules[i].actions[j]
          IN  x.op = "set" =>
                \/ Exists(alert, x.kind, x.name)
                \/ \E k \in i .. Len(rules) : /\ ~rules[k].dryRun
                                             /\ <<x.kind, x.name>> \in results[k].dropped
=============================================================================
