---------------------------- MODULE EngineProofs ----------------------------
(***************************************************************************)
(* Theorems about Engine, for any valid configuration, any alert and any   *)
(* names and values: types, and what a run of the rules may never do to an *)
(* alert or leave out of its report.                                       *)
(***************************************************************************)
EXTENDS Engine, TLAPS

Action == SetAction \cup DropAction
Verdicts == {"nothing", "refused", "dropped", "added", "overwritten"}
NameOrNone == Values \cup {NoValue}

-----------------------------------------------------------------------------
(* Lemmas about one action on an alert *)

\* Every field an action is looked at by has its type; only a set has overwrite.
LEMMA ActionFields ==
  ASSUME NEW x \in Action
  PROVE  /\ x.op \in {"set", "drop"} /\ x.kind \in Kinds /\ x.name \in Names
         /\ x.force \in BOOLEAN
         /\ x.op = "set" => x.overwrite \in BOOLEAN
BY DEF Action, SetAction, DropAction

\* There are five verdicts: a drop never adds, a set never drops or refuses.
LEMMA VerdictKinds ==
  ASSUME NEW a, NEW x \in Action
  PROVE  /\ Verdict(a, x) \in Verdicts
         /\ x.op = "drop" => Verdict(a, x) \in {"nothing", "refused", "dropped"}
         /\ x.op = "set" => Verdict(a, x) \in {"nothing", "added", "overwritten"}
BY ActionFields DEF Verdict, Verdicts

\* After an action only the label or annotation it names may differ, and only
\* if the verdict says so: then it holds v.
LEMMA AfterChanges ==
  ASSUME NEW a \in Alerts, NEW x \in Action, NEW v \in NameOrNone
  PROVE  /\ After(a, x, v) \in Alerts
         /\ \A k \in Kinds, n \in Names :
              \/ After(a, x, v)[k][n] = a[k][n]
              \/ /\ k = x.kind /\ n = x.name
                 /\ Verdict(a, x) \in {"added", "overwritten", "dropped"}
         /\ Verdict(a, x) \in {"added", "overwritten", "dropped"} =>
              After(a, x, v)[x.kind][x.name] = v
<1>1. x.kind \in Kinds /\ x.name \in Names
  BY ActionFields
<1>2. CASE Verdict(a, x) \in {"added", "overwritten", "dropped"}
  <2>1. After(a, x, v) = [a EXCEPT ![x.kind] = [a[x.kind] EXCEPT ![x.name] = v]]
    BY <1>2 DEF After
  <2>2. a[x.kind] \in [Names -> NameOrNone]
    BY <1>1 DEF Alerts, NameOrNone
  <2> QED
    BY <1>1, <1>2, <2>1, <2>2 DEF Alerts, NameOrNone
<1>3. CASE ~(Verdict(a, x) \in {"added", "overwritten", "dropped"})
  BY <1>3 DEF After
<1> QED
  BY <1>2, <1>3

\* A report only grows, and the verdict on x is in it unless there is none.
LEMMA ReportingGrows ==
  ASSUME NEW r \in Result, NEW x \in Action, NEW w \in Verdicts
  PROVE  LET q == Reporting(r, w, x)
         IN  /\ q \in Result
             /\ r.dropped \subseteq q.dropped
             /\ r.added \subseteq q.added
             /\ r.overwritten \subseteq q.overwritten
             /\ w = "dropped" => <<x.kind, x.name>> \in q.dropped
             /\ w = "added" => <<x.kind, x.name>> \in q.added
             /\ w = "overwritten" => <<x.kind, x.name>> \in q.overwritten
<1> DEFINE p == <<x.kind, x.name>>
<1>1. p \in Kinds \X Names
  BY ActionFields
<1> HIDE DEF p
<1>2. CASE w = "nothing"
  BY <1>2 DEF Reporting
<1>3. CASE w = "refused"
  <2>1. Reporting(r, w, x) = [r EXCEPT !.refused = @ \cup {p}]
    BY <1>3 DEF Reporting, p
  <2> QED
    BY <1>1, <1>3, <2>1 DEF Result, Targeted, p
<1>4. CASE w = "dropped"
  <2>1. Reporting(r, w, x) = [r EXCEPT !.dropped = @ \cup {p}]
    BY <1>4 DEF Reporting, p
  <2> QED
    BY <1>1, <1>4, <2>1 DEF Result, Targeted, p
<1>5. CASE w = "added"
  <2>1. Reporting(r, w, x) = [r EXCEPT !.added = @ \cup {p}]
    BY <1>5 DEF Reporting, p
  <2> QED
    BY <1>1, <1>5, <2>1 DEF Result, Targeted, p
<1>6. CASE w = "overwritten"
  <2>1. Reporting(r, w, x) = [r EXCEPT !.overwritten = @ \cup {p}]
    BY <1>6 DEF Reporting, p
  <2> QED
    BY <1>1, <1>6, <2>1 DEF Result, Targeted, p
<1> QED
  BY <1>2, <1>3, <1>4, <1>5, <1>6 DEF Verdicts

\* An action that leaves a label or annotation absent found it absent, or
\* dropped it.
LEMMA GoneMeansDropped ==
  ASSUME NEW a \in Alerts, NEW x \in Action, NEW v \in NameOrNone,
         x.op = "set" => v \in Values,
         NEW k \in Kinds, NEW n \in Names,
         Exists(a, k, n), ~Exists(After(a, x, v), k, n)
  PROVE  Verdict(a, x) = "dropped" /\ k = x.kind /\ n = x.name
<1>1. /\ k = x.kind /\ n = x.name
      /\ Verdict(a, x) \in {"added", "overwritten", "dropped"}
  BY AfterChanges DEF Exists
<1>2. After(a, x, v)[k][n] = v
  BY <1>1, AfterChanges
<1>3. x.op = "drop"
  BY <1>2, ActionFields, EngineAssumption DEF Exists
<1> QED
  BY <1>1, <1>3, VerdictKinds

\* A set with a value leaves its label or annotation present.
LEMMA SetMeansPresent ==
  ASSUME NEW a \in Alerts, NEW x \in Action, NEW v \in Values, x.op = "set"
  PROVE  Exists(After(a, x, v), x.kind, x.name)
<1>1. x.kind \in Kinds /\ x.name \in Names /\ v \in NameOrNone
  BY ActionFields DEF NameOrNone
<1>2. CASE Verdict(a, x) \in {"added", "overwritten", "dropped"}
  BY <1>1, <1>2, AfterChanges, EngineAssumption DEF Exists
<1>3. CASE ~(Verdict(a, x) \in {"added", "overwritten", "dropped"})
  <2>1. Exists(a, x.kind, x.name)
    BY <1>3 DEF Verdict
  <2> QED
    BY <1>3, <2>1 DEF After
<1> QED
  BY <1>2, <1>3

\* No action takes the last label.
LEMMA ActionsKeepALabel ==
  ASSUME NEW a \in Alerts, NEW x \in Action, NEW v \in NameOrNone,
         x.op = "set" => v \in Values, HasLabel(a)
  PROVE  HasLabel(After(a, x, v))
<1>1. PICK n \in Names : Exists(a, "label", n)
  BY DEF HasLabel
<1>2. CASE Exists(After(a, x, v), "label", n)
  BY <1>2 DEF HasLabel
<1>3. CASE ~Exists(After(a, x, v), "label", n)
  <2>1. Verdict(a, x) = "dropped" /\ x.kind = "label" /\ x.name = n
    BY <1>1, <1>3, GoneMeansDropped DEF Kinds
  <2>2. ~IsLastLabel(a, "label", n)
    BY <2>1, ActionFields DEF Verdict
  <2>3. PICK m \in Names : Exists(a, "label", m) /\ m # n
    BY <2>2 DEF IsLastLabel
  <2>4. Exists(After(a, x, v), "label", m)
    BY <2>1, <2>3, GoneMeansDropped DEF Kinds
  <2> QED
    BY <2>4 DEF HasLabel
<1> QED
  BY <1>2, <1>3

\* A valid action that takes or changes a reserved label has force.
LEMMA ReservedTakesForce ==
  ASSUME NEW a, NEW x \in Action, ValidAction(x),
         x.kind = "label", x.name \in Reserved,
         Verdict(a, x) \in {"overwritten", "dropped"}
  PROVE  x.force
<1>1. CASE x.op = "drop"
  BY <1>1 DEF ValidAction, ValidDrop
<1>2. CASE x.op = "set"
  <2>1. x.overwrite
    BY <1>2 DEF Verdict
  <2> QED
    BY <1>2, <2>1 DEF ValidAction, ValidSet
<1> QED
  BY <1>1, <1>2, ActionFields

-----------------------------------------------------------------------------
(* The inductive invariant *)

RulesValid == \A i \in DOMAIN rules : ValidRule(rules[i])

\* Apply returns nil only past the last rule.
DoneAtTheEnd == status = "done" => ri = Len(rules) + 1

\* Action j of rule i has had its turn.
Performed(i, j) == (i < ri /\ ~results[i].skipped) \/ (i = ri /\ j < ai)

\* What action j of rule i sets is there, unless that rule or a later one has
\* reported that it dropped it.
SetOrDropped(i, j) ==
  LET x == rules[i].actions[j]
  IN  \/ Exists(alert, x.kind, x.name)
      \/ \E k \in i .. Len(rules) : /\ ~rules[k].dryRun
                                    /\ <<x.kind, x.name>> \in ResultOf(k).dropped

\* RequiredIsPresent while the rules are still being run.
PromisesKept ==
  \A i \in DOMAIN rules :
    rules[i].required /\ ~rules[i].dryRun =>
      \A j \in DOMAIN rules[i].actions :
        rules[i].actions[j].op = "set" /\ status # "failed" /\ Performed(i, j)
          => SetOrDropped(i, j)

EngineInv ==
  /\ TypeOK /\ RulesValid /\ DoneAtTheEnd
  /\ LastLabelKept /\ ReservedKept /\ FingerprintChangesReported /\ PromisesKept

-----------------------------------------------------------------------------
(* Steps *)

\* The step of Drop or Set that performs action x with value v.
Acts(x, v) ==
  /\ InAction(x.op) /\ x = CurrentAction
  /\ x.op = "set" => v \in Values
  /\ Perform(x, v)

SkipsAction == InAction("set") /\ ~CurrentRule.required /\ SetSkipped

FailsAction == InAction("set") /\ CurrentRule.required /\ SetFails

\* What a query or template may come to is a value or none.
LEMMA ResolutionValues ==
  ASSUME NEW s \in SetAction, NEW o \in Resolutions(s)
  PROVE  o[1] \in NameOrNone
<1>1. Default(s) \subseteq NameOrNone /\ Found \subseteq NameOrNone
  BY DEF Default, Found, NameOrNone
<1>2. CASE s.by = "value"
  BY <1>2 DEF Resolutions, NameOrNone
<1>3. CASE s.by = "template"
  BY <1>3 DEF Resolutions, NameOrNone
<1>4. CASE s.by \notin {"value", "template"}
  <2>1. o \in (Default(s) \X {"error", "miss", "hit"}) \cup (Found \X {"miss", "hit"})
    BY <1>4 DEF Resolutions
  <2> QED
    BY <1>1, <2>1
<1> QED
  BY <1>2, <1>3, <1>4

\* In the middle of a rule, it is a rule and its action an action.
LEMMA CurrentOnes ==
  ASSUME TypeOK, NEW op \in {"set", "drop"}, InAction(op)
  PROVE  /\ ri \in DOMAIN rules /\ ri \in 1 .. Len(rules)
         /\ CurrentRule \in Rule
         /\ ai \in DOMAIN CurrentRule.actions
         /\ CurrentAction \in Action
         /\ op = "set" => CurrentAction \in SetAction
         /\ status = "running" /\ ai # 0
<1>1. ri \in 1 .. Len(rules) /\ ri \in DOMAIN rules
  BY DEF TypeOK, InAction
<1>2. CurrentRule \in Rule
  BY <1>1 DEF TypeOK, CurrentRule
<1>3. CurrentRule.actions \in Seq(Action)
  BY <1>2 DEF Rule, Action
<1>4. ai \in DOMAIN CurrentRule.actions /\ ai # 0
  BY <1>3 DEF InAction
<1>5. CurrentAction \in Action
  BY <1>3, <1>4 DEF CurrentAction
<1>6. op = "set" => CurrentAction \in SetAction
  BY <1>5 DEF Action, SetAction, DropAction, InAction
<1> QED
  BY <1>1, <1>2, <1>4, <1>5, <1>6 DEF InAction, Running

LEMMA StepKinds ==
  ASSUME TypeOK, Next
  PROVE  \/ SkipRule \/ EnterRule \/ LeaveRule \/ Finish
         \/ SkipsAction \/ FailsAction
         \/ \E x \in Action, v \in NameOrNone : Acts(x, v)
<1>1. CASE Drop
  <2>1. InAction("drop") /\ Perform(CurrentAction, NoValue)
    BY <1>1 DEF Drop
  <2>2. CurrentAction \in Action /\ CurrentAction.op = "drop"
    BY <2>1, CurrentOnes DEF InAction
  <2>3. Acts(CurrentAction, NoValue)
    BY <2>1, <2>2 DEF Acts
  <2> QED
    BY <2>2, <2>3 DEF NameOrNone
<1>2. CASE Set
  <2>1. InAction("set")
    BY <1>2 DEF Set
  <2>2. CurrentAction \in SetAction /\ CurrentAction \in Action /\ CurrentAction.op = "set"
    BY <2>1, CurrentOnes DEF InAction
  <2>3. PICK o \in Resolutions(CurrentAction) :
          \/ SetTo(o[1])
          \/ o[1] = NoValue /\ ~Fails(o) /\ SetSkipped
          \/ o[1] = NoValue /\ Fails(o) /\ SetFails
    BY <1>2 DEF Set
  <2>4. CASE SetTo(o[1])
    <3>1. o[1] \in NameOrNone /\ o[1] # NoValue
      BY <2>2, <2>4, ResolutionValues DEF SetTo
    <3>2. o[1] \in Values
      BY <3>1 DEF NameOrNone
    <3>3. Acts(CurrentAction, o[1])
      BY <2>1, <2>2, <2>4, <3>2 DEF Acts, SetTo
    <3> QED
      BY <2>2, <3>1, <3>3
  <2> QED
    BY <2>1, <2>3, <2>4 DEF SkipsAction, FailsAction, Fails
<1> QED
  BY <1>1, <1>2 DEF Next

\* What a performed action does: unless the rule is a dry run, the alert is
\* After it; the verdict is reported; the turn passes to the next action.
LEMMA ActsEffect ==
  ASSUME TypeOK, NEW x \in Action, NEW v \in NameOrNone, Acts(x, v)
  PROVE  /\ ri \in DOMAIN rules /\ ri \in 1 .. Len(rules)
         /\ CurrentRule \in Rule
         /\ ai \in DOMAIN CurrentRule.actions /\ ai # 0 /\ x = CurrentAction
         /\ alert' = IF CurrentRule.dryRun THEN alert ELSE After(alert, x, v)
         /\ res' = Reporting(res, Verdict(alert, x), x)
         /\ ai' = ai + 1
         /\ UNCHANGED <<rules, original, ri, results, status>>
         /\ status = "running"
<1>1. x.op \in {"set", "drop"}
  BY ActionFields
<1>2. CurrentRule \in Rule
  BY <1>1, CurrentOnes DEF Acts
<1>3. CurrentRule.dryRun \in BOOLEAN
  BY <1>2 DEF Rule
<1> QED
  BY <1>1, <1>2, <1>3, CurrentOnes DEF Acts, Perform, Mutates

\* The report of every rule only grows.
LEMMA ReportsGrow ==
  ASSUME TypeOK, Next, NEW i \in DOMAIN rules
  PROVE  /\ ResultOf(i).dropped \subseteq ResultOf(i)'.dropped
         /\ ResultOf(i).added \subseteq ResultOf(i)'.added
         /\ ResultOf(i).overwritten \subseteq ResultOf(i)'.overwritten
<1> DEFINE Grows == /\ ResultOf(i).dropped \subseteq ResultOf(i)'.dropped
                    /\ ResultOf(i).added \subseteq ResultOf(i)'.added
                    /\ ResultOf(i).overwritten \subseteq ResultOf(i)'.overwritten
<1> SUFFICES Grows
  OBVIOUS
<1>1. /\ results \in Seq(Result) /\ res \in Result /\ ri \in Nat
      /\ i \in Nat /\ i \in 1 .. Len(rules)
      /\ Len(results) = IF status = "failed" THEN ri ELSE ri - 1
  BY DEF TypeOK
<1>2. CASE SkipRule
  <2>1. results' = Append(results, [NoResult EXCEPT !.skipped = TRUE]) /\ ri' = ri + 1
    BY <1>2 DEF SkipRule, AfterSkip
  <2>2. ai = 0 /\ ai' = 0 /\ status = "running"
    BY <1>2 DEF SkipRule, Running
  <2>3. CASE i \in DOMAIN results
    BY <1>1, <2>1, <2>3 DEF ResultOf
  <2>4. CASE i \notin DOMAIN results
    BY <2>2, <2>4 DEF ResultOf, NoResult
  <2> QED
    BY <2>3, <2>4
<1>3. CASE EnterRule
  BY <1>1, <1>3 DEF EnterRule, ResultOf, Running
<1>4. CASE LeaveRule
  <2>1. results' = Append(results, res) /\ ri' = ri + 1 /\ status = "running"
    BY <1>4 DEF LeaveRule, Running
  <2>2. CASE i \in DOMAIN results
    BY <1>1, <2>1, <2>2 DEF ResultOf
  <2>3. CASE i \notin DOMAIN results /\ i = ri
    BY <1>1, <2>1, <2>3, <1>4 DEF ResultOf, NoResult, LeaveRule
  <2>4. CASE i \notin DOMAIN results /\ i # ri
    BY <1>1, <2>1, <2>4 DEF ResultOf, NoResult
  <2> QED
    BY <2>2, <2>3, <2>4
<1>5. CASE Finish
  BY <1>5 DEF Finish, ResultOf
<1>6. CASE SkipsAction
  <2>1. /\ results' = results /\ ri' = ri /\ res' = res
        /\ ai # 0 /\ ai' # 0
    BY <1>6, CurrentOnes DEF SkipsAction, SetSkipped, TypeOK
  <2> QED
    BY <2>1 DEF ResultOf
<1>7. CASE FailsAction
  <2>1. /\ results' = Append(results, res) /\ ri' = ri /\ ai # 0
        /\ status = "running"
    BY <1>7, CurrentOnes DEF FailsAction, SetFails
  <2>2. CASE i \in DOMAIN results
    BY <1>1, <2>1, <2>2 DEF ResultOf
  <2>3. CASE i \notin DOMAIN results /\ i = ri
    BY <1>1, <2>1, <2>3 DEF ResultOf, NoResult
  <2>4. CASE i \notin DOMAIN results /\ i # ri
    BY <1>1, <2>1, <2>4 DEF ResultOf, NoResult
  <2> QED
    BY <2>2, <2>3, <2>4
<1>8. ASSUME NEW x \in Action, NEW v \in NameOrNone, Acts(x, v)
      PROVE  Grows
  <2>1. /\ results' = results /\ ri' = ri /\ ai # 0 /\ ai' # 0
        /\ res' = Reporting(res, Verdict(alert, x), x)
    BY <1>8, ActsEffect DEF TypeOK
  <2>2. /\ res.dropped \subseteq res'.dropped /\ res.added \subseteq res'.added
        /\ res.overwritten \subseteq res'.overwritten
    BY <1>1, <2>1, VerdictKinds, ReportingGrows
  <2> QED
    BY <2>1, <2>2 DEF ResultOf
<1> QED
  BY <1>2, <1>3, <1>4, <1>5, <1>6, <1>7, <1>8, StepKinds

\* A run of valid rules starts well.
LEMMA BeginEngineInv ==
  ASSUME NEW rs \in Seq(Rule), \A i \in DOMAIN rs : ValidRule(rs[i]), Begin(rs)
  PROVE  EngineInv
<1>1. /\ rules \in Seq(Rule) /\ \A i \in DOMAIN rules : ValidRule(rules[i])
      /\ original \in Alerts /\ alert = original
      /\ ri = 1 /\ ai = 0 /\ res = NoResult /\ results = <<>>
      /\ status \in {"running", "unreadable"}
  BY EngineAssumption DEF Begin
<1>2. NoResult \in Result
  BY DEF NoResult, Result, Targeted
<1>3. TypeOK
  BY <1>1, <1>2 DEF TypeOK
<1>4. RulesValid /\ DoneAtTheEnd /\ LastLabelKept
  BY <1>1 DEF RulesValid, DoneAtTheEnd, LastLabelKept
<1>5. ReservedKept /\ FingerprintChangesReported
  BY <1>1 DEF ReservedKept, FingerprintChangesReported
<1>6. \A i \in DOMAIN rules : \A j \in DOMAIN rules[i].actions : ~Performed(i, j)
  <2> SUFFICES ASSUME NEW i \in DOMAIN rules, NEW j \in DOMAIN rules[i].actions
               PROVE  ~Performed(i, j)
    OBVIOUS
  <2>1. i \in Nat /\ i >= 1 /\ rules[i] \in Rule
    BY <1>1
  <2>2. j \in Nat /\ j >= 1
    BY <2>1 DEF Rule
  <2> QED
    BY <1>1, <2>1, <2>2 DEF Performed
<1>7. PromisesKept
  BY <1>6 DEF PromisesKept
<1> QED
  BY <1>3, <1>4, <1>5, <1>7 DEF EngineInv

LEMMA InitEngineInv == Init => EngineInv
BY BeginEngineInv, EngineAssumption DEF Init

LEMMA NextTypeOK ==
  ASSUME TypeOK, Next
  PROVE  TypeOK'
<1>0. /\ rules \in Seq(Rule) /\ original \in Alerts /\ alert \in Alerts
      /\ ri \in 1 .. Len(rules) + 1 /\ ai \in Nat
      /\ ai # 0 => ri <= Len(rules) /\ ai <= Len(CurrentRule.actions) + 1
      /\ res \in Result /\ results \in Seq(Result)
      /\ Len(results) = IF status = "failed" THEN ri ELSE ri - 1
      /\ Len(rules) \in Nat
  BY DEF TypeOK
<1>1. NoResult \in Result /\ [NoResult EXCEPT !.skipped = TRUE] \in Result
  BY DEF NoResult, Result, Targeted
<1>2. CASE SkipRule
  BY <1>0, <1>1, <1>2 DEF SkipRule, AfterSkip, TypeOK, CurrentRule, Running
<1>3. CASE EnterRule
  <2>1. CurrentRule \in Rule
    BY <1>0, <1>3 DEF EnterRule, CurrentRule
  <2>2. Len(CurrentRule.actions) \in Nat
    BY <2>1 DEF Rule
  <2> QED
    BY <1>0, <1>1, <1>3, <2>2 DEF EnterRule, TypeOK, CurrentRule, Running
<1>4. CASE LeaveRule
  BY <1>0, <1>4 DEF LeaveRule, TypeOK, CurrentRule, Running
<1>5. CASE Finish
  BY <1>0, <1>5 DEF Finish, TypeOK, CurrentRule, Running
<1>6. CASE SkipsAction
  <2>1. ri \in 1 .. Len(rules) /\ CurrentRule \in Rule /\ ai \in DOMAIN CurrentRule.actions
    BY <1>6, CurrentOnes DEF SkipsAction
  <2>2. ai <= Len(CurrentRule.actions)
    BY <2>1 DEF Rule
  <2> QED
    BY <1>0, <1>6, <2>1, <2>2 DEF SkipsAction, SetSkipped, TypeOK, CurrentRule
<1>7. CASE FailsAction
  BY <1>0, <1>7 DEF FailsAction, SetFails, TypeOK, CurrentRule, InAction, Running
<1>8. ASSUME NEW x \in Action, NEW v \in NameOrNone, Acts(x, v)
      PROVE  TypeOK'
  <2>1. /\ ri \in 1 .. Len(rules) /\ CurrentRule \in Rule
        /\ ai \in DOMAIN CurrentRule.actions
        /\ alert' = IF CurrentRule.dryRun THEN alert ELSE After(alert, x, v)
        /\ res' = Reporting(res, Verdict(alert, x), x)
        /\ ai' = ai + 1
        /\ UNCHANGED <<rules, original, ri, results, status>>
    BY <1>8, ActsEffect
  <2>2. ai <= Len(CurrentRule.actions)
    BY <2>1 DEF Rule
  <2>3. alert' \in Alerts
    BY <1>0, <2>1, AfterChanges
  <2>4. res' \in Result
    BY <1>0, <2>1, VerdictKinds, ReportingGrows
  <2> QED
    BY <1>0, <2>1, <2>2, <2>3, <2>4 DEF TypeOK, CurrentRule
<1> QED
  BY <1>2, <1>3, <1>4, <1>5, <1>6, <1>7, <1>8, StepKinds

LEMMA NextDoneAtTheEnd ==
  ASSUME TypeOK, DoneAtTheEnd, Next
  PROVE  DoneAtTheEnd'
BY DEF TypeOK, DoneAtTheEnd, Next, SkipRule, EnterRule, Drop, Set, LeaveRule, Finish,
       InAction, Running, Perform, SetTo, SetSkipped, SetFails

\* Only a performed action of a rule that is not a dry run changes the alert.
LEMMA AlertChanges ==
  ASSUME TypeOK, Next
  PROVE  /\ UNCHANGED <<rules, original>>
         /\ \/ alert' = alert
            \/ \E x \in Action, v \in NameOrNone :
                 Acts(x, v) /\ ~CurrentRule.dryRun /\ alert' = After(alert, x, v)
<1>1. ASSUME NEW x \in Action, NEW v \in NameOrNone, Acts(x, v)
      PROVE  \/ alert' = alert
             \/ \E y \in Action, w \in NameOrNone :
                  Acts(y, w) /\ ~CurrentRule.dryRun /\ alert' = After(alert, y, w)
  BY <1>1, ActsEffect
<1>2. SkipRule \/ EnterRule \/ LeaveRule \/ Finish \/ SkipsAction \/ FailsAction =>
        alert' = alert
  BY DEF SkipRule, EnterRule, LeaveRule, Finish, SkipsAction, FailsAction, SetSkipped,
         SetFails
<1>3. UNCHANGED <<rules, original>>
  BY DEF Next, SkipRule, EnterRule, Drop, Set, LeaveRule, Finish, Perform, SetTo,
         SetSkipped, SetFails
<1> QED
  BY <1>1, <1>2, <1>3, StepKinds

LEMMA NextLastLabelKept ==
  ASSUME TypeOK, LastLabelKept, Next
  PROVE  LastLabelKept'
<1>1. CASE alert' = alert
  BY <1>1, AlertChanges DEF LastLabelKept, HasLabel, Exists
<1>2. ASSUME NEW x \in Action, NEW v \in NameOrNone,
             Acts(x, v), alert' = After(alert, x, v)
      PROVE  LastLabelKept'
  <2>1. HasLabel(alert) => HasLabel(alert')
    BY <1>2, ActionsKeepALabel DEF Acts, TypeOK
  <2> QED
    BY <2>1, AlertChanges DEF LastLabelKept, HasLabel, Exists
<1> QED
  BY <1>1, <1>2, AlertChanges

LEMMA NextReservedKept ==
  ASSUME TypeOK, RulesValid, ReservedKept, Next
  PROVE  ReservedKept'
<1> SUFFICES ASSUME NEW n \in Reserved, original["label"][n] # NoValue,
                    alert["label"][n] = original["label"][n],
                    alert'["label"][n] # alert["label"][n]
             PROVE  \E i \in DOMAIN rules : \E j \in DOMAIN rules[i].actions :
                      LET y == rules[i].actions[j]
                      IN  y.kind = "label" /\ y.name = n /\ y.force
  BY AlertChanges DEF ReservedKept
<1>1. PICK x \in Action, v \in NameOrNone : Acts(x, v) /\ alert' = After(alert, x, v)
  BY AlertChanges
<1>2. n \in Names /\ alert \in Alerts /\ "label" \in Kinds
  BY ConfigAssumption DEF TypeOK, Kinds
<1>3. /\ x.kind = "label" /\ x.name = n
      /\ Verdict(alert, x) \in {"added", "overwritten", "dropped"}
  BY <1>1, <1>2, AfterChanges
<1>4. Verdict(alert, x) # "added"
  BY <1>3 DEF Verdict, Exists
<1>5. ri \in DOMAIN rules /\ ai \in DOMAIN rules[ri].actions /\ x = rules[ri].actions[ai]
  BY <1>1, ActsEffect DEF CurrentRule, CurrentAction
<1>6. ValidAction(x)
  BY <1>5 DEF RulesValid, ValidRule
<1>7. x.force
  BY <1>3, <1>4, <1>6, ReservedTakesForce
<1> QED
  BY <1>3, <1>5, <1>7

LEMMA NextFingerprintChangesReported ==
  ASSUME TypeOK, FingerprintChangesReported, Next
  PROVE  FingerprintChangesReported'
<1> DEFINE Reported(n, i) ==
      LET r == ResultOf(i)
      IN  <<"label", n>> \in r.dropped \cup r.overwritten \cup r.added
<1> SUFFICES ASSUME NEW n \in Names, original["label"][n] # alert'["label"][n]
             PROVE  \E i \in DOMAIN rules : ~rules[i].dryRun /\ Reported(n, i)'
  BY AlertChanges DEF FingerprintChangesReported
<1>1. CASE original["label"][n] # alert["label"][n]
  <2>1. PICK i \in DOMAIN rules : ~rules[i].dryRun /\ Reported(n, i)
    BY <1>1 DEF FingerprintChangesReported
  <2>2. Reported(n, i)'
    BY <2>1, ReportsGrow
  <2> QED
    BY <2>1, <2>2
<1>2. CASE original["label"][n] = alert["label"][n]
  <2>1. PICK x \in Action, v \in NameOrNone :
          Acts(x, v) /\ ~CurrentRule.dryRun /\ alert' = After(alert, x, v)
    BY <1>2, AlertChanges
  <2>2. /\ x.kind = "label" /\ x.name = n
        /\ Verdict(alert, x) \in {"added", "overwritten", "dropped"}
    BY <1>2, <2>1, AfterChanges DEF TypeOK, Kinds
  <2>3. <<"label", n>> \in res'.dropped \cup res'.overwritten \cup res'.added
    BY <2>1, <2>2, ActsEffect, VerdictKinds, ReportingGrows DEF TypeOK
  <2>4. ResultOf(ri)' = res' /\ ri \in DOMAIN rules /\ ri' = ri
    BY <2>1, ActsEffect DEF ResultOf, TypeOK
  <2> QED
    BY <2>1, <2>3, <2>4 DEF CurrentRule
<1> QED
  BY <1>1, <1>2

\* What is there, or reported as dropped, stays so: an action that takes it away
\* reports that it dropped it, for the current rule, which is not an earlier one.
LEMMA SetOrDroppedStays ==
  ASSUME TypeOK, Next,
         NEW i \in DOMAIN rules, i <= ri, NEW j \in DOMAIN rules[i].actions,
         SetOrDropped(i, j)
  PROVE  SetOrDropped(i, j)'
<1> DEFINE y == rules[i].actions[j]
           p == <<y.kind, y.name>>
           DroppedBy(k) == ~rules[k].dryRun /\ p \in ResultOf(k).dropped
<1>1. rules' = rules /\ rules[i] \in Rule /\ i \in 1 .. Len(rules) /\ Len(rules) \in Nat
  BY AlertChanges DEF TypeOK
<1>2. y \in Action
  BY <1>1 DEF Rule, Action
<1>3. y.kind \in Kinds /\ y.name \in Names
  BY <1>2, ActionFields
<1>4. SUFFICES Exists(alert', y.kind, y.name) \/ \E k \in i .. Len(rules) : DroppedBy(k)'
  BY <1>1 DEF SetOrDropped, Exists
<1>5. CASE \E k \in i .. Len(rules) : DroppedBy(k)
  <2>1. PICK k \in i .. Len(rules) : DroppedBy(k)
    BY <1>5
  <2>2. k \in DOMAIN rules
    BY <1>1, <2>1 DEF TypeOK
  <2>3. DroppedBy(k)'
    BY <1>1, <2>1, <2>2, ReportsGrow
  <2> QED
    BY <2>3
<1>6. CASE Exists(alert, y.kind, y.name) /\ ~Exists(alert', y.kind, y.name)
  <2>1. PICK x \in Action, v \in NameOrNone :
          Acts(x, v) /\ ~CurrentRule.dryRun /\ alert' = After(alert, x, v)
    BY <1>6, AlertChanges
  <2>2. Verdict(alert, x) = "dropped" /\ y.kind = x.kind /\ y.name = x.name
    <3>1. x.op = "set" => v \in Values
      BY <2>1 DEF Acts
    <3>2. alert \in Alerts
      BY DEF TypeOK
    <3> QED
      BY <1>3, <1>6, <2>1, <3>1, <3>2, GoneMeansDropped
  <2>3. p \in res'.dropped
    BY <2>1, <2>2, ActsEffect, VerdictKinds, ReportingGrows DEF TypeOK
  <2>4. PICK k \in i .. Len(rules) : k = ri
    BY <2>1, <1>1, ActsEffect
  <2>5. ResultOf(k)' = res'
    BY <2>1, <2>4, ActsEffect DEF ResultOf, TypeOK
  <2>6. DroppedBy(k)'
    BY <1>1, <2>1, <2>3, <2>4, <2>5 DEF CurrentRule
  <2> QED
    BY <2>6
<1> QED
  BY <1>5, <1>6 DEF SetOrDropped

\* An action that sets, in a rule that is not a dry run, leaves what it sets there.
LEMMA PerformedSets ==
  ASSUME TypeOK, NEW x \in Action, NEW v \in NameOrNone, Acts(x, v),
         x.op = "set", ~CurrentRule.dryRun, NEW i, NEW j, i = ri, j = ai
  PROVE  SetOrDropped(i, j)'
<1>1. rules' = rules /\ alert' = After(alert, x, v) /\ v \in Values
  BY ActsEffect DEF Acts
<1>2. Exists(After(alert, x, v), x.kind, x.name)
  BY <1>1, SetMeansPresent DEF TypeOK
<1>3. x = rules[i].actions[j]
  BY ActsEffect DEF CurrentAction, CurrentRule
<1>4. Exists(alert, x.kind, x.name)'
  BY <1>1, <1>2 DEF Exists
<1> QED
  BY <1>1, <1>3, <1>4 DEF SetOrDropped

\* An action whose turn is over has been over before the step, or is the one
\* that was performed, skipped (which a required rule never does) or failed.
LEMMA TurnsTaken ==
  ASSUME TypeOK, Next, status' # "failed",
         NEW i \in DOMAIN rules, NEW j \in DOMAIN rules[i].actions,
         rules[i].required, rules[i].actions[j].op = "set", Performed(i, j)'
  PROVE  \/ Performed(i, j)
         \/ /\ i = ri /\ j = ai
            /\ \E x \in Action, v \in NameOrNone : Acts(x, v)
<1>1. /\ ri \in Nat /\ ai \in Nat /\ i \in Nat /\ rules[i] \in Rule
      /\ results \in Seq(Result)
      /\ Len(results) = IF status = "failed" THEN ri ELSE ri - 1
      /\ i \in 1 .. Len(rules)
  BY DEF TypeOK
<1>2. j \in Nat /\ j >= 1 /\ j <= Len(rules[i].actions) /\ Len(rules[i].actions) \in Nat
  BY <1>1 DEF Rule
<1>3. Performed(i, j)' => (i < ri' /\ ~results'[i].skipped) \/ (i = ri' /\ j < ai')
  BY DEF Performed
<1>4. CASE SkipRule
  <2>1. /\ results' = Append(results, [NoResult EXCEPT !.skipped = TRUE])
        /\ ri' = ri + 1 /\ ai' = 0 /\ ai = 0 /\ status = "running"
    BY <1>4 DEF SkipRule, AfterSkip, Running
  <2>2. i < ri + 1 /\ ~results'[i].skipped
    BY <1>1, <1>2, <1>3, <2>1
  <2>3. CASE i = ri
    <3>1. results'[i] = [NoResult EXCEPT !.skipped = TRUE]
      BY <1>1, <2>1, <2>3
    <3> QED
      BY <2>2, <3>1 DEF NoResult
  <2>4. CASE i # ri
    <3>1. results'[i] = results[i]
      BY <1>1, <2>1, <2>2, <2>4
    <3> QED
      BY <1>1, <2>2, <2>4, <3>1 DEF Performed
  <2> QED
    BY <2>3, <2>4
<1>5. CASE EnterRule
  <2>1. results' = results /\ ri' = ri /\ ai' = 1
    BY <1>5 DEF EnterRule
  <2> QED
    BY <1>1, <1>2, <1>3, <2>1 DEF Performed
<1>6. CASE LeaveRule
  <2>1. /\ results' = Append(results, res)
        /\ ri' = ri + 1 /\ ai' = 0 /\ status = "running"
        /\ ai = Len(rules[ri].actions) + 1
    BY <1>6 DEF LeaveRule, Running, CurrentRule
  <2>2. CASE i = ri
    BY <1>1, <1>2, <2>1, <2>2 DEF Performed
  <2>3. CASE i # ri
    <3>1. i < ri
      BY <1>1, <1>2, <1>3, <2>1, <2>3
    <3>2. results'[i] = results[i]
      BY <1>1, <2>1, <3>1
    <3> QED
      BY <1>1, <1>2, <1>3, <2>1, <3>1, <3>2 DEF Performed
  <2> QED
    BY <2>2, <2>3
<1>7. CASE Finish
  BY <1>7 DEF Finish, Performed
<1>8. CASE SkipsAction
  <2>1. /\ results' = results /\ ri' = ri /\ ai' = ai + 1 /\ ~rules[ri].required
    BY <1>8 DEF SkipsAction, SetSkipped, CurrentRule
  <2>2. i # ri
    BY <2>1
  <2> QED
    BY <1>3, <2>1, <2>2 DEF Performed
<1>9. CASE FailsAction
  BY <1>9 DEF FailsAction, SetFails
<1>10. ASSUME NEW x \in Action, NEW v \in NameOrNone, Acts(x, v)
       PROVE  \/ Performed(i, j)
              \/ i = ri /\ j = ai
  <2>1. results' = results /\ ri' = ri /\ ai' = ai + 1
    BY <1>10, ActsEffect
  <2> QED
    BY <1>1, <1>2, <1>3, <2>1 DEF Performed
<1> QED
  BY <1>4, <1>5, <1>6, <1>7, <1>8, <1>9, <1>10, StepKinds

LEMMA NextPromisesKept ==
  ASSUME TypeOK, PromisesKept, Next
  PROVE  PromisesKept'
<1>1. rules' = rules
  BY AlertChanges
<1> SUFFICES ASSUME NEW i \in DOMAIN rules, rules[i].required, ~rules[i].dryRun,
                    NEW j \in DOMAIN rules[i].actions, rules[i].actions[j].op = "set",
                    status' # "failed", Performed(i, j)'
             PROVE  SetOrDropped(i, j)'
  BY <1>1 DEF PromisesKept
<1>2. CASE Performed(i, j)
  <2>1. status # "failed"
    BY DEF Next, SkipRule, EnterRule, Drop, Set, LeaveRule, Finish, InAction, Running
  <2>2. SetOrDropped(i, j)
    BY <1>2, <2>1 DEF PromisesKept
  <2>3. i <= ri
    BY <1>2 DEF Performed, TypeOK
  <2> QED
    BY <2>2, <2>3, SetOrDroppedStays
<1>3. ASSUME i = ri, j = ai, NEW x \in Action, NEW v \in NameOrNone, Acts(x, v)
      PROVE  SetOrDropped(i, j)'
  <2>1. x = rules[i].actions[j] /\ CurrentRule = rules[i]
    BY <1>3, ActsEffect DEF CurrentAction, CurrentRule
  <2> QED
    BY <1>3, <2>1, PerformedSets
<1> QED
  BY <1>2, <1>3, TurnsTaken

-----------------------------------------------------------------------------
(* The theorems *)

LEMMA NextEngineInv == EngineInv /\ [Next]_vars => EngineInv'
<1> SUFFICES ASSUME EngineInv, [Next]_vars
             PROVE  EngineInv'
  OBVIOUS
<1>1. CASE Next
  <2>1. TypeOK' /\ DoneAtTheEnd'
    BY <1>1, NextTypeOK, NextDoneAtTheEnd DEF EngineInv
  <2>2. RulesValid'
    BY <1>1, AlertChanges DEF EngineInv, RulesValid
  <2>3. LastLabelKept' /\ ReservedKept' /\ FingerprintChangesReported'
    BY <1>1, NextLastLabelKept, NextReservedKept, NextFingerprintChangesReported
       DEF EngineInv
  <2>4. PromisesKept'
    BY <1>1, NextPromisesKept DEF EngineInv
  <2> QED
    BY <2>1, <2>2, <2>3, <2>4 DEF EngineInv
<1>2. CASE UNCHANGED vars
  <2>1. TypeOK' /\ RulesValid' /\ DoneAtTheEnd'
    BY <1>2 DEF vars, EngineInv, TypeOK, RulesValid, DoneAtTheEnd, CurrentRule
  <2>2. LastLabelKept' /\ ReservedKept' /\ FingerprintChangesReported'
    BY <1>2 DEF vars, EngineInv, LastLabelKept, ReservedKept, FingerprintChangesReported,
                CurrentRule, HasLabel, Exists, ResultOf, Performed, SetOrDropped
  <2>3. PromisesKept'
    BY <1>2 DEF vars, EngineInv, PromisesKept, CurrentRule, HasLabel, Exists, ResultOf,
                Performed, SetOrDropped
  <2> QED
    BY <2>1, <2>2, <2>3 DEF EngineInv
<1> QED
  BY <1>1, <1>2

\* Engine.Apply keeps its books for every valid configuration: the indices stay
\* within the rules and their actions, and every rule it comes to has one result.
THEOREM EngineTypes == Spec => []TypeOK
<1>1. EngineInv => TypeOK
  BY DEF EngineInv
<1> QED
  BY InitEngineInv, NextEngineInv, <1>1, PTL DEF Spec

\* No sequence of rules, of any length, takes the last label of an alert
\* (the guard of action.go's drop, rule after rule).
THEOREM NoAlertLosesItsLastLabel == Spec => []LastLabelKept
<1>1. EngineInv => LastLabelKept
  BY DEF EngineInv
<1> QED
  BY InitEngineInv, NextEngineInv, <1>1, PTL DEF Spec

\* What validate.go asks of single actions protects a reserved label from any
\* sequence of them that nobody forced.
THEOREM ReservedLabelsNeedForce == Spec => []ReservedKept
<1>1. EngineInv => ReservedKept
  BY DEF EngineInv
<1> QED
  BY InitEngineInv, NextEngineInv, <1>1, PTL DEF Spec

\* The results Apply returns name every label that was changed, hence every
\* change of a fingerprint.
THEOREM EveryLabelChangeIsReported == Spec => []FingerprintChangesReported
<1>1. EngineInv => FingerprintChangesReported
  BY DEF EngineInv
<1> QED
  BY InitEngineInv, NextEngineInv, <1>1, PTL DEF Spec

\* If Apply returns nil, what the required rules set is on the alert or was
\* dropped by a rule that reports it: fail closed, for every configuration.
THEOREM ApplyKeepsRequiredLabels == Spec => []RequiredIsPresent
<1>1. EngineInv => RequiredIsPresent
  <2> SUFFICES ASSUME EngineInv, status = "done",
                      NEW i \in DOMAIN rules, rules[i].required, ~rules[i].dryRun,
                      ~results[i].skipped,
                      NEW j \in DOMAIN rules[i].actions,
                      rules[i].actions[j].op = "set"
               PROVE  LET x == rules[i].actions[j]
                      IN  \/ Exists(alert, x.kind, x.name)
                          \/ \E k \in i .. Len(rules) :
                               /\ ~rules[k].dryRun
                               /\ <<x.kind, x.name>> \in results[k].dropped
    BY DEF RequiredIsPresent
  <2>1. ri = Len(rules) + 1 /\ i \in 1 .. Len(rules) /\ Len(rules) \in Nat
    BY DEF EngineInv, DoneAtTheEnd, TypeOK
  <2>2. Performed(i, j)
    BY <2>1 DEF Performed
  <2>3. SetOrDropped(i, j)
    BY <2>2 DEF EngineInv, PromisesKept
  <2>4. results \in Seq(Result) /\ Len(results) = Len(rules)
    BY <2>1 DEF EngineInv, TypeOK
  <2>5. \A k \in i .. Len(rules) : ResultOf(k) = results[k]
    BY <2>1, <2>4 DEF ResultOf
  <2> QED
    BY <2>3, <2>5 DEF SetOrDropped
<1> QED
  BY InitEngineInv, NextEngineInv, <1>1, PTL DEF Spec
=============================================================================
