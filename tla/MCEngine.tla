------------------------------ MODULE MCEngine ------------------------------
(***************************************************************************)
(* Instances of Engine for TLC: all the actions on two labels, one of them *)
(* reserved, and one annotation, and the rules made of them.               *)
(***************************************************************************)
EXTENDS Engine

CONSTANTS alertname, team, low

ReservedLabels == {alertname}

Sets(by, overwrites) ==
  [op : {"set"}, kind : {"label"}, name : Names, by : by, overwrite : overwrites,
   force : {FALSE}]
Drops == [op : {"drop"}, kind : {"label"}, name : Names, force : {FALSE}]

\* Alerts without annotations, and with one.
Bare == [label : [Names -> Values \cup {NoValue}], annotation : {[n \in Names |-> NoValue]}]
Annotated ==
  [label : [Names -> {low, NoValue}],
   annotation : {[n \in Names |-> IF n = team THEN v ELSE NoValue] : v \in {low, NoValue}}]

OnTeam == {[name |-> team, values |-> {low}, negated |-> FALSE]}
TeamMatchers == {OnTeam,
                 {[name |-> team, values |-> Values, negated |-> TRUE]}}

RulesOf(matches, actions, n, required, dry) ==
  [match : matches, actions : UNION {[1 .. k -> actions] : k \in 1 .. n},
   required : required, dryRun : dry]

\* One rule of up to three actions, some forced, some on an annotation.
EveryAction ==
  Sets({"template"}, BOOLEAN) \cup Drops
    \cup [op : {"set"}, kind : {"annotation"}, name : {team}, by : {"value"},
          overwrite : {TRUE}, force : {FALSE}]
    \cup [op : {"drop"}, kind : {"annotation"}, name : {team}, force : {FALSE}]
    \cup [op : {"drop"}, kind : {"label"}, name : {alertname}, force : {TRUE}]
OneRule ==
  [1 .. 1 -> RulesOf({{}, OnTeam}, EveryAction, 3, {FALSE}, BOOLEAN)]

\* Two rules, the second seeing what the first did.
TwoRules ==
  LET actions == Sets({"from", "fromOrDefault", "template"}, BOOLEAN) \cup Drops
  IN  { <<r, q>> : r \in RulesOf(TeamMatchers, actions, 1, BOOLEAN, BOOLEAN),
                   q \in RulesOf(TeamMatchers, actions, 1, BOOLEAN, BOOLEAN) }

EveryRule == OneRule \cup TwoRules

EveryAlert == Bare \cup Annotated
=============================================================================
