--------------------------- MODULE MCStatusWriter ---------------------------
(***************************************************************************)
(* Instances of StatusWriter for TLC: the scenarios.                       *)
(***************************************************************************)
EXTENDS StatusWriter

CONSTANTS w1, w2

AcceptAll == [w \in Watchers |-> 0 .. 2]

\* Two replicas, neither knowing of the other, that start; and such that have long
\* been running, while a rule is edited.
Started ==
  [watchers |-> {w1, w2}, outgoing |-> {}, accepts |-> AcceptAll, settled |-> FALSE,
   overlap |-> 1, edits |-> 0, errors |-> 0]
Replicas == [Started EXCEPT !.settled = TRUE, !.edits = 2]

\* A reload replaces a policy by one that accepts nothing.
PolicyReplaced ==
  [Started EXCEPT !.outgoing = {w1}, !.accepts = [AcceptAll EXCEPT ![w2] = {}]]

\* One watcher, and a rule that is edited; the same with evaluations that overlap
\* and an API server that fails.
Alone == [Started EXCEPT !.watchers = {w1}, !.edits = 2]
Troubled == [Alone EXCEPT !.overlap = 2, !.edits = 1, !.errors = 1]

EveryScenario == {Started, Replicas, PolicyReplaced, Alone, Troubled}
=============================================================================
