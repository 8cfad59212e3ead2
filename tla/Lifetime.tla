------------------------------ MODULE Lifetime ------------------------------
(***************************************************************************)
(* What a generation promises the rest of the server: it serves nothing    *)
(* before all of its parts are loaded, its building comes to an end        *)
(* whatever the outside world does, and once it failed or is no longer     *)
(* wanted, every goroutine it started ends.                                *)
(***************************************************************************)
CONSTANT Parts

VARIABLES stage,   \* building, serving or failed
          wanted,  \* nobody has asked it to stop
          live,    \* parts with a goroutine
          loaded   \* parts that have something to look up

vars == <<stage, wanted, live, loaded>>

Init ==
  /\ stage = "building" /\ wanted = TRUE
  /\ live = {} /\ loaded \in SUBSET Parts

Begin(p) ==
  /\ stage = "building" /\ p \notin live
  /\ live' = live \cup {p}
  /\ UNCHANGED <<stage, wanted, loaded>>

Load(p) ==
  /\ loaded' = loaded \cup {p}
  /\ UNCHANGED <<stage, wanted, live>>

Publish ==
  /\ stage = "building" /\ loaded = Parts
  /\ stage' = "serving"
  /\ UNCHANGED <<wanted, live, loaded>>

\* A generation that fails takes back what it has started.
Fail ==
  /\ stage = "building"
  /\ stage' = "failed" /\ wanted' = FALSE
  /\ UNCHANGED <<live, loaded>>

Dismiss ==
  /\ wanted' = FALSE
  /\ UNCHANGED <<stage, live, loaded>>

End(p) ==
  /\ ~wanted /\ p \in live
  /\ live' = live \ {p}
  /\ UNCHANGED <<stage, wanted, loaded>>

Next ==
  \/ Publish \/ Fail \/ Dismiss
  \/ \E p \in Parts : Begin(p) \/ Load(p) \/ End(p)

Spec == Init /\ [][Next]_vars

FairSpec == Spec /\ WF_vars(Publish \/ Fail) /\ \A p \in Parts : WF_vars(End(p))
=============================================================================
