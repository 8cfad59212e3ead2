------------------------------ MODULE Delivery ------------------------------
(***************************************************************************)
(* What the enricher promises the sender of ONE alert batch, with no       *)
(* goroutine, channel or retry in sight.  Module Batch implements it.      *)
(*                                                                         *)
(* A batch is either refused, and then no Alertmanager ever receives it,   *)
(* or released to the targets.  A released batch may reach a target at any *)
(* time, even after the sender has its answer (a straggler, an attempt     *)
(* whose response was lost).  The sender is told "acked" only when the     *)
(* targets that hold the batch are a quorum, and its answer never changes. *)
(***************************************************************************)
CONSTANTS Targets,      \* the configured Alertmanager targets
          Quorums       \* the sets of targets that make a batch delivered

VARIABLES verdict,      \* what the sender has been told
          released,     \* the batch has left the enrichment stage
          holders       \* the targets that have accepted the batch

dvars == <<verdict, released, holders>>

Verdicts == {"pending", "acked", "refused", "failed"}

DeliveryTypeOK ==
  /\ verdict \in Verdicts
  /\ released \in BOOLEAN
  /\ holders \subseteq Targets

Init == verdict = "pending" /\ released = FALSE /\ holders = {}

\* The sender is told the batch will not be forwarded at all.
Refuse ==
  /\ verdict = "pending" /\ ~released
  /\ verdict' = "refused"
  /\ UNCHANGED <<released, holders>>

\* The batch is handed to the senders of every target.
Release ==
  /\ verdict = "pending" /\ ~released
  /\ released' = TRUE
  /\ UNCHANGED <<verdict, holders>>

\* A target accepts the batch, whatever the sender has been told meanwhile.
Hold(t) ==
  /\ released
  /\ holders' = holders \cup {t}
  /\ UNCHANGED <<verdict, released>>

Ack ==
  /\ verdict = "pending" /\ released
  /\ holders \in Quorums
  /\ verdict' = "acked"
  /\ UNCHANGED <<released, holders>>

Fail ==
  /\ verdict = "pending" /\ released
  /\ verdict' = "failed"
  /\ UNCHANGED <<released, holders>>

Next == Refuse \/ Release \/ Ack \/ Fail \/ \E t \in Targets : Hold(t)

Spec == Init /\ [][Next]_dvars
=============================================================================
