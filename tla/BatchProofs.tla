---------------------------- MODULE BatchProofs -----------------------------
(***************************************************************************)
(* Proofs about module Batch, for every batch size, set of targets,        *)
(* minSuccess, number of retries and concurrency limit.                    *)
(***************************************************************************)
EXTENDS Batch, FiniteSetTheorems, SequenceTheorems, TLAPS

\* TypeOK holds initially and every step preserves it.
LEMMA TypeInduction ==
  /\ Init => TypeOK
  /\ TypeOK /\ [Next]_vars => TypeOK'
<1> USE BatchAssumption DEF BatchAssumption, Entries
<1>1. Init => TypeOK
  <2> SUFFICES ASSUME Init PROVE TypeOK
    OBVIOUS
  <2>1. kind \in [Entries -> AlertKind]
    BY DEF Init
  <2>2. reply \in Replies
    BY DEF Init, NoReply, Replies
  <2>3. /\ tries \in [Targets -> Nat] /\ stale \in [Targets -> Nat]
        /\ accepted \in [Targets -> Nat]
    BY DEF Init
  <2>4. results \in Seq(Targets)
    BY EmptySeq DEF Init
  <2>5. kind \in [Entries -> AlertKind] => TypeOK
    BY <2>2, <2>3, <2>4 DEF Init, TypeOK
  <2> QED BY <2>1, <2>5
<1>2. TypeOK /\ [Next]_vars => TypeOK'
  <2> SUFFICES ASSUME TypeOK, [Next]_vars PROVE TypeOK'
    OBVIOUS
  <2> USE DEF TypeOK, enrichVars, targetVars, collectVars
  <2>1. CASE RejectBody
    BY <2>1 DEF RejectBody, Reply, Replies, Bodies
  <2>2. CASE Decode
    BY <2>2 DEF Decode
  <2>3. CASE RefuseBatch
    BY <2>3 DEF RefuseBatch, Reply, Replies
  <2>4. CASE ForwardBatch
    BY <2>4 DEF ForwardBatch
  <2>5. CASE Collect
    <3>1. results' \in Seq(Targets) /\ collected' \subseteq Targets
      BY <2>5 DEF Collect
    <3>2. reply' \in Replies /\ pc' \in {"forwarding", "answered"}
      BY <2>5 DEF Collect, Reply, Replies
    <3> QED BY <2>5, <3>1, <3>2 DEF Collect
  <2>6. CASE GiveUp
    BY <2>6 DEF GiveUp, Reply, Replies
  <2>7. ASSUME NEW a \in Entries, StartTask(a) PROVE TypeOK'
    BY <2>7 DEF StartTask
  <2>8. ASSUME NEW a \in Entries, ReturnTask(a) PROVE TypeOK'
    <3>1. failed' \in BOOLEAN
      BY <2>8, Zenon DEF ReturnTask, ReturnUntouched, ReturnPanic,
                         ReturnResolved, ReturnUnresolved
    <3>2. enriched' \subseteq Entries
      BY <2>8 DEF ReturnTask, ReturnUntouched, ReturnPanic, ReturnResolved,
                  ReturnUnresolved
    <3>3. Return(a)
      BY <2>8, Zenon DEF ReturnTask, ReturnUntouched, ReturnPanic,
                         ReturnResolved, ReturnUnresolved
    <3> QED BY <3>1, <3>2, <3>3 DEF Return
  <2>9. ASSUME NEW t \in Targets, Attempt(t) PROVE TypeOK'
    BY <2>9 DEF Attempt
  <2>10. ASSUME NEW t \in Targets, TargetHandles(t) PROVE TypeOK'
    <3>1. wire' \in [Targets -> {"none", "sent", "accepted", "rejected", "refused"}]
      BY <2>10 DEF TargetHandles, Responses
    <3>2. accepted' \in [Targets -> Nat]
      <4>1. accepted' = accepted \/ accepted' = [accepted EXCEPT ![t] = @ + 1]
        BY <2>10 DEF TargetHandles
      <4>2. accepted \in [Targets -> Nat] /\ accepted[t] + 1 \in Nat
        OBVIOUS
      <4>3. [accepted EXCEPT ![t] = @ + 1] \in [Targets -> Nat]
        BY <4>2
      <4> QED BY <4>1, <4>2, <4>3
    <3> QED BY <2>10, <3>1, <3>2 DEF TargetHandles
  <2>11. ASSUME NEW t \in Targets, TargetHandlesLate(t) PROVE TypeOK'
    <3>1. accepted' \in [Targets -> Nat]
      <4>1. accepted' = accepted \/ accepted' = [accepted EXCEPT ![t] = @ + 1]
        BY <2>11 DEF TargetHandlesLate
      <4>2. accepted \in [Targets -> Nat] /\ accepted[t] + 1 \in Nat
        OBVIOUS
      <4>3. [accepted EXCEPT ![t] = @ + 1] \in [Targets -> Nat]
        BY <4>2
      <4> QED BY <4>1, <4>2, <4>3
    <3>2. stale' \in [Targets -> Nat]
      <4>1. stale' = [stale EXCEPT ![t] = @ - 1] /\ stale[t] > 0
        BY <2>11 DEF TargetHandlesLate, InFlight
      <4>2. stale[t] - 1 \in Nat
        BY <4>1
      <4> QED BY <4>1, <4>2
    <3> QED BY <2>11, <3>1, <3>2 DEF TargetHandlesLate
  <2>12. ASSUME NEW t \in Targets, AttemptSucceeds(t) PROVE TypeOK'
    BY <2>12 DEF AttemptSucceeds
  <2>13. ASSUME NEW t \in Targets, AttemptFails(t) PROVE TypeOK'
    <3>1. stale' \in [Targets -> Nat]
      BY <2>13 DEF AttemptFails
    <3>2. tgt' \in [Targets -> {"idle", "sending", "backoff", "ok", "failed"}]
      BY <2>13 DEF AttemptFails
    <3>3. results' \in Seq(Targets)
      <4>1. results' = results \/ results' = Append(results, t)
        BY <2>13, Zenon DEF AttemptFails
      <4>2. results \in Seq(Targets) /\ Append(results, t) \in Seq(Targets)
        BY AppendProperties
      <4> QED BY <4>1, <4>2
    <3>4. wire' \in [Targets -> {"none", "sent", "accepted", "rejected", "refused"}]
      BY <2>13 DEF AttemptFails
    <3> QED BY <2>13, <3>1, <3>2, <3>3, <3>4 DEF AttemptFails
  <2>14. CASE ClientHangsUp
    BY <2>14 DEF ClientHangsUp
  <2>15. CASE ProcessExits
    BY <2>15 DEF ProcessExits
  <2>16. CASE UNCHANGED vars
    BY <2>16 DEF vars
  <2> QED
    BY <2>1, <2>2, <2>3, <2>4, <2>5, <2>6, <2>7, <2>8, <2>9, <2>10, <2>11,
       <2>12, <2>13, <2>14, <2>15, <2>16 DEF Next, Handler
<1> QED BY <1>1, <1>2

\* Type correctness of the request's state: every step of the handler, of its
\* goroutines and of the network keeps each variable in its range.
THEOREM TypeCorrect == Spec => []TypeOK
BY TypeInduction, PTL DEF Spec

-----------------------------------------------------------------------------
(* The inductive invariant *)

\* The targets that hold the batch are finitely many, and a subset of them has
\* at most their number.
LEMMA HoldersFinite ==
  ASSUME TypeOK, NEW S, S \subseteq Holders
  PROVE  /\ IsFiniteSet(S) /\ Cardinality(S) \in Nat
         /\ Cardinality(S) <= Cardinality(Holders)
         /\ Cardinality(Holders) \in Nat
<1>1. IsFiniteSet(Holders)
  BY BatchAssumption, FS_Subset DEF BatchAssumption, Holders
<1> QED BY <1>1, FS_Subset, FS_CardinalityType

\* No acceptance is undone, so an acknowledged batch stays acknowledged rightly.
LEMMA AckStable ==
  ASSUME TypeOK, TypeOK', AckMeansAccepted, reply' = reply,
         \A t \in Targets : accepted'[t] >= accepted[t]
  PROVE  AckMeansAccepted'
<1>1. Holders \subseteq Holders'
  BY DEF Holders, TypeOK
<1>2. IsFiniteSet(Holders')
  BY BatchAssumption, FS_Subset DEF BatchAssumption, Holders
<1>3. /\ Cardinality(Holders) <= Cardinality(Holders')
      /\ Cardinality(Holders) \in Nat /\ Cardinality(Holders') \in Nat
  BY <1>1, <1>2, FS_Subset, FS_CardinalityType
<1> QED BY <1>3, BatchAssumption DEF AckMeansAccepted, BatchAssumption

\* The handler's early steps leave the targets and the acceptances alone.
LEMMA EarlyStep ==
  ASSUME TypeOK, TypeOK', BatchInv,
         UNCHANGED targetVars, Released => Released',
         pc' = "answered" <=> reply' # NoReply,
         reply'.metric # "ok" \/ UNCHANGED reply
  PROVE  AnsweredOnce' /\ Quiet' /\ Attempts' /\ BoundedCopies' /\ AckMeansAccepted'
<1>1. UNCHANGED tgt /\ UNCHANGED tries /\ UNCHANGED wire /\ UNCHANGED stale
        /\ UNCHANGED accepted
  BY DEF targetVars
<1>2. AnsweredOnce'
  BY DEF AnsweredOnce
<1>3. Quiet'
  <2>1. ~Released' => ~Released
    OBVIOUS
  <2> QED BY <1>1, <2>1 DEF BatchInv, Quiet
<1>4. Attempts'
  BY <1>1 DEF BatchInv, Attempts, AttemptOK
<1>5. BoundedCopies'
  BY <1>1 DEF BatchInv, BoundedCopies, CopiesOK
<1>6. AckMeansAccepted'
  <2>1. CASE UNCHANGED reply
    BY <1>1, <2>1, AckStable DEF BatchInv, TypeOK
  <2>2. CASE reply'.metric # "ok"
    BY <2>2 DEF AckMeansAccepted
  <2> QED BY <2>1, <2>2
<1> QED BY <1>2, <1>3, <1>4, <1>5, <1>6

\* A step of one target keeps the other targets' attempts as they are.
LEMMA OneTarget ==
  ASSUME BatchInv, NEW t \in Targets,
         \A u \in Targets \ {t} :
            /\ tgt'[u] = tgt[u] /\ tries'[u] = tries[u] /\ wire'[u] = wire[u]
            /\ stale'[u] = stale[u] /\ accepted'[u] = accepted[u],
         AttemptOK(t)', CopiesOK(t)'
  PROVE  Attempts' /\ BoundedCopies'
<1> SUFFICES ASSUME NEW u \in Targets PROVE AttemptOK(u)' /\ CopiesOK(u)'
  BY DEF Attempts, BoundedCopies
<1>1. CASE u = t
  BY <1>1
<1>2. CASE u # t
  BY <1>2 DEF BatchInv, Attempts, BoundedCopies, AttemptOK, CopiesOK
<1> QED BY <1>1, <1>2

\* One more acceptance, or none: no target's count shrinks.
LEMMA Grows ==
  ASSUME TypeOK, NEW t \in Targets,
         \A u \in Targets \ {t} : accepted'[u] = accepted[u],
         accepted'[t] \in {accepted[t], accepted[t] + 1}
  PROVE  \A u \in Targets : accepted'[u] >= accepted[u]
<1> SUFFICES ASSUME NEW u \in Targets PROVE accepted'[u] >= accepted[u]
  OBVIOUS
<1>1. accepted[u] \in Nat
  BY DEF TypeOK
<1>2. accepted'[u] \in {accepted[u], accepted[u] + 1}
  <2>1. CASE u = t
    BY <2>1
  <2>2. CASE u # t
    BY <2>2
  <2> QED BY <2>1, <2>2
<1> QED BY <1>1, <1>2

\* A step of a target's goroutine or of the network leaves the handler alone.
LEMMA TargetStep ==
  ASSUME TypeOK, TypeOK', BatchInv,
         UNCHANGED <<kind, body, pc, task, enriched, failed, payload, reply>>,
         \A t \in Targets : accepted'[t] >= accepted[t]
  PROVE  AnsweredOnce' /\ ReleasedClean' /\ Joined' /\ Enrichment'
         /\ AckMeansAccepted' /\ (Released' <=> Released)
<1>1. Released' <=> Released
  BY DEF Released
<1>2. AllReturned' <=> AllReturned
  BY DEF AllReturned
<1>3. AnsweredOnce'
  BY DEF BatchInv, AnsweredOnce
<1>4. ReleasedClean'
  BY <1>1, <1>2 DEF BatchInv, ReleasedClean
<1>5. Enrichment'
  BY <1>1 DEF BatchInv, Enrichment, Malformed, Unreadable, Deliverable
<1>6. AckMeansAccepted'
  BY AckStable DEF BatchInv
<1>7. Joined'
  BY <1>2 DEF BatchInv, Joined
<1> QED BY <1>1, <1>3, <1>4, <1>5, <1>6, <1>7

\* BatchInv holds initially and every step preserves it.
LEMMA BatchInduction ==
  /\ Init => BatchInv
  /\ TypeOK /\ TypeOK' /\ BatchInv /\ [Next]_vars => BatchInv'
<1> USE BatchAssumption DEF BatchAssumption
<1>1. Init => BatchInv
  <2> SUFFICES ASSUME Init PROVE BatchInv
    OBVIOUS
  <2>1. ~Released
    BY DEF Init, Released, NoReply
  <2>2. AnsweredOnce
    BY DEF Init, AnsweredOnce
  <2>3. Quiet
    BY DEF Init, Quiet
  <2>4. ReleasedClean
    BY <2>1 DEF Init, ReleasedClean
  <2>5. Enrichment
    BY DEF Init, Enrichment
  <2>6. Attempts /\ BoundedCopies
    BY DEF Init, Attempts, AttemptOK, BoundedCopies, CopiesOK
  <2>7. AckMeansAccepted
    BY DEF Init, AckMeansAccepted, NoReply
  <2>8. Joined
    BY DEF Init, Joined, AllReturned
  <2> QED BY <2>2, <2>3, <2>4, <2>5, <2>6, <2>7, <2>8 DEF BatchInv
<1>2. TypeOK /\ TypeOK' /\ BatchInv /\ [Next]_vars => BatchInv'
  <2> SUFFICES ASSUME TypeOK, TypeOK', BatchInv, [Next]_vars PROVE BatchInv'
    OBVIOUS
  <2>0. reply = NoReply <=> pc # "answered"
    BY DEF BatchInv, AnsweredOnce
  <2>1. CASE RejectBody
    <3>1. ~Released /\ ~Released'
      BY <2>1 DEF RejectBody, BatchInv, ReleasedClean, Released, Reply, Bodies, TypeOK
    <3>2. reply'.metric # "ok" /\ reply' # NoReply /\ pc' = "answered"
      BY <2>1 DEF RejectBody, Reply, Bodies, TypeOK, NoReply
    <3>3. AnsweredOnce' /\ Quiet' /\ Attempts' /\ BoundedCopies' /\ AckMeansAccepted'
      BY <2>1, <3>1, <3>2, EarlyStep DEF RejectBody
    <3>4. ReleasedClean' /\ Enrichment' /\ Joined'
      BY <2>1, <3>1 DEF RejectBody, BatchInv, ReleasedClean, Enrichment,
                        Joined, AllReturned, enrichVars
    <3> QED BY <3>3, <3>4 DEF BatchInv
  <2>2. CASE Decode
    <3>1. ~Released /\ ~Released' /\ UNCHANGED reply /\ reply = NoReply
      BY <2>0, <2>2 DEF Decode, Released, NoReply
    <3>2. AnsweredOnce' /\ Quiet' /\ Attempts' /\ BoundedCopies' /\ AckMeansAccepted'
      BY <2>2, <3>1, EarlyStep DEF Decode
    <3>3. ReleasedClean'
      BY <2>2, <3>1 DEF Decode, ReleasedClean
    <3>4. Enrichment'
      BY <2>2, <3>1 DEF Decode, BatchInv, Enrichment, Malformed
    <3>5. Joined'
      BY <2>2 DEF Decode, Joined
    <3> QED BY <3>2, <3>3, <3>4, <3>5 DEF BatchInv
  <2>3. CASE RefuseBatch
    <3>1. ~Released /\ ~Released' /\ reply'.metric # "ok" /\ reply' # NoReply
      BY <2>0, <2>3 DEF RefuseBatch, Released, NoReply, Reply
    <3>2. AnsweredOnce' /\ Quiet' /\ Attempts' /\ BoundedCopies' /\ AckMeansAccepted'
      BY <2>3, <3>1, EarlyStep DEF RefuseBatch
    <3>3. ReleasedClean' /\ Enrichment' /\ Joined'
      BY <2>3, <3>1 DEF RefuseBatch, BatchInv, ReleasedClean, Enrichment,
                        Joined, AllReturned, enrichVars, Malformed, Unreadable
    <3> QED BY <3>2, <3>3 DEF BatchInv
  <2>4. CASE ForwardBatch
    <3>1. ~Released /\ Released' /\ UNCHANGED reply /\ reply = NoReply
      BY <2>0, <2>4 DEF ForwardBatch, Released, NoReply
    <3>2. AnsweredOnce' /\ Quiet' /\ Attempts' /\ BoundedCopies' /\ AckMeansAccepted'
      BY <2>4, <3>1, EarlyStep DEF ForwardBatch
    <3>3. ReleasedClean'
      BY <2>4 DEF ForwardBatch, BatchInv, ReleasedClean, AllReturned, Aborted,
                  enrichVars
    <3>4. Enrichment'
      BY <2>4, <3>1 DEF ForwardBatch, BatchInv, Enrichment, enrichVars,
                        Malformed, Unreadable, Deliverable
    <3>5. Joined'
      BY <2>4 DEF ForwardBatch, Joined, AllReturned, enrichVars
    <3> QED BY <3>2, <3>3, <3>4, <3>5 DEF BatchInv
  <2>5. CASE Collect
    <3>1. Released /\ Released'
      BY <2>5 DEF Collect, Released, Reply
    <3>2. AnsweredOnce'
      BY <2>0, <2>5 DEF Collect, AnsweredOnce, Reply, NoReply
    <3>3. ReleasedClean'
      BY <2>5, <3>1 DEF Collect, BatchInv, ReleasedClean, AllReturned, enrichVars
    <3>4. Enrichment'
      BY <2>5, <3>1 DEF Collect, BatchInv, Enrichment, enrichVars, Malformed,
                        Unreadable, Deliverable, Released
    <3>5. Quiet' /\ Attempts' /\ BoundedCopies'
      BY <2>5, <3>1 DEF Collect, BatchInv, Quiet, Attempts, AttemptOK, BoundedCopies, CopiesOK, targetVars
    <3>6. AckMeansAccepted'
      <4>1. CASE Enough(collected')
        <5> DEFINE S == {t \in collected' : tgt[t] = "ok"}
        <5>1. S \subseteq Holders
          BY DEF BatchInv, Attempts, AttemptOK, Holders, TypeOK
        <5>2. Cardinality(S) >= MinSuccess
          BY <4>1 DEF Enough, Successes
        <5>3. Cardinality(Holders) >= MinSuccess
          BY <5>1, <5>2, HoldersFinite
        <5>4. Holders' = Holders
          BY <2>5 DEF Collect, targetVars, Holders
        <5>5. Cardinality(Holders') >= MinSuccess
          BY <5>3, <5>4
        <5> QED BY <5>5 DEF AckMeansAccepted
      <4>2. CASE ~Enough(collected')
        <5>1. UNCHANGED <<reply, accepted>>
          BY <2>5, <4>2 DEF Collect, targetVars
        <5>2. \A t \in Targets : accepted'[t] >= accepted[t]
          BY <5>1 DEF TypeOK
        <5>3. AckMeansAccepted
          BY DEF BatchInv
        <5> QED BY <5>1, <5>2, <5>3, AckStable
      <4> QED BY <4>1, <4>2
    <3>7. Joined'
      BY <2>5 DEF Collect, BatchInv, Joined, AllReturned, enrichVars
    <3> QED BY <3>2, <3>3, <3>4, <3>5, <3>6, <3>7 DEF BatchInv
  <2>6. CASE GiveUp
    <3>1. Released /\ Released' /\ reply'.metric # "ok" /\ reply' # NoReply
      BY <2>6 DEF GiveUp, Released, Reply, NoReply
    <3>2. AnsweredOnce' /\ Quiet' /\ Attempts' /\ BoundedCopies' /\ AckMeansAccepted'
      BY <2>6, <3>1, EarlyStep DEF GiveUp
    <3>3. ReleasedClean' /\ Enrichment' /\ Joined'
      BY <2>6, <3>1 DEF GiveUp, BatchInv, ReleasedClean, Enrichment, Joined, AllReturned,
                        enrichVars, Malformed, Unreadable, Deliverable
    <3> QED BY <3>2, <3>3 DEF BatchInv
  <2>7. ASSUME NEW a \in Entries, StartTask(a) PROVE BatchInv'
    <3>1. ~Released /\ ~Released' /\ UNCHANGED reply /\ reply = NoReply
      BY <2>0, <2>7 DEF StartTask, Released, NoReply
    <3>2. AnsweredOnce' /\ Quiet' /\ Attempts' /\ BoundedCopies' /\ AckMeansAccepted'
      BY <2>7, <3>1, <2>0, EarlyStep DEF StartTask
    <3>3. ReleasedClean'
      BY <2>7, <3>1 DEF StartTask, BatchInv, ReleasedClean
    <3>4. Enrichment'
      BY <2>7, <3>1 DEF StartTask, BatchInv, Enrichment, Malformed, Unreadable, TypeOK
    <3>5. Joined'
      BY <2>7 DEF StartTask, Joined
    <3> QED BY <3>2, <3>3, <3>4, <3>5 DEF BatchInv
  <2>8. ASSUME NEW a \in Entries, ReturnTask(a) PROVE BatchInv'
    <3>1. Return(a)
      BY <2>8, Zenon DEF ReturnTask, ReturnUntouched, ReturnPanic,
                         ReturnResolved, ReturnUnresolved
    <3>2. ~Released
      BY <3>1 DEF Return, BatchInv, ReleasedClean, AllReturned
    <3>3. ~Released' /\ UNCHANGED reply
      BY <3>1, <3>2 DEF Return, Released
    <3>4. AnsweredOnce' /\ Quiet' /\ Attempts' /\ BoundedCopies' /\ AckMeansAccepted'
      BY <3>1, <3>2, <3>3, <2>0, EarlyStep DEF Return
    <3>5. ReleasedClean'
      BY <3>1, <3>3 DEF Return, BatchInv, ReleasedClean
    <3>6. /\ enriched \subseteq enriched' /\ (failed => failed')
          /\ kind[a].rule = "required" /\ ~kind[a].panics /\ ~Unreadable(a)
               => a \in enriched' \/ failed'
      BY <2>8 DEF ReturnTask, ReturnUntouched, ReturnPanic, ReturnResolved,
                  ReturnUnresolved, FailsBatch, TypeOK
    <3>7. Enrichment'
      BY <3>1, <3>2, <3>6 DEF Return, BatchInv, Enrichment, Malformed, Unreadable, TypeOK
    <3>8. Joined'
      BY <3>1 DEF Return, BatchInv, Joined, AllReturned
    <3> QED BY <3>4, <3>5, <3>7, <3>8 DEF BatchInv
  <2>9. ASSUME NEW t \in Targets, Attempt(t) PROVE BatchInv'
    <3>1. /\ accepted[t] \in Nat /\ stale[t] \in Nat /\ tries[t] \in Nat
          /\ AttemptOK(t) /\ CopiesOK(t)
      BY DEF TypeOK, BatchInv, Attempts, BoundedCopies
    <3>2. \A u \in Targets \ {t} :
            /\ tgt'[u] = tgt[u] /\ tries'[u] = tries[u] /\ wire'[u] = wire[u]
            /\ stale'[u] = stale[u] /\ accepted'[u] = accepted[u]
      BY <2>9 DEF Attempt, TypeOK
    <3>3. /\ tgt[t] \in {"idle", "backoff"} /\ tgt'[t] = "sending"
          /\ tries'[t] = tries[t] + 1 /\ wire'[t] = "sent"
          /\ stale'[t] = stale[t] /\ accepted' = accepted
      BY <2>9 DEF Attempt, TypeOK
    <3>4. tries[t] <= Retries /\ wire[t] = "none"
      BY <3>1, <3>3 DEF AttemptOK
    <3>5. Attempts' /\ BoundedCopies'
      <4>1. AttemptOK(t)'
        BY <3>1, <3>3, <3>4, BatchAssumption DEF AttemptOK, BatchAssumption
      <4>2. CopiesOK(t)'
        BY <3>1, <3>3, <3>4, BatchAssumption DEF CopiesOK, BatchAssumption
      <4> QED BY <3>2, <4>1, <4>2, OneTarget
    <3>6. \A u \in Targets : accepted'[u] >= accepted[u]
      BY <3>3 DEF TypeOK
    <3>7. AnsweredOnce' /\ ReleasedClean' /\ Joined' /\ Enrichment'
            /\ AckMeansAccepted'
            /\ (Released' <=> Released)
      BY <2>9, <3>6, TargetStep DEF Attempt, enrichVars
    <3>8. Quiet'
      BY <2>9, <3>7 DEF Attempt, Sending, Quiet
    <3> QED BY <3>5, <3>7, <3>8 DEF BatchInv
  <2>10. ASSUME NEW t \in Targets, TargetHandles(t) PROVE BatchInv'
    <3>1. /\ accepted[t] \in Nat /\ stale[t] \in Nat /\ tries[t] \in Nat
          /\ AttemptOK(t) /\ CopiesOK(t)
      BY DEF TypeOK, BatchInv, Attempts, BoundedCopies
    <3>2. \A u \in Targets \ {t} :
            /\ tgt'[u] = tgt[u] /\ tries'[u] = tries[u] /\ wire'[u] = wire[u]
            /\ stale'[u] = stale[u] /\ accepted'[u] = accepted[u]
      BY <2>10 DEF TargetHandles, TypeOK
    <3>3. /\ wire[t] = "sent"
          /\ \/ wire'[t] = "accepted" /\ accepted'[t] = accepted[t] + 1
             \/ wire'[t] \in {"rejected", "refused"} /\ accepted'[t] = accepted[t]
          /\ UNCHANGED <<tgt, tries, stale>>
      BY <2>10 DEF TargetHandles, Responses, TypeOK
    <3>4. Attempts' /\ BoundedCopies'
      <4>1. AttemptOK(t)'
        BY <3>1, <3>3 DEF AttemptOK
      <4>2. CopiesOK(t)'
        BY <3>1, <3>3 DEF CopiesOK
      <4> QED BY <3>2, <4>1, <4>2, OneTarget
    <3>5. \A u \in Targets : accepted'[u] >= accepted[u]
      BY <3>2, <3>3, Grows
    <3>6. AnsweredOnce' /\ ReleasedClean' /\ Joined' /\ Enrichment'
            /\ AckMeansAccepted'
            /\ (Released' <=> Released)
      BY <2>10, <3>5, TargetStep DEF TargetHandles, enrichVars
    <3>7. Quiet'
      BY <3>3, <3>6 DEF BatchInv, Quiet
    <3> QED BY <3>4, <3>6, <3>7 DEF BatchInv
  <2>11. ASSUME NEW t \in Targets, TargetHandlesLate(t) PROVE BatchInv'
    <3>1. /\ accepted[t] \in Nat /\ stale[t] \in Nat /\ tries[t] \in Nat
          /\ AttemptOK(t) /\ CopiesOK(t)
      BY DEF TypeOK, BatchInv, Attempts, BoundedCopies
    <3>2. \A u \in Targets \ {t} :
            /\ tgt'[u] = tgt[u] /\ tries'[u] = tries[u] /\ wire'[u] = wire[u]
            /\ stale'[u] = stale[u] /\ accepted'[u] = accepted[u]
      <4>1. \A u \in Targets \ {t} : accepted'[u] = accepted[u]
        BY <2>11 DEF TargetHandlesLate, TypeOK
      <4> QED BY <2>11, <4>1 DEF TargetHandlesLate, TypeOK
    <3>3. /\ stale[t] > 0 /\ stale'[t] = stale[t] - 1
          /\ accepted'[t] \in {accepted[t], accepted[t] + 1}
          /\ UNCHANGED <<tgt, tries, wire>>
      <4>1. accepted'[t] \in {accepted[t], accepted[t] + 1}
        BY <2>11 DEF TargetHandlesLate, TypeOK
      <4> QED BY <2>11, <4>1 DEF TargetHandlesLate, InFlight, TypeOK
    <3>4. Attempts' /\ BoundedCopies'
      <4>1. AttemptOK(t)'
        BY <3>1, <3>3 DEF AttemptOK
      <4>2. CopiesOK(t)'
        BY <3>1, <3>3 DEF CopiesOK
      <4> QED BY <3>2, <4>1, <4>2, OneTarget
    <3>5. \A u \in Targets : accepted'[u] >= accepted[u]
      BY <3>2, <3>3, Grows
    <3>6. AnsweredOnce' /\ ReleasedClean' /\ Joined' /\ Enrichment'
            /\ AckMeansAccepted'
            /\ (Released' <=> Released)
      BY <2>11, <3>5, TargetStep DEF TargetHandlesLate, enrichVars
    <3>7. Quiet'
      BY <2>11, <3>3, <3>6 DEF TargetHandlesLate, InFlight, BatchInv, Quiet
    <3> QED BY <3>4, <3>6, <3>7 DEF BatchInv
  <2>12. ASSUME NEW t \in Targets, AttemptSucceeds(t) PROVE BatchInv'
    <3>1. /\ accepted[t] \in Nat /\ stale[t] \in Nat /\ tries[t] \in Nat
          /\ AttemptOK(t) /\ CopiesOK(t)
      BY DEF TypeOK, BatchInv, Attempts, BoundedCopies
    <3>2. \A u \in Targets \ {t} :
            /\ tgt'[u] = tgt[u] /\ tries'[u] = tries[u] /\ wire'[u] = wire[u]
            /\ stale'[u] = stale[u] /\ accepted'[u] = accepted[u]
      BY <2>12 DEF AttemptSucceeds, TypeOK
    <3>3. /\ tgt[t] = "sending" /\ wire[t] = "accepted"
          /\ tgt'[t] = "ok" /\ wire'[t] = "none"
          /\ UNCHANGED <<tries, stale, accepted>>
      BY <2>12 DEF AttemptSucceeds, Success, TypeOK
    <3>4. Attempts' /\ BoundedCopies'
      <4>1. AttemptOK(t)'
        BY <3>1, <3>3 DEF AttemptOK
      <4>2. CopiesOK(t)'
        BY <3>1, <3>3 DEF CopiesOK
      <4> QED BY <3>2, <4>1, <4>2, OneTarget
    <3>5. \A u \in Targets : accepted'[u] >= accepted[u]
      BY <3>3 DEF TypeOK
    <3>6. AnsweredOnce' /\ ReleasedClean' /\ Joined' /\ Enrichment'
            /\ AckMeansAccepted'
            /\ (Released' <=> Released)
      BY <2>12, <3>5, TargetStep DEF AttemptSucceeds, enrichVars
    <3>7. Quiet'
      BY <3>3, <3>6 DEF BatchInv, Quiet
    <3> QED BY <3>4, <3>6, <3>7 DEF BatchInv
  <2>13. ASSUME NEW t \in Targets, AttemptFails(t) PROVE BatchInv'
    <3>1. /\ accepted[t] \in Nat /\ stale[t] \in Nat /\ tries[t] \in Nat
          /\ AttemptOK(t) /\ CopiesOK(t)
      BY DEF TypeOK, BatchInv, Attempts, BoundedCopies
    <3>2. \A u \in Targets \ {t} :
            /\ tgt'[u] = tgt[u] /\ tries'[u] = tries[u] /\ wire'[u] = wire[u]
            /\ stale'[u] = stale[u] /\ accepted'[u] = accepted[u]
      <4>1. \A u \in Targets \ {t} : stale'[u] = stale[u]
        BY <2>13 DEF AttemptFails, TypeOK
      <4> QED BY <2>13, <4>1 DEF AttemptFails, TypeOK
    <3>3. /\ tgt[t] = "sending" /\ wire'[t] = "none"
          /\ stale'[t] = stale[t] + (IF wire[t] = "sent" THEN 1 ELSE 0)
          /\ \/ tries[t] <= Retries /\ tgt'[t] = "backoff"
             \/ ~(tries[t] <= Retries) /\ tgt'[t] = "failed"
          /\ UNCHANGED <<tries, accepted>>
      <4>1. stale'[t] = stale[t] + (IF wire[t] = "sent" THEN 1 ELSE 0)
        BY <2>13, <3>1 DEF AttemptFails, TypeOK
      <4> QED BY <2>13, <4>1 DEF AttemptFails, TriesLeft, TypeOK
    <3>4. Attempts' /\ BoundedCopies'
      <4>1. AttemptOK(t)'
        BY <3>1, <3>3, BatchAssumption DEF AttemptOK, BatchAssumption
      <4>2. CopiesOK(t)'
        BY <3>1, <3>3 DEF CopiesOK
      <4> QED BY <3>2, <4>1, <4>2, OneTarget
    <3>5. \A u \in Targets : accepted'[u] >= accepted[u]
      BY <3>3 DEF TypeOK
    <3>6. AnsweredOnce' /\ ReleasedClean' /\ Joined' /\ Enrichment'
            /\ AckMeansAccepted'
            /\ (Released' <=> Released)
      BY <2>13, <3>5, TargetStep DEF AttemptFails, enrichVars
    <3>7. Quiet'
      BY <3>3, <3>6 DEF BatchInv, Quiet
    <3> QED BY <3>4, <3>6, <3>7 DEF BatchInv
  <2>14. CASE ClientHangsUp \/ ProcessExits \/ UNCHANGED vars
    <3>1. UNCHANGED <<kind, body, pc, task, enriched, failed, payload, tgt, tries,
                      wire, stale, accepted, reply>>
      BY <2>14 DEF ClientHangsUp, ProcessExits, vars, enrichVars, targetVars
    <3>2. AnsweredOnce' /\ ReleasedClean' /\ Joined' /\ Enrichment'
            /\ AckMeansAccepted'
            /\ (Released' <=> Released)
      <4>1. \A u \in Targets : accepted'[u] >= accepted[u]
        BY <3>1 DEF TypeOK
      <4> QED BY <3>1, <4>1, TargetStep
    <3>3. Quiet' /\ Attempts' /\ BoundedCopies'
      BY <3>1, <3>2 DEF BatchInv, Quiet, Attempts, AttemptOK, BoundedCopies, CopiesOK
    <3> QED BY <3>2, <3>3 DEF BatchInv
  <2> QED
    BY <2>1, <2>2, <2>3, <2>4, <2>5, <2>6, <2>7, <2>8, <2>9, <2>10, <2>11,
       <2>12, <2>13, <2>14 DEF Next, Handler
<1> QED BY <1>1, <1>2

LEMMA Invariance == Spec => [](TypeOK /\ BatchInv)
<1>1. Spec => []TypeOK
  BY TypeCorrect
<1>2. Init => BatchInv
  BY BatchInduction
<1>3. TypeOK /\ TypeOK' /\ BatchInv /\ [Next]_vars => BatchInv'
  BY BatchInduction
<1> QED BY <1>1, <1>2, <1>3, PTL DEF Spec

-----------------------------------------------------------------------------
(* Safety *)

\* A batch answered "ok" has been accepted by at least minSuccess targets, for
\* any number of targets, lost responses, retries and stragglers.
THEOREM AcknowledgedBatchesAreDelivered == Spec => []AckMeansAccepted
<1>1. BatchInv => AckMeansAccepted
  BY DEF BatchInv
<1> QED BY <1>1, Invariance, PTL

\* After a RequiredFailure no target is ever sent the batch.
THEOREM RequiredRulesFailClosed == Spec => []FailClosed
<1>1. BatchInv => FailClosed
  BY DEF BatchInv, ReleasedClean, Quiet, FailClosed
<1> QED BY <1>1, Invariance, PTL

\* No alert is forwarded without the label of a required rule that applies to
\* it, unless its annotations are unreadable or Apply panicked on it.
THEOREM RequiredLabelsAreForwarded == Spec => []RequiredLabelPresent
<1>1. TypeOK /\ BatchInv => RequiredLabelPresent
  <2> SUFFICES ASSUME TypeOK, BatchInv, NEW a \in payload,
                      kind[a].rule = "required", ~kind[a].panics,
                      kind[a].annotations # "bad"
               PROVE  a \in enriched
    BY DEF RequiredLabelPresent
  <2>1. a \in Entries /\ Released /\ Deliverable(a)
    BY DEF TypeOK, BatchInv, Enrichment
  <2>2. ~Malformed(a) /\ ~Unreadable(a)
    BY <2>1 DEF Deliverable, Malformed, Unreadable
  <2>3. pc # "reading" /\ AllReturned /\ ~failed /\ body = "ok"
    BY <2>1 DEF BatchInv, ReleasedClean
  <2>4. task[a] = "returned"
    BY <2>1, <2>2, <2>3 DEF AllReturned, BatchInv, Enrichment
  <2> QED BY <2>1, <2>2, <2>3, <2>4 DEF BatchInv, Enrichment
<1> QED BY <1>1, Invariance, PTL

\* No target ever accepts more than 1 + retries copies of a batch.
THEOREM CopiesAreBounded == Spec => []BoundedCopies
<1>1. BatchInv => BoundedCopies
  BY DEF BatchInv
<1> QED BY <1>1, Invariance, PTL

\* A target is reported as failed only after all its retries, whatever became
\* of the client and of the handler meanwhile.
THEOREM FailuresAreExhaustive == Spec => []FailedMeansExhausted
<1>1. BatchInv => FailedMeansExhausted
  BY DEF BatchInv, Attempts, AttemptOK, FailedMeansExhausted
<1> QED BY <1>1, Invariance, PTL

\* When a batch is filtered, encoded and forwarded no goroutine of the errgroup
\* is left to change one of its alerts.
THEOREM NoEnrichmentAfterwards == Spec => []EnrichmentJoined
<1>1. BatchInv => EnrichmentJoined
  BY DEF BatchInv, Joined, AllReturned, Running, EnrichmentJoined
<1> QED BY <1>1, Invariance, PTL

-----------------------------------------------------------------------------
(* The results channel, and what is released *)

\* The result of t is in the channel.
Listed(t) == \E i \in DOMAIN results : results[i] = t

\* Every target that has finished has handed over its result, and no other.
ResultsAreFinished ==
  \A t \in Targets : Finished(t) <=> t \in collected \/ Listed(t)

\* The receiving loop goes on only while what it has received is not enough.
StillShort == pc = "forwarding" /\ collected # {} => ~Enough(collected)

ForwardInv ==
  /\ ResultsAreFinished /\ StillShort /\ GaveUpMeansExhausted /\ NoneStranded

\* Any other step leaves the results alone, starts no receiving loop, and gives
\* no answer of forward's.
Elsewhere ==
  /\ UNCHANGED <<kind, payload, tgt, results, collected>>
  /\ pc' = pc \/ pc' # "forwarding"
  /\ reply' = reply \/ reply'.metric \notin {"forward_failed", "ok"}

\* A step of t's goroutine: what has finished stays as it is, and t hands over
\* its result as it finishes.
Goes(t) ==
  /\ UNCHANGED <<kind, payload, pc, collected, reply>>
  /\ \A u \in Targets : Finished(u) => tgt'[u] = tgt[u]
  /\ \A u \in Targets \ {t} : Finished(u)' => Finished(u)
  /\ \/ results' = results /\ (Finished(t)' => Finished(t))
     \/ results' = Append(results, t) /\ Finished(t)'

LEMMA StepKinds ==
  ASSUME TypeOK, [Next]_vars
  PROVE  \/ ForwardBatch \/ Collect \/ GiveUp \/ Elsewhere
         \/ \E t \in Targets : Goes(t)
<1>1. ASSUME NEW t \in Targets, Attempt(t) PROVE Goes(t)
  BY <1>1 DEF Attempt, collectVars, Goes, Finished, TypeOK
<1>2. ASSUME NEW t \in Targets, AttemptSucceeds(t) PROVE Goes(t)
  BY <1>2 DEF AttemptSucceeds, Goes, Finished, TypeOK
<1>3. ASSUME NEW t \in Targets, AttemptFails(t) PROVE Goes(t)
  BY <1>3 DEF AttemptFails, Goes, Finished, TypeOK
<1>4. ASSUME NEW t \in Targets, TargetHandles(t) \/ TargetHandlesLate(t)
      PROVE  Elsewhere
  BY <1>4 DEF TargetHandles, TargetHandlesLate, collectVars, Elsewhere
<1>5. CASE RejectBody
  <2>1. reply'.metric \notin {"forward_failed", "ok"} /\ pc' = "answered"
    BY <1>5 DEF RejectBody, Reply, Bodies, TypeOK
  <2> QED BY <1>5, <2>1 DEF RejectBody, Elsewhere, targetVars, collectVars
<1>6. CASE Decode
  BY <1>6 DEF Decode, Elsewhere, targetVars, collectVars
<1>7. CASE RefuseBatch
  BY <1>7 DEF RefuseBatch, Reply, Elsewhere, targetVars, collectVars
<1>8. ASSUME NEW a \in Entries, StartTask(a) PROVE Elsewhere
  BY <1>8 DEF StartTask, Elsewhere, targetVars, collectVars
<1>9. ASSUME NEW a \in Entries, ReturnTask(a) PROVE Elsewhere
  <2>1. Return(a)
    BY <1>9, Zenon DEF ReturnTask, ReturnUntouched, ReturnPanic, ReturnResolved,
                       ReturnUnresolved
  <2> QED BY <2>1 DEF Return, Elsewhere, targetVars, collectVars
<1>10. CASE ClientHangsUp \/ ProcessExits \/ UNCHANGED vars
  BY <1>10 DEF ClientHangsUp, ProcessExits, vars, Elsewhere, targetVars, collectVars
<1> QED BY <1>1, <1>2, <1>3, <1>4, <1>5, <1>6, <1>7, <1>8, <1>9, <1>10
        DEF Next, Handler

\* What the channel lists after a send and after a receive.
LEMMA ListedAppend ==
  ASSUME TypeOK, NEW t \in Targets, results' = Append(results, t), NEW u
  PROVE  Listed(u)' <=> Listed(u) \/ u = t
<1>1. /\ Len(results) \in Nat /\ DOMAIN results = 1 .. Len(results)
      /\ DOMAIN results' = 1 .. Len(results) + 1
      /\ \A i \in 1 .. Len(results) : results'[i] = results[i]
      /\ results'[Len(results) + 1] = t
  BY DEF TypeOK
<1> QED BY <1>1 DEF Listed

LEMMA ListedTail ==
  ASSUME TypeOK, results # << >>, results' = Tail(results), NEW u
  PROVE  Listed(u) <=> Listed(u)' \/ u = Head(results)
<1>1. /\ Len(results) \in Nat \ {0} /\ DOMAIN results = 1 .. Len(results)
      /\ DOMAIN results' = 1 .. Len(results) - 1
      /\ \A i \in 1 .. Len(results) - 1 : results'[i] = results[i + 1]
      /\ Head(results) = results[1]
  BY DEF TypeOK
<1>2. Listed(u) => Listed(u)' \/ u = Head(results)
  <2> SUFFICES ASSUME NEW i \in 1 .. Len(results), results[i] = u, i # 1
               PROVE  Listed(u)'
    BY <1>1 DEF Listed
  <2>1. i - 1 \in DOMAIN results' /\ results'[i - 1] = u
    BY <1>1
  <2> QED BY <2>1 DEF Listed
<1>3. Listed(u)' => Listed(u)
  <2> SUFFICES ASSUME NEW i \in 1 .. Len(results) - 1, results'[i] = u
               PROVE  Listed(u)
    BY <1>1 DEF Listed
  <2>1. i + 1 \in DOMAIN results /\ results[i + 1] = u
    BY <1>1
  <2> QED BY <2>1 DEF Listed
<1>4. u = Head(results) => Listed(u)
  BY <1>1 DEF Listed
<1> QED BY <1>2, <1>3, <1>4

LEMMA ResultsStep ==
  ASSUME TypeOK, TypeOK', ResultsAreFinished, [Next]_vars
  PROVE  ResultsAreFinished'
<1>1. CASE UNCHANGED <<tgt, results, collected>>
  BY <1>1 DEF ResultsAreFinished, Listed, Finished
<1>2. ASSUME NEW t \in Targets, Goes(t) PROVE ResultsAreFinished'
  <2>1. \A u \in Targets : Finished(u)' <=> Finished(u) \/ (u = t /\ Finished(t)')
    BY <1>2 DEF Goes, Finished
  <2>2. CASE results' = results /\ (Finished(t)' => Finished(t))
    BY <1>2, <2>1, <2>2 DEF Goes, ResultsAreFinished, Listed
  <2>3. CASE results' = Append(results, t) /\ Finished(t)'
    <3>1. \A u \in Targets : Listed(u)' <=> Listed(u) \/ u = t
      BY <2>3, ListedAppend
    <3> QED BY <1>2, <2>1, <2>3, <3>1 DEF Goes, ResultsAreFinished
  <2> QED BY <1>2, <2>2, <2>3 DEF Goes
<1>3. CASE Collect
  <2>1. \A u \in Targets : Listed(u) <=> Listed(u)' \/ u = Head(results)
    BY <1>3, ListedTail DEF Collect
  <2>2. tgt' = tgt /\ collected' = collected \cup {Head(results)}
    BY <1>3 DEF Collect, targetVars
  <2> QED BY <2>1, <2>2 DEF ResultsAreFinished, Finished
<1> QED BY <1>1, <1>2, <1>3, StepKinds
        DEF Elsewhere, ForwardBatch, GiveUp, targetVars, collectVars

LEMMA ShortStep ==
  ASSUME TypeOK, BatchInv, ResultsAreFinished, StillShort, [Next]_vars
  PROVE  StillShort'
<1> SUFFICES ASSUME pc' = "forwarding", collected' # {} PROVE ~Enough(collected)'
  BY DEF StillShort, Enough, Successes
<1>1. CASE ForwardBatch
  <2>1. ~Released
    BY <1>1 DEF ForwardBatch, BatchInv, AnsweredOnce, Released, NoReply
  <2>2. collected = {}
    BY <2>1 DEF BatchInv, Quiet, ResultsAreFinished, Finished, TypeOK
  <2> QED BY <1>1, <2>2 DEF ForwardBatch, collectVars
<1>2. CASE Collect
  BY <1>2 DEF Collect, Enough, Successes, targetVars
<1>3. CASE GiveUp
  BY <1>3 DEF GiveUp
<1>4. CASE Elsewhere
  BY <1>4 DEF Elsewhere, StillShort, Enough, Successes
<1>5. ASSUME NEW t \in Targets, Goes(t) PROVE ~Enough(collected)'
  <2>1. \A u \in collected : u \in Targets /\ Finished(u)
    BY DEF ResultsAreFinished, TypeOK
  <2>2. \A u \in collected : tgt'[u] = tgt[u]
    BY <1>5, <2>1 DEF Goes
  <2>3. {u \in collected' : tgt'[u] = "ok"} = {u \in collected : tgt[u] = "ok"}
    BY <1>5, <2>2 DEF Goes
  <2> QED BY <1>5, <2>3 DEF Goes, StillShort, Enough, Successes
<1> QED BY <1>1, <1>2, <1>3, <1>4, <1>5, StepKinds

LEMMA GaveUpStep ==
  ASSUME TypeOK, TypeOK', BatchInv, BatchInv', ResultsAreFinished, StillShort,
         GaveUpMeansExhausted, [Next]_vars
  PROVE  GaveUpMeansExhausted'
<1> SUFFICES ASSUME reply'.metric = "forward_failed"
             PROVE  /\ \A t \in Targets : Finished(t)'
                    /\ Successes(Targets)' < MinSuccess
  BY DEF GaveUpMeansExhausted, Finished, BatchInv, Attempts, AttemptOK
<1>1. CASE GiveUp
  <2>1. \A t \in Targets : Finished(t) /\ ~Listed(t)
    BY <1>1 DEF GiveUp, Closed, Listed
  <2>2. collected = Targets
    BY <2>1 DEF ResultsAreFinished, TypeOK
  <2>3. ~Enough(Targets)
    BY <1>1, <2>2, BatchAssumption DEF GiveUp, StillShort, BatchAssumption
  <2>4. Successes(Targets) \in Nat
    BY BatchAssumption, FS_Subset, FS_CardinalityType DEF BatchAssumption, Successes
  <2>5. tgt' = tgt
    BY <1>1 DEF GiveUp, targetVars
  <2> QED BY <2>1, <2>3, <2>4, <2>5, BatchAssumption
          DEF BatchAssumption, Enough, Successes, Finished
<1>2. CASE reply' = reply
  <2>1. /\ \A t \in Targets : Finished(t)
        /\ Successes(Targets) < MinSuccess
    BY <1>2 DEF GaveUpMeansExhausted, Finished
  <2>2. \A t \in Targets : tgt'[t] = tgt[t]
    BY <2>1, StepKinds DEF Elsewhere, Goes, ForwardBatch, Collect, GiveUp, targetVars
  <2>3. {t \in Targets : tgt'[t] = "ok"} = {t \in Targets : tgt[t] = "ok"}
    BY <2>2
  <2> QED BY <2>1, <2>2, <2>3 DEF Successes, Finished
<1>3. ForwardBatch => reply' = reply
  BY DEF ForwardBatch
<1>4. Collect => reply' = reply
  BY DEF Collect, Reply
<1>5. \A t \in Targets : Goes(t) => reply' = reply
  BY DEF Goes
<1> QED BY <1>1, <1>2, <1>3, <1>4, <1>5, StepKinds DEF Elsewhere

\* Deliverable keeps exactly what a target does not refuse.
LEMMA KeptIsLabelled ==
  ASSUME TypeOK, NEW a \in Entries
  PROVE  Deliverable(a) <=> LabelsOf(a) = "some"
BY DEF TypeOK, AlertKind, Deliverable, LabelsOf

\* So nobody answers that the batch is refused.
LEMMA NobodyRefuses ==
  ASSUME TypeOK, BatchInv
  PROVE  "refused" \notin Responses
<1>1. \A a \in payload : LabelsOf(a) = "some"
  BY KeptIsLabelled DEF BatchInv, Enrichment, TypeOK
<1> QED BY <1>1 DEF Responses

LEMMA EnrichedStands ==
  ASSUME TypeOK, BatchInv, [Next]_vars, Released
  PROVE  enriched' = enriched
<1>1. ASSUME NEW a \in Entries, ReturnTask(a) PROVE FALSE
  <2>1. Return(a)
    BY <1>1, Zenon DEF ReturnTask, ReturnUntouched, ReturnPanic, ReturnResolved,
                       ReturnUnresolved
  <2> QED BY <2>1 DEF Return, BatchInv, ReleasedClean, AllReturned
<1>2. ASSUME NEW a \in Entries, StartTask(a) PROVE enriched' = enriched
  BY <1>2 DEF StartTask
<1>3. ASSUME NEW t \in Targets,
             Attempt(t) \/ TargetHandles(t) \/ TargetHandlesLate(t)
               \/ AttemptSucceeds(t) \/ AttemptFails(t)
      PROVE  enriched' = enriched
  BY <1>3 DEF Attempt, TargetHandles, TargetHandlesLate, AttemptSucceeds,
              AttemptFails, enrichVars
<1>4. CASE Handler
  BY <1>4 DEF Handler, RejectBody, Decode, RefuseBatch, ForwardBatch, Collect, GiveUp,
              enrichVars
<1>5. CASE ClientHangsUp \/ ProcessExits \/ UNCHANGED vars
  BY <1>5 DEF ClientHangsUp, ProcessExits, vars, enrichVars
<1> QED BY <1>1, <1>2, <1>3, <1>4, <1>5 DEF Next

\* Only a target's answer, of those it may give, is new on the wire.
LEMMA WireStep ==
  ASSUME TypeOK, [Next]_vars, NEW u \in Targets
  PROVE  wire'[u] \in {wire[u], "sent", "none"} \cup Responses
<1>1. ASSUME NEW t \in Targets, Attempt(t) \/ AttemptSucceeds(t) \/ AttemptFails(t)
      PROVE  wire'[u] \in {wire[u], "sent", "none"}
  BY <1>1 DEF Attempt, AttemptSucceeds, AttemptFails, TypeOK
<1>2. ASSUME NEW t \in Targets, TargetHandles(t) PROVE wire'[u] \in {wire[u]} \cup Responses
  BY <1>2 DEF TargetHandles, TypeOK
<1>3. ASSUME NEW t \in Targets, TargetHandlesLate(t) PROVE wire' = wire
  BY <1>3 DEF TargetHandlesLate
<1>4. ASSUME NEW a \in Entries, StartTask(a) \/ ReturnTask(a) PROVE wire' = wire
  <2>1. CASE StartTask(a)
    BY <2>1 DEF StartTask, targetVars
  <2>2. CASE ReturnTask(a)
    <3>1. Return(a)
      BY <2>2, Zenon DEF ReturnTask, ReturnUntouched, ReturnPanic, ReturnResolved,
                         ReturnUnresolved
    <3> QED BY <3>1 DEF Return, targetVars
  <2> QED BY <1>4, <2>1, <2>2
<1>5. CASE Handler
  BY <1>5 DEF Handler, RejectBody, Decode, RefuseBatch, ForwardBatch, Collect, GiveUp,
              targetVars
<1>6. CASE ClientHangsUp \/ ProcessExits \/ UNCHANGED vars
  BY <1>6 DEF ClientHangsUp, ProcessExits, vars, targetVars
<1> QED BY <1>1, <1>2, <1>3, <1>4, <1>5, <1>6 DEF Next

LEMMA StrandedStep ==
  ASSUME TypeOK, TypeOK', BatchInv, NoneStranded, [Next]_vars
  PROVE  NoneStranded'
<1>1. \A t \in Targets : wire'[t] # "refused"
  BY WireStep, NobodyRefuses DEF NoneStranded
<1>2. CASE ForwardBatch
  <2>1. UNCHANGED <<kind, enriched>> /\ payload' = {a \in Entries : Deliverable(a)}
    BY <1>2 DEF ForwardBatch, enrichVars
  <2>2. \A a \in Entries : LabelsOf(a)' = "some" => a \in payload'
    BY <2>1, KeptIsLabelled DEF LabelsOf
  <2> QED BY <1>1, <2>2 DEF NoneStranded
<1>3. CASE ~ForwardBatch
  <2>1. (Released' => Released) /\ UNCHANGED <<kind, payload>>
    BY <1>3, StepKinds DEF Released, Elsewhere, Goes, Collect, GiveUp, Reply
  <2> QED BY <1>1, <2>1, EnrichedStands DEF NoneStranded, LabelsOf
<1> QED BY <1>2, <1>3

LEMMA ForwardInvariance == Spec => []ForwardInv
<1>1. Init => ForwardInv
  <2> SUFFICES ASSUME Init PROVE ForwardInv
    OBVIOUS
  <2>1. ResultsAreFinished
    BY DEF Init, ResultsAreFinished, Finished, Listed
  <2>2. StillShort /\ GaveUpMeansExhausted /\ NoneStranded
    BY DEF Init, StillShort, GaveUpMeansExhausted, NoneStranded, Released, NoReply
  <2> QED BY <2>1, <2>2 DEF ForwardInv
<1>2. TypeOK /\ TypeOK' /\ BatchInv /\ BatchInv' /\ ForwardInv /\ [Next]_vars
        => ForwardInv'
  BY ResultsStep, ShortStep, GaveUpStep, StrandedStep DEF ForwardInv
<1> QED BY <1>1, <1>2, Invariance, PTL DEF Spec

\* "forward_failed" is answered only when no attempt is left that could still
\* have made the batch a success.
THEOREM GivingUpIsFinal == Spec => []GaveUpMeansExhausted
<1>1. ForwardInv => GaveUpMeansExhausted
  BY DEF ForwardInv
<1> QED BY <1>1, ForwardInvariance, PTL

\* Every alert that has labels once it is enriched is in the batch that is
\* released, and no target refuses that batch for what is in it, whatever the
\* entries of the request are.
THEOREM NoAlertIsStranded == Spec => []NoneStranded
<1>1. ForwardInv => NoneStranded
  BY DEF ForwardInv
<1> QED BY <1>1, ForwardInvariance, PTL

-----------------------------------------------------------------------------
(* Refinement *)

\* The handler with its goroutines, the targets and the network implements
\* Delivery: every step is a step of Delivery or leaves its variables alone.
THEOREM BatchImplementsDelivery == Spec => ImplementsDelivery
<1> USE DEF D!Init, D!Next, D!Spec, D!dvars, ImplementsDelivery
<1>1. Init => D!Init
  BY DEF Init, Verdict, NoReply, Released, Holders
<1>2. TypeOK /\ TypeOK' /\ BatchInv /\ BatchInv' /\ [Next]_vars => [D!Next]_(D!dvars)
  <2> SUFFICES ASSUME TypeOK, TypeOK', BatchInv, BatchInv', [Next]_vars
               PROVE  [D!Next]_(D!dvars)
    OBVIOUS
  <2>0. reply = NoReply <=> pc # "answered"
    BY DEF BatchInv, AnsweredOnce
  <2>1. CASE RejectBody
    <3>1. reply = NoReply /\ reply'.metric \notin {"ok", "forward_failed"}
            /\ reply' # NoReply /\ pc' = "answered"
      BY <2>0, <2>1 DEF RejectBody, Reply, NoReply, Bodies, TypeOK
    <3>2. Released = FALSE /\ Released' = FALSE /\ Verdict = "pending" /\ Verdict' = "refused"
      BY <2>1, <3>1 DEF RejectBody, Released, Verdict, NoReply
    <3>3. Holders' = Holders
      BY <2>1 DEF RejectBody, targetVars, Holders
    <3> QED BY <3>2, <3>3 DEF D!Refuse
  <2>2. CASE RefuseBatch
    <3>1. reply = NoReply /\ reply' # NoReply /\ reply'.metric = "required_failed"
      BY <2>0, <2>2 DEF RefuseBatch, Reply, NoReply
    <3>2. Released = FALSE /\ Released' = FALSE /\ Verdict = "pending" /\ Verdict' = "refused"
      BY <2>2, <3>1 DEF RefuseBatch, Released, Verdict, NoReply
    <3>3. Holders' = Holders
      BY <2>2 DEF RefuseBatch, targetVars, Holders
    <3> QED BY <3>2, <3>3 DEF D!Refuse
  <2>3. CASE ForwardBatch
    <3>1. reply = NoReply /\ reply' = reply
      BY <2>0, <2>3 DEF ForwardBatch
    <3>2. Released = FALSE /\ Released' = TRUE /\ Verdict = "pending" /\ Verdict' = Verdict
      BY <2>3, <3>1 DEF ForwardBatch, Released, Verdict, NoReply
    <3>3. Holders' = Holders
      BY <2>3 DEF ForwardBatch, targetVars, Holders
    <3> QED BY <3>2, <3>3 DEF D!Release
  <2>4. CASE Collect
    <3>1. reply = NoReply /\ Released = TRUE /\ Verdict = "pending"
      BY <2>0, <2>4 DEF Collect, Released, Verdict, NoReply
    <3>2. Holders' = Holders
      BY <2>4 DEF Collect, targetVars, Holders
    <3>3. CASE Enough(collected')
      <4>1. reply'.metric = "ok" /\ reply' # NoReply
        BY <2>4, <3>3 DEF Collect, Reply, NoReply
      <4>2. Released' = TRUE /\ Verdict' = "acked"
        BY <4>1 DEF Released, Verdict
      <4>3. Holders \in Quorums
        <5>1. Cardinality(Holders') >= MinSuccess
          BY <4>1 DEF BatchInv, AckMeansAccepted
        <5> QED BY <3>2, <5>1 DEF Quorums, Holders
      <4>4. D!Ack
        BY <3>1, <3>2, <4>2, <4>3 DEF D!Ack
      <4> QED BY <4>4
    <3>4. CASE ~Enough(collected')
      BY <2>4, <3>1, <3>2, <3>4 DEF Collect, Released, Verdict
    <3> QED BY <3>3, <3>4
  <2>5. CASE GiveUp
    <3>1. reply = NoReply /\ reply'.metric = "forward_failed" /\ reply' # NoReply
      BY <2>0, <2>5 DEF GiveUp, Reply, NoReply
    <3>2. Released = TRUE /\ Released' = TRUE /\ Verdict = "pending" /\ Verdict' = "failed"
      BY <2>5, <3>1 DEF GiveUp, Released, Verdict, NoReply
    <3>3. Holders' = Holders
      BY <2>5 DEF GiveUp, targetVars, Holders
    <3> QED BY <3>2, <3>3 DEF D!Fail
  <2>6. CASE Decode \/ (\E a \in Entries : StartTask(a) \/ ReturnTask(a))
    <3>1. reply = NoReply /\ reply' = reply /\ accepted' = accepted
            /\ pc # "forwarding" /\ pc' # "forwarding"
      <4>1. CASE Decode
        BY <2>0, <4>1 DEF Decode, targetVars
      <4>2. ASSUME NEW a \in Entries, StartTask(a)
            PROVE  reply = NoReply /\ reply' = reply /\ accepted' = accepted
                     /\ pc # "forwarding" /\ pc' # "forwarding"
        BY <2>0, <4>2 DEF StartTask, targetVars
      <4>3. ASSUME NEW a \in Entries, ReturnTask(a)
            PROVE  reply = NoReply /\ reply' = reply /\ accepted' = accepted
                     /\ pc # "forwarding" /\ pc' # "forwarding"
        <5>1. Return(a)
          BY <4>3, Zenon DEF ReturnTask, ReturnUntouched, ReturnPanic,
                             ReturnResolved, ReturnUnresolved
        <5>2. pc # "forwarding"
          BY <5>1 DEF Return, BatchInv, ReleasedClean, AllReturned, Released
        <5>3. pc # "answered"
          BY <5>1 DEF Return, BatchInv, Joined, AllReturned
        <5> QED BY <2>0, <5>1, <5>2, <5>3 DEF Return, targetVars
      <4> QED BY <2>6, <4>1, <4>2, <4>3
    <3> QED BY <3>1 DEF Released, Verdict, Holders
  <2>7. ASSUME NEW t \in Targets,
               Attempt(t) \/ TargetHandles(t) \/ TargetHandlesLate(t)
                 \/ AttemptSucceeds(t) \/ AttemptFails(t)
        PROVE  [D!Next]_(D!dvars)
    <3>1. Released' = Released /\ Verdict' = Verdict
      BY <2>7 DEF Attempt, TargetHandles, TargetHandlesLate, AttemptSucceeds,
                  AttemptFails, Released, Verdict
    <3>2. CASE Holders' = Holders
      BY <3>1, <3>2
    <3>3. CASE Holders' # Holders
      <4>1. Released
        BY <2>7, <3>3 DEF Attempt, TargetHandles, TargetHandlesLate, InFlight,
                  AttemptSucceeds, AttemptFails, BatchInv, Quiet, Holders
      <4>2. Holders' = Holders \cup {t}
        <5>1. accepted' = accepted \/ accepted' = [accepted EXCEPT ![t] = @ + 1]
          BY <2>7 DEF Attempt, TargetHandles, TargetHandlesLate,
                      AttemptSucceeds, AttemptFails
        <5>2. accepted' = [accepted EXCEPT ![t] = @ + 1]
          BY <3>3, <5>1 DEF Holders
        <5>3. accepted \in [Targets -> Nat] /\ accepted[t] + 1 > 0
          BY DEF TypeOK
        <5> QED BY <5>2, <5>3 DEF Holders
      <4> QED BY <3>1, <4>1, <4>2 DEF D!Hold
    <3> QED BY <3>2, <3>3
  <2>8. CASE ClientHangsUp \/ ProcessExits \/ UNCHANGED vars
    <3>1. UNCHANGED <<pc, accepted, reply>>
      BY <2>8 DEF ClientHangsUp, ProcessExits, vars, targetVars
    <3> QED BY <3>1 DEF Released, Verdict, Holders
  <2> QED BY <2>1, <2>2, <2>3, <2>4, <2>5, <2>6, <2>7, <2>8 DEF Next, Handler
<1> QED BY <1>1, <1>2, Invariance, PTL DEF Spec
=============================================================================
