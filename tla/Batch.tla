------------------------------- MODULE Batch --------------------------------
(***************************************************************************)
(* The life of one POST /api/v2/alerts in internal/proxy/proxy.go: the     *)
(* handler decodes the batch, enriches its alerts on an errgroup of at     *)
(* most MaxConcurrency goroutines, filters out what Alertmanager would     *)
(* refuse, and fans the payload out to one goroutine per target.  It       *)
(* answers as soon as MinSuccess targets took the batch; the rest go on    *)
(* in the background.  The network may lose a request, deliver it after    *)
(* the attempt was given up, or lose its response; the client may hang up  *)
(* and the process may exit at any moment.  A target refuses the entire    *)
(* POST for one alert in it that has no labels.                            *)
(*                                                                         *)
(* An alert is abstracted to what Apply and Deliverable tell apart (its    *)
(* AlertKind); the rule language itself is module Engine's subject.  The   *)
(* definitions commented "Mutant" are deliberate faults no action uses.    *)
(***************************************************************************)
EXTENDS Integers, Sequences, FiniteSets

CONSTANTS Size,             \* number of entries in the POST body
          Kinds,            \* the kinds of entry a body may hold
          Targets,          \* goroutines of forward, one per configured target
          MinSuccess,       \* forward.minSuccess, after applyDefaults
          Retries,          \* forward.retries
          MaxConcurrency    \* enrichment.maxConcurrency

\* What decides an entry's fate.  labels: the entry is JSON null, has no
\* labels, has some, or has a labels field of the wrong type.  annotations:
\* likewise.  rule: no lookup applies to it, an optional one, a required one.
\* panics: some bug makes Apply panic on it.
AlertKind == [labels : {"null", "none", "some", "bad"},
              annotations : {"ok", "bad"},
              rule : {"none", "optional", "required"},
              panics : BOOLEAN]

\* config.Validate rejects an empty target list, negative retries and a
\* negative maxConcurrency, and a minSuccess above the number of targets; it
\* has no lower bound for minSuccess, which applyDefaults only keeps from 0.
ASSUME BatchAssumption ==
  /\ Size \in Nat
  /\ Kinds \subseteq AlertKind
  /\ IsFiniteSet(Targets) /\ Targets # {}
  /\ MinSuccess \in Int \ {0} /\ MinSuccess <= Cardinality(Targets)
  /\ Retries \in Nat
  /\ MaxConcurrency \in Nat

Entries == 1 .. Size

Bodies == {"ok", "unreadable", "too large", "not json"}

VARIABLES
  kind,        \* the entries of the body
  body,        \* what reading and decoding the body gives
  pc,          \* control point of handleAlerts
  task,        \* the errgroup goroutine of each entry
  enriched,    \* entries whose lookup set its label
  failed,      \* the errgroup's first error: a RequiredFailure
  payload,     \* entries in the encoded batch
  tgt,         \* state of each target's forwardOne
  tries,       \* attempts started for each target
  wire,        \* the current attempt: what the target has answered, if anything
  stale,       \* given-up attempts the target may still receive
  accepted,    \* times each target accepted the batch
  results,     \* the buffered channel of finished targets
  collected,   \* targets whose result the handler has received
  reply,       \* what the handler answered
  clientGone,  \* the sender closed the connection
  up           \* the process is running

enrichVars  == <<task, enriched, failed>>
targetVars  == <<tgt, tries, wire, stale, accepted>>
collectVars == <<results, collected>>
vars == <<kind, body, pc, task, enriched, failed, payload, tgt, tries, wire,
          stale, accepted, results, collected, reply, clientGone, up>>

\* Nothing has been answered yet.  A handler always has a State, since runServe
\* listens only once there is one (the 503 of proxy.go:109-112), and what was
\* decoded from JSON can be encoded again (the 500 of proxy.go:163-167).
NoReply == [status |-> "none", metric |-> "none"]

\* A reply: its HTTP status ("2xx" stands for the accepting target's own
\* status) and the result label of ale_alerts_forwarded_total.
Reply(s, m) == [status |-> s, metric |-> m]
Replies == [status : {"none", "2xx", "400", "413", "502", "503"},
            metric : {"none", "decode_error", "required_failed",
                      "forward_failed", "ok"}]

-----------------------------------------------------------------------------
(* Alerts *)

Malformed(a) == kind[a].labels = "null"

\* Apply returns an error, which enrich swallows, before any rule is looked at.
Unreadable(a) == kind[a].labels = "bad" \/ kind[a].annotations = "bad"

\* Mutant: alerts whose labels can be read are kept, be there any or not.
DeliverableReadable(a) == kind[a].labels \notin {"null", "bad"}

\* alert.Deliverable: it re-reads only the labels, after enrichment.
Deliverable(a) ==
  /\ kind[a].labels \notin {"null", "bad"}
  /\ kind[a].labels = "some" \/ a \in enriched

\* The labels of an alert as they are after enrichment, and are encoded.
LabelsOf(a) ==
  IF kind[a].labels = "none" /\ a \in enriched THEN "some" ELSE kind[a].labels

Running == {a \in Entries : task[a] = "running"}

\* Mutant: a goroutine that returns does not give its slot back.
HasSlotLeak ==
  MaxConcurrency > 0 =>
    Cardinality({a \in Entries : task[a] \in {"running", "returned"}}) < MaxConcurrency

\* errgroup.SetLimit: g.Go blocks the handler while the group is full.
HasSlot == MaxConcurrency > 0 => Cardinality(Running) < MaxConcurrency

AllReturned == \A a \in Entries : task[a] \in {"none", "returned"}

\* Mutant: the RequiredFailure is swallowed like any other error.
FailsNothing(a) == FALSE

\* Apply returns a RequiredFailure when the lookup of this alert gives nothing.
FailsBatch(a) == kind[a].rule = "required"

\* Mutant: the error of g.Wait is only logged.
NeverAborted == FALSE

\* handleAlerts recognises g.Wait's error as a RequiredFailure.
Aborted == failed

(* Targets *)

\* forward has been called: the targets' goroutines exist.
Released == pc = "forwarding" \/ reply.metric \in {"forward_failed", "ok"}

\* Mutant: the goroutines end with the handler that started them.
SendingUntilReply(t) == pc = "forwarding"

\* The goroutine of t may start an attempt: its context is detached from the
\* request's.
Sending(t) == Released

\* Mutant: any response counts, whatever its status.
SuccessAnyStatus(w) == w \in {"accepted", "rejected", "refused"}

Success(w) == w = "accepted"

\* Mutants: the attempts run under the request's own context; one retry more.
TriesLeftUntilHangup(t) == tries[t] <= Retries /\ ~clientGone
TriesLeftOneMore(t) == tries[t] <= Retries + 1

TriesLeft(t) == tries[t] <= Retries

\* What a target may answer.  Alertmanager refuses a POST with an alert in it
\* that is not one or carries no labels (alert.go:121-125); it may reject any,
\* while it is overloaded, say.
Responses ==
  IF \E a \in payload : LabelsOf(a) # "some" THEN {"refused", "rejected"}
                                            ELSE {"accepted", "rejected"}

\* A request the enricher has given up on is still in the network.
InFlight(t) == stale[t] > 0

Finished(t) == tgt[t] \in {"ok", "failed"}

\* Mutant: an empty channel is taken for a closed one.
ClosedWhenEmpty == TRUE

\* wg.Wait has returned: the results channel is closed.
Closed == \A t \in Targets : Finished(t)

\* Mutant: a failed target counts too.
SuccessesAnyResult(C) == Cardinality(C)

\* The successes among the results of the targets in C.
Successes(C) == Cardinality({t \in C : tgt[t] = "ok"})

\* Mutant: the loop waits for every target.
EnoughAll(C) == C = Targets

Enough(C) == Successes(C) >= MinSuccess

-----------------------------------------------------------------------------
Init ==
  /\ kind \in [Entries -> Kinds]
  /\ body \in Bodies
  /\ pc = "reading"
  /\ task = [a \in Entries |-> "none"]
  /\ enriched = {}
  /\ failed = FALSE
  /\ payload = {}
  /\ tgt = [t \in Targets |-> "idle"]
  /\ tries = [t \in Targets |-> 0]
  /\ wire = [t \in Targets |-> "none"]
  /\ stale = [t \in Targets |-> 0]
  /\ accepted = [t \in Targets |-> 0]
  /\ results = << >>
  /\ collected = {}
  /\ reply = NoReply
  /\ clientGone = FALSE
  /\ up = TRUE

\* The body cannot be read, exceeds maxBodyBytes or is not a JSON array.
RejectBody ==
  /\ up /\ pc = "reading" /\ body # "ok"
  /\ reply' = CASE body = "unreadable" -> Reply("400", "none")
                [] body = "too large"  -> Reply("413", "none")
                [] body = "not json"   -> Reply("400", "decode_error")
  /\ pc' = "answered"
  /\ UNCHANGED <<kind, body, payload, enrichVars, targetVars, collectVars,
                 clientGone, up>>

\* DecodeBatch drops the null entries; the others are queued for the errgroup.
Decode ==
  /\ up /\ pc = "reading" /\ body = "ok"
  /\ task' = [a \in Entries |-> IF Malformed(a) THEN "none" ELSE "queued"]
  /\ pc' = "enriching"
  /\ UNCHANGED <<kind, body, enriched, failed, payload, targetVars,
                 collectVars, reply, clientGone, up>>

\* g.Go, called in batch order.
StartTask(a) ==
  /\ up /\ pc = "enriching"
  /\ task[a] = "queued" /\ \A b \in Entries : b < a => task[b] # "queued"
  /\ HasSlot
  /\ task' = [task EXCEPT ![a] = "running"]
  /\ UNCHANGED <<kind, body, pc, enriched, failed, payload, targetVars,
                 collectVars, reply, clientGone, up>>

Return(a) ==
  /\ up /\ task[a] = "running"
  /\ task' = [task EXCEPT ![a] = "returned"]
  /\ UNCHANGED <<kind, body, pc, payload, targetVars, collectVars, reply,
                 clientGone, up>>

\* The alert is left as it is: its labels or annotations cannot be read, or
\* no rule with a lookup applies to it.
ReturnUntouched(a) ==
  /\ Unreadable(a) \/ (kind[a].rule = "none" /\ ~kind[a].panics)
  /\ Return(a)
  /\ UNCHANGED <<enriched, failed>>

\* The recovered panic: the alert goes on in whatever state it reached.
ReturnPanic(a) ==
  /\ kind[a].panics /\ ~Unreadable(a)
  /\ Return(a)
  /\ enriched' \in {enriched, enriched \cup {a}}
  /\ UNCHANGED failed

\* The lookup gave a value.  A warm cache or an informer answers even when the
\* group's context is done, so cancellation does not disable this step.
ReturnResolved(a) ==
  /\ kind[a].rule # "none" /\ ~kind[a].panics /\ ~Unreadable(a)
  /\ Return(a)
  /\ enriched' = enriched \cup {a}
  /\ UNCHANGED failed

\* The lookup gave an error (the deadline and the client's hang-up included)
\* or no value: harmless for an optional rule, a RequiredFailure otherwise.
ReturnUnresolved(a) ==
  /\ kind[a].rule # "none" /\ ~kind[a].panics /\ ~Unreadable(a)
  /\ Return(a)
  /\ failed' = (failed \/ FailsBatch(a))
  /\ UNCHANGED enriched

ReturnTask(a) == \/ ReturnUntouched(a) \/ ReturnPanic(a)
                 \/ ReturnResolved(a) \/ ReturnUnresolved(a)

\* g.Wait returned a RequiredFailure: fail closed.
RefuseBatch ==
  /\ up /\ pc = "enriching" /\ AllReturned /\ Aborted
  /\ reply' = Reply("503", "required_failed")
  /\ pc' = "answered"
  /\ UNCHANGED <<kind, body, payload, enrichVars, targetVars, collectVars,
                 clientGone, up>>

\* g.Wait returned nil: filter, encode, and start one goroutine per target.
ForwardBatch ==
  /\ up /\ pc = "enriching" /\ AllReturned /\ ~Aborted
  /\ payload' = {a \in Entries : Deliverable(a)}
  /\ pc' = "forwarding"
  /\ UNCHANGED <<kind, body, enrichVars, targetVars, collectVars, reply,
                 clientGone, up>>

-----------------------------------------------------------------------------
(* forwardOne / forwardAttempt of target t, and target t itself *)

\* Start the next attempt, at once or after the retry backoff.
Attempt(t) ==
  /\ up /\ Sending(t) /\ tgt[t] \in {"idle", "backoff"}
  /\ tgt' = [tgt EXCEPT ![t] = "sending"]
  /\ tries' = [tries EXCEPT ![t] = @ + 1]
  /\ wire' = [wire EXCEPT ![t] = "sent"]
  /\ UNCHANGED <<kind, body, pc, enrichVars, payload, stale, accepted,
                 collectVars, reply, clientGone, up>>

\* The target handles the request of the current attempt.
TargetHandles(t) ==
  /\ wire[t] = "sent"
  /\ \E response \in Responses :
       /\ wire' = [wire EXCEPT ![t] = response]
       /\ accepted' = IF response = "accepted" THEN [accepted EXCEPT ![t] = @ + 1]
                                               ELSE accepted
  /\ UNCHANGED <<kind, body, pc, enrichVars, payload, tgt, tries, stale,
                 collectVars, reply, clientGone, up>>

\* A request its attempt has given up on reaches the target, or is lost.
TargetHandlesLate(t) ==
  /\ InFlight(t)
  /\ stale' = [stale EXCEPT ![t] = @ - 1]
  /\ \/ UNCHANGED accepted
     \/ "accepted" \in Responses /\ accepted' = [accepted EXCEPT ![t] = @ + 1]
  /\ UNCHANGED <<kind, body, pc, enrichVars, payload, tgt, tries, wire,
                 collectVars, reply, clientGone, up>>

\* A 2xx response arrives in time.
AttemptSucceeds(t) ==
  /\ up /\ tgt[t] = "sending" /\ Success(wire[t])
  /\ tgt' = [tgt EXCEPT ![t] = "ok"]
  /\ wire' = [wire EXCEPT ![t] = "none"]
  /\ results' = Append(results, t)
  /\ UNCHANGED <<kind, body, pc, enrichVars, payload, tries, stale, accepted,
                 collected, reply, clientGone, up>>

\* A non-2xx response, a transport error, or forward.timeout: the request may
\* still be on its way, or have been accepted.  forwardOne tries again, or
\* hands its error to the results channel.
AttemptFails(t) ==
  /\ up /\ tgt[t] = "sending"
  /\ stale' = IF wire[t] = "sent" THEN [stale EXCEPT ![t] = @ + 1] ELSE stale
  /\ wire' = [wire EXCEPT ![t] = "none"]
  /\ \/ /\ TriesLeft(t)
        /\ tgt' = [tgt EXCEPT ![t] = "backoff"]
        /\ UNCHANGED results
     \/ /\ ~TriesLeft(t)
        /\ tgt' = [tgt EXCEPT ![t] = "failed"]
        /\ results' = Append(results, t)
  /\ UNCHANGED <<kind, body, pc, enrichVars, payload, tries, accepted,
                 collected, reply, clientGone, up>>

-----------------------------------------------------------------------------
(* The receiving loop of forward *)

\* One result is received, and the loop ends if that is enough.  lastStatus is
\* 502 until a success is received.
Collect ==
  /\ up /\ pc = "forwarding" /\ results # << >>
  /\ results' = Tail(results)
  /\ collected' = collected \cup {Head(results)}
  /\ \/ /\ Enough(collected')
        /\ reply' = Reply(IF Successes(collected') > 0 THEN "2xx" ELSE "502", "ok")
        /\ pc' = "answered"
     \/ /\ ~Enough(collected')
        /\ UNCHANGED <<reply, pc>>
  /\ UNCHANGED <<kind, body, enrichVars, payload, targetVars, clientGone, up>>

\* The channel is closed and drained without MinSuccess successes.
GiveUp ==
  /\ up /\ pc = "forwarding" /\ results = << >> /\ Closed
  /\ reply' = Reply("502", "forward_failed")
  /\ pc' = "answered"
  /\ UNCHANGED <<kind, body, enrichVars, payload, targetVars, collectVars,
                 clientGone, up>>

-----------------------------------------------------------------------------
(* Environment *)

\* net/http cancels the request's context when the client hangs up.
ClientHangsUp ==
  /\ ~clientGone /\ reply = NoReply
  /\ clientGone' = TRUE
  /\ UNCHANGED <<kind, body, pc, enrichVars, payload, targetVars, collectVars,
                 reply, up>>

\* SIGTERM: ListenAndServe returns at once and main with it; or a crash.
ProcessExits ==
  /\ up
  /\ up' = FALSE
  /\ UNCHANGED <<kind, body, pc, enrichVars, payload, targetVars, collectVars,
                 reply, clientGone>>

Handler == RejectBody \/ Decode \/ RefuseBatch \/ ForwardBatch \/ Collect \/ GiveUp

Next ==
  \/ Handler
  \/ \E a \in Entries : StartTask(a) \/ ReturnTask(a)
  \/ \E t \in Targets : \/ Attempt(t) \/ TargetHandles(t)
                        \/ TargetHandlesLate(t)
                        \/ AttemptSucceeds(t) \/ AttemptFails(t)
  \/ ClientHangsUp
  \/ ProcessExits

Spec == Init /\ [][Next]_vars

\* The Go scheduler runs every runnable goroutine.  Lookups end because every
\* source bounds them, attempts end because of forward.timeout.
EnrichFairness ==
  /\ WF_vars(Handler)
  /\ \A a \in Entries : WF_vars(StartTask(a)) /\ WF_vars(ReturnTask(a))

TargetFairness ==
  \A t \in Targets : /\ WF_vars(Attempt(t))
                     /\ WF_vars(AttemptSucceeds(t) \/ AttemptFails(t))

\* Nothing is assumed of the targets' goroutines: any of them may hang.
HandlerSpec == Spec /\ EnrichFairness

-----------------------------------------------------------------------------
(* Properties *)

TypeOK ==
  /\ kind \in [Entries -> AlertKind]
  /\ body \in Bodies
  /\ pc \in {"reading", "enriching", "forwarding", "answered"}
  /\ task \in [Entries -> {"none", "queued", "running", "returned"}]
  /\ enriched \subseteq Entries
  /\ failed \in BOOLEAN
  /\ payload \subseteq Entries
  /\ tgt \in [Targets -> {"idle", "sending", "backoff", "ok", "failed"}]
  /\ tries \in [Targets -> Nat]
  /\ wire \in [Targets -> {"none", "sent", "accepted", "rejected", "refused"}]
  /\ stale \in [Targets -> Nat]
  /\ accepted \in [Targets -> Nat]
  /\ results \in Seq(Targets)
  /\ collected \subseteq Targets
  /\ reply \in Replies
  /\ clientGone \in BOOLEAN
  /\ up \in BOOLEAN

Holders == {t \in Targets : accepted[t] > 0}

\* A 2xx answer counted as "ok" is given only when at least minSuccess targets
\* have accepted the batch, whatever was lost, retried or reordered.
AckMeansAccepted ==
  reply.metric = "ok" => Cardinality(Holders) >= MinSuccess

\* Once one required lookup has failed no target is ever sent the batch: the
\* RequiredFailure aborts it whole, and for good.
FailClosed == failed => \A t \in Targets : tries[t] = 0 /\ accepted[t] = 0

\* An alert is forwarded without the label of a required rule that applies to
\* it only when its annotations could not be read or Apply panicked on it.
RequiredLabelPresent ==
  \A a \in payload : kind[a].rule = "required" =>
    a \in enriched \/ kind[a].annotations = "bad" \/ kind[a].panics

\* No entry takes another one down with it (alert.go:120-125,
\* docs/configuration.md:286-302).  Whatever null, unlabelled, unreadable or
\* panicking entries there are, every alert that has labels once it is enriched
\* is in the batch that is released, those that came without any included; and
\* no target is ever sent a batch that it refuses for what is in it, which would
\* keep all of them from being delivered, now and in every retry.
NoneStranded ==
  /\ Released => \A a \in Entries : LabelsOf(a) = "some" => a \in payload
  /\ \A t \in Targets : wire[t] # "refused"

\* No goroutine of the errgroup is left once enrich has returned: nothing
\* changes an alert while it is filtered, encoded or on the wire.
EnrichmentJoined == pc \in {"forwarding", "answered"} => Running = {}

\* A target counts as failed only after forward.retries extra attempts, even
\* when the client hangs up or the handler has already answered.
FailedMeansExhausted ==
  \A t \in Targets : tgt[t] = "failed" => tries[t] = Retries + 1

\* "forward_failed" is answered only when every target has finished, fewer than
\* minSuccess of them successfully, and the others after all their retries: no
\* attempt is left that could still have made the batch a success.
GaveUpMeansExhausted ==
  reply.metric = "forward_failed" =>
    /\ \A t \in Targets : tgt[t] = "ok" \/ (tgt[t] = "failed" /\ tries[t] = Retries + 1)
    /\ Successes(Targets) < MinSuccess

CopiesOK(t) ==
  /\ accepted[t] + stale[t] + (IF wire[t] = "sent" THEN 1 ELSE 0) <= tries[t]
  /\ tries[t] <= Retries + 1

\* A target accepts the batch at most once per attempt made, requests that are
\* still on their way included: 1 + retries copies at the very most.
BoundedCopies == \A t \in Targets : CopiesOK(t)

\* Every request is answered if the attempts end, unless the process exits
\* first.
Answered == TargetFairness => <>(reply # NoReply \/ ~up)

\* Every target of a released batch is tried to the end, stragglers that the
\* reply did not wait for included, unless the process exits first.
StragglersFinish ==
  TargetFairness => (Released ~> (~up \/ \A t \in Targets : Finished(t)))

\* The reply waits for minSuccess successes and for nothing else: a target that
\* never answers does not hold it up.
PromptReply ==
  (pc = "forwarding" /\ Successes(Targets) >= MinSuccess)
    ~> (reply.metric = "ok" \/ ~up)

\* What the safety properties rest on, in parts.  The answer has been given
\* exactly in the last control point.
AnsweredOnce == pc = "answered" <=> reply # NoReply

\* Before forward is called no target's goroutine exists and nothing is sent.
Quiet ==
  ~Released => \A t \in Targets :
    /\ tgt[t] = "idle" /\ tries[t] = 0 /\ wire[t] = "none"
    /\ stale[t] = 0 /\ accepted[t] = 0

\* forward is called only with the errgroup joined and without a failure.
ReleasedClean ==
  /\ Released => pc # "reading" /\ AllReturned /\ ~failed
  /\ body # "ok" => pc \in {"reading", "answered"} /\ ~Released

\* The errgroup's goroutines live only while the handler is in enrich.
Joined == pc # "enriching" => AllReturned

\* An entry whose goroutine is over without its required label has failed the
\* batch; an entry without a goroutine is a null; the payload is joined.
Enrichment ==
  /\ body = "ok" /\ pc # "reading" => \A a \in Entries :
       /\ task[a] = "none" => Malformed(a)
       /\ task[a] = "returned" /\ kind[a].rule = "required" /\ ~kind[a].panics
            /\ ~Unreadable(a) => a \in enriched \/ failed
  /\ \A a \in payload : Released /\ Deliverable(a)

\* A success was preceded by an acceptance; attempts are counted in tries.
AttemptOK(t) ==
  /\ wire[t] # "none" => tgt[t] = "sending"
  /\ tgt[t] = "ok" \/ wire[t] = "accepted" => accepted[t] > 0
  /\ tgt[t] \in {"idle", "backoff"} => tries[t] <= Retries
  /\ tgt[t] = "failed" => tries[t] = Retries + 1
  /\ tgt[t] \in {"sending", "ok"} => tries[t] \in 1 .. Retries + 1

Attempts == \A t \in Targets : AttemptOK(t)

\* The inductive invariant.
BatchInv ==
  /\ AnsweredOnce
  /\ Quiet
  /\ ReleasedClean
  /\ Joined
  /\ Enrichment
  /\ Attempts
  /\ BoundedCopies
  /\ AckMeansAccepted

\* The sender's view of the batch.
Verdict ==
  CASE reply.metric = "ok" -> "acked"
    [] reply.metric = "forward_failed" -> "failed"
    [] reply = NoReply -> "pending"
    [] OTHER -> "refused"

\* At least minSuccess targets.
Quorums == {S \in SUBSET Targets : Cardinality(S) >= MinSuccess}

D == INSTANCE Delivery WITH verdict <- Verdict, released <- Released,
                            holders <- Holders

\* The handler, its errgroup and its target goroutines implement the delivery
\* promise of module Delivery.
ImplementsDelivery == D!Spec
=============================================================================
