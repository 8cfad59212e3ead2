---------------------------- MODULE StatusWriter ----------------------------
(***************************************************************************)
(* Status reporting in internal/crd/crd.go: Reconcile evaluates the        *)
(* EnrichmentRules of the informer cache and queues the verdicts for one   *)
(* background writer, which updates status.conditions[Ready] through the   *)
(* API server under optimistic concurrency.  Watchers share nothing but    *)
(* the API server: they belong to replicas, or to the generations of one   *)
(* process, of which an outgoing one is cancelled.                         *)
(*                                                                         *)
(* A rule is its spec's generation, its resource version and its Ready     *)
(* condition.  Evaluations of one watcher may overlap: every debounce      *)
(* timer runs OnChange on a goroutine of its own.  The definitions         *)
(* commented "Mutant" are deliberate faults no action uses.                *)
(***************************************************************************)
EXTENDS Naturals, FiniteSets

CONSTANTS Watchers, Rules,
          Scenarios,   \* what may be going on, and how much of it
          Overlap,     \* bound: evaluations of one watcher under way at once
          MaxSeen,     \* bound: versions that an outgoing watcher gets to see
          None

\* The watchers there are, those of them that a reload is about to replace, the
\* generations that each one's policy accepts; whether they have just started
\* or have long settled every status; and bounds on the evaluations under way,
\* the edits of specs and the errors of reconcileStatus.
Scenario == [watchers : SUBSET Watchers, outgoing : SUBSET Watchers,
             accepts : [Watchers -> SUBSET Nat], settled : BOOLEAN,
             overlap : 1 .. Overlap, edits : Nat, errors : Nat]

ASSUME StatusWriterAssumption ==
  /\ Scenarios \subseteq Scenario
  /\ \A s \in Scenarios : s.settled => \A w \in s.watchers : 0 \in s.accepts[w]
  /\ Overlap \in Nat /\ MaxSeen \in Nat

Evaluations == 1 .. Overlap
Condition == [gen : Nat, ok : BOOLEAN]
Object == [gen : Nat, rv : Nat, cond : Condition \cup {None}]
Objects == [Rules -> Object]
Evaluation == [objects : Objects, process : BOOLEAN]

ASSUME NoneAssumption == None \notin Condition \cup Objects \cup Evaluation

VARIABLES
  scenario,
  server,    \* the rules, at the API server
  errors,    \* errors of reconcileStatus so far
  cache,     \* the rules, in each watcher's informers
  live,      \* the watcher's informers run
  timer,     \* its debounce timer is armed
  applied,   \* the applyConfig that built it has called Reconcile
  eval,      \* its evaluations under way: the verdicts' objects, and whose context
  pending,   \* statusPending
  writers,   \* goroutines in writeStatuses; statusRunning while there is one
  detached,  \* the writer has applyConfig's context, not the generation's
  todo       \* objects of the writer's batch still to be written

vars == <<scenario, server, errors, cache, live, timer, applied, eval, pending, writers,
          detached, todo>>

Want(w, o) == [gen |-> o.gen, ok |-> o.gen \in scenario.accepts[w]]

\* Mutant: only the condition's status is compared.
DiffersInStatus(w, o) ==
  IF o.cond = None THEN TRUE ELSE o.cond.ok # Want(w, o).ok

\* apimeta.SetStatusCondition: the condition, as cached, is not the wanted one.
Differs(w, o) == o.cond # Want(w, o)

\* Mutant: a writer is started for every batch that replaces none.
StartsWriterIfEmpty(w) == pending[w] = None

StartsWriter(w) == writers[w] = 0

\* Mutant: the update is forced.
CurrentAlways(r, o) == TRUE

\* The API server accepts an update of the version it was read at.
Current(r, o) == server[r].rv = o.rv

\* The handlers of Start take every event for a change.
Wakes(w, r) == cache[w][r] # server[r]

\* The writer's context is done.
Stopped(w) == ~live[w] /\ ~detached[w]

Init ==
  /\ scenario \in Scenarios
  /\ server = [r \in Rules |-> [gen |-> 0, rv |-> 0, cond |->
                 IF scenario.settled THEN [gen |-> 0, ok |-> TRUE] ELSE None]]
  /\ errors = 0
  /\ cache = [w \in Watchers |-> server]
  /\ live = [w \in Watchers |-> w \in scenario.watchers]
  /\ timer = [w \in Watchers |-> ~scenario.settled /\ w \in scenario.watchers]
  /\ applied = [w \in Watchers |-> scenario.settled \/ w \notin scenario.watchers]
  /\ eval = [w \in Watchers |-> [e \in Evaluations |-> None]]
  /\ pending = [w \in Watchers |-> None]
  /\ writers = [w \in Watchers |-> 0]
  /\ detached = [w \in Watchers |-> FALSE]
  /\ todo = [w \in Watchers |-> {}]

-----------------------------------------------------------------------------
(* Evaluations *)

Begin(w, e, process) ==
  /\ e <= scenario.overlap /\ eval[w][e] = None
  /\ eval' = [eval EXCEPT ![w][e] = [objects |-> cache[w], process |-> process]]
  /\ UNCHANGED <<scenario, server, errors, cache, live, pending, writers, detached,
                 todo>>

\* applyConfig compiles, under the context of the process.
Apply(w, e) ==
  /\ ~applied[w]
  /\ Begin(w, e, TRUE)
  /\ applied' = [applied EXCEPT ![w] = TRUE]
  /\ UNCHANGED timer

\* The debounce timer runs OnChange, whether the generation is live or not.
OnChange(w, e) ==
  /\ timer[w]
  /\ Begin(w, e, FALSE)
  /\ timer' = [timer EXCEPT ![w] = FALSE]
  /\ UNCHANGED applied

\* queueStatusWrites: replace what waits, and start a writer if none runs.
Queue(w, e) ==
  /\ eval[w][e] # None
  /\ pending' = [pending EXCEPT ![w] = eval[w][e].objects]
  /\ \/ /\ StartsWriter(w)
        /\ writers' = [writers EXCEPT ![w] = @ + 1]
        /\ detached' = [detached EXCEPT ![w] = eval[w][e].process]
     \/ ~StartsWriter(w) /\ UNCHANGED <<writers, detached>>
  /\ eval' = [eval EXCEPT ![w][e] = None]
  /\ UNCHANGED <<scenario, server, errors, cache, live, timer, applied, todo>>

-----------------------------------------------------------------------------
(* writeStatuses *)

\* The next batch, or the end.
Take(w) ==
  /\ writers[w] > 0 /\ todo[w] = {}
  /\ \/ /\ pending[w] # None
        /\ todo' = [todo EXCEPT ![w] = {<<r, pending[w][r]>> : r \in Rules}]
        /\ pending' = [pending EXCEPT ![w] = None]
        /\ UNCHANGED writers
     \/ /\ pending[w] = None
        /\ writers' = [writers EXCEPT ![w] = @ - 1]
        /\ UNCHANGED <<todo, pending>>
  /\ UNCHANGED <<scenario, server, errors, cache, live, timer, applied, eval,
                 detached>>

\* The context is done: the rest of the batch is dropped.
Abandon(w) ==
  /\ todo[w] # {} /\ Stopped(w)
  /\ todo' = [todo EXCEPT ![w] = {}]
  /\ UNCHANGED <<scenario, server, errors, cache, live, timer, applied, eval,
                 pending, writers, detached>>

\* reconcileStatus: a success; nothing to change, or a conflict; an error, of the
\* API server or of conditions that cannot be read or encoded.  Nothing is tried
\* again.
Write(w) ==
  /\ ~Stopped(w)
  /\ \E d \in todo[w] :
       LET r == d[1]
           o == d[2]
       IN  /\ todo' = [todo EXCEPT ![w] = @ \ {d}]
           /\ \/ /\ Differs(w, o) /\ Current(r, o)
                 /\ server' = [server EXCEPT ![r].cond = Want(w, o), ![r].rv = @ + 1]
                 /\ UNCHANGED errors
              \/ /\ ~Differs(w, o) \/ ~Current(r, o)
                 /\ UNCHANGED <<server, errors>>
              \/ /\ errors < scenario.errors
                 /\ errors' = errors + 1
                 /\ UNCHANGED server
  /\ UNCHANGED <<scenario, cache, live, timer, applied, eval, pending, writers,
                 detached>>

-----------------------------------------------------------------------------
(* Environment *)

\* An informer delivers the latest version of a rule.
Deliver(w, r) ==
  /\ live[w] /\ cache[w][r] # server[r]
  /\ w \in scenario.outgoing => server[r].rv <= MaxSeen
  /\ cache' = [cache EXCEPT ![w][r] = server[r]]
  /\ timer' = [timer EXCEPT ![w] = @ \/ Wakes(w, r)]
  /\ UNCHANGED <<scenario, server, errors, live, applied, eval, pending, writers,
                 detached, todo>>

\* Every ten minutes the informers report every object as updated.
Resync(w) ==
  /\ live[w]
  /\ timer' = [timer EXCEPT ![w] = TRUE]
  /\ UNCHANGED <<scenario, server, errors, cache, live, applied, eval, pending,
                 writers, detached, todo>>

Edit(r) ==
  /\ server[r].gen < scenario.edits
  /\ server' = [server EXCEPT ![r].gen = @ + 1, ![r].rv = @ + 1]
  /\ UNCHANGED <<scenario, errors, cache, live, timer, applied, eval, pending,
                 writers, detached, todo>>

\* A reload cancels the watcher's generation, once it has compiled the new one.
Supersede(w) ==
  /\ w \in scenario.outgoing /\ live[w] /\ \A v \in Watchers : applied[v]
  /\ live' = [live EXCEPT ![w] = FALSE]
  /\ UNCHANGED <<scenario, server, errors, cache, timer, applied, eval, pending,
                 writers, detached, todo>>

Evaluate(w) == \E e \in Evaluations : Apply(w, e) \/ OnChange(w, e) \/ Queue(w, e)

Next ==
  \/ \E w \in Watchers : \/ Evaluate(w) \/ Take(w) \/ Abandon(w) \/ Write(w)
                         \/ Resync(w) \/ Supersede(w)
                         \/ \E r \in Rules : Deliver(w, r)
  \/ \E r \in Rules : Edit(r)

Spec == Init /\ [][Next]_vars

\* Goroutines run, timers expire, informers deliver, and a reload comes to its
\* end.  Nobody has to edit anything.
Progress ==
  \A w \in Watchers :
    /\ \A e \in Evaluations : WF_vars(Apply(w, e)) /\ WF_vars(Queue(w, e))
    /\ WF_vars(\E e \in Evaluations : OnChange(w, e))
    /\ WF_vars(Take(w) \/ Abandon(w) \/ Write(w))
    /\ \A r \in Rules : WF_vars(Deliver(w, r))
    /\ WF_vars(Supersede(w))

FairSpec == Spec /\ Progress

\* The informers keep resyncing.
Resyncs == \A w \in Watchers : WF_vars(Resync(w))

-----------------------------------------------------------------------------
(* Properties *)

\* Types; whatever waits to be written has a writer, which is the only one.
TypeOK ==
  /\ scenario \in Scenarios
  /\ server \in Objects /\ errors \in 0 .. scenario.errors
  /\ cache \in [Watchers -> Objects]
  /\ live \in [Watchers -> BOOLEAN] /\ timer \in [Watchers -> BOOLEAN]
  /\ applied \in [Watchers -> BOOLEAN] /\ detached \in [Watchers -> BOOLEAN]
  /\ eval \in [Watchers -> [Evaluations -> Evaluation \cup {None}]]
  /\ pending \in [Watchers -> Objects \cup {None}]
  /\ writers \in [Watchers -> {0, 1}]
  /\ todo \in [Watchers -> SUBSET (Rules \X Object)]
  /\ \A w \in Watchers : pending[w] # None \/ todo[w] # {} => writers[w] = 1

\* No write of a slow replica or of an outgoing generation takes a condition
\* back to an older generation of its rule (crd.go:470-475, "safe, not
\* exclusive").
NeverOutdated ==
  [][\A r \in Rules : server[r].cond # None =>
       /\ server'[r].cond # None
       /\ server'[r].cond.gen >= server[r].cond.gen]_vars

\* Every rule has the verdict of the watchers that stay, on its latest generation.
Settled ==
  \A r \in Rules, w \in scenario.watchers \ scenario.outgoing :
    server[r].cond = Want(w, server[r])

\* Before any resync, every status ends up right, although conflicts are dropped
\* and never tried again; an API server that fails or evaluations that overlap
\* are too much (crd.go:472-475, "converges regardless").
StatusesConverge == <>[](errors > 0 \/ scenario.overlap > 1 \/ Settled)

\* The resyncs put right whatever errors and overlapping evaluations left
\* behind.
ResyncsRepair == Resyncs => <>[]Settled
=============================================================================
