------------------------- MODULE StatusWriterProofs -------------------------
(***************************************************************************)
(* Theorems about StatusWriter, for any watchers, rules, policies and      *)
(* scenarios: types, with one writer per watcher for whatever waits, and   *)
(* that no status is ever taken back to an older generation.               *)
(***************************************************************************)
EXTENDS StatusWriter, TLAPS

-----------------------------------------------------------------------------
(* The inductive invariant *)

\* o is rule r as it was: a version up to the API server's, and if that is its
\* version it is the rule as it is.
WasOnce(r, o) == o.rv <= server[r].rv /\ (o.rv = server[r].rv => o = server[r])

\* Every copy of a rule, in the informers, in evaluations under way, waiting for
\* the writer and in its hands.
CopiesWereOnce ==
  \A w \in Watchers :
    /\ \A r \in Rules : WasOnce(r, cache[w][r])
    /\ \A e \in Evaluations : eval[w][e] # None =>
         \A r \in Rules : WasOnce(r, eval[w][e].objects[r])
    /\ pending[w] # None => \A r \in Rules : WasOnce(r, pending[w][r])
    /\ \A d \in todo[w] : WasOnce(d[1], d[2])

\* No condition is on a generation yet to come.
ConditionsLookBack ==
  \A r \in Rules : server[r].cond # None => server[r].cond.gen <= server[r].gen

StatusWriterInv == TypeOK /\ CopiesWereOnce /\ ConditionsLookBack

-----------------------------------------------------------------------------
(* Types *)

\* TypeOK but for the last conjunct.
Typed ==
  /\ scenario \in Scenarios
  /\ server \in Objects /\ errors \in 0 .. scenario.errors
  /\ cache \in [Watchers -> Objects]
  /\ live \in [Watchers -> BOOLEAN] /\ timer \in [Watchers -> BOOLEAN]
  /\ applied \in [Watchers -> BOOLEAN] /\ detached \in [Watchers -> BOOLEAN]
  /\ eval \in [Watchers -> [Evaluations -> Evaluation \cup {None}]]
  /\ pending \in [Watchers -> Objects \cup {None}]
  /\ writers \in [Watchers -> {0, 1}]
  /\ todo \in [Watchers -> SUBSET (Rules \X Object)]

\* Whatever waits to be written has a writer.
Written == \A w \in Watchers : pending[w] # None \/ todo[w] # {} => writers[w] = 1

LEMMA TypeOKParts == TypeOK <=> Typed /\ Written
BY DEF TypeOK, Typed, Written

LEMMA ScenarioFields ==
  ASSUME Typed
  PROVE  /\ scenario \in Scenario /\ scenario.errors \in Nat /\ scenario.edits \in Nat
BY StatusWriterAssumption DEF Typed, Scenario

\* The verdict on an object is on its own generation.
LEMMA WantIsCondition ==
  ASSUME NEW w, NEW o \in Object
  PROVE  /\ Want(w, o) \in Condition /\ Want(w, o).gen = o.gen /\ Want(w, o) # None
<1>1. Want(w, o) \in Condition /\ Want(w, o).gen = o.gen
  BY DEF Want, Condition, Object
<1> QED
  BY <1>1, NoneAssumption

-----------------------------------------------------------------------------
(* Steps *)

\* An accepted update, written as a new object in the rule's place.
LEMMA AcceptedObject ==
  ASSUME NEW f \in Objects, NEW r \in Rules, NEW c \in Condition
  PROVE  [f EXCEPT ![r].cond = c, ![r].rv = @ + 1]
           = [f EXCEPT ![r] = [gen |-> f[r].gen, rv |-> f[r].rv + 1, cond |-> c]]
<1>1. f[r] \in Object /\ f = [q \in Rules |-> f[q]]
  BY DEF Objects
<1>2. [f[r] EXCEPT !.cond = c, !.rv = @ + 1]
        = [gen |-> f[r].gen, rv |-> f[r].rv + 1, cond |-> c]
  <2>1. [f[r] EXCEPT !.cond = c] = [gen |-> f[r].gen, rv |-> f[r].rv, cond |-> c]
    BY <1>1 DEF Object
  <2>2. [f[r] EXCEPT !.cond = c, !.rv = @ + 1]
          = [[gen |-> f[r].gen, rv |-> f[r].rv, cond |-> c] EXCEPT !.rv = f[r].rv + 1]
    BY <2>1
  <2> QED
    BY <2>2
<1>3. [f EXCEPT ![r].cond = c, ![r].rv = @ + 1]
        = [f EXCEPT ![r] = [f[r] EXCEPT !.cond = c, !.rv = @ + 1]]
  BY <1>1
<1>4. [f EXCEPT ![r] = [f[r] EXCEPT !.cond = c, !.rv = @ + 1]]
        = [f EXCEPT ![r] = [gen |-> f[r].gen, rv |-> f[r].rv + 1, cond |-> c]]
  BY ONLY <1>2
<1> QED
  BY <1>3, <1>4

\* An edit, written so.
LEMMA EditedObject ==
  ASSUME NEW f \in Objects, NEW r \in Rules
  PROVE  [f EXCEPT ![r].gen = @ + 1, ![r].rv = @ + 1]
           = [f EXCEPT ![r] = [gen |-> f[r].gen + 1, rv |-> f[r].rv + 1, cond |-> f[r].cond]]
<1>1. f[r] \in Object /\ f = [q \in Rules |-> f[q]]
  BY DEF Objects
<1>2. [f[r] EXCEPT !.gen = @ + 1, !.rv = @ + 1]
        = [gen |-> f[r].gen + 1, rv |-> f[r].rv + 1, cond |-> f[r].cond]
  <2>1. [f[r] EXCEPT !.gen = @ + 1]
          = [gen |-> f[r].gen + 1, rv |-> f[r].rv, cond |-> f[r].cond]
    BY <1>1 DEF Object
  <2>2. [f[r] EXCEPT !.gen = @ + 1, !.rv = @ + 1]
          = [[gen |-> f[r].gen + 1, rv |-> f[r].rv, cond |-> f[r].cond]
               EXCEPT !.rv = f[r].rv + 1]
    BY <2>1
  <2> QED
    BY <2>2
<1>3. [f EXCEPT ![r].gen = @ + 1, ![r].rv = @ + 1]
        = [f EXCEPT ![r] = [f[r] EXCEPT !.gen = @ + 1, !.rv = @ + 1]]
  BY <1>1
<1>4. [f EXCEPT ![r] = [f[r] EXCEPT !.gen = @ + 1, !.rv = @ + 1]]
        = [f EXCEPT ![r] = [gen |-> f[r].gen + 1, rv |-> f[r].rv + 1, cond |-> f[r].cond]]
  BY ONLY <1>2
<1> QED
  BY <1>3, <1>4

\* An update of r was accepted, which was of the version o there.
Updated(w, r, o) ==
  /\ Current(r, o)
  /\ server' = [server EXCEPT ![r] = [gen |-> server[r].gen, rv |-> server[r].rv + 1,
                                      cond |-> Want(w, o)]]

Edited(r) ==
  server' = [server EXCEPT ![r] = [gen |-> server[r].gen + 1, rv |-> server[r].rv + 1,
                                   cond |-> server[r].cond]]

\* How the rules at the API server change.
LEMMA ServerChanges ==
  ASSUME Typed, Next
  PROVE  \/ server' = server
         \/ \E w \in Watchers, r \in Rules, o \in Object : <<r, o>> \in todo[w] /\ Updated(w, r, o)
         \/ \E r \in Rules : Edited(r)
<1>1. ASSUME NEW w \in Watchers,
             Evaluate(w) \/ Take(w) \/ Abandon(w) \/ Resync(w) \/ Supersede(w)
      PROVE  server' = server
  BY <1>1 DEF Evaluate, Apply, OnChange, Begin, Queue, Take, Abandon, Resync, Supersede
<1>2. ASSUME NEW w \in Watchers, NEW r \in Rules, Deliver(w, r)
      PROVE  server' = server
  BY <1>2 DEF Deliver
<1>3. ASSUME NEW w \in Watchers, Write(w)
      PROVE  \/ server' = server
             \/ \E r \in Rules, o \in Object : <<r, o>> \in todo[w] /\ Updated(w, r, o)
  <2>1. PICK d \in todo[w] :
          \/ server' = server
          \/ /\ Current(d[1], d[2])
             /\ server' = [server EXCEPT ![d[1]].cond = Want(w, d[2]), ![d[1]].rv = @ + 1]
    BY <1>3 DEF Write
  <2>2. PICK r \in Rules, o \in Object : d = <<r, o>>
    BY DEF Typed
  <2>3. CASE /\ Current(r, o)
             /\ server' = [server EXCEPT ![r].cond = Want(w, o), ![r].rv = @ + 1]
    <3>1. PICK c \in Condition : c = Want(w, o)
      BY WantIsCondition
    <3>2. server' = [server EXCEPT ![r].cond = c, ![r].rv = @ + 1]
      BY <2>3, <3>1
    <3>3. server' = [server EXCEPT ![r] = [gen |-> server[r].gen, rv |-> server[r].rv + 1,
                                           cond |-> c]]
      <4>1. server \in Objects
        BY DEF Typed
      <4>2. [server EXCEPT ![r].cond = c, ![r].rv = @ + 1]
              = [server EXCEPT ![r] = [gen |-> server[r].gen, rv |-> server[r].rv + 1,
                                       cond |-> c]]
        BY <4>1, AcceptedObject, ZenonT(60)
      <4> QED
        BY <3>2, <4>2
    <3> QED
      BY <2>2, <2>3, <3>1, <3>3 DEF Updated
  <2> QED
    BY <2>1, <2>2, <2>3
<1>4. ASSUME NEW r \in Rules, Edit(r)
      PROVE  Edited(r)
  BY <1>4, EditedObject DEF Edit, Edited, Typed
<1> QED
  BY <1>1, <1>2, <1>3, <1>4 DEF Next

\* A change is to one rule, which gets a new object of the next version.
LEMMA VersionsMove ==
  ASSUME Typed, Next, server' # server
  PROVE  \E r \in Rules, o \in Object :
           server' = [server EXCEPT ![r] = o] /\ o.rv = server[r].rv + 1
<1>1. \A r \in Rules : server[r] \in Object
  BY DEF Typed, Objects
<1>2. ASSUME NEW w \in Watchers, NEW r \in Rules, NEW o \in Object, Updated(w, r, o)
      PROVE  \E q \in Object : server' = [server EXCEPT ![r] = q] /\ q.rv = server[r].rv + 1
  <2> DEFINE q == [gen |-> server[r].gen, rv |-> server[r].rv + 1, cond |-> Want(w, o)]
  <2>1. q \in Object /\ q.rv = server[r].rv + 1
    BY <1>1, WantIsCondition DEF Object
  <2> QED
    BY <1>2, <2>1 DEF Updated
<1>3. ASSUME NEW r \in Rules, Edited(r)
      PROVE  \E q \in Object : server' = [server EXCEPT ![r] = q] /\ q.rv = server[r].rv + 1
  <2> DEFINE q == [gen |-> server[r].gen + 1, rv |-> server[r].rv + 1, cond |-> server[r].cond]
  <2>1. q \in Object /\ q.rv = server[r].rv + 1
    BY <1>1 DEF Object
  <2> QED
    BY <1>3, <2>1 DEF Edited
<1> QED
  BY <1>2, <1>3, ServerChanges

LEMMA NextTyped ==
  ASSUME Typed, Written, Next
  PROVE  Typed'
<1>1. server' \in Objects
  BY VersionsMove DEF Typed, Objects
<1>2. \A w \in Watchers : Write(w) => errors' \in 0 .. scenario.errors
  BY ScenarioFields DEF Write, Typed
<1>3. ASSUME NEW w \in Watchers, NEW e \in Evaluations, Apply(w, e) \/ OnChange(w, e)
      PROVE  Typed'
  <2>1. PICK p \in BOOLEAN : eval' = [eval EXCEPT ![w][e] = [objects |-> cache[w], process |-> p]]
    BY <1>3 DEF Apply, OnChange, Begin
  <2>2. [objects |-> cache[w], process |-> p] \in Evaluation
    BY DEF Typed, Evaluation
  <2>3. eval' \in [Watchers -> [Evaluations -> Evaluation \cup {None}]]
    BY <2>1, <2>2 DEF Typed
  <2>4. applied' \in [Watchers -> BOOLEAN] /\ timer' \in [Watchers -> BOOLEAN]
    BY <1>3 DEF Apply, OnChange, Typed
  <2>5. UNCHANGED <<scenario, server, errors, cache, live, pending, writers, detached, todo>>
    BY <1>3 DEF Apply, OnChange, Begin
  <2> QED
    BY <2>3, <2>4, <2>5 DEF Typed
<1>4. ASSUME NEW w \in Watchers, NEW e \in Evaluations, Queue(w, e)
      PROVE  Typed'
  <2>1. eval[w][e] \in Evaluation
    BY <1>4 DEF Queue, Typed
  <2>2. pending' \in [Watchers -> Objects \cup {None}]
    BY <1>4, <2>1 DEF Queue, Typed, Evaluation
  <2>3. /\ writers' = writers \/ writers' = [writers EXCEPT ![w] = 1]
        /\ detached' = detached \/ detached' = [detached EXCEPT ![w] = eval[w][e].process]
    BY <1>4 DEF Queue, StartsWriter, Typed
  <2>6. writers' \in [Watchers -> {0, 1}] /\ detached' \in [Watchers -> BOOLEAN]
    BY <2>1, <2>3 DEF Typed, Evaluation
  <2>4. eval' \in [Watchers -> [Evaluations -> Evaluation \cup {None}]]
    BY <1>4 DEF Queue, Typed
  <2>5. UNCHANGED <<scenario, server, errors, cache, live, timer, applied, todo>>
    BY <1>4 DEF Queue
  <2> QED
    BY <2>2, <2>6, <2>4, <2>5 DEF Typed
<1>5. ASSUME NEW w \in Watchers, Take(w)
      PROVE  Typed'
  <2>1. pending[w] # None => {<<r, pending[w][r]>> : r \in Rules} \in SUBSET (Rules \X Object)
    BY DEF Typed, Objects
  <2>2. todo' \in [Watchers -> SUBSET (Rules \X Object)]
    BY <1>5, <2>1 DEF Take, Typed
  <2>3. pending' \in [Watchers -> Objects \cup {None}]
    BY <1>5 DEF Take, Typed
  <2>5. writers' \in [Watchers -> {0, 1}]
    <3>1. writers[w] - 1 \in {0, 1}
      BY <1>5 DEF Take, Typed
    <3> QED
      BY <1>5, <3>1 DEF Take, Typed
  <2>4. UNCHANGED <<scenario, server, errors, cache, live, timer, applied, eval, detached>>
    BY <1>5 DEF Take
  <2> QED
    BY <2>2, <2>3, <2>4, <2>5 DEF Typed
<1>6. ASSUME NEW w \in Watchers, Abandon(w) \/ Resync(w) \/ Supersede(w)
      PROVE  Typed'
  BY <1>6 DEF Abandon, Resync, Supersede, Typed
<1>7. ASSUME NEW w \in Watchers, Write(w)
      PROVE  Typed'
  <2>1. todo' \in [Watchers -> SUBSET (Rules \X Object)]
    BY <1>7 DEF Write, Typed
  <2>2. UNCHANGED <<scenario, cache, live, timer, applied, eval, pending, writers, detached>>
    BY <1>7 DEF Write
  <2> QED
    BY <1>1, <1>2, <1>7, <2>1, <2>2 DEF Typed
<1>8. ASSUME NEW w \in Watchers, NEW r \in Rules, Deliver(w, r)
      PROVE  Typed'
  <2>1. cache' \in [Watchers -> Objects]
    BY <1>8 DEF Deliver, Typed, Objects
  <2>2. timer' \in [Watchers -> BOOLEAN]
    BY <1>8 DEF Deliver, Typed, Wakes
  <2> QED
    BY <1>8, <2>1, <2>2 DEF Deliver, Typed
<1>9. ASSUME NEW r \in Rules, Edit(r)
      PROVE  Typed'
  BY <1>1, <1>9 DEF Edit, Typed
<1> QED
  BY <1>3, <1>4, <1>5, <1>6, <1>7, <1>8, <1>9 DEF Next, Evaluate

LEMMA NextWritten ==
  ASSUME Typed, Written, Next
  PROVE  Written'
<1>1. ASSUME NEW w \in Watchers, NEW e \in Evaluations, Queue(w, e)
      PROVE  Written'
  BY <1>1 DEF Queue, StartsWriter, Typed, Written
<1>2. ASSUME NEW w \in Watchers, Take(w)
      PROVE  Written'
  BY <1>2 DEF Take, Typed, Written
<1>3. ASSUME NEW w \in Watchers, Abandon(w)
      PROVE  Written'
  BY <1>3 DEF Abandon, Typed, Written
<1>4. ASSUME NEW w \in Watchers, Write(w)
      PROVE  Written'
  BY <1>4 DEF Write, Typed, Written
<1>5. UNCHANGED <<pending, writers, todo>> => Written'
  BY DEF Written
<1> QED
  BY <1>1, <1>2, <1>3, <1>4, <1>5
     DEF Next, Evaluate, Apply, OnChange, Begin, Resync, Supersede, Deliver, Edit

\* WasOnce of an object after the step.
StillOnce(r, o) == o.rv <= server'[r].rv /\ (o.rv = server'[r].rv => o = server'[r])

\* What a rule was once, it was once still after a step.
LEMMA WasOnceStays ==
  ASSUME Typed, Next, NEW r \in Rules, NEW o \in Object, WasOnce(r, o)
  PROVE  StillOnce(r, o)
<1>1. server[r] \in Object /\ server[r].rv \in Nat /\ o.rv \in Nat
  BY DEF Typed, Objects, Object
<1>2. CASE server' = server
  BY <1>2 DEF WasOnce, StillOnce
<1>3. CASE server' # server
  <2>1. PICK q \in Rules, n \in Object :
          server' = [server EXCEPT ![q] = n] /\ n.rv = server[q].rv + 1
    BY <1>3, VersionsMove
  <2>2. CASE q = r
    <3>1. server'[r].rv = server[r].rv + 1
      BY <2>1, <2>2 DEF Typed, Objects
    <3> QED
      BY <1>1, <3>1 DEF WasOnce, StillOnce
  <2>3. CASE q # r
    <3>1. server'[r] = server[r]
      BY <2>1, <2>3 DEF Typed, Objects
    <3> QED
      BY <3>1 DEF WasOnce, StillOnce
  <2> QED
    BY <2>2, <2>3
<1> QED
  BY <1>2, <1>3

\* So it is with every copy that a step leaves where it is, or moves.
LEMMA CopiesStay ==
  ASSUME Typed, CopiesWereOnce, Next, NEW w \in Watchers
  PROVE  /\ \A r \in Rules : StillOnce(r, cache[w][r])
         /\ \A e \in Evaluations : eval[w][e] # None =>
              \A r \in Rules : StillOnce(r, eval[w][e].objects[r])
         /\ pending[w] # None => \A r \in Rules : StillOnce(r, pending[w][r])
         /\ \A d \in todo[w] : StillOnce(d[1], d[2])
<1>1. \A r \in Rules : cache[w][r] \in Object
  BY DEF Typed, Objects
<1>2. \A e \in Evaluations : eval[w][e] # None =>
        \A r \in Rules : eval[w][e].objects[r] \in Object
  BY DEF Typed, Objects, Evaluation
<1>3. pending[w] # None => \A r \in Rules : pending[w][r] \in Object
  BY DEF Typed, Objects
<1>4. \A d \in todo[w] : d[1] \in Rules /\ d[2] \in Object
  BY DEF Typed
<1> QED
  BY <1>1, <1>2, <1>3, <1>4, WasOnceStays DEF CopiesWereOnce

LEMMA NextCopiesWereOnce ==
  ASSUME Typed, CopiesWereOnce, Next
  PROVE  CopiesWereOnce'
<1> DEFINE CacheStill(w) == \A r \in Rules : StillOnce(r, cache'[w][r])
           EvalStill(w) == \A e \in Evaluations : eval'[w][e] # None =>
                             \A r \in Rules : StillOnce(r, eval'[w][e].objects[r])
           PendingStill(w) == pending'[w] # None =>
                                \A r \in Rules : StillOnce(r, pending'[w][r])
           TodoStill(w) == \A d \in todo'[w] : StillOnce(d[1], d[2])
<1>0. SUFFICES ASSUME NEW w \in Watchers
               PROVE  CacheStill(w) /\ EvalStill(w) /\ PendingStill(w) /\ TodoStill(w)
  BY DEF CopiesWereOnce, WasOnce, StillOnce
<1>1. /\ cache' = cache => CacheStill(w)
      /\ eval' = eval => EvalStill(w)
      /\ pending' = pending => PendingStill(w)
      /\ todo' = todo => TodoStill(w)
  BY CopiesStay
<1>2. ASSUME NEW v \in Watchers, NEW e \in Evaluations, Apply(v, e) \/ OnChange(v, e)
      PROVE  EvalStill(w)
  <2>1. PICK p : eval' = [eval EXCEPT ![v][e] = [objects |-> cache[v], process |-> p]]
    BY <1>2 DEF Apply, OnChange, Begin
  <2>2. ASSUME NEW f \in Evaluations, eval'[w][f] # None
        PROVE  \/ eval'[w][f] = eval[w][f]
               \/ eval'[w][f].objects = cache[w]
    BY <2>1, <2>2 DEF Typed
  <2> QED
    BY <2>2, CopiesStay
<1>3. ASSUME NEW v \in Watchers, NEW e \in Evaluations, Queue(v, e)
      PROVE  EvalStill(w) /\ PendingStill(w)
  <2>1. \A f \in Evaluations : eval'[w][f] \in {None, eval[w][f]}
    BY <1>3 DEF Queue, Typed
  <2>2. \/ pending'[w] = pending[w]
        \/ eval[w][e] # None /\ pending'[w] = eval[w][e].objects
    BY <1>3 DEF Queue, Typed
  <2> QED
    BY <2>1, <2>2, CopiesStay
<1>4. ASSUME NEW v \in Watchers, Take(v)
      PROVE  PendingStill(w) /\ TodoStill(w)
  <2>1. pending'[w] \in {None, pending[w]}
    BY <1>4 DEF Take, Typed
  <2>2. ASSUME NEW d \in todo'[w]
        PROVE  \/ d \in todo[w]
               \/ pending[w] # None /\ d[1] \in Rules /\ d[2] = pending[w][d[1]]
    BY <1>4 DEF Take, Typed
  <2> QED
    BY <2>1, <2>2, CopiesStay
<1>5. ASSUME NEW v \in Watchers, Abandon(v) \/ Write(v)
      PROVE  TodoStill(w)
  <2>1. todo'[w] \subseteq todo[w]
    <3>1. CASE Abandon(v)
      BY <3>1 DEF Abandon, Typed
    <3>2. CASE Write(v)
      BY <3>2 DEF Write, Typed
    <3> QED
      BY <1>5, <3>1, <3>2
  <2> QED
    BY <2>1, CopiesStay
<1>6. ASSUME NEW v \in Watchers, NEW r \in Rules, Deliver(v, r)
      PROVE  CacheStill(w)
  <2>1. server' = server /\ \A q \in Rules : cache'[w][q] \in {cache[w][q], server[q]}
    BY <1>6 DEF Deliver, Typed, Objects
  <2>2. \A q \in Rules : StillOnce(q, server[q])
    BY <2>1 DEF StillOnce, Typed, Objects, Object
  <2> QED
    BY <2>1, <2>2, CopiesStay
<1>7. ASSUME NEW v \in Watchers, Evaluate(v)
      PROVE  CacheStill(w) /\ EvalStill(w) /\ PendingStill(w) /\ TodoStill(w)
  <2>1. PICK e \in Evaluations : Apply(v, e) \/ OnChange(v, e) \/ Queue(v, e)
    BY <1>7 DEF Evaluate
  <2>2. cache' = cache /\ todo' = todo
    BY <2>1 DEF Apply, OnChange, Begin, Queue
  <2>3. Apply(v, e) \/ OnChange(v, e) => pending' = pending
    BY DEF Apply, OnChange, Begin
  <2> QED
    BY <1>1, <1>2, <1>3, <2>1, <2>2, <2>3
<1>8. ASSUME NEW v \in Watchers, Take(v) \/ Abandon(v) \/ Write(v)
      PROVE  CacheStill(w) /\ EvalStill(w) /\ PendingStill(w) /\ TodoStill(w)
  <2>1. cache' = cache /\ eval' = eval
    BY <1>8 DEF Take, Abandon, Write
  <2>2. Abandon(v) \/ Write(v) => pending' = pending
    BY DEF Abandon, Write
  <2> QED
    BY <1>1, <1>4, <1>5, <1>8, <2>1, <2>2
<1>9. ASSUME UNCHANGED <<eval, pending, todo>>,
             cache' = cache \/ \E v \in Watchers, r \in Rules : Deliver(v, r)
      PROVE  CacheStill(w) /\ EvalStill(w) /\ PendingStill(w) /\ TodoStill(w)
  BY <1>1, <1>6, <1>9
<1>10. ASSUME NEW v \in Watchers, Resync(v) \/ Supersede(v)
       PROVE  UNCHANGED <<cache, eval, pending, todo>>
  BY <1>10 DEF Resync, Supersede
<1>11. ASSUME NEW r \in Rules, Edit(r) \/ \E v \in Watchers : Deliver(v, r)
       PROVE  /\ UNCHANGED <<eval, pending, todo>>
              /\ cache' = cache \/ \E v \in Watchers : Deliver(v, r)
  BY <1>11 DEF Edit, Deliver
<1> QED
  BY <1>7, <1>8, <1>9, <1>10, <1>11 DEF Next

LEMMA NextConditionsLookBack ==
  ASSUME Typed, CopiesWereOnce, ConditionsLookBack, Next
  PROVE  /\ ConditionsLookBack'
         /\ \A r \in Rules : server[r].cond # None =>
              server'[r].cond # None /\ server'[r].cond.gen >= server[r].cond.gen
<1> SUFFICES ASSUME NEW r \in Rules
             PROVE  /\ server'[r].cond # None => server'[r].cond.gen <= server'[r].gen
                    /\ server[r].cond # None =>
                         server'[r].cond # None /\ server'[r].cond.gen >= server[r].cond.gen
  BY DEF ConditionsLookBack
<1>1. /\ server[r] \in Object /\ server[r].gen \in Nat
      /\ server[r].cond # None => server[r].cond.gen \in Nat
      /\ server[r].cond # None => server[r].cond.gen <= server[r].gen
  BY DEF ConditionsLookBack, Typed, Objects, Object, Condition
<1>2. CASE server'[r] = server[r]
  BY <1>1, <1>2
<1>3. ASSUME NEW w \in Watchers, NEW q \in Rules, NEW o \in Object,
             <<q, o>> \in todo[w], Updated(w, q, o), server'[r] # server[r]
      PROVE  server'[r].gen = server[r].gen /\ server'[r].cond # None
             /\ server'[r].cond.gen = server[r].gen
  <2>1. q = r
    BY <1>3 DEF Updated, Typed, Objects
  <2>2. o = server[r]
    <3>1. WasOnce(q, o)
      BY <1>3 DEF CopiesWereOnce
    <3> QED
      BY <1>3, <2>1, <3>1 DEF WasOnce, Updated, Current
  <2>3. server'[r] = [gen |-> server[r].gen, rv |-> server[r].rv + 1, cond |-> Want(w, o)]
    BY <1>3, <2>1 DEF Updated, Typed, Objects
  <2> QED
    BY <2>2, <2>3, WantIsCondition
<1>4. ASSUME NEW q \in Rules, Edited(q), server'[r] # server[r]
      PROVE  server'[r].gen = server[r].gen + 1 /\ server'[r].cond = server[r].cond
  BY <1>4 DEF Edited, Typed, Objects
<1>5. CASE server'[r] # server[r]
  <2>1. \/ /\ server'[r].gen = server[r].gen /\ server'[r].cond # None
           /\ server'[r].cond.gen = server[r].gen
        \/ server'[r].gen = server[r].gen + 1 /\ server'[r].cond = server[r].cond
    BY <1>3, <1>4, <1>5, ServerChanges
  <2> QED
    BY <1>1, <2>1
<1> QED
  BY <1>2, <1>5

-----------------------------------------------------------------------------
(* The theorems *)

LEMMA InitStatusWriterInv == Init => StatusWriterInv
<1> SUFFICES ASSUME Init
             PROVE  StatusWriterInv
  OBVIOUS
<1>1. scenario \in Scenario
  BY StatusWriterAssumption DEF Init
<1>2. server \in Objects
  BY DEF Init, Objects, Object, Condition
<1>3. /\ errors \in 0 .. scenario.errors /\ cache \in [Watchers -> Objects]
      /\ live \in [Watchers -> BOOLEAN] /\ timer \in [Watchers -> BOOLEAN]
      /\ applied \in [Watchers -> BOOLEAN] /\ detached \in [Watchers -> BOOLEAN]
  BY <1>1, <1>2 DEF Init, Scenario
<1>4. /\ eval \in [Watchers -> [Evaluations -> Evaluation \cup {None}]]
      /\ pending \in [Watchers -> Objects \cup {None}]
      /\ writers \in [Watchers -> {0, 1}]
      /\ todo \in [Watchers -> SUBSET (Rules \X Object)]
  BY DEF Init
<1>5. Typed
  BY <1>2, <1>3, <1>4 DEF Init, Typed
<1>6. Written
  BY DEF Init, Written
<1>7. CopiesWereOnce
  BY DEF Init, CopiesWereOnce, WasOnce
<1>8. ConditionsLookBack
  BY DEF Init, ConditionsLookBack
<1> QED
  BY <1>5, <1>6, <1>7, <1>8, TypeOKParts DEF StatusWriterInv

LEMMA NextStatusWriterInv == StatusWriterInv /\ [Next]_vars => StatusWriterInv'
<1> SUFFICES ASSUME StatusWriterInv, [Next]_vars
             PROVE  StatusWriterInv'
  OBVIOUS
<1>1. Typed /\ Written /\ CopiesWereOnce /\ ConditionsLookBack
  BY TypeOKParts DEF StatusWriterInv
<1>2. CASE Next
  <2>1. Typed' /\ Written'
    BY <1>1, <1>2, NextTyped, NextWritten
  <2>2. TypeOK'
    BY <2>1, TypeOKParts, PTL
  <2> QED
    BY <1>1, <1>2, <2>2, NextCopiesWereOnce, NextConditionsLookBack DEF StatusWriterInv
<1>3. CASE UNCHANGED vars
  BY <1>3 DEF vars, StatusWriterInv, TypeOK, CopiesWereOnce, WasOnce, ConditionsLookBack
<1> QED
  BY <1>2, <1>3

\* Whatever verdicts wait to be written have a writer, and a watcher never has two
\* (crd.go: statusRunning, under statusMu).
THEOREM StatusWriterTypes == Spec => []TypeOK
<1>1. StatusWriterInv => TypeOK
  BY DEF StatusWriterInv
<1> QED
  BY InitStatusWriterInv, NextStatusWriterInv, <1>1, PTL DEF Spec

\* However many replicas and generations write, and however old what they have
\* read, a Ready condition never goes back to an older generation of its rule:
\* optimistic concurrency makes the writers safe, as crd.go's comment claims.
THEOREM ReadyNeverGoesBack == Spec => NeverOutdated
<1>1. StatusWriterInv /\ [Next]_vars =>
        [\A r \in Rules : server[r].cond # None =>
           /\ server'[r].cond # None
           /\ server'[r].cond.gen >= server[r].cond.gen]_vars
  BY TypeOKParts, NextConditionsLookBack DEF StatusWriterInv
<1> QED
  BY InitStatusWriterInv, NextStatusWriterInv, <1>1, PTL DEF Spec, NeverOutdated
=============================================================================
