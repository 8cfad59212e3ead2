-------------------------- MODULE HttpSourceProofs --------------------------
(***************************************************************************)
(* Theorems about HttpSource, for any callers, keys, settings and bounds:  *)
(* types and the size of the cache, who is told of a timeout, how old a    *)
(* result may be, and how long a Lookup may take.                          *)
(***************************************************************************)
EXTENDS HttpSource, FiniteSetTheorems, TLAPS

-----------------------------------------------------------------------------
(* The inductive invariant *)

\* A fetch that timed out had run for the source's whole timeout.
Ran(a) == a.kind = "timeout" => a.at >= a.begun + Timeout

AnswersRan ==
  /\ \A k \in Keys : /\ InFlight(k) /\ flight[k].answer # None => Ran(flight[k].answer)
                     /\ Cached(k) => Ran(cache[k].answer)
  /\ \A c \in Callers : /\ got[c] # None => Ran(got[c])
                        /\ result[c] # None => Ran(result[c])

\* An entry of the cache lives from when its fetch ended, and is no timeout.
EntriesAged ==
  \A k \in Keys : Cached(k) =>
    LET e == cache[k]
    IN  e.answer.kind # "timeout" /\ e.expires = e.answer.at + Lifetime(e.answer)

CachedKeys == {k \in Keys : Cached(k)}

\* Only finitely many keys have been looked up.
CacheIsFinite == IsFiniteSet(CachedKeys)

\* Lookups and fetches began at some time past.
BegunBefore ==
  /\ \A c \in Callers : called[c] <= now
  /\ \A k \in Keys : InFlight(k) => flight[k].begun <= now

\* When nobody who can run is left waiting for a tick: what a caller does alone
\* takes no time, its flight began before it came aboard, and an answer reaches
\* it at once.
NobodyDawdles ==
  /\ \A c \in Callers :
       /\ pc[c] \in {"looking", "missed"} => called[c] = now
       /\ pc[c] = "waiting" => flight[key[c]].begun <= called[c]
       /\ pc[c] = "landed" => got[c].at = now
  /\ \A k \in Keys : InFlight(k) /\ flight[k].answer # None => flight[k].answer.at = now

HttpSourceInv ==
  /\ TypeOK /\ AnswersRan /\ EntriesAged /\ CacheIsFinite /\ BegunBefore
  /\ prompt => NobodyDawdles
  /\ LookupsAreBounded

-----------------------------------------------------------------------------
(* Types *)

Points == {"idle", "looking", "missed", "waiting", "landed"}

\* TypeOK but for what relates callers to flights, and the size of the cache.
Typed ==
  /\ prompt \in BOOLEAN
  /\ now \in Time
  /\ cache \in [Keys -> Entry \cup {None}]
  /\ flight \in [Keys -> Flight \cup {None}]
  /\ pc \in [Callers -> Points]
  /\ key \in [Callers -> Keys]
  /\ called \in [Callers -> Time] /\ started \in [Callers -> Time]
  /\ hungUp \in [Callers -> BOOLEAN] /\ lookups \in [Callers -> 0 .. MaxLookups]
  /\ got \in [Callers -> Answer \cup {None}] /\ result \in [Callers -> Answer \cup {None}]

CallersFlown ==
  \A c \in Callers : /\ pc[c] = "waiting" => InFlight(key[c])
                     /\ pc[c] = "landed" => got[c] # None

CacheBounded == MaxEntries > 0 => Cardinality(CachedKeys) <= MaxEntries

LEMMA TypeOKParts == TypeOK <=> Typed /\ CallersFlown /\ CacheBounded
BY DEF TypeOK, Typed, CallersFlown, CacheBounded, CachedKeys, Points

LEMMA LifetimeIsNat ==
  ASSUME NEW a
  PROVE  Lifetime(a) \in Nat
BY HttpSourceAssumption DEF Lifetime

\* A lookup whose turn it is has a live answer to return.
LEMMA HitsHaveAnswers ==
  ASSUME Typed, NEW c \in Callers, Hit(c)
  PROVE  /\ cache[key[c]] \in Entry /\ key[c] \in Keys /\ Cached(key[c])
         /\ cache[key[c]].answer \in Answer /\ cache[key[c]].answer # None
BY NoneAssumption DEF Typed, Hit, Live, Cached, Entry

\* What Finish makes of what the flight came to is that, or the same answer
\* told as the end of the caller's context.
Told(c) == IF got[c].kind \in {"value", "absent"} /\ Done(c)
           THEN [got[c] EXCEPT !.kind = "context"] ELSE got[c]

LEMMA ToldAnswers ==
  ASSUME Typed, CallersFlown, NEW c \in Callers, pc[c] = "landed"
  PROVE  /\ got[c] \in Answer /\ Told(c) \in Answer /\ Told(c) # None
         /\ Told(c).at = got[c].at /\ Told(c).begun = got[c].begun
         /\ Told(c).kind \in {got[c].kind, "context"}
<1>1. got[c] \in Answer /\ got[c] # None
  BY DEF Typed, CallersFlown
<1>2. CASE got[c].kind \in {"value", "absent"} /\ Done(c)
  <2>1. Told(c) = [kind |-> "context", begun |-> got[c].begun, at |-> got[c].at]
    BY <1>1, <1>2 DEF Told, Answer
  <2> QED
    BY <1>1, <2>1, NoneAssumption DEF Answer
<1>3. CASE ~(got[c].kind \in {"value", "absent"} /\ Done(c))
  BY <1>1, <1>3 DEF Told
<1> QED
  BY <1>2, <1>3

\* The answer the fetch of k comes to now, if it comes to kind.
AnswerOf(k, kind) == [kind |-> kind, begun |-> flight[k].begun, at |-> now]

FetchKinds == {"value", "absent", "failure", "timeout"}

\* What the end of a fetch does: the flight has its answer, and the cache keeps
\* it unless it is a timeout, throws out some entries, and touches no other.
LEMMA FetchEffect ==
  ASSUME Typed, NEW k \in Keys, NEW kind \in FetchKinds, FetchEnds(k, kind)
  PROVE  LET a == AnswerOf(k, kind)
         IN  /\ a \in Answer /\ a # None
             /\ InFlight(k) /\ flight[k] \in Flight /\ flight[k].answer = None
             /\ flight' = [flight EXCEPT ![k] = [begun |-> flight[k].begun, answer |-> a]]
             /\ \/ cache' = cache
                \/ kind # "timeout" /\ \E E \in Evictions :
                     cache' = [j \in Keys |->
                                 IF j = k THEN [answer |-> a, expires |-> now + Lifetime(a)]
                                 ELSE IF j \in E THEN None ELSE cache[j]]
             /\ UNCHANGED <<now, pc, got, result, callVars>>
<1> DEFINE a == AnswerOf(k, kind)
<1>1. InFlight(k) /\ flight[k] \in Flight /\ flight[k].answer = None
  BY DEF FetchEnds, InFlight, Typed
<1>2. a \in Answer /\ a # None
  BY <1>1, NoneAssumption DEF Typed, Flight, Answer, AnswerOf, FetchKinds
<1>3. flight' = [flight EXCEPT ![k].answer = a] /\ CacheSet(k, a)
  BY DEF FetchEnds, AnswerOf
<1>4. a.kind = kind
  BY DEF AnswerOf
<1> HIDE DEF a
<1>5. [flight[k] EXCEPT !.answer = a] = [begun |-> flight[k].begun, answer |-> a]
  BY <1>1 DEF Flight
<1>6. flight' = [flight EXCEPT ![k] = [begun |-> flight[k].begun, answer |-> a]]
  BY <1>3, <1>5
<1>7. \/ cache' = cache
      \/ kind # "timeout" /\ \E E \in Evictions :
           cache' = [j \in Keys |->
                       IF j = k THEN [answer |-> a, expires |-> now + Lifetime(a)]
                       ELSE IF j \in E THEN None ELSE cache[j]]
  BY <1>3, <1>4 DEF CacheSet, Cacheable
<1> QED
  BY <1>1, <1>2, <1>6, <1>7 DEF FetchEnds, a

\* The end of a fetch, entry by entry.
LEMMA FetchKeeps ==
  ASSUME Typed, NEW k \in Keys, NEW kind \in FetchKinds, FetchEnds(k, kind)
  PROVE  LET a == AnswerOf(k, kind)
         IN  /\ cache' \in [Keys -> Entry \cup {None}]
             /\ \A j \in Keys :
                  \/ cache'[j] \in {None, cache[j]}
                  \/ /\ j = k /\ kind # "timeout"
                     /\ cache'[j] = [answer |-> a, expires |-> now + Lifetime(a)]
<1> DEFINE a == AnswerOf(k, kind)
           e == [answer |-> a, expires |-> now + Lifetime(a)]
<1>1. a \in Answer
  BY FetchEffect
<1>2. Lifetime(a) \in Nat /\ now \in Nat
  BY LifetimeIsNat, HttpSourceAssumption DEF Typed, Time
<1>3. e \in Entry
  BY <1>1, <1>2 DEF Entry
<1> HIDE DEF e
<1>4. \/ cache' = cache
      \/ kind # "timeout" /\ \E E \in Evictions :
           cache' = [j \in Keys |-> IF j = k THEN e ELSE IF j \in E THEN None ELSE cache[j]]
  BY FetchEffect DEF e
<1> QED
  BY <1>3, <1>4 DEF Typed, e

\* Respond and TimeOut are ends of a fetch; after a timeout the source's own
\* deadline has passed.
LEMMA FetchSteps ==
  ASSUME NEW k \in Keys, Respond(k) \/ TimeOut(k)
  PROVE  \E kind \in FetchKinds :
           FetchEnds(k, kind) /\ (kind = "timeout" => now >= flight[k].begun + Timeout)
BY DEF Respond, TimeOut, Aborts, FetchKinds

\* Entries a full cache makes room with are in it.
LEMMA EvictionsAreCached ==
  ASSUME NEW E \in Evictions
  PROVE  E \subseteq CachedKeys /\ (Full => E # {})
BY DEF Evictions, Expired, CachedKeys

-----------------------------------------------------------------------------
(* Steps *)

\* What a step is: of one caller, of the fetch of one key, of a flight, or a tick.
LEMMA StepKinds ==
  ASSUME Step
  PROVE  \/ \E c \in Callers : \/ Call(c) \/ Hit(c) \/ Miss(c) \/ Lead(c) \/ Join(c)
                               \/ Finish(c) \/ HangUp(c)
         \/ \E k \in Keys, kind \in FetchKinds :
              FetchEnds(k, kind) /\ (kind = "timeout" => now >= flight[k].begun + Timeout)
         \/ \E k \in Keys : Land(k)
         \/ Tick
<1>1. \/ \E c \in Callers : \/ Call(c) \/ Hit(c) \/ Miss(c) \/ Lead(c) \/ Join(c)
                               \/ Finish(c) \/ HangUp(c)
      \/ \E k \in Keys : Respond(k) \/ TimeOut(k)
      \/ \E k \in Keys : Land(k)
      \/ Tick
  BY DEF Step
<1>2. ASSUME NEW k \in Keys, Respond(k) \/ TimeOut(k)
      PROVE  \E kind \in FetchKinds :
               FetchEnds(k, kind) /\ (kind = "timeout" => now >= flight[k].begun + Timeout)
  BY <1>2, FetchSteps
<1> QED
  BY <1>1, <1>2

LEMMA NextTyped ==
  ASSUME Typed, CallersFlown, Step, UNCHANGED prompt
  PROVE  Typed'
<1>1. ASSUME NEW c \in Callers, Call(c)
      PROVE  Typed'
  <2>1. lookups' \in [Callers -> 0 .. MaxLookups]
    BY <1>1, HttpSourceAssumption DEF Call, Typed
  <2>2. key' \in [Callers -> Keys]
    BY <1>1 DEF Call, Typed
  <2>3. started' \in [Callers -> Time] /\ hungUp' \in [Callers -> BOOLEAN]
    <3>1. started' \in [Callers -> Time]
      BY <1>1 DEF Call, Typed
    <3>2. hungUp' \in [Callers -> BOOLEAN]
      BY <1>1 DEF Call, Typed
    <3> QED
      BY <3>1, <3>2
  <2>4. called' \in [Callers -> Time] /\ pc' \in [Callers -> Points]
    <3>1. called' \in [Callers -> Time]
      BY <1>1 DEF Call, Typed
    <3>2. pc' \in [Callers -> Points]
      BY <1>1 DEF Call, Typed, Points
    <3> QED
      BY <3>1, <3>2
  <2>5. result' \in [Callers -> Answer \cup {None}]
    BY <1>1 DEF Call, Typed
  <2>6. UNCHANGED <<now, cache, flight, got>>
    BY <1>1 DEF Call
  <2> QED
    BY <2>1, <2>2, <2>3, <2>4, <2>5, <2>6 DEF Typed
<1>2. ASSUME NEW c \in Callers, Hit(c)
      PROVE  Typed'
  BY <1>2, HitsHaveAnswers DEF Hit, Return, callVars, Typed, Points
<1>3. ASSUME NEW c \in Callers, Miss(c)
      PROVE  Typed'
  BY <1>3 DEF Miss, callVars, Typed, Points
<1>4. ASSUME NEW c \in Callers, Lead(c)
      PROVE  Typed'
  <2>1. [begun |-> now, answer |-> None] \in Flight
    BY DEF Typed, Flight
  <2> QED
    BY <1>4, <2>1 DEF Lead, callVars, Typed, Points
<1>5. ASSUME NEW c \in Callers, Join(c)
      PROVE  Typed'
  BY <1>5 DEF Join, callVars, Typed, Points
<1>6. ASSUME NEW c \in Callers, Finish(c)
      PROVE  Typed'
  <2>1. result' = [result EXCEPT ![c] = Told(c)] /\ Told(c) \in Answer
    BY <1>6, ToldAnswers DEF Finish, Return, Told
  <2> QED
    BY <1>6, <2>1 DEF Finish, Return, callVars, Typed, Points
<1>7. ASSUME NEW c \in Callers, HangUp(c)
      PROVE  Typed'
  BY <1>7 DEF HangUp, Typed
<1>8. ASSUME NEW k \in Keys, NEW kind \in FetchKinds, FetchEnds(k, kind)
      PROVE  Typed'
  <2> DEFINE a == AnswerOf(k, kind)
             f == [begun |-> flight[k].begun, answer |-> a]
  <2>1. a \in Answer /\ flight[k] \in Flight
    BY <1>8, FetchEffect
  <2>2. f \in Flight
    BY <2>1 DEF Flight
  <2>3. flight' = [flight EXCEPT ![k] = f]
    BY <1>8, FetchEffect
  <2> HIDE DEF f
  <2>4. flight' \in [Keys -> Flight \cup {None}]
    BY <2>2, <2>3 DEF Typed
  <2>5. cache' \in [Keys -> Entry \cup {None}]
    BY <1>8, FetchKeeps
  <2>6. UNCHANGED <<now, pc, got, result, callVars>>
    BY <1>8, FetchEffect
  <2> QED
    BY <2>4, <2>5, <2>6 DEF Typed, callVars
<1>9. ASSUME NEW k \in Keys, Land(k)
      PROVE  Typed'
  <2>1. flight[k].answer \in Answer
    BY <1>9 DEF Land, InFlight, Typed, Flight
  <2>2. got' \in [Callers -> Answer \cup {None}]
    BY <1>9, <2>1 DEF Land, Typed
  <2>3. pc' \in [Callers -> Points]
    BY <1>9 DEF Land, Typed, Points
  <2> QED
    BY <1>9, <2>2, <2>3 DEF Land, callVars, Typed
<1>10. CASE Tick
  BY <1>10, HttpSourceAssumption DEF Tick, callVars, Typed, Time
<1> QED
  BY <1>1, <1>2, <1>3, <1>4, <1>5, <1>6, <1>7, <1>8, <1>9, <1>10, StepKinds

LEMMA NextCallersFlown ==
  ASSUME Typed, CallersFlown, Step
  PROVE  CallersFlown'
<1>1. ASSUME NEW c \in Callers, Call(c) \/ Hit(c) \/ Miss(c)
      PROVE  CallersFlown'
  BY <1>1 DEF Call, Hit, Miss, Return, callVars, Typed, CallersFlown, InFlight
<1>2. ASSUME NEW c \in Callers, Lead(c)
      PROVE  CallersFlown'
  <2>1. [begun |-> now, answer |-> None] # None
    BY NoneAssumption DEF Typed, Flight
  <2> QED
    BY <1>2, <2>1 DEF Lead, callVars, Typed, CallersFlown, InFlight
<1>3. ASSUME NEW c \in Callers, Join(c) \/ Finish(c) \/ HangUp(c)
      PROVE  CallersFlown'
  BY <1>3 DEF Join, Finish, HangUp, Return, callVars, Typed, CallersFlown, InFlight
<1>4. ASSUME NEW k \in Keys, NEW kind \in FetchKinds, FetchEnds(k, kind)
      PROVE  CallersFlown'
  <2> DEFINE f == [begun |-> flight[k].begun, answer |-> AnswerOf(k, kind)]
  <2>1. f # None
    BY <1>4, FetchEffect, NoneAssumption DEF Flight
  <2>2. flight' = [flight EXCEPT ![k] = f] /\ UNCHANGED <<now, pc, got, result, callVars>>
    BY <1>4, FetchEffect
  <2> HIDE DEF f
  <2> QED
    BY <2>1, <2>2 DEF callVars, Typed, CallersFlown, InFlight
<1>5. ASSUME NEW k \in Keys, Land(k)
      PROVE  CallersFlown'
  BY <1>5 DEF Land, Aboard, callVars, Typed, CallersFlown, InFlight
<1>6. CASE Tick
  BY <1>6 DEF Tick, callVars, CallersFlown, InFlight
<1> QED
  BY <1>1, <1>2, <1>3, <1>4, <1>5, <1>6, StepKinds

\* The cache changes only when a fetch ends.
LEMMA CacheChanges ==
  ASSUME Step
  PROVE  \/ cache' = cache
         \/ \E k \in Keys, kind \in FetchKinds : FetchEnds(k, kind)
BY StepKinds DEF Call, Hit, Miss, Lead, Join, Finish, HangUp, Land, Tick

\* A full cache makes room for the entry it takes.
LEMMA NextCacheBounded ==
  ASSUME Typed, CacheIsFinite, CacheBounded, Step
  PROVE  CacheIsFinite' /\ CacheBounded'
<1>1. CASE cache' = cache
  BY <1>1 DEF CacheIsFinite, CacheBounded, CachedKeys, Cached
<1>2. ASSUME NEW k \in Keys, NEW kind \in FetchKinds, FetchEnds(k, kind), cache' # cache
      PROVE  CacheIsFinite' /\ CacheBounded'
  <2> DEFINE e == [answer |-> AnswerOf(k, kind), expires |-> now + Lifetime(AnswerOf(k, kind))]
  <2>1. PICK E \in Evictions :
          cache' = [j \in Keys |-> IF j = k THEN e ELSE IF j \in E THEN None ELSE cache[j]]
    BY <1>2, FetchEffect
  <2> HIDE DEF e
  <2>2. CachedKeys' \subseteq (CachedKeys \ E) \cup {k}
    BY <2>1 DEF CachedKeys, Cached
  <2>3. E \subseteq CachedKeys /\ (Full => E # {})
    BY EvictionsAreCached
  <2>4. /\ IsFiniteSet(CachedKeys) /\ Cardinality(CachedKeys) \in Nat
    BY FS_CardinalityType DEF CacheIsFinite
  <2>5. /\ IsFiniteSet(CachedKeys \ E) /\ Cardinality(CachedKeys \ E) \in Nat
        /\ Cardinality(CachedKeys \ E) <= Cardinality(CachedKeys)
        /\ E # {} => Cardinality(CachedKeys \ E) < Cardinality(CachedKeys)
    <3>1. CachedKeys \ E \in SUBSET CachedKeys
      OBVIOUS
    <3>2. IsFiniteSet(CachedKeys \ E) /\ Cardinality(CachedKeys \ E) \in Nat
      BY <2>4, <3>1, FS_Subset, FS_CardinalityType
    <3>3. /\ Cardinality(CachedKeys \ E) <= Cardinality(CachedKeys)
          /\ Cardinality(CachedKeys) = Cardinality(CachedKeys \ E)
               => CachedKeys = CachedKeys \ E
      BY <2>4, <3>1, FS_Subset
    <3>4. E # {} => CachedKeys # CachedKeys \ E
      BY <2>3
    <3> QED
      BY <2>4, <3>2, <3>3, <3>4
  <2>6. /\ IsFiniteSet((CachedKeys \ E) \cup {k})
        /\ Cardinality((CachedKeys \ E) \cup {k}) \in Nat
        /\ Cardinality((CachedKeys \ E) \cup {k}) <= Cardinality(CachedKeys \ E) + 1
    BY <2>5, FS_AddElement, FS_CardinalityType
  <2>7. /\ IsFiniteSet(CachedKeys') /\ Cardinality(CachedKeys') \in Nat
        /\ Cardinality(CachedKeys') <= Cardinality((CachedKeys \ E) \cup {k})
    BY <2>2, <2>6, FS_Subset, FS_CardinalityType
  <2>8. CASE MaxEntries > 0
    <3>1. MaxEntries \in Nat /\ Cardinality(CachedKeys) <= MaxEntries
      BY <2>8, HttpSourceAssumption DEF CacheBounded
    <3>2. Full <=> Cardinality(CachedKeys) >= MaxEntries
      BY <2>8 DEF Full, CachedKeys
    <3>3. Cardinality(CachedKeys \ E) + 1 <= MaxEntries
      BY <2>3, <2>4, <2>5, <3>1, <3>2
    <3>4. Cardinality(CachedKeys') <= MaxEntries
      BY <2>5, <2>6, <2>7, <3>1, <3>3
    <3> QED
      BY <2>7, <3>4 DEF CacheIsFinite, CacheBounded
  <2>9. CASE ~(MaxEntries > 0)
    BY <2>7, <2>9 DEF CacheIsFinite, CacheBounded
  <2> QED
    BY <2>8, <2>9
<1> QED
  BY <1>1, <1>2, CacheChanges

LEMMA NextAnswersRan ==
  ASSUME Typed, CallersFlown, AnswersRan, Step
  PROVE  AnswersRan'
<1>1. ASSUME NEW c \in Callers, Call(c) \/ Miss(c) \/ Join(c) \/ HangUp(c)
      PROVE  AnswersRan'
  BY <1>1 DEF Call, Miss, Join, HangUp, callVars, Typed, AnswersRan, InFlight, Cached
<1>2. ASSUME NEW c \in Callers, Hit(c)
      PROVE  AnswersRan'
  <2>1. Ran(cache[key[c]].answer)
    BY <1>2, HitsHaveAnswers DEF AnswersRan
  <2> QED
    BY <1>2, <2>1 DEF Hit, Return, callVars, Typed, AnswersRan, InFlight, Cached
<1>3. ASSUME NEW c \in Callers, Lead(c)
      PROVE  AnswersRan'
  BY <1>3 DEF Lead, callVars, Typed, AnswersRan, InFlight, Cached
<1>4. ASSUME NEW c \in Callers, Finish(c)
      PROVE  AnswersRan'
  <2>1. Ran(got[c])
    BY <1>4 DEF Finish, CallersFlown, AnswersRan
  <2>2. Ran(Told(c))
    BY <1>4, <2>1, ToldAnswers DEF Ran, Finish
  <2>3. result' = [result EXCEPT ![c] = Told(c)] /\ got' = [got EXCEPT ![c] = None]
    BY <1>4 DEF Finish, Return, Told
  <2> QED
    BY <1>4, <2>2, <2>3 DEF Finish, callVars, Typed, AnswersRan, InFlight, Cached
<1>5. ASSUME NEW k \in Keys, NEW kind \in FetchKinds, FetchEnds(k, kind),
             kind = "timeout" => now >= flight[k].begun + Timeout
      PROVE  AnswersRan'
  <2> DEFINE a == AnswerOf(k, kind)
  <2>1. Ran(a)
    BY <1>5 DEF Ran, AnswerOf
  <2>2. flight' = [flight EXCEPT ![k] = [begun |-> flight[k].begun, answer |-> a]]
    BY <1>5, FetchEffect
  <2>3. \A j \in Keys : \/ cache'[j] \in {None, cache[j]}
                        \/ cache'[j] = [answer |-> a, expires |-> now + Lifetime(a)]
    BY <1>5, FetchKeeps
  <2>4. UNCHANGED <<now, pc, got, result, callVars>>
    BY <1>5, FetchEffect
  <2> HIDE DEF a
  <2>5. \A j \in Keys : InFlight(j)' /\ flight'[j].answer # None => Ran(flight'[j].answer)
    BY <2>1, <2>2 DEF AnswersRan, InFlight, Typed
  <2>6. \A j \in Keys : Cached(j)' => Ran(cache'[j].answer)
    BY <2>1, <2>3 DEF AnswersRan, Cached, Typed
  <2> QED
    BY <2>4, <2>5, <2>6 DEF AnswersRan, callVars
<1>6. ASSUME NEW k \in Keys, Land(k)
      PROVE  AnswersRan'
  BY <1>6 DEF Land, Aboard, callVars, Typed, AnswersRan, InFlight, Cached
<1>7. CASE Tick
  BY <1>7 DEF Tick, callVars, AnswersRan, InFlight, Cached
<1> QED
  BY <1>1, <1>2, <1>3, <1>4, <1>5, <1>6, <1>7, StepKinds

LEMMA NextEntriesAged ==
  ASSUME Typed, EntriesAged, Step
  PROVE  EntriesAged'
<1>1. CASE cache' = cache
  BY <1>1 DEF EntriesAged, Cached
<1>2. ASSUME NEW k \in Keys, NEW kind \in FetchKinds, FetchEnds(k, kind)
      PROVE  EntriesAged'
  <2> DEFINE a == AnswerOf(k, kind)
  <2>1. a.kind = kind /\ a.at = now
    BY DEF AnswerOf
  <2>2. \A j \in Keys :
          \/ cache'[j] \in {None, cache[j]}
          \/ /\ kind # "timeout"
             /\ cache'[j] = [answer |-> a, expires |-> now + Lifetime(a)]
    BY <1>2, FetchKeeps
  <2> HIDE DEF a
  <2>3. SUFFICES ASSUME NEW j \in Keys, cache'[j] # None
                 PROVE  /\ cache'[j].answer.kind # "timeout"
                        /\ cache'[j].expires = cache'[j].answer.at + Lifetime(cache'[j].answer)
    BY DEF EntriesAged, Cached
  <2> QED
    BY <2>1, <2>2, <2>3 DEF EntriesAged, Cached
<1> QED
  BY <1>1, <1>2, CacheChanges

LEMMA NextBegunBefore ==
  ASSUME Typed, BegunBefore, Step
  PROVE  BegunBefore'
<1>1. /\ now \in Int /\ \A c \in Callers : called[c] \in Int
      /\ \A k \in Keys : InFlight(k) => flight[k].begun \in Int
  BY DEF Typed, Time, InFlight, Flight
<1>2. ASSUME NEW c \in Callers, Call(c)
      PROVE  BegunBefore'
  BY <1>1, <1>2 DEF Call, BegunBefore, Typed, InFlight
<1>3. ASSUME NEW c \in Callers, Hit(c) \/ Miss(c) \/ Join(c) \/ Finish(c) \/ HangUp(c)
      PROVE  BegunBefore'
  BY <1>3 DEF Hit, Miss, Join, Finish, HangUp, BegunBefore, InFlight, callVars
<1>4. ASSUME NEW c \in Callers, Lead(c)
      PROVE  BegunBefore'
  BY <1>1, <1>4 DEF Lead, BegunBefore, Typed, InFlight, callVars
<1>5. ASSUME NEW k \in Keys, NEW kind \in FetchKinds, FetchEnds(k, kind)
      PROVE  BegunBefore'
  BY <1>1, <1>5, FetchEffect DEF BegunBefore, Typed, InFlight, callVars
<1>6. ASSUME NEW k \in Keys, Land(k)
      PROVE  BegunBefore'
  BY <1>6 DEF Land, BegunBefore, Typed, InFlight, callVars
<1>7. CASE Tick
  BY <1>1, <1>7 DEF Tick, BegunBefore, InFlight, callVars
<1> QED
  BY <1>2, <1>3, <1>4, <1>5, <1>6, <1>7, StepKinds

LEMMA NextNobodyDawdles ==
  ASSUME Typed, CallersFlown, BegunBefore, NobodyDawdles, prompt, Step
  PROVE  NobodyDawdles'
<1>1. now \in Int /\ \A c \in Callers : called[c] \in Int /\ key[c] \in Keys
  BY DEF Typed, Time
<1>2. ASSUME NEW c \in Callers, Call(c)
      PROVE  NobodyDawdles'
  <2>1. /\ pc[c] = "idle" /\ pc' = [pc EXCEPT ![c] = "looking"]
        /\ called' = [called EXCEPT ![c] = now]
        /\ UNCHANGED <<now, cache, flight, got>>
    BY <1>2 DEF Call
  <2>2. \A d \in Callers : d # c => key'[d] = key[d]
    BY <1>2 DEF Call, Typed
  <2> QED
    BY <1>1, <2>1, <2>2 DEF NobodyDawdles, InFlight, Typed
<1>3. ASSUME NEW c \in Callers, Hit(c) \/ Miss(c) \/ Finish(c)
      PROVE  NobodyDawdles'
  BY <1>3 DEF Hit, Miss, Finish, Return, callVars, NobodyDawdles, InFlight, Typed
<1>4. ASSUME NEW c \in Callers, Lead(c)
      PROVE  NobodyDawdles'
  <2>1. /\ pc[c] = "missed" /\ flight[key[c]] = None
        /\ flight' = [flight EXCEPT ![key[c]] = [begun |-> now, answer |-> None]]
        /\ pc' = [pc EXCEPT ![c] = "waiting"]
        /\ UNCHANGED <<now, cache, got, result, callVars>>
    BY <1>4 DEF Lead, InFlight
  <2>2. \A d \in Callers : pc[d] = "waiting" => key[d] # key[c]
    BY <2>1 DEF CallersFlown, InFlight
  <2>3. called[c] = now
    BY <2>1 DEF NobodyDawdles
  <2> QED
    BY <1>1, <2>1, <2>2, <2>3 DEF NobodyDawdles, InFlight, Typed, callVars
<1>5. ASSUME NEW c \in Callers, Join(c)
      PROVE  NobodyDawdles'
  <2>1. flight[key[c]].begun \in Int /\ flight[key[c]].begun <= now
    BY <1>5 DEF Join, InFlight, Typed, Flight, Time, BegunBefore
  <2> QED
    BY <1>1, <1>5, <2>1 DEF Join, NobodyDawdles, InFlight, Typed, callVars
<1>6. ASSUME NEW c \in Callers, HangUp(c)
      PROVE  NobodyDawdles'
  BY <1>6 DEF HangUp, NobodyDawdles, InFlight, Typed
<1>7. ASSUME NEW k \in Keys, NEW kind \in FetchKinds, FetchEnds(k, kind)
      PROVE  NobodyDawdles'
  <2> DEFINE a == AnswerOf(k, kind)
  <2>1. a.at = now
    BY DEF AnswerOf
  <2>2. /\ flight' = [flight EXCEPT ![k] = [begun |-> flight[k].begun, answer |-> a]]
        /\ UNCHANGED <<now, pc, got, result, callVars>>
    BY <1>7, FetchEffect
  <2> HIDE DEF a
  <2> QED
    BY <1>1, <2>1, <2>2 DEF NobodyDawdles, InFlight, Typed, callVars
<1>8. ASSUME NEW k \in Keys, Land(k)
      PROVE  NobodyDawdles'
  <2>1. InFlight(k) /\ flight[k].answer.at = now
    BY <1>8 DEF Land, NobodyDawdles
  <2> QED
    BY <1>1, <1>8, <2>1 DEF Land, Aboard, NobodyDawdles, InFlight, Typed, callVars
<1>9. CASE Tick
  <2>1. ~Due /\ UNCHANGED <<cache, flight, pc, got, result, callVars>>
    BY <1>9 DEF Tick
  <2> QED
    BY <2>1 DEF Due, NobodyDawdles, InFlight, callVars
<1> QED
  BY <1>2, <1>3, <1>4, <1>5, <1>6, <1>7, <1>8, <1>9, StepKinds

\* A caller aboard waits no longer than the fetch of its flight may run.
LEMMA NextLookupsAreBounded ==
  ASSUME Typed, CallersFlown, BegunBefore, NobodyDawdles, LookupsAreBounded, prompt, Step
  PROVE  \A c \in Callers : pc'[c] # "idle" => now' <= called'[c] + Timeout
<1> SUFFICES ASSUME NEW c \in Callers, pc'[c] # "idle"
             PROVE  now' <= called'[c] + Timeout
  OBVIOUS
<1>1. /\ now \in Int /\ called[c] \in Int /\ Timeout \in Int /\ Timeout >= 0
      /\ key[c] \in Keys /\ pc[c] \in Points
  BY HttpSourceAssumption DEF Typed, Time
<1>2. pc[c] # "idle" => now <= called[c] + Timeout
  BY DEF LookupsAreBounded
<1>3. ASSUME NEW d \in Callers, Call(d)
      PROVE  now' <= called'[c] + Timeout
  <2>1. /\ pc' = [pc EXCEPT ![d] = "looking"] /\ called' = [called EXCEPT ![d] = now]
        /\ now' = now
    BY <1>3 DEF Call
  <2> QED
    BY <1>1, <1>2, <2>1 DEF Typed
<1>4. ASSUME NEW d \in Callers,
             Hit(d) \/ Miss(d) \/ Lead(d) \/ Join(d) \/ Finish(d) \/ HangUp(d)
      PROVE  now' <= called'[c] + Timeout
  <2>1. called' = called /\ now' = now /\ pc[c] # "idle"
    BY <1>4 DEF Hit, Miss, Lead, Join, Finish, HangUp, Return, callVars, Typed
  <2> QED
    BY <1>2, <2>1
<1>5. ASSUME NEW k \in Keys, NEW kind \in FetchKinds, FetchEnds(k, kind)
      PROVE  now' <= called'[c] + Timeout
  BY <1>2, <1>5 DEF FetchEnds, callVars
<1>6. ASSUME NEW k \in Keys, Land(k)
      PROVE  now' <= called'[c] + Timeout
  <2>1. called' = called /\ now' = now /\ pc[c] # "idle"
    BY <1>6 DEF Land, Aboard, callVars, Typed
  <2> QED
    BY <1>2, <2>1
<1>7. CASE Tick
  <2>1. ~Due /\ now' = now + 1 /\ pc[c] # "idle" /\ called' = called
    BY <1>7 DEF Tick, callVars
  <2>2. pc[c] = "waiting"
    BY <1>1, <2>1 DEF Due, Points
  <2>3. InFlight(key[c]) /\ flight[key[c]].begun <= called[c]
    BY <2>2 DEF CallersFlown, NobodyDawdles
  <2>4. flight[key[c]].begun \in Int
    BY <1>1, <2>3 DEF InFlight, Typed, Flight, Time
  <2>5. ~(now >= flight[key[c]].begun + Timeout)
    BY <1>1, <2>1, <2>3 DEF Due, Aborts
  <2> QED
    BY <1>1, <2>1, <2>3, <2>4, <2>5
<1> QED
  BY <1>3, <1>4, <1>5, <1>6, <1>7, StepKinds

-----------------------------------------------------------------------------
(* The theorems *)

LEMMA InitHttpSourceInv == Init => HttpSourceInv
<1> SUFFICES ASSUME Init
             PROVE  HttpSourceInv
  OBVIOUS
<1>1. 0 \in Time /\ 0 \in 0 .. MaxLookups
  BY HttpSourceAssumption DEF Time
<1>2. Typed
  BY <1>1 DEF Init, Typed, Points
<1>3. CachedKeys = {}
  BY DEF Init, CachedKeys, Cached
<1>4. IsFiniteSet(CachedKeys) /\ Cardinality(CachedKeys) = 0
  BY <1>3, FS_EmptySet
<1>5. CacheIsFinite /\ CacheBounded
  BY <1>4, HttpSourceAssumption DEF CacheIsFinite, CacheBounded
<1>6. \A c \in Callers : pc[c] = "idle"
  BY DEF Init
<1>7. CallersFlown
  BY <1>6 DEF CallersFlown
<1>8. AnswersRan /\ EntriesAged
  BY DEF Init, AnswersRan, EntriesAged, InFlight, Cached
<1>9. BegunBefore /\ NobodyDawdles /\ LookupsAreBounded
  BY <1>6 DEF Init, BegunBefore, NobodyDawdles, LookupsAreBounded, InFlight
<1> QED
  BY <1>2, <1>5, <1>7, <1>8, <1>9, TypeOKParts DEF HttpSourceInv

LEMMA NextHttpSourceInv == HttpSourceInv /\ [Next]_vars => HttpSourceInv'
<1> SUFFICES ASSUME HttpSourceInv, [Next]_vars
             PROVE  HttpSourceInv'
  OBVIOUS
<1>1. Typed /\ CallersFlown /\ CacheBounded
  BY TypeOKParts DEF HttpSourceInv
<1>2. CASE Next
  <2>1. Step /\ prompt' = prompt
    BY <1>2 DEF Next
  <2>2. Typed' /\ CallersFlown' /\ CacheBounded' /\ CacheIsFinite'
    BY <1>1, <2>1, NextTyped, NextCallersFlown, NextCacheBounded DEF HttpSourceInv
  <2>3. TypeOK'
    BY <2>2, TypeOKParts, PTL
  <2>4. AnswersRan' /\ EntriesAged' /\ BegunBefore'
    BY <1>1, <2>1, NextAnswersRan, NextEntriesAged, NextBegunBefore DEF HttpSourceInv
  <2>5. prompt' => NobodyDawdles'
    BY <1>1, <2>1, NextNobodyDawdles DEF HttpSourceInv
  <2>6. LookupsAreBounded'
    BY <1>1, <2>1, NextLookupsAreBounded DEF HttpSourceInv, LookupsAreBounded
  <2> QED
    BY <2>2, <2>3, <2>4, <2>5, <2>6 DEF HttpSourceInv
<1>3. CASE UNCHANGED vars
  BY <1>3 DEF vars, callVars, HttpSourceInv, TypeOK, InFlight, Cached, AnswersRan,
              EntriesAged, CacheIsFinite, CachedKeys, BegunBefore, NobodyDawdles,
              LookupsAreBounded
<1> QED
  BY <1>2, <1>3

\* Whatever flights end at once, a caller that waits is aboard a flight of its
\* key, and the cache never holds more than cache.maxEntries.
THEOREM HttpSourceTypes == Spec => []TypeOK
<1>1. HttpSourceInv => TypeOK
  BY DEF HttpSourceInv
<1> QED
  BY InitHttpSourceInv, NextHttpSourceInv, <1>1, PTL DEF Spec

\* Nobody is told of a timeout but by a fetch that did run for the source's whole
\* timeout, whoever went away meanwhile.
THEOREM CallersTakeNobodyWithThem == Spec => []OnlyTheSourceTimesOut
<1>1. HttpSourceInv => OnlyTheSourceTimesOut
  BY DEF HttpSourceInv, AnswersRan, Ran, OnlyTheSourceTimesOut, Answers
<1> QED
  BY InitHttpSourceInv, NextHttpSourceInv, <1>1, PTL DEF Spec

\* If no goroutine that can run is left waiting, no Lookup outlasts the source's
\* timeout, whichever flight it joins and even if the upstream never answers.
THEOREM EveryLookupIsBounded == Spec => []LookupsAreBounded
<1>1. HttpSourceInv => LookupsAreBounded
  BY DEF HttpSourceInv
<1> QED
  BY InitHttpSourceInv, NextHttpSourceInv, <1>1, PTL DEF Spec

\* A Lookup returns by a hit in the cache or when its flight has landed.
LEMMA WhatReturns ==
  ASSUME Typed, CallersFlown, Next, NEW c \in Callers, Returns(c)
  PROVE  \/ /\ Live(key[c]) /\ Cached(key[c]) /\ key[c] \in Keys
            /\ result'[c] = cache[key[c]].answer
         \/ pc[c] = "landed" /\ result'[c] = Told(c)
<1>1. pc[c] # "idle" /\ pc'[c] = "idle"
  BY DEF Returns
<1>2. \E d \in Callers : Hit(d) \/ Finish(d)
  BY <1>1, StepKinds DEF Next, Call, Miss, Lead, Join, HangUp, FetchEnds, Land, Tick,
                         callVars, Typed
<1>3. Hit(c) \/ Finish(c)
  BY <1>1, <1>2 DEF Hit, Finish, Return, Typed
<1>4. CASE Hit(c)
  BY <1>4, HitsHaveAnswers DEF Hit, Return, Typed
<1>5. CASE Finish(c)
  BY <1>5 DEF Finish, Return, Typed, Told
<1> QED
  BY <1>3, <1>4, <1>5

\* What a Lookup of a prompt system returns: an answer as young as its kind may
\* be, and a timeout only if it happened since the Lookup began.
LEMMA ReturnsAreSound ==
  ASSUME HttpSourceInv, [Next]_vars, NEW c \in Callers, prompt, Returns(c)
  PROVE  LET a == result'[c]
         IN  /\ a.kind = "timeout" => a.at >= called[c]
             /\ now - a.at <= IF a.kind = "failure" THEN NegativeTTL ELSE TTL
<1>1. Typed /\ CallersFlown /\ now \in Int /\ called[c] <= now
  BY TypeOKParts DEF HttpSourceInv, BegunBefore, Typed, Time
<1>2. Next
  BY DEF Returns, vars
<1>3. CASE /\ Live(key[c]) /\ Cached(key[c]) /\ key[c] \in Keys
           /\ result'[c] = cache[key[c]].answer
  <2> DEFINE e == cache[key[c]]
  <2>1. e \in Entry
    BY <1>1, <1>3 DEF Typed, Cached
  <2>2. /\ now <= e.expires /\ e.answer.kind # "timeout"
        /\ e.expires = e.answer.at + Lifetime(e.answer)
    BY <1>3 DEF Live, HttpSourceInv, EntriesAged
  <2>3. e.answer.at \in Int /\ e.expires \in Int /\ Lifetime(e.answer) \in Int
    BY <2>1, LifetimeIsNat DEF Entry, Answer, Time
  <2>4. now - e.answer.at <= Lifetime(e.answer)
    BY <1>1, <2>2, <2>3
  <2> QED
    BY <1>3, <2>2, <2>4 DEF Lifetime
<1>4. CASE pc[c] = "landed" /\ result'[c] = Told(c)
  <2>1. result'[c].at = now
    BY <1>1, <1>4, ToldAnswers DEF HttpSourceInv, NobodyDawdles
  <2>2. now - now = 0 /\ now >= called[c]
    BY <1>1 DEF Typed, Time
  <2> QED
    BY <1>1, <2>1, <2>2, HttpSourceAssumption
<1> QED
  BY <1>1, <1>2, <1>3, <1>4, WhatReturns

\* One timeout is no outage: it is told only to callers whose Lookup began before
\* it, and never from the cache.
THEOREM TimeoutsAreNeverKept == Spec => TimeoutsAreForgotten
<1>1. HttpSourceInv /\ [Next]_vars =>
        [\A c \in Callers : prompt /\ Returns(c) /\ result'[c].kind = "timeout"
                              => result'[c].at >= called[c]]_vars
  BY ReturnsAreSound
<1> QED
  BY InitHttpSourceInv, NextHttpSourceInv, <1>1, PTL DEF Spec, TimeoutsAreForgotten

\* No Lookup returns an answer older than ttl, or than negativeTTL for a failure.
THEOREM NoStaleResult == Spec => ResultsAreFresh
<1>1. HttpSourceInv /\ [Next]_vars =>
        [\A c \in Callers : prompt /\ Returns(c) =>
           LET a == result'[c]
           IN  now - a.at <= IF a.kind = "failure" THEN NegativeTTL ELSE TTL]_vars
  BY ReturnsAreSound
<1> QED
  BY InitHttpSourceInv, NextHttpSourceInv, <1>1, PTL DEF Spec, ResultsAreFresh
=============================================================================
