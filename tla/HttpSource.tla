----------------------------- MODULE HttpSource -----------------------------
(***************************************************************************)
(* The HTTP lookup source in internal/source/http/http.go: concurrent      *)
(* Lookups share a bounded cache, under a mutex, and one fetch per key,    *)
(* through a singleflight group.  The fetch runs on a context of its own,  *)
(* bounded by the source's timeout; each caller's context ends with the    *)
(* budget of its batch or when its client hangs up.                        *)
(*                                                                         *)
(* now counts ticks.  What a fetch came to is an answer: a value, absent   *)
(* (404), a failure of the upstream, or the source's own timeout; a caller *)
(* may be told "context" instead.  called, result and an answer's begun    *)
(* and at are kept for the properties.  The definitions commented "Mutant" *)
(* are deliberate faults no action uses.                                   *)
(***************************************************************************)
EXTENDS Integers, FiniteSets

CONSTANTS Callers,      \* goroutines of the errgroups that look something up
          Keys,         \* method and rendered URL, of an allowed host
          TTL, NegativeTTL, Timeout, MaxEntries,  \* the source's settings
          Budget,       \* enrichment.timeout
          Horizon,      \* bound: ticks
          MaxLookups,   \* bound: lookups of one caller
          None

ASSUME HttpSourceAssumption ==
  /\ TTL \in Nat /\ NegativeTTL \in Nat /\ Timeout \in Nat /\ MaxEntries \in Nat
  /\ Budget \in Nat /\ Horizon \in Nat /\ MaxLookups \in Nat

Time == 0 .. Horizon
Answer == [kind : {"value", "absent", "failure", "timeout", "context"},
           begun : Time, at : Time]
Entry == [answer : Answer, expires : Nat]
Flight == [begun : Time, answer : Answer \cup {None}]

ASSUME NoneAssumption == None \notin Answer \cup Entry \cup Flight

VARIABLES
  prompt,   \* no goroutine that can run is left waiting for a tick: kept apart
            \* because only then can the length of a Lookup be told
  now,
  cache,    \* the entry of each key, or None
  flight,   \* the fetch under way of each key: when it began, the cached answer
  pc,       \* control point of each caller's Lookup
  key,      \* its key
  called,   \* when it began
  started,  \* when its batch's enrichment began
  hungUp,   \* its client is gone
  got,      \* what the flight it took part in came to
  result,   \* what its last Lookup returned
  lookups   \* how many Lookups it has made

vars == <<prompt, now, cache, flight, pc, key, called, started, hungUp, got, result,
          lookups>>
callVars == <<key, called, started, hungUp, lookups>>

Cached(k) == cache[k] # None
Live(k) == Cached(k) /\ now <= cache[k].expires
InFlight(k) == flight[k] # None

\* The caller's context is done.
Done(c) == hungUp[c] \/ now >= started[c] + Budget

\* Mutant: the fetch inherits the context of a caller that waits for it.
AbortsWithCaller(k) ==
  \/ now >= flight[k].begun + Timeout
  \/ \E c \in Callers : pc[c] = "waiting" /\ key[c] = k /\ Done(c)

\* Mutant: nothing bounds the fetch.
AbortsNever(k) == FALSE

\* context.WithoutCancel: only the source's own timeout ends a fetch.
Aborts(k) == now >= flight[k].begun + Timeout

\* Mutant: a timeout is remembered like any failure.
CacheableAlways(a) == TRUE

Cacheable(a) == a.kind # "timeout"

\* Mutant: a failure lives as long as a success.
LifetimeOfSuccess(a) == TTL

Lifetime(a) == IF a.kind = "failure" THEN NegativeTTL ELSE TTL

Full == MaxEntries > 0 /\ Cardinality({k \in Keys : Cached(k)}) >= MaxEntries

Expired == {k \in Keys : Cached(k) /\ ~Live(k)}

\* What a full cache makes room with: all that has expired, or else any entry.
Evictions ==
  IF ~Full THEN {{}}
  ELSE IF Expired # {} THEN {Expired} ELSE {{k} : k \in {j \in Keys : Cached(j)}}

\* cacheSet, in one critical section.
CacheSet(k, a) ==
  IF Cacheable(a)
  THEN \E E \in Evictions :
         cache' = [j \in Keys |-> IF j = k THEN [answer |-> a, expires |-> now + Lifetime(a)]
                                  ELSE IF j \in E THEN None ELSE cache[j]]
  ELSE UNCHANGED cache

\* Mutant: callers whose context is done are not woken.
AboardStillInterested(k) ==
  {c \in Callers : pc[c] = "waiting" /\ key[c] = k /\ ~Done(c)}

\* The callers that take part in the flight of k.
Aboard(k) == {c \in Callers : pc[c] = "waiting" /\ key[c] = k}

Init ==
  /\ prompt \in BOOLEAN
  /\ now = 0
  /\ cache = [k \in Keys |-> None] /\ flight = [k \in Keys |-> None]
  /\ pc = [c \in Callers |-> "idle"]
  /\ key \in [Callers -> Keys]
  /\ called = [c \in Callers |-> 0]
  /\ started = [c \in Callers |-> 0] /\ hungUp = [c \in Callers |-> FALSE]
  /\ got = [c \in Callers |-> None] /\ result = [c \in Callers |-> None]
  /\ lookups = [c \in Callers |-> 0]

\* A rule needs the source, in a new batch or in the same, whose context may be
\* done: Apply does not look at it.  A URL that does not render or names a host
\* that is not allowed changes nothing.
Call(c) ==
  /\ pc[c] = "idle" /\ lookups[c] < MaxLookups
  /\ key' \in {[key EXCEPT ![c] = k] : k \in Keys}
  /\ \/ started' = [started EXCEPT ![c] = now] /\ hungUp' = [hungUp EXCEPT ![c] = FALSE]
     \/ UNCHANGED <<started, hungUp>>
  /\ called' = [called EXCEPT ![c] = now]
  /\ pc' = [pc EXCEPT ![c] = "looking"]
  /\ result' = [result EXCEPT ![c] = None]
  /\ lookups' = [lookups EXCEPT ![c] = @ + 1]
  /\ UNCHANGED <<now, cache, flight, got>>

Return(c, r) ==
  /\ result' = [result EXCEPT ![c] = r]
  /\ got' = [got EXCEPT ![c] = None]
  /\ pc' = [pc EXCEPT ![c] = "idle"]

\* cacheGet: a live entry is returned whatever the caller's context says.
Hit(c) ==
  /\ pc[c] = "looking" /\ Live(key[c])
  /\ Return(c, cache[key[c]].answer)
  /\ UNCHANGED <<now, cache, flight, callVars>>

Miss(c) ==
  /\ pc[c] = "looking" /\ ~Live(key[c])
  /\ pc' = [pc EXCEPT ![c] = "missed"]
  /\ UNCHANGED <<now, cache, flight, got, result, callVars>>

\* group.Do: start the flight of the key, or wait for the one there is.
Lead(c) ==
  /\ pc[c] = "missed" /\ ~InFlight(key[c])
  /\ flight' = [flight EXCEPT ![key[c]] = [begun |-> now, answer |-> None]]
  /\ pc' = [pc EXCEPT ![c] = "waiting"]
  /\ UNCHANGED <<now, cache, got, result, callVars>>

Join(c) ==
  /\ pc[c] = "missed" /\ InFlight(key[c])
  /\ pc' = [pc EXCEPT ![c] = "waiting"]
  /\ UNCHANGED <<now, cache, flight, got, result, callVars>>

\* The fetch of k ends, and caches what is worth remembering.
FetchEnds(k, kind) ==
  /\ InFlight(k) /\ flight[k].answer = None
  /\ LET a == [kind |-> kind, begun |-> flight[k].begun, at |-> now]
     IN  /\ flight' = [flight EXCEPT ![k].answer = a]
         /\ CacheSet(k, a)
  /\ UNCHANGED <<now, pc, got, result, callVars>>

Respond(k) == \E kind \in {"value", "absent", "failure"} : FetchEnds(k, kind)

TimeOut(k) == InFlight(k) /\ Aborts(k) /\ FetchEnds(k, "timeout")

\* singleflight hands the answer to every caller in the flight and forgets it.
Land(k) ==
  /\ InFlight(k) /\ flight[k].answer # None
  /\ got' = [c \in Callers |-> IF c \in Aboard(k) THEN flight[k].answer ELSE got[c]]
  /\ pc' = [c \in Callers |-> IF c \in Aboard(k) THEN "landed" ELSE pc[c]]
  /\ flight' = [flight EXCEPT ![k] = None]
  /\ UNCHANGED <<now, cache, result, callVars>>

\* An error is returned as it is; a value only if the context is not done.
Finish(c) ==
  /\ pc[c] = "landed"
  /\ Return(c, IF got[c].kind \in {"value", "absent"} /\ Done(c)
               THEN [got[c] EXCEPT !.kind = "context"] ELSE got[c])
  /\ UNCHANGED <<now, cache, flight, callVars>>

HangUp(c) ==
  /\ pc[c] # "idle" /\ ~hungUp[c]
  /\ hungUp' = [hungUp EXCEPT ![c] = TRUE]
  /\ UNCHANGED <<now, cache, flight, pc, key, called, started, got, result, lookups>>

\* Something is due before the next tick.
Due == \/ \E c \in Callers : pc[c] \in {"looking", "missed", "landed"}
       \/ \E k \in Keys : InFlight(k) /\ (flight[k].answer # None \/ Aborts(k))

Tick ==
  /\ now < Horizon /\ (prompt => ~Due)
  /\ now' = now + 1
  /\ UNCHANGED <<cache, flight, pc, got, result, callVars>>

Step ==
  \/ \E c \in Callers : \/ Call(c) \/ Hit(c) \/ Miss(c) \/ Lead(c) \/ Join(c)
                        \/ Finish(c) \/ HangUp(c)
  \/ \E k \in Keys : Respond(k) \/ TimeOut(k) \/ Land(k)
  \/ Tick

Next == Step /\ UNCHANGED prompt

Spec == Init /\ [][Next]_vars

-----------------------------------------------------------------------------
(* Properties *)

\* Types; a caller that waits is aboard a flight of its key, and the cache never
\* outgrows cache.maxEntries, however many flights end at once.
TypeOK ==
  /\ prompt \in BOOLEAN
  /\ now \in Time
  /\ cache \in [Keys -> Entry \cup {None}]
  /\ flight \in [Keys -> Flight \cup {None}]
  /\ pc \in [Callers -> {"idle", "looking", "missed", "waiting", "landed"}]
  /\ key \in [Callers -> Keys]
  /\ called \in [Callers -> Time] /\ started \in [Callers -> Time]
  /\ hungUp \in [Callers -> BOOLEAN] /\ lookups \in [Callers -> 0 .. MaxLookups]
  /\ got \in [Callers -> Answer \cup {None}] /\ result \in [Callers -> Answer \cup {None}]
  /\ \A c \in Callers : /\ pc[c] = "waiting" => InFlight(key[c])
                        /\ pc[c] = "landed" => got[c] # None
  /\ MaxEntries > 0 => Cardinality({k \in Keys : Cached(k)}) <= MaxEntries

\* Every answer in the source, given or kept.
Answers ==
  ({flight[k].answer : k \in {j \in Keys : InFlight(j)}}
     \cup {cache[k].answer : k \in {j \in Keys : Cached(j)}}
     \cup {got[c] : c \in Callers} \cup {result[c] : c \in Callers}) \ {None}

\* A caller that goes away takes nobody with it: whoever is told that the fetch
\* timed out shared a fetch that did run for the source's whole timeout
\* (http.go:100-106).
OnlyTheSourceTimesOut ==
  \A a \in Answers : a.kind = "timeout" => a.at >= a.begun + Timeout

Returns(c) == pc[c] # "idle" /\ pc'[c] = "idle"

\* One slow or abandoned fetch is no outage: a timeout is only ever told to
\* callers whose Lookup began before it (http.go:203-206).
TimeoutsAreForgotten ==
  [][\A c \in Callers : prompt /\ Returns(c) /\ result'[c].kind = "timeout"
                          => result'[c].at >= called[c]]_vars

\* No Lookup returns an answer older than the lifetime of its kind
\* (docs/configuration.md:153-154).
ResultsAreFresh ==
  [][\A c \in Callers : prompt /\ Returns(c) =>
       LET a == result'[c]
       IN  now - a.at <= IF a.kind = "failure" THEN NegativeTTL ELSE TTL]_vars

\* The source's timeout bounds every Lookup, joined flights included, even if
\* the upstream never answers.
LookupsAreBounded ==
  prompt => \A c \in Callers : pc[c] # "idle" => now <= called[c] + Timeout
=============================================================================
