--------------------------- MODULE EvaluateProofs ---------------------------
(***************************************************************************)
(* Theorems about Evaluate, for any EnrichmentRules, policies and caps and *)
(* for any number of evaluations under way while the cache changes.        *)
(***************************************************************************)
EXTENDS Evaluate, FiniteSetTheorems, SequenceTheorems, NaturalsInduction, TLAPS

-----------------------------------------------------------------------------
(* The first members of a set of numbers *)

\* A set of numbers that is not empty has a least member.
LEMMA LeastPosition ==
  ASSUME NEW T \in SUBSET Nat, T # {}
  PROVE  \E x \in T : \A y \in T : x <= y
<1> DEFINE R == {ss \in Nat \X Nat : ss[1] < ss[2]}
<1>1. IsWellFoundedOn(R, Nat)
  BY NatLessThanWellFounded DEF OpToRel
<1> HIDE DEF R
<1>2. PICK x \in T : \A y \in T : ~(<<y, x>> \in R)
  BY <1>1, WFMin
<1>3. \A y \in T : ~(y < x)
  BY <1>2 DEF R
<1> QED
  BY <1>2, <1>3

\* A number above all of S is among the first k of S and itself if S has fewer.
LEMMA FirstAdd ==
  ASSUME NEW k \in Nat, NEW S \in SUBSET Nat, NEW N \in Nat, \A i \in S : i < N
  PROVE  First(k, S \cup {N}) =
           First(k, S) \cup IF k = 0 \/ Cardinality(S) < k THEN {N} ELSE {}
<1>1. \A i \in S : {j \in S \cup {N} : j < i} = {j \in S : j < i}
  OBVIOUS
<1>2. {j \in S \cup {N} : j < N} = S
  <2>1. \A j \in S \cup {N} : j < N <=> j \in S
    OBVIOUS
  <2> QED
    BY <2>1
<1>3. \A i \in S : i \in First(k, S \cup {N}) <=> i \in First(k, S)
  BY <1>1 DEF First
<1>4. N \in First(k, S \cup {N}) <=> k = 0 \/ Cardinality(S) < k
  BY <1>2 DEF First
<1>5. First(k, S \cup {N}) \subseteq S \cup {N} /\ First(k, S) \subseteq S
  BY DEF First
<1> QED
  BY <1>3, <1>4, <1>5

\* If the first k of S are fewer than k they are all of S.
LEMMA FirstAll ==
  ASSUME NEW k \in Nat, NEW S \in SUBSET Nat, IsFiniteSet(S)
  PROVE  /\ First(k, S) \subseteq S
         /\ k = 0 \/ Cardinality(First(k, S)) < k => First(k, S) = S
         /\ k > 0 => (Cardinality(First(k, S)) < k <=> Cardinality(S) < k)
<1>1. First(k, S) \subseteq S
  BY DEF First
<1>2. /\ IsFiniteSet(First(k, S))
      /\ Cardinality(First(k, S)) \in Nat /\ Cardinality(S) \in Nat
      /\ Cardinality(First(k, S)) <= Cardinality(S)
  BY <1>1, FS_Subset, FS_CardinalityType
<1>3. ASSUME k = 0 \/ Cardinality(First(k, S)) < k
      PROVE  First(k, S) = S
  <2>1. CASE k = 0
    BY <2>1 DEF First
  <2>2. CASE k > 0 /\ First(k, S) # S
    <3> DEFINE T == S \ First(k, S)
    <3>1. PICK i \in T : \A j \in T : i <= j
      <4>1. T \in SUBSET Nat /\ T # {}
        BY <1>1, <2>2
      <4> QED
        BY <4>1, LeastPosition
    <3>2. {j \in S : j < i} \subseteq First(k, S)
      <4> SUFFICES ASSUME NEW j \in S, j < i, j \notin First(k, S) PROVE FALSE
        OBVIOUS
      <4>1. i <= j /\ i \in Nat /\ j \in Nat
        BY <3>1
      <4> QED
        BY <4>1
    <3>3. Cardinality({j \in S : j < i}) <= Cardinality(First(k, S))
            /\ Cardinality({j \in S : j < i}) \in Nat
      BY <1>2, <3>2, FS_Subset, FS_CardinalityType
    <3>4. ~(Cardinality({j \in S : j < i}) < k)
      BY <3>1 DEF First
    <3> QED
      BY <1>2, <1>3, <2>2, <3>3, <3>4
  <2> QED
    BY <2>1, <2>2
<1> QED
  BY <1>1, <1>2, <1>3

-----------------------------------------------------------------------------
(* Lemmas about policies *)

\* The limit of a profile is a number, 0 for one that could not be read.
LEMMA LimitType ==
  ASSUME NEW p
  PROVE  Limit(p) \in Nat
<1>1. CASE Selecting(p) = {}
  BY <1>1 DEF Limit
<1>2. CASE Selecting(p) # {}
  <2>1. Selecting(p) \in SUBSET Nat /\ Selecting(p) \subseteq DOMAIN Policies
    BY EnforceAssumption DEF Selecting
  <2>2. \E q \in Selecting(p) : \A r \in Selecting(p) : q <= r
    BY <1>2, <2>1, LeastPosition
  <2>3. PICK q \in DOMAIN Policies : SelectPolicy(p) = Policies[q]
    BY <2>1, <2>2 DEF SelectPolicy
  <2>4. Policies[q] \in Policy
    BY EnforceAssumption
  <2> QED
    BY <1>2, <2>3, <2>4 DEF Limit, Policy
<1> QED
  BY <1>1, <1>2

\* A count is a number, and 0 where there is nothing to count.
LEMMA CountType ==
  ASSUME NEW e, NEW n, NEW rs
  PROVE  /\ Count(e, n, rs) \in Nat
         /\ (\A c \in CRs : NsOf[c] = n => decisions[e][c] \notin rs) => Count(e, n, rs) = 0
<1> DEFINE S == {c \in CRs : NsOf[c] = n /\ decisions[e][c] \in rs}
<1>1. IsFiniteSet(S)
  BY EvaluateAssumption, FS_Subset
<1>2. Cardinality(S) \in Nat
  BY <1>1, FS_CardinalityType
<1>3. (\A c \in CRs : NsOf[c] = n => decisions[e][c] \notin rs) => S = {}
  OBVIOUS
<1> QED
  BY <1>2, <1>3, FS_EmptySet DEF Count

-----------------------------------------------------------------------------
(* The inductive invariant *)

\* The types that TypeOK has no need of.
MoreTypes == out \in [Evaluations -> Seq(CRs)] /\ next \in [Evaluations -> Nat]

\* The positions of the candidates judged so far, the verdict on one and its
\* namespace.
JudgedTo(e) == 1 .. next[e] - 1
VerdictOn(e, i) == decisions[e][candidates[e][i].cr]
Home(e, i) == NsOf[candidates[e][i].cr]

\* An EnrichmentRule is a candidate once at most, and it takes a turn to be
\* decided on.
ListedOnce(e) ==
  /\ \A i \in DOMAIN candidates[e], j \in DOMAIN candidates[e] :
       candidates[e][i].cr = candidates[e][j].cr => i = j
  /\ \A c \in CRs : decisions[e][c] \notin {Absent, "DecodeError"} =>
       \E i \in JudgedTo(e) : candidates[e][i].cr = c

\* Every verdict is right by the labels that are known now.
VerdictsStand(e) ==
  \A i \in JudgedTo(e) :
    /\ VerdictOn(e, i) \notin {Absent, "DecodeError"}
    /\ VerdictOn(e, i) # "NamespaceUnreadable" =>
         /\ known[e][Home(e, i)] # Absent
         /\ Accepted(candidates[e][i].rule, known[e][Home(e, i)])
              <=> VerdictOn(e, i) \in {"Compiled", "MaxRulesExceeded"}

PermittedTo(e, n) ==
  {i \in JudgedTo(e) :
     Home(e, i) = n /\ VerdictOn(e, i) \in {"Compiled", "MaxRulesExceeded"}}

PassingTo(e) ==
  UNION {First(Limit(known[e][n]), PermittedTo(e, n)) : n \in Namespaces}

CompiledTo(e) == {i \in JudgedTo(e) : VerdictOn(e, i) = "Compiled"}

\* TheCutIsExact while the candidates are still being judged.
CutSoFar(e) ==
  /\ CompiledTo(e) = First(MaxRules, PassingTo(e))
  /\ Len(out[e]) = Cardinality(CompiledTo(e))

\* An evaluation returns when every candidate has been judged.
AllJudged(e) == phase[e] = "returned" => next[e] = Len(candidates[e]) + 1

\* A namespace that had no rule last time has no gauge that is not zero.
UnseenAreZero ==
  \A n \in Namespaces \ seen : gauges[n] = [accepted |-> 0, rejected |-> 0]

EvaluationOK(e) == ListedOnce(e) /\ VerdictsStand(e) /\ CutSoFar(e) /\ AllJudged(e)

EvaluateInv ==
  /\ TypeOK /\ MoreTypes /\ UnseenAreZero
  /\ \A e \in Evaluations : EvaluationOK(e)

-----------------------------------------------------------------------------
(* Initially, and steps that leave an evaluation as it is *)

\* An evaluation that has judged nothing is as it should be.
NothingSoFar(e) ==
  /\ next[e] = 1 /\ out[e] = <<>> /\ phase[e] # "returned"
  /\ \A c \in CRs : decisions[e][c] \in {Absent, "DecodeError"}
  /\ \A i \in DOMAIN candidates[e], j \in DOMAIN candidates[e] :
       candidates[e][i].cr = candidates[e][j].cr => i = j

LEMMA NothingJudged ==
  ASSUME NEW e
  PROVE  NothingSoFar(e) => EvaluationOK(e)
<1> SUFFICES ASSUME NothingSoFar(e) PROVE EvaluationOK(e)
  OBVIOUS
<1> USE DEF NothingSoFar
<1>1. JudgedTo(e) = {}
  BY DEF JudgedTo
<1>2. ListedOnce(e) /\ VerdictsStand(e) /\ AllJudged(e)
  BY <1>1 DEF ListedOnce, VerdictsStand, AllJudged
<1>3. CompiledTo(e) = {} /\ \A n : PermittedTo(e, n) = {}
  BY <1>1 DEF CompiledTo, PermittedTo
<1>4. \A k : First(k, {}) = {}
  BY DEF First
<1>5. PassingTo(e) = {}
  <2>1. \A n : First(Limit(known[e][n]), PermittedTo(e, n)) = {}
    BY <1>3, <1>4
  <2> QED
    BY <2>1 DEF PassingTo
<1>6. CutSoFar(e)
  BY <1>3, <1>4, <1>5, FS_EmptySet DEF CutSoFar
<1> QED
  BY <1>2, <1>6 DEF EvaluationOK

LEMMA NothingJudgedThen ==
  ASSUME NEW e
  PROVE  NothingSoFar(e)' => EvaluationOK(e)'
<1>1. NothingSoFar(e) => EvaluationOK(e)
  BY NothingJudged
<1> QED
  BY <1>1, PTL

LEMMA InitEvaluateInv == Init => EvaluateInv
<1> SUFFICES ASSUME Init PROVE EvaluateInv
  OBVIOUS
<1>1. "Compiled" # Absent
  BY EvaluateAssumption DEF Reasons
<1>2. /\ store \in [CRs -> Specs \cup {Undecodable, Absent}]
      /\ profiles \in [Namespaces -> Profiles \cup {Absent}]
      /\ changes \in 0 .. MaxChanges /\ seen \subseteq Namespaces
  BY EvaluateAssumption DEF Init
<1>3. /\ phase \in [Evaluations -> {"idle", "judging", "returned"}]
      /\ candidates \in [Evaluations -> Seq(Candidate)]
      /\ decisions \in [Evaluations -> [CRs -> Reasons \cup {Absent}]]
      /\ gauges \in [Namespaces -> [accepted : Nat, rejected : Nat]]
  BY DEF Init
<1>4. known \in [Evaluations -> [Namespaces -> Profiles \cup {Absent}]]
  BY DEF Init
<1>5. \A e \in Evaluations : /\ next[e] \in 1 .. Len(candidates[e]) + 1
                             /\ Range(out[e]) = {c \in CRs : decisions[e][c] = "Compiled"}
  BY <1>1 DEF Init, Range
<1>6. TypeOK
  BY <1>2, <1>3, <1>4, <1>5 DEF TypeOK
<1>7. MoreTypes /\ UnseenAreZero
  BY DEF Init, MoreTypes, UnseenAreZero
<1>8. \A e \in Evaluations : EvaluationOK(e)
  BY NothingJudged DEF Init, NothingSoFar
<1> QED
  BY <1>6, <1>7, <1>8 DEF EvaluateInv

\* Nothing but its own steps touches an evaluation.
LEMMA Untouched ==
  ASSUME NEW f \in Evaluations, EvaluationOK(f),
         candidates'[f] = candidates[f], next'[f] = next[f], decisions'[f] = decisions[f],
         known'[f] = known[f], out'[f] = out[f],
         phase'[f] = phase[f]
  PROVE  EvaluationOK(f)'
<1>1. JudgedTo(f)' = JudgedTo(f)
  BY DEF JudgedTo
<1>2. \A i : VerdictOn(f, i)' = VerdictOn(f, i) /\ Home(f, i)' = Home(f, i)
  BY DEF VerdictOn, Home
<1>3. ListedOnce(f)' /\ AllJudged(f)'
  BY <1>1 DEF EvaluationOK, ListedOnce, AllJudged
<1>4. VerdictsStand(f)'
  BY <1>1, <1>2 DEF EvaluationOK, VerdictsStand
<1>5. CompiledTo(f)' = CompiledTo(f) /\ \A n : PermittedTo(f, n)' = PermittedTo(f, n)
  BY <1>1, <1>2 DEF CompiledTo, PermittedTo
<1>6. PassingTo(f)' = PassingTo(f)
  BY <1>5 DEF PassingTo
<1>7. CutSoFar(f)'
  BY <1>5, <1>6 DEF EvaluationOK, CutSoFar
<1> QED
  BY <1>3, <1>4, <1>7 DEF EvaluationOK

-----------------------------------------------------------------------------
(* The steps of an evaluation *)

\* What a list of the cache leaves evaluation e with.
LEMMA ListEffect ==
  ASSUME EvaluateInv, NEW e \in Evaluations, List(e)
  PROVE  /\ phase'[e] = "judging" /\ next'[e] = 1 /\ out'[e] = <<>>
         /\ candidates'[e] \in Seq(Candidate)
         /\ \A i \in DOMAIN candidates'[e], j \in DOMAIN candidates'[e] :
              candidates'[e][i].cr = candidates'[e][j].cr => i = j
         /\ decisions'[e] \in [CRs -> {"DecodeError", Absent}]
         /\ known'[e] \in [Namespaces -> {Absent}]
         /\ \A f \in Evaluations \ {e} :
              /\ phase'[f] = phase[f] /\ next'[f] = next[f] /\ out'[f] = out[f]
              /\ candidates'[f] = candidates[f] /\ decisions'[f] = decisions[f]
              /\ known'[f] = known[f]
<1> DEFINE decoded == {c \in CRs : store[c] \in Specs}
           candidate == [c \in decoded |->
                          [cr |-> c, order |-> store[c].order, rule |-> store[c].rule]]
           S == {[cr |-> c, order |-> store[c].order, rule |-> store[c].rule] : c \in decoded}
<1>1. PICK s \in Sorted(S) : candidates' = [candidates EXCEPT ![e] = s]
  BY DEF List
<1>2. IsFiniteSet(decoded)
  BY EvaluateAssumption, FS_Subset
<1>3. candidate \in Surjection(decoded, S)
  BY DEF Surjection
<1>4. IsFiniteSet(S) /\ Cardinality(S) \in Nat
  <2> HIDE DEF decoded, candidate, S
  <2>1. IsFiniteSet(S)
    BY <1>2, <1>3, FS_Surjection
  <2> QED
    BY <2>1, FS_CardinalityType
<1>5. S \subseteq Candidate
  <2> SUFFICES ASSUME NEW c \in decoded
               PROVE  [cr |-> c, order |-> store[c].order, rule |-> store[c].rule] \in Candidate
    OBVIOUS
  <2>1. store[c] \in [order : Nat, rule : Rule]
    BY EvaluateAssumption
  <2> QED
    BY <2>1 DEF Candidate
<1>6. \A x \in S, y \in S : x.cr = y.cr => x = y
  OBVIOUS
<1> HIDE DEF decoded, candidate, S
<1>7. /\ s \in [1 .. Cardinality(S) -> S]
      /\ \A i \in 1 .. Cardinality(S), j \in 1 .. Cardinality(S) : i # j => s[i] # s[j]
  BY DEF Sorted, SetToSeqs
<1>8. s \in Seq(Candidate)
  BY <1>4, <1>5, <1>7
<1>9. \A i \in DOMAIN s, j \in DOMAIN s : s[i].cr = s[j].cr => i = j
  BY <1>6, <1>7
<1>10. candidates'[e] = s /\ \A f \in Evaluations \ {e} : candidates'[f] = candidates[f]
  BY <1>1 DEF EvaluateInv, TypeOK
<1>11. /\ phase'[e] = "judging" /\ next'[e] = 1 /\ out'[e] = <<>>
       /\ \A f \in Evaluations \ {e} :
            phase'[f] = phase[f] /\ next'[f] = next[f] /\ out'[f] = out[f]
  BY DEF List, EvaluateInv, TypeOK, MoreTypes
<1>12. /\ decisions'[e] = [c \in CRs |-> IF store[c] = Undecodable THEN "DecodeError"
                                                                  ELSE Absent]
       /\ \A f \in Evaluations \ {e} : decisions'[f] = decisions[f]
  BY DEF List, EvaluateInv, TypeOK
<1>13. /\ known'[e] = [n \in Namespaces |-> Absent]
       /\ \A f \in Evaluations \ {e} : known'[f] = known[f]
  BY DEF List, EvaluateInv, TypeOK
<1> QED
  BY <1>8, <1>9, <1>10, <1>11, <1>12, <1>13

LEMMA NextInvList ==
  ASSUME EvaluateInv, NEW e \in Evaluations, List(e)
  PROVE  EvaluateInv'
<1>1. "Compiled" # Absent
  BY EvaluateAssumption DEF Reasons
<1>2. UNCHANGED <<store, profiles, changes, gauges, seen>>
  BY DEF List
<1>3. phase' \in [Evaluations -> {"idle", "judging", "returned"}]
  BY DEF List, EvaluateInv, TypeOK
<1>4. candidates' \in [Evaluations -> Seq(Candidate)]
  <2>1. PICK s : candidates' = [candidates EXCEPT ![e] = s]
    BY DEF List
  <2>2. candidates \in [Evaluations -> Seq(Candidate)]
    BY DEF EvaluateInv, TypeOK
  <2>3. s \in Seq(Candidate)
    BY <2>1, <2>2, ListEffect
  <2> QED
    BY <2>1, <2>2, <2>3
<1>5. known' \in [Evaluations -> [Namespaces -> Profiles \cup {Absent}]]
  BY DEF List, EvaluateInv, TypeOK
<1>6. decisions' \in [Evaluations -> [CRs -> Reasons \cup {Absent}]]
  BY DEF List, EvaluateInv, TypeOK, Reasons
<1>7. MoreTypes' /\ UnseenAreZero'
  BY <1>2 DEF List, EvaluateInv, MoreTypes, UnseenAreZero
<1>8. ASSUME NEW f \in Evaluations
      PROVE  /\ next'[f] \in 1 .. Len(candidates'[f]) + 1
             /\ Range(out'[f]) = {c \in CRs : decisions'[f][c] = "Compiled"}
             /\ EvaluationOK(f)'
  <2>1. CASE f = e
    <3>1. next'[e] \in 1 .. Len(candidates'[e]) + 1
      BY ListEffect
    <3>2. \A c \in CRs : decisions'[e][c] # "Compiled"
      BY <1>1, ListEffect
    <3>3. Range(out'[e]) = {}
      BY ListEffect DEF Range
    <3>4. EvaluationOK(e)'
      BY ListEffect, NothingJudgedThen DEF NothingSoFar
    <3> QED
      BY <2>1, <3>1, <3>2, <3>3, <3>4
  <2>2. CASE f # e
    <3>1. EvaluationOK(f)'
      BY <2>2, ListEffect, Untouched DEF EvaluateInv
    <3>2. /\ next'[f] = next[f] /\ candidates'[f] = candidates[f]
          /\ out'[f] = out[f] /\ decisions'[f] = decisions[f]
      BY <2>2, ListEffect
    <3>3. /\ next[f] \in 1 .. Len(candidates[f]) + 1
          /\ Range(out[f]) = {c \in CRs : decisions[f][c] = "Compiled"}
      BY DEF EvaluateInv, TypeOK
    <3> QED
      BY <3>1, <3>2, <3>3
  <2> QED
    BY <2>1, <2>2
<1>9. TypeOK'
  BY <1>2, <1>3, <1>4, <1>5, <1>6, <1>8 DEF EvaluateInv, TypeOK
<1> QED
  BY <1>7, <1>8, <1>9 DEF EvaluateInv

\* Evaluation e comes to the verdict v on candidate t of namespace n, whose
\* profile is p.
JudgesOn(e, t, n, p, v) ==
  /\ phase[e] = "judging"
  /\ next[e] \in 1 .. Len(candidates[e]) /\ t = candidates[e][next[e]]
  /\ n = NsOf[t.cr] /\ p = LabelsOf(e, n) /\ v = Judgement(e, t, p)
  /\ UNCHANGED <<store, profiles, changes, phase, candidates, gauges, seen>>
  /\ known' = [known EXCEPT ![e] = [known[e] EXCEPT ![n] = p]]
  /\ decisions' = [decisions EXCEPT ![e] = [decisions[e] EXCEPT ![t.cr] = v]]
  /\ out' = [out EXCEPT ![e] = IF v = "Compiled" THEN Append(out[e], t.cr) ELSE out[e]]
  /\ next' = [next EXCEPT ![e] = next[e] + 1]

Verdicts == {"NamespaceUnreadable", "PolicyViolation", "MaxRulesExceeded", "Compiled"}

LEMMA JudgeEffect ==
  ASSUME EvaluateInv, NEW e \in Evaluations, Judge(e)
  PROVE  \E t \in Candidate, n \in Namespaces, p \in Profiles \cup {Absent},
            v \in Verdicts : JudgesOn(e, t, n, p, v)
<1> DEFINE t == candidates[e][next[e]]
           n == NsOf[t.cr]
           p == LabelsOf(e, n)
           v == Judgement(e, t, p)
<1>1. candidates[e] \in Seq(Candidate) /\ next[e] \in 1 .. Len(candidates[e])
  BY DEF Judge, EvaluateInv, TypeOK
<1>2. t \in Candidate /\ n \in Namespaces
  <2>1. t \in Candidate
    BY <1>1
  <2>2. t.cr \in CRs
    BY <2>1 DEF Candidate
  <2> QED
    BY <2>1, <2>2, EvaluateAssumption
<1>3. p \in Profiles \cup {Absent}
  BY <1>2 DEF LabelsOf, EvaluateInv, TypeOK
<1>4. v \in Verdicts
  BY DEF Judgement, Verdicts
<1>5. JudgesOn(e, t, n, p, v)
  BY <1>1 DEF Judge, JudgesOn, Compiles
<1> QED
  BY <1>2, <1>3, <1>4, <1>5

\* The accepted rules of a namespace are the compiled candidates of it.
LEMMA AcceptedCount ==
  ASSUME EvaluateInv, NEW e \in Evaluations, NEW n
  PROVE  AcceptedIn(e, n) = Cardinality({i \in CompiledTo(e) : Home(e, i) = n})
<1> DEFINE S == {i \in CompiledTo(e) : Home(e, i) = n}
           T == {c \in CRs : NsOf[c] = n /\ decisions[e][c] \in {"Compiled"}}
           cr == [i \in S |-> candidates[e][i].cr]
<1>1. /\ next[e] \in 1 .. Len(candidates[e]) + 1 /\ candidates[e] \in Seq(Candidate)
      /\ ListedOnce(e)
  BY DEF EvaluateInv, TypeOK, EvaluationOK
<1>2. IsFiniteSet(S)
  <2>1. S \subseteq JudgedTo(e)
    BY DEF CompiledTo
  <2>2. IsFiniteSet(JudgedTo(e))
    BY <1>1, FS_Interval DEF JudgedTo
  <2> QED
    BY <2>1, <2>2, FS_Subset
<1>3. \A i \in S : i \in DOMAIN candidates[e] /\ candidates[e][i].cr \in T
  <2> SUFFICES ASSUME NEW i \in S
               PROVE  i \in DOMAIN candidates[e] /\ candidates[e][i].cr \in T
    OBVIOUS
  <2>1. i \in DOMAIN candidates[e] /\ candidates[e][i] \in Candidate
    BY <1>1 DEF CompiledTo, JudgedTo
  <2>2. candidates[e][i].cr \in CRs
    BY <2>1 DEF Candidate
  <2> QED
    BY <2>1, <2>2 DEF CompiledTo, VerdictOn, Home
<1>4. cr \in Injection(S, T)
  BY <1>1, <1>3 DEF Injection, IsInjective, ListedOnce
<1>5. \A c \in T : \E i \in S : cr[i] = c
  <2> SUFFICES ASSUME NEW c \in T PROVE \E i \in S : cr[i] = c
    OBVIOUS
  <2>1. "Compiled" \notin {Absent, "DecodeError"}
    BY EvaluateAssumption DEF Reasons
  <2>2. PICK i \in JudgedTo(e) : candidates[e][i].cr = c
    BY <1>1, <2>1 DEF ListedOnce
  <2>3. i \in S
    BY <2>2 DEF CompiledTo, VerdictOn, Home
  <2> QED
    BY <2>2, <2>3
<1>6. cr \in Bijection(S, T)
  BY <1>4, <1>5 DEF Bijection, Injection, Surjection
<1> HIDE DEF S, T, cr
<1>7. ExistsBijection(S, T)
  BY <1>6 DEF ExistsBijection
<1>8. Cardinality(T) = Cardinality(S)
  BY <1>2, <1>7, FS_Bijection
<1> QED
  BY <1>8 DEF AcceptedIn, Count, S, T

\* What has been judged stays so, and the candidate whose turn it is joins it.
LEMMA JudgedThen ==
  ASSUME EvaluateInv, NEW e \in Evaluations, NEW t \in Candidate, NEW n \in Namespaces,
         NEW p \in Profiles \cup {Absent}, NEW v \in Verdicts, JudgesOn(e, t, n, p, v)
  PROVE  /\ next[e] \in Nat \ {0} /\ next'[e] = next[e] + 1
         /\ JudgedTo(e)' = JudgedTo(e) \cup {next[e]} /\ next[e] \notin JudgedTo(e)
         /\ \A i : Home(e, i)' = Home(e, i)
         /\ \A i : i = next[e] => Home(e, i) = n /\ VerdictOn(e, i)' = v
         /\ \A i \in JudgedTo(e) :
              i \in DOMAIN candidates[e] /\ VerdictOn(e, i)' = VerdictOn(e, i)
         /\ known'[e] \in [Namespaces -> Profiles \cup {Absent}] /\ known'[e][n] = p
         /\ \A m \in Namespaces : m # n \/ known[e][m] # Absent => known'[e][m] = known[e][m]
         /\ decisions'[e] \in [CRs -> Reasons \cup {Absent}]
         /\ \A c \in CRs : decisions'[e][c] = IF c = t.cr THEN v ELSE decisions[e][c]
         /\ decisions[e][t.cr] \in {Absent, "DecodeError"}
<1>1. /\ candidates[e] \in Seq(Candidate) /\ next[e] \in 1 .. Len(candidates[e])
      /\ t.cr \in CRs /\ next \in [Evaluations -> Nat] /\ ListedOnce(e)
      /\ candidates' = candidates /\ t = candidates[e][next[e]]
  <2>1. candidates[e] \in Seq(Candidate)
    BY DEF EvaluateInv, TypeOK
  <2>2. next \in [Evaluations -> Nat] /\ ListedOnce(e)
    BY DEF EvaluateInv, MoreTypes, EvaluationOK
  <2>3. /\ next[e] \in 1 .. Len(candidates[e]) /\ candidates' = candidates
        /\ t = candidates[e][next[e]]
    BY DEF JudgesOn
  <2>4. t.cr \in CRs
    BY DEF Candidate
  <2> QED
    BY <2>1, <2>2, <2>3, <2>4
<1>2. next[e] \in Nat \ {0} /\ next'[e] = next[e] + 1
  <2>1. next' = [next EXCEPT ![e] = next[e] + 1]
    BY DEF JudgesOn
  <2> QED
    BY <1>1, <2>1
<1>3. JudgedTo(e)' = JudgedTo(e) \cup {next[e]} /\ next[e] \notin JudgedTo(e)
  BY <1>1, <1>2 DEF JudgedTo
<1>4. /\ known[e] \in [Namespaces -> Profiles \cup {Absent}]
      /\ known'[e] = [known[e] EXCEPT ![n] = p]
  BY DEF EvaluateInv, TypeOK, JudgesOn
<1>5. /\ decisions[e] \in [CRs -> Reasons \cup {Absent}]
      /\ decisions'[e] = [decisions[e] EXCEPT ![t.cr] = v]
  BY DEF EvaluateInv, TypeOK, JudgesOn
<1>6. v \in Reasons
  BY DEF Verdicts, Reasons
<1>7. \A c \in CRs : decisions'[e][c] = IF c = t.cr THEN v ELSE decisions[e][c]
  BY <1>1, <1>5
<1>8. \A i \in JudgedTo(e) : i \in DOMAIN candidates[e] /\ candidates[e][i].cr # t.cr
  BY <1>1, <1>2 DEF JudgedTo, ListedOnce
<1>9. \A i \in JudgedTo(e) : VerdictOn(e, i)' = VerdictOn(e, i)
  <2>1. \A i \in JudgedTo(e) : candidates[e][i].cr \in CRs
    <3> SUFFICES ASSUME NEW i \in JudgedTo(e) PROVE candidates[e][i].cr \in CRs
      OBVIOUS
    <3>1. candidates[e][i] \in Candidate
      BY <1>1, <1>8
    <3> QED
      BY <3>1 DEF Candidate
  <2> QED
    BY <1>1, <1>7, <1>8, <2>1 DEF VerdictOn
<1>10. decisions[e][t.cr] \in {Absent, "DecodeError"}
  BY <1>1, <1>8 DEF ListedOnce
<1>11. known[e][n] # Absent => p = known[e][n]
  BY DEF JudgesOn, LabelsOf
<1>12. \A i : i = next[e] => Home(e, i) = n /\ VerdictOn(e, i)' = v
  <2> SUFFICES ASSUME NEW i, i = next[e] PROVE Home(e, i) = n /\ VerdictOn(e, i)' = v
    OBVIOUS
  <2>1. candidates'[e][i] = t
    BY <1>1
  <2>2. decisions'[e][t.cr] = v
    BY <1>1, <1>7
  <2> QED
    BY <1>1, <2>1, <2>2 DEF JudgesOn, Home, VerdictOn
<1> QED
  BY <1>1, <1>2, <1>3, <1>4, <1>5, <1>6, <1>7, <1>8, <1>9, <1>10, <1>11, <1>12 DEF Home

\* When a verdict is which.
LEMMA VerdictMeaning ==
  ASSUME NEW e, NEW t, NEW p, NEW v, v = Judgement(e, t, p)
  PROVE  /\ v = "NamespaceUnreadable" <=> p = Absent
         /\ v \in {"Compiled", "MaxRulesExceeded"} <=> p # Absent /\ Accepted(t.rule, p)
         /\ v = "Compiled" <=> /\ p # Absent /\ Accepted(t.rule, p)
                               /\ ~NamespaceFull(e, NsOf[t.cr], p) /\ ~ClusterFull(e)
<1>1. CASE p = Absent
  BY <1>1 DEF Judgement
<1>2. CASE p # Absent /\ ~Accepted(t.rule, p)
  BY <1>2 DEF Judgement
<1>3. CASE p # Absent /\ Accepted(t.rule, p)
  <2>1. v = IF NamespaceFull(e, NsOf[t.cr], p) \/ ClusterFull(e)
            THEN "MaxRulesExceeded" ELSE "Compiled"
    BY <1>3 DEF Judgement
  <2> QED
    BY <1>3, <2>1
<1> QED
  BY <1>1, <1>2, <1>3

LEMMA JudgeKeepsBooks ==
  ASSUME EvaluateInv, NEW e \in Evaluations, NEW t \in Candidate, NEW n \in Namespaces,
         NEW p \in Profiles \cup {Absent}, NEW v \in Verdicts, JudgesOn(e, t, n, p, v)
  PROVE  ListedOnce(e)' /\ VerdictsStand(e)' /\ AllJudged(e)'
<1>1. ListedOnce(e) /\ VerdictsStand(e) /\ candidates' = candidates /\ phase' = phase
  BY DEF EvaluateInv, EvaluationOK, JudgesOn
<1>2. ListedOnce(e)'
  <2> SUFFICES ASSUME NEW c \in CRs, decisions'[e][c] \notin {Absent, "DecodeError"}
               PROVE  \E i \in JudgedTo(e)' : candidates[e][i].cr = c
    BY <1>1 DEF ListedOnce
  <2>1. CASE c = t.cr
    <3>1. candidates[e][next[e]].cr = c
      BY <2>1 DEF JudgesOn
    <3>2. next[e] \in JudgedTo(e)'
      BY JudgedThen
    <3> QED
      BY <3>1, <3>2
  <2>2. CASE c # t.cr
    <3>1. \E i \in JudgedTo(e) : candidates[e][i].cr = c
      BY <1>1, <2>2, JudgedThen DEF ListedOnce
    <3> QED
      BY <3>1, JudgedThen
  <2> QED
    BY <2>1, <2>2
<1>3. VerdictsStand(e)'
  <2> SUFFICES ASSUME NEW i \in JudgedTo(e)'
               PROVE  /\ VerdictOn(e, i)' \notin {Absent, "DecodeError"}
                      /\ VerdictOn(e, i)' # "NamespaceUnreadable" =>
                           /\ known'[e][Home(e, i)] # Absent
                           /\ Accepted(candidates[e][i].rule, known'[e][Home(e, i)])
                                <=> VerdictOn(e, i)' \in {"Compiled", "MaxRulesExceeded"}
    BY <1>1, JudgedThen DEF VerdictsStand
  <2>1. CASE i = next[e]
    <3>1. VerdictOn(e, i)' = v /\ Home(e, i) = n /\ known'[e][n] = p /\ candidates[e][i] = t
      <4>1. candidates[e][i] = t
        BY <2>1 DEF JudgesOn
      <4>2. known'[e][n] = p
        BY JudgedThen
      <4>3. \A j : j = next[e] => Home(e, j) = n /\ VerdictOn(e, j)' = v
        BY JudgedThen
      <4> QED
        BY <2>1, <4>1, <4>2, <4>3
    <3>2. v = Judgement(e, t, p) /\ n = NsOf[t.cr]
      BY DEF JudgesOn
    <3>3. v \notin {Absent, "DecodeError"}
      BY EvaluateAssumption DEF Verdicts, Reasons
    <3> QED
      BY <3>1, <3>2, <3>3, VerdictMeaning
  <2>2. CASE i \in JudgedTo(e)
    <3>1. VerdictOn(e, i)' = VerdictOn(e, i) /\ Home(e, i) \in Namespaces
      <4>1. i \in DOMAIN candidates[e] /\ candidates[e] \in Seq(Candidate)
        BY <2>2, JudgedThen DEF EvaluateInv, TypeOK
      <4>2. candidates[e][i] \in Candidate
        BY <4>1
      <4>3. candidates[e][i].cr \in CRs
        BY <4>2 DEF Candidate
      <4>4. Home(e, i) \in Namespaces
        BY <4>3, EvaluateAssumption DEF Home
      <4> QED
        BY <2>2, <4>4, JudgedThen
    <3>2. known[e][Home(e, i)] # Absent => known'[e][Home(e, i)] = known[e][Home(e, i)]
      BY <3>1, JudgedThen
    <3> QED
      BY <1>1, <2>2, <3>1, <3>2 DEF VerdictsStand
  <2> QED
    BY <2>1, <2>2, JudgedThen
<1>4. AllJudged(e)'
  BY <1>1 DEF AllJudged, JudgesOn
<1> QED
  BY <1>2, <1>3, <1>4

\* The sets that the cut is made of grow by the candidate judged, or not at all.
LEMMA SetsGrow ==
  ASSUME EvaluateInv, NEW e \in Evaluations, NEW t \in Candidate, NEW n \in Namespaces,
         NEW p \in Profiles \cup {Absent}, NEW v \in Verdicts, JudgesOn(e, t, n, p, v)
  PROVE  /\ CompiledTo(e)' = CompiledTo(e) \cup IF v = "Compiled" THEN {next[e]} ELSE {}
         /\ \A m \in Namespaces : m # n => PermittedTo(e, m)' = PermittedTo(e, m)
         /\ PermittedTo(e, n)' = PermittedTo(e, n) \cup
              IF v \in {"Compiled", "MaxRulesExceeded"} THEN {next[e]} ELSE {}
         /\ \A m \in Namespaces : First(Limit(known'[e][m]), PermittedTo(e, m)) =
                                    First(Limit(known[e][m]), PermittedTo(e, m))
<1>1. CompiledTo(e)' = CompiledTo(e) \cup IF v = "Compiled" THEN {next[e]} ELSE {}
  <2>1. \A i : i \in CompiledTo(e)' <=> i \in JudgedTo(e)' /\ VerdictOn(e, i)' = "Compiled"
    BY DEF CompiledTo
  <2> QED
    BY <2>1, JudgedThen DEF CompiledTo
<1>2. ASSUME NEW m \in Namespaces
      PROVE  PermittedTo(e, m)' = PermittedTo(e, m) \cup
               IF m = n /\ v \in {"Compiled", "MaxRulesExceeded"} THEN {next[e]} ELSE {}
  <2>1. \A i : i \in PermittedTo(e, m)' <=>
                 /\ i \in JudgedTo(e)' /\ Home(e, i) = m
                 /\ VerdictOn(e, i)' \in {"Compiled", "MaxRulesExceeded"}
    BY JudgedThen DEF PermittedTo
  <2> QED
    BY <2>1, JudgedThen DEF PermittedTo
<1>3. ASSUME NEW m \in Namespaces
      PROVE  First(Limit(known'[e][m]), PermittedTo(e, m)) =
               First(Limit(known[e][m]), PermittedTo(e, m))
  <2>1. CASE known[e][m] # Absent
    BY <2>1, JudgedThen
  <2>2. CASE known[e][m] = Absent
    <3>1. PermittedTo(e, m) = {}
      BY <2>2 DEF PermittedTo, EvaluateInv, EvaluationOK, VerdictsStand
    <3> QED
      BY <3>1 DEF First
  <2> QED
    BY <2>1, <2>2
<1> QED
  BY <1>1, <1>2, <1>3

\* What has been judged are numbers, and so are the caps.
LEMMA PositionTypes ==
  ASSUME EvaluateInv, NEW e \in Evaluations
  PROVE  /\ next[e] \in Nat \ {0} /\ IsFiniteSet(JudgedTo(e))
         /\ \A i \in JudgedTo(e) : i \in Nat /\ i < next[e]
         /\ \A m : PermittedTo(e, m) \subseteq JudgedTo(e)
         /\ PassingTo(e) \subseteq JudgedTo(e)
         /\ CompiledTo(e) \subseteq JudgedTo(e)
         /\ \A m : Limit(known[e][m]) \in Nat
<1>1. next[e] \in 1 .. Len(candidates[e]) + 1
  BY DEF EvaluateInv, TypeOK
<1>2. next[e] \in Nat \ {0}
  <2>1. candidates[e] \in Seq(Candidate)
    BY DEF EvaluateInv, TypeOK
  <2>2. Len(candidates[e]) \in Nat
    BY <2>1
  <2> QED
    BY <1>1, <2>2
<1>3. IsFiniteSet(JudgedTo(e)) /\ \A i \in JudgedTo(e) : i \in Nat /\ i < next[e]
  <2>1. next[e] - 1 \in Int /\ 1 \in Int
    BY <1>2
  <2>2. IsFiniteSet(1 .. next[e] - 1)
    BY ONLY <2>1, FS_Interval
  <2>3. \A i \in 1 .. next[e] - 1 : i \in Nat /\ i < next[e]
    BY <1>2
  <2> QED
    BY <2>2, <2>3 DEF JudgedTo
<1>4. /\ \A m : PermittedTo(e, m) \subseteq JudgedTo(e)
      /\ CompiledTo(e) \subseteq JudgedTo(e)
  BY DEF PermittedTo, CompiledTo
<1>5. PassingTo(e) \subseteq JudgedTo(e)
  BY <1>4 DEF PassingTo, First
<1> QED
  BY <1>2, <1>3, <1>4, <1>5, LimitType

\* The candidate judged passes the limit of its namespace or takes nobody's place.
LEMMA PassingGrows ==
  ASSUME EvaluateInv, NEW e \in Evaluations, NEW t \in Candidate, NEW n \in Namespaces,
         NEW p \in Profiles \cup {Absent}, NEW v \in Verdicts, JudgesOn(e, t, n, p, v)
  PROVE  PassingTo(e)' = PassingTo(e) \cup
           IF /\ v \in {"Compiled", "MaxRulesExceeded"}
              /\ Limit(p) = 0 \/ Cardinality(PermittedTo(e, n)) < Limit(p)
           THEN {next[e]} ELSE {}
<1> DEFINE More == IF /\ v \in {"Compiled", "MaxRulesExceeded"}
                      /\ Limit(p) = 0 \/ Cardinality(PermittedTo(e, n)) < Limit(p)
                   THEN {next[e]} ELSE {}
           Now(m) == First(Limit(known[e][m]), PermittedTo(e, m))
           Then(m) == First(Limit(known'[e][m]), PermittedTo(e, m)')
<1>1. \A m \in Namespaces : m # n => Then(m) = Now(m)
  BY SetsGrow
<1>2. Then(n) = Now(n) \cup More
  <2>1. known'[e][n] = p
    BY JudgedThen
  <2>2. First(Limit(p), PermittedTo(e, n)) = Now(n)
    BY <2>1, SetsGrow
  <2>3. CASE v \in {"Compiled", "MaxRulesExceeded"}
    <3>1. PermittedTo(e, n)' = PermittedTo(e, n) \cup {next[e]}
      BY <2>3, SetsGrow
    <3>2. /\ PermittedTo(e, n) \in SUBSET Nat /\ next[e] \in Nat
          /\ \A i \in PermittedTo(e, n) : i < next[e]
      BY PositionTypes
    <3>3. Limit(p) \in Nat
      BY LimitType
    <3>4. First(Limit(p), PermittedTo(e, n) \cup {next[e]}) =
            First(Limit(p), PermittedTo(e, n)) \cup
              IF Limit(p) = 0 \/ Cardinality(PermittedTo(e, n)) < Limit(p)
              THEN {next[e]} ELSE {}
      BY <3>2, <3>3, FirstAdd
    <3>5. Then(n) = First(Limit(p), PermittedTo(e, n) \cup {next[e]})
      BY <2>1, <3>1
    <3>6. More = IF Limit(p) = 0 \/ Cardinality(PermittedTo(e, n)) < Limit(p)
                 THEN {next[e]} ELSE {}
      BY <2>3
    <3>7. First(Limit(p), PermittedTo(e, n) \cup {next[e]}) =
            First(Limit(p), PermittedTo(e, n)) \cup More
      BY <3>4, <3>6
    <3> HIDE DEF More, Now, Then
    <3> QED
      BY <2>2, <3>5, <3>7
  <2>4. CASE v \notin {"Compiled", "MaxRulesExceeded"}
    <3>1. PermittedTo(e, n)' = PermittedTo(e, n)
      <4>1. PermittedTo(e, n)' = PermittedTo(e, n) \cup
              IF v \in {"Compiled", "MaxRulesExceeded"} THEN {next[e]} ELSE {}
        BY SetsGrow
      <4> QED
        BY ONLY <2>4, <4>1
    <3>2. Then(n) = First(Limit(p), PermittedTo(e, n))
      BY <2>1, <3>1
    <3>3. More = {}
      BY <2>4
    <3> HIDE DEF More, Now, Then
    <3> QED
      BY <2>2, <3>2, <3>3
  <2> QED
    BY <2>3, <2>4
<1>3. PassingTo(e) = UNION {Now(m) : m \in Namespaces}
  BY DEF PassingTo
<1>4. PassingTo(e)' = UNION {Then(m) : m \in Namespaces}
  BY DEF PassingTo
<1> HIDE DEF More, Now, Then
<1>5. \A x : x \in PassingTo(e)' <=> x \in PassingTo(e) \cup More
  BY <1>1, <1>2, <1>3, <1>4
<1>6. PassingTo(e)' = PassingTo(e) \cup More
  BY <1>5
<1> QED
  BY <1>6 DEF More

\* A namespace has its limit of accepted rules when its policy permits as many,
\* unless the cap of the cluster came first.
LEMMA FullMeaning ==
  ASSUME EvaluateInv, NEW e \in Evaluations, NEW t \in Candidate, NEW n \in Namespaces,
         NEW p \in Profiles \cup {Absent}, NEW v \in Verdicts, JudgesOn(e, t, n, p, v)
  PROVE  /\ ClusterFull(e) <=> ~(MaxRules = 0 \/ Cardinality(PassingTo(e)) < MaxRules)
         /\ ~ClusterFull(e) =>
              (NamespaceFull(e, n, p) <=>
                 ~(Limit(p) = 0 \/ Cardinality(PermittedTo(e, n)) < Limit(p)))
<1> DEFINE P == PermittedTo(e, n)
           Q == PassingTo(e)
           K == CompiledTo(e)
<1>1. K = First(MaxRules, Q) /\ Len(out[e]) = Cardinality(K)
  BY DEF EvaluateInv, EvaluationOK, CutSoFar
<1>2. /\ P \in SUBSET Nat /\ Q \in SUBSET Nat
      /\ IsFiniteSet(P) /\ IsFiniteSet(Q) /\ IsFiniteSet(K)
  BY PositionTypes, FS_Subset
<1>3. Cardinality(P) \in Nat /\ Cardinality(Q) \in Nat /\ Cardinality(K) \in Nat
  BY <1>2, FS_CardinalityType
<1>4. MaxRules \in Nat /\ Limit(p) \in Nat
  BY EvaluateAssumption, LimitType
<1>5. First(Limit(p), P) = First(Limit(known[e][n]), P)
  <2>1. known'[e][n] = p
    BY JudgedThen
  <2> QED
    BY <2>1, SetsGrow
<1>6. {i \in Q : Home(e, i) = n} = First(Limit(p), P)
  <2>1. \A m \in Namespaces : \A i \in First(Limit(known[e][m]), PermittedTo(e, m)) :
          Home(e, i) = m
    BY DEF First, PermittedTo
  <2>2. \A i : i \in Q <=>
          \E m \in Namespaces : i \in First(Limit(known[e][m]), PermittedTo(e, m))
    BY DEF PassingTo
  <2> QED
    BY <1>5, <2>1, <2>2
<1>7. AcceptedIn(e, n) = Cardinality({i \in K : Home(e, i) = n})
  BY AcceptedCount
<1> HIDE DEF P, Q, K
<1>8. MaxRules > 0 => (Cardinality(K) < MaxRules <=> Cardinality(Q) < MaxRules)
  BY <1>1, <1>2, <1>4, FirstAll
<1>9. ClusterFull(e) <=> ~(MaxRules = 0 \/ Cardinality(Q) < MaxRules)
  BY <1>1, <1>3, <1>4, <1>8 DEF ClusterFull
<1>10. ASSUME ~ClusterFull(e)
       PROVE  NamespaceFull(e, n, p) <=> ~(Limit(p) = 0 \/ Cardinality(P) < Limit(p))
  <2>1. K = Q
    BY <1>1, <1>2, <1>3, <1>4, <1>10, FirstAll DEF ClusterFull
  <2>2. AcceptedIn(e, n) = Cardinality(First(Limit(p), P))
    BY <1>6, <1>7, <2>1
  <2>3. Limit(p) > 0 =>
          (Cardinality(First(Limit(p), P)) < Limit(p) <=> Cardinality(P) < Limit(p))
    BY <1>2, <1>4, FirstAll
  <2>4. Cardinality(First(Limit(p), P)) \in Nat
    BY <1>2, <1>4, FirstAll, FS_Subset, FS_CardinalityType
  <2> QED
    BY <1>3, <1>4, <2>2, <2>3, <2>4 DEF NamespaceFull
<1> QED
  BY <1>9, <1>10 DEF P, Q

LEMMA JudgeKeepsCut ==
  ASSUME EvaluateInv, NEW e \in Evaluations, NEW t \in Candidate, NEW n \in Namespaces,
         NEW p \in Profiles \cup {Absent}, NEW v \in Verdicts, JudgesOn(e, t, n, p, v)
  PROVE  CutSoFar(e)'
<1> DEFINE Room == MaxRules = 0 \/ Cardinality(PassingTo(e)) < MaxRules
           Passes == Limit(p) = 0 \/ Cardinality(PermittedTo(e, n)) < Limit(p)
           Permitting == v \in {"Compiled", "MaxRulesExceeded"}
<1>1. CompiledTo(e) = First(MaxRules, PassingTo(e)) /\ Len(out[e]) = Cardinality(CompiledTo(e))
  BY DEF EvaluateInv, EvaluationOK, CutSoFar
<1>2. v = "Compiled" <=> Permitting /\ Passes /\ Room
  <2>1. v = Judgement(e, t, p) /\ n = NsOf[t.cr]
    BY DEF JudgesOn
  <2>2. v = "Compiled" <=> Permitting /\ ~NamespaceFull(e, n, p) /\ ~ClusterFull(e)
    BY <2>1, VerdictMeaning
  <2> QED
    BY <2>2, FullMeaning
<1>3. CompiledTo(e)' = CompiledTo(e) \cup IF v = "Compiled" THEN {next[e]} ELSE {}
  BY SetsGrow
<1>4. PassingTo(e)' = PassingTo(e) \cup IF Permitting /\ Passes THEN {next[e]} ELSE {}
  BY PassingGrows
<1>5. First(MaxRules, PassingTo(e) \cup {next[e]}) =
        First(MaxRules, PassingTo(e)) \cup IF Room THEN {next[e]} ELSE {}
  <2>1. /\ PassingTo(e) \in SUBSET Nat /\ next[e] \in Nat
        /\ \A i \in PassingTo(e) : i < next[e]
    BY PositionTypes
  <2> QED
    BY <2>1, FirstAdd, EvaluateAssumption
<1>6. CompiledTo(e)' = First(MaxRules, PassingTo(e)')
  <2> HIDE DEF Room, Passes, Permitting
  <2>1. CASE Permitting /\ Passes
    BY <1>1, <1>2, <1>3, <1>4, <1>5, <2>1
  <2>2. CASE ~(Permitting /\ Passes)
    <3>1. PassingTo(e)' = PassingTo(e) /\ CompiledTo(e)' = CompiledTo(e)
      BY <1>2, <1>3, <1>4, <2>2
    <3> QED
      BY <1>1, <3>1
  <2> QED
    BY <2>1, <2>2
<1>7. Len(out'[e]) = Cardinality(CompiledTo(e)')
  <2>1. /\ out[e] \in Seq(CRs) /\ t.cr \in CRs
        /\ out'[e] = IF v = "Compiled" THEN Append(out[e], t.cr) ELSE out[e]
    BY DEF EvaluateInv, MoreTypes, JudgesOn, Candidate
  <2>2. IsFiniteSet(CompiledTo(e)) /\ next[e] \notin CompiledTo(e)
    BY PositionTypes, FS_Subset
  <2>3. Cardinality(CompiledTo(e) \cup {next[e]}) = Cardinality(CompiledTo(e)) + 1
    BY <2>2, FS_AddElement
  <2>4. CASE v = "Compiled"
    BY <1>1, <1>3, <2>1, <2>3, <2>4
  <2>5. CASE v # "Compiled"
    BY <1>1, <1>3, <2>1, <2>5
  <2> QED
    BY <2>4, <2>5
<1> QED
  BY <1>6, <1>7 DEF CutSoFar

LEMMA NextInvJudge ==
  ASSUME EvaluateInv, NEW e \in Evaluations, Judge(e)
  PROVE  EvaluateInv'
<1>1. PICK t \in Candidate, n \in Namespaces, p \in Profiles \cup {Absent}, v \in Verdicts :
        JudgesOn(e, t, n, p, v)
  BY JudgeEffect
<1>2. UNCHANGED <<store, profiles, changes, phase, candidates, gauges, seen>>
  BY <1>1 DEF JudgesOn
<1>3. t.cr \in CRs /\ v \in Reasons
  BY DEF Candidate, Verdicts, Reasons
<1>4. known' \in [Evaluations -> [Namespaces -> Profiles \cup {Absent}]]
  <2>1. known' = [known EXCEPT ![e] = [known[e] EXCEPT ![n] = p]]
    BY <1>1 DEF JudgesOn
  <2> QED
    BY <2>1 DEF EvaluateInv, TypeOK
<1>5. decisions' \in [Evaluations -> [CRs -> Reasons \cup {Absent}]]
  <2>1. decisions' = [decisions EXCEPT ![e] = [decisions[e] EXCEPT ![t.cr] = v]]
    BY <1>1 DEF JudgesOn
  <2> QED
    BY <1>3, <2>1 DEF EvaluateInv, TypeOK
<1>6. MoreTypes'
  <2>1. /\ out' = [out EXCEPT ![e] = IF v = "Compiled" THEN Append(out[e], t.cr) ELSE out[e]]
        /\ next' = [next EXCEPT ![e] = next[e] + 1]
    BY <1>1 DEF JudgesOn
  <2>2. Append(out[e], t.cr) \in Seq(CRs)
    BY <1>3 DEF EvaluateInv, MoreTypes
  <2> QED
    BY <2>1, <2>2 DEF EvaluateInv, MoreTypes
<1>7. UnseenAreZero'
  BY <1>2 DEF EvaluateInv, UnseenAreZero
<1>8. ASSUME NEW f \in Evaluations, f # e
      PROVE  /\ next'[f] = next[f] /\ out'[f] = out[f] /\ decisions'[f] = decisions[f]
             /\ known'[f] = known[f] /\ candidates'[f] = candidates[f] /\ phase'[f] = phase[f]
  BY <1>1, <1>8 DEF JudgesOn, EvaluateInv, TypeOK, MoreTypes
<1>9. Range(out'[e]) = {c \in CRs : decisions'[e][c] = "Compiled"}
  <2>1. Range(out[e]) = {c \in CRs : decisions[e][c] = "Compiled"} /\ out[e] \in Seq(CRs)
    BY DEF EvaluateInv, TypeOK, MoreTypes
  <2>2. out'[e] = IF v = "Compiled" THEN Append(out[e], t.cr) ELSE out[e]
    BY <1>1 DEF JudgesOn, EvaluateInv, MoreTypes
  <2>3. /\ \A c \in CRs : decisions'[e][c] = IF c = t.cr THEN v ELSE decisions[e][c]
        /\ decisions[e][t.cr] # "Compiled"
    BY <1>1, JudgedThen, EvaluateAssumption DEF Reasons
  <2>4. Range(Append(out[e], t.cr)) = Range(out[e]) \cup {t.cr}
    <3>1. Append(out[e], t.cr) \in Seq(CRs)
      BY <1>3, <2>1
    <3>2. /\ Len(Append(out[e], t.cr)) = Len(out[e]) + 1 /\ Len(out[e]) \in Nat
          /\ DOMAIN out[e] = 1 .. Len(out[e])
          /\ DOMAIN Append(out[e], t.cr) = 1 .. Len(out[e]) + 1
          /\ \A j \in 1 .. Len(out[e]) : Append(out[e], t.cr)[j] = out[e][j]
          /\ Append(out[e], t.cr)[Len(out[e]) + 1] = t.cr
      BY <1>3, <2>1, <3>1
    <3> QED
      BY <3>2 DEF Range
  <2> QED
    BY <1>3, <2>1, <2>2, <2>3, <2>4
<1>10. next'[e] \in 1 .. Len(candidates'[e]) + 1
  <2>1. next'[e] = next[e] + 1
    BY <1>1, JudgedThen
  <2>2. next[e] \in 1 .. Len(candidates[e]) /\ Len(candidates[e]) \in Nat
    <3>1. candidates[e] \in Seq(Candidate)
      BY DEF EvaluateInv, TypeOK
    <3>2. next[e] \in 1 .. Len(candidates[e])
      BY <1>1 DEF JudgesOn
    <3> QED
      BY <3>1, <3>2
  <2> QED
    BY <1>2, <2>1, <2>2
<1>11. EvaluationOK(e)'
  BY <1>1, JudgeKeepsBooks, JudgeKeepsCut DEF EvaluationOK
<1>12. \A f \in Evaluations : EvaluationOK(f)'
  BY <1>8, <1>11, Untouched DEF EvaluateInv
<1>13. \A f \in Evaluations : /\ next'[f] \in 1 .. Len(candidates'[f]) + 1
                              /\ Range(out'[f]) = {c \in CRs : decisions'[f][c] = "Compiled"}
  <2>1. \A f \in Evaluations : /\ next[f] \in 1 .. Len(candidates[f]) + 1
                               /\ Range(out[f]) = {c \in CRs : decisions[f][c] = "Compiled"}
    BY DEF EvaluateInv, TypeOK
  <2>2. ASSUME NEW f \in Evaluations
        PROVE  /\ next'[f] \in 1 .. Len(candidates'[f]) + 1
               /\ Range(out'[f]) = {c \in CRs : decisions'[f][c] = "Compiled"}
    <3>1. CASE f = e
      BY <1>9, <1>10, <3>1
    <3>2. CASE f # e
      BY <1>8, <2>1, <3>2
    <3> QED
      BY <3>1, <3>2
  <2> QED
    BY <2>2
<1>14. TypeOK'
  BY <1>2, <1>4, <1>5, <1>13 DEF EvaluateInv, TypeOK
<1> QED
  BY <1>6, <1>7, <1>12, <1>14 DEF EvaluateInv

LEMMA NextInvReturn ==
  ASSUME EvaluateInv, NEW e \in Evaluations, Return(e)
  PROVE  EvaluateInv'
<1>1. UNCHANGED <<store, profiles, changes, candidates, next, known, out, decisions>>
  BY DEF Return
<1>2. /\ phase' \in [Evaluations -> {"idle", "judging", "returned"}]
      /\ phase'[e] = "returned"
      /\ \A f \in Evaluations \ {e} : phase'[f] = phase[f]
  BY DEF Return, EvaluateInv, TypeOK
<1>3. seen' \subseteq Namespaces
  BY DEF Return
<1>4. ASSUME NEW n \in Namespaces
      PROVE  /\ AcceptedIn(e, n) \in Nat /\ RejectedIn(e, n) \in Nat
             /\ gauges[n] \in [accepted : Nat, rejected : Nat]
  BY CountType DEF AcceptedIn, RejectedIn, EvaluateInv, TypeOK
<1>5. gauges' \in [Namespaces -> [accepted : Nat, rejected : Nat]]
  BY <1>4 DEF Return
<1>6. UnseenAreZero'
  <2> SUFFICES ASSUME NEW n \in Namespaces, n \notin seen'
               PROVE  gauges'[n] = [accepted |-> 0, rejected |-> 0]
    BY DEF UnseenAreZero
  <2>1. ~(AcceptedIn(e, n) + RejectedIn(e, n) > 0)
    BY DEF Return
  <2>2. AcceptedIn(e, n) = 0 /\ RejectedIn(e, n) = 0
    BY <1>4, <2>1
  <2>3. n \notin seen => gauges[n] = [accepted |-> 0, rejected |-> 0]
    BY DEF EvaluateInv, UnseenAreZero
  <2>4. CASE n \in seen
    BY <2>1, <2>2, <2>4 DEF Return, Gone
  <2>5. CASE n \notin seen
    BY <2>2, <2>3, <2>5 DEF Return, Gone
  <2> QED
    BY <2>4, <2>5
<1>7. ASSUME NEW f \in Evaluations
      PROVE  EvaluationOK(f)'
  <2>1. CASE f # e
    BY <1>1, <1>2, <2>1, Untouched DEF EvaluateInv
  <2>2. CASE f = e
    <3>1. AllJudged(e)'
      BY <1>1 DEF Return, AllJudged, EvaluateInv, TypeOK
    <3>2. /\ JudgedTo(e)' = JudgedTo(e) /\ CompiledTo(e)' = CompiledTo(e)
          /\ PassingTo(e)' = PassingTo(e)
      BY <1>1 DEF JudgedTo, CompiledTo, PassingTo, PermittedTo, Home, VerdictOn
    <3>3. ListedOnce(e)' /\ VerdictsStand(e)' /\ CutSoFar(e)'
      BY <1>1, <3>2 DEF ListedOnce, VerdictsStand, CutSoFar, Home, VerdictOn, EvaluateInv,
                        EvaluationOK
    <3> QED
      BY <2>2, <3>1, <3>3 DEF EvaluationOK
  <2> QED
    BY <2>1, <2>2
<1>8. TypeOK' /\ MoreTypes'
  BY <1>1, <1>2, <1>3, <1>5 DEF EvaluateInv, TypeOK, MoreTypes
<1> QED
  BY <1>6, <1>7, <1>8 DEF EvaluateInv

LEMMA NextInvChange ==
  ASSUME EvaluateInv, Change
  PROVE  EvaluateInv'
<1>1. UNCHANGED <<phase, candidates, next, known, out, decisions, gauges, seen>>
  BY DEF Change
<1>2. store' \in [CRs -> Specs \cup {Undecodable, Absent}]
  BY DEF Change, EvaluateInv, TypeOK
<1>3. profiles' \in [Namespaces -> Profiles \cup {Absent}]
  BY DEF Change, EvaluateInv, TypeOK
<1>4. changes' \in 0 .. MaxChanges
  BY EvaluateAssumption DEF Change, EvaluateInv, TypeOK
<1>5. TypeOK' /\ MoreTypes' /\ UnseenAreZero'
  BY <1>1, <1>2, <1>3, <1>4 DEF EvaluateInv, TypeOK, MoreTypes, UnseenAreZero
<1>6. \A f \in Evaluations : EvaluationOK(f)'
  BY <1>1, Untouched DEF EvaluateInv
<1> QED
  BY <1>5, <1>6 DEF EvaluateInv

LEMMA EvaluateInvariance == Spec => []EvaluateInv
<1>1. Init => EvaluateInv
  BY InitEvaluateInv
<1>2. EvaluateInv /\ [Next]_vars => EvaluateInv'
  <2> SUFFICES ASSUME EvaluateInv, [Next]_vars PROVE EvaluateInv'
    OBVIOUS
  <2>1. CASE Change
    BY <2>1, NextInvChange
  <2>2. ASSUME NEW e \in Evaluations, List(e) PROVE EvaluateInv'
    BY <2>2, NextInvList
  <2>3. ASSUME NEW e \in Evaluations, Judge(e) PROVE EvaluateInv'
    BY <2>3, NextInvJudge
  <2>4. ASSUME NEW e \in Evaluations, Return(e) PROVE EvaluateInv'
    BY <2>4, NextInvReturn
  <2>5. CASE UNCHANGED vars
    <3>1. /\ UNCHANGED <<store, profiles, changes>>
          /\ UNCHANGED <<phase, candidates, next, known, out, decisions, gauges, seen>>
      BY <2>5 DEF vars
    <3>2. TypeOK' /\ MoreTypes' /\ UnseenAreZero'
      BY <3>1 DEF EvaluateInv, TypeOK, MoreTypes, UnseenAreZero
    <3>3. \A f \in Evaluations : EvaluationOK(f)'
      BY <3>1, Untouched DEF EvaluateInv
    <3> QED
      BY <3>2, <3>3 DEF EvaluateInv
  <2> QED
    BY <2>1, <2>2, <2>3, <2>4, <2>5 DEF Next
<1> QED
  BY <1>1, <1>2, PTL DEF Spec

-----------------------------------------------------------------------------
(* Theorems *)

\* Types; and the rules Watcher.evaluate returns are those whose EnrichmentRules
\* the statuses will say were compiled (crd.go:254-256).
THEOREM EvaluateTypes == Spec => []TypeOK
<1>1. EvaluateInv => TypeOK
  BY DEF EvaluateInv
<1> QED
  BY <1>1, EvaluateInvariance, PTL

\* Whatever happens to the cache while it judges, Watcher.evaluate returns the
\* first rules of the cluster, up to crd.maxRules, among the first ones of each
\* namespace, up to the limit of its policy, and a rule that is broken, may not
\* be read or is not allowed takes nobody's place.
THEOREM CapsCutExactly == Spec => []TheCutIsExact
<1>1. EvaluateInv => TheCutIsExact
  <2> SUFFICES ASSUME EvaluateInv, NEW e \in Evaluations, phase[e] = "returned"
               PROVE  {i \in DOMAIN candidates[e] : candidates[e][i].cr \in Range(out[e])} =
                        First(MaxRules, UNION {First(Limit(known[e][n]), Permitted(e, n)) :
                                                 n \in Namespaces})
    BY DEF TheCutIsExact
  <2>1. JudgedTo(e) = DOMAIN candidates[e] /\ candidates[e] \in Seq(Candidate)
    BY DEF EvaluateInv, EvaluationOK, AllJudged, JudgedTo, TypeOK
  <2>2. ASSUME NEW n \in Namespaces
        PROVE  Permitted(e, n) = PermittedTo(e, n)
    <3>1. VerdictsStand(e)
      BY DEF EvaluateInv, EvaluationOK
    <3>2. \A i \in DOMAIN candidates[e] : i \in Permitted(e, n) <=> i \in PermittedTo(e, n)
      BY <2>1, <3>1 DEF Permitted, PermittedTo, VerdictsStand, VerdictOn, Home
    <3> QED
      BY <2>1, <3>2 DEF Permitted, PermittedTo
  <2>3. {i \in DOMAIN candidates[e] : candidates[e][i].cr \in Range(out[e])} = CompiledTo(e)
    <3>1. \A i \in DOMAIN candidates[e] : candidates[e][i].cr \in CRs
      <4> SUFFICES ASSUME NEW i \in DOMAIN candidates[e] PROVE candidates[e][i].cr \in CRs
        OBVIOUS
      <4>1. candidates[e][i] \in Candidate
        BY <2>1
      <4> QED
        BY <4>1 DEF Candidate
    <3>2. Range(out[e]) = {c \in CRs : decisions[e][c] = "Compiled"}
      BY DEF EvaluateInv, TypeOK
    <3> QED
      BY <2>1, <3>1, <3>2 DEF CompiledTo, VerdictOn
  <2>4. UNION {First(Limit(known[e][n]), Permitted(e, n)) : n \in Namespaces} = PassingTo(e)
    BY <2>2 DEF PassingTo
  <2>5. CompiledTo(e) = First(MaxRules, PassingTo(e))
    BY DEF EvaluateInv, EvaluationOK, CutSoFar
  <2> QED
    BY <2>3, <2>4, <2>5
<1> QED
  BY <1>1, EvaluateInvariance, PTL

\* After Watcher.updateGauges no namespace that has no rule has a gauge that is
\* not zero, whichever evaluation under way reported it last.
THEOREM GoneNamespacesAreZero == Spec => TheGoneHaveNoGauge
<1>1. EvaluateInv /\ [Next]_vars =>
        [\A e \in Evaluations, n \in Namespaces :
           Returns(e) /\ (\A c \in CRs : NsOf[c] = n => decisions[e][c] = Absent)
             => gauges'[n] = [accepted |-> 0, rejected |-> 0]]_vars
  <2> SUFFICES ASSUME EvaluateInv, Next, NEW e \in Evaluations, NEW n \in Namespaces,
                      Returns(e), \A c \in CRs : NsOf[c] = n => decisions[e][c] = Absent
               PROVE  gauges'[n] = [accepted |-> 0, rejected |-> 0]
    OBVIOUS
  <2>1. Return(e)
    <3>1. ~Change /\ \A f \in Evaluations : ~Judge(f)
      BY DEF Change, Judge, Returns
    <3>2. \A f \in Evaluations : ~List(f)
      BY DEF List, Returns, EvaluateInv, TypeOK
    <3>3. \A f \in Evaluations : Return(f) => f = e
      BY DEF Return, Returns, EvaluateInv, TypeOK
    <3> QED
      BY <3>1, <3>2, <3>3 DEF Next
  <2>2. Absent \notin Reasons
    BY EvaluateAssumption
  <2>3. AcceptedIn(e, n) = 0 /\ RejectedIn(e, n) = 0
    BY <2>2, CountType DEF AcceptedIn, RejectedIn, Reasons
  <2>4. n \notin seen'
    BY <2>1, <2>3 DEF Return
  <2>5. EvaluateInv'
    BY <2>1, NextInvReturn
  <2> QED
    BY <2>4, <2>5 DEF EvaluateInv, UnseenAreZero
<1> QED
  BY <1>1, EvaluateInvariance, PTL DEF Spec, TheGoneHaveNoGauge
=============================================================================
