---------------------------- MODULE ReloadProofs ----------------------------
(***************************************************************************)
(* Proofs about module Reload, for any number of overlapping reloads,      *)
(* generations and timer callbacks, and any bounds.                        *)
(***************************************************************************)
EXTENDS Reload, TLAPS

\* TypeOK holds initially and every step preserves it.
LEMMA TypeInduction ==
  /\ Init => TypeOK
  /\ TypeOK /\ [Next]_vars => TypeOK'
<1> USE ReloadAssumption
    DEF ReloadAssumption, Phase, Context, ReloadPc, CallbackPc, Reloaders
<1>1. Init => TypeOK
  <2> SUFFICES ASSUME Init PROVE TypeOK
    OBVIOUS
  <2>1. /\ 0 \in 0 .. MaxEdits
        /\ content \in [0 .. MaxEdits -> ConfigKind]
    BY DEF Init
  <2>2. /\ ctx \in [Gens -> Context] /\ ver \in [Gens -> 0 .. MaxEdits]
        /\ view \in [Gens -> Nat] /\ timer \in [Gens -> BOOLEAN]
    BY <2>1 DEF Init
  <2>3. /\ rpc \in [Reloaders -> ReloadPc] /\ rver \in [Reloaders -> 0 .. MaxEdits]
        /\ rgen \in [Reloaders -> Gens \cup {NoGen}] /\ rsnap \in [Reloaders -> Nat]
        /\ rprev \in [Reloaders -> Gens \cup {NoGen}]
    BY <2>1 DEF Init
  <2>4. /\ cpc \in [Callbacks -> CallbackPc] /\ csnap \in [Callbacks -> Nat]
        /\ cgen \in [Callbacks -> Gens \cup {NoGen}]
    BY DEF Init
  <2> QED BY <2>1, <2>2, <2>3, <2>4 DEF Init, TypeOK
<1>2. TypeOK /\ [Next]_vars => TypeOK'
  <2> SUFFICES ASSUME TypeOK, [Next]_vars PROVE TypeOK'
    OBVIOUS
  <2> USE DEF TypeOK, envVars, genVars, reloadVars, cbVars, cellVars
  <2>1. ASSUME NEW r \in Reloaders, Load(r) PROVE TypeOK'
    <3>1. pending' \in BOOLEAN
      BY <2>1, Zenon DEF Load
    <3>2. phase' \in Phase /\ triggers' \in Nat
      BY <2>1 DEF Load, PhaseAfter
    <3>3. /\ UNCHANGED <<content, disk, watching, crs, genVars, rgen, rsnap, rprev,
                         cbVars, cellVars>>
          /\ rver' = [rver EXCEPT ![r] = disk]
          /\ rpc' = rpc \/ rpc' = [rpc EXCEPT ![r] = "loaded"]
      BY <2>1, Zenon DEF Load
    <3>4. rver' \in [Reloaders -> 0 .. MaxEdits] /\ rpc' \in [Reloaders -> ReloadPc]
      BY <3>3
    <3>5. \A q \in Reloaders : /\ rpc'[q] \notin {"idle", "loaded"} => rgen[q] \in Gens
                               /\ rpc'[q] = "swapped" => rprev[q] \in Gens
      BY <3>3
    <3> QED BY <3>1, <3>2, <3>3, <3>4, <3>5
  <2>2. ASSUME NEW r \in Reloaders, Build(r) PROVE TypeOK'
    <3>1. PICK g \in Gens :
            /\ ctx' = [ctx EXCEPT ![g] = "running"]
            /\ ver' = [ver EXCEPT ![g] = rver[r]]
            /\ view' = [view EXCEPT ![g] = crs]
            /\ timer' = [timer EXCEPT ![g] = TRUE] \/ timer' = timer
            /\ rgen' = [rgen EXCEPT ![r] = g]
      BY <2>2 DEF Build, Arm
    <3>2. timer' \in [Gens -> BOOLEAN]
      BY <3>1
    <3>3. ctx' \in [Gens -> Context] /\ ver' \in [Gens -> 0 .. MaxEdits]
      BY <3>1
    <3>4. view' \in [Gens -> Nat] /\ rgen' \in [Reloaders -> Gens \cup {NoGen}]
      BY <3>1
    <3> QED BY <2>2, <3>1, <3>2, <3>3, <3>4 DEF Build
  <2>3. ASSUME NEW r \in Reloaders, Fail(r) PROVE TypeOK'
    BY <2>3 DEF Fail, ContextsAfterFailure, PhaseAfter
  <2>4. ASSUME NEW r \in Reloaders, Compile(r) PROVE TypeOK'
    <3>1. rgen[r] \in Gens
      BY <2>4 DEF Compile
    <3>2. view[rgen[r]] \in Nat
      BY <3>1
    <3> QED BY <2>4, <3>1, <3>2 DEF Compile
  <2>5. ASSUME NEW r \in Reloaders, StoreCurrent(r) PROVE TypeOK'
    <3>1. raced' \in BOOLEAN
      BY <2>5, Zenon DEF StoreCurrent, PublicationUnderWay
    <3> QED BY <2>5, <3>1 DEF StoreCurrent
  <2>6. ASSUME NEW r \in Reloaders, SetState(r) PROVE TypeOK'
    BY <2>6 DEF SetState
  <2>7. ASSUME NEW r \in Reloaders, SwapCancel(r) PROVE TypeOK'
    <3>1. rgen[r] \in Gens /\ holder \in Gens \cup {NoGen}
      BY <2>7 DEF SwapCancel, MaySwap
    <3>2. rprev' \in [Reloaders -> Gens \cup {NoGen}] /\ holder' \in Gens \cup {NoGen}
      BY <2>7, <3>1 DEF SwapCancel
    <3>3. rpc' \in [Reloaders -> ReloadPc]
      BY <2>7 DEF SwapCancel
    <3>4. phase' \in Phase
      BY <2>7 DEF SwapCancel, PhaseAfter
    <3>5. \A q \in Reloaders : /\ rpc'[q] \notin {"idle", "loaded"} => rgen[q] \in Gens
                               /\ rpc'[q] = "swapped" => rprev'[q] \in Gens
      BY <2>7, <3>1 DEF SwapCancel, MaySwap, HasPrevious
    <3> QED BY <2>7, <3>2, <3>3, <3>4, <3>5 DEF SwapCancel
  <2>8. ASSUME NEW r \in Reloaders, CancelPrev(r) PROVE TypeOK'
    BY <2>8 DEF CancelPrev, Replaced, PhaseAfter
  <2>9. ASSUME NEW g \in Gens, NEW c \in Callbacks, TimerFires(g, c) PROVE TypeOK'
    <3>1. timer' \in [Gens -> BOOLEAN] /\ cgen' \in [Callbacks -> Gens \cup {NoGen}]
      BY <2>9 DEF TimerFires
    <3>2. cpc' \in [Callbacks -> CallbackPc]
      BY <2>9 DEF TimerFires
    <3>3. \A d \in Callbacks : cpc'[d] # "idle" => cgen'[d] \in Gens
      BY <2>9 DEF TimerFires
    <3> QED BY <2>9, <3>1, <3>2, <3>3 DEF TimerFires
  <2>10. ASSUME NEW c \in Callbacks, CallbackCompile(c) PROVE TypeOK'
    <3>1. view[cgen[c]] \in Nat
      BY <2>10 DEF CallbackCompile
    <3> QED BY <2>10, <3>1 DEF CallbackCompile
  <2>11. ASSUME NEW c \in Callbacks, CallbackCheck(c) PROVE TypeOK'
    BY <2>11 DEF CallbackCheck
  <2>12. ASSUME NEW c \in Callbacks, CallbackPublish(c) PROVE TypeOK'
    BY <2>12 DEF CallbackPublish
  <2>13. ASSUME NEW g \in Gens, Observe(g) PROVE TypeOK'
    <3>1. view[g] + 1 \in Nat
      OBVIOUS
    <3>2. view' \in [Gens -> Nat] /\ timer' \in [Gens -> BOOLEAN]
      BY <2>13, <3>1 DEF Observe, Arm
    <3> QED BY <2>13, <3>2 DEF Observe
  <2>14. ASSUME NEW g \in Gens, Resync(g) PROVE TypeOK'
    BY <2>14 DEF Resync, Arm
  <2>15. CASE StartWatching
    BY <2>15 DEF StartWatching
  <2>16. CASE Listen
    BY <2>16 DEF Listen
  <2>17. CASE EditConfig
    <3>1. disk' \in 0 .. MaxEdits
      BY <2>17 DEF EditConfig
    <3>2. pending' \in BOOLEAN
      BY <2>17, Zenon DEF EditConfig
    <3> QED BY <2>17, <3>1, <3>2 DEF EditConfig
  <2>18. CASE Hangup
    BY <2>18 DEF Hangup
  <2>19. CASE ChangeRules
    BY <2>19 DEF ChangeRules
  <2>20. CASE Exit
    BY <2>20 DEF Exit
  <2>21. CASE UNCHANGED vars
    BY <2>21 DEF vars
  <2> QED
    BY <2>1, <2>2, <2>3, <2>4, <2>5, <2>6, <2>7, <2>8, <2>9, <2>10, <2>11, <2>12,
       <2>13, <2>14, <2>15, <2>16, <2>17, <2>18, <2>19, <2>20, <2>21
       DEF Next, Reloading, Callback
<1> QED BY <1>1, <1>2

\* Type correctness: the published cells only ever name generations that were
\* built, and no reload calls a cancel function that is nil.
THEOREM ReloadTypeCorrect == Spec => []TypeOK
BY TypeInduction, PTL DEF Spec

-----------------------------------------------------------------------------
(* The inductive invariant *)

\* What most steps leave alone: who owns, cancels, shows and holds what.
Steady ==
  /\ UNCHANGED <<ctx, rgen, rprev, current, holder, served>>
  /\ \A r \in Reloaders : /\ Owns(r)' = Owns(r) /\ Cancels(r)' = Cancels(r)
                          /\ rpc'[r] \in {"built", "compiled"} =>
                               rpc[r] \in {"built", "compiled"}
  /\ \A c \in Callbacks : cpc'[c] = "publishing" =>
                            cpc[c] = "publishing" /\ cgen'[c] = cgen[c]
  /\ Alive' => Alive
  /\ phase' \in {"booted", "serving"} => phase \in {"booted", "serving"}

\* A steady step preserves the invariant.
LEMMA SteadyStep ==
  ASSUME ReloadInv, Steady, TypeOK'
  PROVE  ReloadInv'
<1> USE DEF ReloadInv
<1>1. NoLeak' /\ OwnersRun' /\ HolderRuns'
  <2> SUFFICES ASSUME Alive' PROVE NoLeak' /\ OwnersRun' /\ HolderRuns'
    BY DEF NoLeak, OwnersRun, HolderRuns
  <2>1. HolderRuns'
    BY DEF HolderRuns, Steady
  <2>2. NoLeak' /\ OwnersRun'
    BY DEF NoLeak, OwnersRun, Steady
  <2> QED BY <2>1, <2>2
<1>2. OneOwner'
  BY DEF OneOwner, Steady
<1>3. Unpublished'
  <2>1. \A g \in Gens \cup {NoGen} : Visible(g)' => Visible(g)
    BY DEF Visible, Steady
  <2>2. \A r \in Reloaders : rpc'[r] \in {"built", "compiled"} =>
          rpc[r] \in {"built", "compiled"} /\ rgen'[r] = rgen[r] /\ rgen[r] \in Gens
    BY DEF Steady, TypeOK
  <2>3. \A r \in Reloaders : rpc'[r] \in {"built", "compiled"} => ~Visible(rgen[r])'
    BY <2>1, <2>2 DEF Unpublished, Visible, Steady
  <2>4. \A g \in Gens : ctx'[g] \in {"none", "discarded"} => ~Visible(g)' /\ g # holder'
    BY <2>1 DEF Unpublished, Steady
  <2> QED BY <2>3, <2>4 DEF Unpublished
<1>4. Booted'
  BY DEF Booted, Steady
<1> QED BY <1>1, <1>2, <1>3, <1>4

\* Init establishes the invariant: nothing is built, shown or held.
LEMMA ReloadInitial == Init => ReloadInv
<1> SUFFICES ASSUME Init PROVE ReloadInv
  OBVIOUS
<1>1. TypeOK
  BY TypeInduction
<1>2. /\ \A r \in Reloaders : ~Owns(r) /\ ~Cancels(r) /\ rpc[r] = "idle"
      /\ \A g \in Gens : ctx[g] = "none" /\ ~Visible(g) /\ g # holder
      /\ holder = NoGen /\ phase = "booting"
  BY ReloadAssumption DEF ReloadAssumption, Init, Owns, Cancels, Visible
<1> QED BY <1>1, <1>2 DEF ReloadInv, NoLeak, OwnersRun, HolderRuns, OneOwner, Unpublished, Booted

\* The steps that build, discard, publish and hand over a generation.
LEMMA ReloaderStep ==
  ASSUME ReloadInv, TypeOK', NEW r \in Reloaders,
         Build(r) \/ Fail(r) \/ StoreCurrent(r) \/ SetState(r)
           \/ SwapCancel(r) \/ CancelPrev(r)
  PROVE  ReloadInv'
<1> USE DEF ReloadInv, Owns, Cancels, Alive,
        genVars, reloadVars, cbVars, cellVars, envVars
<1>1. CASE Build(r)
  <2>1. PICK g \in Gens : /\ ctx[g] = "none"
                          /\ ctx' = [ctx EXCEPT ![g] = "running"]
                          /\ rgen' = [rgen EXCEPT ![r] = g]
    BY <1>1 DEF Build
  <2>2. /\ rpc[r] = "loaded" /\ rpc' = [rpc EXCEPT ![r] = "built"] /\ Alive
        /\ UNCHANGED <<phase, rprev, cpc, cgen, current, holder, served>>
    BY <1>1 DEF Build
  <2>3. \A q \in Reloaders : /\ Owns(q)' <=> Owns(q) \/ q = r
                             /\ Cancels(q)' <=> Cancels(q)
                             /\ rgen'[q] = IF q = r THEN g ELSE rgen[q]
    BY <2>1, <2>2 DEF TypeOK
  <2>4. /\ ~Visible(g) /\ g # holder /\ ~Owns(r) /\ ~Cancels(r)
        /\ \A q \in Reloaders : /\ Owns(q) => rgen[q] # g
                                /\ Cancels(q) => rprev[q] # g
    <3>1. ~Visible(g) /\ g # holder
      BY <2>1 DEF Unpublished
    <3>2. ~Owns(r) /\ ~Cancels(r)
      BY <2>2
    <3>3. \A q \in Reloaders : /\ Owns(q) => rgen[q] # g
                               /\ Cancels(q) => rprev[q] # g
      BY <2>1, <2>2 DEF OwnersRun
    <3> QED BY <3>1, <3>2, <3>3 DEF TypeOK
  <2>5. NoLeak'
    <3> SUFFICES ASSUME NEW h \in Gens, ctx'[h] = "running"
                 PROVE  \/ h = holder'
                        \/ \E q \in Reloaders : Owns(q)' /\ rgen'[q] = h
                        \/ \E q \in Reloaders : Cancels(q)' /\ rprev'[q] = h
      BY DEF NoLeak
    <3>1. CASE h = g
      BY <2>3, <3>1 DEF TypeOK
    <3>2. CASE h # g
      <4>1. ctx[h] = "running"
        BY <2>1, <3>2 DEF TypeOK
      <4>2. CASE h = holder
        BY <2>2, <4>2
      <4>3. ASSUME NEW q \in Reloaders, Owns(q), rgen[q] = h
            PROVE  Owns(q)' /\ rgen'[q] = h
        BY <2>3, <2>4, <4>3
      <4>4. ASSUME NEW q \in Reloaders, Cancels(q), rprev[q] = h
            PROVE  Cancels(q)' /\ rprev'[q] = h
        BY <2>2, <2>3, <4>4
      <4>5. \/ h = holder
            \/ \E q \in Reloaders : Owns(q) /\ rgen[q] = h
            \/ \E q \in Reloaders : Cancels(q) /\ rprev[q] = h
        BY <2>2, <4>1 DEF NoLeak
      <4> QED BY <4>2, <4>3, <4>4, <4>5
    <3> QED BY <3>1, <3>2
  <2>6. OwnersRun' /\ HolderRuns'
    <3>1. ctx'[g] = "running" /\ \A h \in Gens : ctx[h] = "running" => ctx'[h] = "running"
      BY <2>1 DEF TypeOK
    <3>2. ASSUME NEW q \in Reloaders, Alive'
          PROVE  /\ Owns(q)' => ctx'[rgen'[q]] = "running"
                 /\ Cancels(q)' => ctx'[rprev'[q]] = "running"
      <4>1. Owns(q)' => ctx'[rgen'[q]] = "running"
        <5>1. CASE q = r
          BY <2>3, <3>1, <5>1
        <5>2. CASE q # r
          <6>1. (Owns(q)' <=> Owns(q)) /\ rgen'[q] = rgen[q]
            BY <2>3, <5>2
          <6>2. Owns(q) => rgen[q] \in Gens /\ ctx[rgen[q]] = "running"
            BY <2>2 DEF OwnersRun, TypeOK
          <6> QED BY <3>1, <6>1, <6>2
        <5> QED BY <5>1, <5>2
      <4>2. Cancels(q)' => ctx'[rprev'[q]] = "running"
        BY <2>2, <2>3, <3>1 DEF OwnersRun, TypeOK
      <4> QED BY <4>1, <4>2
    <3>3. OwnersRun'
      BY <3>2 DEF OwnersRun
    <3>4. HolderRuns'
      BY <2>2, <3>1 DEF HolderRuns, TypeOK
    <3> QED BY <3>3, <3>4
  <2>7. OneOwner'
    <3>1. \A q \in Reloaders : /\ Owns(q)' => rgen'[q] # holder'
                               /\ Cancels(q)' => rprev'[q] # holder'
      BY <2>2, <2>3, <2>4 DEF OneOwner
    <3>2. \A p, q \in Reloaders : Owns(p)' /\ Cancels(q)' => rgen'[p] # rprev'[q]
      BY <2>2, <2>3, <2>4 DEF OneOwner, TypeOK
    <3>3. ASSUME NEW p \in Reloaders, NEW q \in Reloaders, p # q
          PROVE  /\ Owns(p)' /\ Owns(q)' => rgen'[p] # rgen'[q]
                 /\ Cancels(p)' /\ Cancels(q)' => rprev'[p] # rprev'[q]
      <4>1. CASE p = r
        BY <2>2, <2>3, <2>4, <3>3, <4>1 DEF OneOwner
      <4>2. CASE q = r
        BY <2>2, <2>3, <2>4, <3>3, <4>2 DEF OneOwner
      <4>3. CASE p # r /\ q # r
        BY <2>2, <2>3, <3>3, <4>3 DEF OneOwner
      <4> QED BY <4>1, <4>2, <4>3
    <3> QED BY <3>1, <3>2, <3>3 DEF OneOwner, TypeOK
  <2>8. Unpublished'
    <3>1. \A h \in Gens : Visible(h)' <=> Visible(h)
      BY <2>2 DEF Visible
    <3>2. \A h \in Gens : ctx'[h] \in {"none", "discarded"} => ctx[h] \in {"none", "discarded"}
      BY <2>1 DEF TypeOK
    <3>3. \A q \in Reloaders : rpc'[q] \in {"built", "compiled"} => ~Visible(rgen'[q])
      BY <2>1, <2>2, <2>3, <2>4 DEF Unpublished, TypeOK
    <3>4. \A q \in Reloaders : rpc'[q] \in {"built", "compiled"} => ~Visible(rgen[q])'
      BY <2>2, <3>3 DEF Visible
    <3> QED BY <2>2, <3>1, <3>2, <3>4 DEF Unpublished
  <2>9. Booted'
    BY <2>2, <2>3 DEF Booted
  <2> QED BY <2>5, <2>6, <2>7, <2>8, <2>9
<1>2. CASE Fail(r)
  <2>1. /\ rpc[r] = "built" /\ rgen[r] \in Gens
        /\ ctx' = [ctx EXCEPT ![rgen[r]] = "discarded"]
        /\ rpc' = [rpc EXCEPT ![r] = "idle"]
        /\ phase' \in {phase, "exited"} /\ Alive
        /\ UNCHANGED <<rgen, rprev, cpc, cgen, current, holder, served>>
    BY <1>2 DEF Fail, MayFail, ContextsAfterFailure, PhaseAfter, TypeOK
  <2>2. \A q \in Reloaders : /\ Owns(q)' <=> Owns(q) /\ q # r
                             /\ Cancels(q)' <=> Cancels(q)
    BY <2>1 DEF TypeOK
  <2>3. /\ Owns(r) /\ rgen[r] # holder /\ ~Visible(rgen[r])
        /\ \A q \in Reloaders : /\ q # r /\ Owns(q) => rgen[q] # rgen[r]
                                /\ Cancels(q) => rprev[q] # rgen[r]
    BY <2>1 DEF Owns, OneOwner, Unpublished
  <2>4. NoLeak'
    <3> SUFFICES ASSUME NEW h \in Gens, ctx'[h] = "running"
                 PROVE  \/ h = holder'
                        \/ \E q \in Reloaders : Owns(q)' /\ rgen'[q] = h
                        \/ \E q \in Reloaders : Cancels(q)' /\ rprev'[q] = h
      BY DEF NoLeak
    <3>1. ctx[h] = "running" /\ h # rgen[r]
      BY <2>1 DEF TypeOK
    <3> QED BY <2>1, <2>2, <3>1 DEF NoLeak
  <2>5. OwnersRun' /\ HolderRuns'
    <3>1. \A h \in Gens : h # rgen[r] => ctx'[h] = ctx[h]
      BY <2>1 DEF TypeOK
    <3>2. OwnersRun'
      BY <2>1, <2>2, <2>3, <3>1 DEF OwnersRun, TypeOK
    <3>3. HolderRuns'
      BY <2>1, <2>3, <3>1 DEF HolderRuns, TypeOK
    <3> QED BY <3>2, <3>3
  <2>6. OneOwner'
    BY <2>1, <2>2 DEF OneOwner
  <2>7. Unpublished'
    <3>1. \A h \in Gens : Visible(h)' <=> Visible(h)
      BY <2>1 DEF Visible
    <3>2. \A h \in Gens : ctx'[h] \in {"none", "discarded"} =>
             ctx[h] \in {"none", "discarded"} \/ h = rgen[r]
      BY <2>1 DEF TypeOK
    <3>3. \A q \in Reloaders : rpc'[q] \in {"built", "compiled"} => ~Visible(rgen[q])
      BY <2>1 DEF Unpublished, TypeOK
    <3>4. \A q \in Reloaders : rpc'[q] \in {"built", "compiled"} => ~Visible(rgen[q])'
      BY <2>1, <3>3 DEF Visible
    <3> QED BY <2>1, <2>3, <3>1, <3>2, <3>4 DEF Unpublished
  <2>8. Booted'
    BY <2>1, <2>2 DEF Booted
  <2> QED BY <2>4, <2>5, <2>6, <2>7, <2>8
<1>3. CASE StoreCurrent(r) \/ SetState(r)
  <2>1. /\ rpc[r] \in {"compiled", "stored"}
        /\ rpc' = [rpc EXCEPT ![r] = "stored"] \/ rpc' = [rpc EXCEPT ![r] = "set"]
        /\ rgen[r] \in Gens /\ Alive
        /\ current' \in {current, rgen[r]} /\ served'.gen \in {served.gen, rgen[r]}
        /\ UNCHANGED <<phase, ctx, rgen, rprev, cpc, cgen, holder>>
    <3>1. CASE StoreCurrent(r)
      BY <3>1 DEF StoreCurrent, TypeOK
    <3>2. CASE SetState(r)
      BY <3>2 DEF SetState, TypeOK
    <3> QED BY <1>3, <3>1, <3>2
  <2>2. \A q \in Reloaders : /\ Owns(q)' <=> Owns(q)
                             /\ Cancels(q)' <=> Cancels(q)
    BY <2>1 DEF TypeOK
  <2>3. /\ ctx[rgen[r]] = "running"
        /\ \A q \in Reloaders : q # r /\ Owns(q) => rgen[q] # rgen[r]
    <3>1. Owns(r) /\ Alive
      BY <2>1
    <3> QED BY <3>1 DEF OwnersRun, OneOwner, TypeOK
  <2>4. NoLeak' /\ OwnersRun' /\ HolderRuns' /\ OneOwner' /\ Booted'
    <3>1. NoLeak'
      <4>1. \A h \in Gens : ctx[h] = "running" =>
              \/ h = holder
              \/ \E q \in Reloaders : Owns(q) /\ rgen[q] = h
              \/ \E q \in Reloaders : Cancels(q) /\ rprev[q] = h
        BY <2>1 DEF NoLeak
      <4>2. \A q \in Reloaders : rgen'[q] = rgen[q] /\ rprev'[q] = rprev[q]
        BY <2>1
      <4> QED BY <2>1, <2>2, <4>1, <4>2 DEF NoLeak
    <3>2. OwnersRun' /\ HolderRuns'
      BY <2>1, <2>2 DEF OwnersRun, HolderRuns, TypeOK
    <3>3. OneOwner'
      BY <2>1, <2>2 DEF OneOwner
    <3>4. Booted'
      BY <2>1, <2>2 DEF Booted
    <3> QED BY <3>1, <3>2, <3>3, <3>4
  <2>5. Unpublished'
    <3>1. \A h \in Gens : Visible(h)' => Visible(h) \/ h = rgen[r]
      BY <2>1 DEF Visible
    <3>2. ASSUME NEW q \in Reloaders, rpc'[q] \in {"built", "compiled"}
          PROVE  ~Visible(rgen[q])'
      <4>1. q # r /\ rpc[q] \in {"built", "compiled"} /\ rgen[q] \in Gens
        BY <2>1, <3>2 DEF TypeOK
      <4>2. ~Visible(rgen[q]) /\ rgen[q] # rgen[r]
        BY <2>3, <4>1 DEF Unpublished, Owns
      <4> QED BY <2>1, <4>1, <4>2 DEF Visible
    <3> QED BY <2>1, <2>3, <3>1, <3>2 DEF Unpublished
  <2> QED BY <2>4, <2>5
<1>4. CASE SwapCancel(r)
  <2>1. /\ rpc[r] = "set" /\ rgen[r] \in Gens /\ Alive
        /\ rprev' = [rprev EXCEPT ![r] = holder] /\ holder' = rgen[r]
        /\ \/ holder = NoGen /\ rpc' = [rpc EXCEPT ![r] = "idle"]
           \/ holder # NoGen /\ rpc' = [rpc EXCEPT ![r] = "swapped"]
        /\ UNCHANGED <<ctx, rgen, cpc, cgen, current, served>>
    BY <1>4 DEF SwapCancel, MaySwap, HasPrevious, TypeOK
  <2>2. \A q \in Reloaders :
          /\ Owns(q)' <=> Owns(q) /\ q # r
          /\ Cancels(q)' <=> Cancels(q) \/ (q = r /\ holder # NoGen)
          /\ rprev'[q] = IF q = r THEN holder ELSE rprev[q]
    BY <2>1 DEF TypeOK
  <2>3. /\ Owns(r) /\ ~Cancels(r) /\ ctx[rgen[r]] = "running" /\ rgen[r] # holder
        /\ \A q \in Reloaders : /\ q # r /\ Owns(q) => rgen[q] # rgen[r]
                                /\ Cancels(q) => rprev[q] # rgen[r]
    <3>1. Owns(r) /\ ~Cancels(r) /\ Alive
      BY <2>1
    <3> QED BY <3>1 DEF OwnersRun, OneOwner, TypeOK
  <2>4. NoLeak'
    <3> SUFFICES ASSUME NEW h \in Gens, ctx'[h] = "running"
                 PROVE  \/ h = holder'
                        \/ \E q \in Reloaders : Owns(q)' /\ rgen'[q] = h
                        \/ \E q \in Reloaders : Cancels(q)' /\ rprev'[q] = h
      BY DEF NoLeak
    <3>1. \/ h = holder
          \/ \E q \in Reloaders : Owns(q) /\ rgen[q] = h
          \/ \E q \in Reloaders : Cancels(q) /\ rprev[q] = h
      BY <2>1 DEF NoLeak
    <3>2. CASE h = holder
      <4>1. holder # NoGen
        BY <3>2, ReloadAssumption DEF ReloadAssumption
      <4> QED BY <2>2, <3>2, <4>1
    <3>3. ASSUME NEW q \in Reloaders, Owns(q), rgen[q] = h
          PROVE  h = holder' \/ (Owns(q)' /\ rgen'[q] = h)
      BY <2>1, <2>2, <3>3
    <3>4. ASSUME NEW q \in Reloaders, Cancels(q), rprev[q] = h
          PROVE  Cancels(q)' /\ rprev'[q] = h
      BY <2>2, <2>3, <3>4
    <3> QED BY <3>1, <3>2, <3>3, <3>4
  <2>5. OwnersRun' /\ HolderRuns'
    BY <2>1, <2>2, <2>3 DEF OwnersRun, HolderRuns
  <2>6. OneOwner'
    BY <2>1, <2>2, <2>3 DEF OneOwner
  <2>7. Unpublished'
    <3>1. \A h \in Gens : Visible(h)' <=> Visible(h)
      BY <2>1 DEF Visible
    <3>2. ASSUME NEW q \in Reloaders, rpc'[q] \in {"built", "compiled"}
          PROVE  ~Visible(rgen[q])'
      <4>1. rpc[q] \in {"built", "compiled"}
        BY <2>1, <3>2 DEF TypeOK
      <4> QED BY <2>1, <4>1 DEF Visible, Unpublished
    <3> QED BY <2>1, <2>3, <3>1, <3>2 DEF Unpublished
  <2>8. Booted'
    <3>1. holder' # NoGen
      BY <2>1, ReloadAssumption DEF ReloadAssumption
    <3> QED BY <3>1 DEF Booted
  <2> QED BY <2>4, <2>5, <2>6, <2>7, <2>8
<1>5. CASE CancelPrev(r)
  <2>1. /\ rpc[r] = "swapped" /\ rprev[r] \in Gens /\ Alive
        /\ ctx' = [ctx EXCEPT ![rprev[r]] = "cancelled"]
        /\ rpc' = [rpc EXCEPT ![r] = "idle"]
        /\ UNCHANGED <<rgen, rprev, cpc, cgen, current, holder, served>>
    BY <1>5 DEF CancelPrev, Replaced, TypeOK
  <2>2. \A q \in Reloaders : /\ Owns(q)' <=> Owns(q)
                             /\ Cancels(q)' <=> Cancels(q) /\ q # r
    BY <2>1 DEF TypeOK
  <2>3. /\ Cancels(r) /\ rprev[r] # holder
        /\ \A q \in Reloaders : /\ Owns(q) => rgen[q] # rprev[r]
                                /\ q # r /\ Cancels(q) => rprev[q] # rprev[r]
    BY <2>1 DEF Cancels, OneOwner
  <2>4. NoLeak'
    <3> SUFFICES ASSUME NEW h \in Gens, ctx'[h] = "running"
                 PROVE  \/ h = holder'
                        \/ \E q \in Reloaders : Owns(q)' /\ rgen'[q] = h
                        \/ \E q \in Reloaders : Cancels(q)' /\ rprev'[q] = h
      BY DEF NoLeak
    <3>1. ctx[h] = "running" /\ h # rprev[r]
      BY <2>1 DEF TypeOK
    <3> QED BY <2>1, <2>2, <3>1 DEF NoLeak
  <2>5. OwnersRun' /\ HolderRuns'
    <3>1. \A h \in Gens : h # rprev[r] => ctx'[h] = ctx[h]
      BY <2>1 DEF TypeOK
    <3>2. OwnersRun'
      BY <2>1, <2>2, <2>3, <3>1 DEF OwnersRun, TypeOK
    <3>3. HolderRuns'
      BY <2>1, <2>3, <3>1 DEF HolderRuns, TypeOK
    <3> QED BY <3>2, <3>3
  <2>6. OneOwner'
    BY <2>1, <2>2 DEF OneOwner
  <2>7. Unpublished'
    <3>1. \A h \in Gens : Visible(h)' <=> Visible(h)
      BY <2>1 DEF Visible
    <3>2. \A h \in Gens : ctx'[h] \in {"none", "discarded"} => ctx[h] \in {"none", "discarded"}
      BY <2>1 DEF TypeOK
    <3>3. ASSUME NEW q \in Reloaders, rpc'[q] \in {"built", "compiled"}
          PROVE  ~Visible(rgen[q])'
      <4>1. rpc[q] \in {"built", "compiled"}
        BY <2>1, <3>3 DEF TypeOK
      <4> QED BY <2>1, <4>1 DEF Visible, Unpublished
    <3> QED BY <2>1, <3>1, <3>2, <3>3 DEF Unpublished
  <2>8. Booted'
    <3>1. phase' \in {"booted", "serving"} => holder # NoGen
      BY <2>1, <2>3 DEF Booted
    <3> QED BY <2>1, <2>2, <3>1 DEF Booted
  <2> QED BY <2>4, <2>5, <2>6, <2>7, <2>8
<1> QED BY <1>1, <1>2, <1>3, <1>4, <1>5

\* A callback shows nothing that was not already visible, and the exit of the
\* process revives nothing.
LEMMA OtherStep ==
  ASSUME ReloadInv, TypeOK',
         Exit \/ \E c \in Callbacks : CallbackCheck(c) \/ CallbackPublish(c)
  PROVE  ReloadInv'
<1> USE DEF ReloadInv, genVars, reloadVars, cbVars, cellVars, envVars
<1>1. ASSUME NEW c \in Callbacks, CallbackCheck(c) \/ CallbackPublish(c)
      PROVE  ReloadInv'
  <2>1. /\ Alive /\ cgen[c] \in Gens
        /\ UNCHANGED <<phase, ctx, rpc, rgen, rprev, cgen, current, holder>>
    BY <1>1 DEF CallbackCheck, CallbackPublish, TypeOK
  <2>2. \A h \in Gens : Visible(h)' => Visible(h)
    <3>1. CASE CallbackCheck(c)
      <4>1. /\ UNCHANGED <<cgen, current, served>>
            /\ \A d \in Callbacks : cpc'[d] = "publishing" =>
                 cpc[d] = "publishing" \/ cgen[d] = current
        BY <3>1 DEF CallbackCheck, StillLive, TypeOK
      <4> QED BY <4>1 DEF Visible
    <3>2. CASE CallbackPublish(c)
      <4>1. /\ UNCHANGED <<cgen, current>>
            /\ served'.gen = cgen[c] /\ cpc[c] = "publishing"
            /\ \A d \in Callbacks : cpc'[d] = "publishing" => cpc[d] = "publishing"
        BY <3>2 DEF CallbackPublish, TypeOK
      <4> QED BY <4>1 DEF Visible
    <3> QED BY <1>1, <3>1, <3>2
  <2>3. /\ NoLeak' /\ OwnersRun' /\ HolderRuns'
        /\ OneOwner' /\ Booted'
    BY <2>1 DEF NoLeak, OwnersRun, HolderRuns, OneOwner, Booted, Owns, Cancels, Alive
  <2>4. Unpublished'
    <3>1. ASSUME NEW q \in Reloaders, rpc'[q] \in {"built", "compiled"}
          PROVE  ~Visible(rgen[q])'
      <4>1. rpc[q] \in {"built", "compiled"} /\ rgen[q] \in Gens /\ rgen' = rgen
        BY <2>1, <3>1 DEF TypeOK
      <4>2. ~Visible(rgen[q])
        BY <4>1 DEF Unpublished
      <4> DEFINE g == rgen[q]
      <4>3. g \in Gens /\ ~Visible(g) => ~Visible(g)'
        BY <2>2, <4>1, <4>2 DEF Visible
      <4> QED BY <4>1, <4>2, <4>3 DEF Visible
    <3>2. \A h \in Gens : ctx'[h] \in {"none", "discarded"} => ~Visible(h)' /\ h # holder'
      BY <2>1, <2>2 DEF Unpublished
    <3> QED BY <3>1, <3>2 DEF Unpublished
  <2> QED BY <2>3, <2>4
<1>2. CASE Exit
  <2>1. /\ ~Alive'
        /\ \A h \in Gens : ctx'[h] \in {"none", "discarded"} => ctx'[h] = ctx[h]
        /\ UNCHANGED <<rpc, rgen, rprev, cpc, cgen, current, holder, served>>
    BY <1>2 DEF Exit, Alive, TypeOK
  <2>2. NoLeak' /\ OwnersRun' /\ HolderRuns'
    BY <2>1 DEF NoLeak, OwnersRun, HolderRuns
  <2>3. OneOwner'
    BY <2>1 DEF OneOwner, Owns, Cancels
  <2>4. Unpublished'
    BY <2>1 DEF Unpublished, Visible
  <2>5. Booted'
    BY <1>2, <2>1 DEF Booted, Exit, Cancels
  <2> QED BY <2>2, <2>3, <2>4, <2>5
<1> QED BY <1>1, <1>2

\* Every step preserves the invariant.
LEMMA ReloadInduction == ReloadInv /\ [Next]_vars => ReloadInv'
<1> SUFFICES ASSUME ReloadInv, [Next]_vars PROVE ReloadInv'
  OBVIOUS
<1>1. TypeOK /\ TypeOK'
  BY TypeInduction DEF ReloadInv
<1> USE DEF TypeOK, envVars, genVars, reloadVars, cbVars, cellVars, Steady, Owns,
        Cancels, Alive
<1>2. ASSUME NEW r \in Reloaders, Load(r) PROVE Steady
  BY <1>1, <1>2 DEF Load, PhaseAfter
<1>3. ASSUME NEW r \in Reloaders, Compile(r) PROVE Steady
  BY <1>1, <1>3 DEF Compile
<1>4. ASSUME NEW r \in Reloaders,
             Build(r) \/ Fail(r) \/ StoreCurrent(r) \/ SetState(r)
               \/ SwapCancel(r) \/ CancelPrev(r)
      PROVE  ReloadInv'
  BY <1>1, <1>4, ReloaderStep
<1>5. ASSUME NEW c \in Callbacks, CallbackCompile(c) PROVE Steady
  BY <1>1, <1>5 DEF CallbackCompile
<1>6. ASSUME NEW c \in Callbacks, CallbackCheck(c) \/ CallbackPublish(c)
      PROVE  ReloadInv'
  BY <1>1, <1>6, OtherStep
<1>7. ASSUME NEW c \in Callbacks, NEW g \in Gens, TimerFires(g, c) PROVE Steady
  BY <1>1, <1>7 DEF TimerFires
<1>8. ASSUME NEW g \in Gens, Observe(g) \/ Resync(g) PROVE Steady
  BY <1>8 DEF Observe, Resync
<1>9. CASE StartWatching \/ Listen \/ EditConfig \/ Hangup \/ ChangeRules
  <2>1. Steady
    BY <1>9 DEF StartWatching, Listen, EditConfig, Hangup, ChangeRules
  <2> QED BY <1>1, <2>1, SteadyStep
<1>10. CASE Exit
  BY <1>1, <1>10, OtherStep
<1>11. CASE UNCHANGED vars
  <2>1. Steady
    BY <1>11 DEF vars
  <2> QED BY <1>1, <2>1, SteadyStep
<1>12. Steady => ReloadInv'
  BY <1>1, SteadyStep
<1> QED
  BY <1>2, <1>3, <1>4, <1>5, <1>6, <1>7, <1>8, <1>9, <1>10, <1>11, <1>12
     DEF Next, Reloading, Callback

\* The invariant holds throughout.
LEMMA ReloadInvariance == Spec => []ReloadInv
BY ReloadInitial, ReloadInduction, PTL DEF Spec

-----------------------------------------------------------------------------
(* What follows from it *)

\* However many reloads overlap and whichever of them fail, when none is under
\* way exactly the generation genCancel names is running.
THEOREM ReloadsLeakNothing == Spec => []OneSurvivor
<1>1. ReloadInv => OneSurvivor
  <2> SUFFICES ASSUME ReloadInv, phase \in {"booted", "serving"},
                      \A r \in Reloaders : rpc[r] \in {"idle", "loaded"}
               PROVE  {g \in Gens : ctx[g] = "running"} = {holder}
    BY DEF OneSurvivor
  <2>1. Alive /\ holder \in Gens /\ ctx[holder] = "running"
    BY DEF ReloadInv, Alive, Booted, HolderRuns, TypeOK
  <2>2. \A r \in Reloaders : ~Owns(r) /\ ~Cancels(r)
    BY DEF Owns, Cancels
  <2>3. \A g \in Gens : ctx[g] = "running" => g = holder
    BY <2>1, <2>2 DEF ReloadInv, NoLeak
  <2> QED BY <2>1, <2>3
<1> QED BY <1>1, ReloadInvariance, PTL

\* The generation kept by genCancel is never a cancelled one.
THEOREM TheKeptGenerationRuns == Spec => []HolderRuns
<1>1. ReloadInv => HolderRuns
  BY DEF ReloadInv
<1> QED BY <1>1, ReloadInvariance, PTL

\* A reload that fails is never seen, by the proxy or by anybody else.
THEOREM FailedReloadsAreInvisible == Spec => []FailedInvisible
<1>1. ReloadInv => FailedInvisible
  BY DEF ReloadInv, Unpublished, Visible, FailedInvisible
<1> QED BY <1>1, ReloadInvariance, PTL

-----------------------------------------------------------------------------
(* What the cells name while no two publications overlap *)

Publishes(r) == rpc[r] \in {"stored", "set"}

\* At most one reload is between its first store and genCancel; the cells name
\* its generation as far as it has come, and otherwise all name the same one.
CellsInv ==
  ~raced =>
    /\ \A r, q \in Reloaders : Publishes(r) /\ Publishes(q) => r = q
    /\ \A r \in Reloaders :
         /\ Publishes(r) => current = rgen[r]
         /\ rpc[r] = "stored" => served.gen \in {holder, rgen[r]}
         /\ rpc[r] = "set" => served.gen = rgen[r]
    /\ (\A r \in Reloaders : ~Publishes(r)) => current = holder /\ served.gen = holder
    /\ \A c \in Callbacks : cpc[c] = "publishing" => cgen[c] = current

\* What most steps leave alone.
CellsSteady ==
  /\ UNCHANGED <<current, holder, served, raced>>
  /\ \A r \in Reloaders : /\ Publishes(r)' <=> Publishes(r)
                          /\ Publishes(r) => rgen'[r] = rgen[r] /\ rpc'[r] = rpc[r]
  /\ \A c \in Callbacks :
       cpc'[c] = "publishing" => \/ cpc[c] = "publishing" /\ cgen'[c] = cgen[c]
                                 \/ cgen'[c] = current

LEMMA CellsSteadyStep ==
  ASSUME TypeOK, TypeOK', CellsInv, CellsSteady
  PROVE  CellsInv'
<1> SUFFICES ASSUME ~raced' PROVE CellsInv'
  BY DEF CellsInv
<1>1. ~raced
  BY DEF CellsSteady
<1>2. \A r \in Reloaders : Publishes(r)' => rgen'[r] = rgen[r] /\ rpc'[r] = rpc[r]
  BY DEF CellsSteady
<1>3. \A r \in Reloaders : rpc'[r] \in {"stored", "set"} => rpc'[r] = rpc[r] /\ rgen'[r] = rgen[r]
  BY <1>2 DEF Publishes
<1> QED BY <1>1, <1>2, <1>3 DEF CellsInv, CellsSteady, Publishes

\* Every step preserves what the cells name.
LEMMA CellsInduction == TypeOK /\ TypeOK' /\ CellsInv /\ [Next]_vars => CellsInv'
<1> SUFFICES ASSUME TypeOK, TypeOK', CellsInv, [Next]_vars PROVE CellsInv'
  OBVIOUS
<1> USE DEF TypeOK, envVars, genVars, reloadVars, cbVars, cellVars, CellsSteady, Publishes
<1>1. ASSUME NEW r \in Reloaders, Load(r) PROVE CellsSteady
  <2>1. rpc[r] = "idle" /\ (rpc' = rpc \/ rpc' = [rpc EXCEPT ![r] = "loaded"])
    BY <1>1, Zenon DEF Load
  <2>2. UNCHANGED <<rgen, cpc, cgen, current, holder, served, raced>>
    BY <1>1 DEF Load
  <2>3. \A q \in Reloaders : rpc'[q] = rpc[q] \/ (q = r /\ rpc'[q] = "loaded")
    BY <2>1
  <2>4. \A q \in Reloaders : /\ Publishes(q)' <=> Publishes(q)
                             /\ Publishes(q) => rpc'[q] = rpc[q]
    <3> TAKE q \in Reloaders
    <3>1. CASE rpc'[q] = rpc[q]
      BY <3>1
    <3>2. CASE q = r /\ rpc'[q] = "loaded"
      BY <2>1, <3>2
    <3> QED BY <2>3, <3>1, <3>2
  <2> QED BY <2>2, <2>4
<1>2. ASSUME NEW r \in Reloaders, Build(r) PROVE CellsSteady
  <2>1. PICK g \in Gens : rgen' = [rgen EXCEPT ![r] = g]
    BY <1>2 DEF Build
  <2> QED BY <1>2, <2>1 DEF Build
<1>3. ASSUME NEW r \in Reloaders, Fail(r) PROVE CellsSteady
  BY <1>3 DEF Fail, MayFail
<1>4. ASSUME NEW r \in Reloaders, Compile(r) PROVE CellsSteady
  BY <1>4 DEF Compile
<1>5. ASSUME NEW r \in Reloaders, StoreCurrent(r) PROVE CellsInv'
  <2> SUFFICES ASSUME ~raced' PROVE CellsInv'
    BY DEF CellsInv
  <2>1. /\ ~raced
        /\ \A q \in Reloaders : ~Publishes(q)
        /\ \A c \in Callbacks : cpc[c] # "publishing"
    BY <1>5 DEF StoreCurrent, PublicationUnderWay
  <2>2. served.gen = holder
    BY <2>1 DEF CellsInv
  <2>3. /\ current' = rgen[r] /\ rpc' = [rpc EXCEPT ![r] = "stored"]
        /\ UNCHANGED <<rgen, cpc, cgen, holder, served>>
    BY <1>5 DEF StoreCurrent
  <2>4. \A q \in Reloaders : Publishes(q)' <=> q = r
    BY <2>1, <2>3
  <2> QED BY <2>1, <2>2, <2>3, <2>4 DEF CellsInv
<1>6. ASSUME NEW r \in Reloaders, SetState(r) PROVE CellsInv'
  <2> SUFFICES ASSUME ~raced' PROVE CellsInv'
    BY DEF CellsInv
  <2>1. /\ rpc[r] = "stored" /\ rpc' = [rpc EXCEPT ![r] = "set"]
        /\ served'.gen = rgen[r]
        /\ UNCHANGED <<rgen, cpc, cgen, current, holder, raced>>
    BY <1>6 DEF SetState
  <2>2. \A q \in Reloaders : (Publishes(q)' <=> Publishes(q)) /\ (Publishes(q) => q = r)
    BY <2>1 DEF CellsInv
  <2> QED BY <2>1, <2>2 DEF CellsInv
<1>7. ASSUME NEW r \in Reloaders, SwapCancel(r) PROVE CellsInv'
  <2> SUFFICES ASSUME ~raced' PROVE CellsInv'
    BY DEF CellsInv
  <2>1. /\ rpc[r] = "set" /\ rpc'[r] \notin {"stored", "set"}
        /\ \A q \in Reloaders : q # r => rpc'[q] = rpc[q]
        /\ holder' = rgen[r]
        /\ UNCHANGED <<rgen, cpc, cgen, current, served, raced>>
    BY <1>7 DEF SwapCancel, MaySwap
  <2>2. \A q \in Reloaders : ~Publishes(q)'
    BY <2>1 DEF CellsInv
  <2>3. current = rgen[r] /\ served.gen = rgen[r]
    BY <2>1 DEF CellsInv
  <2>4. \A c \in Callbacks : cpc'[c] = "publishing" => cgen'[c] = current'
    BY <2>1 DEF CellsInv
  <2> QED BY <2>1, <2>2, <2>3, <2>4 DEF CellsInv
<1>8. ASSUME NEW r \in Reloaders, CancelPrev(r) PROVE CellsSteady
  BY <1>8 DEF CancelPrev
<1>9. ASSUME NEW g \in Gens, NEW c \in Callbacks, TimerFires(g, c) PROVE CellsSteady
  BY <1>9 DEF TimerFires
<1>10. ASSUME NEW c \in Callbacks, CallbackCompile(c) PROVE CellsSteady
  BY <1>10 DEF CallbackCompile
<1>11. ASSUME NEW c \in Callbacks, CallbackCheck(c) PROVE CellsSteady
  BY <1>11 DEF CallbackCheck, StillLive
<1>12. ASSUME NEW c \in Callbacks, CallbackPublish(c) PROVE CellsInv'
  <2> SUFFICES ASSUME ~raced' PROVE CellsInv'
    BY DEF CellsInv
  <2>1. /\ cpc[c] = "publishing" /\ cpc' = [cpc EXCEPT ![c] = "idle"]
        /\ served'.gen = cgen[c]
        /\ UNCHANGED <<rpc, rgen, cgen, current, holder, raced>>
    BY <1>12 DEF CallbackPublish
  <2>2. cgen[c] = current
    BY <2>1 DEF CellsInv
  <2> QED BY <2>1, <2>2 DEF CellsInv
<1>13. ASSUME NEW g \in Gens, Observe(g) \/ Resync(g) PROVE CellsSteady
  BY <1>13 DEF Observe, Resync
<1>14. CASE StartWatching \/ Listen \/ EditConfig \/ Hangup \/ ChangeRules \/ Exit
  <2>1. CellsSteady
    BY <1>14 DEF StartWatching, Listen, EditConfig, Hangup, ChangeRules, Exit
  <2> QED BY <2>1, CellsSteadyStep
<1>15. CASE UNCHANGED vars
  <2>1. CellsSteady
    BY <1>15 DEF vars
  <2> QED BY <2>1, CellsSteadyStep
<1>16. CellsSteady => CellsInv'
  BY CellsSteadyStep
<1> QED
  BY <1>1, <1>2, <1>3, <1>4, <1>5, <1>6, <1>7, <1>8, <1>9, <1>10, <1>11, <1>12,
     <1>13, <1>14, <1>15, <1>16 DEF Next, Reloading, Callback

\* As long as no two publications have overlapped the proxy serves the current
\* generation, and its sources run: applyConfig's ordering does what its
\* comment says (serve.go:233-241), for any number of reloaders and callbacks.
THEOREM UnracedReloadsServeWhatRuns == Spec => []UnracedServesWhatRuns
<1>1. Init => CellsInv
  BY DEF Init, CellsInv, Publishes
<1>2. ReloadInv /\ CellsInv => UnracedServesWhatRuns
  <2> SUFFICES ASSUME ReloadInv, CellsInv, ~raced
               PROVE  ServedIsRunning /\ ServedIsCurrent
    BY DEF UnracedServesWhatRuns
  <2>1. \A r \in Reloaders : Alive /\ Publishes(r) => ctx[rgen[r]] = "running"
    BY DEF ReloadInv, OwnersRun, Owns, Publishes
  <2>2. \/ served.gen = holder
        \/ \E r \in Reloaders : Publishes(r) /\ served.gen = rgen[r]
    BY DEF CellsInv, Publishes
  <2>3. ServedIsRunning
    BY <2>1, <2>2 DEF ServedIsRunning, ReloadInv, HolderRuns
  <2>4. ServedIsCurrent
    BY DEF ServedIsCurrent, CellsInv, Publishes
  <2> QED BY <2>3, <2>4
<1>3. ReloadInv => TypeOK
  BY DEF ReloadInv
<1> QED BY <1>1, <1>2, <1>3, CellsInduction, ReloadInvariance, PTL DEF Spec
=============================================================================
