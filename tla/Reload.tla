------------------------------- MODULE Reload -------------------------------
(***************************************************************************)
(* Configuration generations in cmd/enricher/serve.go.  applyConfig builds *)
(* a generation (sources, informers, CRD watcher) under a context of its   *)
(* own, compiles its engine, publishes it in three separate atomic cells   *)
(* (currentGen, the proxy's State, genCancel) and cancels the generation   *)
(* it replaced.  It takes no lock, and runs on the boot thread, on the     *)
(* goroutine of watchReload and in every POST /-/reload handler.  Each     *)
(* live CRD watcher recompiles its generation from a debounce timer whose  *)
(* callbacks run on goroutines of their own.                               *)
(*                                                                         *)
(* Configurations and rule snapshots are version numbers; what a version   *)
(* holds decides only at which stage its reload fails.  The definitions    *)
(* commented "Mutant" are deliberate faults no action uses.                *)
(***************************************************************************)
EXTENDS Integers

CONSTANTS Watch,         \* the boot thread, then the goroutine of watchReload
          Posters,       \* concurrent POST /-/reload handlers
          Gens,          \* identities of generations
          NoGen,
          Callbacks,     \* goroutines that run expired debounce timers
          Kinds,         \* the kinds of config file that may be written
          MaxEdits,      \* bound: times the config file is written
          MaxChanges,    \* bound: times an EnrichmentRule or Namespace changes
          MaxTriggers,   \* bound: SIGHUPs and POSTs
          BadRules,      \* rule snapshots whose engine does not compile
          Updates,       \* how the config file is replaced
          EarlyEdits     \* the file may change before its watch is set up

Reloaders == {Watch} \cup Posters

\* What a config file leads to: a parse or validation error, a source or
\* watcher that does not start, an engine that does not compile, a
\* generation without the CRD watch, a generation with it.
ConfigKind == {"noload", "nostart", "nocompile", "plain", "crd"}

\* A file is written or renamed in place, or it sits in a mounted ConfigMap and
\* kubelet renames the symlink "..data" of its directory.
UpdateKind == {"inPlace", "symlink"}

ASSUME ReloadAssumption ==
  /\ Watch \notin Posters
  /\ NoGen \notin Gens
  /\ Kinds \subseteq ConfigKind
  /\ MaxEdits \in Nat /\ MaxChanges \in Nat /\ MaxTriggers \in Nat
  /\ BadRules \subseteq Nat
  /\ Updates \subseteq UpdateKind
  /\ EarlyEdits \in BOOLEAN

VARIABLES
  phase,     \* of runServe: booting, booted (no listener yet), serving, exited
  content,   \* what each version of the config file holds
  disk,      \* the version on disk
  watching,  \* what watchReload waits for: nothing yet, signals only, or the file too
  pending,   \* a file event or SIGHUP waits for watchReload
  triggers,  \* SIGHUPs and POSTs sent so far
  crs,       \* version of the EnrichmentRules and Namespaces in the cluster
  ctx,       \* the context of each generation
  ver,       \* the config version each generation was built from
  view,      \* the rule version in each generation's informer cache
  timer,     \* the debounce timer of each generation's watcher is armed
  rpc,       \* control point of each applyConfig call
  rver,      \* config version it loaded
  rgen,      \* generation it built
  rsnap,     \* rule version it compiled
  rprev,     \* generation whose cancel function it swapped out
  cpc,       \* control point of each compileAndSwap callback
  cgen,      \* its generation
  csnap,     \* rule version it compiled
  current,   \* server.currentGen
  holder,    \* the generation whose cancel function is in server.genCancel
  served,    \* the proxy's State: generation and compiled rule version
  raced      \* history: two publications have overlapped; no guard reads it

envVars    == <<content, disk, watching, pending, triggers, crs>>
genVars    == <<ctx, ver, view, timer>>
reloadVars == <<rpc, rver, rgen, rsnap, rprev>>
cbVars     == <<cpc, cgen, csnap>>
cellVars   == <<current, holder, served, raced>>
vars == <<phase, content, disk, watching, pending, triggers, crs, ctx, ver, view,
          timer, rpc, rver, rgen, rsnap, rprev, cpc, cgen, csnap, current, holder,
          served, raced>>

Alive == phase # "exited"

HasWatcher(g) == content[ver[g]] = "crd"

-----------------------------------------------------------------------------
(* Operators the actions below are built from *)

\* Mutant: a failed reload forgets to cancel what it built.
ContextsAfterFailureKept(g) == ctx

\* A reload that fails cancels the generation it built.
ContextsAfterFailure(g) == [ctx EXCEPT ![g] = "discarded"]

\* Mutant: the reload publishes before its compile can fail.
MayFailAfterStore(r) == rpc[r] \in {"built", "stored"}

MayFail(r) == rpc[r] = "built"

\* Mutant: genCancel is swapped without the engine having been published.
MaySwapUnpublished(r) == rpc[r] = "stored"

MaySwap(r) == rpc[r] = "set"

\* Mutant: the new generation is cancelled in place of the old one.
ReplacedOwn(r) == rgen[r]

Replaced(r) == rprev[r]

HasPrevious == holder # NoGen

\* Mutant: a callback does not check that its generation is still live.
StillLiveAlways(c) == TRUE

StillLive(c) == current = cgen[c]

\* Mutant: a change does not arm the timer.
ArmNothing(g) == timer

\* scheduleOnChange: stop the timer, arm a new one.
Arm(g) == [timer EXCEPT ![g] = TRUE]

\* Mutant: the comparison with the file's name is inverted.
ReportedInverted(u) == u # "inPlace"

\* watchReload drops the events of every file but its own: a symlink update
\* reports only the directory entries that change.
Reported(u) == u = "inPlace"

\* What brings reloader r to call applyConfig: the boot, an event of the
\* watched file or a SIGHUP, a request.
Triggered(r) ==
  IF r = Watch THEN phase = "booting" \/ (watching # "none" /\ pending)
               ELSE phase = "serving" /\ triggers < MaxTriggers

\* buildEngine fails on this rule version of generation g.
Uncompilable(g) == HasWatcher(g) /\ view[g] \in BadRules

-----------------------------------------------------------------------------
Init ==
  /\ phase = "booting"
  /\ content \in [0 .. MaxEdits -> Kinds]
  /\ disk = 0 /\ watching = "none" /\ pending = FALSE /\ triggers = 0 /\ crs = 0
  /\ ctx = [g \in Gens |-> "none"]
  /\ ver = [g \in Gens |-> 0]
  /\ view = [g \in Gens |-> 0]
  /\ timer = [g \in Gens |-> FALSE]
  /\ rpc = [r \in Reloaders |-> "idle"]
  /\ rver = [r \in Reloaders |-> 0]
  /\ rgen = [r \in Reloaders |-> NoGen]
  /\ rsnap = [r \in Reloaders |-> 0]
  /\ rprev = [r \in Reloaders |-> NoGen]
  /\ cpc = [c \in Callbacks |-> "idle"]
  /\ cgen = [c \in Callbacks |-> NoGen]
  /\ csnap = [c \in Callbacks |-> 0]
  /\ current = NoGen /\ holder = NoGen
  /\ served = [gen |-> NoGen, rules |-> 0]
  /\ raced = FALSE

(* applyConfig, one action per step another goroutine can fall between *)

\* The phase once reloader r returns: the boot reload decides about runServe.
PhaseAfter(r, ok) ==
  IF phase = "booting" THEN (IF ok THEN "booted" ELSE "exited") ELSE phase

\* config.Load, as r takes its trigger.
Load(r) ==
  /\ Alive /\ rpc[r] = "idle" /\ Triggered(r)
  /\ rver' = [rver EXCEPT ![r] = disk]
  /\ \/ /\ content[disk] = "noload"
        /\ phase' = PhaseAfter(r, FALSE)
        /\ UNCHANGED rpc
     \/ /\ content[disk] # "noload"
        /\ rpc' = [rpc EXCEPT ![r] = "loaded"]
        /\ UNCHANGED phase
  /\ pending' = (pending /\ r # Watch)
  /\ triggers' = IF r = Watch THEN triggers ELSE triggers + 1
  /\ UNCHANGED <<content, disk, watching, crs, genVars, rgen, rsnap, rprev,
                 cbVars, cellVars>>

\* The rest of buildGeneration: a fresh context, running sources and, with the
\* CRD watch, informers whose initial list arms the debounce timer.
Build(r) ==
  /\ Alive /\ rpc[r] = "loaded"
  /\ \E g \in Gens :
       /\ ctx[g] = "none"
       /\ ctx' = [ctx EXCEPT ![g] = "running"]
       /\ ver' = [ver EXCEPT ![g] = rver[r]]
       /\ view' = [view EXCEPT ![g] = crs]
       /\ timer' = IF content[rver[r]] = "crd" THEN Arm(g) ELSE timer
       /\ rgen' = [rgen EXCEPT ![r] = g]
  /\ rpc' = [rpc EXCEPT ![r] = "built"]
  /\ UNCHANGED <<phase, envVars, rver, rsnap, rprev, cbVars, cellVars>>

\* A source or the watcher did not start, or the engine does not compile.
Fail(r) ==
  /\ Alive /\ MayFail(r)
  /\ content[rver[r]] \in {"nostart", "nocompile"} \/ Uncompilable(rgen[r])
  /\ ctx' = ContextsAfterFailure(rgen[r])
  /\ rpc' = [rpc EXCEPT ![r] = "idle"]
  /\ phase' = PhaseAfter(r, FALSE)
  /\ UNCHANGED <<envVars, ver, view, timer, rver, rgen, rsnap, rprev, cbVars, cellVars>>

\* compile reads the watcher's rules and builds the engine.
Compile(r) ==
  /\ Alive /\ rpc[r] = "built"
  /\ content[rver[r]] \notin {"nostart", "nocompile"} /\ ~Uncompilable(rgen[r])
  /\ rsnap' = [rsnap EXCEPT ![r] = view[rgen[r]]]
  /\ rpc' = [rpc EXCEPT ![r] = "compiled"]
  /\ UNCHANGED <<phase, envVars, genVars, rver, rgen, rprev, cbVars, cellVars>>

\* A reload has stored its generation and not yet taken over genCancel, or a
\* callback has found its generation live and not yet published it.
PublicationUnderWay ==
  \/ \E q \in Reloaders : rpc[q] \in {"stored", "set"}
  \/ \E c \in Callbacks : cpc[c] = "publishing"

StoreCurrent(r) ==
  /\ Alive /\ rpc[r] = "compiled"
  /\ current' = rgen[r]
  /\ rpc' = [rpc EXCEPT ![r] = "stored"]
  /\ raced' = (raced \/ PublicationUnderWay)
  /\ UNCHANGED <<phase, envVars, genVars, rver, rgen, rsnap, rprev, cbVars, holder, served>>

SetState(r) ==
  /\ Alive /\ rpc[r] = "stored"
  /\ served' = [gen |-> rgen[r], rules |-> rsnap[r]]
  /\ rpc' = [rpc EXCEPT ![r] = "set"]
  /\ UNCHANGED <<phase, envVars, genVars, rver, rgen, rsnap, rprev, cbVars, current, holder,
                 raced>>

\* genCancel.Swap: without a previous generation applyConfig is done.
SwapCancel(r) ==
  /\ Alive /\ MaySwap(r)
  /\ rprev' = [rprev EXCEPT ![r] = holder]
  /\ holder' = rgen[r]
  /\ \/ /\ ~HasPrevious
        /\ rpc' = [rpc EXCEPT ![r] = "idle"]
        /\ phase' = PhaseAfter(r, TRUE)
     \/ /\ HasPrevious
        /\ rpc' = [rpc EXCEPT ![r] = "swapped"]
        /\ UNCHANGED phase
  /\ UNCHANGED <<envVars, genVars, rver, rgen, rsnap, cbVars, current, served, raced>>

\* (*prev)(): the sources and informers of the replaced generation stop.
CancelPrev(r) ==
  /\ Alive /\ rpc[r] = "swapped"
  /\ ctx' = [ctx EXCEPT ![Replaced(r)] = "cancelled"]
  /\ rpc' = [rpc EXCEPT ![r] = "idle"]
  /\ phase' = PhaseAfter(r, TRUE)
  /\ UNCHANGED <<envVars, ver, view, timer, rver, rgen, rsnap, rprev, cbVars, cellVars>>

-----------------------------------------------------------------------------
(* The CRD watcher of generation g and its callbacks *)

\* time.AfterFunc starts OnChange on a goroutine of its own; nothing stops the
\* timer of a cancelled generation.
TimerFires(g, c) ==
  /\ Alive /\ timer[g] /\ cpc[c] = "idle"
  /\ timer' = [timer EXCEPT ![g] = FALSE]
  /\ cgen' = [cgen EXCEPT ![c] = g]
  /\ cpc' = [cpc EXCEPT ![c] = "compiling"]
  /\ UNCHANGED <<phase, envVars, ctx, ver, view, reloadVars, csnap, cellVars>>

\* compileAndSwap compiles from what the informers hold now, or gives up.
CallbackCompile(c) ==
  /\ Alive /\ cpc[c] = "compiling"
  /\ csnap' = [csnap EXCEPT ![c] = view[cgen[c]]]
  /\ cpc' = [cpc EXCEPT ![c] = IF Uncompilable(cgen[c]) THEN "idle" ELSE "checking"]
  /\ UNCHANGED <<phase, envVars, genVars, reloadVars, cgen, cellVars>>

\* The liveness check, on its own: the publication is a later step.
CallbackCheck(c) ==
  /\ Alive /\ cpc[c] = "checking"
  /\ cpc' = [cpc EXCEPT ![c] = IF StillLive(c) THEN "publishing" ELSE "idle"]
  /\ UNCHANGED <<phase, envVars, genVars, reloadVars, cgen, csnap, cellVars>>

CallbackPublish(c) ==
  /\ Alive /\ cpc[c] = "publishing"
  /\ served' = [gen |-> cgen[c], rules |-> csnap[c]]
  /\ cpc' = [cpc EXCEPT ![c] = "idle"]
  /\ UNCHANGED <<phase, envVars, genVars, reloadVars, cgen, csnap, current, holder,
                 raced>>

\* A running informer receives the next change.
Observe(g) ==
  /\ Alive /\ ctx[g] = "running" /\ HasWatcher(g) /\ view[g] < crs
  /\ view' = [view EXCEPT ![g] = @ + 1]
  /\ timer' = Arm(g)
  /\ UNCHANGED <<phase, envVars, ctx, ver, reloadVars, cbVars, cellVars>>

\* Every ten minutes the informer reports each object as updated.
Resync(g) ==
  /\ Alive /\ ctx[g] = "running" /\ HasWatcher(g)
  /\ timer' = Arm(g)
  /\ UNCHANGED <<phase, envVars, ctx, ver, view, reloadVars, cbVars, cellVars>>

-----------------------------------------------------------------------------
(* runServe and the environment *)

\* watchReload's goroutine listens to SIGHUP and has set up its file watch, or
\* only warns that it could not.
StartWatching ==
  /\ phase \in {"booted", "serving"} /\ watching = "none"
  /\ watching' \in {"file", "signals"}
  /\ UNCHANGED <<phase, content, disk, pending, triggers, crs, genVars, reloadVars,
                 cbVars, cellVars>>

\* The second config.Load, for the listener, and ListenAndServe.
Listen ==
  /\ phase = "booted"
  /\ phase' = IF content[disk] = "noload" THEN "exited" ELSE "serving"
  /\ UNCHANGED <<envVars, genVars, reloadVars, cbVars, cellVars>>

EditConfig ==
  /\ Alive /\ disk < MaxEdits /\ (watching # "none" \/ EarlyEdits)
  /\ disk' = disk + 1
  /\ \E u \in Updates : pending' = (pending \/ (watching = "file" /\ Reported(u)))
  /\ UNCHANGED <<phase, content, watching, triggers, crs, genVars, reloadVars,
                 cbVars, cellVars>>

\* SIGHUP, held in a channel of capacity one.
Hangup ==
  /\ Alive /\ watching # "none" /\ ~pending /\ triggers < MaxTriggers
  /\ pending' = TRUE
  /\ triggers' = triggers + 1
  /\ UNCHANGED <<phase, content, disk, watching, crs, genVars, reloadVars, cbVars,
                 cellVars>>

ChangeRules ==
  /\ Alive /\ crs < MaxChanges
  /\ crs' = crs + 1
  /\ UNCHANGED <<phase, content, disk, watching, pending, triggers, genVars,
                 reloadVars, cbVars, cellVars>>

\* SIGTERM or SIGINT: the process context ends every generation's, and main
\* returns without waiting for anybody.
Exit ==
  /\ Alive
  /\ phase' = "exited"
  /\ ctx' = [g \in Gens |-> IF ctx[g] = "running" THEN "cancelled" ELSE ctx[g]]
  /\ UNCHANGED <<envVars, ver, view, timer, reloadVars, cbVars, cellVars>>

Reloading(r) == \/ Load(r) \/ Build(r) \/ Fail(r) \/ Compile(r) \/ StoreCurrent(r)
                \/ SetState(r) \/ SwapCancel(r) \/ CancelPrev(r)

Callback(c) == CallbackCompile(c) \/ CallbackCheck(c) \/ CallbackPublish(c)

Next ==
  \/ \E r \in Reloaders : Reloading(r)
  \/ \E c \in Callbacks : Callback(c) \/ \E g \in Gens : TimerFires(g, c)
  \/ \E g \in Gens : Observe(g) \/ Resync(g)
  \/ StartWatching \/ Listen \/ EditConfig \/ Hangup \/ ChangeRules \/ Exit

Spec == Init /\ [][Next]_vars

\* Every goroutine runs on, timers expire, informers deliver.  Nobody has to
\* edit, change, hang up or exit.
Progress ==
  /\ \A r \in Reloaders : WF_vars(Reloading(r))
  /\ \A c \in Callbacks : WF_vars(Callback(c))
  /\ \A g \in Gens : /\ WF_vars(\E c \in Callbacks : TimerFires(g, c))
                     /\ WF_vars(Observe(g))
  /\ WF_vars(StartWatching) /\ WF_vars(Listen)

\* In the long run, with every resync of a running informer.
FairSpec == Spec /\ Progress /\ \A g \in Gens : WF_vars(Resync(g))

-----------------------------------------------------------------------------
(* Properties *)

Phase == {"booting", "booted", "serving", "exited"}
Context == {"none", "running", "cancelled", "discarded"}
ReloadPc == {"idle", "loaded", "built", "compiled", "stored", "set", "swapped"}
CallbackPc == {"idle", "compiling", "checking", "publishing"}

\* The types of the variables; a reloader past Build has a generation, one that
\* is about to cancel has something to cancel, a running callback has a watcher.
TypeOK ==
  /\ phase \in Phase
  /\ content \in [0 .. MaxEdits -> ConfigKind] /\ disk \in 0 .. MaxEdits
  /\ watching \in {"none", "signals", "file"} /\ pending \in BOOLEAN
  /\ triggers \in Nat /\ crs \in Nat
  /\ ctx \in [Gens -> Context] /\ ver \in [Gens -> 0 .. MaxEdits]
  /\ view \in [Gens -> Nat] /\ timer \in [Gens -> BOOLEAN]
  /\ rpc \in [Reloaders -> ReloadPc] /\ rver \in [Reloaders -> 0 .. MaxEdits]
  /\ rgen \in [Reloaders -> Gens \cup {NoGen}] /\ rsnap \in [Reloaders -> Nat]
  /\ rprev \in [Reloaders -> Gens \cup {NoGen}]
  /\ cpc \in [Callbacks -> CallbackPc] /\ cgen \in [Callbacks -> Gens \cup {NoGen}]
  /\ csnap \in [Callbacks -> Nat]
  /\ current \in Gens \cup {NoGen} /\ holder \in Gens \cup {NoGen}
  /\ served \in [gen : Gens \cup {NoGen}, rules : Nat] /\ raced \in BOOLEAN
  /\ \A r \in Reloaders : /\ rpc[r] \notin {"idle", "loaded"} => rgen[r] \in Gens
                          /\ rpc[r] = "swapped" => rprev[r] \in Gens
  /\ \A c \in Callbacks : cpc[c] # "idle" => cgen[c] \in Gens

\* No leak and no blackout, however many reloads overlap: once none is under
\* way the one generation still running is the one genCancel would cancel
\* (applyConfig, serve.go:249-259: "the outgoing generation keeps running
\* until the new one is known good").
OneSurvivor ==
  phase \in {"booted", "serving"} /\ (\A r \in Reloaders : rpc[r] \in {"idle", "loaded"})
    => {g \in Gens : ctx[g] = "running"} = {holder}

\* The generation whose cancel function is stored is never already cancelled:
\* overlapping reloads cancel what each replaced, not what another published.
HolderRuns == Alive /\ holder # NoGen => ctx[holder] = "running"

\* A failed reload never becomes visible: not as the current generation, not
\* to the proxy, not even through a callback of its own watcher that fired
\* before the compile failed (docs/configuration.md:472-479).
FailedInvisible ==
  \A g \in Gens : ctx[g] = "discarded" => g \notin {current, holder, served.gen}

\* The proxy serves an engine whose sources and informers run (applyConfig's
\* comment, serve.go:238-241).
ServedIsRunning == Alive /\ served.gen # NoGen => ctx[served.gen] = "running"

\* Between the two stores of one reload apart, the proxy serves the current
\* generation (compileAndSwap's comment, serve.go:216-219: a superseded
\* generation's publication "would resurrect the superseded config").
ServedIsCurrent ==
  (\A r \in Reloaders : rpc[r] # "stored") => served.gen = current

\* Both hold as long as no two publications have overlapped, whatever else
\* runs at the same time: loads, builds and compiles of other reloads, failing
\* or not, cancellations, and the callbacks of every generation.
UnracedServesWhatRuns == ~raced => ServedIsRunning /\ ServedIsCurrent

\* Reloader r owns a generation it has not handed over, or one it must cancel.
Owns(r) == rpc[r] \in {"built", "compiled", "stored", "set"}
Cancels(r) == rpc[r] = "swapped"

\* Every running generation has an owner, what is owned runs, and nothing has
\* two owners.
NoLeak ==
  Alive => \A g \in Gens : ctx[g] = "running" =>
             \/ g = holder
             \/ \E r \in Reloaders : Owns(r) /\ rgen[r] = g
             \/ \E r \in Reloaders : Cancels(r) /\ rprev[r] = g

OwnersRun ==
  Alive => \A r \in Reloaders : /\ Owns(r) => ctx[rgen[r]] = "running"
                                /\ Cancels(r) => ctx[rprev[r]] = "running"

OneOwner ==
  /\ \A r \in Reloaders : /\ Owns(r) => rgen[r] # holder
                          /\ Cancels(r) => rprev[r] # holder
  /\ \A r, q \in Reloaders :
       /\ Owns(r) /\ Cancels(q) => rgen[r] # rprev[q]
       /\ r # q => /\ Owns(r) /\ Owns(q) => rgen[r] # rgen[q]
                   /\ Cancels(r) /\ Cancels(q) => rprev[r] # rprev[q]

\* Where generation g may become, or has become, visible.
Visible(g) == \/ g \in {current, served.gen}
              \/ \E c \in Callbacks : cpc[c] = "publishing" /\ cgen[c] = g

\* Nothing of a generation shows before it is stored, or after it failed.
Unpublished ==
  /\ \A r \in Reloaders : rpc[r] \in {"built", "compiled"} => ~Visible(rgen[r])
  /\ \A g \in Gens : ctx[g] \in {"none", "discarded"} => ~Visible(g) /\ g # holder

\* Once a reload has succeeded there is a generation to cancel.
Booted ==
  /\ phase \in {"booted", "serving"} => holder # NoGen
  /\ \A r \in Reloaders : Cancels(r) => holder # NoGen

\* The inductive invariant from which TypeOK, OneSurvivor, HolderRuns and
\* FailedInvisible follow.
ReloadInv ==
  TypeOK /\ NoLeak /\ OwnersRun /\ HolderRuns /\ OneOwner /\ Unpublished /\ Booted

\* The proxy ends up serving the last config file written, if it is watched and
\* is a good one, with rules that compiled when it was read (docs/configuration.md:
\* 463-470).  Publications that overlap may leave the superseded file served
\* (compileAndSwap, serve.go:225-229): a watcher of the new generation puts that
\* right, if it has one and its rules compile, and nothing does otherwise.
EditsServed ==
  <>[](\/ ~Alive \/ watching # "file" \/ content[disk] \notin {"plain", "crd"}
       \/ \E g \in Gens : ctx[g] = "discarded" /\ ver[g] = disk /\ Uncompilable(g)
       \/ served.gen # NoGen /\ ver[served.gen] = disk
       \/ raced /\ (~HasWatcher(current) \/ Uncompilable(current)))

\* With the CRD watch on, the proxy ends up serving the rules in the cluster, if
\* they compile (serve.go:170 and crd.go:163-165: OnChange on every change), or
\* is left with a superseded file as above.
ChangesServed ==
  <>[](\/ ~Alive \/ served.gen = NoGen \/ ~HasWatcher(served.gen) \/ crs \in BadRules
       \/ served.rules = crs
       \/ raced /\ ~HasWatcher(current))
=============================================================================
