# alertmanager-label-enricher in TLA+

alertmanager-label-enricher sits between Prometheus and Alertmanager: it takes
the alerts that Prometheus posts, adds, changes or drops labels by rules that
may look things up over HTTP, in files or in Kubernetes, and forwards the batch
to one or more Alertmanagers.  This directory holds TLA+ models of it, the TLC
configurations that check them, and proofs that TLAPS checks.  Paths below are
relative to the repository; `serve.go` is `cmd/enricher/serve.go`, `proxy.go`
is `internal/proxy/proxy.go`, and so on.

    tlc -config batch_forward.cfg MCBatch.tla     # any run of the table below
    tlapm BatchProofs.tla                         # the proofs of one module

## The system

| Component | State it keeps | Operations |
| --- | --- | --- |
| Alert proxy (`proxy.go`) | per request: the errgroup, the encoded batch, a goroutine and an attempt counter per target, the results channel | `handleAlerts` → `enrich` → `alert.Deliverable` → `forward` → `forwardOne` → `forwardAttempt` |
| Engine (`engine.go`) | immutable compiled rules; `Apply` mutates one alert in place | `Compile`, `Apply` |
| Rules and validation (`config.go`, `validate.go`) | none | `Load`, `Parse`, `applyDefaults`, `Validate`, `ValidateRule` |
| Registry and wiring (`source/registry.go`, `wiring.go`), TLS files (`tlsutil.go`) | the sources in order | `NeedsKubeClient`, `BuildSources`, `Registry.Start`, `ServerConfig`, `ClientConfig` |
| HTTP source (`source/http`) | a bounded cache under a mutex, a singleflight group | `Lookup`, `fetch`, `cacheGet`, `cacheSet` |
| File source (`source/file`) | the parsed document behind an atomic pointer, an fsnotify watch | `New`, `Start`, `reload`, `Lookup` |
| Kubernetes source (`source/kubernetes`) | an informer's cache | `Start`, `HasSynced`, `Lookup` |
| Generations (`serve.go`) | `currentGen`, the proxy's `State` and `genCancel`, three atomic cells; one context per generation | `buildGeneration`, `compile`, `compileAndSwap`, `applyConfig`, `watchReload`, `runServe` |
| EnrichmentRule watcher (`crd.go`) | informer caches, a debounce timer, the gauges and the namespaces they were last set for | `Start`, `Reconcile`, `evaluate`, `updateGauges` |
| Status writer (`crd.go`) | `statusPending`, `statusRunning`, under a mutex | `queueStatusWrites`, `writeStatuses`, `reconcileStatus` |
| Tenancy enforcement (`enforce.go`) | immutable policies | `SelectPolicy`, `Rule` |

How they interact.  A POST runs `handleAlerts` on a goroutine of the HTTP
server.  It loads the proxy's `State` once, runs `Engine.Apply` on each alert
under an errgroup of at most `enrichment.maxConcurrency`, and waits for it.
`Apply` calls `Lookup` of the sources that the rules name; concurrent requests
meet in the HTTP source's cache and flights.  The handler then starts one
goroutine per target, whose context is detached from the request, and answers
as soon as `forward.minSuccess` of them succeeded: the others go on after the
reply.

`applyConfig` builds the engine the handlers use.  It runs at boot, on the
goroutine of `watchReload` (SIGHUP and file events) and in every
`POST /-/reload` handler, without a lock, and stores its outcome in three cells
one after another.  Each generation's EnrichmentRule watcher calls back
(`compileAndSwap`) from a debounce timer, on a goroutine of its own, whenever a
rule or a namespace changes; the callback checks that its generation is current,
then stores a new `State`.  Compiling evaluates the EnrichmentRules under the
policies (`evaluate` → `enforce.Rule`), sets the gauges and queues the verdicts
for the status writer, which updates the rules at the API server, which the
informers of every replica then report as changes.

What is hard here: the three stores without a lock, and callbacks and reloads in
between; a start that waits for an API server which may never answer, and files
that are read while they are written; requests that are lost or accepted late, retried, and answered for
before they have ended; contexts that end (or deliberately do not) with the
request, the batch's budget, the generation or the process; overlapping
evaluations; status writes whose conflicts nobody retries; rules of tenants that
each look harmless.

What makes each component correct: an acknowledged batch is held by
`minSuccess` targets, a failed required lookup keeps all of it back, one bad
entry strands nobody, every request is answered (proxy); reloads leak nothing,
show nothing that failed, and what is served runs and is current (generations);
what `check` accepts is not refused later for what the file says, a generation
serves nothing before its sources have data and leaves nothing behind, and
lookups follow what they look at (building a generation, file and Kubernetes
sources);
no rule strips the last label or touches a reserved one unacknowledged, and
every change is reported (engine); the cache is bounded and fresh, and no caller
suffers from another one's disappearance (HTTP source); the caps cut exactly
(evaluation); conditions never go back and end up right (status writer);
tenants act only on their own alerts, and cannot pass them off as others'
(enforcement).

## The modules

| Module | Models | Correspondence |
| --- | --- | --- |
| `Delivery` | what a sender may conclude from the answer | abstract: `verdict`, `released`, `holders` |
| `Batch` | one POST, end to end | `pc` is the control point of `handleAlerts`; `task` the errgroup goroutines; `tgt`, `tries`, `wire`, `stale`, `accepted` the target goroutines and the network; `results`, `collected` the channel |
| `Reload` | generations and reloads | `rpc` is the control point of each `applyConfig`, `cpc` of each `compileAndSwap`; `current`, `holder`, `served` are the three cells; `ctx` the context of each generation |
| `Lifetime` | what a generation promises: data before it serves, an end to its building, an end to its goroutines | abstract: `stage`, `wanted`, `live`, `loaded` |
| `Loading` | config files, and what `Load`, `tlsutil` and `engine.Compile` refuse | operators over a file with its texts good or bad |
| `Generation` | `buildGeneration`, `compile` and `runTest`, with file sources, informers, editors and the API server | `pc` is the control point; `next` the index of `BuildSources`' and `Registry.Start`'s loops; `data` the file source's pointer or the informer's cache, `routine` their goroutines |
| `Config` | rules and `ValidateRule`'s conditions on what may run | shared by the next three |
| `Engine` | `Apply`, one action at a time | `ri`, `ai` are its loop indices, `res` the rule's `Result` |
| `Enforce` | `SelectPolicy` and `Rule` | operators |
| `Tenancy` | the engine, run on the file's rules and the EnrichmentRules that pass enforcement | `Engine` and `Enforce` composed; `owners` is added to tell whose rule acts |
| `Evaluate` | `evaluate` and `updateGauges` | one `Judge` per candidate; `store` and `profiles` are the informers' caches |
| `StatusWriter` | `Reconcile` to `reconcileStatus`, for several watchers | `eval`, `pending`, `writers`, `todo` per watcher; `server` is the API server |
| `HttpSource` | `Lookup`, its cache and flights | `pc` is the control point of each caller's `Lookup` |
| `MC...` | finite instances | sets of kinds, rules, policies, scenarios |
| `BatchProofs`, `ReloadProofs`, `GenerationProofs`, `EngineProofs`, `TenancyProofs`, `HttpSourceProofs`, `EvaluateProofs`, `StatusWriterProofs` | theorems | see below |

Some choices that matter when reading them:

* An alert in `Batch` is what `Apply` and `Deliverable` tell apart: the form of
  its labels and annotations, and whether an optional or a required lookup
  applies to it.  What rules do to labels is `Engine`'s subject.
* A target in `Batch` refuses a whole POST when the labels of one alert in it, as
  they are after enrichment (`LabelsOf`), are not there: that is what `alert.go:120-125`
  says of Alertmanager, and why `Deliverable` is there.  It may reject any other.
* `Batch` lets a target accept an attempt after it was given up (`stale`), or
  accept and lose the response.  The client may hang up and the process may
  exit in any state.
* Config files and rule snapshots in `Reload` are version numbers; their kind
  decides at which stage a reload fails.  Sources and informers are the context
  of their generation: running, cancelled, or discarded by a reload that failed.
* `watching` in `Reload`: until `watchReload` runs nothing is noticed; from then on
  SIGHUP is, and the file too unless fsnotify refuses the watch, which is only
  logged (`serve.go:359-367`).
* What a lookup, a jq query or a template yields in `Engine` is any value it may
  yield, or a failure.
* `Reload` and `Generation` look at the same code from two sides.  `Reload` has
  many generations, whose building succeeds or fails by the kind of their file;
  `Generation` has one, and the stages of its building, what each of them
  starts, and what becomes of that.  `Reload`'s `Build`, `Fail` and `Compile`
  are all that it sees of `Generation`.
* `raced` in `Reload` and `unseen` in `Generation` are history variables: no
  guard reads them, the properties do.  `raced` says that two publications have
  overlapped (one of them was between its check, or its first store, and its
  last when the other stored), `unseen` that the last edit of a file was
  neither read by `New` nor reported to the watch.
* The parts of `Generation` are the sources, one after another, and the
  EnrichmentRule watcher, whose two informers are started and waited for
  together and are modelled as one.  An editor may truncate and write a file, in
  two pieces too, or rename a new one over it; the kubelet swaps `..data`.
* A text in `Loading` (regex, template, jq, certificate) is missing, good or
  bad: the point is who compiles it and when, not what it says.
* `Evaluate` takes a cap of 0 for "unlimited"; in the code nothing leads there:
  the default replaces 0 by 1000, and less is refused.
* `Sorted` in `Evaluate` and `InOrder` in `Tenancy` are the sequences that have the
  right members in the right order, of which there is one.
* `Tenancy` ignores order and caps: the rules come in any order, so
  what it shows holds of whatever `evaluate` returns.  Lookups name one source,
  which a policy allows or does not.

## The runs

| Run | Shows |
| --- | --- |
| `batch_enrich` | three entries of eight kinds on an errgroup of two: the whole batch is kept back once a required lookup has failed (`FailClosed`), nothing goes out without a required label (`RequiredLabelPresent`), no bad entry takes a good one with it, nor stays in a batch that a target then refuses entirely (`NoneStranded`), every request is answered (`Answered`) |
| `batch_forward` | three targets, two successes required, one retry: what "ok" and "failed" say of the targets (`AckMeansAccepted`, `GaveUpMeansExhausted`), at most 1 + retries copies (`BoundedCopies`), the reply waits for two targets only (`PromptReply`), the third is tried to the end (`StragglersFinish`); `ImplementsDelivery` |
| `reload_concurrent` | file watch, POST and callbacks at once, files that fail at every stage, edits at any time: one generation survives (`OneSurvivor`), the one that is kept runs (`HolderRuns`), a failed one never shows (`FailedInvisible`), and until publications have overlapped the proxy serves the current generation and it runs (`UnracedServesWhatRuns`) |
| `reload_live` | one reload after another, of files with and without the CRD watch, or that fail: a good edit in place of a watched file ends up served (`EditsServed`), and so does every change of the rules (`ChangesServed`); the exception is a callback's late publication that no watcher of the new generation repairs |
| `reload_cancelled` | **violated**: `ServedIsRunning`, with two reloads at once |
| `reload_configmap` | **violated**: `EditsServed`, with a ConfigMap volume |
| `engine` | last label, reserved labels, required labels, reported changes, over one rule of up to three actions and over pairs of rules |
| `http` | cache, flights and timeouts for two callers and two keys |
| `status` | `NeverOutdated`, `StatusesConverge` before any resync, `ResyncsRepair` after errors and overlaps; five scenarios |
| `tenancy_scoped` | every pair of rules two namespaces may submit, after any rule of the file: `TenantsAreScoped`, `NoMasquerade`, `TenantsCannotFailTheBatch` |
| `generation` | under `serve` and `test`, lists of sources that hold each other up, and some 700 files with something out of order: what `check` accepts fails later only for what lies outside the file, or for the template of a source, and what is published has a target, positive limits and a `minSuccess` that is neither 0 nor out of reach (`CheckedConfigsRun`); lookups end up finding what is there (`SourcesFollow`); `ImplementsLifetime` |
| `evaluate` | `TheCutIsExact` under two caps while rules and namespaces change, `TheGoneHaveNoGauge` for two evaluations that overlap |

The type invariants of `Batch` and `Reload`, and `EnrichmentJoined` of `Batch`,
are in no run's list: they are proved for every value of the constants.
`NoneAssumption` in `HttpSource` and `StatusWriter`, and `Absent` in
`EvaluateAssumption`, only say that the value for "nothing there" is no other.

### Bounds

* `Batch`: three entries on two slots is the least batch that has one goroutine
  waiting while two interleave; the eight kinds are one per outcome of decoding,
  `Apply` and `Deliverable`.  Three targets with `MinSuccess` 2 leave a
  straggler after success, and a success after a failure; one retry has both a
  given-up attempt and its successor in flight.
* `Reload`: `Gens` bounds the reloads; three are the running generation and two
  that replace it, one after the other or at once.  Files of four kinds (with
  and without a watcher, one that fails to load, one that fails to compile) and
  one bad snapshot of rules make reloads and callbacks fail at each stage.
  `MaxEdits`, `MaxChanges` and `MaxTriggers` bound the environment, and
  `EarlyEdits` lets the file change before it is watched.  `reload_live` has no
  early edits, which nothing in the code would notice, and rules that all compile:
  with a snapshot that does not and a second change the properties hold as well,
  over two million states that take too long for a standing run.  Generations are
  interchangeable, so the safety runs use their symmetry.
* `Generation`: two sources, or one source and the watcher: the first starts,
  and follows its file or resource, while the second is waited for, or fails and
  takes the first with it.  Two edits are one that is being read and one that
  comes meanwhile; two outages let the API server go and come back.  The odd
  files are every combination of one rule's texts and modes, one source's
  fields, the two TLS blocks, and the numbers around their limits.
* `Engine`: two labels, one reserved, and one annotation; three actions reach
  drop-set-drop of one label, two rules reach a match on what was done.
* `HttpSource`: two callers and two keys over one cache entry give joined
  flights, races for one entry and evictions; `Horizon` 2 outlasts `TTL` and
  `Timeout`, of a tick each, and `NegativeTTL`, of less than a tick, so that
  successes and failures both expire.  Half of the states have `prompt` false: any
  goroutine may be delayed across ticks.  The properties that measure time are
  about the other half, since with delays at will no code bounds anything.
* `StatusWriter`: one rule (rules do not interact), two watchers, up to two
  edits.  `MaxSeen` bounds the versions that a replaced watcher sees: with two
  policies at odds the two watchers overwrite each other for as long as both
  live, and a reload does come to its end.
* `Evaluate`: three rules, a cap of one per namespace and of two in all, so that
  each cap is reached with and without the other; one change at any point.
  `Evaluations` are interchangeable.
* `Tenancy`: three labels (the namespace label, one that a policy asserts, a free
  one), two policies, one action per rule.  Longer sequences are what pairs of
  rules after a rule of the file stand for: rules of one owner follow each other.
  `TenantsAreScoped` and `NoMasquerade` suppose that no rule of the file writes an
  asserted label (`AdminWritesNoAsserted`): such a rule is the admin's own doing.

### Fairness

* `EnrichFairness`: the handler and the errgroup's goroutines run; lookups end
  because each source bounds them.  `TargetFairness`: attempts end because of
  `forward.timeout`, backoffs because they are timers.  `batch_*` assume the
  first only; `Answered` and `StragglersFinish` state the second as their
  condition, and `PromptReply` does without.  The process may exit at any time,
  which the properties allow for.
* `Reload`'s `Progress`: goroutines run, timers expire, informers deliver.  Its
  `FairSpec` adds the informers' resync, every ten minutes (`crd.go:136`).
* `StatusWriter`'s `Progress` likewise, and a reload that has begun ends.
  `Resyncs` is a condition of `ResyncsRepair` only.
* `Generation`: goroutines run and the timer of `syncTimeout` expires
  (`kubernetes.go:41`, `crd.go:182`).  The API server need not answer, nor an
  editor finish what it began: building ends all the same.
* Nobody has to edit, post, hang up, fail or exit.

## What is proved

For every value of the constants that satisfies the modules' assumptions.

`BatchProofs` assumes `BatchAssumption`: finitely many targets, at least one;
`MinSuccess` not above their number and not 0; naturals for the rest.

* `TypeCorrect`: `TypeOK` is inductive.
* `BatchInv` is inductive given `TypeOK`.  The safety properties are not
  inductive by themselves.  That an "ok" needs acceptances rests on
  `Attempts` (a target that counts as a success has accepted) and on acceptances
  never being undone; `FailClosed` rests on `ReleasedClean` (nothing is released
  after a failure) and on `Quiet` (before the release the targets are untouched);
  the required labels rest on `Enrichment` (a goroutine that is over has set the
  label or failed the batch) with `Joined`; the bound on copies counts the
  attempts in flight.  From it: `AcknowledgedBatchesAreDelivered`,
  `RequiredRulesFailClosed`, `RequiredLabelsAreForwarded`, `CopiesAreBounded`,
  `FailuresAreExhaustive`, `NoEnrichmentAfterwards`.
* `ForwardInv` is a second invariant, given the first: the results in the
  channel, and those received, are of the targets that have finished and of no
  others (`ResultsAreFinished`), and the loop that receives them has not had
  enough yet (`StillShort`); whatever is in the payload has labels, as it is
  encoded, and was kept for them.  From it: `GivingUpIsFinal` and
  `NoAlertIsStranded`, whose second half is that no answer ever is the refusal
  (`NobodyRefuses`, `WireStep`).
* `BatchImplementsDelivery`: each action of `Batch` is one of `Delivery`'s
  under the mapping at the end of `Batch`, or changes none of its variables.
  The quorum of an acknowledgement is `AckMeansAccepted` after the step.

`ReloadProofs` assumes `ReloadAssumption`, for any set of reloaders, callbacks
and generations.

* `ReloadTypeCorrect`.
* `ReloadInv`: every running generation has exactly one owner, the holder or a
  reload that has yet to publish or to cancel it (`NoLeak`, `OneOwner`); what is
  owned runs (`OwnersRun`, `HolderRuns`); nothing shows before it is stored or
  after it failed (`Unpublished`); after boot there is a holder (`Booted`).  From
  it: `ReloadsLeakNothing`, `TheKeptGenerationRuns`,
  `FailedReloadsAreInvisible`, for overlapping reloads too.
* `UnracedReloadsServeWhatRuns`: for any number of reloaders and callbacks, the
  proxy serves the current generation and it runs, as long as no two
  publications have overlapped.  `CellsInv` follows the three cells through the
  steps of a publication: before the first store they agree, between the stores
  they lag behind by as many as `rpc` says.  The condition is needed, as
  `reload_cancelled` shows.

`GenerationProofs` assumes `GenerationAssumption`: any set of config files, any
number of parts, any bounds.

* `GenerationTypeCorrect`.  `TypeOK` needs `WaitsForPart` (nobody waits but for an
  informer) and `ResourcesGood` to be inductive.
* `CheckedFilesRun` rests on two lemmas about all config files:
  `ValidFilesCompile` (validation compiles every text that the engine will; the
  comments at `validate.go:149-153` and `277-283` are about this) and
  `ValidNumbers`; and on `Outcome`, which has a cause for every failure: something
  in the file that `check` would have found, something outside of it
  (`FailedOutside`, by stage and by the part it stopped at), or the template of
  the source it stopped at (`FailedOnTemplate`).
* `GenerationsKeepTheirPromise`: each step is one of `Lifetime`'s or changes
  nothing of it.  That a published generation has all its data is
  `SourcesBuilt` (sources before the next one were built) and `PartsStarted`
  (parts before the next one were started and have synced).  The fairness half
  of the promise is TLC's.

`EngineProofs` assumes what the constants of `Config` and `Engine` are: any
names, values and reserved labels, any configurations whose rules `ValidateRule`
accepts, any alert.

* `EngineTypes`, `NoAlertLosesItsLastLabel`, `ReservedLabelsNeedForce`,
  `EveryLabelChangeIsReported` and `ApplyKeepsRequiredLabels`, for rules and
  actions of any number.  The properties rest on lemmas about one action
  (`AfterChanges`, `ReportingGrows`, `GoneMeansDropped`, `SetMeansPresent`).
  `EngineInv` adds that the rules are valid, which reserved labels and required
  rules need, `DoneAtTheEnd`, and `PromisesKept`: whatever a required rule has
  set so far is there or was reported as dropped since, while the rules are
  still being run.  `RequiredIsPresent` says so of the end only.

`TenancyProofs` assumes what the constants of `Enforce` are, for any file, any
EnrichmentRules, any policies and any alert.

* `TenancyInv` carries `EngineInv` along (`TenantsAreHeldToTheSameRules`), knows
  of every rule whose it is and that enforcement accepted it (`OwnersKnown`), and
  that a run which failed did so in a required rule (`FailedIsRequired`).  The
  core is what rules cannot change: the namespace label is what it was when the
  alert came in (`NamespaceKept`), the labels that the matching namespace's
  policy asserts too (`ScopeKept`), so a rule that matches, matched already at
  the start (`EnteredInScope`).  From it: `NobodyMasquerades`,
  `RulesStayInTheirScope`, `OnlyTrustedRulesFailBatches`.
* `NobodyMasquerades` and `RulesStayInTheirScope` suppose that there are policies, that `namespaceMatcherLabel` is
  set, and that no rule of the file writes an asserted label;
  `OnlyTrustedRulesFailBatches` that there are policies.  All are needed: without policies rules pass as they are
  (`enforce.go:54`), and without the label nothing names the namespace.

`HttpSourceProofs` assumes naturals for the settings, and for any callers and keys:

* `HttpSourceTypes`: a waiting caller's flight is there, the cache keeps to
  `cache.maxEntries`.  `CacheIsFinite` is needed for the count, as the keys may be
  infinitely many.
* `CallersTakeNobodyWithThem` rests on `AnswersRan`: every answer under way, in a
  flight, in the cache or in a caller's hands, ran for its timeout if it is one.
* `EveryLookupIsBounded`, `NoStaleResult` and `TimeoutsAreNeverKept` are about
  executions that leave no goroutine waiting that can run (`prompt`).  They rest
  on `NobodyDawdles`, which ties each control point to the clock, and
  `EntriesAged`, which ties an entry's expiry to the end of its fetch.

`StatusWriterProofs`, for any watchers, rules, policies and bounds:

* `StatusWriterTypes`: one writer per watcher, and whatever is pending has one.
* `ReadyNeverGoesBack`.  `NeverOutdated` needs to know that every copy of a rule, in
  whoever's hands, was the rule at some time (`CopiesWereOnce`): then the version
  that the API server compares decides whether it still is.

`EvaluateProofs` assumes `EvaluateAssumption`: finitely many EnrichmentRules, any
policies, any caps, any number of evaluations at once.

* `CapsCutExactly`.  `TheCutIsExact` speaks of an evaluation that has returned.
  `CutSoFar` says the same of one that has judged the first so many candidates:
  `FirstAdd` is what one more does to the cut of one namespace and of the
  cluster, and `FullMeaning` that the counters of `evaluate` know when a cap is
  reached (`AcceptedCount`: what they count are the compiled candidates).
  `VerdictsStand` is needed since namespaces change meanwhile: a verdict is right
  by the labels read first, which the evaluation keeps.
* `EvaluateTypes`: what is returned is what the decisions call compiled, which
  needs that no EnrichmentRule is a candidate twice (`ListedOnce`).
* `GoneNamespacesAreZero`, from `UnseenAreZero`: a namespace that
  `seenNamespaces` does not list has gauges of zero.

So every invariant and every safety action property that a passing run checks is
also a theorem.  Only model-checked: liveness, since the prover does not do
fairness or `ENABLED` (`Answered`, `PromptReply`, `StragglersFinish`,
`EditsServed`, `ChangesServed`, `StatusesConverge`, `ResyncsRepair`,
`SourcesFollow`, and the fairness half of `ImplementsLifetime`); and the two
violations, which are counterexamples.  The least number of a set, which `CHOOSE`s
in `Enforce` rely on, is proved from the well-foundedness of the naturals
(`LeastPosition`, `LeastNumber`); what `sort.Slice` returns is stated as the
sequences that are sorted, so nothing has to be proved by induction about how it
gets there.

## Where the code and its words part ways

Shown by a run:

* `reload_cancelled`: of two reloads at once, the one that sets the `State` last
  may be the one that the other has already cancelled; the proxy then serves an
  engine whose sources are shut down, which `serve.go:233-241` sets out to
  prevent.
* `reload_configmap`: `watchReload` skips events of other basenames, and a
  ConfigMap update touches only `..data`, although the directory is watched for
  its sake (`serve.go:351-353`).

Met on the way, without a standing run:

* A callback that found its generation current may publish it after a reload has
  replaced it (`serve.go:225-229`): the configuration that the comment at
  `serve.go:216-219` does not want resurrected.  One reloader and one callback are
  enough.  If the new file has the CRD watch, the watcher's first callback or a
  resync publishes the new generation again; if it has not, the superseded file is
  served, by an engine whose sources are shut down, until the next reload.
  `EditsServed` and `ChangesServed` name this case; without it in `EditsServed`,
  `reload_live` fails with this trace.
* Two reloads at once may also leave `currentGen` with one generation and
  `genCancel` with the other, and a reload that read an older file may publish
  last.
* A change of the rules whose debounce expires before a reload stores
  `currentGen` is dropped until the next change or resync.
* A negative `forward.minSuccess` passes validation (`validate.go:26`): the first
  result is then enough, whatever it is.  `CheckedConfigsRun` leaves it out, and
  `Batch` supposes that it is positive.
* A required rule with a default does not fail on a lookup error
  (`engine.go:303`; `docs/configuration.md:335` says it does).
* In a dry run an action does not see what the ones before it would have done
  (`engine.go:204`; `docs/configuration.md:345-347`).
* A `Lookup` whose budget is spent goes on waiting for its flight, up to the
  source's timeout (`http.go:107`; `docs/configuration.md:98`); a caller that
  missed the cache just before a flight ended fetches the key again.
* Evaluations that overlap may queue their verdicts in the wrong order
  (`crd.go:272`; `crd.go:260-263`); the resync repairs it.
* A namespace whose last accepted rule is rejected keeps its gauge of accepted
  rules (`crd.go:596`; `crd.go:587-588`).
* A file source, too, skips events of other basenames: a ConfigMap update of its
  file is not seen (`file.go:46-49`, `docs/configuration.md:176-178`).  Nor is an
  edit between its `New` and its watch (`file.go:57`), which may be a minute
  apart when an informer before it is waited for.
* Templates of sources (`kubernetes.name`, `kubernetes.namespace`, `http.url`) are
  compiled by `BuildSources` and not by validation: `check` prints "ok" of a file
  that `serve` refuses.  `CheckedConfigsRun` names them (`FailedOnTemplate`).
* `crd.maxRules` of 0 "means unlimited" (`config.go:37`), but 0 becomes 1000 and
  less is refused (`validate.go:35`): there is no way to say unlimited.
* An unset variable is left as `${NAME}` so that it "fails validation loudly"
  (`config.go:309-311`), but a URL or a path of this form passes validation.
* The resync of an informer is called a "periodic full relist"
  (`kubernetes.go:32-33`); client-go delivers the cache again and lists nothing.
* On SIGTERM `main` returns when `ListenAndServe` does, which is at once; nobody
  waits for the `Shutdown` that would wait for the handlers (`serve.go:316-332`).
* Without policies no namespace matcher is injected (`enforce.go:54`;
  `config.go:47-49`, but see `docs/configuration.md:563-566`).

## Not modelled

Parsing and environment expansion (any file may come of them); the languages of
jq and of templates, which belong to libraries, and the query cache, a memo
table; the 503 of a proxy without a `State` and the 500 of a batch that cannot be
encoded (`proxy.go:107-112`, `163-167`), which nothing leads to; what an
Alertmanager makes of annotations that are no strings, which are forwarded as they
are; a tenant whose lookups use up the budget of the batch; the gauges and
statuses that a reload has reported before it failed; the deletion of an
EnrichmentRule whose status is being written, which the API server answers with
an error and leaves nothing to write to (`TheGoneHaveNoGauge` is about its gauges);
what a Kubernetes `Lookup` renders and picks (any result, in `Engine`);
the listener: its choice of TLS is fixed at startup from a second reading of the
file (`serve.go:292-302`); Events, log lines and most metrics; the output of
`check` and `test`; chart and manifests.

## Plan

Done, in this order: `Delivery` and `Batch` with their proofs, `Reload` with its
proofs, `Config` and `Engine`, `HttpSource`, `StatusWriter`, `Enforce` and
`Tenancy`, `Evaluate`; then `Reload` with overlap as history, and `Lifetime`,
`Loading` and `Generation` with their proofs.

Next, by importance:

1. `Evaluate` over successive generations: the gauges that an outgoing watcher
   leaves behind.
2. The listener: a second reading of the file, and TLS that a reload removes.
3. `Generation` composed with `Reload`: the data of the sources that the proxy
   serves from, across reloads, and `/readyz`.
4. `Evaluate` and `Tenancy` composed: the caps as well as the policies.

Proofs to come: the abstract specifications still worth stating, each with
its refinement: a register that reloads write atomically, which `Reload`
implements until publications overlap; a per-key memo that `HttpSource`
implements; and that `Evaluate`'s outcome, were nothing to change meanwhile, is a
function of the cache.
