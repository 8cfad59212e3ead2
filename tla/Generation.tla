----------------------------- MODULE Generation -----------------------------
(***************************************************************************)
(* One configuration generation from its file to its end: config.Load,     *)
(* wiring.BuildSources, the registry that starts the sources one by one,   *)
(* the EnrichmentRule watcher, the compile (buildGeneration and compile in *)
(* serve.go; runTest in test.go does the same without TLS and watcher),    *)
(* and meanwhile and afterwards the goroutines of file sources and         *)
(* informers, against files that are edited and an API server that comes   *)
(* and goes.  What module Reload sees of all this is its Build, Fail and   *)
(* Compile and the context of a generation.                                *)
(*                                                                         *)
(* The parts of a generation are its sources, in the order of the file,    *)
(* and the watcher, whose informers are modelled as one.  Contents are     *)
(* version numbers, with what parsing makes of them.  The definitions      *)
(* commented "Mutant" are deliberate faults no action uses.                *)
(***************************************************************************)
EXTENDS Loading

CONSTANTS ConfigFiles,   \* the config files that may be given
          Commands,      \* serve, test, or both
          MaxParts,      \* bound: sources and watcher of a file
          MaxEdits,      \* bound: changes of files and resources
          MaxOutages     \* bound: times the API server comes or goes

ASSUME GenerationAssumption ==
  /\ ConfigFiles \subseteq File
  /\ Commands \subseteq {"serve", "test"}
  /\ MaxParts \in Nat /\ MaxEdits \in Nat /\ MaxOutages \in Nat
  /\ \A f \in ConfigFiles : Len(f.sources) < MaxParts

Positions == 1 .. MaxParts

\* What a file parses as: something, an empty document, a prefix that happens
\* to parse, nothing.  Resources of the API server are always good.
Content == [text : {"good", "empty", "partial", "bad"}, ver : 0 .. MaxEdits]

Nothing == [text |-> "none", ver |-> 0]

VARIABLES
  file,      \* the config file
  command,   \* what was asked of the program
  kube,      \* a Kubernetes client can be built
  content,   \* what the file or the resources of each part hold
  api,       \* the API server lets each part list and watch
  edits,     \* changes so far
  outages,   \* comings and goings of the API server so far
  pc,        \* control point of buildGeneration and compile
  next,      \* the part that is built or started next
  failedAt,  \* the stage that failed
  ctx,       \* the generation's context
  routine,   \* the goroutine of each part: fsnotify loop or informer
  event,     \* fsnotify holds an event of the file
  reading,   \* what a reload has read and not yet stored
  data,      \* what Lookup finds: the source's pointer or the informer's cache
  unseen     \* history: the last edit was neither read by New nor reported

staticVars == <<file, command, kube>>
worldVars  == <<content, api, edits, outages>>
buildVars  == <<pc, next, failedAt, ctx>>
partVars   == <<routine, event, reading, data, unseen>>
vars == <<file, command, kube, content, api, edits, outages, pc, next, failedAt, ctx,
          routine, event, reading, data, unseen>>

Sources == 1 .. Len(file.sources)

\* test does not watch EnrichmentRules.
Watches == file.crd /\ command = "serve"

Parts == 1 .. (Len(file.sources) + IF Watches THEN 1 ELSE 0)

Kind(p) == IF p \in Sources THEN file.sources[p].kind ELSE "kubernetes"

IsFile(p) == p \in Parts /\ Kind(p) = "file"
IsInformer(p) == p \in Parts /\ Kind(p) = "kubernetes"

HasSynced(p) == Kind(p) = "http" \/ data[p] # Nothing

-----------------------------------------------------------------------------
(* Operators the actions below are built from *)

\* Mutant: a failed start leaves the context of what it started running.
ContextAfterFailureKept == ctx

\* cancel, once there is something to cancel.
ContextAfterFailure == IF ctx = "none" THEN ctx ELSE "cancelled"

\* Mutant: an empty document is stored like any other.
LoadsContentEvenEmpty(c) == c.text \in {"good", "partial", "empty"}

\* reload stores what it has read.
LoadsContent(c) == c.text \in {"good", "partial"}

\* Mutant: the event is dropped when the reload is over, not before it reads.
EventsOnceStored(p) == [event EXCEPT ![p] = FALSE]

EventsAfterStore(p) == event

Fail(stage) ==
  /\ pc' = "failed" /\ failedAt' = stage
  /\ ctx' = ContextAfterFailure

-----------------------------------------------------------------------------
Init ==
  /\ file \in ConfigFiles /\ command \in Commands /\ kube \in BOOLEAN
  /\ content \in [Positions -> {[text |-> t, ver |-> 0] : t \in {"good", "bad"}}]
  /\ \A p \in Positions : ~IsFile(p) => content[p].text = "good"
  /\ api \in [Positions -> BOOLEAN]
  /\ \A p \in Positions : ~IsInformer(p) => ~api[p]
  /\ edits = 0 /\ outages = 0
  /\ pc = "loading" /\ next = 1 /\ failedAt = "nowhere" /\ ctx = "none"
  /\ routine = [p \in Positions |-> "none"]
  /\ event = [p \in Positions |-> FALSE]
  /\ reading = [p \in Positions |-> Nothing]
  /\ data = [p \in Positions |-> Nothing]
  /\ unseen = [p \in Positions |-> FALSE]

(* buildGeneration and compile *)

Load ==
  /\ pc = "loading"
  /\ \/ /\ Loads(file)
        /\ pc' = "client"
        /\ UNCHANGED <<failedAt, ctx>>
     \/ ~Loads(file) /\ Fail("load")
  /\ UNCHANGED <<staticVars, worldVars, next, partVars>>

Client ==
  /\ pc = "client"
  /\ \/ /\ NeedsKubeClient(file) => kube
        /\ pc' = "building"
        /\ UNCHANGED <<failedAt, ctx>>
     \/ NeedsKubeClient(file) /\ ~kube /\ Fail("client")
  /\ UNCHANGED <<staticVars, worldVars, next, partVars>>

\* New of the next source: a file is loaded, a template is compiled.
Build ==
  /\ pc = "building" /\ next \in Sources
  /\ LET builds == IF Kind(next) = "file" THEN LoadsContent(content[next])
                   ELSE file.sources[next].template = "good"
     IN  \/ /\ builds
            /\ data' = IF Kind(next) = "file" THEN [data EXCEPT ![next] = content[next]]
                                              ELSE data
            /\ unseen' = [unseen EXCEPT ![next] = FALSE]
            /\ next' = next + 1
            /\ UNCHANGED <<pc, failedAt, ctx>>
         \/ ~builds /\ Fail("sources") /\ UNCHANGED <<next, data, unseen>>
  /\ UNCHANGED <<staticVars, worldVars, routine, event, reading>>

\* The TLS settings, which test does without, and the context.
Context ==
  /\ pc = "building" /\ next \notin Sources
  /\ LET builds == command = "serve" => ForwardTLSBuilds(file) /\ ServerTLSBuilds(file)
     IN  \/ /\ builds
            /\ pc' = "starting" /\ next' = 1
            /\ ctx' = "running"
            /\ UNCHANGED failedAt
         \/ ~builds /\ Fail("tls") /\ UNCHANGED next
  /\ UNCHANGED <<staticVars, worldVars, partVars>>

\* Start of the next part: fsnotify may refuse the watch, an informer has then
\* to be waited for.
Start ==
  /\ pc = "starting" /\ next \in Parts
  /\ \/ /\ Kind(next) = "http"
        /\ next' = next + 1
        /\ UNCHANGED <<pc, failedAt, ctx, routine>>
     \/ /\ Kind(next) = "file"
        /\ routine' = [routine EXCEPT ![next] = "running"]
        /\ next' = next + 1
        /\ UNCHANGED <<pc, failedAt, ctx>>
     \/ Kind(next) = "file" /\ Fail("start") /\ UNCHANGED <<next, routine>>
     \/ /\ Kind(next) = "kubernetes"
        /\ routine' = [routine EXCEPT ![next] = "running"]
        /\ pc' = "waiting"
        /\ UNCHANGED <<next, failedAt, ctx>>
  /\ UNCHANGED <<staticVars, worldVars, event, reading, data, unseen>>

\* WaitForCacheSync finds the informer synced.
Synced ==
  /\ pc = "waiting" /\ HasSynced(next)
  /\ pc' = "starting" /\ next' = next + 1
  /\ UNCHANGED <<staticVars, worldVars, failedAt, ctx, partVars>>

\* Mutant: the outcome of WaitForCacheSync is not looked at.
GiveUpIgnored == pc' = "starting" /\ next' = next + 1 /\ UNCHANGED <<failedAt, ctx>>

\* syncTimeout, or the context, ends before the next poll: an informer that
\* synced just now may be given up too.
GiveUp == Fail(IF next \in Sources THEN "start" ELSE "watcher") /\ UNCHANGED next

TimeOut ==
  /\ pc = "waiting"
  /\ GiveUp
  /\ UNCHANGED <<staticVars, worldVars, partVars>>

\* compile, and applyConfig's publication; or test runs its alerts.
Compile ==
  /\ pc = "starting" /\ next \notin Parts
  /\ \/ /\ Compiles(file)
        /\ pc' = "published"
        /\ UNCHANGED <<failedAt, ctx>>
     \/ ~Compiles(file) /\ Fail("compile")
  /\ UNCHANGED <<staticVars, worldVars, next, partVars>>

\* Another generation replaces this one, the process is told to stop, or the
\* 30 seconds of test are over: at any point once there is a context.
Cancel ==
  /\ ctx = "running"
  /\ ctx' = "cancelled"
  /\ UNCHANGED <<staticVars, worldVars, pc, next, failedAt, partVars>>

-----------------------------------------------------------------------------
(* File sources *)

\* The loop receives an event of its file, and reload reads the file.
TakeEvent(p) ==
  /\ IsFile(p) /\ routine[p] = "running" /\ event[p] /\ reading[p] = Nothing
  /\ event' = [event EXCEPT ![p] = FALSE]
  /\ reading' = [reading EXCEPT ![p] = content[p]]
  /\ UNCHANGED <<staticVars, worldVars, buildVars, routine, data, unseen>>

\* reload parses and stores it, or keeps what there was.
Store(p) ==
  /\ IsFile(p) /\ reading[p] # Nothing
  /\ data' = IF LoadsContent(reading[p]) THEN [data EXCEPT ![p] = reading[p]] ELSE data
  /\ reading' = [reading EXCEPT ![p] = Nothing]
  /\ event' = EventsAfterStore(p)
  /\ UNCHANGED <<staticVars, worldVars, buildVars, routine, unseen>>

\* Between two reloads the loop finds the context done.
Leave(p) ==
  /\ IsFile(p) /\ routine[p] = "running" /\ ctx = "cancelled" /\ reading[p] = Nothing
  /\ routine' = [routine EXCEPT ![p] = "ended"]
  /\ UNCHANGED <<staticVars, worldVars, buildVars, event, reading, data, unseen>>

(* Informers *)

\* The first list, or what watch and relist report later.
Receive(p) ==
  /\ IsInformer(p) /\ routine[p] = "running" /\ api[p] /\ data[p] # content[p]
  /\ data' = [data EXCEPT ![p] = content[p]]
  /\ UNCHANGED <<staticVars, worldVars, buildVars, routine, event, reading, unseen>>

StopInformer(p) ==
  /\ IsInformer(p) /\ routine[p] = "running" /\ ctx = "cancelled"
  /\ routine' = [routine EXCEPT ![p] = "ended"]
  /\ UNCHANGED <<staticVars, worldVars, buildVars, event, reading, data, unseen>>

-----------------------------------------------------------------------------
(* Those who edit files and resources, and the API server *)

\* The file of p now holds c; reported: under its own name.
Write(p, c, reported) ==
  /\ content' = [content EXCEPT ![p] = c]
  /\ event' = [event EXCEPT ![p] = @ \/ (reported /\ routine[p] = "running")]
  /\ unseen' = [unseen EXCEPT ![p] = ~(reported /\ routine[p] = "running")]
  /\ UNCHANGED <<staticVars, api, outages, buildVars, routine, reading, data>>

Edited(p, text) == [text |-> text, ver |-> edits + 1]

\* An editor opens the file with O_TRUNC ...
Truncate(p) ==
  /\ IsFile(p) /\ content[p].text \in {"good", "bad"} /\ edits < MaxEdits
  /\ Write(p, [text |-> "empty", ver |-> edits + 1], TRUE)
  /\ edits' = edits + 1

\* ... and writes it, in one piece or in two.
WriteOn(p) ==
  /\ IsFile(p) /\ content[p].text \in {"empty", "partial"}
  /\ \E text \in {"good", "bad", "partial"} \ {content[p].text} :
       Write(p, [content[p] EXCEPT !.text = text], TRUE)
  /\ UNCHANGED edits

\* Or it renames a new file over the old one; or kubelet renames ..data, which
\* is no event of the file.
Replace(p) ==
  /\ IsFile(p) /\ content[p].text \in {"good", "bad"} /\ edits < MaxEdits
  /\ \E text \in {"good", "bad"}, reported \in BOOLEAN : Write(p, Edited(p, text), reported)
  /\ edits' = edits + 1

Change(p) ==
  /\ IsInformer(p) /\ edits < MaxEdits
  /\ content' = [content EXCEPT ![p] = Edited(p, "good")]
  /\ edits' = edits + 1
  /\ UNCHANGED <<staticVars, api, outages, buildVars, partVars>>

ComeOrGo(p) ==
  /\ IsInformer(p) /\ outages < MaxOutages
  /\ api' = [api EXCEPT ![p] = ~@]
  /\ outages' = outages + 1
  /\ UNCHANGED <<staticVars, content, edits, buildVars, partVars>>

-----------------------------------------------------------------------------
Building == Load \/ Client \/ Build \/ Context \/ Start \/ Synced \/ Compile

Watching(p) == TakeEvent(p) \/ Store(p) \/ Leave(p) \/ Receive(p) \/ StopInformer(p)

Next ==
  \/ Building \/ TimeOut \/ Cancel
  \/ \E p \in Positions : \/ Watching(p)
                          \/ Truncate(p) \/ WriteOn(p) \/ Replace(p)
                          \/ Change(p) \/ ComeOrGo(p)

Spec == Init /\ [][Next]_vars

\* Goroutines run, and the timer of syncTimeout expires.  Nobody has to edit,
\* to finish an edit, or to cancel, and the API server may stay away.
FairSpec ==
  Spec /\ WF_vars(Building) /\ WF_vars(TimeOut) /\ \A p \in Positions : WF_vars(Watching(p))

-----------------------------------------------------------------------------
(* Properties *)

Stages == {"nowhere", "load", "client", "sources", "tls", "start", "watcher", "compile"}

\* The types of the variables.  What a Lookup finds is never an empty document:
\* a torn read does not replace good data with nothing (file.go:101-107).
TypeOK ==
  /\ file \in File /\ command \in Commands /\ kube \in BOOLEAN
  /\ content \in [Positions -> Content] /\ api \in [Positions -> BOOLEAN]
  /\ edits \in 0 .. MaxEdits /\ outages \in 0 .. MaxOutages
  /\ pc \in {"loading", "client", "building", "starting", "waiting", "published", "failed"}
  /\ next \in 1 .. MaxParts + 1 /\ failedAt \in Stages
  /\ ctx \in {"none", "running", "cancelled"}
  /\ routine \in [Positions -> {"none", "running", "ended"}]
  /\ event \in [Positions -> BOOLEAN] /\ unseen \in [Positions -> BOOLEAN]
  /\ reading \in [Positions -> Content \cup {Nothing}]
  /\ data \in [Positions -> {c \in Content : c.text \in {"good", "partial"}} \cup {Nothing}]

\* What a generation may fail on that is not in its file: a client that cannot
\* be built, what the file of a source holds, fsnotify, an informer that does not
\* sync in time.
FailedOutside ==
  \/ failedAt = "client" /\ NeedsKubeClient(file) /\ ~kube
  \/ failedAt = "sources" /\ IsFile(next)
  \/ failedAt = "start" /\ next \in Sources /\ Kind(next) # "http"
  \/ failedAt = "watcher" /\ next \in Parts \ Sources

\* Check compiles neither the URL of an http source nor the name of a Kubernetes
\* one: a bad template is left to New.
FailedOnTemplate ==
  failedAt = "sources" /\ next \in Sources /\ file.sources[next].template = "bad"

\* What `enricher check` accepts fails later for nothing in the file but the
\* template of a source (check.go:40-42, validate.go:277-283).  What is published
\* has a target, no minSuccess of 0 or out of reach (a negative one it may have),
\* no negative retries, and a positive limit of goroutines and rules.
CheckedConfigsRun ==
  /\ pc = "failed" /\ CheckSucceeds(file) => FailedOutside \/ FailedOnTemplate
  /\ pc = "published" =>
       LET f == Defaulted(file)
       IN  /\ f.targets >= 1 /\ f.minSuccess <= f.targets /\ f.minSuccess # 0
           /\ f.retries >= 0 /\ f.maxConcurrency >= 1 /\ f.maxRules >= 1

\* While a published generation runs, a lookup ends up finding the last content
\* of a file whose last edit New read or the watch reported, if it parses, and of
\* the resources behind an API server that answers (docs/configuration.md:176-178).
SourcesFollow ==
  <>[](pc = "published" /\ ctx = "running" =>
         \A p \in Parts :
           /\ IsFile(p) /\ content[p].text \in {"good", "partial"} /\ ~unseen[p] => data[p] = content[p]
           /\ IsInformer(p) /\ api[p] => data[p] = content[p])

\* The generation keeps the promises of Lifetime: it is published with every
\* part loaded, its building ends even if the API server never answers, and
\* nothing of it outlives its failure or its context.
Promise == INSTANCE Lifetime WITH
  Parts  <- Positions,
  stage  <- CASE pc = "published" -> "serving" [] pc = "failed" -> "failed" [] OTHER -> "building",
  wanted <- ctx # "cancelled" /\ pc # "failed",
  live   <- {p \in Positions : routine[p] = "running"},
  loaded <- {p \in Positions : p \notin Parts \/ HasSynced(p)}

ImplementsLifetime == Promise!FairSpec
=============================================================================
