-------------------------- MODULE GenerationProofs --------------------------
(***************************************************************************)
(* Theorems about Generation, for any config files, any number of parts    *)
(* and any bounds: types, what check promises of a file, and that a        *)
(* generation implements the safety of Lifetime.                           *)
(***************************************************************************)
EXTENDS Generation, TLAPS

-----------------------------------------------------------------------------
(* Lemmas about config files *)

\* The defaults leave the rules alone, and validation compiles every text that
\* engine.Compile will compile: a file that loads compiles.
LEMMA ValidFilesCompile ==
  ASSUME NEW f \in File, Loads(f)
  PROVE  Compiles(f)
<1>1. Defaulted(f).rules = f.rules
  BY DEF Defaulted, File
<1>2. \A i \in DOMAIN f.rules : ValidTexts(f.rules[i])
  BY <1>1 DEF Loads, Valid, ValidRule
<1> QED
  BY <1>2 DEF ValidTexts, Compiles

\* What a file that loads has for settings, once the defaults are applied.
LEMMA ValidNumbers ==
  ASSUME NEW f \in File, Loads(f)
  PROVE  LET d == Defaulted(f)
         IN  /\ d.targets >= 1 /\ d.minSuccess <= d.targets /\ d.minSuccess # 0
             /\ d.retries >= 0 /\ d.maxConcurrency >= 1 /\ d.maxRules >= 1
<1> DEFINE d == Defaulted(f)
<1>1. Valid(d)
  BY DEF Loads
<1>2. d.minSuccess # 0 /\ d.maxConcurrency # 0 /\ d.maxRules # 0
  BY DEF Defaulted, File
<1>3. d.maxConcurrency \in Int /\ d.maxRules \in Int
  BY DEF Defaulted, File
<1> QED
  BY <1>1, <1>2, <1>3 DEF Valid

-----------------------------------------------------------------------------
(* The inductive invariant *)

Given == file \in ConfigFiles

\* How many parts there are.
Count == Len(file.sources) + IF Watches THEN 1 ELSE 0

ResourcesGood == \A p \in Positions : IsInformer(p) => content[p].text = "good"

\* Nobody waits but for an informer.
WaitsForPart == pc = "waiting" => next \in Parts /\ Kind(next) = "kubernetes"

\* There is nothing to cancel before the sources are built, from the first on.
Unstarted ==
  /\ pc \in {"loading", "client", "building"} => ctx = "none"
  /\ pc \in {"loading", "client"} => next = 1

\* The sources before the next one have been built, and all of them later on.
SourcesBuilt ==
  \A p \in Sources :
    /\ Kind(p) = "file"
    /\ (pc = "building" /\ p < next) \/ pc \in {"starting", "waiting", "published"}
    => data[p] # Nothing

\* The parts before the next one have been started, and all of them in the end.
PartsStarted ==
  \A p \in Parts :
    (pc \in {"starting", "waiting"} /\ p < next) \/ pc = "published" => HasSynced(p)

\* What has been passed on the way here, and what an attempt has failed on.
Outcome ==
  /\ pc \notin {"loading", "failed"} => Loads(file)
  /\ pc = "failed" =>
       \/ failedAt = "load" /\ ~Loads(file)
       \/ failedAt = "tls" /\ ~(ServerTLSBuilds(file) /\ ForwardTLSBuilds(file))
       \/ failedAt = "compile" /\ Loads(file) /\ ~Compiles(file)
       \/ FailedOutside \/ FailedOnTemplate

GenerationInv ==
  /\ TypeOK /\ Given /\ ResourcesGood /\ WaitsForPart /\ Unstarted
  /\ SourcesBuilt /\ PartsStarted /\ Outcome

-----------------------------------------------------------------------------
(* Lemmas about parts *)

\* The parts are the first Count positions.
LEMMA PartsAreFirst ==
  ASSUME Given
  PROVE  /\ file \in File /\ Len(file.sources) \in Nat
         /\ Count \in 0 .. MaxParts /\ MaxParts \in Nat
         /\ Parts = 1 .. Count /\ Parts \subseteq Positions
         /\ Sources = 1 .. Len(file.sources) /\ Sources \subseteq Parts
<1>1. file \in File /\ Len(file.sources) < MaxParts /\ MaxParts \in Nat
  BY GenerationAssumption DEF Given
<1>2. file.sources \in Seq(Source)
  BY <1>1 DEF File
<1>3. Len(file.sources) \in Nat
  BY <1>2
<1>4. Count = Len(file.sources) \/ Count = Len(file.sources) + 1
  <2>1. CASE Watches
    BY <2>1 DEF Count
  <2>2. CASE ~Watches
    <3>1. Count = Len(file.sources) + 0
      BY <2>2 DEF Count
    <3> QED
      BY <1>3, <3>1
  <2> QED
    BY <2>1, <2>2
<1>5. Count \in 0 .. MaxParts /\ Len(file.sources) <= Count
  BY <1>1, <1>3, <1>4
<1>6. Parts = 1 .. Count /\ Sources = 1 .. Len(file.sources) /\ Positions = 1 .. MaxParts
  BY DEF Count, Parts, Sources, Positions
<1> QED
  BY <1>1, <1>3, <1>5, <1>6

\* Nothing that depends on the file alone ever changes.
LEMMA StaticsStay ==
  ASSUME [Next]_vars
  PROVE  UNCHANGED staticVars
BY DEF Next, vars, staticVars, Building, Watching, Load, Client, Build, Context, Start,
       Synced, Compile, TimeOut, Cancel, TakeEvent, Store, Leave, Receive, StopInformer,
       Truncate, WriteOn, Replace, Change, ComeOrGo, Write
-----------------------------------------------------------------------------
(* Types *)

LEMMA TypeInit ==
  ASSUME Init
  PROVE  TypeOK
<1>1. MaxEdits \in Nat /\ MaxOutages \in Nat /\ MaxParts \in Nat /\ ConfigFiles \subseteq File
  BY GenerationAssumption
<1>2. \A t \in {"good", "bad"} : [text |-> t, ver |-> 0] \in Content
  BY <1>1 DEF Content
<1>3. content \in [Positions -> Content]
  BY <1>2 DEF Init
<1> QED
  BY <1>1, <1>3 DEF Init, TypeOK, Stages

\* A content that is written has its type.
LEMMA WriteTypes ==
  ASSUME TypeOK, NEW p \in Positions, NEW c \in Content, NEW reported \in BOOLEAN,
         Write(p, c, reported)
  PROVE  /\ content' \in [Positions -> Content]
         /\ event' \in [Positions -> BOOLEAN] /\ unseen' \in [Positions -> BOOLEAN]
         /\ UNCHANGED <<staticVars, api, outages, buildVars, routine, reading, data>>
<1>1. (event[p] \/ (reported /\ routine[p] = "running")) \in BOOLEAN
  OBVIOUS
<1>2. event' \in [Positions -> BOOLEAN]
  BY <1>1 DEF Write, TypeOK
<1>3. (~(reported /\ routine[p] = "running")) \in BOOLEAN
  OBVIOUS
<1>4. unseen' \in [Positions -> BOOLEAN]
  BY <1>3 DEF Write, TypeOK
<1>5. content' \in [Positions -> Content]
  BY DEF Write, TypeOK
<1> QED
  BY <1>2, <1>4, <1>5 DEF Write

\* A failure keeps the types of what it sets.
LEMMA FailTypes ==
  ASSUME TypeOK, NEW stage \in Stages, Fail(stage)
  PROVE  pc' = "failed" /\ failedAt' \in Stages /\ ctx' \in {"none", "running", "cancelled"}
BY DEF Fail, ContextAfterFailure, TypeOK

LEMMA TypeStep ==
  ASSUME TypeOK, Given, ResourcesGood, WaitsForPart, [Next]_vars
  PROVE  TypeOK'
<1> USE PartsAreFirst
<1> DEFINE Stored == {c \in Content : c.text \in {"good", "partial"}}
<1>1. CASE Load
  BY <1>1, FailTypes DEF Load, TypeOK, staticVars, worldVars, partVars, Stages
<1>2. CASE Client
  BY <1>2, FailTypes DEF Client, TypeOK, staticVars, worldVars, partVars, Stages
<1>3. CASE Build
  <2>1. next \in Positions /\ next + 1 \in 1 .. MaxParts + 1
    BY <1>3 DEF Build, Positions
  <2>2. data' \in [Positions -> Stored \cup {Nothing}]
    <3>1. CASE Kind(next) = "file" /\ LoadsContent(content[next])
      <4>1. content[next] \in Stored
        BY <2>1, <3>1 DEF LoadsContent, TypeOK
      <4> QED
        BY <1>3, <2>1, <3>1, <4>1 DEF Build, TypeOK
    <3>2. CASE ~(Kind(next) = "file" /\ LoadsContent(content[next]))
      BY <1>3, <3>2 DEF Build, TypeOK
    <3> QED
      BY <3>1, <3>2
  <2>3. unseen' \in [Positions -> BOOLEAN]
    BY <1>3, <2>1 DEF Build, TypeOK
  <2>4. /\ pc' \in {"building", "failed"} /\ next' \in 1 .. MaxParts + 1
        /\ failedAt' \in Stages /\ ctx' \in {"none", "running", "cancelled"}
    BY <1>3, <2>1, FailTypes DEF Build, TypeOK, Stages
  <2> QED
    BY <1>3, <2>2, <2>3, <2>4 DEF Build, TypeOK, staticVars, worldVars
<1>4. CASE Context
  BY <1>4, FailTypes DEF Context, TypeOK, staticVars, worldVars, partVars, Stages
<1>5. CASE Start
  <2>1. next \in Positions /\ next + 1 \in 1 .. MaxParts + 1
    BY <1>5 DEF Start, Positions
  <2>2. routine' \in [Positions -> {"none", "running", "ended"}]
    BY <1>5, <2>1 DEF Start, TypeOK
  <2>3. /\ pc' \in {"starting", "waiting", "failed"} /\ next' \in 1 .. MaxParts + 1
        /\ failedAt' \in Stages /\ ctx' \in {"none", "running", "cancelled"}
    BY <1>5, <2>1, FailTypes DEF Start, TypeOK, Stages
  <2> QED
    BY <1>5, <2>2, <2>3 DEF Start, TypeOK, staticVars, worldVars
<1>6. CASE Synced
  <2>1. next + 1 \in 1 .. MaxParts + 1
    BY <1>6 DEF Synced, WaitsForPart, Positions
  <2> QED
    BY <1>6, <2>1 DEF Synced, TypeOK, staticVars, worldVars, partVars
<1>7. CASE TimeOut
  BY <1>7, FailTypes DEF TimeOut, GiveUp, TypeOK, staticVars, worldVars, partVars, Stages
<1>8. CASE Compile
  BY <1>8, FailTypes DEF Compile, TypeOK, staticVars, worldVars, partVars, Stages
<1>9. CASE Cancel
  BY <1>9 DEF Cancel, TypeOK, staticVars, worldVars, partVars
<1>10. ASSUME NEW p \in Positions, TakeEvent(p)
       PROVE  TypeOK'
  BY <1>10 DEF TakeEvent, TypeOK, staticVars, worldVars, buildVars
<1>11. ASSUME NEW p \in Positions, Store(p)
       PROVE  TypeOK'
  <2>1. data' \in [Positions -> Stored \cup {Nothing}]
    <3>1. CASE LoadsContent(reading[p])
      <4>1. reading[p] \in Stored
        BY <1>11, <3>1 DEF Store, LoadsContent, TypeOK
      <4> QED
        BY <1>11, <3>1, <4>1 DEF Store, TypeOK
    <3>2. CASE ~LoadsContent(reading[p])
      BY <1>11, <3>2 DEF Store, TypeOK
    <3> QED
      BY <3>1, <3>2
  <2> QED
    BY <1>11, <2>1 DEF Store, EventsAfterStore, TypeOK, staticVars, worldVars, buildVars
<1>12. ASSUME NEW p \in Positions, Leave(p) \/ StopInformer(p)
       PROVE  TypeOK'
  BY <1>12 DEF Leave, StopInformer, TypeOK, staticVars, worldVars, buildVars
<1>13. ASSUME NEW p \in Positions, Receive(p)
       PROVE  TypeOK'
  <2>1. content[p] \in Stored
    BY <1>13 DEF Receive, ResourcesGood, TypeOK
  <2>2. data' \in [Positions -> Stored \cup {Nothing}]
    BY <1>13, <2>1 DEF Receive, TypeOK
  <2> QED
    BY <1>13, <2>2 DEF Receive, TypeOK, staticVars, worldVars, buildVars
<1>14. edits < MaxEdits => \A t \in {"good", "empty", "bad"} : Edited(0, t) \in Content /\ edits + 1 \in 0 .. MaxEdits
  BY GenerationAssumption DEF Edited, Content, TypeOK
<1>15. ASSUME NEW p \in Positions, Truncate(p) \/ Replace(p)
       PROVE  TypeOK'
  <2>1. edits' \in 0 .. MaxEdits
    BY <1>14, <1>15 DEF Truncate, Replace
  <2>2. PICK c \in Content, reported \in BOOLEAN : Write(p, c, reported)
    BY <1>14, <1>15 DEF Truncate, Replace, Edited
  <2> QED
    BY <2>1, <2>2, WriteTypes DEF TypeOK, staticVars, buildVars
<1>16. ASSUME NEW p \in Positions, WriteOn(p)
       PROVE  TypeOK'
  <2>1. PICK c \in Content : Write(p, c, TRUE)
    BY <1>16 DEF WriteOn, TypeOK, Content
  <2>2. edits' = edits
    BY <1>16 DEF WriteOn
  <2> QED
    BY <2>1, <2>2, WriteTypes DEF TypeOK, staticVars, buildVars
<1>17. ASSUME NEW p \in Positions, Change(p)
       PROVE  TypeOK'
  BY <1>14, <1>17 DEF Change, Edited, TypeOK, staticVars, buildVars, partVars
<1>18. ASSUME NEW p \in Positions, ComeOrGo(p)
       PROVE  TypeOK'
  <2>1. outages' \in 0 .. MaxOutages
    BY <1>18, GenerationAssumption DEF ComeOrGo, TypeOK
  <2>2. api' \in [Positions -> BOOLEAN]
    BY <1>18 DEF ComeOrGo, TypeOK
  <2> QED
    BY <1>18, <2>1, <2>2 DEF ComeOrGo, TypeOK, staticVars, buildVars, partVars
<1>19. CASE UNCHANGED vars
  BY <1>19 DEF vars, TypeOK
<1> QED
  BY <1>1, <1>2, <1>3, <1>4, <1>5, <1>6, <1>7, <1>8, <1>9, <1>10, <1>11, <1>12, <1>13,
     <1>15, <1>16, <1>17, <1>18, <1>19 DEF Next, Building, Watching
-----------------------------------------------------------------------------
(* The invariant *)

LEMMA InvInit ==
  ASSUME Init
  PROVE  GenerationInv
<1>1. TypeOK
  BY TypeInit
<1>2. Given /\ WaitsForPart /\ Unstarted /\ SourcesBuilt /\ PartsStarted /\ Outcome
  <2>1. file \in ConfigFiles /\ pc = "loading" /\ next = 1 /\ ctx = "none"
    BY DEF Init
  <2> QED
    BY <2>1 DEF Given, WaitsForPart, Unstarted, SourcesBuilt, PartsStarted, Outcome
<1>3. ResourcesGood
  BY DEF Init, ResourcesGood, IsInformer, IsFile
<1> QED
  BY <1>1, <1>2, <1>3 DEF GenerationInv

\* A step of building, or one that building does not notice.
LEMMA StepKinds ==
  ASSUME [Next]_vars
  PROVE  \/ Load \/ Client \/ Build \/ Context \/ Start \/ Synced \/ Compile \/ TimeOut \/ Cancel
         \/ UNCHANGED buildVars
BY DEF Next, vars, buildVars, Building, Watching, TakeEvent, Store, Leave, Receive, StopInformer,
       Truncate, WriteOn, Replace, Change, ComeOrGo, Write

\* What the file alone determines.
LEMMA PartsStay ==
  ASSUME [Next]_vars
  PROVE  /\ file' = file /\ Parts' = Parts /\ Sources' = Sources
         /\ \A p : /\ Kind(p)' = Kind(p)
                   /\ IsFile(p)' = IsFile(p) /\ IsInformer(p)' = IsInformer(p)
<1>1. file' = file /\ command' = command
  BY StaticsStay DEF staticVars
<1> QED
  BY <1>1 DEF Parts, Sources, Watches, Kind, IsFile, IsInformer

\* What has once been loaded stays loaded.
LEMMA DataStays ==
  ASSUME TypeOK, [Next]_vars
  PROVE  \A p \in Positions : data[p] # Nothing => data'[p] # Nothing
<1>1. Nothing \notin Content
  BY DEF Nothing, Content
<1>2. CASE Build
  <2>1. data' = data \/ (next \in Positions => data' = [data EXCEPT ![next] = content[next]])
    BY <1>2 DEF Build
  <2>2. CASE data' = data
    BY <2>2
  <2>3. CASE next \in Positions /\ data' = [data EXCEPT ![next] = content[next]]
    BY <1>1, <2>3 DEF TypeOK
  <2>4. CASE next \notin Positions
    BY <1>2, <2>4 DEF Build, TypeOK
  <2> QED
    BY <2>1, <2>2, <2>3, <2>4
<1>3. ASSUME NEW p \in Positions, Store(p)
      PROVE  \A q \in Positions : data[q] # Nothing => data'[q] # Nothing
  BY <1>3 DEF Store, TypeOK
<1>4. ASSUME NEW p \in Positions, Receive(p)
      PROVE  \A q \in Positions : data[q] # Nothing => data'[q] # Nothing
  BY <1>1, <1>4 DEF Receive, TypeOK
<1>5. CASE UNCHANGED data
  BY <1>5
<1>6. \/ Build \/ UNCHANGED data
      \/ \E p \in Positions : Store(p) \/ Receive(p)
  BY DEF Next, vars, Building, Watching, Load, Client, Context, Start, Synced, Compile, TimeOut,
         Cancel, TakeEvent, Leave, StopInformer, Truncate, WriteOn, Replace, Change, ComeOrGo,
         Write, partVars
<1> QED
  BY <1>2, <1>3, <1>4, <1>5, <1>6

LEMMA ResourcesStep ==
  ASSUME TypeOK, ResourcesGood, [Next]_vars
  PROVE  ResourcesGood'
<1> USE PartsStay
<1>1. ASSUME NEW p \in Positions, NEW c, NEW reported, IsFile(p), Write(p, c, reported)
      PROVE  ResourcesGood'
  <2> SUFFICES ASSUME NEW q \in Positions, IsInformer(q)
               PROVE  content'[q].text = "good"
    BY DEF ResourcesGood
  <2>1. q # p
    BY <1>1 DEF IsFile, IsInformer
  <2> QED
    BY <1>1, <2>1 DEF Write, ResourcesGood, TypeOK
<1>2. ASSUME NEW p \in Positions, Change(p)
      PROVE  ResourcesGood'
  BY <1>2 DEF Change, Edited, ResourcesGood, TypeOK
<1>3. CASE UNCHANGED content
  BY <1>3 DEF ResourcesGood
<1>4. \/ UNCHANGED content
      \/ \E p \in Positions : Change(p) \/ Truncate(p) \/ WriteOn(p) \/ Replace(p)
  BY DEF Next, vars, Building, Watching, Load, Client, Build, Context, Start, Synced, Compile,
         TimeOut, Cancel, TakeEvent, Store, Leave, Receive, StopInformer, ComeOrGo, worldVars
<1>5. ASSUME NEW p \in Positions, Truncate(p) \/ WriteOn(p) \/ Replace(p)
      PROVE  ResourcesGood'
  BY <1>1, <1>5 DEF Truncate, WriteOn, Replace
<1> QED
  BY <1>2, <1>3, <1>4, <1>5

LEMMA SourcesStep ==
  ASSUME TypeOK, Given, Unstarted, SourcesBuilt, [Next]_vars
  PROVE  SourcesBuilt'
<1> USE PartsAreFirst, PartsStay, DataStays
<1> SUFFICES ASSUME NEW p \in Sources, Kind(p) = "file",
                    \/ pc' = "building" /\ p < next'
                    \/ pc' \in {"starting", "waiting", "published"}
             PROVE  data'[p] # Nothing
  BY DEF SourcesBuilt
<1>1. p \in Positions /\ p \in Nat /\ next \in 1 .. MaxParts + 1
  BY DEF TypeOK
<1>2. CASE Build
  <2>1. CASE p < next
    BY <1>1, <1>2, <2>1 DEF Build, SourcesBuilt
  <2>2. CASE ~(p < next)
    <3>1. p = next /\ data' = [data EXCEPT ![p] = content[p]]
      BY <1>1, <1>2, <2>2 DEF Build, Fail
    <3>2. Nothing \notin Content
      BY DEF Nothing, Content
    <3> QED
      BY <1>1, <3>1, <3>2 DEF TypeOK
  <2> QED
    BY <2>1, <2>2
<1>3. CASE Context
  <2>1. pc = "building" /\ p < next
    BY <1>1, <1>3 DEF Context, TypeOK
  <2> QED
    BY <1>1, <2>1 DEF SourcesBuilt
<1>4. CASE Load \/ Client \/ TimeOut
  BY <1>1, <1>4 DEF Load, Client, TimeOut, GiveUp, Fail, Unstarted
<1>5. CASE Start \/ Synced \/ Compile
  <2>1. pc \in {"starting", "waiting"}
    BY <1>5 DEF Start, Synced, Compile
  <2> QED
    BY <1>1, <2>1 DEF SourcesBuilt
<1>6. CASE Cancel \/ UNCHANGED buildVars
  <2>1. pc' = pc /\ next' = next
    BY <1>6 DEF Cancel, buildVars
  <2> QED
    BY <1>1, <2>1 DEF SourcesBuilt
<1> QED
  BY <1>2, <1>3, <1>4, <1>5, <1>6, StepKinds

\* A part that has synced stays so.
LEMMA SyncedStays ==
  ASSUME TypeOK, Given, [Next]_vars, NEW p \in Parts, HasSynced(p)
  PROVE  HasSynced(p)'
BY PartsAreFirst, PartsStay, DataStays DEF HasSynced

LEMMA StartedStep ==
  ASSUME TypeOK, Given, WaitsForPart, SourcesBuilt, PartsStarted, [Next]_vars
  PROVE  PartsStarted'
<1> USE PartsAreFirst, PartsStay, SyncedStays
<1> SUFFICES ASSUME NEW p \in Parts,
                    \/ pc' \in {"starting", "waiting"} /\ p < next'
                    \/ pc' = "published"
             PROVE  HasSynced(p)'
  BY DEF PartsStarted
<1>1. p \in 1 .. MaxParts /\ next \in 1 .. MaxParts + 1
  BY DEF TypeOK, Positions
<1>2. CASE Start
  <2>1. pc = "starting" /\ next \in Parts
    BY <1>2 DEF Start
  <2>2. CASE p < next
    BY <2>1, <2>2 DEF PartsStarted
  <2>3. CASE ~(p < next)
    <3>1. p = next /\ Kind(p) \in {"http", "file"}
      BY <1>1, <1>2, <2>3 DEF Start, Fail
    <3>2. Kind(p) = "file" => p \in Sources
      BY DEF Kind
    <3>3. HasSynced(p)
      BY <2>1, <3>1, <3>2 DEF SourcesBuilt, HasSynced
    <3> QED
      BY <3>3
  <2> QED
    BY <2>2, <2>3
<1>3. CASE Synced
  <2>1. CASE p < next
    BY <1>3, <2>1 DEF Synced, PartsStarted
  <2>2. CASE ~(p < next)
    <3>1. p = next
      BY <1>1, <1>3, <2>2 DEF Synced
    <3>2. HasSynced(p)
      BY <1>3, <3>1 DEF Synced
    <3> QED
      BY <3>2
  <2> QED
    BY <2>1, <2>2
<1>4. CASE Compile
  <2>1. pc = "starting" /\ p < next
    BY <1>1, <1>4 DEF Compile
  <2> QED
    BY <2>1 DEF PartsStarted
<1>5. CASE Context
  BY <1>1, <1>5 DEF Context, Fail
<1>6. CASE Load \/ Client \/ Build \/ TimeOut
  BY <1>6 DEF Load, Client, Build, TimeOut, GiveUp, Fail
<1>7. CASE Cancel \/ UNCHANGED buildVars
  <2>1. pc' = pc /\ next' = next
    BY <1>7 DEF Cancel, buildVars
  <2> QED
    BY <2>1 DEF PartsStarted
<1> QED
  BY <1>2, <1>3, <1>4, <1>5, <1>6, <1>7, StepKinds

LEMMA ControlStep ==
  ASSUME TypeOK, Given, WaitsForPart, Unstarted, [Next]_vars
  PROVE  WaitsForPart' /\ Unstarted'
<1> USE PartsStay
<1>1. CASE Load \/ Client \/ Build \/ Context \/ Synced \/ Compile \/ TimeOut \/ Cancel
  BY <1>1 DEF Load, Client, Build, Context, Synced, Compile, TimeOut, GiveUp, Cancel, Fail,
              WaitsForPart, Unstarted
<1>2. CASE Start
  BY <1>2 DEF Start, Fail, WaitsForPart, Unstarted
<1>3. CASE UNCHANGED buildVars
  BY <1>3 DEF buildVars, WaitsForPart, Unstarted
<1> QED
  BY <1>1, <1>2, <1>3, StepKinds

\* An attempt that fails has a reason, which does not go away.
LEMMA OutcomeStep ==
  ASSUME TypeOK, Given, WaitsForPart, Outcome, [Next]_vars
  PROVE  Outcome'
<1> USE PartsStay
<1>1. /\ Loads(file)' = Loads(file) /\ Compiles(file)' = Compiles(file)
      /\ ServerTLSBuilds(file)' = ServerTLSBuilds(file)
      /\ ForwardTLSBuilds(file)' = ForwardTLSBuilds(file)
      /\ NeedsKubeClient(file)' = NeedsKubeClient(file) /\ kube' = kube
  BY StaticsStay DEF staticVars
<1>2. CASE Load
  BY <1>1, <1>2 DEF Load, Fail, Outcome
<1>3. CASE Client
  BY <1>1, <1>3 DEF Client, Fail, Outcome, FailedOutside
<1>4. CASE Build
  <2>1. CASE pc' # "failed"
    BY <1>1, <1>4, <2>1 DEF Build, Outcome
  <2>2. CASE pc' = "failed"
    <3>1. /\ failedAt' = "sources" /\ next' = next /\ next \in Sources
          /\ Kind(next) # "file" => file.sources[next].template # "good"
      BY <1>4, <2>2 DEF Build, Fail
    <3>2. CASE Kind(next) = "file"
      <4>1. IsFile(next)
        BY <3>1, <3>2, PartsAreFirst DEF IsFile
      <4> QED
        BY <2>2, <3>1, <4>1 DEF Outcome, FailedOutside
    <3>3. CASE Kind(next) # "file"
      <4>1. file.sources[next] \in Source
        BY <3>1, PartsAreFirst DEF Sources, File
      <4>2. file.sources[next].template = "bad"
        BY <3>1, <3>3, <4>1 DEF Source, Present
      <4> QED
        BY <2>2, <3>1, <4>2 DEF Outcome, FailedOnTemplate
    <3> QED
      BY <3>2, <3>3
  <2> QED
    BY <2>1, <2>2
<1>5. CASE Context
  BY <1>1, <1>5 DEF Context, Fail, Outcome
<1>6. CASE Start
  <2>1. CASE pc' # "failed"
    BY <1>1, <1>6, <2>1 DEF Start, Outcome
  <2>2. CASE pc' = "failed"
    <3>1. Kind(next) = "file" /\ next' = next /\ failedAt' = "start"
      BY <1>6, <2>2 DEF Start, Fail
    <3> QED
      BY <2>2, <3>1 DEF Outcome, FailedOutside, Kind
  <2> QED
    BY <2>1, <2>2
<1>7. CASE TimeOut
  <2>1. next \in Parts /\ Kind(next) = "kubernetes"
    BY <1>7 DEF TimeOut, WaitsForPart
  <2> QED
    BY <1>7, <2>1 DEF TimeOut, GiveUp, Fail, Outcome, FailedOutside
<1>8. CASE Synced
  BY <1>1, <1>8 DEF Synced, Outcome
<1>9. CASE Compile
  BY <1>1, <1>9 DEF Compile, Fail, Outcome
<1>10. CASE Cancel \/ UNCHANGED buildVars
  <2>1. pc' = pc /\ next' = next /\ failedAt' = failedAt
    BY <1>10 DEF Cancel, buildVars
  <2> QED
    BY <1>1, <2>1 DEF Outcome, FailedOutside, FailedOnTemplate
<1> QED
  BY <1>2, <1>3, <1>4, <1>5, <1>6, <1>7, <1>8, <1>9, <1>10, StepKinds

LEMMA InvStep ==
  ASSUME GenerationInv, [Next]_vars
  PROVE  GenerationInv'
<1> USE DEF GenerationInv
<1>1. TypeOK' /\ ResourcesGood'
  BY TypeStep, ResourcesStep
<1>2. Given'
  BY PartsStay DEF Given
<1>3. SourcesBuilt' /\ PartsStarted'
  BY SourcesStep, StartedStep
<1>4. WaitsForPart' /\ Unstarted' /\ Outcome'
  BY ControlStep, OutcomeStep
<1> QED
  BY <1>1, <1>2, <1>3, <1>4

LEMMA Invariance == Spec => []GenerationInv
<1>1. Init => GenerationInv
  BY InvInit
<1>2. GenerationInv /\ [Next]_vars => GenerationInv'
  BY InvStep
<1> QED
  BY <1>1, <1>2, PTL DEF Spec

-----------------------------------------------------------------------------
(* Theorems *)

\* Every variable keeps its type, for any files and number of parts: a Lookup
\* never finds an empty document, whatever an editor was doing.
THEOREM GenerationTypeCorrect == Spec => []TypeOK
<1>1. GenerationInv => TypeOK
  BY DEF GenerationInv
<1> QED
  BY <1>1, Invariance, PTL

\* What check accepts fails later for nothing in the file but the template of a
\* source, and what is published has a target, no minSuccess of 0 or out of reach,
\* and limits that let it work, for any config file whatever.
THEOREM CheckedFilesRun == Spec => []CheckedConfigsRun
<1>1. GenerationInv => CheckedConfigsRun
  <2> SUFFICES ASSUME GenerationInv
               PROVE  CheckedConfigsRun
    OBVIOUS
  <2>1. file \in File
    BY DEF GenerationInv, TypeOK
  <2>2. ASSUME pc = "failed", CheckSucceeds(file)
        PROVE  FailedOutside \/ FailedOnTemplate
    <3>1. Loads(file) /\ Compiles(file)
      BY <2>1, <2>2, ValidFilesCompile DEF CheckSucceeds
    <3> QED
      BY <2>2, <3>1 DEF CheckSucceeds, GenerationInv, Outcome
  <2>3. ASSUME pc = "published"
        PROVE  Loads(file)
    BY <2>3 DEF GenerationInv, Outcome
  <2> QED
    BY <2>1, <2>2, <2>3, ValidNumbers DEF CheckedConfigsRun
<1> QED
  BY <1>1, Invariance, PTL

-----------------------------------------------------------------------------
(* The refinement *)

Stage == CASE pc = "published" -> "serving" [] pc = "failed" -> "failed" [] OTHER -> "building"
Wanted == ctx # "cancelled" /\ pc # "failed"
Live == {p \in Positions : routine[p] = "running"}
Loaded == {p \in Positions : p \notin Parts \/ HasSynced(p)}

\* Steps that only move the control point within the building of a generation.
LEMMA Inside ==
  ASSUME [Next]_vars, UNCHANGED <<routine, data>>,
         pc \notin {"published", "failed"}, pc' \notin {"published", "failed"},
         (ctx' = "cancelled") = (ctx = "cancelled")
  PROVE  UNCHANGED <<Stage, Wanted, Live, Loaded>>
BY PartsStay DEF Stage, Wanted, Live, Loaded, HasSynced

\* A generation that fails is no longer wanted.
LEMMA Failing ==
  ASSUME [Next]_vars, UNCHANGED <<routine, data>>, NEW stage, Fail(stage),
         pc \notin {"published", "failed"}
  PROVE  Stage = "building" /\ Stage' = "failed" /\ Wanted' = FALSE /\ UNCHANGED <<Live, Loaded>>
BY PartsStay DEF Fail, Stage, Wanted, Live, Loaded, HasSynced

\* Once a part has something to look up, only it is added to those that have.
LEMMA LoadedGrows ==
  ASSUME TypeOK, Given, [Next]_vars, NEW p \in Positions, NEW c \in Content,
         data' = [data EXCEPT ![p] = c], UNCHANGED <<pc, ctx, routine>>
  PROVE  /\ Loaded' = Loaded \cup {p}
         /\ UNCHANGED <<Stage, Wanted, Live>>
<1>1. c # Nothing
  BY DEF Nothing, Content
<1>2. data'[p] # Nothing /\ \A q \in Positions \ {p} : data'[q] = data[q]
  BY <1>1 DEF TypeOK
<1>3. HasSynced(p)' /\ \A q \in Positions \ {p} : HasSynced(q)' = HasSynced(q)
  BY <1>2, PartsStay DEF HasSynced
<1>4. Loaded' = Loaded \cup {p}
  BY <1>3, PartsStay DEF Loaded
<1>5. UNCHANGED <<Stage, Wanted, Live>>
  BY DEF Stage, Wanted, Live
<1> QED
  BY <1>4, <1>5

LEMMA RefinementInit ==
  ASSUME Init
  PROVE  Promise!Init
<1>1. Stage = "building" /\ Wanted = TRUE /\ Live = {} /\ Loaded \in SUBSET Positions
  BY DEF Init, Stage, Wanted, Live, Loaded
<1> QED
  BY <1>1 DEF Promise!Init, Stage, Wanted, Live, Loaded

\* Every step of a generation is one of Lifetime or changes nothing it sees.
LEMMA RefinementStep ==
  ASSUME GenerationInv, [Next]_vars
  PROVE  [Promise!Next]_Promise!vars
<1> USE PartsAreFirst DEF GenerationInv
<1> DEFINE Abstract ==
      \/ Stage = "building" /\ Loaded = Positions /\ Stage' = "serving"
           /\ UNCHANGED <<Wanted, Live, Loaded>>
      \/ Stage = "building" /\ Stage' = "failed" /\ Wanted' = FALSE /\ UNCHANGED <<Live, Loaded>>
      \/ Wanted' = FALSE /\ UNCHANGED <<Stage, Live, Loaded>>
      \/ \E p \in Positions :
           \/ /\ Stage = "building" /\ p \notin Live /\ Live' = Live \cup {p}
              /\ UNCHANGED <<Stage, Wanted, Loaded>>
           \/ Loaded' = Loaded \cup {p} /\ UNCHANGED <<Stage, Wanted, Live>>
           \/ /\ ~Wanted /\ p \in Live /\ Live' = Live \ {p}
              /\ UNCHANGED <<Stage, Wanted, Loaded>>
      \/ UNCHANGED <<Stage, Wanted, Live, Loaded>>
<1>1. Abstract => [Promise!Next]_Promise!vars
  BY DEF Stage, Wanted, Live, Loaded, Promise!Next, Promise!vars, Promise!Publish, Promise!Fail,
         Promise!Dismiss, Promise!Begin, Promise!Load, Promise!End
<1> SUFFICES Abstract
  BY <1>1
<1>2. CASE Load \/ Client \/ Context \/ Synced \/ TimeOut
  <2>1. UNCHANGED <<routine, data>> /\ pc \notin {"published", "failed"}
    BY <1>2 DEF Load, Client, Context, Synced, TimeOut, partVars
  <2>2. CASE \E stage : Fail(stage)
    BY <2>1, <2>2, Failing
  <2>3. CASE ~\E stage : Fail(stage)
    <3>1. pc' \notin {"published", "failed"}
      BY <1>2, <2>3 DEF Load, Client, Context, Synced, TimeOut, GiveUp
    <3>2. (ctx' = "cancelled") = (ctx = "cancelled")
      BY <1>2, <2>3 DEF Load, Client, Context, Synced, TimeOut, GiveUp, Unstarted
    <3> QED
      BY <2>1, <3>1, <3>2, Inside
  <2> QED
    BY <2>2, <2>3
<1>3. CASE Build
  <2>1. next \in Positions /\ content[next] \in Content
    BY <1>3 DEF Build, TypeOK
  <2>2. CASE data' = [data EXCEPT ![next] = content[next]] /\ UNCHANGED <<pc, ctx, routine>>
    BY <2>1, <2>2, LoadedGrows
  <2>3. CASE UNCHANGED <<data, pc, ctx, routine>>
    BY <1>3, <2>3, Inside DEF Build
  <2>4. CASE data' = data /\ Fail("sources")
    BY <1>3, <2>4, Failing DEF Build
  <2> QED
    BY <1>3, <2>2, <2>3, <2>4 DEF Build
<1>4. CASE Start
  <2>1. pc = "starting" /\ next \in Positions /\ UNCHANGED data
    BY <1>4 DEF Start
  <2>2. CASE UNCHANGED <<routine, pc, ctx>>
    BY <2>1, <2>2, Inside
  <2>3. CASE Fail("start") /\ UNCHANGED routine
    BY <2>1, <2>3, Failing
  <2>4. CASE /\ routine' = [routine EXCEPT ![next] = "running"]
             /\ pc' \in {"starting", "waiting"} /\ ctx' = ctx
    <3>1. Live' = Live \cup {next}
      BY <2>1, <2>4 DEF Live, TypeOK
    <3>2. Stage = "building" /\ UNCHANGED <<Stage, Wanted, Loaded>>
      BY <2>1, <2>4, PartsStay DEF Stage, Wanted, Loaded, HasSynced
    <3> QED
      BY <2>1, <3>1, <3>2
  <2> QED
    BY <1>4, <2>1, <2>2, <2>3, <2>4 DEF Start
<1>5. CASE Compile
  <2>1. pc = "starting" /\ next \notin Parts /\ UNCHANGED <<routine, data>>
    BY <1>5 DEF Compile, partVars
  <2>2. CASE Fail("compile")
    BY <2>1, <2>2, Failing
  <2>3. CASE pc' = "published" /\ ctx' = ctx
    <3>1. \A p \in Parts : p < next
      BY <2>1 DEF TypeOK
    <3>2. Loaded = Positions
      BY <2>1, <3>1 DEF PartsStarted, Loaded
    <3>3. Stage = "building" /\ Stage' = "serving" /\ UNCHANGED <<Wanted, Live, Loaded>>
      BY <2>1, <2>3, PartsStay DEF Stage, Wanted, Live, Loaded, HasSynced
    <3> QED
      BY <3>2, <3>3
  <2> QED
    BY <1>5, <2>2, <2>3 DEF Compile
<1>6. CASE Cancel
  <2>1. Wanted' = FALSE /\ UNCHANGED <<Stage, Live, Loaded>>
    BY <1>6, PartsStay DEF Cancel, partVars, Stage, Wanted, Live, Loaded, HasSynced
  <2> QED
    BY <2>1
<1>7. ASSUME NEW p \in Positions, Store(p) \/ Receive(p)
      PROVE  Abstract
  <2>1. UNCHANGED <<pc, ctx, routine>>
    BY <1>7 DEF Store, Receive, buildVars
  <2>2. CASE data' = data
    <3>1. UNCHANGED <<Stage, Wanted, Live, Loaded>>
      BY <2>1, <2>2, PartsStay DEF Stage, Wanted, Live, Loaded, HasSynced
    <3> QED
      BY <3>1
  <2>3. CASE \E c \in Content : data' = [data EXCEPT ![p] = c]
    BY <1>7, <2>1, <2>3, LoadedGrows
  <2>4. reading[p] # Nothing => reading[p] \in Content
    BY <1>7 DEF TypeOK
  <2>5. content[p] \in Content
    BY <1>7 DEF TypeOK
  <2> QED
    BY <1>7, <2>2, <2>3, <2>4, <2>5 DEF Store, Receive
<1>8. ASSUME NEW p \in Positions, Leave(p) \/ StopInformer(p)
      PROVE  Abstract
  <2>1. /\ routine[p] = "running" /\ routine' = [routine EXCEPT ![p] = "ended"]
        /\ ctx = "cancelled" /\ UNCHANGED <<pc, ctx, data>>
    BY <1>8 DEF Leave, StopInformer, buildVars
  <2>2. ~Wanted /\ p \in Live /\ Live' = Live \ {p}
    BY <1>8, <2>1 DEF Wanted, Live, TypeOK
  <2>3. UNCHANGED <<Stage, Wanted, Loaded>>
    BY <2>1, PartsStay DEF Stage, Wanted, Loaded, HasSynced
  <2> QED
    BY <1>8, <2>2, <2>3
<1>9. CASE UNCHANGED <<pc, ctx, routine, data>>
  <2>1. UNCHANGED <<Stage, Wanted, Live, Loaded>>
    BY <1>9, PartsStay DEF Stage, Wanted, Live, Loaded, HasSynced
  <2> QED
    BY <2>1
<1>10. \/ Load \/ Client \/ Context \/ Synced \/ TimeOut \/ Build \/ Start \/ Compile \/ Cancel
       \/ \E p \in Positions : Store(p) \/ Receive(p) \/ Leave(p) \/ StopInformer(p)
       \/ UNCHANGED <<pc, ctx, routine, data>>
  BY DEF Next, vars, Building, Watching, TakeEvent, Truncate, WriteOn, Replace, Change, ComeOrGo,
         Write, buildVars, partVars
<1> QED
  BY <1>2, <1>3, <1>4, <1>5, <1>6, <1>7, <1>8, <1>9, <1>10

\* For any config file and number of parts, a generation keeps the safety half of
\* its promise: it is published with every part loaded, what fails is no longer
\* wanted, and parts end only then.  That building and the parts do end is the
\* other half of ImplementsLifetime, which TLC checks.
THEOREM GenerationsKeepTheirPromise == Spec => Promise!Spec
<1>1. Init => Promise!Init
  BY RefinementInit
<1>2. GenerationInv /\ [Next]_vars => [Promise!Next]_Promise!vars
  BY RefinementStep
<1> QED
  BY <1>1, <1>2, Invariance, PTL DEF Spec, Promise!Spec
=============================================================================
