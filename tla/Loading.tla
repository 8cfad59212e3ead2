------------------------------ MODULE Loading ------------------------------
(***************************************************************************)
(* What may be wrong with a config file, and which of config.Load,         *)
(* wiring.BuildSources, tlsutil and engine.Compile notices it.  `enricher  *)
(* check` runs the first and the third of them.  A text that is compiled   *)
(* (a regex, a template, jq) or a file that is loaded (a certificate, a    *)
(* CA) is missing, good or bad.  The definitions commented "Mutant" are    *)
(* deliberate faults nothing uses.                                         *)
(***************************************************************************)
EXTENDS Integers, Sequences, FiniteSets

Text == {"none", "good", "bad"}
Present == {"good", "bad"}

\* complete: the block of its type is there, with the fields it requires.
\* template: the URL, or the name and namespace, of what is looked up.
Source == [name : STRING, kind : {"file", "kubernetes", "http", "other"},
           complete : BOOLEAN, template : Present]

\* A rule with one action that sets something.  regex: of its matchers.
\* declared: from.source is one of the sources.
Rule == [name : {"", "plain", "other", "a/b"}, regex : Text, value : BOOLEAN, template : Text,
         from : BOOLEAN, declared : BOOLEAN, jq : Text]

\* pair: both names of certificate and key are set and the files load or do
\* not, only one is set, none is, or there is no tls block at all.
TLS == [pair : {"off", "none", "half", "good", "bad"}, ca : Text]

\* parses: the file can be read and holds no unknown key.  targets: how many,
\* each with a URL.  enforcement: the policies hold together.
File == [parses : BOOLEAN, targets : Nat, minSuccess : Int, retries : Int,
         maxConcurrency : Int, maxRules : Int, sources : Seq(Source),
         rules : Seq(Rule), crd : BOOLEAN, enforcement : BOOLEAN,
         server : TLS, forward : TLS]

\* applyDefaults, where a zero would matter.
Defaulted(f) ==
  [f EXCEPT !.minSuccess = IF @ = 0 THEN 1 ELSE @,
            !.maxConcurrency = IF @ = 0 THEN 32 ELSE @,
            !.maxRules = IF @ = 0 THEN 1000 ELSE @]

ValidSource(s) ==
  s.name # "" /\ s.kind # "other" /\ s.complete

NoNameTwice(seq) == \A i, j \in DOMAIN seq : seq[i].name = seq[j].name => i = j

\* Mutant: templates are left to be found wrong by engine.Compile.
ValidTextsButTemplates(r) == r.regex # "bad" /\ (r.from => r.jq = "good")

\* validateMatch and validateSet compile what the engine will compile.
ValidTexts(r) == r.regex # "bad" /\ r.template # "bad" /\ (r.from => r.jq = "good")

Modes(r) == {m \in {"value", "template", "from"} :
               \/ m = "value" /\ r.value
               \/ m = "template" /\ r.template # "none"
               \/ m = "from" /\ r.from}

ValidRule(r) ==
  /\ r.name \notin {"", "a/b"}
  /\ ValidTexts(r)
  /\ Cardinality(Modes(r)) = 1
  /\ r.from => r.declared

\* Validate, on a file whose defaults are applied.
Valid(f) ==
  /\ f.targets >= 1 /\ f.minSuccess <= f.targets
  /\ f.retries >= 0 /\ f.maxConcurrency >= 0 /\ f.maxRules >= 0
  /\ f.server.pair \notin {"none", "half"} /\ f.forward.pair # "half"
  /\ \A i \in DOMAIN f.sources : ValidSource(f.sources[i])
  /\ \A i \in DOMAIN f.rules : ValidRule(f.rules[i])
  /\ NoNameTwice(f.sources) /\ NoNameTwice(f.rules)
  /\ f.enforcement

\* config.Load succeeds.
Loads(f) == f.parses /\ Valid(Defaulted(f))

\* tlsutil.ServerConfig and ClientConfig, for the blocks there are.
ServerTLSBuilds(f) == f.server.pair # "off" => f.server.pair = "good" /\ f.server.ca # "bad"
ForwardTLSBuilds(f) ==
  f.forward.pair # "off" => f.forward.pair \in {"none", "good"} /\ f.forward.ca # "bad"

\* runCheck prints "ok".
CheckSucceeds(f) == Loads(f) /\ ServerTLSBuilds(f) /\ ForwardTLSBuilds(f)

NeedsKubeClient(f) ==
  f.crd \/ \E i \in DOMAIN f.sources : f.sources[i].kind = "kubernetes"

\* engine.Compile succeeds on the rules of the file.
Compiles(f) ==
  \A i \in DOMAIN f.rules : /\ f.rules[i].regex # "bad"
                            /\ f.rules[i].template # "bad"
                            /\ f.rules[i].from => f.rules[i].jq = "good"
=============================================================================
