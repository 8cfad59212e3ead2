---------------------------- MODULE MCGeneration ----------------------------
(***************************************************************************)
(* Instances of Generation for TLC: a good config file with any of several *)
(* lists of sources, and files with one thing or another out of order.     *)
(***************************************************************************)
EXTENDS Generation

SourceOf(name, kind) ==
  [name |-> name, kind |-> kind, complete |-> TRUE, template |-> "good"]

GoodRule == [name |-> "plain", regex |-> "good", value |-> TRUE, template |-> "none",
             from |-> FALSE, declared |-> TRUE, jq |-> "none"]

NoTLS == [pair |-> "off", ca |-> "none"]

Good == [parses |-> TRUE, targets |-> 2, minSuccess |-> 1, retries |-> 0,
         maxConcurrency |-> 0, maxRules |-> 0, sources |-> <<>>, rules |-> <<GoodRule>>,
         crd |-> FALSE, enforcement |-> TRUE, server |-> NoTLS, forward |-> NoTLS]

F == SourceOf("f", "file")
K == SourceOf("k", "kubernetes")
H == SourceOf("h", "http")

\* Parts that can hold each other up, in either order, and the watcher.
Running == {[Good EXCEPT !.sources = s] : s \in {<<F, K>>, <<K, F>>, <<H, F>>}}
             \cup {[Good EXCEPT !.sources = s, !.crd = TRUE] : s \in {<<F>>, <<K>>}}

\* One rule or one source, good or bad in every way, and every TLS setting.
OddRules == {[Good EXCEPT !.rules = <<r>>] : r \in
               [name : {"plain", "a/b"}, regex : Text, value : BOOLEAN, template : Text,
                from : BOOLEAN, declared : BOOLEAN, jq : Text]}
OddSources == {[Good EXCEPT !.sources = <<s>>] : s \in
                 [name : {"", "s"}, kind : {"http", "kubernetes", "other"},
                  complete : BOOLEAN, template : Present]}
                \cup {[Good EXCEPT !.sources = <<H, H>>]}
OddTLS == {[Good EXCEPT !.server = s, !.forward = t] : s \in TLS, t \in TLS}
OddNumbers == {[Good EXCEPT !.targets = n, !.minSuccess = m, !.maxConcurrency = c] :
                 n \in 0 .. 2, m \in -1 .. 3, c \in -1 .. 1}
OddFlags == {[Good EXCEPT !.parses = p, !.enforcement = e] : p \in BOOLEAN, e \in BOOLEAN}

Files == Running \cup OddRules \cup OddSources \cup OddTLS \cup OddNumbers \cup OddFlags
=============================================================================
