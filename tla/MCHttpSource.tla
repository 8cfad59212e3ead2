---------------------------- MODULE MCHttpSource ----------------------------
(***************************************************************************)
(* Instances of HttpSource for TLC: interchangeable callers and keys.      *)
(***************************************************************************)
EXTENDS HttpSource, TLC

Symmetry == Permutations(Callers) \cup Permutations(Keys)
=============================================================================
