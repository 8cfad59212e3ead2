------------------------------ MODULE MCReload ------------------------------
(***************************************************************************)
(* Instances of Reload for TLC: sets of config kinds, and the symmetry of  *)
(* generations.                                                            *)
(***************************************************************************)
EXTENDS Reload, TLC

\* Any config file at all, without the CRD watch.
NoWatcher == {"noload", "nostart", "nocompile", "plain"}

\* With the CRD watch and without it, not compiling, and invalid.
Assorted == {"crd", "nocompile", "noload", "plain"}

InPlace == {"inPlace"}
Mounted == {"symlink"}

Symmetry == Permutations(Gens)
=============================================================================
