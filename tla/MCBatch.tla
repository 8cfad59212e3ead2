------------------------------ MODULE MCBatch -------------------------------
(***************************************************************************)
(* Instances of Batch for TLC: the kinds of entry a batch is made of.      *)
(***************************************************************************)
EXTENDS Batch

K(l, an, r, p) == [labels |-> l, annotations |-> an, rule |-> r, panics |-> p]

\* One entry of every kind whose fate differs.
AllKinds ==
  {K("null", "ok", "none", FALSE), K("none", "ok", "optional", FALSE),
   K("bad", "ok", "required", FALSE), K("some", "bad", "required", FALSE),
   K("some", "ok", "none", FALSE), K("some", "ok", "optional", FALSE),
   K("some", "ok", "required", FALSE), K("some", "ok", "required", TRUE)}

\* Enough for a batch that is refused or released.
TwoKinds == {K("some", "ok", "none", FALSE), K("some", "ok", "required", FALSE)}
=============================================================================
