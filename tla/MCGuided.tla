------------------------------- MODULE MCGuided -------------------------------
(* Instances of Guided for TLC: a test with a timer, one without.          *)
EXTENDS Guided

CONSTANTS timing, pattern, d1, d2
Timing == {timing}
Pattern == {pattern}
NoTests == {}
OneDisplay == {d1}
TwoDisplays == {d1, d2}
Symmetry == Permutations(TwoDisplays)
\* With a list that never fills, its length makes no difference.
WithoutLength == <<investigationVars, flow>>
=============================================================================
