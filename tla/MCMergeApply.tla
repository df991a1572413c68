--------------------------- MODULE MCMergeApply ----------------------------
(* A small instance of MergeApply for TLC.                                   *)
EXTENDS MergeApply

CONSTANT c1

Distinct == [p \in Path |-> p]

(* Anything under the paths 1 and 2; under 3 and 4 nothing or c1, so that    *)
(* two identical files can be renamed at once.                               *)
SomeManifests == {m \in Manifest : m[3] \in {None, c1} /\ m[4] \in {None, c1}}
=============================================================================
