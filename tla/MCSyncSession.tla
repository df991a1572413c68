--------------------------- MODULE MCSyncSession ---------------------------
(* Small instances of SyncSession for TLC.                                   *)
EXTENDS SyncSession

CONSTANTS c1, c2, c3

Paths == {1, 2}
Distinct == [p \in {1, 2} |-> p]
SameCase == [p \in {1, 2} |-> 1]

NoFiles == {[p \in {1, 2} |-> None]}
FirstFile == {[p \in {1, 2} |-> IF p = 1 THEN c1 ELSE None]}

(* From a session under way.                                                *)
SyncedSpec == SyncedInit /\ [][Next]_vars
=============================================================================
