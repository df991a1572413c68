---------------------------- MODULE MCSyncFollow ----------------------------
(* Three paths, two of which differ in case only; an empty folder or one     *)
(* with a file of its own.                                                   *)
EXTENDS SyncFollow
CONSTANTS c1, c2
TwoCases == [p \in Path |-> IF p = 3 THEN 2 ELSE p]
EmptyOrOne == {[p \in Path |-> None], [p \in Path |-> IF p = 1 THEN c1 ELSE None]}
============================================================================
