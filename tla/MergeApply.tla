---------------------------- MODULE MergeApply -----------------------------
(***************************************************************************)
(* `sync merge-apply` of src/src/main.rs: merge a remote folder into a     *)
(* local one, given their common base, and execute the plan.  A run that   *)
(* stops between two actions is repeated by hand, and scans the folder it  *)
(* left half merged.                                                       *)
(***************************************************************************)
EXTENDS SyncManifest

CONSTANTS
    Bases,      \* the manifests base and remote are taken from: scans for
                \* the command, manifests with tombstones for its other users
    MaxStops    \* bound on interrupted runs

ASSUME BasesAssumption == Bases \subseteq Manifest
ASSUME StopsAssumption == MaxStops \in Nat

VARIABLES
    base, remote,   \* the two manifests that do not change
    original,       \* the local folder before the first run
    folder,         \* the local folder now
    copies,         \* conflict copies in it, <<original path, content>>
    plan,           \* the actions the run has still to execute
    pc,             \* "ready" (no run), "apply" or "done"
    stops

vars == <<base, remote, original, folder, copies, plan, pc, stops>>
inputs == <<base, remote, original>>

TypeOK ==
    /\ base \in Bases /\ remote \in Bases
    /\ original \in Folder /\ folder \in Folder
    /\ copies \subseteq Path \X Content
    /\ plan \subseteq Action
    /\ pc \in {"ready", "apply", "done"}
    /\ stops \in 0..MaxStops

Init ==
    /\ base \in Bases /\ remote \in Bases
    /\ original \in Folder
    /\ folder = original
    /\ copies = {} /\ plan = {}
    /\ pc = "ready"
    /\ stops = 0

(* Scan the three folders and merge.                                        *)
Scan ==
    /\ pc = "ready"
    /\ pc' = "apply"
    /\ plan' = MergePlan(base, folder, remote)
    /\ UNCHANGED <<inputs, folder, copies, stops>>

(* The next action: a write or a move is complete or has not happened,      *)
(* since files are written under a temporary name first.  Unlike the docs   *)
(* sync, which fetches the file instead, the command fails on a rename      *)
(* whose source is gone.                                                    *)
ApplyStep ==
    /\ pc = "apply"
    /\ \E a \in plan :
        /\ \A b \in plan : a.path <= b.path
        /\ a.op = "rename" => folder[a.path] # None
        /\ folder' = ApplyToFolder(folder, a)
        /\ copies' = IF a.op = "copy" THEN copies \cup {<<a.path, a.content>>} ELSE copies
        /\ plan' = plan \ {a}
    /\ UNCHANGED <<inputs, pc, stops>>

Finish ==
    /\ pc = "apply" /\ plan = {}
    /\ pc' = "done"
    /\ UNCHANGED <<inputs, folder, copies, plan, stops>>

(* An action fails or the process is killed.                                *)
Stop ==
    /\ pc = "apply" /\ stops < MaxStops
    /\ stops' = stops + 1
    /\ pc' = "ready"
    /\ plan' = {}
    /\ UNCHANGED <<inputs, folder, copies>>

Next == Scan \/ ApplyStep \/ Finish \/ Stop

Spec == Init /\ [][Next]_vars

---------------------------------------------------------------------------
(* What a three-way merge is, without plans, renames or an order: a path    *)
(* the local user left alone takes the remote's state, any other keeps its  *)
(* own, and a remote file that is kept out becomes a conflict copy.         *)
AsFile(state) == IF state = Tombstone THEN None ELSE state

ThreeWay(p) == IF original[p] = base[p] THEN AsFile(remote[p]) ELSE original[p]

Conflicting(p) ==
    /\ remote[p] \in Content
    /\ remote[p] # base[p] /\ original[p] # base[p] /\ original[p] # remote[p]

(* When a run completes, the folder is the three-way merge of what it was   *)
(* before the first run, however often a run was cut short: detecting       *)
(* renames only saves copying, and a half-merged folder merges to the same. *)
MergesAll == pc = "done" => \A p \in Path : folder[p] = ThreeWay(p)

(* And the conflict copies are those of the conflicts, no more and no less, *)
(* so that no pass invents a conflict out of its own half-done work.        *)
CopiesConflicts ==
    /\ copies \subseteq {<<p, remote[p]>> : p \in {q \in Path : Conflicting(q)}}
    /\ pc = "done" => \A p \in Path : Conflicting(p) => <<p, remote[p]>> \in copies

(* No action of a plan takes away what a later one needs: each file moved   *)
(* is moved once, to a path nothing else is moved to, also when several     *)
(* identical files are renamed together.                                    *)
Executable ==
    \A a \in plan : a.op = "rename" => folder[a.path] # None /\ folder[a.to] = None

(* At every point of every run a path holds what it held before or what the *)
(* merge gives it: nothing is removed and brought back, or parked elsewhere.*)
OldOrNew == \A p \in Path : folder[p] \in {original[p], ThreeWay(p)}
=============================================================================
