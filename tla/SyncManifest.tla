--------------------------- MODULE SyncManifest ---------------------------
(***************************************************************************)
(* Folder manifests and the three-way merge of src/src/sync.rs.            *)
(*                                                                         *)
(* A manifest is a BTreeMap from path to entry.  Here it is a total        *)
(* function: None is an absent key, Tombstone a recorded deletion, and a   *)
(* member of Content a FileDescriptor (size and hash together; the chunk   *)
(* size is one constant).  The modification time of an entry is left out:  *)
(* entry_state_eq ignores it.  A path is its rank in the map's key order.  *)
(***************************************************************************)
EXTENDS Naturals, FiniteSets

CONSTANTS
    Path,       \* relative paths, numbered in key order
    Content,    \* file contents
    None,       \* no entry under this path
    Tombstone,  \* the entry of a deleted file
    Fold        \* the lower-cased form of each path

ASSUME PathAssumption == Path \subseteq Nat /\ IsFiniteSet(Path)
ASSUME SentinelAssumption ==
    /\ None \notin Content
    /\ Tombstone \notin Content
    /\ None # Tombstone
ASSUME FoldAssumption == DOMAIN Fold = Path

State == Content \cup {Tombstone, None}
Manifest == [Path -> State]
Folder == [Path -> Content \cup {None}]   \* what scan_directory returns
EmptyManifest == [p \in Path |-> None]

(* The paths a manifest has an entry for. *)
Entries(m) == {p \in Path : m[p] # None}

(* The scanned folder plus a tombstone for every path that was known before. *)
WithTombstones(previous, current) ==
    [p \in Path |-> IF current[p] # None THEN current[p]
                    ELSE IF previous[p] = None THEN None ELSE Tombstone]

DiffWithoutUpdates(previous, current) ==    \* slip: edits are not changes
    {p \in Path : previous[p] # current[p] /\ None \in {previous[p], current[p]}}

(* A tombstone that replaces nothing is not a change; a tombstone that is    *)
(* followed by no entry is one (the arm (Some(_), None)).                    *)
DiffManifests(previous, current) ==
    {p \in Path : /\ previous[p] # current[p]
                  /\ ~(previous[p] = None /\ current[p] = Tombstone)}

(* No two entries, tombstones included, differ in letter case only. *)
ValidManifest(m) ==
    \A p, q \in Entries(m) : Fold[p] = Fold[q] => p = q

---------------------------------------------------------------------------
(* The k-th vanished base file of some content is paired with the k-th new   *)
(* remote file of that content: iteration order with a set of used targets.  *)

Rank(p, S) == Cardinality({q \in S : q < p})

RenameEdited(base, local, remote, c) ==     \* slip: moves an edited file
    {p \in Path : base[p] = c /\ remote[p] \in {None, Tombstone}}

RenameSources(base, local, remote, c) ==
    {p \in Path : base[p] = c /\ local[p] = c /\ remote[p] \in {None, Tombstone}}

RenameOntoLocal(base, local, remote, c) ==  \* slip: the target is taken
    {p \in Path : base[p] = None /\ remote[p] = c}

RenameTargets(base, local, remote, c) ==
    {p \in Path : base[p] = None /\ local[p] = None /\ remote[p] = c}

UnpairedRenames(base, local, remote) ==     \* slip: targets are not used up
    UNION {RenameSources(base, local, remote, c) \X RenameTargets(base, local, remote, c)
              : c \in Content}

RemoteRenames(base, local, remote) ==
    UNION { LET from == RenameSources(base, local, remote, c)
                to   == RenameTargets(base, local, remote, c)
            IN  {r \in from \X to : Rank(r[1], from) = Rank(r[2], to)}
          : c \in Content }

---------------------------------------------------------------------------
(* A merge plan is a set of actions, at most one per path, executed in the   *)
(* order of their paths.                                                     *)

Op == {"upsert", "rename", "delete", "copy"}
Action == [op : Op, path : Path, to : Path, content : State]

PathOverwrite(base, local, remote, p) ==    \* slip: a conflict takes the remote
    IF remote[p] \in Content /\ remote[p] \notin {local[p], base[p]}
    THEN {[op |-> "upsert", path |-> p, to |-> p, content |-> remote[p]]} ELSE {}

PathKeepLocal(base, local, remote, p) ==    \* slip: a conflict makes no copy
    IF local[p] = base[p] THEN PathOverwrite(base, local, remote, p) ELSE {}

PathAlwaysCopy(base, local, remote, p) ==   \* slip: equal edits conflict
    IF remote[p] \in Content /\ local[p] # base[p] /\ remote[p] # base[p]
    THEN {[op |-> "copy", path |-> p, to |-> p, content |-> remote[p]]} ELSE {}

(* What the merge does at a path that no rename involves. *)
PathAction(base, local, remote, p) ==
    LET Act(op) == {[op |-> op, path |-> p, to |-> p, content |-> remote[p]]}
        localChanged  == local[p] # base[p]
        remoteChanged == remote[p] # base[p]
    IN  IF local[p] = remote[p] \/ ~remoteChanged THEN {}
        ELSE IF remote[p] \in Content
             THEN Act(IF localChanged THEN "copy" ELSE "upsert")
             ELSE IF localChanged THEN {} ELSE Act("delete")

(* Where a local change meets a remote deletion the local file is kept: a    *)
(* conflict without an action.                                               *)
KeptLocal(base, local, remote) ==
    {p \in Path : /\ local[p] \in Content /\ local[p] # base[p]
                  /\ remote[p] \in {None, Tombstone} /\ remote[p] # base[p]}

MergePlan(base, local, remote) ==
    LET renames == RemoteRenames(base, local, remote)
        moved   == {r[1] : r \in renames} \cup {r[2] : r \in renames}
    IN  {[op |-> "rename", path |-> r[1], to |-> r[2], content |-> remote[r[2]]]
            : r \in renames}
        \cup UNION {PathAction(base, local, remote, p) : p \in Path \ moved}

(* The actions of seed_local_from_manifest: write every file of the remote. *)
SeedPlan(remote) ==
    {[op |-> "upsert", path |-> p, to |-> p, content |-> remote[p]]
        : p \in {q \in Path : remote[q] \in Content}}

DeleteLeavesMark(folder, a) ==              \* slip: a deleted file stays listed
    [folder EXCEPT ![a.path] = IF a.op = "delete" THEN Tombstone ELSE a.content]

(* The folder after one action.  A rename moves whatever the source holds    *)
(* when it runs, and fetches the content if the source is gone.              *)
ApplyToFolder(folder, a) ==
    CASE a.op = "upsert" -> [folder EXCEPT ![a.path] = a.content]
      [] a.op = "delete" -> [folder EXCEPT ![a.path] = None]
      [] a.op = "copy"   -> folder
      [] a.op = "rename" ->
            IF folder[a.path] # None
            THEN [folder EXCEPT ![a.to] = folder[a.path], ![a.path] = None]
            ELSE [folder EXCEPT ![a.to] = a.content]
===========================================================================
