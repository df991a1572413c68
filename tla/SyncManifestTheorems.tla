------------------------ MODULE SyncManifestTheorems ------------------------
(* What the operators of SyncManifest return, for any paths and contents.    *)
EXTENDS SyncManifest, FiniteSetTheorems, TLAPS

(* A folder is a manifest without tombstones.                               *)
LEMMA FolderIsManifest == Folder \subseteq Manifest
BY DEF Folder, Manifest, State

LEMMA EmptyManifestType == EmptyManifest \in Manifest
BY DEF EmptyManifest, Manifest, State

(* with_tombstones returns a manifest.                                      *)
LEMMA WithTombstonesType ==
    ASSUME NEW previous \in Manifest, NEW current \in Manifest
    PROVE  WithTombstones(previous, current) \in Manifest
BY DEF WithTombstones, Manifest, State

(* The action at a path no rename involves: what it fetches is a file, and  *)
(* it deletes only what the remote records as deleted or no longer lists.   *)
LEMMA PathActionSound ==
    ASSUME NEW base \in Manifest, NEW local \in Folder, NEW remote \in Manifest,
           NEW p \in Path, NEW a \in PathAction(base, local, remote, p)
    PROVE  /\ a \in Action
           /\ a.path = p
           /\ a.op # "rename"
           /\ a.op # "delete" => a.content \in Content
           /\ a.op = "delete" => \/ remote[p] = Tombstone
                                 \/ remote[p] = None /\ base[p] # None
<1>1. remote[p] \in State /\ local[p] \in Content \cup {None}
  BY DEF Manifest, Folder
<1>2. a.op \in {"copy", "upsert", "delete"} /\ a \in Action /\ a.path = p /\ a.content = remote[p]
  BY <1>1 DEF PathAction, Action, Op
<1>3. a.op # "delete" => remote[p] \in Content
  BY DEF PathAction
<1>4. ASSUME a.op = "delete"
      PROVE  remote[p] = Tombstone \/ (remote[p] = None /\ base[p] # None)
  <2>1. remote[p] \notin Content /\ remote[p] # base[p]
    BY <1>4 DEF PathAction
  <2> QED
    BY <1>1, <2>1 DEF State
<1> QED
  BY <1>2, <1>3, <1>4

(* A detected rename moves a file the base, and no longer the remote, has   *)
(* to a path where only the remote has one.                                 *)
LEMMA RemoteRenamesSound ==
    ASSUME NEW base \in Manifest, NEW local \in Folder, NEW remote \in Manifest,
           NEW r \in RemoteRenames(base, local, remote)
    PROVE  /\ r[1] \in Path /\ r[2] \in Path
           /\ base[r[1]] \in Content
           /\ local[r[1]] = base[r[1]]
           /\ remote[r[1]] \in {None, Tombstone}
           /\ base[r[2]] = None /\ local[r[2]] = None
           /\ remote[r[2]] = base[r[1]]
<1>1. PICK c \in Content : r \in RenameSources(base, local, remote, c)
                                   \X RenameTargets(base, local, remote, c)
  BY DEF RemoteRenames
<1> QED
  BY <1>1 DEF RenameSources, RenameTargets

(* Every action of a plan is one of the two.                                *)
LEMMA MergePlanCases ==
    ASSUME NEW base, NEW local, NEW remote, NEW a \in MergePlan(base, local, remote)
    PROVE  \/ \E r \in RemoteRenames(base, local, remote) :
                 a = [op |-> "rename", path |-> r[1], to |-> r[2], content |-> remote[r[2]]]
           \/ \E p \in Path : a \in PathAction(base, local, remote, p)
BY DEF MergePlan

(* A plan's actions are well formed; what they fetch are files; and they    *)
(* remove only what the remote records as deleted or no longer lists.       *)
LEMMA MergePlanSound ==
    ASSUME NEW base \in Manifest, NEW local \in Folder, NEW remote \in Manifest,
           NEW a \in MergePlan(base, local, remote)
    PROVE  /\ a \in Action
           /\ a.op # "delete" => a.content \in Content
           /\ a.op \in {"delete", "rename"} =>
                 \/ remote[a.path] = Tombstone
                 \/ remote[a.path] = None /\ base[a.path] # None
<1>1. CASE \E r \in RemoteRenames(base, local, remote) :
              a = [op |-> "rename", path |-> r[1], to |-> r[2], content |-> remote[r[2]]]
  <2>1. PICK r \in RemoteRenames(base, local, remote) :
              a = [op |-> "rename", path |-> r[1], to |-> r[2], content |-> remote[r[2]]]
    BY <1>1
  <2>2. /\ r[1] \in Path /\ r[2] \in Path
        /\ base[r[1]] \in Content
        /\ remote[r[1]] \in {None, Tombstone}
        /\ remote[r[2]] = base[r[1]]
    BY RemoteRenamesSound
  <2>3. base[r[1]] # None
    BY <2>2, SentinelAssumption
  <2> QED
    BY <2>1, <2>2, <2>3 DEF Action, Op, State
<1>2. CASE \E p \in Path : a \in PathAction(base, local, remote, p)
  <2>1. PICK p \in Path : a \in PathAction(base, local, remote, p)
    BY <1>2
  <2> QED
    BY <2>1, PathActionSound
<1> QED
  BY <1>1, <1>2, MergePlanCases

(* A file of the remote that neither base nor folder has is brought.        *)
LEMMA MergePlanComplete ==
    ASSUME NEW base \in Manifest, NEW local \in Folder, NEW remote \in Manifest,
           NEW p \in Path,
           base[p] = None, local[p] = None, remote[p] \in Content
    PROVE  \E a \in MergePlan(base, local, remote) :
              \/ a.op = "upsert" /\ a.path = p
              \/ a.op = "rename" /\ a.to = p
<1> DEFINE renames == RemoteRenames(base, local, remote)
           moved == {r[1] : r \in renames} \cup {r[2] : r \in renames}
<1>0. None \notin Content /\ Tombstone \notin Content
  BY SentinelAssumption
<1>1. CASE p \notin moved
  <2> DEFINE a == [op |-> "upsert", path |-> p, to |-> p, content |-> remote[p]]
  <2>1. a \in PathAction(base, local, remote, p)
    BY <1>0 DEF PathAction
  <2>2. a \in MergePlan(base, local, remote)
    BY <1>1, <2>1 DEF MergePlan
  <2> QED
    BY <2>2
<1>2. CASE p \in moved
  <2>1. PICK r \in renames : p \in {r[1], r[2]}
    BY <1>2
  <2>2. p # r[1]
    BY <1>0, RemoteRenamesSound
  <2> DEFINE a == [op |-> "rename", path |-> r[1], to |-> r[2], content |-> remote[r[2]]]
  <2>3. a \in MergePlan(base, local, remote)
    BY DEF MergePlan
  <2> QED
    BY <2>1, <2>2, <2>3
<1> QED
  BY <1>1, <1>2

(* Seeding writes every file of the remote and does nothing else.           *)
LEMMA SeedPlanSound ==
    ASSUME NEW remote \in Manifest, NEW a \in SeedPlan(remote)
    PROVE  a \in Action /\ a.op = "upsert" /\ a.content \in Content
BY DEF SeedPlan, Action, Op, State

LEMMA SeedPlanComplete ==
    ASSUME NEW remote \in Manifest, NEW p \in Path, remote[p] \in Content
    PROVE  \E a \in SeedPlan(remote) : a.op = "upsert" /\ a.path = p
<1>1. [op |-> "upsert", path |-> p, to |-> p, content |-> remote[p]] \in SeedPlan(remote)
  BY DEF SeedPlan
<1> QED
  BY <1>1

(* An action that fetches a file, or deletes, leaves a folder.              *)
LEMMA ApplyToFolderType ==
    ASSUME NEW folder \in Folder, NEW a \in Action,
           a.op # "delete" => a.content \in Content
    PROVE  ApplyToFolder(folder, a) \in Folder
<1>1. a.op \in Op /\ a.path \in Path /\ a.to \in Path
  BY DEF Action
<1> QED
  BY <1>1 DEF ApplyToFolder, Folder, Op

(* It removes a file only at the path a deletion or a rename names, and     *)
(* brings one where it says it does.                                        *)
LEMMA ApplyToFolderEffect ==
    ASSUME NEW folder \in Folder, NEW a \in Action, NEW p \in Path,
           a.op # "delete" => a.content \in Content
    PROVE  /\ folder[p] # None /\ ApplyToFolder(folder, a)[p] = None
                => a.op \in {"delete", "rename"} /\ a.path = p
           /\ \/ a.op = "upsert" /\ a.path = p
              \/ a.op = "rename" /\ a.to = p /\ a.path # p
              => ApplyToFolder(folder, a)[p] # None
<1>1. a.op \in Op /\ a.path \in Path /\ a.to \in Path
  BY DEF Action
<1>2. None \notin Content
  BY SentinelAssumption
<1>3. CASE a.op = "upsert"
  BY <1>1, <1>2, <1>3 DEF ApplyToFolder, Folder
<1>4. CASE a.op = "delete"
  BY <1>1, <1>2, <1>4 DEF ApplyToFolder, Folder
<1>5. CASE a.op = "copy"
  BY <1>1, <1>2, <1>5 DEF ApplyToFolder, Folder
<1>6. CASE a.op = "rename"
  BY <1>1, <1>2, <1>6 DEF ApplyToFolder, Folder
<1> QED
  BY <1>1, <1>3, <1>4, <1>5, <1>6 DEF Op
(* What one action does to the folder, by the kind of action.               *)
LEMMA ApplyToFolderCases ==
    ASSUME NEW folder \in Folder, NEW a \in Action
    PROVE  /\ a.op = "upsert" =>
                \A p \in Path : ApplyToFolder(folder, a)[p] = IF p = a.path THEN a.content ELSE folder[p]
           /\ a.op = "delete" =>
                \A p \in Path : ApplyToFolder(folder, a)[p] = IF p = a.path THEN None ELSE folder[p]
           /\ a.op = "copy" => ApplyToFolder(folder, a) = folder
           /\ a.op = "rename" /\ a.path # a.to =>
                \A p \in Path : ApplyToFolder(folder, a)[p] =
                   IF p = a.to THEN (IF folder[a.path] # None THEN folder[a.path] ELSE a.content)
                   ELSE IF p = a.path THEN None ELSE folder[p]
<1>1. a.path \in Path /\ a.to \in Path
  BY DEF Action
<1>2. CASE a.op = "upsert"
  BY <1>1, <1>2 DEF ApplyToFolder, Folder
<1>3. CASE a.op = "delete"
  BY <1>1, <1>3 DEF ApplyToFolder, Folder
<1>4. CASE a.op = "copy"
  BY <1>1, <1>4 DEF ApplyToFolder, Folder
<1>5. CASE a.op = "rename"
  BY <1>1, <1>5 DEF ApplyToFolder, Folder
<1> QED
  BY <1>2, <1>3, <1>4, <1>5
---------------------------------------------------------------------------
(* What a plan does to one path, and that it does one thing to each.        *)

(* Of the members of a set of paths, each has a rank of its own.            *)
LEMMA RankIsUnique ==
    ASSUME NEW S \in SUBSET Path, NEW p \in S, NEW q \in S, Rank(p, S) = Rank(q, S)
    PROVE  p = q
<1>1. p \in Nat /\ q \in Nat /\ S \subseteq Nat /\ IsFiniteSet(S)
  BY PathAssumption, FS_Subset
<1>2. ASSUME NEW x \in S, NEW y \in S, x < y
      PROVE  Rank(x, S) # Rank(y, S)
  <2> DEFINE A == {z \in S : z < x}
             B == {z \in S : z < y}
  <2>1. A \subseteq B /\ A # B
    <3>1. x \in B /\ x \notin A
      BY <1>1, <1>2
    <3>2. \A z \in S : z < x => z < y
      BY <1>1, <1>2
    <3> QED
      BY <3>1, <3>2
  <2>2. IsFiniteSet(B)
    BY <1>1, FS_Subset
  <2>3. Cardinality(A) # Cardinality(B)
    BY <2>1, <2>2, FS_Subset
  <2> QED
    BY <2>3 DEF Rank
<1> QED
  BY <1>1, <1>2

(* A file is moved once, and to a path nothing else is moved to.            *)
LEMMA RenamesAreOneToOne ==
    ASSUME NEW base \in Manifest, NEW local \in Folder, NEW remote \in Manifest,
           NEW r \in RemoteRenames(base, local, remote),
           NEW s \in RemoteRenames(base, local, remote)
    PROVE  /\ r = <<r[1], r[2]>>
           /\ r[1] = s[1] \/ r[2] = s[2] => r = s
           /\ r[1] # s[2]
<1>1. \A x \in RemoteRenames(base, local, remote) :
        \E c \in Content :
          /\ x \in RenameSources(base, local, remote, c) \X RenameTargets(base, local, remote, c)
          /\ Rank(x[1], RenameSources(base, local, remote, c))
               = Rank(x[2], RenameTargets(base, local, remote, c))
  BY DEF RemoteRenames
<1>2. PICK c \in Content :
        /\ r \in RenameSources(base, local, remote, c) \X RenameTargets(base, local, remote, c)
        /\ Rank(r[1], RenameSources(base, local, remote, c))
             = Rank(r[2], RenameTargets(base, local, remote, c))
  BY <1>1
<1>3. PICK d \in Content :
        /\ s \in RenameSources(base, local, remote, d) \X RenameTargets(base, local, remote, d)
        /\ Rank(s[1], RenameSources(base, local, remote, d))
             = Rank(s[2], RenameTargets(base, local, remote, d))
  BY <1>1
<1> DEFINE from == RenameSources(base, local, remote, c)
           to   == RenameTargets(base, local, remote, c)
<1>4. /\ base[r[1]] = c /\ remote[r[2]] = c /\ base[r[2]] = None
      /\ base[s[1]] = d /\ remote[s[2]] = d /\ base[s[2]] = None
      /\ from \subseteq Path /\ to \subseteq Path
  BY <1>2, <1>3 DEF RenameSources, RenameTargets
<1>5. r = <<r[1], r[2]>> /\ s = <<s[1], s[2]>>
  BY <1>2, <1>3
<1>6. ASSUME r[1] = s[1] \/ r[2] = s[2]
      PROVE  r = s
  <2>1. c = d
    BY <1>4, <1>6
  <2>2. /\ r[1] \in from /\ s[1] \in from /\ r[2] \in to /\ s[2] \in to
        /\ Rank(r[1], from) = Rank(r[2], to) /\ Rank(s[1], from) = Rank(s[2], to)
    BY <1>2, <1>3, <2>1
  <2> HIDE DEF from, to
  <2>3. r[1] = s[1] /\ r[2] = s[2]
    BY <1>4, <1>6, <2>2, RankIsUnique
  <2> QED
    BY <1>5, <2>3
<1> QED
  BY <1>4, <1>5, <1>6, SentinelAssumption

(* What an action of a plan meets in the folder that was scanned, and what  *)
(* the remote has in its place.                                             *)
Fits(a, base, local, remote) ==
    /\ a \in Action
    /\ a.op # "rename" => a.to = a.path
    /\ a.op = "upsert" => /\ local[a.path] = base[a.path]
                          /\ a.content = remote[a.path] /\ a.content \in Content
    /\ a.op = "delete" => local[a.path] = base[a.path] /\ remote[a.path] \notin Content
    /\ a.op = "copy" => /\ local[a.path] # base[a.path] /\ local[a.path] # remote[a.path]
                        /\ remote[a.path] # base[a.path]
                        /\ a.content = remote[a.path] /\ a.content \in Content
    /\ a.op = "rename" => /\ local[a.path] = base[a.path] /\ base[a.path] \in Content
                          /\ remote[a.path] \notin Content
                          /\ base[a.to] = None /\ local[a.to] = None
                          /\ remote[a.to] = base[a.path] /\ a.content = base[a.path]

LEMMA MergePlanFits ==
    ASSUME NEW base \in Manifest, NEW local \in Folder, NEW remote \in Manifest,
           NEW a \in MergePlan(base, local, remote)
    PROVE  Fits(a, base, local, remote)
<1>1. CASE \E r \in RemoteRenames(base, local, remote) :
              a = [op |-> "rename", path |-> r[1], to |-> r[2], content |-> remote[r[2]]]
  <2>1. PICK r \in RemoteRenames(base, local, remote) :
              a = [op |-> "rename", path |-> r[1], to |-> r[2], content |-> remote[r[2]]]
    BY <1>1
  <2>2. /\ base[r[1]] \in Content
        /\ local[r[1]] = base[r[1]]
        /\ remote[r[1]] \in {None, Tombstone}
        /\ base[r[2]] = None /\ local[r[2]] = None
        /\ remote[r[2]] = base[r[1]]
    BY RemoteRenamesSound
  <2> QED
    BY <2>1, <2>2, MergePlanSound, SentinelAssumption DEF Fits
<1>2. CASE \E p \in Path : a \in PathAction(base, local, remote, p)
  <2>1. PICK p \in Path : a \in PathAction(base, local, remote, p)
    BY <1>2
  <2>2. a \in Action /\ a.op \in {"copy", "upsert", "delete"}
    BY <2>1, PathActionSound DEF Action, Op
  <2>3. a.path = p /\ a.to = p /\ a.content = remote[p]
    BY <2>1 DEF PathAction
  <2>4. /\ local[p] # remote[p] /\ remote[p] # base[p]
        /\ a.op = "upsert" => local[p] = base[p] /\ remote[p] \in Content
        /\ a.op = "copy" => local[p] # base[p] /\ remote[p] \in Content
        /\ a.op = "delete" => local[p] = base[p] /\ remote[p] \notin Content
    BY <2>1 DEF PathAction
  <2> QED
    BY <2>2, <2>3, <2>4 DEF Fits
<1> QED
  BY <1>1, <1>2, MergePlanCases

(* No two actions of a plan share a path.                                   *)
Apart(acts) ==
    \A a, b \in acts : a # b => {a.path, a.to} \cap {b.path, b.to} = {}

LEMMA MergePlanApart ==
    ASSUME NEW base \in Manifest, NEW local \in Folder, NEW remote \in Manifest
    PROVE  Apart(MergePlan(base, local, remote))
<1> DEFINE renames == RemoteRenames(base, local, remote)
           moved == {r[1] : r \in renames} \cup {r[2] : r \in renames}
           Move(r) == [op |-> "rename", path |-> r[1], to |-> r[2], content |-> remote[r[2]]]
           moves == {Move(r) : r \in renames}
           others == UNION {PathAction(base, local, remote, p) : p \in Path \ moved}
<1>1. MergePlan(base, local, remote) = moves \cup others
  BY DEF MergePlan
<1>2. \A a \in moves : \E r \in renames : a = Move(r)
  OBVIOUS
<1>3. \A a \in others : \E p \in Path \ moved : a \in PathAction(base, local, remote, p)
  OBVIOUS
<1>4. \A p \in Path : \A a, b \in PathAction(base, local, remote, p) :
         a.path = p /\ a.to = p /\ a = b
  BY DEF PathAction
<1>5. \A r \in renames : Move(r).path = r[1] /\ Move(r).to = r[2] /\ r[1] \in moved /\ r[2] \in moved
  OBVIOUS
<1>6. \A r, s \in renames : /\ r[1] = s[1] \/ r[2] = s[2] => r = s
                            /\ r[1] # s[2]
  BY RenamesAreOneToOne
<1> HIDE DEF moves, others, Move, moved, renames
<1>7. \A a, b \in moves : a # b => {a.path, a.to} \cap {b.path, b.to} = {}
  BY <1>2, <1>5, <1>6
<1>8. \A a \in moves, b \in others : {a.path, a.to} \cap {b.path, b.to} = {}
  BY <1>2, <1>3, <1>4, <1>5
<1>9. \A a, b \in others : a # b => {a.path, a.to} \cap {b.path, b.to} = {}
  BY <1>3, <1>4
<1> QED
  BY <1>1, <1>7, <1>8, <1>9 DEF Apart

(* A path where the remote has something new for a folder without changes   *)
(* of its own is one an action changes; for a folder with changes it gets a *)
(* copy.                                                                    *)
LEMMA MergePlanReaches ==
    ASSUME NEW base \in Manifest, NEW local \in Folder, NEW remote \in Manifest,
           NEW p \in Path, local[p] # remote[p], remote[p] # base[p]
    PROVE  /\ local[p] = base[p] => \E a \in MergePlan(base, local, remote) :
                 p \in {a.path, a.to} /\ a.op # "copy"
           /\ local[p] # base[p] /\ remote[p] \in Content =>
                 \E a \in MergePlan(base, local, remote) : a.path = p /\ a.op = "copy"
<1> DEFINE renames == RemoteRenames(base, local, remote)
           moved == {r[1] : r \in renames} \cup {r[2] : r \in renames}
           Act(op) == [op |-> op, path |-> p, to |-> p, content |-> remote[p]]
<1>1. CASE p \in moved
  <2>1. PICK r \in renames : p \in {r[1], r[2]}
    BY <1>1
  <2>2. local[r[1]] = base[r[1]] /\ local[r[2]] = base[r[2]]
    BY RemoteRenamesSound
  <2>3. [op |-> "rename", path |-> r[1], to |-> r[2], content |-> remote[r[2]]]
          \in MergePlan(base, local, remote)
    BY DEF MergePlan
  <2> QED
    BY <2>1, <2>2, <2>3
<1>2. CASE p \notin moved
  <2>1. PathAction(base, local, remote, p) \subseteq MergePlan(base, local, remote)
    BY <1>2 DEF MergePlan
  <2>2. /\ local[p] = base[p] /\ remote[p] \in Content => Act("upsert") \in PathAction(base, local, remote, p)
        /\ local[p] = base[p] /\ remote[p] \notin Content => Act("delete") \in PathAction(base, local, remote, p)
        /\ local[p] # base[p] /\ remote[p] \in Content => Act("copy") \in PathAction(base, local, remote, p)
    BY DEF PathAction
  <2> QED
    BY <2>1, <2>2
<1> QED
  BY <1>1, <1>2
=============================================================================
