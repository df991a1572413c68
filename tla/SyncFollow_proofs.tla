-------------------------- MODULE SyncFollow_proofs --------------------------
(* A read-only follower removes only what its publisher removed, for any     *)
(* paths, contents, folders and bounds.                                      *)
EXTENDS SyncFollow, SyncManifestTheorems

\* Only a deletion by the publisher puts a tombstone into the document.
TombstonesArePublished ==
    \A p \in Path : Tombstone \in {remote[p], replica[p]} => p \in unpublished

\* The document keeps an entry for every path it ever had one for, and what was
\* recorded or read of it lags behind.
EntriesStay ==
    \A p \in Path :
        /\ replica[p] # None => remote[p] # None
        /\ incoming[p] # None => replica[p] # None
        /\ saved # NoState /\ saved[p] # None => replica[p] # None

\* Plans exist during a pass, and what they remove was unpublished.
PlanIsSound ==
    /\ pc # "apply" => plan = {}
    /\ \A a \in plan :
          /\ a \in Action
          /\ a.op # "delete" => a.content \in Content
          /\ a.op \in {"delete", "rename"} => a.path \in unpublished \/ saved = NoState

IInv ==
    /\ TypeOK
    /\ saved # NoState => base = saved
    /\ TombstonesArePublished /\ EntriesStay /\ PlanIsSound

(* The invariant holds at first start.                                      *)
LEMMA InitIInv == Init => IInv
BY EmptyManifestType, FollowAssumption, FollowBounds, SentinelAssumption
   DEF Init, IInv, TypeOK, TombstonesArePublished, EntriesStay, PlanIsSound, EmptyManifest

(* A pass over a plan made from the base, the folder and the replica.       *)
LEMMA PlanMade ==
    ASSUME IInv, NEW a,
           a \in MergePlan(base, files, replica) \cup SeedPlan(replica)
    PROVE  /\ a \in Action
           /\ a.op # "delete" => a.content \in Content
           /\ a.op \in {"delete", "rename"} => a.path \in unpublished \/ saved = NoState
<1> USE DEF IInv, TypeOK
<1>1. CASE a \in SeedPlan(replica)
  BY <1>1, SeedPlanSound
<1>2. CASE a \in MergePlan(base, files, replica)
  <2>1. /\ a \in Action
        /\ a.op # "delete" => a.content \in Content
        /\ a.op \in {"delete", "rename"} =>
              \/ replica[a.path] = Tombstone
              \/ replica[a.path] = None /\ base[a.path] # None
    BY <1>2, MergePlanSound
  <2>2. a.path \in Path
    BY <2>1 DEF Action
  <2> QED
    BY <2>1, <2>2 DEF TombstonesArePublished, EntriesStay
<1> QED
  BY <1>1, <1>2

(* Every step preserves it.                                                 *)
LEMMA NextIInv == IInv /\ [Next]_vars => IInv'
<1> SUFFICES ASSUME IInv, [Next]_vars
             PROVE  IInv'
  OBVIOUS
<1> USE SentinelAssumption, NoStateAssumption, FollowBounds
<1> USE DEF IInv
<1>1. ASSUME NEW p \in Path, NEW c \in Content \cup {Tombstone}, PublishEntry(p, c)
      PROVE  IInv'
  <2> USE <1>1 DEF PublishEntry, folder, loop, kept
  <2>1. TypeOK' /\ (saved # NoState => base = saved)'
    BY DEF TypeOK, Manifest, State
  <2>2. TombstonesArePublished' /\ EntriesStay' /\ PlanIsSound'
    BY DEF TypeOK, Manifest, TombstonesArePublished, EntriesStay, PlanIsSound
  <2> QED
    BY <2>1, <2>2
<1>2. ASSUME NEW p \in Path, Replicate(p)
      PROVE  IInv'
  <2> USE <1>2 DEF Replicate, folder, loop, kept, history, bounds
  <2>1. TypeOK' /\ (saved # NoState => base = saved)'
    BY DEF TypeOK, Manifest
  <2>2. TombstonesArePublished' /\ EntriesStay' /\ PlanIsSound'
    BY DEF TypeOK, Manifest, TombstonesArePublished, EntriesStay, PlanIsSound
  <2> QED
    BY <2>1, <2>2
<1>3. ASSUME NEW p \in Path, NEW c \in Content \cup {None}, UserChange(p, c)
      PROVE  IInv'
  <2> USE <1>3 DEF UserChange, doc, loop, kept
  <2>1. TypeOK' /\ (saved # NoState => base = saved)'
    BY DEF TypeOK, Folder
  <2>2. TombstonesArePublished' /\ EntriesStay' /\ PlanIsSound'
    BY DEF TombstonesArePublished, EntriesStay, PlanIsSound
  <2> QED
    BY <2>1, <2>2
<1>4. ASSUME Open PROVE IInv'
  <2> USE <1>4 DEF Open, FirstBase, doc, folder, history, bounds
  <2>1. TypeOK' /\ (saved # NoState => base = saved)'
    BY FolderIsManifest DEF TypeOK
  <2>2. TombstonesArePublished' /\ EntriesStay' /\ PlanIsSound'
    BY DEF TombstonesArePublished, EntriesStay, PlanIsSound
  <2> QED
    BY <2>1, <2>2
<1>5. ASSUME Scan \/ Begin \/ ReadAndMerge
      PROVE  IInv'
  <2>0. /\ UNCHANGED <<remote, replica, files, copies, base, saved, unpublished, edited, ahead,
                       published, edits, faults>>
        /\ touched' \in {touched, {}}
        /\ \/ /\ pc \in {"opening", "waiting"} /\ pc' \in {"seeding", "waiting", "idle"}
              /\ UNCHANGED <<plan, incoming>>
           \/ /\ pc' = "apply" /\ incoming' = replica
              /\ plan' \subseteq MergePlan(base, files, replica) \cup SeedPlan(replica)
    BY <1>5 DEF Scan, Begin, ReadAndMerge, Merge, Pass, doc, folder, kept, history, bounds
  <2>1. CASE /\ pc \in {"opening", "waiting"} /\ pc' \in {"seeding", "waiting", "idle"}
             /\ UNCHANGED <<plan, incoming>>
    BY <2>0, <2>1 DEF TypeOK, TombstonesArePublished, EntriesStay, PlanIsSound
  <2>2. CASE /\ pc' = "apply" /\ incoming' = replica
             /\ plan' \subseteq MergePlan(base, files, replica) \cup SeedPlan(replica)
    <3>1. PlanIsSound' /\ plan' \subseteq Action
      BY <2>0, <2>2, PlanMade DEF PlanIsSound
    <3>2. TypeOK' /\ (saved # NoState => base = saved)'
      BY <2>0, <2>2, <3>1 DEF TypeOK
    <3>3. TombstonesArePublished' /\ EntriesStay'
      BY <2>0, <2>2 DEF TombstonesArePublished, EntriesStay
    <3> QED
      BY <3>1, <3>2, <3>3
  <2> QED
    BY <2>0, <2>1, <2>2
<1>6. ASSUME EventWithoutPlan PROVE IInv'
  BY <1>6 DEF EventWithoutPlan, TypeOK, TombstonesArePublished, EntriesStay, PlanIsSound,
              doc, folder, loop, history, bounds
<1>7. ASSUME ApplyStep PROVE IInv'
  <2>1. PICK a \in plan :
          /\ files' = ApplyToFolder(files, a)
          /\ copies' = IF a.op = "copy" THEN copies \cup {<<a.path, a.content>>} ELSE copies
          /\ plan' = plan \ {a}
          /\ edited' = IF a.op = "rename" /\ a.path \in touched
                       THEN edited \cup {a.to} ELSE edited
    BY <1>7 DEF ApplyStep
  <2>2. a \in Action /\ (a.op # "delete" => a.content \in Content)
    BY DEF PlanIsSound
  <2>3. UNCHANGED <<doc, pc, incoming, kept, unpublished, touched, ahead, bounds>> /\ pc = "apply"
    BY <1>7 DEF ApplyStep
  <2>4. files' \in Folder
    BY <2>1, <2>2, ApplyToFolderType DEF TypeOK
  <2>5. copies' \subseteq Path \X Content /\ edited' \subseteq Path /\ touched \subseteq edited'
    BY <2>1, <2>2 DEF TypeOK, Action
  <2>6. TypeOK' /\ (saved # NoState => base = saved)'
    BY <2>1, <2>3, <2>4, <2>5 DEF TypeOK, doc, kept, bounds
  <2>7. TombstonesArePublished' /\ EntriesStay' /\ PlanIsSound'
    BY <2>1, <2>3 DEF TombstonesArePublished, EntriesStay, PlanIsSound, doc, kept
  <2> QED
    BY <2>6, <2>7
<1>8. ASSUME Record PROVE IInv'
  <2> USE <1>8 DEF Record, doc, folder, history, bounds
  <2>1. TypeOK' /\ (saved # NoState => base = saved)'
    BY EmptyManifestType DEF TypeOK
  <2>2. TombstonesArePublished' /\ EntriesStay' /\ PlanIsSound'
    BY DEF TombstonesArePublished, EntriesStay, PlanIsSound, EmptyManifest
  <2> QED
    BY <2>1, <2>2
<1>9. ASSUME Crash \/ Abort PROVE IInv'
  <2>1. /\ pc' = "down" /\ plan' = {} /\ incoming' = EmptyManifest
        /\ UNCHANGED <<doc, folder, kept, unpublished, edited, touched, published, edits>>
        /\ ahead' \subseteq Path /\ faults' \in 0..MaxFaults
    BY <1>9 DEF Crash, Abort, End, TypeOK
  <2>2. TypeOK' /\ (saved # NoState => base = saved)'
    BY <2>1, EmptyManifestType DEF TypeOK, doc, folder, kept
  <2>3. TombstonesArePublished' /\ EntriesStay' /\ PlanIsSound'
    BY <2>1 DEF TombstonesArePublished, EntriesStay, PlanIsSound, EmptyManifest, doc, kept
  <2> QED
    BY <2>2, <2>3
<1>10. CASE UNCHANGED vars
  BY <1>10 DEF vars, doc, folder, loop, kept, history, bounds, TypeOK,
               TombstonesArePublished, EntriesStay, PlanIsSound
<1> QED
  BY <1>1, <1>2, <1>3, <1>4, <1>5, <1>6, <1>7, <1>8, <1>9, <1>10 DEF Next, Follower

(* The follower's variables keep their types and its plans are sound, for   *)
(* any paths, contents and bounds.                                          *)
THEOREM InductiveInvariant == Spec => []IInv
BY InitIInv, NextIInv, PTL DEF Spec

\* The variables of SyncFollow keep their types.
THEOREM TypeCorrect == Spec => []TypeOK
<1>1. IInv => TypeOK
  BY DEF IInv
<1> QED
  BY InductiveInvariant, <1>1, PTL

(* A step of a pass that removes a file.                                    *)
LEMMA StepRemoves ==
    ASSUME IInv, [Next]_vars, NEW p \in Path,
           plan' # plan, files[p] # None, files'[p] = None
    PROVE  p \in unpublished \/ saved = NoState
<1>1. files' # files
  OBVIOUS
<1>2. ApplyStep
  BY <1>1 DEF Next, Follower, PublishEntry, Replicate, UserChange, Open, Scan, Begin, ReadAndMerge,
     EventWithoutPlan, Record, Crash, Abort, End, vars, doc, folder, loop, kept, history, bounds
<1>3. PICK a \in plan : files' = ApplyToFolder(files, a)
  BY <1>2 DEF ApplyStep
<1>4. /\ a \in Action
      /\ a.op # "delete" => a.content \in Content
      /\ a.op \in {"delete", "rename"} => a.path \in unpublished \/ saved = NoState
  BY DEF IInv, PlanIsSound
<1>5. a.op \in {"delete", "rename"} /\ a.path = p
  BY <1>3, <1>4, ApplyToFolderEffect DEF IInv, TypeOK
<1> QED
  BY <1>4, <1>5

(* A pass removes a file only if the publisher removed it, however the      *)
(* document arrives and wherever passes are cut short.                      *)
THEOREM RemovalsHold == Spec => RemovalsArePublished
<1>1. IInv /\ [Next]_vars =>
        [\A p \in Path :
            (plan' # plan /\ files[p] # None /\ files'[p] = None)
            => p \in unpublished \/ saved = NoState]_vars
  BY StepRemoves
<1> QED
  BY InductiveInvariant, <1>1, PTL DEF Spec, RemovalsArePublished
=============================================================================
