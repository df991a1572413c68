------------------------- MODULE SyncSession_proofs -------------------------
(* Theorems about SyncSession, for any paths, contents, folders and bounds,  *)
(* and about OneWriter, which restricts who writes.                          *)
EXTENDS OneWriter, SyncManifestTheorems

USE DEF Node

LEMMA PeerIsANode ==
    ASSUME NEW n \in Node
    PROVE  Peer(n) \in Node /\ Peer(n) # n /\ Peer(Peer(n)) = n
           /\ \A q \in Node : q = n \/ q = Peer(n)
BY NodeAssumption DEF Peer

LEMMA BaseOnDiskType ==
    ASSUME TypeOK, NEW n \in Node
    PROVE  BaseOnDisk(n) \in Manifest
BY EmptyManifestType DEF TypeOK, BaseOnDisk

(* A replica after a write: the new entries, and every key it had.          *)
LEMMA WriteEntriesEffect ==
    ASSUME TypeOK, EntriesTravel,
           NEW n \in Node, NEW m \in Manifest, NEW ps \in SUBSET Path,
           WriteEntries(n, m, ps)
    PROVE  /\ doc' \in [Node -> Manifest]
           /\ holders' \in [Path -> SUBSET Node]
           /\ EntriesTravel'
           /\ \A q \in Node, p \in Path :
                 /\ doc'[q][p] \in {doc[q][p], m[p]}
                 /\ doc[q][p] # None => doc'[q][p] # None
                 /\ q = n /\ p \in ps /\ m[p] # None => doc'[q][p] = m[p]
<1> DEFINE new == [p \in Path |-> IF p \in ps \cap Entries(m) THEN m[p] ELSE doc[n][p]]
<1>1. doc \in [Node -> Manifest] /\ holders \in [Path -> SUBSET Node]
  BY DEF TypeOK
<1>2. \A p \in Path : doc[n][p] \in State /\ m[p] \in State
  BY <1>1 DEF Manifest
<1>3. new \in Manifest
  BY <1>2 DEF Manifest
<1>4. doc' = [doc EXCEPT ![n] = new]
  BY DEF WriteEntries
<1>5. holders' = [p \in Path |-> IF p \in ps \cap Entries(m) THEN {n} ELSE holders[p]]
  BY DEF WriteEntries
<1>6. doc' \in [Node -> Manifest] /\ holders' \in [Path -> SUBSET Node]
  BY <1>1, <1>3, <1>4, <1>5
<1>7. \A q \in Node, p \in Path :
         doc'[q][p] = IF q = n /\ p \in ps \cap Entries(m) THEN m[p] ELSE doc[q][p]
  BY <1>1, <1>4
<1>8. \A p \in Path : p \in Entries(m) <=> m[p] # None
  BY DEF Entries
<1>9. ASSUME NEW q \in Node, NEW p \in Path, q \notin holders'[p]
      PROVE  doc'[Peer(q)][p] # None
  <2>1. CASE p \in ps \cap Entries(m)
    <3>1. q # n
      BY <1>5, <1>9, <2>1
    <3>2. Peer(q) = n
      BY <3>1, PeerIsANode
    <3> QED
      BY <1>7, <1>8, <2>1, <3>2
  <2>2. CASE p \notin ps \cap Entries(m)
    <3>1. doc[Peer(q)][p] # None
      BY <1>5, <1>9, <2>2 DEF EntriesTravel
    <3> QED
      BY <1>7, <2>2, <3>1, PeerIsANode
  <2> QED
    BY <2>1, <2>2
<1>10. EntriesTravel'
  BY <1>9 DEF EntriesTravel
<1> QED
  BY <1>6, <1>7, <1>8, <1>10

(* What a host or joiner publishes is a manifest, and a tombstone in it is  *)
(* a file of the base that is missing from the folder.                      *)
LEMMA PublishedManifest ==
    ASSUME Inductive, NEW n \in Node, NEW known \in Manifest,
           known = files[n] \/ known = BaseOnDisk(n)
    PROVE  LET m == WithTombstones(known, files[n])
           IN  /\ m \in Manifest
               /\ \A p \in Path : /\ files[n][p] # None => m[p] = files[n][p]
                                  /\ files[n][p] = None => m[p] \notin Content
                                  /\ known[p] # None => m[p] # None
                                  /\ m[p] = Tombstone => p \in deleted
<1>1. files[n] \in Folder /\ files[n] \in Manifest
  BY FolderIsManifest DEF Inductive, TypeOK
<1>2. \A p \in Path : files[n][p] \in Content \cup {None} /\ known[p] \in State
  BY <1>1 DEF Folder, Manifest
<1> DEFINE m == WithTombstones(known, files[n])
<1>3. m \in Manifest
  BY <1>1, WithTombstonesType
<1>4. \A p \in Path : m[p] = IF files[n][p] # None THEN files[n][p]
                             ELSE IF known[p] = None THEN None ELSE Tombstone
  BY DEF WithTombstones
<1>5. ASSUME NEW p \in Path, m[p] = Tombstone
      PROVE  p \in deleted
  <2>1. files[n][p] = None /\ known[p] # None
    BY <1>2, <1>4, <1>5, SentinelAssumption
  <2>2. known = BaseOnDisk(n)
    BY <2>1
  <2>3. known[p] = Tombstone \/ known[p] \in Content
    BY <1>2, <2>1 DEF State
  <2> QED
    BY <2>1, <2>2, <2>3 DEF Inductive, TombstonesEverywhere, MissingIsDeleted
<1> QED
  BY <1>2, <1>3, <1>4, <1>5, SentinelAssumption

---------------------------------------------------------------------------
LEMMA InitInductive == Init => Inductive
<1> SUFFICES ASSUME Init PROVE Inductive
  OBVIOUS
<1>1. files \in [Node -> Folder]
  BY FoldersAssumption DEF Init
<1>2. \A n \in Node, p \in Path : files[n][p] \in Content \cup {None}
  BY <1>1 DEF Folder
<1>3. live \subseteq Content
  BY <1>2 DEF Init
<1>4. EmptyManifest \in Manifest /\ \A p \in Path : EmptyManifest[p] = None
  BY EmptyManifestType DEF EmptyManifest
<1>5. TypeOK
  <2>1. /\ doc \in [Node -> Manifest] /\ base \in [Node -> Manifest]
        /\ incoming \in [Node -> Manifest]
        /\ saved \in [Node -> Manifest \cup {NoState}] /\ last \in Manifest \cup {NoState}
    BY <1>4 DEF Init
  <2>2. /\ copies \in [Node -> SUBSET (Path \X Content)]
        /\ plan \in [Node -> SUBSET Action] /\ touched \in [Node -> SUBSET Path]
        /\ holders \in [Path -> SUBSET Node] /\ deleted \subseteq Path
    BY DEF Init
  <2>3. pc \in [Node -> Stage] /\ shared \in BOOLEAN
    BY DEF Init, Stage
  <2>4. edits \in 0..MaxEdits /\ faults \in 0..MaxFaults
    BY BoundAssumption DEF Init
  <2> QED
    BY <1>1, <1>3, <2>1, <2>2, <2>3, <2>4 DEF TypeOK
<1>6. \A n \in Node : /\ BaseOnDisk(n) = EmptyManifest /\ incoming[n] = EmptyManifest
                      /\ doc[n] = EmptyManifest /\ base[n] = EmptyManifest
                      /\ plan[n] = {} /\ pc[n] = "down"
  BY DEF Init, BaseOnDisk
<1>7. RestartBase
  BY <1>6 DEF RestartBase
<1>8. EntriesTravel
  BY DEF EntriesTravel, Init
<1>9. KeysStay
  BY <1>4, <1>6 DEF KeysStay
<1>10. TombstonesEverywhere
  BY <1>4, <1>6, SentinelAssumption DEF TombstonesEverywhere
<1>11. MissingIsDeleted
  BY <1>4, <1>6, SentinelAssumption DEF MissingIsDeleted
<1>12. PlanSound
  BY <1>6 DEF PlanSound
<1> QED
  BY <1>5, <1>7, <1>8, <1>9, <1>10, <1>11, <1>12 DEF Inductive

(* A user adds files, changes them, or deletes them and is on record.       *)
LEMMA UsersInductive == Inductive /\ Users => Inductive'
<1> SUFFICES ASSUME Inductive, NEW n \in Node, NEW p \in Path,
                    \/ \E c \in Content : UserWrite(n, p, c)
                    \/ UserDelete(n, p)
                    \/ \E q \in Path : UserRename(n, p, q)
             PROVE  Inductive'
  BY DEF Users
<1>1. TypeOK /\ \A m \in Node, r \in Path : files[m] \in Folder /\ files[m][r] \in Content \cup {None}
  BY DEF Inductive, TypeOK, Folder
<1>2. UNCHANGED <<copies, sync, faults>> /\ edits < MaxEdits /\ edits' = edits + 1
  BY DEF UserWrite, UserDelete, UserRename, Edit
<1>3. touched' \in [Node -> SUBSET Path]
  BY <1>1 DEF UserWrite, UserDelete, UserRename, Edit, TypeOK
<1>4. /\ files' \in [Node -> Folder]
      /\ deleted \subseteq deleted' /\ deleted' \subseteq Path
      /\ live' \subseteq Content
      /\ \A m \in Node, r \in Path :
            files'[m][r] = None => files[m][r] = None \/ r \in deleted'
  <2>1. ASSUME NEW c \in Content, UserWrite(n, p, c)
        PROVE  <1>4
    <3>1. files' = [files EXCEPT ![n] = [files[n] EXCEPT ![p] = c]]
      BY <2>1 DEF UserWrite
    <3>2. [files[n] EXCEPT ![p] = c] \in Folder
      BY <1>1 DEF Folder
    <3> QED
      BY <1>1, <2>1, <3>1, <3>2, SentinelAssumption DEF UserWrite, TypeOK, Folder
  <2>2. ASSUME UserDelete(n, p)
        PROVE  <1>4
    <3>1. files' = [files EXCEPT ![n] = [files[n] EXCEPT ![p] = None]]
      BY <2>2 DEF UserDelete
    <3>2. [files[n] EXCEPT ![p] = None] \in Folder
      BY <1>1 DEF Folder
    <3> QED
      BY <1>1, <2>2, <3>1, <3>2 DEF UserDelete, TypeOK, Folder
  <2>3. ASSUME NEW q \in Path, UserRename(n, p, q)
        PROVE  <1>4
    <3> DEFINE f == [[files[n] EXCEPT ![p] = None] EXCEPT ![q] = files[n][p]]
    <3>1. files' = [files EXCEPT ![n] = f] /\ files[n][p] # None
      BY <1>1, <2>3 DEF UserRename, TypeOK
    <3>2. f \in Folder
      BY <1>1 DEF Folder
    <3>3. \A r \in Path : f[r] = IF r = q THEN files[n][p] ELSE IF r = p THEN None ELSE files[n][r]
      BY <1>1 DEF Folder
    <3>4. files \in [Node -> Folder] /\ files' \in [Node -> Folder]
      BY <3>1, <3>2 DEF Inductive, TypeOK
    <3>5. deleted' = deleted \cup {p} /\ live' = live
      BY <2>3 DEF UserRename
    <3>6. ASSUME NEW m \in Node, NEW r \in Path, files'[m][r] = None
          PROVE  files[m][r] = None \/ r \in deleted'
      BY <3>1, <3>3, <3>4, <3>5, <3>6
    <3> QED
      BY <3>4, <3>5, <3>6 DEF Inductive, TypeOK
  <2> QED
    BY <2>1, <2>2, <2>3
<1>5. TypeOK'
  BY <1>1, <1>2, <1>3, <1>4, BoundAssumption DEF TypeOK, sync
<1>6. \A m \in Node : BaseOnDisk(m)' = BaseOnDisk(m)
  BY <1>2 DEF BaseOnDisk, sync
<1>7. RestartBase' /\ EntriesTravel' /\ KeysStay'
  BY <1>2, <1>6 DEF Inductive, RestartBase, EntriesTravel, KeysStay, sync
<1>8. TombstonesEverywhere'
  BY <1>2, <1>4, <1>6 DEF Inductive, TombstonesEverywhere, sync
<1>9. MissingIsDeleted'
  BY <1>2, <1>4, <1>6 DEF Inductive, MissingIsDeleted, sync
<1>10. PlanSound'
  BY <1>2, <1>4 DEF Inductive, PlanSound, sync, Applying
<1> QED
  BY <1>5, <1>7, <1>8, <1>9, <1>10 DEF Inductive

(* What the actions that write the document have in common: every written   *)
(* tombstone is a deletion, and every entry of the manifest is written when *)
(* it is to be recorded.                                                    *)
LEMMA WritingInductive ==
    ASSUME Inductive, NEW n \in Node, NEW m \in Manifest, NEW ps \in SUBSET Path,
           WriteEntries(n, m, ps),
           \A p \in Path : m[p] = Tombstone => p \in deleted
    PROVE  /\ doc' \in [Node -> Manifest]
           /\ holders' \in [Path -> SUBSET Node]
           /\ EntriesTravel'
           /\ \A q \in Node, p \in Path : /\ doc[q][p] # None => doc'[q][p] # None
                                          /\ doc'[q][p] = Tombstone => p \in deleted
<1>1. /\ doc' \in [Node -> Manifest]
      /\ holders' \in [Path -> SUBSET Node]
      /\ EntriesTravel'
      /\ \A q \in Node, p \in Path : /\ doc'[q][p] \in {doc[q][p], m[p]}
                                     /\ doc[q][p] # None => doc'[q][p] # None
  BY WriteEntriesEffect DEF Inductive
<1>2. \A q \in Node, p \in Path : doc'[q][p] = Tombstone => p \in deleted
  BY <1>1 DEF Inductive, TombstonesEverywhere
<1> QED
  BY <1>1, <1>2

LEMMA HostExportInductive == Inductive /\ HostExport => Inductive'
<1> SUFFICES ASSUME Inductive, HostExport PROVE Inductive'
  OBVIOUS
<1> DEFINE known == IF saved[Host] = NoState THEN files[Host] ELSE saved[Host]
           m == WithTombstones(known, files[Host])
<1>1. TypeOK /\ files[Host] \in Folder /\ files[Host] \in Manifest
  BY FolderIsManifest DEF Inductive, TypeOK
<1>2. known \in Manifest /\ (known = files[Host] \/ known = BaseOnDisk(Host))
  BY <1>1 DEF TypeOK, BaseOnDisk
<1>3. /\ m \in Manifest
      /\ \A p \in Path : /\ files[Host][p] # None => m[p] = files[Host][p]
                         /\ m[p] = Tombstone => p \in deleted
  BY <1>2, PublishedManifest
<1>4. PICK ps \in SUBSET Path :
         /\ WriteEntries(Host, m, ps)
         /\ \/ /\ ps = Path
               /\ shared' = TRUE /\ pc' = [pc EXCEPT ![Host] = "record"]
               /\ incoming' = [incoming EXCEPT ![Host] = files[Host]]
               /\ UNCHANGED faults
            \/ Fault /\ UNCHANGED <<shared, pc, incoming>>
  <2>1. Prefixes \subseteq SUBSET Path
    BY DEF Prefixes
  <2> QED
    BY <2>1 DEF HostExport
<1>5. /\ doc' \in [Node -> Manifest] /\ holders' \in [Path -> SUBSET Node] /\ EntriesTravel'
      /\ \A q \in Node, p \in Path : /\ doc[q][p] # None => doc'[q][p] # None
                                     /\ doc'[q][p] = Tombstone => p \in deleted
  BY <1>3, <1>4, WritingInductive
<1>6. /\ UNCHANGED <<files, copies, saved, last, plan, history, edits>>
      /\ base' = [base EXCEPT ![Host] = BaseOnDisk(Host)]
      /\ pc[Host] = "down"
  BY DEF HostExport
<1>7. BaseOnDisk(Host) \in Manifest /\ \A q \in Node : BaseOnDisk(q)' = BaseOnDisk(q)
  BY <1>1, <1>6, BaseOnDiskType DEF BaseOnDisk
<1>8. /\ base' \in [Node -> Manifest] /\ incoming' \in [Node -> Manifest]
      /\ pc' \in [Node -> Stage] /\ shared' \in BOOLEAN
      /\ faults' \in 0..MaxFaults
  <2>1. base' \in [Node -> Manifest]
    BY <1>1, <1>6, <1>7 DEF TypeOK
  <2>2. /\ incoming' \in [Node -> Manifest] /\ pc' \in [Node -> Stage] /\ shared' \in BOOLEAN
    <3>1. incoming' \in [Node -> Manifest]
      BY <1>1, <1>4 DEF TypeOK
    <3>2. pc' \in [Node -> Stage]
      BY <1>1, <1>4 DEF TypeOK, Stage
    <3>3. shared' \in BOOLEAN
      BY <1>1, <1>4 DEF TypeOK
    <3> QED
      BY <3>1, <3>2, <3>3
  <2>3. faults' \in 0..MaxFaults
    BY <1>1, <1>4, BoundAssumption DEF TypeOK, Fault
  <2> QED
    BY <2>1, <2>2, <2>3
<1>9. TypeOK'
  BY <1>1, <1>5, <1>6, <1>8 DEF TypeOK, history
<1>10. /\ \A q \in Node : q # Host => /\ base'[q] = base[q] /\ pc'[q] = pc[q]
                                     /\ incoming'[q] = incoming[q]
       /\ base'[Host] = BaseOnDisk(Host)
       /\ incoming'[Host] \in {incoming[Host], files[Host]}
       /\ pc'[Host] \in {"down", "record"}
  BY <1>1, <1>4, <1>6 DEF TypeOK
<1>11. RestartBase'
  BY <1>7, <1>10 DEF Inductive, RestartBase
<1>12. KeysStay'
  <2>1. ASSUME NEW p \in Path, incoming'[Host] # incoming[Host], files[Host][p] # None
        PROVE  doc'[Host][p] # None
    <3>1. ps = Path
      BY <1>4, <2>1
    <3>2. m[p] # None
      BY <1>3, <2>1
    <3>3. doc'[Host][p] = m[p]
      BY <1>1, <1>3, <1>4, <3>1, <3>2, WriteEntriesEffect DEF Inductive
    <3> QED
      BY <3>2, <3>3
  <2> QED
    BY <1>5, <1>7, <1>10, <2>1 DEF Inductive, KeysStay
<1>13. TombstonesEverywhere'
  <2>1. \A p \in Path : files[Host][p] # Tombstone
    BY <1>1, SentinelAssumption DEF Folder
  <2> QED
    BY <1>5, <1>6, <1>7, <1>10, <2>1 DEF Inductive, TombstonesEverywhere, history
<1>14. MissingIsDeleted'
  BY <1>6, <1>7, <1>10, SentinelAssumption DEF Inductive, MissingIsDeleted, history
<1>15. PlanSound'
  BY <1>6, <1>10 DEF Inductive, PlanSound, Applying, history
<1> QED
  BY <1>5, <1>9, <1>11, <1>12, <1>13, <1>14, <1>15 DEF Inductive

LEMMA PublishInductive ==
    ASSUME NEW n \in Node
    PROVE  Inductive /\ (Publish(n) \/ PublishFail(n)) => Inductive'
<1> SUFFICES ASSUME Inductive, Publish(n) \/ PublishFail(n) PROVE Inductive'
  OBVIOUS
<1> DEFINE m == WithTombstones(base[n], files[n])
<1>1. TypeOK /\ pc[n] = "publish"
  BY DEF Inductive, Publish, PublishFail
<1>2. base[n] = BaseOnDisk(n) /\ base[n] \in Manifest
  BY <1>1, BaseOnDiskType DEF Inductive, RestartBase
<1>3. /\ m \in Manifest
      /\ \A p \in Path : /\ files[n][p] = None => m[p] \notin Content
                         /\ m[p] = Tombstone => p \in deleted
  BY <1>2, PublishedManifest
<1>4. PICK ps \in SUBSET Path :
         /\ WriteEntries(n, m, ps)
         /\ ps = Path \/ UNCHANGED <<incoming, last>>
         /\ incoming' \in {incoming, [incoming EXCEPT ![n] = m]}
         /\ last' \in {last, m}
         /\ pc' \in {[pc EXCEPT ![n] = s] : s \in {"record", "idle"}}
         /\ UNCHANGED faults \/ Fault
  <2>1. Prefixes \subseteq SUBSET Path
    BY DEF Prefixes
  <2> QED
    BY <2>1 DEF Publish, PublishFail, bounds
<1>5. /\ doc' \in [Node -> Manifest] /\ holders' \in [Path -> SUBSET Node] /\ EntriesTravel'
      /\ \A q \in Node, p \in Path : /\ doc[q][p] # None => doc'[q][p] # None
                                     /\ doc'[q][p] = Tombstone => p \in deleted
  BY <1>3, <1>4, WritingInductive
<1>6. UNCHANGED <<files, copies, shared, base, saved, plan, history, edits>>
  BY DEF Publish, PublishFail, bounds
<1>7. \A q \in Node : BaseOnDisk(q)' = BaseOnDisk(q)
  BY <1>6 DEF BaseOnDisk
<1>8. /\ incoming' \in [Node -> Manifest] /\ last' \in Manifest \cup {NoState}
      /\ pc' \in [Node -> Stage] /\ faults' \in 0..MaxFaults
  BY <1>1, <1>3, <1>4, BoundAssumption DEF TypeOK, Stage, Fault
<1>9. TypeOK'
  BY <1>1, <1>5, <1>6, <1>8 DEF TypeOK, history
<1>10. /\ \A q \in Node : q # n => pc'[q] = pc[q] /\ incoming'[q] = incoming[q]
       /\ incoming'[n] \in {incoming[n], m}
       /\ pc'[n] \in {"record", "idle"}
  BY <1>1, <1>4 DEF TypeOK
<1>11. RestartBase'
  BY <1>1, <1>6, <1>7, <1>10 DEF Inductive, RestartBase
<1>12. KeysStay'
  <2>1. ASSUME NEW p \in Path, incoming'[n] # incoming[n], m[p] # None
        PROVE  doc'[n][p] # None
    <3>1. ps = Path
      BY <1>4, <2>1
    <3>2. doc'[n][p] = m[p]
      BY <1>1, <1>3, <1>4, <2>1, <3>1, WriteEntriesEffect DEF Inductive
    <3> QED
      BY <2>1, <3>2
  <2> QED
    BY <1>5, <1>7, <1>10, <2>1 DEF Inductive, KeysStay
<1>13. TombstonesEverywhere'
  BY <1>3, <1>5, <1>6, <1>7, <1>10 DEF Inductive, TombstonesEverywhere, history
<1>14. MissingIsDeleted'
  BY <1>3, <1>6, <1>7, <1>10 DEF Inductive, MissingIsDeleted, history
<1>15. PlanSound'
  BY <1>1, <1>6, <1>10 DEF Inductive, PlanSound, Applying, history
<1> QED
  BY <1>5, <1>9, <1>11, <1>12, <1>13, <1>14, <1>15 DEF Inductive

LEMMA ReplicateInductive ==
    ASSUME NEW n \in Node, NEW p \in Path
    PROVE  Inductive /\ Replicate(n, p) => Inductive'
<1> SUFFICES ASSUME Inductive, Replicate(n, p) PROVE Inductive'
  OBVIOUS
<1>1. TypeOK /\ Peer(n) \in Node /\ doc[n] \in Manifest /\ doc[Peer(n)] \in Manifest
  BY PeerIsANode DEF Inductive, TypeOK
<1> DEFINE new == [doc[n] EXCEPT ![p] = doc[Peer(n)][p]]
<1>2. new \in Manifest
  BY <1>1 DEF Manifest
<1>3. /\ doc' = [doc EXCEPT ![n] = new] /\ holders' = [holders EXCEPT ![p] = Node]
      /\ n \notin holders[p]
      /\ UNCHANGED <<files, copies, shared, pc, base, saved, last, plan, incoming, history, bounds>>
  BY DEF Replicate
<1>4. /\ doc' \in [Node -> Manifest] /\ holders' \in [Path -> SUBSET Node]
      /\ \A q \in Node, r \in Path :
            doc'[q][r] = IF q = n /\ r = p THEN doc[Peer(n)][p] ELSE doc[q][r]
  BY <1>1, <1>2, <1>3 DEF TypeOK, Manifest
<1>5. doc[Peer(n)][p] # None
  BY <1>3 DEF Inductive, EntriesTravel
<1>6. TypeOK'
  BY <1>1, <1>3, <1>4 DEF TypeOK, history, bounds
<1>7. \A q \in Node : BaseOnDisk(q)' = BaseOnDisk(q)
  BY <1>3 DEF BaseOnDisk
<1>8. RestartBase'
  BY <1>3, <1>7 DEF Inductive, RestartBase
<1>9. EntriesTravel'
  <2> SUFFICES ASSUME NEW q \in Node, NEW r \in Path, q \notin holders'[r]
               PROVE  doc'[Peer(q)][r] # None
    BY DEF EntriesTravel
  <2>1. r # p /\ q \notin holders[r]
    BY <1>1, <1>3 DEF TypeOK
  <2> QED
    BY <1>4, <2>1, PeerIsANode DEF Inductive, EntriesTravel
<1>10. KeysStay'
  BY <1>3, <1>4, <1>5, <1>7 DEF Inductive, KeysStay
<1>11. TombstonesEverywhere'
  BY <1>1, <1>3, <1>4, <1>7 DEF Inductive, TombstonesEverywhere, history
<1>12. MissingIsDeleted' /\ PlanSound'
  BY <1>3, <1>7 DEF Inductive, MissingIsDeleted, PlanSound, Applying, history
<1> QED
  BY <1>6, <1>8, <1>9, <1>10, <1>11, <1>12 DEF Inductive

LEMMA JoinOpenInductive == Inductive /\ JoinOpen => Inductive'
<1> SUFFICES ASSUME Inductive, JoinOpen PROVE Inductive'
  OBVIOUS
<1>1. TypeOK /\ BaseOnDisk(Joiner) \in Manifest
  BY BaseOnDiskType DEF Inductive
<1>2. /\ \E s \in {"opening", "seeding"} : pc' = [pc EXCEPT ![Joiner] = s]
      /\ pc[Joiner] = "down"
      /\ base' = [base EXCEPT ![Joiner] = BaseOnDisk(Joiner)]
      /\ touched' = [touched EXCEPT ![Joiner] = {}]
      /\ UNCHANGED <<files, copies, doc, holders, shared, saved, last, plan, incoming, deleted, live, bounds>>
  BY DEF JoinOpen
<1>3. /\ pc' \in [Node -> Stage] /\ base' \in [Node -> Manifest]
      /\ touched' \in [Node -> SUBSET Path]
      /\ \A q \in Node : q # Joiner => pc'[q] = pc[q] /\ base'[q] = base[q]
      /\ pc'[Joiner] \in {"opening", "seeding"} /\ base'[Joiner] = BaseOnDisk(Joiner)
  BY <1>1, <1>2 DEF TypeOK, Stage
<1>4. TypeOK'
  BY <1>1, <1>2, <1>3 DEF TypeOK, bounds
<1>5. \A q \in Node : BaseOnDisk(q)' = BaseOnDisk(q)
  BY <1>2 DEF BaseOnDisk
<1>6. RestartBase' /\ EntriesTravel' /\ KeysStay'
  BY <1>2, <1>3, <1>5 DEF Inductive, RestartBase, EntriesTravel, KeysStay
<1>7. TombstonesEverywhere'
  BY <1>2, <1>3, <1>5 DEF Inductive, TombstonesEverywhere
<1>8. MissingIsDeleted' /\ PlanSound'
  BY <1>2, <1>3, <1>5 DEF Inductive, MissingIsDeleted, PlanSound, Applying
<1> QED
  BY <1>4, <1>6, <1>7, <1>8 DEF Inductive

(* A pass begins: what the plan removes is deleted, and what it leaves out  *)
(* of the manifest it read was deleted here.                                *)
LEMMA PlanningInductive ==
    ASSUME NEW n \in Node
    PROVE  Inductive /\ ((Reconcile(n) /\ doc[n] # base[n]) \/ (n = Joiner /\ JoinBegin))
              => Inductive'
<1> SUFFICES ASSUME Inductive,
                    (Reconcile(n) /\ doc[n] # base[n]) \/ (n = Joiner /\ JoinBegin)
             PROVE  Inductive'
  OBVIOUS
<1>0. /\ pc[n] # "down"
      /\ \/ plan' = [plan EXCEPT ![n] = MergePlan(BaseOnDisk(n), files[n], doc[n])]
         \/ plan' = [plan EXCEPT ![n] = SeedPlan(doc[n])]
      /\ incoming' = [incoming EXCEPT ![n] = doc[n]]
      /\ touched' = [touched EXCEPT ![n] = {}] \/ touched' = touched
      /\ pc' = [pc EXCEPT ![n] = "apply"] \/ pc' = [pc EXCEPT ![n] = "joining"]
      /\ UNCHANGED <<files, copies, doc, holders, shared, base, saved, last, deleted, live, bounds>>
  <2>1. CASE Reconcile(n) /\ doc[n] # base[n]
    <3>1. base[n] = BaseOnDisk(n)
      BY <2>1 DEF Inductive, RestartBase, Reconcile
    <3> QED
      BY <2>1, <3>1 DEF Reconcile
  <2>2. CASE n = Joiner /\ JoinBegin
    <3>1. base[n] = BaseOnDisk(n)
      BY <2>2 DEF Inductive, RestartBase, JoinBegin
    <3> QED
      BY <2>2, <3>1 DEF JoinBegin
  <2> QED
    BY <2>1, <2>2
<1>1. TypeOK /\ BaseOnDisk(n) \in Manifest /\ doc[n] \in Manifest /\ files[n] \in Folder
  BY BaseOnDiskType DEF Inductive, TypeOK
<1>2. ASSUME NEW a \in plan'[n]
      PROVE  /\ a \in Action
             /\ a.op # "delete" => a.content \in Content
             /\ a.op \in {"delete", "rename"} => a.path \in deleted
  <2>1. CASE a \in MergePlan(BaseOnDisk(n), files[n], doc[n])
    <3>1. /\ a \in Action
          /\ a.op # "delete" => a.content \in Content
          /\ a.op \in {"delete", "rename"} =>
                \/ doc[n][a.path] = Tombstone
                \/ doc[n][a.path] = None /\ BaseOnDisk(n)[a.path] # None
      BY <1>1, <2>1, MergePlanSound
    <3>2. a.path \in Path
      BY <3>1 DEF Action
    <3> QED
      BY <3>1, <3>2 DEF Inductive, TombstonesEverywhere, KeysStay
  <2>2. CASE a \in SeedPlan(doc[n])
    BY <1>1, <2>2, SeedPlanSound
  <2> QED
    BY <1>0, <1>1, <1>2, <2>1, <2>2 DEF TypeOK
<1>3. ASSUME NEW p \in Path, files[n][p] = None, doc[n][p] \in Content
      PROVE  p \in deleted \/ \E a \in plan'[n] : Brings(a, p)
  <2>1. CASE BaseOnDisk(n)[p] # None
    <3>1. BaseOnDisk(n)[p] \in Content \/ BaseOnDisk(n)[p] = Tombstone
      BY <1>1, <2>1 DEF Manifest, State
    <3> QED
      BY <1>3, <3>1 DEF Inductive, MissingIsDeleted, TombstonesEverywhere
  <2>2. CASE BaseOnDisk(n)[p] = None
    <3>1. \E a \in MergePlan(BaseOnDisk(n), files[n], doc[n]) : Brings(a, p)
      BY <1>1, <1>3, <2>2, MergePlanComplete DEF Brings
    <3>2. \E a \in SeedPlan(doc[n]) : Brings(a, p)
      BY <1>1, <1>3, SeedPlanComplete DEF Brings
    <3> QED
      BY <1>0, <1>1, <3>1, <3>2 DEF TypeOK
  <2> QED
    BY <2>1, <2>2
<1>4. /\ plan' \in [Node -> SUBSET Action] /\ incoming' \in [Node -> Manifest]
      /\ touched' \in [Node -> SUBSET Path] /\ pc' \in [Node -> Stage]
  BY <1>0, <1>1, <1>2 DEF TypeOK, Stage
<1>5. /\ \A q \in Node : q # n => /\ plan'[q] = plan[q] /\ incoming'[q] = incoming[q]
                                 /\ pc'[q] = pc[q]
      /\ incoming'[n] = doc[n] /\ Applying(n)' /\ pc'[n] # "down"
  BY <1>0, <1>1 DEF TypeOK, Applying
<1>6. TypeOK'
  BY <1>0, <1>1, <1>4 DEF TypeOK, bounds
<1>7. \A q \in Node : BaseOnDisk(q)' = BaseOnDisk(q)
  BY <1>0 DEF BaseOnDisk
<1>8. RestartBase' /\ EntriesTravel' /\ KeysStay'
  BY <1>0, <1>5, <1>7 DEF Inductive, RestartBase, EntriesTravel, KeysStay
<1>9. TombstonesEverywhere'
  BY <1>0, <1>5, <1>7 DEF Inductive, TombstonesEverywhere
<1>10. MissingIsDeleted'
  BY <1>0, <1>3, <1>5, <1>7 DEF Inductive, MissingIsDeleted
<1>11. PlanSound'
  BY <1>0, <1>2, <1>5 DEF Inductive, PlanSound, Applying
<1> QED
  BY <1>6, <1>8, <1>9, <1>10, <1>11 DEF Inductive

(* A step that only moves a node's loop on.                                 *)
LEMMA MovingOnInductive ==
    ASSUME Inductive, NEW n \in Node, NEW s \in Stage,
           pc[n] # "down", ~Applying(n), s \notin {"apply", "joining"},
           pc' = [pc EXCEPT ![n] = s],
           UNCHANGED <<files, copies, doc, holders, shared, base, saved, last,
                       plan, incoming, history, bounds>>
    PROVE  Inductive'
<1>1. TypeOK
  BY DEF Inductive
<1>2. /\ pc' \in [Node -> Stage] /\ ~Applying(n)'
      /\ \A q \in Node : q # n => pc'[q] = pc[q]
  BY <1>1 DEF TypeOK, Applying
<1>3. TypeOK'
  BY <1>1, <1>2 DEF TypeOK, history, bounds
<1>4. \A q \in Node : BaseOnDisk(q)' = BaseOnDisk(q)
  BY DEF BaseOnDisk
<1>5. RestartBase' /\ EntriesTravel' /\ KeysStay'
  BY <1>2, <1>4 DEF Inductive, RestartBase, EntriesTravel, KeysStay
<1>6. TombstonesEverywhere' /\ MissingIsDeleted'
  BY <1>4 DEF Inductive, TombstonesEverywhere, MissingIsDeleted, history
<1>7. PlanSound'
  BY <1>2 DEF Inductive, PlanSound, Applying, history
<1> QED
  BY <1>3, <1>5, <1>6, <1>7 DEF Inductive

LEMMA ReconcileInductive ==
    ASSUME NEW n \in Node
    PROVE  Inductive /\ Reconcile(n) => Inductive'
<1> SUFFICES ASSUME Inductive, Reconcile(n) PROVE Inductive'
  OBVIOUS
<1>1. pc[n] = "idle" /\ base[n] = BaseOnDisk(n)
  BY DEF Reconcile, Inductive, RestartBase
<1>2. CASE doc[n] = base[n]
  <2>1. /\ pc' = [pc EXCEPT ![n] = "publish"]
        /\ UNCHANGED <<files, copies, doc, holders, shared, base, saved, last,
                       plan, incoming, history, bounds>>
    BY <1>2 DEF Reconcile, history
  <2> QED
    BY <1>1, <2>1, MovingOnInductive DEF Stage, Applying
<1>3. CASE doc[n] # base[n]
  BY <1>3, PlanningInductive
<1> QED
  BY <1>2, <1>3

(* An action is executed: if a file goes, the plan had it from a deletion;  *)
(* if the action was to bring a file, the folder now has it.                *)
LEMMA ApplyStepInductive ==
    ASSUME NEW n \in Node
    PROVE  Inductive /\ ApplyStep(n) => Inductive'
<1> SUFFICES ASSUME Inductive, ApplyStep(n) PROVE Inductive'
  OBVIOUS
<1>1. TypeOK /\ files[n] \in Folder
  BY DEF Inductive, TypeOK
<1>2. PICK a \in plan[n] :
         /\ files' = [files EXCEPT ![n] = ApplyToFolder(files[n], a)]
         /\ copies' = [copies EXCEPT ![n] =
                         IF a.op = "copy" THEN copies[n] \cup {<<a.path, a.content>>} ELSE copies[n]]
         /\ plan' = [plan EXCEPT ![n] = plan[n] \ {a}]
  BY DEF ApplyStep
<1>3. UNCHANGED <<doc, holders, shared, pc, base, saved, last, incoming, history, bounds>> /\ Applying(n)
  BY DEF ApplyStep
<1>4. /\ a \in Action
      /\ a.op # "delete" => a.content \in Content
      /\ a.op \in {"delete", "rename"} => a.path \in deleted
  <2>1. a \in Action
    BY <1>1 DEF TypeOK
  <2>2. \A b \in plan[n] : /\ b.op # "delete" => b.content \in Content
                           /\ b.op \in {"delete", "rename"} => b.path \in deleted
    BY DEF Inductive, PlanSound
  <2> QED
    BY <2>1, <2>2
<1>5. a.path \in Path
  BY <1>4 DEF Action
<1>6. ApplyToFolder(files[n], a) \in Folder
  BY <1>1, <1>4, ApplyToFolderType
<1>7. /\ files' \in [Node -> Folder] /\ plan' \in [Node -> SUBSET Action]
      /\ copies' \in [Node -> SUBSET (Path \X Content)]
  BY <1>1, <1>2, <1>4, <1>5, <1>6 DEF TypeOK
<1>8. TypeOK'
  BY <1>1, <1>3, <1>7 DEF TypeOK, history, bounds
<1>9. \A q \in Node : BaseOnDisk(q)' = BaseOnDisk(q)
  BY <1>3 DEF BaseOnDisk
<1>10. RestartBase' /\ EntriesTravel' /\ KeysStay'
  BY <1>3, <1>9 DEF Inductive, RestartBase, EntriesTravel, KeysStay
<1>11. TombstonesEverywhere'
  BY <1>3, <1>9 DEF Inductive, TombstonesEverywhere, history
<1>12. /\ \A q \in Node : q # n => files'[q] = files[q] /\ plan'[q] = plan[q]
       /\ files'[n] = ApplyToFolder(files[n], a) /\ plan'[n] = plan[n] \ {a}
  BY <1>1, <1>2 DEF TypeOK
<1>13. ASSUME NEW p \in Path, files'[n][p] = None
       PROVE  /\ files[n][p] = None \/ p \in deleted
              /\ Brings(a, p) => p \in deleted
  BY <1>1, <1>4, <1>12, <1>13, ApplyToFolderEffect DEF Brings
<1>14. MissingIsDeleted'
  <2> SUFFICES ASSUME NEW q \in Node, NEW p \in Path, files'[q][p] = None
               PROVE  /\ BaseOnDisk(q)[p] \in Content => p \in deleted
                      /\ incoming[q][p] \in Content =>
                            p \in deleted \/ \E b \in plan'[q] : Brings(b, p)
    BY <1>3, <1>9 DEF MissingIsDeleted, history
  <2>1. CASE q # n
    BY <1>12, <2>1 DEF Inductive, MissingIsDeleted
  <2>2. CASE q = n /\ p \notin deleted
    <3>1. files[n][p] = None /\ ~Brings(a, p)
      BY <1>13, <2>2
    <3> QED
      BY <1>12, <2>2, <3>1 DEF Inductive, MissingIsDeleted
  <2> QED
    BY <2>1, <2>2
<1>15. PlanSound'
  BY <1>3, <1>12 DEF Inductive, PlanSound, Applying, history
<1> QED
  BY <1>8, <1>10, <1>11, <1>14, <1>15 DEF Inductive

(* Giving a pass up loses only the plan.                                    *)
LEMMA AbandonInductive ==
    ASSUME NEW n \in Node
    PROVE  Inductive /\ (ApplyFail(n) \/ ScanAbort(n) \/ Crash(n)) => Inductive'
<1> SUFFICES ASSUME Inductive, ApplyFail(n) \/ ScanAbort(n) \/ Crash(n) PROVE Inductive'
  OBVIOUS
<1>1. TypeOK
  BY DEF Inductive
<1>2. PICK s \in {"idle", "down"} :
         /\ Abandon(n, s)
         /\ pc[n] # "down"
         /\ last' \in {last, NoState}
         /\ UNCHANGED <<files, copies, doc, holders, shared, base, saved, deleted, live, edits>>
         /\ UNCHANGED faults \/ Fault
  BY DEF ApplyFail, ScanAbort, Crash, Applying, bounds
<1>3. /\ pc' = [pc EXCEPT ![n] = s] /\ plan' = [plan EXCEPT ![n] = {}]
      /\ incoming' = [incoming EXCEPT ![n] = EmptyManifest]
      /\ touched' = [touched EXCEPT ![n] = {}]
  BY <1>2 DEF Abandon
<1>4. /\ pc' \in [Node -> Stage] /\ plan' \in [Node -> SUBSET Action]
      /\ incoming' \in [Node -> Manifest] /\ touched' \in [Node -> SUBSET Path]
      /\ last' \in Manifest \cup {NoState}
  BY <1>1, <1>2, <1>3, EmptyManifestType DEF TypeOK, Stage
<1>5. faults' \in 0..MaxFaults
  BY <1>1, <1>2, BoundAssumption DEF TypeOK, Fault
<1>6. TypeOK'
  BY <1>1, <1>2, <1>4, <1>5 DEF TypeOK
<1>7. /\ \A q \in Node : q # n => /\ pc'[q] = pc[q] /\ plan'[q] = plan[q]
                                 /\ incoming'[q] = incoming[q]
      /\ pc'[n] = s /\ plan'[n] = {} /\ incoming'[n] = EmptyManifest
      /\ \A p \in Path : EmptyManifest[p] = None
  BY <1>1, <1>3 DEF TypeOK, EmptyManifest
<1>8. \A q \in Node : BaseOnDisk(q)' = BaseOnDisk(q)
  BY <1>2 DEF BaseOnDisk
<1>9. RestartBase' /\ EntriesTravel' /\ KeysStay'
  BY <1>2, <1>7, <1>8 DEF Inductive, RestartBase, EntriesTravel, KeysStay
<1>10. TombstonesEverywhere'
  BY <1>2, <1>7, <1>8, SentinelAssumption DEF Inductive, TombstonesEverywhere
<1>11. MissingIsDeleted'
  BY <1>2, <1>7, <1>8, SentinelAssumption DEF Inductive, MissingIsDeleted
<1>12. PlanSound'
  BY <1>2, <1>7 DEF Inductive, PlanSound, Applying
<1> QED
  BY <1>6, <1>9, <1>10, <1>11, <1>12 DEF Inductive

(* The manifest a pass worked from becomes the base: its plan is done.      *)
LEMMA RecordManifestInductive ==
    ASSUME NEW n \in Node
    PROVE  Inductive /\ RecordManifest(n) => Inductive'
<1> SUFFICES ASSUME Inductive, RecordManifest(n) PROVE Inductive'
  OBVIOUS
<1>1. TypeOK /\ incoming[n] \in Manifest
  BY DEF Inductive, TypeOK
<1>2. plan[n] = {} /\ pc[n] # "down"
  BY DEF Inductive, PlanSound, RecordManifest, Applying
<1>3. /\ saved' = [saved EXCEPT ![n] = incoming[n]] /\ base' = [base EXCEPT ![n] = incoming[n]]
      /\ incoming' = [incoming EXCEPT ![n] = EmptyManifest]
      /\ touched' = [touched EXCEPT ![n] = {}]
      /\ last' \in {last, NoState}
      /\ pc' = [pc EXCEPT ![n] = "idle"] \/ pc' = [pc EXCEPT ![n] = "publish"]
      /\ UNCHANGED <<files, copies, doc, holders, shared, plan, deleted, live, bounds>>
  BY DEF RecordManifest
<1>4. /\ saved' \in [Node -> Manifest \cup {NoState}] /\ base' \in [Node -> Manifest]
      /\ incoming' \in [Node -> Manifest] /\ touched' \in [Node -> SUBSET Path]
      /\ last' \in Manifest \cup {NoState}
  BY <1>1, <1>3, EmptyManifestType DEF TypeOK
<1>5. pc' \in [Node -> Stage]
  BY <1>1, <1>3 DEF TypeOK, Stage
<1>6. TypeOK'
  BY <1>1, <1>3, <1>4, <1>5 DEF TypeOK, bounds
<1>7. /\ \A q \in Node : q # n => /\ saved'[q] = saved[q] /\ base'[q] = base[q]
                                 /\ incoming'[q] = incoming[q] /\ pc'[q] = pc[q]
      /\ saved'[n] = incoming[n] /\ base'[n] = incoming[n]
      /\ incoming'[n] = EmptyManifest /\ pc'[n] \in {"idle", "publish"}
      /\ \A p \in Path : EmptyManifest[p] = None
  BY <1>1, <1>3 DEF TypeOK, EmptyManifest
<1>8. /\ \A q \in Node : q # n => BaseOnDisk(q)' = BaseOnDisk(q)
      /\ BaseOnDisk(n)' = incoming[n]
  BY <1>1, <1>7, NoStateAssumption DEF BaseOnDisk
<1>9. RestartBase' /\ EntriesTravel'
  BY <1>3, <1>7, <1>8 DEF Inductive, RestartBase, EntriesTravel
<1>10. KeysStay'
  BY <1>3, <1>7, <1>8 DEF Inductive, KeysStay
<1>11. TombstonesEverywhere'
  BY <1>3, <1>7, <1>8, SentinelAssumption DEF Inductive, TombstonesEverywhere
<1>12. MissingIsDeleted'
  BY <1>2, <1>3, <1>7, <1>8, SentinelAssumption DEF Inductive, MissingIsDeleted
<1>13. PlanSound'
  BY <1>2, <1>3, <1>7 DEF Inductive, PlanSound, Applying
<1> QED
  BY <1>6, <1>9, <1>10, <1>11, <1>12, <1>13 DEF Inductive

LEMMA NextInductive == Inductive /\ [Next]_vars => Inductive'
<1> SUFFICES ASSUME Inductive, [Next]_vars PROVE Inductive'
  OBVIOUS
<1>1. CASE Users
  BY <1>1, UsersInductive
<1>2. ASSUME NEW n \in Node, Step(n)
      PROVE  Inductive'
  <2>1. CASE NothingToPublish(n)
    BY <2>1, MovingOnInductive DEF NothingToPublish, Stage, Applying
  <2> QED
    BY <1>2, <2>1, ReconcileInductive, ApplyStepInductive, RecordManifestInductive,
       PublishInductive, AbandonInductive, HostExportInductive, JoinOpenInductive,
       PlanningInductive DEF Step
<1>3. ASSUME NEW n \in Node, ApplyFail(n) \/ PublishFail(n) \/ Crash(n)
      PROVE  Inductive'
  BY <1>3, AbandonInductive, PublishInductive
<1>4. ASSUME NEW n \in Node, NEW p \in Path, Replicate(n, p)
      PROVE  Inductive'
  BY <1>4, ReplicateInductive
<1>5. CASE UNCHANGED vars
  <2>1. \A q \in Node : BaseOnDisk(q)' = BaseOnDisk(q)
    BY <1>5 DEF vars, sync, BaseOnDisk
  <2>2. TypeOK' /\ RestartBase' /\ EntriesTravel' /\ KeysStay'
    BY <1>5, <2>1 DEF vars, sync, history, bounds, Inductive, TypeOK, RestartBase, EntriesTravel, KeysStay
  <2>3. TombstonesEverywhere' /\ MissingIsDeleted' /\ PlanSound'
    BY <1>5, <2>1 DEF vars, sync, history, Inductive, TombstonesEverywhere, MissingIsDeleted,
                      PlanSound, Applying
  <2> QED
    BY <2>2, <2>3 DEF Inductive
<1> QED
  BY <1>1, <1>2, <1>3, <1>4, <1>5 DEF Next

---------------------------------------------------------------------------
(* The invariant holds in every run of a session, whatever the folders,     *)
(* edits and faults.                                                        *)
THEOREM InductiveInvariant == Spec => []Inductive
BY InitInductive, NextInductive, PTL DEF Spec

(* The variables stay in their types.                                       *)
THEOREM TypeCorrect == Spec => []TypeOK
<1>1. Inductive => TypeOK
  BY DEF Inductive
<1> QED
  BY <1>1, InductiveInvariant, PTL

(* A tombstone in a replica or a base is a file some user deleted.          *)
THEOREM TombstonesHold == Spec => []TombstonesAreDeletions
<1>1. Inductive => TombstonesAreDeletions
  BY DEF Inductive, TombstonesEverywhere, TombstonesAreDeletions
<1> QED
  BY <1>1, InductiveInvariant, PTL

(* A file only disappears from a folder if some user deleted it.            *)
THEOREM RemovalsHold == Spec => RemovalsAreDeletions
<1> DEFINE Removal == \A n \in Node, p \in Path :
                         files[n][p] # None /\ files'[n][p] = None => p \in deleted'
<1>1. Inductive /\ [Next]_vars => [Removal]_vars
  <2> SUFFICES ASSUME Inductive, Next PROVE Removal
    OBVIOUS
  <2>1. TypeOK
    BY DEF Inductive
  <2>2. CASE Users
    <3> SUFFICES ASSUME NEW m \in Node, NEW q \in Path,
                        \/ \E c \in Content : UserWrite(m, q, c)
                        \/ UserDelete(m, q)
                        \/ \E r \in Path : UserRename(m, q, r)
                 PROVE  Removal
      BY <2>2 DEF Users
    <3>1. ASSUME NEW c \in Content, UserWrite(m, q, c) PROVE Removal
      BY <2>1, <3>1, SentinelAssumption DEF UserWrite, TypeOK, Folder
    <3>2. ASSUME UserDelete(m, q) PROVE Removal
      BY <2>1, <3>2 DEF UserDelete, TypeOK, Folder
    <3>3. ASSUME NEW r \in Path, UserRename(m, q, r) PROVE Removal
      <4>1. files' = [files EXCEPT ![m] = [[files[m] EXCEPT ![q] = None] EXCEPT ![r] = files[m][q]]]
        BY <2>1, <3>3 DEF UserRename, TypeOK
      <4>2. q \in deleted' /\ files[m][q] # None
        BY <3>3 DEF UserRename
      <4> QED
        BY <2>1, <4>1, <4>2 DEF TypeOK, Folder
    <3> QED
      BY <3>1, <3>2, <3>3
  <2>3. ASSUME NEW m \in Node, ApplyStep(m) PROVE Removal
    <3>1. PICK a \in plan[m] : files' = [files EXCEPT ![m] = ApplyToFolder(files[m], a)]
      BY <2>3 DEF ApplyStep
    <3>2. /\ a \in Action /\ files[m] \in Folder
          /\ a.op # "delete" => a.content \in Content
          /\ a.op \in {"delete", "rename"} => a.path \in deleted
          /\ deleted' = deleted
      <4>1. a \in Action /\ files[m] \in Folder
        BY <2>1 DEF TypeOK
      <4>2. deleted' = deleted
        BY <2>3 DEF ApplyStep, history
      <4>3. \A b \in plan[m] : /\ b.op # "delete" => b.content \in Content
                               /\ b.op \in {"delete", "rename"} => b.path \in deleted
        BY DEF Inductive, PlanSound
      <4> QED
        BY <4>1, <4>2, <4>3
    <3> QED
      BY <2>1, <3>1, <3>2, ApplyToFolderEffect DEF TypeOK
  <2>4. CASE ~Users /\ \A m \in Node : ~ApplyStep(m)
    <3>1. files' = files
      BY <2>4 DEF Next, Step, Reconcile, RecordManifest, Publish, NothingToPublish, ScanAbort,
                  HostExport, JoinOpen, JoinBegin, ApplyFail, PublishFail, Crash, Replicate
    <3> QED
      BY <3>1
  <2> QED
    BY <2>2, <2>3, <2>4
<1> QED
  BY <1>1, InductiveInvariant, PTL DEF Spec, RemovalsAreDeletions
---------------------------------------------------------------------------
(* What a pass leaves to be done, and what it may still overwrite.          *)

(* An action of a pass brings what the manifest to be recorded has, and      *)
(* meets what the base has, unless the user was there.                      *)
Due(n, a) ==
    /\ a.op # "rename" => a.to = a.path
    /\ a.op \in {"upsert", "copy"} => a.content = incoming[n][a.path]
    /\ a.op = "delete" => incoming[n][a.path] \notin Content
    /\ a.op = "rename" => /\ incoming[n][a.path] \notin Content
                          /\ incoming[n][a.to] = a.content /\ base[n][a.path] = a.content
                          /\ a.to \in touched[n] \/ files[n][a.to] = None
    /\ a.op # "copy" => a.path \in touched[n] \/ files[n][a.path] = base[n][a.path]

(* A file that is new in that manifest is here, kept beside, or to be        *)
(* brought.                                                                  *)
Reached(n, p) ==
    incoming[n][p] \in Content /\ incoming[n][p] # base[n][p] =>
        \/ files[n][p] = incoming[n][p]
        \/ <<p, incoming[n][p]>> \in copies[n]
        \/ \E a \in plan[n] : \/ a.op \in {"upsert", "copy"} /\ a.path = p
                              \/ a.op = "rename" /\ a.to = p

PassOf(n) ==
    /\ Apart(plan[n])
    /\ \A a \in plan[n] : Due(n, a)
    /\ touched[n] = {} => \A p \in Path : Reached(n, p)

Pass == \A n \in Node : Applying(n) => PassOf(n)

(* A joiner that will seed its folder found it empty: what is there now its  *)
(* user has put there since.                                                *)
Seeding ==
    pc[Joiner] = "seeding" =>
        /\ saved[Joiner] = NoState
        /\ \A p \in Path : files[Joiner][p] = None \/ p \in touched[Joiner]

LEMMA InitPass == Init => Pass /\ Seeding
BY DEF Init, Pass, Seeding, Applying

(* A step is one of a single node: what it leaves alone stays.              *)
LEMMA PassElsewhere ==
    ASSUME Pass, NEW n \in Node, Applying(n)' => PassOf(n)',
           \A q \in Node : q # n /\ Applying(q)' =>
              /\ Applying(q) /\ files'[q] = files[q] /\ copies'[q] = copies[q]
              /\ plan'[q] = plan[q] /\ incoming'[q] = incoming[q] /\ base'[q] = base[q]
              /\ touched'[q] = touched[q]
    PROVE  Pass'
<1> SUFFICES ASSUME NEW q \in Node, q # n, Applying(q)'
             PROVE  PassOf(q)'
  BY DEF Pass
<1>1. /\ PassOf(q) /\ files'[q] = files[q] /\ copies'[q] = copies[q]
      /\ plan'[q] = plan[q] /\ incoming'[q] = incoming[q] /\ base'[q] = base[q]
      /\ touched'[q] = touched[q]
  BY DEF Pass
<1>2. \A a \in plan[q] : Due(q, a)'
  BY <1>1 DEF PassOf, Due
<1>3. touched[q] = {} => \A p \in Path : Reached(q, p)'
  BY <1>1 DEF PassOf, Reached
<1> QED
  BY <1>1, <1>2, <1>3 DEF PassOf, Apart

(* An edit during a pass puts its paths on record.                          *)
LEMMA UsersPass == Inductive /\ Pass /\ Seeding /\ Users => Pass' /\ Seeding'
<1> SUFFICES ASSUME Inductive, Pass, Seeding, NEW n \in Node, NEW p \in Path,
                    \/ \E c \in Content : UserWrite(n, p, c)
                    \/ UserDelete(n, p)
                    \/ \E q \in Path : UserRename(n, p, q)
             PROVE  Pass' /\ Seeding'
  BY DEF Users
<1>1. TypeOK
  BY DEF Inductive
<1>2. PICK ps \in SUBSET Path :
         /\ p \in ps
         /\ Edit(n, ps)
         /\ files' = [files EXCEPT ![n] = files'[n]]
         /\ \A r \in Path \ ps : files'[n][r] = files[n][r]
  <2>1. ASSUME NEW c \in Content, UserWrite(n, p, c)
        PROVE  Edit(n, {p}) /\ files' = [files EXCEPT ![n] = files'[n]]
               /\ \A r \in Path \ {p} : files'[n][r] = files[n][r]
    BY <1>1, <2>1 DEF UserWrite, TypeOK, Folder
  <2>2. ASSUME UserDelete(n, p)
        PROVE  Edit(n, {p}) /\ files' = [files EXCEPT ![n] = files'[n]]
               /\ \A r \in Path \ {p} : files'[n][r] = files[n][r]
    BY <1>1, <2>2 DEF UserDelete, TypeOK, Folder
  <2>3. ASSUME NEW q \in Path, UserRename(n, p, q)
        PROVE  Edit(n, {p, q}) /\ files' = [files EXCEPT ![n] = files'[n]]
               /\ \A r \in Path \ {p, q} : files'[n][r] = files[n][r]
    <3>1. files' = [files EXCEPT ![n] = [[files[n] EXCEPT ![p] = None] EXCEPT ![q] = files[n][p]]]
      BY <1>1, <2>3 DEF UserRename, TypeOK
    <3> QED
      BY <1>1, <2>3, <3>1 DEF UserRename, TypeOK, Folder
  <2> QED
    <3>1. CASE \E c \in Content : UserWrite(n, p, c)
      BY <2>1, <3>1
    <3>2. CASE UserDelete(n, p)
      BY <2>2, <3>2
    <3>3. CASE \E q \in Path : UserRename(n, p, q)
      BY <2>3, <3>3
    <3> QED
      BY <3>1, <3>2, <3>3
<1>3. /\ UNCHANGED <<copies, plan, incoming, base, pc, saved>>
      /\ touched' = [touched EXCEPT ![n] = IF Applying(n) \/ pc[n] = "seeding"
                                           THEN touched[n] \cup ps ELSE touched[n]]
      /\ \A q \in Node : Applying(q)' = Applying(q)
  BY <1>2 DEF Edit, sync, Applying
<1>4. \A q \in Node : q # n => files'[q] = files[q] /\ touched'[q] = touched[q]
  BY <1>1, <1>2, <1>3 DEF TypeOK
<1>5. ASSUME Applying(n)
      PROVE  PassOf(n)'
  <2>1. touched'[n] = touched[n] \cup ps /\ PassOf(n)
    BY <1>1, <1>3, <1>5 DEF TypeOK, Pass
  <2>2. ASSUME NEW a \in plan[n]
        PROVE  Due(n, a)'
    <3>1. Due(n, a) /\ a.path \in Path /\ a.to \in Path
      BY <1>1, <2>1 DEF PassOf, TypeOK, Action
    <3> QED
      BY <1>2, <1>3, <2>1, <3>1 DEF Due
  <2>3. touched'[n] # {}
    BY <1>2, <2>1
  <2> QED
    BY <1>3, <2>1, <2>2, <2>3 DEF PassOf, Apart
<1>6. Seeding'
  <2> SUFFICES ASSUME pc[Joiner] = "seeding", NEW q \in Path, files'[Joiner][q] # None
               PROVE  q \in touched'[Joiner]
    BY <1>3 DEF Seeding
  <2>1. CASE n # Joiner
    BY <1>4, <2>1 DEF Seeding
  <2>2. CASE n = Joiner
    BY <1>1, <1>2, <1>3, <2>2 DEF Seeding, TypeOK
  <2> QED
    BY <2>1, <2>2
<1> QED
  BY <1>3, <1>4, <1>5, <1>6, PassElsewhere

(* A pass begins with a plan for all that is new, and no edit behind it but *)
(* those made while a folder waited to be seeded.                           *)
LEMMA PlanningPass ==
    ASSUME Inductive, Pass, Seeding, NEW n \in Node,
           (Reconcile(n) /\ doc[n] # base[n]) \/ (n = Joiner /\ JoinBegin)
    PROVE  Pass'
<1>1. TypeOK /\ base[n] \in Manifest /\ doc[n] \in Manifest /\ files[n] \in Folder
  BY DEF Inductive, TypeOK
<1>2. /\ \/ /\ plan' = [plan EXCEPT ![n] = MergePlan(base[n], files[n], doc[n])]
            /\ touched' = [touched EXCEPT ![n] = {}]
         \/ /\ plan' = [plan EXCEPT ![n] = SeedPlan(doc[n])] /\ base[n] = EmptyManifest
            /\ \A p \in Path : files[n][p] = None \/ p \in touched[n]
            /\ touched' = touched
      /\ incoming' = [incoming EXCEPT ![n] = doc[n]]
      /\ pc' = [pc EXCEPT ![n] = "apply"] \/ pc' = [pc EXCEPT ![n] = "joining"]
      /\ UNCHANGED <<files, copies, base>>
  <2>1. CASE Reconcile(n) /\ doc[n] # base[n]
    BY <2>1 DEF Reconcile
  <2>2. CASE n = Joiner /\ JoinBegin
    <3>1. base[n] = BaseOnDisk(n)
      BY <2>2 DEF Inductive, RestartBase, JoinBegin
    <3>2. saved[n] = NoState => BaseOnDisk(n) = EmptyManifest
      BY DEF BaseOnDisk
    <3> QED
      BY <2>2, <3>1, <3>2 DEF JoinBegin, Seeding
  <2> QED
    BY <2>1, <2>2
<1>3. /\ \/ plan'[n] = MergePlan(base[n], files[n], doc[n]) /\ touched'[n] = {}
         \/ /\ plan'[n] = SeedPlan(doc[n])
            /\ \A p \in Path : base[n][p] = None /\ (files[n][p] = None \/ p \in touched'[n])
      /\ incoming'[n] = doc[n] /\ base'[n] = base[n]
      /\ files'[n] = files[n]
      /\ \A q \in Node : q # n => /\ plan'[q] = plan[q] /\ incoming'[q] = incoming[q]
                                 /\ touched'[q] = touched[q] /\ pc'[q] = pc[q]
  <2>1. base[n] = EmptyManifest => \A p \in Path : base[n][p] = None
    BY DEF EmptyManifest
  <2> QED
    BY <1>1, <1>2, <2>1 DEF TypeOK
<1>4. Apart(plan'[n])
  <2>1. Apart(MergePlan(base[n], files[n], doc[n]))
    BY <1>1, MergePlanApart
  <2>2. Apart(SeedPlan(doc[n]))
    BY DEF Apart, SeedPlan
  <2> QED
    BY <1>3, <2>1, <2>2
<1>5. ASSUME plan'[n] = MergePlan(base[n], files[n], doc[n]), NEW a \in plan'[n]
      PROVE  Fits(a, base[n], files[n], doc[n])
  BY <1>1, <1>5, MergePlanFits
<1>6. ASSUME NEW a \in plan'[n]
      PROVE  Due(n, a)'
  <2>1. CASE plan'[n] = MergePlan(base[n], files[n], doc[n])
    BY <1>3, <1>5, <2>1 DEF Fits, Due, Action, Op
  <2>2. CASE /\ plan'[n] = SeedPlan(doc[n])
             /\ \A p \in Path : base[n][p] = None /\ (files[n][p] = None \/ p \in touched'[n])
    <3>1. /\ a \in Action /\ a.op = "upsert"
          /\ a.to = a.path /\ a.content = doc[n][a.path] /\ a.path \in Path
      BY <1>1, <1>6, <2>2, SeedPlanSound DEF SeedPlan
    <3> QED
      BY <1>3, <2>2, <3>1 DEF Due
  <2> QED
    BY <1>3, <2>1, <2>2
<1>7. ASSUME NEW p \in Path, doc[n][p] \in Content, doc[n][p] # base[n][p], files[n][p] # doc[n][p]
      PROVE  \E a \in plan'[n] : \/ a.op \in {"upsert", "copy"} /\ a.path = p
                                 \/ a.op = "rename" /\ a.to = p
  <2>1. CASE plan'[n] = MergePlan(base[n], files[n], doc[n])
    <3>1. PICK a \in plan'[n] : \/ p \in {a.path, a.to} /\ a.op # "copy"
                                \/ a.path = p /\ a.op = "copy"
      <4> DEFINE acts == MergePlan(base[n], files[n], doc[n])
      <4>1. /\ files[n][p] = base[n][p] => \E a \in acts : p \in {a.path, a.to} /\ a.op # "copy"
            /\ files[n][p] # base[n][p] => \E a \in acts : a.path = p /\ a.op = "copy"
        BY <1>1, <1>7, MergePlanReaches
      <4> QED
        BY <2>1, <4>1
    <3>2. Fits(a, base[n], files[n], doc[n]) /\ a.op \in Op
      BY <1>5, <2>1, <3>1 DEF Fits, Action
    <3> QED
      BY <1>7, <3>1, <3>2 DEF Fits, Op
  <2>2. CASE plan'[n] = SeedPlan(doc[n])
    BY <1>1, <1>7, <2>2, SeedPlanComplete
  <2> QED
    BY <1>3, <2>1, <2>2
<1>8. \A p \in Path : Reached(n, p)'
  BY <1>3, <1>7 DEF Reached
<1>9. PassOf(n)'
  BY <1>4, <1>6, <1>8 DEF PassOf, Apart
<1> QED
  BY <1>2, <1>3, <1>9, PassElsewhere DEF Applying

(* An action of a pass that is due does what it says, and does not touch    *)
(* what another one is for.                                                 *)
LEMMA ApplyStepPass ==
    ASSUME Inductive, Pass, NEW n \in Node, ApplyStep(n)
    PROVE  /\ Pass'
           /\ \A q \in Node, p \in Path :
                 plan'[q] # plan[q] /\ files[q][p] # None /\ files'[q][p] # files[q][p]
                    => files[q][p] = base[q][p] \/ p \in touched[q]
<1>1. TypeOK /\ files[n] \in Folder /\ PassOf(n)
  BY DEF Inductive, TypeOK, Pass, ApplyStep
<1>2. PICK a \in plan[n] :
         /\ files' = [files EXCEPT ![n] = ApplyToFolder(files[n], a)]
         /\ copies' = [copies EXCEPT ![n] =
                         IF a.op = "copy" THEN copies[n] \cup {<<a.path, a.content>>} ELSE copies[n]]
         /\ plan' = [plan EXCEPT ![n] = plan[n] \ {a}]
  BY DEF ApplyStep
<1>3. UNCHANGED <<pc, base, incoming, touched>>
  BY DEF ApplyStep, history
<1>4. /\ files'[n] = ApplyToFolder(files[n], a)
      /\ copies'[n] = IF a.op = "copy" THEN copies[n] \cup {<<a.path, a.content>>} ELSE copies[n]
      /\ plan'[n] = plan[n] \ {a}
      /\ \A q \in Node : q # n => files'[q] = files[q] /\ copies'[q] = copies[q] /\ plan'[q] = plan[q]
  BY <1>1, <1>2 DEF TypeOK
<1>5. a \in Action /\ a.op \in Op /\ a.path \in Path /\ a.to \in Path
  BY <1>1 DEF TypeOK, Action
<1>6. Due(n, a) /\ (a.op # "delete" => a.content \in Content)
  BY <1>1 DEF PassOf, Inductive, PlanSound
<1>7. a.op = "rename" => a.path # a.to
  BY <1>6 DEF Due
<1> DEFINE f == ApplyToFolder(files[n], a)
<1>8. /\ a.op = "upsert" => \A p \in Path : f[p] = IF p = a.path THEN a.content ELSE files[n][p]
      /\ a.op = "delete" => \A p \in Path : f[p] = IF p = a.path THEN None ELSE files[n][p]
      /\ a.op = "copy" => f = files[n]
      /\ a.op = "rename" =>
           \A p \in Path : f[p] = IF p = a.to
                                  THEN (IF files[n][a.path] # None THEN files[n][a.path] ELSE a.content)
                                  ELSE IF p = a.path THEN None ELSE files[n][p]
  BY <1>1, <1>5, <1>7, ApplyToFolderCases
<1> HIDE DEF f
<1>9. \A p \in Path : p \notin {a.path, a.to} => f[p] = files[n][p]
  BY <1>5, <1>8 DEF Op
<1>10. Apart(plan'[n]) /\ \A b \in plan'[n] : b \in plan[n] /\ {a.path, a.to} \cap {b.path, b.to} = {}
  BY <1>1, <1>4 DEF PassOf, Apart
<1>11. ASSUME NEW b \in plan'[n]
       PROVE  Due(n, b)'
  <2>1. Due(n, b) /\ b.path \in Path /\ b.to \in Path
    BY <1>1, <1>10 DEF PassOf, TypeOK, Action
  <2>2. files'[n][b.path] = files[n][b.path] /\ files'[n][b.to] = files[n][b.to]
    BY <1>4, <1>9, <1>10, <2>1 DEF f
  <2> QED
    BY <1>3, <2>1, <2>2 DEF Due
<1>12. ASSUME touched[n] = {}, NEW p \in Path
       PROVE  Reached(n, p)'
  <2> SUFFICES ASSUME incoming[n][p] \in Content, incoming[n][p] # base[n][p]
               PROVE  \/ f[p] = incoming[n][p]
                      \/ <<p, incoming[n][p]>> \in copies'[n]
                      \/ \E b \in plan'[n] : \/ b.op \in {"upsert", "copy"} /\ b.path = p
                                             \/ b.op = "rename" /\ b.to = p
    BY <1>3, <1>4 DEF Reached, f
  <2>1. \/ files[n][p] = incoming[n][p]
        \/ <<p, incoming[n][p]>> \in copies[n]
        \/ \E b \in plan[n] : \/ b.op \in {"upsert", "copy"} /\ b.path = p
                              \/ b.op = "rename" /\ b.to = p
    BY <1>1, <1>12 DEF PassOf, Reached
  <2>2. copies[n] \subseteq copies'[n]
    BY <1>4
  <2>3. CASE files[n][p] = incoming[n][p] /\ p \in {a.path, a.to}
    <3>1. a.op = "upsert" => f[p] = incoming[n][p]
      BY <1>6, <1>8, <2>3 DEF Due
    <3>2. a.op = "copy" => f[p] = incoming[n][p]
      BY <1>8, <2>3
    <3>3. a.op # "delete"
      BY <1>6, <2>3 DEF Due
    <3>4. a.op # "rename"
      <4>1. incoming[n][p] # None
        BY SentinelAssumption
      <4> QED
        BY <1>6, <1>12, <2>3, <4>1 DEF Due
    <3> QED
      BY <1>5, <3>1, <3>2, <3>3, <3>4 DEF Op
  <2>4. CASE \/ a.op \in {"upsert", "copy"} /\ a.path = p
             \/ a.op = "rename" /\ a.to = p
    <3>1. a.op = "upsert" => f[p] = incoming[n][p]
      BY <1>6, <1>8, <2>4 DEF Due
    <3>2. a.op = "copy" => <<p, incoming[n][p]>> \in copies'[n]
      BY <1>4, <1>6, <2>4 DEF Due
    <3>3. a.op = "rename" => f[p] = incoming[n][p]
      <4>1. ASSUME a.op = "rename"
            PROVE  /\ files[n][a.path] = base[n][a.path] /\ base[n][a.path] = a.content
                   /\ a.content = incoming[n][p] /\ p = a.to
        BY <1>6, <1>12, <2>4, <4>1 DEF Due
      <4> QED
        BY <1>8, <4>1
    <3> QED
      BY <2>4, <3>1, <3>2, <3>3
  <2> QED
    BY <1>4, <1>9, <2>1, <2>2, <2>3, <2>4
<1>13. PassOf(n)'
  BY <1>3, <1>10, <1>11, <1>12 DEF PassOf, Apart
<1>14. ASSUME NEW p \in Path, files[n][p] # None, f[p] # files[n][p]
       PROVE  files[n][p] = base[n][p] \/ p \in touched[n]
  <2>1. CASE p = a.path /\ a.op # "copy"
    BY <1>6, <2>1 DEF Due
  <2>2. CASE p = a.to /\ a.op = "rename"
    BY <1>6, <1>14, <2>2 DEF Due
  <2>3. a.op # "copy"
    BY <1>8, <1>14
  <2> QED
    BY <1>5, <1>8, <1>14, <2>1, <2>2, <2>3 DEF Op
<1>15. Pass'
  BY <1>3, <1>4, <1>13, PassElsewhere DEF Applying
<1> QED
  BY <1>4, <1>14, <1>15 DEF f

(* All other steps end a pass or leave it alone.                            *)
LEMMA NextPass == Inductive /\ Pass /\ Seeding /\ [Next]_vars => Pass'
<1> SUFFICES ASSUME Inductive, Pass, Seeding, [Next]_vars PROVE Pass'
  OBVIOUS
<1>1. TypeOK
  BY DEF Inductive
<1>2. CASE Users
  BY <1>2, UsersPass
<1>3. ASSUME NEW n \in Node, ApplyStep(n)
      PROVE  Pass'
  BY <1>3, ApplyStepPass
<1>4. ASSUME NEW n \in Node, (Reconcile(n) /\ doc[n] # base[n]) \/ (n = Joiner /\ JoinBegin)
      PROVE  Pass'
  BY <1>4, PlanningPass
<1>5. ASSUME NEW n \in Node,
             \/ Reconcile(n) /\ doc[n] = base[n]
             \/ RecordManifest(n) \/ Publish(n) \/ NothingToPublish(n) \/ ScanAbort(n)
             \/ ApplyFail(n) \/ PublishFail(n) \/ Crash(n)
             \/ n = Host /\ HostExport
             \/ n = Joiner /\ JoinOpen
      PROVE  Pass'
  <2>1. /\ files' = files /\ copies' = copies
        /\ \A q \in Node : q # n =>
              /\ plan'[q] = plan[q] /\ incoming'[q] = incoming[q] /\ base'[q] = base[q]
              /\ touched'[q] = touched[q] /\ pc'[q] = pc[q]
        /\ pc'[n] \notin {"apply", "joining"}
    <3>1. CASE \/ Reconcile(n) /\ doc[n] = base[n]
               \/ RecordManifest(n) \/ NothingToPublish(n)
      BY <1>1, <3>1 DEF Reconcile, RecordManifest, NothingToPublish, TypeOK, history
    <3>2. CASE ScanAbort(n) \/ ApplyFail(n) \/ Crash(n)
      BY <1>1, <3>2 DEF ScanAbort, ApplyFail, Crash, Abandon, TypeOK
    <3>3. CASE Publish(n) \/ PublishFail(n)
      BY <1>1, <3>3 DEF Publish, PublishFail, TypeOK, history
    <3>4. CASE n = Host /\ HostExport
      BY <1>1, <3>4 DEF HostExport, TypeOK, history
    <3>5. CASE n = Joiner /\ JoinOpen
      BY <1>1, <3>5 DEF JoinOpen, TypeOK, history
    <3> QED
      BY <1>5, <3>1, <3>2, <3>3, <3>4, <3>5
  <2> QED
    BY <2>1, PassElsewhere DEF Applying
<1>6. CASE (\E n \in Node, p \in Path : Replicate(n, p)) \/ UNCHANGED vars
  <2>1. UNCHANGED <<files, copies, plan, incoming, base, touched, pc>>
    BY <1>6 DEF Replicate, vars, sync, history
  <2>2. \A q \in Node : Applying(q)' => PassOf(q)'
    <3> SUFFICES ASSUME NEW q \in Node, Applying(q)'
                 PROVE  PassOf(q)'
      OBVIOUS
    <3>1. PassOf(q)
      BY <2>1 DEF Pass, Applying
    <3>2. /\ \A a \in plan[q] : Due(q, a)'
          /\ touched[q] = {} => \A p \in Path : Reached(q, p)'
      BY <2>1, <3>1 DEF PassOf, Due, Reached
    <3> QED
      BY <2>1, <3>1, <3>2 DEF PassOf, Apart
  <2> QED
    BY <2>2 DEF Pass
<1> QED
  BY <1>2, <1>3, <1>4, <1>5, <1>6 DEF Next, Step

(* Only a user writes to a folder that waits to be seeded.                  *)
LEMMA NextSeeding == Inductive /\ Pass /\ Seeding /\ [Next]_vars => Seeding'
<1> SUFFICES ASSUME Inductive, Pass, Seeding, [Next]_vars PROVE Seeding'
  OBVIOUS
<1>1. TypeOK
  BY DEF Inductive
<1>2. CASE Users
  BY <1>2, UsersPass
<1>3. CASE JoinOpen
  <2>1. /\ pc'[Joiner] = "seeding" => saved[Joiner] = NoState /\ Entries(files[Joiner]) = {}
        /\ UNCHANGED <<files, saved>>
    BY <1>1, <1>3 DEF JoinOpen, TypeOK
  <2> QED
    BY <2>1 DEF Seeding, Entries
<1>4. ASSUME ~Users, ~JoinOpen, pc'[Joiner] = "seeding"
      PROVE  /\ pc[Joiner] = "seeding" /\ files'[Joiner] = files[Joiner]
             /\ saved'[Joiner] = saved[Joiner] /\ touched'[Joiner] = touched[Joiner]
  <2>1. CASE UNCHANGED vars
    BY <1>4, <2>1 DEF vars, sync, history
  <2>2. CASE \E n \in Node, p \in Path : Replicate(n, p)
    BY <1>4, <2>2 DEF Replicate, history
  <2>3. ASSUME NEW n \in Node, n # Joiner,
               Step(n) \/ ApplyFail(n) \/ PublishFail(n) \/ Crash(n)
        PROVE  /\ pc'[Joiner] = pc[Joiner] /\ files'[Joiner] = files[Joiner]
               /\ saved'[Joiner] = saved[Joiner] /\ touched'[Joiner] = touched[Joiner]
    BY <1>1, <2>3
       DEF Step, Reconcile, ApplyStep, RecordManifest, Publish, NothingToPublish, ScanAbort,
           HostExport, ApplyFail, PublishFail, Crash, Abandon, TypeOK, history
  <2>4. ASSUME Step(Joiner) \/ ApplyFail(Joiner) \/ PublishFail(Joiner) \/ Crash(Joiner)
        PROVE  FALSE
    BY <1>1, <1>4, <2>4, NodeAssumption
       DEF Step, Reconcile, ApplyStep, RecordManifest, Publish, NothingToPublish, ScanAbort,
           JoinBegin, ApplyFail, PublishFail, Crash, Abandon, Applying, TypeOK
  <2> QED
    BY <1>4, <2>1, <2>2, <2>3, <2>4 DEF Next
<1>5. CASE ~Users /\ ~JoinOpen
  BY <1>4, <1>5 DEF Seeding
<1> QED
  BY <1>2, <1>3, <1>5

(* In every run of a session a pass does what its manifest asks for, each   *)
(* path once, and only where the folder is as it was scanned.               *)
THEOREM PassHolds == Spec => []Pass
<1>1. Inductive /\ Pass /\ Seeding /\ [Next]_vars => Pass' /\ Seeding'
  BY NextPass, NextSeeding
<1> QED
  BY <1>1, InitPass, InductiveInvariant, PTL DEF Spec

(* Whatever else changes a folder is a user, and leaves the plans alone.    *)
LEMMA OnlyApplySteps ==
    ASSUME Inductive, Next, NEW n \in Node, ~ApplyStep(n), files'[n] # files[n]
    PROVE  plan' = plan
<1>1. CASE Users
  BY <1>1 DEF Users, UserWrite, UserDelete, UserRename, Edit, sync
<1>2. ASSUME NEW m \in Node, m # n, ApplyStep(m)
      PROVE  FALSE
  BY <1>2 DEF ApplyStep, Inductive, TypeOK
<1>3. CASE ~Users /\ \A m \in Node : ~ApplyStep(m)
  <2>1. files' = files
    BY <1>3 DEF Next, Step, Reconcile, RecordManifest, Publish, NothingToPublish, ScanAbort,
                HostExport, JoinOpen, JoinBegin, ApplyFail, PublishFail, Crash, Replicate
  <2> QED
    BY <2>1
<1> QED
  BY <1>1, <1>2, <1>3

(* A local change that was not published survives the merge.                *)
THEOREM NoClobberHolds == Spec => NoClobber
<1> DEFINE Kept == \A n \in Node, p \in Path :
                      (/\ plan'[n] # plan[n]
                       /\ files[n][p] # None
                       /\ files'[n][p] # files[n][p])
                      => files[n][p] = base[n][p] \/ p \in touched[n]
<1>1. Inductive /\ Pass /\ [Next]_vars => [Kept]_vars
  <2> SUFFICES ASSUME Inductive, Pass, Next PROVE Kept
    OBVIOUS
  <2> SUFFICES ASSUME NEW n \in Node, NEW p \in Path,
                      plan'[n] # plan[n], files[n][p] # None, files'[n][p] # files[n][p]
               PROVE  files[n][p] = base[n][p] \/ p \in touched[n]
    OBVIOUS
  <2>1. ApplyStep(n)
    BY OnlyApplySteps
  <2> QED
    BY <2>1, ApplyStepPass
<1> QED
  BY <1>1, InductiveInvariant, PassHolds, PTL DEF Spec, NoClobber

(* What a pass records as merged is in the folder or beside it.             *)
THEOREM MaterialisedHolds == Spec => Materialised
<1> DEFINE Kept == \A n \in Node, p \in Path :
                      (/\ Applying(n) /\ touched[n] = {}
                       /\ base'[n][p] # base[n][p]
                       /\ base'[n][p] \in Content)
                      => files[n][p] = base'[n][p] \/ <<p, base'[n][p]>> \in copies[n]
<1>1. Inductive /\ Pass /\ [Next]_vars => [Kept]_vars
  <2> SUFFICES ASSUME Inductive, Pass, Next PROVE Kept
    OBVIOUS
  <2> SUFFICES ASSUME NEW n \in Node, NEW p \in Path, Applying(n), touched[n] = {},
                      base'[n][p] # base[n][p], base'[n][p] \in Content
               PROVE  files[n][p] = base'[n][p] \/ <<p, base'[n][p]>> \in copies[n]
    OBVIOUS
  <2>1. TypeOK
    BY DEF Inductive
  <2>2. RecordManifest(n)
    <3>1. base'[n] # base[n]
      OBVIOUS
    <3>2. ASSUME NEW m \in Node, m # n, RecordManifest(m)
          PROVE  FALSE
      BY <2>1, <3>1, <3>2 DEF RecordManifest, TypeOK
    <3>3. ASSUME HostExport \/ JoinOpen
          PROVE  FALSE
      BY <2>1, <3>1, <3>3 DEF HostExport, JoinOpen, Applying, TypeOK
    <3>4. CASE /\ ~HostExport /\ ~JoinOpen
               /\ \A m \in Node : ~RecordManifest(m)
      <4>1. base' = base
        <5>1. CASE Users
          BY <5>1 DEF Users, UserWrite, UserDelete, UserRename, Edit, sync
        <5>2. CASE \E m \in Node : Step(m)
          <6>1. PICK m \in Node : Reconcile(m) \/ ApplyStep(m) \/ Publish(m) \/ NothingToPublish(m)
                                  \/ ScanAbort(m) \/ JoinBegin
            BY <3>4, <5>2 DEF Step
          <6> QED
            BY <6>1 DEF Reconcile, ApplyStep, Publish, NothingToPublish, ScanAbort, JoinBegin
        <5>3. CASE \E m \in Node : ApplyFail(m) \/ PublishFail(m) \/ Crash(m)
          BY <5>3 DEF ApplyFail, PublishFail, Crash
        <5>4. CASE \E m \in Node, q \in Path : Replicate(m, q)
          BY <5>4 DEF Replicate
        <5> QED
          BY <5>1, <5>2, <5>3, <5>4 DEF Next
      <4> QED
        BY <3>1, <4>1
    <3> QED
      BY <3>2, <3>3, <3>4
  <2>3. base'[n] = incoming[n] /\ plan[n] = {}
    BY <2>1, <2>2 DEF RecordManifest, TypeOK, Applying
  <2>4. Reached(n, p)
    BY DEF Pass, PassOf
  <2> QED
    BY <2>3, <2>4 DEF Reached
<1> QED
  BY <1>1, InductiveInvariant, PassHolds, PTL DEF Spec, Materialised

(* The invariant holds in a session under way too, so that what is derived   *)
(* from it holds of the runs that begin there.                               *)
THEOREM UnderWayHolds == SyncedInit /\ [][Next]_vars => []Inductive
<1>1. ASSUME SyncedInit PROVE Inductive
  <2>1. PICK f \in HostFolders :
          /\ files = [n \in Node |-> f]
          /\ doc = files /\ base = files /\ saved = files
          /\ live = {f[p] : p \in Path} \ {None}
    BY <1>1 DEF SyncedInit
  <2>2. /\ copies = [n \in Node |-> {}] /\ holders = [p \in Path |-> Node]
        /\ shared = TRUE /\ pc = [n \in Node |-> "idle"] /\ last = NoState
        /\ plan = [n \in Node |-> {}] /\ incoming = [n \in Node |-> EmptyManifest]
        /\ touched = [n \in Node |-> {}] /\ deleted = {} /\ edits = 0 /\ faults = 0
    BY <1>1 DEF SyncedInit
  <2>3. f \in Folder /\ f \in Manifest /\ f # NoState
    BY FoldersAssumption, FolderIsManifest, NoStateAssumption
  <2>4. \A p \in Path : f[p] \in Content \cup {None}
    BY <2>3 DEF Folder
  <2>5. EmptyManifest \in Manifest /\ \A p \in Path : EmptyManifest[p] = None
    BY EmptyManifestType DEF EmptyManifest
  <2>6. TypeOK
    <3>1. /\ files \in [Node -> Folder] /\ doc \in [Node -> Manifest] /\ base \in [Node -> Manifest]
          /\ saved \in [Node -> Manifest \cup {NoState}]
      BY <2>1, <2>3
    <3>2. live \subseteq Content
      BY <2>1, <2>4
    <3>3. /\ incoming \in [Node -> Manifest] /\ last \in Manifest \cup {NoState}
      BY <2>2, <2>5
    <3>4. /\ copies \in [Node -> SUBSET (Path \X Content)]
          /\ plan \in [Node -> SUBSET Action] /\ touched \in [Node -> SUBSET Path]
          /\ holders \in [Path -> SUBSET Node] /\ deleted \subseteq Path
      BY <2>2
    <3>5. pc \in [Node -> Stage] /\ shared \in BOOLEAN
      BY <2>2 DEF Stage
    <3>6. edits \in 0..MaxEdits /\ faults \in 0..MaxFaults
      BY <2>2, BoundAssumption
    <3> QED
      BY <3>1, <3>2, <3>3, <3>4, <3>5, <3>6 DEF TypeOK
  <2>7. \A n \in Node : /\ BaseOnDisk(n) = f /\ incoming[n] = EmptyManifest
                        /\ doc[n] = f /\ base[n] = f /\ files[n] = f /\ plan[n] = {}
    BY <2>1, <2>2, <2>3 DEF BaseOnDisk
  <2>8. RestartBase
    BY <2>7 DEF RestartBase
  <2>9. EntriesTravel
    BY <2>2 DEF EntriesTravel
  <2>10. KeysStay
    BY <2>5, <2>7 DEF KeysStay
  <2>11. TombstonesEverywhere
    BY <2>4, <2>5, <2>7, SentinelAssumption DEF TombstonesEverywhere
  <2>12. MissingIsDeleted
    BY <2>4, <2>5, <2>7, SentinelAssumption DEF MissingIsDeleted
  <2>13. PlanSound
    BY <2>7 DEF PlanSound
  <2> QED
    BY <2>6, <2>8, <2>9, <2>10, <2>11, <2>12, <2>13 DEF Inductive
<1> QED
  BY <1>1, NextInductive, PTL

---------------------------------------------------------------------------
(* A session from first start in which only the host's user writes.          *)

(* The joiner's folder is its base outside a pass; in one, a path holds what *)
(* the pass will record or has still to be written.                          *)
Follows ==
    /\ pc[Joiner] # "record"
    /\ pc[Joiner] = "seeding" => saved[Joiner] = NoState
    /\ ~Applying(Joiner) => files[Joiner] = BaseOnDisk(Joiner)
    /\ Applying(Joiner) =>
        /\ \A p \in Path : \/ files[Joiner][p] = incoming[Joiner][p]
                           \/ \E a \in plan[Joiner] : a.path = p
        /\ \A a \in plan[Joiner] : a.op = "upsert" /\ a.content = incoming[Joiner][a.path]

(* Before the host's first export nothing has happened but writes;          *)
Untouched ==
    /\ pc[Host] = "down" /\ pc[Joiner] = "down"
    /\ saved[Host] = NoState /\ saved[Joiner] = NoState
    /\ doc[Host] = EmptyManifest /\ files[Joiner] = EmptyManifest
    /\ \A p \in Path : Host \in holders[p]

(* after it the host's replica is what the host recorded or is about to, and *)
(* nobody else has written to it;                                            *)
Serving ==
    /\ pc[Host] \in {"record", "idle", "publish"}
    /\ doc[Host] = IF pc[Host] = "record" THEN incoming[Host] ELSE base[Host]
    /\ \A p \in Path : Host \in holders[p]
    /\ Follows

(* and a host that ended over two names stays down.                          *)
Ended == pc[Host] = "down" /\ ~ValidManifest(files[Host])

OnlyHostWrites ==
    /\ deleted = {}
    /\ \A c \in live : \E p \in Path : files[Host][p] = c
    /\ IF shared THEN Serving \/ Ended ELSE Untouched

(* Then what is live is in the host's folder.                                *)
LEMMA OnlyHostWritesKeeps == OnlyHostWrites => NoLostEdit
BY DEF OnlyHostWrites, NoLostEdit

(* So it is at first start.                                                  *)
LEMMA InitOnlyHostWrites ==
    ASSUME JoinerFolders \subseteq {EmptyManifest}, Init
    PROVE  OnlyHostWrites
<1>1. /\ files[Joiner] = EmptyManifest /\ pc = [n \in Node |-> "down"]
      /\ saved = [n \in Node |-> NoState] /\ doc = [n \in Node |-> EmptyManifest]
      /\ holders = [p \in Path |-> Node] /\ shared = FALSE /\ deleted = {}
  BY NodeAssumption DEF Init
<1>2. Untouched
  BY <1>1 DEF Untouched
<1>3. \A c \in live : \E p \in Path : files[Host][p] = c
  <2> SUFFICES ASSUME NEW c \in live PROVE \E p \in Path : files[Host][p] = c
    OBVIOUS
  <2>1. PICK n \in Node, p \in Path : c = files[n][p] /\ c # None
    BY DEF Init
  <2>2. n # Joiner
    BY <1>1, <2>1 DEF EmptyManifest
  <2> QED
    BY <2>1, <2>2
<1> QED
  BY <1>1, <1>2, <1>3 DEF OnlyHostWrites

(* Without deletions a replica has no tombstone.                             *)
LEMMA NoTombstones ==
    ASSUME Inductive, deleted = {}, NEW n \in Node, NEW p \in Path
    PROVE  /\ doc[n][p] \in Content \cup {None}
           /\ BaseOnDisk(n)[p] \in Content => doc[n][p] \in Content
<1>1. doc[n][p] \in State
  BY DEF Inductive, TypeOK, Manifest
<1>2. doc[n][p] # Tombstone
  BY DEF Inductive, TombstonesEverywhere
<1>3. BaseOnDisk(n)[p] \in Content => doc[n][p] # None
  BY SentinelAssumption DEF Inductive, KeysStay
<1> QED
  BY <1>1, <1>2, <1>3 DEF State

(* A joiner whose folder is its base plans to write what the document has    *)
(* and the folder has not, and nothing else.                                 *)
LEMMA JoinerPlan ==
    ASSUME Inductive, deleted = {}, files[Joiner] = BaseOnDisk(Joiner)
    PROVE  LET P == MergePlan(BaseOnDisk(Joiner), files[Joiner], doc[Joiner])
           IN  /\ \A a \in P : a.op = "upsert" /\ a.content = doc[Joiner][a.path]
               /\ \A p \in Path : files[Joiner][p] = doc[Joiner][p] \/ \E a \in P : a.path = p
<1> DEFINE b == BaseOnDisk(Joiner)
           d == doc[Joiner]
           P == MergePlan(b, b, d)
<1>1. b \in Manifest /\ b \in Folder /\ d \in Manifest
  BY BaseOnDiskType DEF Inductive, TypeOK
<1>2. \A p \in Path : d[p] \in Content \cup {None} /\ (b[p] \in Content => d[p] \in Content)
  BY NoTombstones
<1>3. \A p \in Path : b[p] \in Content \cup {None}
  BY <1>1 DEF Folder
<1> HIDE DEF b, d
<1>4. ASSUME NEW a \in P
      PROVE  a.op = "upsert" /\ a.content = d[a.path] /\ a.path = a.to
  <2>1. Fits(a, b, b, d)
    BY <1>1, MergePlanFits
  <2>2. a.op \in {"upsert", "rename", "delete", "copy"} /\ a.path \in Path /\ a.to \in Path
    BY <2>1 DEF Fits, Action, Op
  <2>3. a.op # "rename"
    BY <1>2, <2>1, <2>2 DEF Fits
  <2>4. a.op # "copy"
    BY <2>1 DEF Fits
  <2>5. a.op # "delete"
    <3> SUFFICES ASSUME a.op = "delete" PROVE FALSE
      OBVIOUS
    <3>1. d[a.path] \notin Content
      BY <2>1 DEF Fits
    <3>2. b[a.path] \in Content
      BY <1>1, <1>2, <1>3, <1>4, <2>2, <3>1, MergePlanSound, SentinelAssumption
    <3> QED
      BY <1>2, <2>2, <3>1, <3>2
  <2> QED
    BY <2>1, <2>2, <2>3, <2>4, <2>5 DEF Fits
<1>5. ASSUME NEW p \in Path, b[p] # d[p]
      PROVE  \E a \in P : a.path = p
  <2>1. \E a \in P : p \in {a.path, a.to} /\ a.op # "copy"
    BY <1>1, <1>5, MergePlanReaches
  <2> QED
    BY <1>4, <2>1
<1> QED
  BY <1>4, <1>5 DEF b, d

(* A write adds a file to the host's folder, or replaces one.                *)
LEMMA HostWriteKeeps ==
    ASSUME Inductive, OnlyHostWrites, NEW p \in Path, NEW c \in Content, UserWrite(Host, p, c)
    PROVE  OnlyHostWrites'
<1>1. /\ files' = [files EXCEPT ![Host][p] = c]
      /\ live' = (live \ {files[Host][p]}) \cup {c}
      /\ UNCHANGED <<deleted, doc, holders, shared, pc, base, saved, plan, incoming>>
  BY DEF UserWrite, Edit, sync
<1>2. files \in [Node -> Folder]
  BY DEF Inductive, TypeOK
<1>3. /\ files'[Joiner] = files[Joiner]
      /\ \A q \in Path : files'[Host][q] = IF q = p THEN c ELSE files[Host][q]
  BY <1>1, <1>2, NodeAssumption DEF Folder
<1>4. \A x \in live' : \E q \in Path : files'[Host][q] = x
  <2> SUFFICES ASSUME NEW x \in live' PROVE \E q \in Path : files'[Host][q] = x
    OBVIOUS
  <2>1. CASE x = c
    BY <1>3, <2>1
  <2>2. CASE x \in live /\ x # files[Host][p]
    <3>1. PICK q \in Path : files[Host][q] = x
      BY <2>2 DEF OnlyHostWrites
    <3> QED
      BY <1>3, <2>2, <3>1
  <2> QED
    BY <1>1, <2>1, <2>2
<1>5. Ended => Ended'
  <2>1. Entries(files[Host]) \subseteq Entries(files'[Host])
    BY <1>3, SentinelAssumption DEF Entries
  <2> QED
    BY <1>1, <2>1 DEF Ended, ValidManifest
<1>6. (Untouched => Untouched') /\ (Serving => Serving')
  <2>1. BaseOnDisk(Joiner)' = BaseOnDisk(Joiner) /\ (Applying(Joiner)' <=> Applying(Joiner))
    BY <1>1 DEF BaseOnDisk, Applying
  <2>2. Follows => Follows'
    BY <1>1, <1>3, <2>1 DEF Follows
  <2> QED
    BY <1>1, <1>3, <2>2 DEF Untouched, Serving
<1> QED
  BY <1>1, <1>4, <1>5, <1>6 DEF OnlyHostWrites

(* A step of a node, or of the document, in which nothing fails.             *)
Calm == Next /\ UNCHANGED <<edits, faults>>

LEMMA CalmSteps ==
    ASSUME Inductive, Calm
    PROVE  /\ \E n \in Node : Step(n) \/ ApplyFail(n) \/ \E p \in Path : Replicate(n, p)
           /\ UNCHANGED <<deleted, live>>
           /\ ~Fault
<1>1. edits \in Nat /\ faults \in Nat
  BY BoundAssumption DEF Inductive, TypeOK
<1>2. ~Fault
  BY <1>1 DEF Fault, Calm
<1>3. ~Users
  <2>1. Users => edits' = edits + 1
    BY DEF Users, UserWrite, UserDelete, UserRename, Edit
  <2> QED
    BY <1>1, <2>1 DEF Calm
<1>4. \A n \in Node : ~PublishFail(n) /\ ~Crash(n)
  BY <1>2 DEF PublishFail, Crash
<1>5. \E n \in Node : Step(n) \/ ApplyFail(n) \/ \E p \in Path : Replicate(n, p)
  BY <1>3, <1>4 DEF Calm, Next
<1>6. UNCHANGED <<deleted, live>>
  BY <1>5 DEF Step, ApplyFail, Replicate, Reconcile, ApplyStep, RecordManifest, Publish,
       NothingToPublish, ScanAbort, HostExport, JoinOpen, JoinBegin, history
<1> QED
  BY <1>2, <1>5, <1>6

(* The host's folder is changed by its passes only, and a joiner's step      *)
(* leaves the host alone but for the document.                               *)
LEMMA HostAside ==
    ASSUME Inductive, Calm, ~Applying(Host)
    PROVE  files'[Host] = files[Host]
<1>1. PICK n \in Node : Step(n) \/ ApplyFail(n) \/ \E p \in Path : Replicate(n, p)
  BY CalmSteps
<1>2. ApplyStep(n) => n # Host
  BY DEF ApplyStep
<1>3. CASE ApplyStep(n)
  BY <1>2, <1>3 DEF ApplyStep, Inductive, TypeOK
<1>4. CASE ~ApplyStep(n)
  BY <1>1, <1>4 DEF Step, ApplyFail, Replicate, Reconcile, RecordManifest, Publish,
       NothingToPublish, ScanAbort, HostExport, JoinOpen, JoinBegin
<1> QED
  BY <1>3, <1>4

(* A host whose scan is refused does not come back.                          *)
LEMMA EndedStays ==
    ASSUME Inductive, Calm, shared, Ended
    PROVE  shared' /\ Ended'
<1>1. PICK n \in Node : Step(n) \/ ApplyFail(n) \/ \E p \in Path : Replicate(n, p)
  BY CalmSteps
<1>2. pc \in [Node -> Stage] /\ ~HostExport /\ ~Applying(Host) /\ pc[Host] = "down"
  BY DEF Ended, HostExport, Applying, Inductive, TypeOK
<1>3. shared'
  BY <1>1, <1>2 DEF Step, ApplyFail, Replicate, Reconcile, ApplyStep, RecordManifest, Publish,
       NothingToPublish, ScanAbort, JoinOpen, JoinBegin
<1>4. pc'[Host] = "down"
  <2>1. CASE n = Host
    BY <1>1, <1>2, <2>1, NodeAssumption
       DEF Step, ApplyFail, Replicate, Reconcile, ApplyStep, RecordManifest, Publish,
           NothingToPublish, ScanAbort, Applying
  <2>2. CASE n = Joiner
    BY <1>1, <1>2, <2>2, NodeAssumption
       DEF Step, ApplyFail, Replicate, Reconcile, ApplyStep, RecordManifest, Publish,
           NothingToPublish, ScanAbort, JoinOpen, JoinBegin, Abandon
  <2> QED
    BY <2>1, <2>2
<1>5. files'[Host] = files[Host]
  BY <1>2, HostAside
<1> QED
  BY <1>3, <1>4, <1>5 DEF Ended

(* The host's first export starts the session.                               *)
LEMMA FirstExport ==
    ASSUME Inductive, Calm, Untouched, ~shared
    PROVE  IF shared' THEN Serving' ELSE Untouched'
<1>0. pc \in [Node -> Stage] /\ doc \in [Node -> Manifest] /\ incoming \in [Node -> Manifest]
      /\ files \in [Node -> Folder]
  BY DEF Inductive, TypeOK
<1>1. PICK n \in Node : Step(n) \/ ApplyFail(n) \/ \E p \in Path : Replicate(n, p)
  BY CalmSteps
<1>2. n = Host /\ HostExport
  BY <1>1, NodeAssumption
     DEF Untouched, Step, ApplyFail, Replicate, Reconcile, ApplyStep, RecordManifest, Publish,
         NothingToPublish, ScanAbort, JoinOpen, JoinBegin, Applying
<1> DEFINE m == WithTombstones(files[Host], files[Host])
<1>3. /\ WriteEntries(Host, m, Path) /\ shared' = TRUE
      /\ pc' = [pc EXCEPT ![Host] = "record"]
      /\ incoming' = [incoming EXCEPT ![Host] = files[Host]]
      /\ UNCHANGED <<files, saved, plan>>
  BY <1>2 DEF HostExport, Untouched
<1>4. files[Host] \in Folder
  BY <1>0
<1>5. m = files[Host]
  BY <1>4 DEF WithTombstones, Folder
<1>6. doc'[Host] = files[Host] /\ \A p \in Path : Host \in holders'[p]
  <2>1. doc'[Host] = [p \in Path |-> IF p \in Entries(files[Host]) THEN files[Host][p] ELSE None]
    BY <1>0, <1>3, <1>5 DEF WriteEntries, Untouched, EmptyManifest, Entries
  <2>2. doc'[Host] = files[Host]
    BY <1>4, <2>1 DEF Entries, Folder
  <2> QED
    BY <1>3, <2>2 DEF WriteEntries, Untouched
<1>7. Follows'
  <2>1. pc'[Joiner] = "down" /\ files'[Joiner] = EmptyManifest
    BY <1>0, <1>3, NodeAssumption DEF Untouched
  <2>2. BaseOnDisk(Joiner)' = EmptyManifest
    BY <1>3 DEF BaseOnDisk, Untouched
  <2> QED
    BY <2>1, <2>2 DEF Follows, Applying
<1>8. pc'[Host] = "record" /\ incoming'[Host] = files[Host]
  BY <1>0, <1>3
<1> QED
  BY <1>3, <1>6, <1>7, <1>8 DEF Serving

(* A step of the host that serves.                                           *)
LEMMA HostServes ==
    ASSUME Inductive, Calm, Serving, shared, Step(Host) \/ ApplyFail(Host)
    PROVE  shared' /\ (Serving' \/ Ended')
<1>0. /\ pc \in [Node -> Stage] /\ doc \in [Node -> Manifest] /\ incoming \in [Node -> Manifest]
      /\ files \in [Node -> Folder] /\ base \in [Node -> Manifest]
      /\ saved \in [Node -> Manifest \cup {NoState}]
  BY DEF Inductive, TypeOK
<1>1. pc[Host] \in {"record", "idle", "publish"} /\ \A p \in Path : Host \in holders[p]
  BY DEF Serving
<1>2. \/ Reconcile(Host) \/ RecordManifest(Host) \/ Publish(Host)
      \/ NothingToPublish(Host) \/ ScanAbort(Host)
  BY <1>1, NodeAssumption DEF Step, ApplyFail, ApplyStep, Applying, HostExport
<1>3. ASSUME files'[Joiner] = files[Joiner], saved'[Joiner] = saved[Joiner],
             pc'[Joiner] = pc[Joiner], plan'[Joiner] = plan[Joiner],
             incoming'[Joiner] = incoming[Joiner]
      PROVE  Follows'
  <2>1. BaseOnDisk(Joiner)' = BaseOnDisk(Joiner) /\ (Applying(Joiner)' <=> Applying(Joiner))
    BY <1>3 DEF BaseOnDisk, Applying
  <2> QED
    BY <1>3, <2>1 DEF Serving, Follows
<1>4. CASE Reconcile(Host)
  <2>1. pc[Host] = "idle" /\ doc[Host] = base[Host]
    BY <1>4 DEF Reconcile, Serving
  <2>2. /\ pc' = [pc EXCEPT ![Host] = "publish"]
        /\ UNCHANGED <<files, doc, holders, shared, base, saved, plan, incoming>>
    BY <1>4, <2>1 DEF Reconcile
  <2>3. pc'[Host] = "publish" /\ Follows'
    BY <1>0, <1>3, <2>2, NodeAssumption
  <2> QED
    BY <1>1, <2>1, <2>2, <2>3 DEF Serving
<1>5. CASE RecordManifest(Host)
  <2>1. pc[Host] = "record" /\ doc[Host] = incoming[Host]
    BY <1>1, <1>5 DEF RecordManifest, Serving, Applying
  <2>2. /\ pc' = [pc EXCEPT ![Host] = "idle"]
        /\ base' = [base EXCEPT ![Host] = incoming[Host]]
        /\ saved' = [saved EXCEPT ![Host] = incoming[Host]]
        /\ incoming' = [incoming EXCEPT ![Host] = EmptyManifest]
        /\ UNCHANGED <<files, doc, holders, shared, plan>>
    BY <1>5, <2>1 DEF RecordManifest
  <2>3. pc'[Host] = "idle" /\ base'[Host] = incoming[Host] /\ Follows'
    BY <1>0, <1>3, <2>2, NodeAssumption
  <2> QED
    BY <1>1, <2>1, <2>2, <2>3 DEF Serving
<1>6. CASE Publish(Host)
  <2> DEFINE m == WithTombstones(base[Host], files[Host])
  <2>1. /\ pc[Host] = "publish" /\ doc[Host] = base[Host]
        /\ WriteEntries(Host, m, Path)
        /\ pc' = [pc EXCEPT ![Host] = "record"]
        /\ incoming' = [incoming EXCEPT ![Host] = m]
        /\ UNCHANGED <<files, shared, saved, plan>>
    BY <1>6 DEF Publish, Serving
  <2>2. m \in Manifest /\ \A p \in Path : m[p] = None => base[Host][p] = None
    BY <1>0, WithTombstonesType, FolderIsManifest, SentinelAssumption DEF WithTombstones
  <2>3. doc'[Host] = [p \in Path |-> IF p \in Entries(m) THEN m[p] ELSE base[Host][p]]
    BY <1>0, <2>1 DEF WriteEntries, Entries
  <2> HIDE DEF m
  <2>4. doc'[Host] = m
    BY <2>2, <2>3 DEF Entries, Manifest
  <2>5. \A p \in Path : Host \in holders'[p]
    BY <1>1, <2>1 DEF WriteEntries
  <2>6. pc'[Host] = "record" /\ incoming'[Host] = m /\ Follows'
    BY <1>0, <1>3, <2>1, NodeAssumption
  <2> QED
    BY <2>1, <2>4, <2>5, <2>6 DEF Serving
<1>7. CASE NothingToPublish(Host)
  <2>1. /\ pc[Host] = "publish" /\ pc' = [pc EXCEPT ![Host] = "idle"]
        /\ UNCHANGED <<files, doc, holders, shared, base, saved, plan, incoming>>
    BY <1>7 DEF NothingToPublish
  <2>2. pc'[Host] = "idle" /\ Follows'
    BY <1>0, <1>3, <2>1, NodeAssumption
  <2> QED
    BY <1>1, <2>1, <2>2 DEF Serving
<1>8. CASE ScanAbort(Host)
  <2>1. ~ValidManifest(files[Host]) /\ pc'[Host] = "down" /\ UNCHANGED <<files, shared>>
    BY <1>0, <1>1, <1>8 DEF ScanAbort, Abandon
  <2> QED
    BY <2>1 DEF Ended
<1> QED
  BY <1>2, <1>4, <1>5, <1>6, <1>7, <1>8

(* Between its passes a joiner's folder and base stay as they are.           *)
LEMMA StaysFollowed ==
    ASSUME Follows, UNCHANGED <<files, saved>>, ~Applying(Joiner),
           \/ pc'[Joiner] \in {"down", "opening", "idle", "publish"}
           \/ pc'[Joiner] = "seeding" /\ saved[Joiner] = NoState
    PROVE  Follows'
<1>1. BaseOnDisk(Joiner)' = BaseOnDisk(Joiner)
  BY DEF BaseOnDisk
<1> QED
  BY <1>1 DEF Follows, Applying

(* A pass begins with a plan to write what the folder has not.               *)
LEMMA StartsFollowing ==
    ASSUME UNCHANGED files, pc'[Joiner] \in {"apply", "joining"},
           incoming'[Joiner] = doc[Joiner],
           \A a \in plan'[Joiner] : a.op = "upsert" /\ a.content = doc[Joiner][a.path],
           \A p \in Path : files[Joiner][p] = doc[Joiner][p] \/ \E a \in plan'[Joiner] : a.path = p
    PROVE  Follows'
BY DEF Follows, Applying

(* A joiner beside a host that serves writes into its folder what the        *)
(* document has, and nothing into the document.                              *)
LEMMA JoinerFollows ==
    ASSUME Inductive, Calm, deleted = {}, Serving, shared, Step(Joiner) \/ ApplyFail(Joiner)
    PROVE  /\ UNCHANGED <<doc, holders, shared>> /\ Follows'
           /\ pc'[Host] = pc[Host] /\ base'[Host] = base[Host] /\ incoming'[Host] = incoming[Host]
<1>0. /\ pc \in [Node -> Stage] /\ doc \in [Node -> Manifest] /\ incoming \in [Node -> Manifest]
      /\ files \in [Node -> Folder] /\ base \in [Node -> Manifest]
      /\ saved \in [Node -> Manifest \cup {NoState}] /\ plan \in [Node -> SUBSET Action]
      /\ pc[Joiner] # "down" => base[Joiner] = BaseOnDisk(Joiner)
  BY DEF Inductive, TypeOK, RestartBase
<1>1. Follows /\ pc[Host] # "down"
  BY DEF Serving
<1>2. ~ApplyFail(Joiner) /\ ~Publish(Joiner)
  <2>1. ~ApplyFail(Joiner)
    BY <1>1, CalmSteps, NodeAssumption DEF ApplyFail, Peer
  <2>2. pc[Joiner] = "publish" => files[Joiner] = base[Joiner]
    BY <1>0, <1>1 DEF Follows, Applying
  <2>3. ~Publish(Joiner)
    BY <2>2 DEF Publish, MustPublish, DiffManifests
  <2> QED
    BY <2>1, <2>3
<1>3. \/ Reconcile(Joiner) \/ ApplyStep(Joiner) \/ RecordManifest(Joiner)
      \/ NothingToPublish(Joiner) \/ ScanAbort(Joiner) \/ JoinOpen \/ JoinBegin
  BY <1>2, NodeAssumption DEF Step
<1>4. UNCHANGED <<doc, holders, shared>>
  BY <1>3 DEF Reconcile, ApplyStep, RecordManifest, NothingToPublish, ScanAbort, JoinOpen, JoinBegin
<1>5. pc'[Host] = pc[Host] /\ base'[Host] = base[Host] /\ incoming'[Host] = incoming[Host]
  BY <1>0, <1>3, NodeAssumption DEF Reconcile, ApplyStep, RecordManifest, NothingToPublish,
       ScanAbort, JoinOpen, JoinBegin, Abandon
<1> SUFFICES Follows'
  BY <1>4, <1>5
<1>6. CASE Reconcile(Joiner)
  <2>1. ~Applying(Joiner) /\ files[Joiner] = BaseOnDisk(Joiner) /\ base[Joiner] = BaseOnDisk(Joiner)
    BY <1>0, <1>1, <1>6 DEF Follows, Applying, Reconcile
  <2>2. CASE doc[Joiner] = base[Joiner]
    <3>1. pc'[Joiner] = "publish" /\ UNCHANGED <<files, saved>>
      BY <1>0, <1>6, <2>2 DEF Reconcile
    <3> QED
      BY <1>1, <2>1, <3>1, StaysFollowed
  <2>3. CASE doc[Joiner] # base[Joiner]
    <3>1. /\ pc'[Joiner] = "apply" /\ incoming'[Joiner] = doc[Joiner] /\ UNCHANGED files
          /\ plan'[Joiner] = MergePlan(base[Joiner], files[Joiner], doc[Joiner])
      BY <1>0, <1>6, <2>3 DEF Reconcile
    <3> QED
      BY <2>1, <3>1, JoinerPlan, StartsFollowing
  <2> QED
    BY <2>2, <2>3
<1>7. CASE JoinBegin
  <2>1. ~Applying(Joiner) /\ files[Joiner] = BaseOnDisk(Joiner) /\ base[Joiner] = BaseOnDisk(Joiner)
    BY <1>0, <1>1, <1>7 DEF Follows, Applying, JoinBegin
  <2>2. pc'[Joiner] = "joining" /\ incoming'[Joiner] = doc[Joiner] /\ UNCHANGED files
    BY <1>0, <1>7 DEF JoinBegin
  <2>3. CASE pc[Joiner] = "seeding"
    <3>1. plan'[Joiner] = SeedPlan(doc[Joiner])
      BY <1>0, <1>7, <2>3 DEF JoinBegin
    <3>0. \A p \in Path : files[Joiner][p] = None
      BY <1>1, <2>1, <2>3 DEF Follows, BaseOnDisk, EmptyManifest
    <3>2. \A a \in SeedPlan(doc[Joiner]) : a.op = "upsert" /\ a.content = doc[Joiner][a.path]
      BY DEF SeedPlan
    <3>3. ASSUME NEW p \in Path
          PROVE  files[Joiner][p] = doc[Joiner][p] \/ \E a \in SeedPlan(doc[Joiner]) : a.path = p
      <4>1. CASE doc[Joiner][p] \in Content
        BY <1>0, <4>1, SeedPlanComplete
      <4>2. CASE doc[Joiner][p] = None
        BY <3>0, <4>2
      <4> QED
        BY <4>1, <4>2, NoTombstones
    <3> QED
      BY <2>2, <3>1, <3>2, <3>3, StartsFollowing
  <2>4. CASE pc[Joiner] = "opening"
    <3>1. plan'[Joiner] = MergePlan(base[Joiner], files[Joiner], doc[Joiner])
      BY <1>0, <1>7, <2>4 DEF JoinBegin
    <3> QED
      BY <2>1, <2>2, <3>1, JoinerPlan, StartsFollowing
  <2> QED
    BY <1>7, <2>3, <2>4 DEF JoinBegin
<1>8. CASE ApplyStep(Joiner)
  <2>1. PICK a \in plan[Joiner] :
          /\ files' = [files EXCEPT ![Joiner] = ApplyToFolder(files[Joiner], a)]
          /\ plan' = [plan EXCEPT ![Joiner] = plan[Joiner] \ {a}]
    BY <1>8 DEF ApplyStep
  <2>2. Applying(Joiner) /\ UNCHANGED <<pc, incoming>>
    BY <1>8 DEF ApplyStep
  <2>3. a \in Action /\ a.op = "upsert" /\ a.content = incoming[Joiner][a.path]
    BY <1>0, <1>1, <2>2 DEF Follows
  <2>4. \A p \in Path : files'[Joiner][p] = IF p = a.path THEN a.content ELSE files[Joiner][p]
    BY <1>0, <2>1, <2>3, ApplyToFolderCases
  <2>5. plan'[Joiner] = plan[Joiner] \ {a}
    BY <1>0, <2>1
  <2>6. Applying(Joiner)' /\ pc'[Joiner] \notin {"record", "seeding"}
    BY <1>1, <2>2 DEF Applying, Follows
  <2>7. \A b \in plan'[Joiner] : b.op = "upsert" /\ b.content = incoming'[Joiner][b.path]
    BY <1>1, <2>2, <2>5 DEF Follows
  <2>8. \A p \in Path : \/ files'[Joiner][p] = incoming'[Joiner][p]
                      \/ \E b \in plan'[Joiner] : b.path = p
    BY <1>1, <2>2, <2>3, <2>4, <2>5 DEF Follows
  <2> QED
    BY <2>6, <2>7, <2>8 DEF Follows
<1>9. CASE RecordManifest(Joiner)
  <2>1. /\ Applying(Joiner) /\ plan[Joiner] = {}
        /\ saved'[Joiner] = incoming[Joiner] /\ UNCHANGED files
        /\ pc'[Joiner] \in {"idle", "publish"}
    BY <1>0, <1>1, <1>9 DEF RecordManifest, Follows
  <2>2. files[Joiner] = incoming[Joiner]
    BY <1>0, <1>1, <2>1 DEF Follows, Folder, Manifest
  <2>3. incoming[Joiner] # NoState
    BY <1>0, NoStateAssumption
  <2>4. BaseOnDisk(Joiner)' = incoming[Joiner]
    BY <2>1, <2>3 DEF BaseOnDisk
  <2>5. pc'[Joiner] \notin {"record", "seeding"} /\ ~Applying(Joiner)' /\ files'[Joiner] = incoming[Joiner]
    BY <2>1, <2>2 DEF Applying
  <2> QED
    BY <2>4, <2>5 DEF Follows
<1>10. CASE NothingToPublish(Joiner) \/ ScanAbort(Joiner) \/ JoinOpen
  <2>1. /\ \/ pc'[Joiner] \in {"down", "opening", "idle"}
           \/ pc'[Joiner] = "seeding" /\ saved[Joiner] = NoState
        /\ UNCHANGED <<files, saved>>
    BY <1>0, <1>10 DEF NothingToPublish, ScanAbort, Abandon, JoinOpen
  <2>2. ~Applying(Joiner)
    BY <1>10 DEF NothingToPublish, ScanAbort, JoinOpen, Applying
  <2> QED
    BY <1>1, <2>1, <2>2, StaysFollowed
<1> QED
  BY <1>3, <1>6, <1>7, <1>8, <1>9, <1>10

(* A delivery reaches the joiner only.                                       *)
LEMMA DeliveryServes ==
    ASSUME Inductive, Serving, NEW n \in Node, NEW p \in Path, Replicate(n, p)
    PROVE  UNCHANGED shared /\ Serving'
<1>0. doc \in [Node -> Manifest]
  BY DEF Inductive, TypeOK
<1>1. n = Joiner
  BY DEF Replicate, Serving
<1>2. /\ doc'[Host] = doc[Host] /\ holders' = [holders EXCEPT ![p] = Node]
      /\ UNCHANGED <<files, shared, pc, base, saved, plan, incoming>>
  BY <1>0, <1>1, NodeAssumption DEF Replicate
<1>3. \A q \in Path : Host \in holders'[q]
  BY <1>2 DEF Serving, Inductive, TypeOK
<1>4. Follows'
  <2>1. BaseOnDisk(Joiner)' = BaseOnDisk(Joiner) /\ (Applying(Joiner)' <=> Applying(Joiner))
    BY <1>2 DEF BaseOnDisk, Applying
  <2> QED
    BY <1>2, <2>1 DEF Serving, Follows
<1> QED
  BY <1>2, <1>3, <1>4 DEF Serving

(* Without faults and deletions a session in which only the host's user      *)
(* writes stays one in which only the host writes.                           *)
LEMMA CalmKeeps ==
    ASSUME Inductive, OnlyHostWrites, Calm
    PROVE  OnlyHostWrites'
<1>1. deleted' = {} /\ live' = live
  BY CalmSteps DEF OnlyHostWrites
<1>2. files'[Host] = files[Host]
  BY HostAside DEF OnlyHostWrites, Serving, Ended, Untouched, Applying
<1>3. IF shared' THEN Serving' \/ Ended' ELSE Untouched'
  <2>1. CASE ~shared
    BY <2>1, FirstExport DEF OnlyHostWrites
  <2>2. CASE shared /\ Ended
    BY <2>2, EndedStays
  <2>3. CASE shared /\ Serving
    <3>1. PICK n \in Node : Step(n) \/ ApplyFail(n) \/ \E p \in Path : Replicate(n, p)
      BY CalmSteps
    <3>2. CASE n = Host /\ (Step(n) \/ ApplyFail(n))
      BY <2>3, <3>2, HostServes
    <3>3. CASE n = Joiner /\ (Step(n) \/ ApplyFail(n))
      <4>1. /\ UNCHANGED <<doc, holders, shared>> /\ Follows' /\ pc'[Host] = pc[Host]
            /\ base'[Host] = base[Host] /\ incoming'[Host] = incoming[Host]
        BY <2>3, <3>3, JoinerFollows DEF OnlyHostWrites
      <4> QED
        BY <2>3, <4>1 DEF Serving
    <3>4. CASE \E p \in Path : Replicate(n, p)
      BY <2>3, <3>4, DeliveryServes
    <3> QED
      BY <3>1, <3>2, <3>3, <3>4
  <2> QED
    BY <2>1, <2>2, <2>3 DEF OnlyHostWrites
<1> QED
  BY <1>1, <1>2, <1>3 DEF OnlyHostWrites

(* In a session from first start, with a joiner that starts with an empty    *)
(* folder, no fault and writes at the host only, no write is lost, however   *)
(* many there are and whenever they come.  (A joiner with files of its own   *)
(* publishes them over the host's, merged or not.)                           *)
THEOREM HostWritesHold ==
    JoinerFolders \subseteq {EmptyManifest} /\ OneWriterSpec => []HostWritesKept
<1> DEFINE Kept == mode = "first" => Inductive /\ OnlyHostWrites
<1>1. JoinerFolders \subseteq {EmptyManifest} /\ OneWriterInit => Kept
  BY InitInductive, InitOnlyHostWrites DEF OneWriterInit
<1>2. Kept /\ [OneWriterNext]_<<vars, mode>> => Kept'
  <2> SUFFICES ASSUME Kept, [OneWriterNext]_<<vars, mode>>, mode' = "first"
               PROVE  (Inductive /\ OnlyHostWrites)'
    OBVIOUS
  <2>1. mode = "first" /\ Inductive /\ OnlyHostWrites
    BY DEF OneWriterNext
  <2>2. CASE UNCHANGED <<vars, mode>>
    <3>1. UNCHANGED vars
      BY <2>2
    <3>2. Inductive'
      BY <2>1, <3>1, NextInductive
    <3>3. OnlyHostWrites'
      BY <2>1, <3>1 DEF vars, sync, history, bounds, OnlyHostWrites, Serving, Ended, Untouched,
           Follows, BaseOnDisk, Applying
    <3> QED
      BY <3>2, <3>3
  <2>3. CASE Next /\ edits' = edits /\ faults' = faults
    <3>1. Inductive'
      BY <2>1, <2>3, NextInductive
    <3> QED
      BY <2>1, <2>3, <3>1, CalmKeeps DEF Calm
  <2>4. CASE \E p \in Path, c \in Content : UserWrite(Host, p, c)
    <3>1. Next
      BY <2>4 DEF Next, Users
    <3> QED
      BY <2>1, <2>4, <3>1, NextInductive, HostWriteKeeps
  <2> QED
    BY <2>1, <2>2, <2>3, <2>4 DEF OneWriterNext, Writer
<1>3. Kept => HostWritesKept
  BY OnlyHostWritesKeeps DEF HostWritesKept
<1> QED
  BY <1>1, <1>2, <1>3, PTL DEF OneWriterSpec
=============================================================================
