----------------------------- MODULE SyncFollow -----------------------------
(***************************************************************************)
(* A read-only follower (`sync docs-follow` in src/src/main.rs): a folder  *)
(* that is to show what a host publishes in a docs document.               *)
(*                                                                         *)
(* The publisher is SyncSession's host seen from outside: entries and      *)
(* tombstones that appear in the document and arrive at the follower's     *)
(* replica in any order.  The follower has no retry: an error in a pass    *)
(* ends the process, and its user starts it again.                         *)
(***************************************************************************)
EXTENDS SyncManifest

CONSTANTS
    NoState,         \* no state file
    FollowerFolders, \* the folder's possible contents at first start
    MaxPublished,    \* bound on what the host publishes
    MaxEdits,        \* bound on changes by the follower's own user
    MaxFaults        \* bound on crashes and failed passes

ASSUME NoStateAssumption == NoState \notin Manifest
ASSUME FollowAssumption == FollowerFolders \subseteq Folder
ASSUME FollowBounds == MaxPublished \in Nat /\ MaxEdits \in Nat /\ MaxFaults \in Nat

VARIABLES
    remote,     \* the document as its publisher has it
    replica,    \* the document as the follower has it
    files, copies,
    pc,         \* where the follower is
    base,       \* base_manifest
    saved,      \* base-manifest.json
    plan, incoming,
    \* history
    unpublished,  \* paths that were in the document and no longer are
    edited,       \* paths the follower's user changed
    touched,      \* those changed since the last scan of a pass that runs
    ahead,        \* paths a pass had written when its process ended
    published, edits, faults

doc     == <<remote, replica>>
folder  == <<files, copies>>
loop    == <<pc, plan, incoming>>
kept    == <<base, saved>>
history == <<unpublished, edited, touched, ahead>>
bounds  == <<published, edits, faults>>
vars    == <<doc, folder, loop, kept, history, bounds>>

TypeOK ==
    /\ remote \in Manifest /\ replica \in Manifest
    /\ files \in Folder /\ copies \in SUBSET (Path \X Content)
    /\ pc \in {"down", "opening", "waiting", "seeding", "idle", "apply"}
    /\ base \in Manifest /\ saved \in Manifest \cup {NoState}
    /\ plan \subseteq Action /\ incoming \in Manifest
    /\ edited \subseteq Path /\ touched \subseteq edited
    /\ unpublished \subseteq Path /\ ahead \subseteq Path
    /\ published \in 0..MaxPublished /\ edits \in 0..MaxEdits /\ faults \in 0..MaxFaults

Init ==
    /\ remote = EmptyManifest /\ replica = EmptyManifest
    /\ files \in FollowerFolders /\ copies = {}
    /\ pc = "down" /\ plan = {} /\ incoming = EmptyManifest
    /\ base = EmptyManifest /\ saved = NoState
    /\ unpublished = {} /\ edited = {} /\ touched = {} /\ ahead = {}
    /\ published = 0 /\ edits = 0 /\ faults = 0

---------------------------------------------------------------------------
(* The document and the users.                                              *)

PublishEntry(p, c) ==
    /\ published < MaxPublished
    /\ remote[p] # c /\ (c = Tombstone => remote[p] # None)
    /\ published' = published + 1
    /\ remote' = [remote EXCEPT ![p] = c]
    /\ unpublished' = IF c = Tombstone THEN unpublished \cup {p} ELSE unpublished
    /\ UNCHANGED <<replica, folder, loop, kept, edited, touched, ahead, edits, faults>>

Replicate(p) ==
    /\ pc # "down" /\ replica[p] # remote[p]
    /\ replica' = [replica EXCEPT ![p] = remote[p]]
    /\ UNCHANGED <<remote, folder, loop, kept, history, bounds>>

UserChange(p, c) ==
    /\ edits < MaxEdits /\ files[p] # c
    /\ edits' = edits + 1
    /\ files' = [files EXCEPT ![p] = c]
    /\ edited' = edited \cup {p}
    /\ touched' = IF pc \in {"apply", "seeding"} THEN touched \cup {p} ELSE touched
    /\ UNCHANGED <<doc, copies, loop, kept, unpublished, ahead, published, faults>>

---------------------------------------------------------------------------
(* The follower.                                                            *)

BaseFromFolder == files  \* slip: the state file is not read
\* Without a state file the folder as it is counts as what was last followed.
FirstBase == IF saved = NoState THEN files ELSE saved

Open ==
    /\ pc = "down" /\ (saved = NoState => ValidManifest(files))
    /\ pc' = "opening" /\ base' = FirstBase
    /\ UNCHANGED <<doc, folder, plan, incoming, saved, history, bounds>>

\* The document is imported and the folder scanned again.  An empty folder without state
\* is to be seeded, whatever its user puts there while the follower waits.
Scan ==
    /\ pc = "opening" /\ ValidManifest(files)
    /\ pc' = IF saved = NoState /\ Entries(files) = {} THEN "seeding" ELSE "waiting"
    /\ touched' = {}
    /\ UNCHANGED <<doc, folder, plan, incoming, kept, unpublished, edited, ahead, bounds>>

Pass(actions) == pc' = "apply" /\ plan' = actions /\ incoming' = replica

\* wait_for_remote_manifest has found an entry or given up; unless the folder is to be
\* seeded the manifest that was read is not used.
Begin ==
    /\ ValidManifest(replica)
    /\ \/ pc = "seeding" /\ Pass(SeedPlan(replica))
       \/ pc = "waiting" /\ pc' = "idle" /\ UNCHANGED <<plan, incoming>>
    /\ UNCHANGED <<doc, folder, kept, history, bounds>>

Merge == MergePlan(base, files, replica)

\* An empty plan is one without actions and without conflicts.
NothingToDo == Merge = {} /\ KeptLocal(base, files, replica) = {}

ReadAndMerge ==
    /\ pc = "idle" /\ ValidManifest(files) /\ ValidManifest(replica)
    /\ ~NothingToDo
    /\ Pass(Merge) /\ touched' = {}
    /\ UNCHANGED <<doc, folder, kept, unpublished, edited, ahead, bounds>>

\* A pass with nothing to do: woken by an event it records the manifest; a tick leaves
\* the base as it is.
EventWithoutPlan ==
    /\ pc = "idle" /\ ValidManifest(files) /\ ValidManifest(replica)
    /\ NothingToDo /\ base # replica
    /\ base' = replica /\ saved' = replica
    /\ UNCHANGED <<doc, folder, loop, history, bounds>>

\* A rename moves what the source holds by then, so a change there moves with it.
ApplyStep ==
    /\ pc = "apply"
    /\ \E a \in plan :
        /\ \A b \in plan : a.path <= b.path
        /\ files' = ApplyToFolder(files, a)
        /\ copies' = IF a.op = "copy" THEN copies \cup {<<a.path, a.content>>} ELSE copies
        /\ plan' = plan \ {a}
        /\ edited' = IF a.op = "rename" /\ a.path \in touched THEN edited \cup {a.to} ELSE edited
    /\ UNCHANGED <<doc, pc, incoming, kept, unpublished, touched, ahead, bounds>>

RecordEarly ==           \* slip: the manifest is saved before it is applied
    /\ pc = "apply" /\ plan # {}
    /\ saved' = incoming /\ base' = incoming /\ pc' = "idle"
    /\ plan' = {} /\ incoming' = EmptyManifest
    /\ UNCHANGED <<doc, folder, history, bounds>>

Record ==
    /\ pc = "apply" /\ plan = {}
    /\ saved' = incoming /\ base' = incoming
    /\ pc' = "idle" /\ incoming' = EmptyManifest
    /\ UNCHANGED <<doc, folder, plan, history, bounds>>

End == /\ pc' = "down" /\ plan' = {} /\ incoming' = EmptyManifest
       /\ UNCHANGED <<doc, folder, kept, unpublished, edited, touched, published, edits>>

\* A failed fetch or read, Ctrl+C or a kill, at any point.
Crash ==
    /\ pc # "down" /\ faults < MaxFaults
    /\ faults' = faults + 1
    /\ ahead' = IF pc = "apply" THEN ahead \cup {p \in Path : files[p] # base[p]} ELSE ahead
    /\ End

\* Two names that differ in case.
Abort ==
    /\ \/ pc \in {"opening", "idle"} /\ ~ValidManifest(files)
       \/ pc \in {"waiting", "seeding", "idle"} /\ ~ValidManifest(replica)
    /\ UNCHANGED <<ahead, faults>> /\ End

Follower == Open \/ Scan \/ Begin \/ ReadAndMerge \/ ApplyStep \/ Record \/ Abort

Next ==
    \/ \E p \in Path : \/ Replicate(p)
                       \/ \E c \in Content \cup {Tombstone} : PublishEntry(p, c)
                       \/ \E c \in Content \cup {None} : UserChange(p, c)
    \/ Follower \/ EventWithoutPlan \/ Crash

Spec == Init /\ [][Next]_vars

\* The process is started again and ticks, and entries arrive; nobody has to send it an
\* event.
FairSpec == Spec /\ WF_vars(Follower) /\ \A p \in Path : WF_vars(Replicate(p))

---------------------------------------------------------------------------
(* Properties.                                                              *)

(* Once the follower has recorded a manifest, a pass removes a file only if *)
(* its publisher removed it, however little of the document has arrived.    *)
(* Before that its own folder is the base and what has not arrived counts   *)
(* as removed.                                                              *)
RemovalsArePublished ==
    [][\A p \in Path :
          (plan' # plan /\ files[p] # None /\ files'[p] = None)
          => p \in unpublished \/ saved = NoState]_vars

(* Published again after a deletion: absent and tombstone compare as        *)
(* different, so the file arrives as a conflict copy.                       *)
Recreated(p) == p \in unpublished /\ remote[p] \in Content

(* In the end the folder shows what is published, at every path that its    *)
(* own user left alone and that was not recreated.  What a pass had written *)
(* when its process ended may stay behind: it differs from the base, so the *)
(* next change of that file is taken for a conflict with the follower's     *)
(* user, and one that changes it back for no change at all.                 *)
Follows ==
    <>[](ValidManifest(remote) /\ ValidManifest(files) =>
           \A p \in Path \ (edited \cup ahead) :
              Recreated(p) \/ files[p] = (IF remote[p] \in Content THEN remote[p] ELSE None))
============================================================================
