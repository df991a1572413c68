---------------------------- MODULE SyncSession ----------------------------
(***************************************************************************)
(* A bidirectional folder sync between a host and one joiner: `sync host`  *)
(* and `sync join` of src/src/main.rs over the docs node of                *)
(* src/src/sync_docs.rs.                                                   *)
(*                                                                         *)
(* Each node keeps a folder, a replica of the docs document, the manifest  *)
(* both sides last agreed on (`base`) and a copy of it on disk (`saved`).  *)
(* One pass of the select! loop reads the document, merges it into the     *)
(* folder action by action, records the document as the new base, and then *)
(* publishes the folder if it differs from the base.                       *)
(*                                                                         *)
(* The docs document (iroh-docs, external) keeps per key the entry with    *)
(* the latest timestamp.  Clocks are taken as synchronised, so the latest  *)
(* write of a key wins; `holders` names the nodes that have received it.   *)
(***************************************************************************)
EXTENDS SyncManifest

CONSTANTS
    Host, Joiner,    \* the two nodes
    NoState,         \* no manifest: no state file, or nothing published yet
    HostFolders,     \* the host's possible initial folders
    JoinerFolders,   \* the joiner's possible initial folders
    Editors,         \* the nodes whose users change files
    UserOps,         \* what the users do: "write", "delete", "rename"
    MaxEdits,        \* bound on user operations
    MaxFaults        \* bound on crashes and failed fetches or publications

Node == {Host, Joiner}
Peer(n) == IF n = Host THEN Joiner ELSE Host

ASSUME NodeAssumption == Host # Joiner
ASSUME NoStateAssumption == NoState \notin Manifest
ASSUME FoldersAssumption == HostFolders \subseteq Folder /\ JoinerFolders \subseteq Folder
ASSUME UserAssumption == Editors \subseteq Node /\ UserOps \subseteq {"write", "delete", "rename"}
ASSUME BoundAssumption == MaxEdits \in Nat /\ MaxFaults \in Nat

VARIABLES
    files,      \* files[n]: the folder of n
    copies,     \* copies[n]: its conflict copies, <<original path, content>>
    doc,        \* doc[n]: the document as n's replica shows it
    holders,    \* holders[p]: the nodes whose replica has the latest entry of p
    shared,     \* the host has recorded the document's id and given out a ticket
    pc,         \* pc[n]: where n's sync loop is
    base,       \* base[n]: base_manifest, or the host's published_manifest
    saved,      \* saved[n]: the manifest state file
    last,       \* last_published_manifest of the joiner
    plan,       \* plan[n]: the actions the pass has still to execute
    incoming,   \* incoming[n]: the manifest the pass will record as base
    \* history
    touched,    \* touched[n]: paths its user changed since the pass scanned
    deleted,    \* paths some user has deleted or renamed away
    live,       \* contents users put in place and no user replaced
    edits, faults

sync == <<doc, holders, shared, pc, base, saved, last, plan, incoming>>
bounds == <<edits, faults>>
history == <<touched, deleted, live>>
vars == <<files, copies, sync, history, bounds>>

(* "opening" and "seeding" are the joiner that waits for the document, to   *)
(* merge it or to seed a folder that was empty; "joining" its start-up pass;*)
(* "apply" a pass of the loop; "publish" a pass that has reconciled;        *)
(* "record" a host that has published and not yet saved what.               *)
Stage == {"down", "opening", "seeding", "joining", "idle", "apply", "publish", "record"}

TypeOK ==
    /\ files \in [Node -> Folder]
    /\ copies \in [Node -> SUBSET (Path \X Content)]
    /\ doc \in [Node -> Manifest]
    /\ holders \in [Path -> SUBSET Node]
    /\ shared \in BOOLEAN
    /\ pc \in [Node -> Stage]
    /\ base \in [Node -> Manifest]
    /\ saved \in [Node -> Manifest \cup {NoState}]
    /\ last \in Manifest \cup {NoState}
    /\ plan \in [Node -> SUBSET Action]
    /\ incoming \in [Node -> Manifest]
    /\ touched \in [Node -> SUBSET Path]
    /\ deleted \subseteq Path
    /\ live \subseteq Content
    /\ edits \in 0..MaxEdits
    /\ faults \in 0..MaxFaults

Init ==
    /\ files \in {[n \in Node |-> IF n = Host THEN h ELSE j] :
                     h \in HostFolders, j \in JoinerFolders}
    /\ copies = [n \in Node |-> {}]
    /\ doc = [n \in Node |-> EmptyManifest]
    /\ holders = [p \in Path |-> Node]
    /\ shared = FALSE
    /\ pc = [n \in Node |-> "down"]
    /\ base = [n \in Node |-> EmptyManifest]
    /\ saved = [n \in Node |-> NoState]
    /\ last = NoState
    /\ plan = [n \in Node |-> {}]
    /\ incoming = [n \in Node |-> EmptyManifest]
    /\ touched = [n \in Node |-> {}]
    /\ deleted = {}
    /\ live = {files[n][p] : n \in Node, p \in Path} \ {None}
    /\ edits = 0 /\ faults = 0

(* A session under way: the host has exported its folder, the joiner has     *)
(* seeded its own from it, and both have recorded that.                      *)
SyncedInit ==
    \E f \in HostFolders :
        /\ files = [n \in Node |-> f]
        /\ doc = files /\ base = files /\ saved = files
        /\ copies = [n \in Node |-> {}]
        /\ holders = [p \in Path |-> Node]
        /\ shared = TRUE
        /\ pc = [n \in Node |-> "idle"]
        /\ last = NoState
        /\ plan = [n \in Node |-> {}]
        /\ incoming = [n \in Node |-> EmptyManifest]
        /\ touched = [n \in Node |-> {}]
        /\ deleted = {}
        /\ live = {f[p] : p \in Path} \ {None}
        /\ edits = 0 /\ faults = 0

---------------------------------------------------------------------------
(* Users.  An edit during a pass is one the pass's scan has not seen.       *)

Applying(n) == pc[n] \in {"apply", "joining"}

Edit(n, ps) ==
    /\ n \in Editors /\ edits < MaxEdits
    /\ edits' = edits + 1
    /\ touched' = [touched EXCEPT ![n] =
                     IF Applying(n) \/ pc[n] = "seeding" THEN @ \cup ps ELSE @]
    /\ UNCHANGED <<copies, sync, faults>>

UserWrite(n, p, c) ==
    /\ "write" \in UserOps
    /\ files[n][p] # c
    /\ Edit(n, {p})
    /\ files' = [files EXCEPT ![n][p] = c]
    /\ live' = (live \ {files[n][p]}) \cup {c}
    /\ UNCHANGED deleted

UserDelete(n, p) ==
    /\ "delete" \in UserOps
    /\ files[n][p] # None
    /\ Edit(n, {p})
    /\ files' = [files EXCEPT ![n][p] = None]
    /\ live' = live \ {files[n][p]}
    /\ deleted' = deleted \cup {p}

UserRename(n, p, q) ==
    /\ "rename" \in UserOps
    /\ files[n][p] # None /\ files[n][q] = None
    /\ Edit(n, {p, q})
    /\ files' = [files EXCEPT ![n][p] = None, ![n][q] = files[n][p]]
    /\ deleted' = deleted \cup {p}
    /\ UNCHANGED live

---------------------------------------------------------------------------
(* The document.                                                            *)

(* n writes the entries of m at the paths ps; its author's timestamps are   *)
(* new, whether the values are or not.                                      *)
WriteEntries(n, m, ps) ==
    /\ doc' = [doc EXCEPT ![n] = [p \in Path |-> IF p \in ps \cap Entries(m) THEN m[p] ELSE @[p]]]
    /\ holders' = [p \in Path |-> IF p \in ps \cap Entries(m) THEN {n} ELSE holders[p]]

Replicate(n, p) ==
    /\ pc[n] # "down" /\ pc[Peer(n)] # "down"
    /\ n \notin holders[p]
    /\ doc' = [doc EXCEPT ![n][p] = doc[Peer(n)][p]]
    /\ holders' = [holders EXCEPT ![p] = Node]
    /\ UNCHANGED <<files, copies, shared, pc, base, saved, last, plan, incoming, history, bounds>>

(* A publication that fails midway leaves the entries before some path, or   *)
(* all of them when the peer ticket that follows them cannot be written.     *)
Prefixes == {Path} \cup {{p \in Path : p < k} : k \in Path}

Fault == faults < MaxFaults /\ faults' = faults + 1

---------------------------------------------------------------------------
(* Starting.                                                                *)

BaseFromScan(n) ==       \* slip: without a state file the folder is the base
    IF saved[n] = NoState THEN files[n] ELSE saved[n]

BaseOnDisk(n) == IF saved[n] = NoState THEN EmptyManifest ELSE saved[n]

(* run_sync_host publishes the whole folder before it reads the document.   *)
(* If that fails the process ends; a new document that has no id file yet   *)
(* is never opened again.                                                   *)
HostExport ==
    /\ pc[Host] = "down"
    /\ ValidManifest(files[Host])
    /\ LET previous == IF saved[Host] = NoState THEN files[Host] ELSE saved[Host]
           m == WithTombstones(previous, files[Host])
       IN  \/ /\ WriteEntries(Host, m, Path)
              /\ shared' = TRUE
              /\ pc' = [pc EXCEPT ![Host] = "record"]
              /\ incoming' = [incoming EXCEPT ![Host] = files[Host]]
              /\ UNCHANGED faults
           \/ /\ shared /\ Fault
              /\ \E ps \in Prefixes : WriteEntries(Host, m, ps)
              /\ UNCHANGED <<shared, pc, incoming>>
    /\ base' = [base EXCEPT ![Host] = BaseOnDisk(Host)]
    /\ UNCHANGED <<files, copies, saved, last, plan, history, edits>>

(* The joiner looks at its folder once, before it waits for the document:   *)
(* an empty one without state is to be seeded, whatever the user has put    *)
(* there by then.                                                           *)
JoinOpen ==
    /\ pc[Joiner] = "down" /\ shared /\ ValidManifest(files[Joiner])
    /\ pc' = [pc EXCEPT ![Joiner] =
               IF saved[Joiner] = NoState /\ Entries(files[Joiner]) = {}
               THEN "seeding" ELSE "opening"]
    /\ base' = [base EXCEPT ![Joiner] = BaseOnDisk(Joiner)]
    /\ touched' = [touched EXCEPT ![Joiner] = {}]
    /\ UNCHANGED <<files, copies, doc, holders, shared, saved, last, plan, incoming, deleted, live, bounds>>

(* The start-up pass.  The joiner does not wait for the document to arrive  *)
(* in its replica: an empty one will do in the end.                         *)
JoinBegin ==
    /\ pc[Joiner] \in {"opening", "seeding"} /\ ValidManifest(doc[Joiner])
    /\ pc' = [pc EXCEPT ![Joiner] = "joining"]
    /\ incoming' = [incoming EXCEPT ![Joiner] = doc[Joiner]]
    /\ \/ /\ pc[Joiner] = "seeding"
          /\ plan' = [plan EXCEPT ![Joiner] = SeedPlan(doc[Joiner])]
          /\ UNCHANGED touched
       \/ /\ pc[Joiner] = "opening" /\ ValidManifest(files[Joiner])
          /\ plan' = [plan EXCEPT ![Joiner] = MergePlan(base[Joiner], files[Joiner], doc[Joiner])]
          /\ touched' = [touched EXCEPT ![Joiner] = {}]
    /\ UNCHANGED <<files, copies, doc, holders, shared, base, saved, last, deleted, live, bounds>>

---------------------------------------------------------------------------
(* One pass of the loop.                                                    *)

(* reconcile_host_remote and reconcile_join_remote: read the document, scan *)
(* the folder and merge.                                                    *)
Reconcile(n) ==
    /\ pc[n] = "idle"
    /\ ValidManifest(doc[n])
    /\ IF doc[n] = base[n]
       THEN /\ pc' = [pc EXCEPT ![n] = "publish"]
            /\ UNCHANGED <<plan, incoming, touched>>
       ELSE /\ ValidManifest(files[n])
            /\ pc' = [pc EXCEPT ![n] = "apply"]
            /\ plan' = [plan EXCEPT ![n] = MergePlan(base[n], files[n], doc[n])]
            /\ incoming' = [incoming EXCEPT ![n] = doc[n]]
            /\ touched' = [touched EXCEPT ![n] = {}]
    /\ UNCHANGED <<files, copies, doc, holders, shared, base, saved, last, deleted, live, bounds>>

(* The next action of the plan.                                             *)
ApplyStep(n) ==
    /\ Applying(n)
    /\ \E a \in plan[n] :
        /\ \A b \in plan[n] : a.path <= b.path
        /\ files' = [files EXCEPT ![n] = ApplyToFolder(@, a)]
        /\ copies' = [copies EXCEPT ![n] =
                        IF a.op = "copy" THEN @ \cup {<<a.path, a.content>>} ELSE @]
        /\ plan' = [plan EXCEPT ![n] = @ \ {a}]
    /\ UNCHANGED <<doc, holders, shared, pc, base, saved, last, incoming, history, bounds>>

(* The rest of the plan is given up; start-up ends with the process.        *)
Abandon(n, stage) ==
    /\ pc' = [pc EXCEPT ![n] = stage]
    /\ plan' = [plan EXCEPT ![n] = {}]
    /\ incoming' = [incoming EXCEPT ![n] = EmptyManifest]
    /\ touched' = [touched EXCEPT ![n] = {}]

(* A fetch fails: always possible when the peer is gone.                    *)
ApplyFail(n) ==
    /\ Applying(n)
    /\ plan[n] # {}
    /\ \/ Fault
       \/ pc[Peer(n)] = "down" /\ UNCHANGED faults
    /\ Abandon(n, IF pc[n] = "apply" THEN "idle" ELSE "down")
    /\ last' = IF n = Joiner /\ pc[n] = "joining" THEN NoState ELSE last
    /\ UNCHANGED <<files, copies, doc, holders, shared, base, saved, deleted, live, edits>>

RecordEarly(n) ==        \* slip: the manifest is saved before it is applied
    /\ Applying(n) \/ pc[n] = "record"
    /\ Abandon(n, "idle")
    /\ saved' = [saved EXCEPT ![n] = incoming[n]]
    /\ base' = [base EXCEPT ![n] = incoming[n]]
    /\ UNCHANGED <<files, copies, doc, holders, shared, last, deleted, live, bounds>>

(* persist_manifest_state, then the base in memory.  A pass that a remote   *)
(* event woke ends here; one that a tick or the watcher woke publishes.     *)
RecordManifest(n) ==
    /\ (Applying(n) /\ plan[n] = {}) \/ pc[n] = "record"
    /\ saved' = [saved EXCEPT ![n] = incoming[n]]
    /\ base' = [base EXCEPT ![n] = incoming[n]]
    /\ last' = IF n = Joiner /\ last = incoming[n] THEN NoState ELSE last
    /\ incoming' = [incoming EXCEPT ![n] = EmptyManifest]
    /\ touched' = [touched EXCEPT ![n] = {}]
    /\ pc' \in {[pc EXCEPT ![n] = s] :
                  s \in IF pc[n] = "apply" THEN {"idle", "publish"} ELSE {"idle"}}
    /\ UNCHANGED <<files, copies, doc, holders, shared, plan, deleted, live, bounds>>

MustPublishAlways(n) ==  \* slip: an unchanged folder is published again
    n = Joiner => last # WithTombstones(base[n], files[n])

(* The host publishes whenever the scan differs from what it published; the *)
(* joiner unless that is what it published last.                            *)
MustPublish(n) ==
    /\ DiffManifests(base[n], files[n]) # {}
    /\ n = Joiner => last # WithTombstones(base[n], files[n])

Publish(n) ==
    /\ pc[n] = "publish"
    /\ ValidManifest(files[n])
    /\ MustPublish(n)
    /\ LET m == WithTombstones(base[n], files[n])
       IN  /\ WriteEntries(n, m, Path)
           /\ IF n = Host
              THEN /\ pc' = [pc EXCEPT ![n] = "record"]
                   /\ incoming' = [incoming EXCEPT ![n] = m]
                   /\ UNCHANGED last
              ELSE /\ pc' = [pc EXCEPT ![n] = "idle"]
                   /\ last' = m
                   /\ UNCHANGED incoming
    /\ UNCHANGED <<files, copies, shared, base, saved, plan, history, bounds>>

(* A file changed since the scan, or the document refused an entry.         *)
PublishFail(n) ==
    /\ pc[n] = "publish"
    /\ ValidManifest(files[n])
    /\ MustPublish(n)
    /\ Fault
    /\ \E ps \in Prefixes : WriteEntries(n, WithTombstones(base[n], files[n]), ps)
    /\ pc' = [pc EXCEPT ![n] = "idle"]
    /\ UNCHANGED <<files, copies, shared, base, saved, last, plan, incoming, history, edits>>

NothingToPublish(n) ==
    /\ pc[n] = "publish"
    /\ ValidManifest(files[n])
    /\ ~MustPublish(n)
    /\ pc' = [pc EXCEPT ![n] = "idle"]
    /\ UNCHANGED <<files, copies, doc, holders, shared, base, saved, last, plan, incoming, history, bounds>>

(* Two names that differ in case: in the rescan before publishing, and in   *)
(* the joiner's first look at folder and document, the process ends.        *)
ScanAbort(n) ==
    /\ \/ pc[n] = "publish" /\ ~ValidManifest(files[n])
       \/ pc[n] = "opening" /\ ~(ValidManifest(files[n]) /\ ValidManifest(doc[n]))
       \/ pc[n] = "seeding" /\ ~ValidManifest(doc[n])
    /\ Abandon(n, "down")
    /\ last' = IF n = Joiner THEN NoState ELSE last
    /\ UNCHANGED <<files, copies, doc, holders, shared, base, saved, deleted, live, bounds>>

(* Ctrl+C, a kill or a crash, at any point.                                 *)
Crash(n) ==
    /\ pc[n] # "down"
    /\ Fault
    /\ Abandon(n, "down")
    /\ last' = IF n = Joiner THEN NoState ELSE last
    /\ UNCHANGED <<files, copies, doc, holders, shared, base, saved, deleted, live, edits>>

---------------------------------------------------------------------------
Users ==
    \E n \in Node, p \in Path :
        \/ \E c \in Content : UserWrite(n, p, c)
        \/ UserDelete(n, p)
        \/ \E q \in Path : UserRename(n, p, q)

Step(n) ==
    \/ Reconcile(n) \/ ApplyStep(n) \/ RecordManifest(n)
    \/ Publish(n) \/ NothingToPublish(n) \/ ScanAbort(n)
    \/ n = Host /\ HostExport
    \/ n = Joiner /\ (JoinOpen \/ JoinBegin)

Next ==
    \/ Users
    \/ \E n \in Node : \/ Step(n)
                       \/ ApplyFail(n) \/ PublishFail(n) \/ Crash(n)
                       \/ \E p \in Path : Replicate(n, p)

Spec == Init /\ [][Next]_vars

(* The processes are restarted and their loops tick; a document entry       *)
(* reaches a running peer.  Users and faults owe nothing.                   *)
Fairness ==
    /\ \A n \in Node : WF_vars(Step(n))
    /\ \A n \in Node, p \in Path : WF_vars(Replicate(n, p))

FairSpec == Spec /\ Fairness

---------------------------------------------------------------------------
(* Properties.                                                              *)

(* A tombstone in a replica or a base stands for a file some user deleted:  *)
(* no mix of failed fetches, crashes, half-written publications and passes  *)
(* over a half-replicated document makes a node publish as deleted a file   *)
(* it has only not received yet.                                            *)
TombstonesAreDeletions ==
    \A n \in Node, p \in Path : Tombstone \in {doc[n][p], base[n][p]} => p \in deleted

(* And so a file only ever disappears from a folder if some user deleted it.*)
RemovalsAreDeletions ==
    [][\A n \in Node, p \in Path :
          files[n][p] # None /\ files'[n][p] = None => p \in deleted']_vars

(* A pass replaces or removes a file only while its content is the one both *)
(* sides had agreed on, unless the user changed the path after the scan:    *)
(* an unpublished local change survives the merge.                          *)
NoClobber ==
    [][\A n \in Node, p \in Path :
          (/\ plan'[n] # plan[n]
           /\ files[n][p] # None
           /\ files'[n][p] # files[n][p])
          => files[n][p] = base[n][p] \/ p \in touched[n]]_vars

(* When a pass over which the user made no change records a manifest, every *)
(* file in it that the previous base did not have is on disk, under its own *)
(* name or as a conflict copy: nothing is marked merged that was not kept.  *)
Materialised ==
    [][\A n \in Node, p \in Path :
          (/\ Applying(n) /\ touched[n] = {}
           /\ base'[n][p] # base[n][p]
           /\ base'[n][p] \in Content)
          => files[n][p] = base'[n][p] \/ <<p, base'[n][p]>> \in copies[n]]_vars

(* What a user put in a folder is still in some folder, under some name or  *)
(* as a conflict copy, until a user replaces or deletes it.                 *)
NoLostEdit ==
    \A c \in live : \E n \in Node, p \in Path : files[n][p] = c \/ <<p, c>> \in copies[n]

(* The joiner has changes it does not publish, because they are what it     *)
(* published last, though the document no longer shows them.                *)
HeldBack ==
    /\ DiffManifests(base[Joiner], files[Joiner]) # {}
    /\ last = WithTombstones(base[Joiner], files[Joiner])

(* Once the users have stopped and no more faults happen, the two folders   *)
(* become and stay equal.  There is one exception: after a pass of the      *)
(* joiner was cut short, its half-merged folder counts as its user's edit   *)
(* and is published.  If the host publishes over that before it reads it,   *)
(* as it does when it starts, the document is the joiner's base again and   *)
(* the joiner is held back for ever.                                        *)
Converges == <>[](files[Host] = files[Joiner] \/ (faults > 0 /\ HeldBack))
---------------------------------------------------------------------------
(* The inductive invariant behind TombstonesAreDeletions.                   *)

(* The base a running node merges against is the one a restart would load.  *)
RestartBase == \A n \in Node : pc[n] # "down" => base[n] = BaseOnDisk(n)

(* Only an entry that exists can be on its way to a replica.                *)
EntriesTravel ==
    \A n \in Node, p \in Path : n \notin holders[p] => doc[Peer(n)][p] # None

(* Bases are made of document entries, and a replica never loses a key.     *)
KeysStay ==
    \A n \in Node, p \in Path :
        BaseOnDisk(n)[p] # None \/ incoming[n][p] # None => doc[n][p] # None

(* Every tombstone, wherever it is kept, stands for a user's deletion.      *)
TombstonesEverywhere ==
    \A n \in Node, p \in Path :
        Tombstone \in {doc[n][p], base[n][p], BaseOnDisk(n)[p], incoming[n][p]}
            => p \in deleted

Brings(a, p) == (a.op = "upsert" /\ a.path = p) \/ (a.op = "rename" /\ a.to = p)

(* A file of the base, or of the manifest about to become the base, that is *)
(* not in the folder was deleted by a user or is still to be written.       *)
MissingIsDeleted ==
    \A n \in Node, p \in Path :
        files[n][p] = None =>
            /\ BaseOnDisk(n)[p] \in Content => p \in deleted
            /\ incoming[n][p] \in Content => p \in deleted \/ \E a \in plan[n] : Brings(a, p)

PlanSound ==
    \A n \in Node :
        /\ ~Applying(n) => plan[n] = {}
        /\ \A a \in plan[n] : /\ a.op # "delete" => a.content \in Content
                              /\ a.op \in {"delete", "rename"} => a.path \in deleted

Inductive ==
    /\ TypeOK /\ RestartBase /\ EntriesTravel /\ KeysStay
    /\ TombstonesEverywhere /\ MissingIsDeleted /\ PlanSound
============================================================================
