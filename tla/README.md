# Altair-Vega: TLA+ models, checks and proofs

Altair-Vega moves text, files and folders between two peers. Natives (a Rust
CLI) and browsers (a wasm peer in a SolidJS app) find each other through a
rendezvous room or the LAN, pair with a short code, and talk over iroh.
This directory holds TLA+ models of its protocols, TLC configurations that check
them on small instances, and proofs checked by TLAPS. Paths like `src/main.rs`
are relative to the repository.

## 1. The system

| part | state it keeps | operations | talks to |
|---|---|---|---|
| folder manifests and merge (`src/sync.rs`) | none: pure functions on manifests, and edits of a folder | scan, `with_tombstones`, `diff_manifests`, `merge_manifests`, `apply_merge_plan` | every sync mode |
| sync host (`run_sync_host`, `src/main.rs`) | folder, docs replica, `published_manifest`, its state file, document id and ticket files | start-up export; on a remote event, file event or tick: reconcile, publish | docs node, room, LAN ticket service |
| sync joiner (`DocsJoin`) | folder, docs replica, `base_manifest`, its state file, `last_published_manifest` | start-up seed or merge; reconcile, publish | docs node |
| sync follower (`DocsFollow`) | folder, replica, `base_manifest`, state file | seed, apply | docs node |
| docs node (`src/sync_docs.rs`) | iroh-docs document, blob store, local ticket map | read/write manifest, fetch file, hand out ticket | iroh (external) |
| rendezvous room (`web/rendezvous-worker`) | sessions by socket, creation time | connect, relay, close, expire, wake from hibernation | browsers and natives |
| native pairing (`src/pairing.rs`, `establish_native_control_peer`) | handshake, established pairing, remote bundle, pending envelope | PAKE, bootstrap, expiry | room or LAN connection |
| control session (`src/control.rs`) | message ids sent and seen | bind/verify, chat, file control | iroh stream |
| native file transfer (`src/main.rs`, `src/files.rs`) | offer, resume information, ticket, output file; chunk store on disk | offer, respond, fetch, complete | control session, blobs |
| browser transfer (`web/browser-wasm`, `src/browser_peer.rs`) | chunks received, staged files | chunk exchange, resume query | iroh |
| frontend (`web/frontend/src/lib`) | peers, selection, transfers, stored chunks | room client with reconnection, resume queries | wasm peer, room |
| saved pair state, disposable runtime, short codes, probes, help, scripts | files and directories | read, write, clean up | – |

What makes each correct, and what is hard about it:

* **Merge**: the plan amounts to a three-way merge whatever was renamed; a merge
  that stopped halfway can be run again. *Hard*: identical files, deletions that
  are recorded and deletions that are merely absent.
* **Sync session**: no unpublished change is destroyed, nothing is deleted that
  no user deleted, the base never claims more than the folder holds, the folders
  become equal. *Hard*: users edit during a pass; crashes between the steps of a
  pass; failed fetches; half-written publications; a document that has arrived
  in part; both sides publishing whole folders.
* **Follower**: converges to the host. *Hard*: a document that has not arrived.
* **Room**: members' views agree with the sessions; a relay reaches the current
  session of its target. *Hard*: replaced sessions, late closes, hibernation,
  expiry.
* **Pairing**: two natives that run long enough establish the same key and hold
  each other's bundle. *Hard*: a third peer in the room, a peer that restarts,
  messages that arrive early, one-minute handshakes.
* **Control session and transfers**: a file that is reported complete is
  complete; both sides stop. *Hard*: resume decisions taken
  separately by the two sides, reconnection, equal names and ids.

`PROJECT.json` lists each hazard at its source line with the properties that
cover it, or the reason why none does.

## 2. Modules

| module | models | proofs in |
|---|---|---|
| `SyncManifest` | `src/sync.rs` and the action executor of `src/sync_docs.rs`, as operators | `SyncManifestTheorems` |
| `MergeApply` | `sync merge-apply`: plan, execute, stop, run again | `MergeApply_proofs` |
| `SyncSession` | `sync host` and `sync join` over the document | `SyncSession_proofs` |
| `OneWriter` | a sync session of which only one user writes | `SyncSession_proofs` |
| `SyncFollow` | `sync docs-follow`, a read-only follower | `SyncFollow_proofs` |
| `FileTransfer` | chunk stream with its store, blob fetch, `send file` / `receive file` | `FileTransfer_proofs` |
| `FileDelivery` | what a file transfer promises; implemented by `FileTransfer` | – |
| `NativePairing` | pairing of natives in the room and on the LAN, up to the bound control session | `NativePairing_proofs` |
| `RendezvousRoom` | the worker's room and the browsers that use it | `RendezvousRoom_proofs` |
| `BrowserTransfer` | files from browsers to browsers and to a native peer | `BrowserTransfer_proofs` |

`SyncSession`, `SyncFollow` and `MergeApply` share the operators of `SyncManifest`.
`NativePairing` composes the room's events, the LAN exchange and the control
connection, because one `select!` of the receiver serves all three. Each `MC*`
module gives a specification its small sets; the `.cfg` files give the rest.
Definitions marked *slip* are faulty variants of the operator beside them; no
specification uses them.

### SyncManifest

A manifest is a total function from paths to `State`: `None` stands for an
absent key, `Tombstone` for a recorded deletion, a member of `Content` for a
file descriptor. A path is its number in key order, because plans are executed
in that order. `MergePlan` gives the set of actions of `merge_manifests`
(there is at most one per path, so a set loses nothing), `RemoteRenames` the
greedy pairing of `detect_remote_renames`, `ApplyToFolder` what executing one
action does to a folder. `Fold` maps a path to its lower-cased form for the
collision check.

### SyncSession

Two nodes, as the documentation limits bidirectional sync to two peers. Each
has a folder `files[n]` and conflict copies `copies[n]` (scans ignore them), a
replica `doc[n]`, the manifest `base[n]` it merges against (`base_manifest`,
`published_manifest`), the state file `saved[n]` and a stage `pc[n]`:

    host    down --HostExport--> record --RecordManifest--> idle
    joiner  down --JoinOpen--> opening or seeding --JoinBegin--> joining --RecordManifest--> idle
    both    idle --Reconcile--> apply --ApplyStep*, RecordManifest--> idle or publish
            idle --Reconcile--> publish --Publish / NothingToPublish--> idle (the host: record)

* `Reconcile` is `reconcile_host_remote`/`reconcile_join_remote` up to the merge;
  `ApplyStep` is one action of `apply_remote_manifest`; `RecordManifest` is
  `persist_manifest_state` and the assignment after it; `Publish` is the rest of
  the loop body. After a remote event the pass ends with `RecordManifest`; after
  a file event or a tick it goes on to publish. Users act between any two steps.
* `ApplyFail` and `PublishFail` are the errors the loops print and survive, and
  those that end the process at start-up. `ScanAbort` is the `?` on a scan that
  finds two names differing in case. `Crash` is a kill, at any point.
* The document is external. Per key the latest entry wins; `holders[p]` says who
  has it. `WriteEntries` is `write_manifest`, which writes *every* entry of the
  publisher's manifest with new timestamps; `Replicate` brings one entry to the
  other node, in any order, while both run.
* `touched`, `deleted` and `live` are history for the properties: the paths a
  user changed since the running pass scanned, the paths users deleted or
  renamed away, the contents users wrote and did not replace.

`SyncedInit` is a session under way whose folders agree; `OneWriter` adds the restriction
that one user writes, from first start or from there.

Abstractions: the two clocks agree, so the latest write of a key wins;
directories, file/directory collisions and ignored names are left out; a file's
content can be fetched whenever the other node runs (`ApplyFail` covers the rest);
an entry whose metadata blob is missing counts as not yet arrived; the writes of one
publication are one step unless it fails, when any prefix of them happens; the
ticket, hence the joiner's state directory, stays the same; and the host's
reading of the other peer's address is taken to work.

### MergeApply

`merge-apply` on any base, remote and local folder. `Stop` ends a run between
two actions; `Scan` starts the next on what it left.

### SyncFollow

The publisher is the host of `SyncSession` seen from outside: `PublishEntry` puts an
entry or a tombstone into the document, `Replicate` brings one to the follower.

    down --Open--> opening --Scan--> waiting --Begin--> idle
                           --Scan--> seeding --Begin--> apply (empty folder, no state)
    idle --ReadAndMerge--> apply --ApplyStep*, Record--> idle
    idle --EventWithoutPlan--> idle

* `Open` loads the state file or takes the folder itself as base; `Scan` is the look at
  the folder that decides whether to seed, `Begin` the end of
  `wait_for_remote_manifest`, up to ten polls later, with the seed if `Scan` saw nothing.
* `ReadAndMerge` .. `Record` is a pass of either arm of the loop. With nothing to do,
  neither an action nor a kept local change (`KeptLocal`), the event arm records the
  manifest (`EventWithoutPlan`); the tick arm leaves the base alone, which is a stutter.
* A follower has no retry: `Crash` stands for a kill, a failed fetch or a failed read,
  `Abort` for names that differ in case. Its user starts it again.
* History: `unpublished`, `edited`, `touched`, and `ahead`, the paths a pass had
  written when its process ended.

### FileTransfer and FileDelivery

An attempt is one transfer of one file by one of three programs: `chunked` and `blob`
(`src/files.rs`, both ends in one process, the receiver's disk stays) and `cli` (two
commands of `src/main.rs`). A file is its number of chunks; a chunk on disk is right,
of the right length only, of the wrong length, or absent.

    sender    idle --Start--> offered --StartStream--> streaming --FinishStream--> terminal --SenderEnds--> ended
                              offered --SendTicket / SkipTicket--> terminal or ended
    receiver  waiting --LoadStore--> [meta --WriteMeta-->] responding --RespondChunked--> receiving
              --EndOfStream--> checking --Judge--> [clearing --ClearStore-->] ended
              waiting --RespondBlob--> ticket --TakeTicket--> fetching --FetchChunk*, Fetched-->
              [writing --CreateOutput--> saving --FillOutput-->] reporting --Report--> ended

`Decline` is the reject and cancel modes; `SenderLosesPeer` and `ReceiverLosesPeer` are
reads of a closed session. `KillSender` and `KillReceiver` end one command, `KillProbe`
the process with both ends, tearing what it was writing; `DamageChunk` is a power loss
while nothing runs; `EditSource` changes the sender's file between its description and
its import into the blob provider. Chunks of a blob arrive in any order, those of a
stream in theirs.

`Report` may also fail when the sender has closed after "already there": which it is
depends on the call of iroh that notices.

`FileDelivery` has four variables: whether a transfer goes on, whether the receiver holds
the offered file, and how the transfer ended for each side. The mapping is `running <-
~Over`, `kept <- Kept`, `sender <- result.sender`, `receiver <- result.receiver`. It
forbids a receiver to report "completed" of a file it does not hold, a sender to report
anything but failure or what the receiver reported (or "already" when the file is there),
and, while a transfer runs, that what the receiver holds gets lost: only `Damage`, between
transfers, and `Begin`, which may be about another file, change `kept` back.

### NativePairing

A process with a code is a member of `Peer` with a role; one that is started again
is another member, as endpoint ids are fresh.

    send     off --Start--> lan --LanTimeout--> joining --JoinRoom--> room
    receive  off --Start--> joining --JoinRoom--> room
    lan, lanonly --LanDial--> (link init --LanReply--> reply --LanTake--> finish --LanFinish-->)
    room --FirstPake, ReceiveBootstrap--> paired --Dial--> bound

* `wire[p][q]` holds what the room delivers from p to q, in order: the peer-joined
  event, PAKE messages, sealed bundles. `JoinRoom` is connection, snapshot and the PAKE
  messages to everybody in it, in one step (a LAN pairing between them, which would cut the
  messages short, is left out).
* `FirstPake` takes the one handshake of the process and opens an envelope that came
  early; `LaterPake` answers further peers with the bundle all the same.
* `link[s]` is the LAN exchange of a sender: the receiver answers it inside its
  select loop and reads no room event meanwhile (stage `responding`).
* `Dial` is both ends of `ControlSession`'s bind and verify; `DialTooEarly` is the
  same connection taken for a LAN pairing by a receiver that still waits.
* `NoRoom`, `LanFails`, `Kill` and `MinutePasses` are faults; all ends of a process
  are the stage `failed`.

Cryptography is ideal. Whatever the code does with an error is kept: an expired
handshake and an envelope that does not open end the process.

### RendezvousRoom

A browser's connection is a numbered socket; the room (`ready`, `sessions`, `expired`)
and the browser (`mode`, `link`, `peers`) see its ends separately, and messages wait in
`wire`. `Fetch` is a connection attempt with clean-up, eviction of the browser's old
session, capacity test, and then snapshot and peer-joined (`Accept`) or `Refuse`, which
leaves the browser without the session it had. `Relay`, to the first session of its
target, and `Reject` are `webSocketMessage`; `Notice` and `SocketClosed` are the platform's two steps of
a close; `Hibernate` is an eviction from memory followed by the constructor;
`Expire` lets the room's age pass. `Drop` is a lost connection, after which
`connectRoom` tries again `MaxAttempts` times, `Leave` a closed page, and
`Receive` the page acting on the next message (`handleRendezvousEvent`, the peer list).
Clean-up runs at the head of every handler, so it is part of each of these actions.
The answer 410 cannot occur: clean-up resets the age before it is tested.

### BrowserTransfer

A transfer is a record: sender, file, destination, transfer id, chunks still to
send, chunks under way. The receiving browser is two machines: the wasm node
(`ReceiveChunk`, `EndReceive`), which keeps the bytes in a map keyed by transfer id and chunk and
puts events in a queue, and the page (`TakeChunk`, `LoadManifest`, `LoadChunk`,
`StoreChunk`, `MarkCompleted`), which handles one event at a time in several
asynchronous steps against IndexedDB. `Answer` is the resume query, `Connect` the start of
the transfer with the answer or, after four seconds, without: to the peer that was asked
(`BeginSend`) or to the one the user has selected since (`Redirect`). Besides the browser
and the native peer there is a peer "other", which may be asked, and may answer
anything, but whose store is not followed. The native peer chooses an output path, creates
the file and writes it (`ChoosePath`, `CreateFile`, `WriteFile`), one task per connection;
its directory may hold files of these names from before. `UniquePath` is the plain name, or
if that exists the name with a time in milliseconds, which the code does not test again: two
choices may show the same time. `Disconnect`, `StoreFails` (a request or transaction of
IndexedDB, which ends the page's event loop), `Reload` and `Delete` are the faults and the
receiving user.

## 3. Runs

| run | instance | shows |
|---|---|---|
| `session_safety` | 2 paths, 2 contents, 2 edits of every kind on both sides, 1 fault, from first start | `Inductive`, `TombstonesAreDeletions`, `RemovalsAreDeletions`, `NoClobber`, `Materialised` |
| `case_names` | the same, the two names differ in case only | `TypeOK`, `RemovalsAreDeletions`, in processes that end on bad scans |
| `one_writer` | 3 contents, one user writes: at the host from first start (3 writes), at the host of a running session with a fault (3), or at its joiner (3) | `HostWritesKept`, `Converges` |
| `read_only_follower` | 3 paths, two of which differ in case, 2 contents, 3 publications, 1 edit, 1 fault; an empty folder or one with a file | `TypeOK`, `RemovalsArePublished`, `Follows` |
| `merge_apply` | 4 paths, 2 contents, 1 stop | `TypeOK`, `MergesAll`, `CopiesConflicts`, `Executable`, `OldOrNew` |
| `file_transfer` | 3 files (two chunks, none, a wrong hash), 3 programs, 3 attempts, 2 faults | `TypeOK`, `CompletedIsWhole`, `Concludes`, `SendsOnlyMissing`, `KeepsProgress`, `AttemptsEnd`, `Delivers` |
| `native_pairing` | sender, receiver and a second sender; or two `pair` peers and a sender; 1 fault | `TypeOK`, `KeyFitsBundle`, `Agreement`, `NothingOwed`, `FailsOnlyByMisreading`, `PeersMeet` |
| `rendezvous_room` | 3 browsers, a room for 2, two sockets each, 3 joins, 1 reconnection, 1 fault | `TypeOK`, `ViewsFollowRoom`, `RefusedOnlyWhenFull`, `StayersMeet` |
| `browser_transfer` | one sender, files of 2 chunks and 1 with the same name, 2 transfers, 2 faults | `TypeOK`, `StoredIsSent`, `ManifestTellsStored`, `AcknowledgedIsSaved`, `SentArrives` |

`CHECK_DEADLOCK FALSE` everywhere: when users, attempts and faults are used up (or a
document is refused) nothing is left to do.

Bounds. Two paths are the fewest for a rename and for a publication or a
replica that is half old; two edits are the fewest for a conflict, for an edit
during a pass that applies another, and for create-after-delete; one fault
cuts a pass, a fetch or a publication at any point. Three contents tell the initial
file and two writes apart. The follower's third path makes a name collision
possible beside two independent files. Three attempts with two faults are a
transfer that is interrupted, one that resumes over damage, and one that must
recover; two chunks allow a store that is half full. Three processes are the fewest for
an envelope and a PAKE from different peers. Two sockets per browser are the fewest for
a replaced session, three browsers with capacity two the fewest for a refusal beside a
pair that meets. Two transfers are the fewest for two at once and for one resumed.
The proofs hold without bounds.

Fairness. Each specification is fair to what the code's loops and the network do by
themselves, and to no user, fault or choice.

| module | fair | why |
|---|---|---|
| `SyncSession` | `Step(n)`, `Replicate(n, p)` | interval timers tick, a killed process is started again; iroh-docs delivers between running peers |
| `SyncFollow` | `Follower`, `Replicate(p)` | the same; `EventWithoutPlan` is not fair, as ticks alone must do |
| `FileTransfer` | `Sender`, `Receiver` | each end is one task that reads, writes, or sees the session closed |
| `NativePairing` | `RoomStep(p)`, `LanStep(p)`, `DialStep(p)` | a process reads its socket and answers its connection; discovery (`LanDial`) is not fair |
| `RendezvousRoom` | `Connects(e)`, `Ends` | the network delivers, the platform reports ends of sockets |
| `BrowserTransfer` | `Page`, some `Step(t)` | the page's event loop runs, connections make progress |

### What does not hold

Three runs expect a violation; each contradicts a sentence of the repository quoted in
`PROJECT.json`.

* `concurrent_edits` (`NoLostEdit`): both users write one path. `write_manifest`
  overwrites the other's entry with a newer timestamp before it was merged; the
  loser's node then applies the winner's entry as a plain update: no conflict copy.
* `control_dial` (`NeitherFails`): the sender returns from pairing as soon as it has the
  receiver's bundle and dials; a receiver that has not read the sender's bundle yet takes
  the connection for a LAN pairing, cannot decode the bind frame, and both fail.
  `native_pairing` shows that nothing else fails in a session of two without faults.
* `two_senders` (`StoredIsSent`): every browser counts transfer ids from one and the
  receiver's chunk map is keyed by id and chunk. Two browsers that send at once overwrite
  each other's chunks, or leave the page an event without bytes, which ends its event
  loop.

The models show more that a user may not expect. The properties are stated so
that they hold, and their comments name the exception.

* Sync session. A restarted host exports its folder before it reads the document
  and reverts what the joiner published meanwhile. A joiner with files of its own does
  not wait for the document, merges with an empty replica and publishes over the
  host. A rename that changes only case leaves a document `read_manifest` refuses for
  good. A path deleted and created again arrives as a conflict copy, because absent and
  tombstone compare as different. A joiner that changes a file back before its publication
  has come round as the new base loses the change: hence one writer in `one_writer`, and
  `HostWritesKept` for the host only. A tombstone in the base makes every tick republish
  the whole folder.
* Sync session, differing for good. When a pass of the joiner is cut short (one failed
  fetch is enough), its half-merged folder counts as its user's change and is
  published. If the host publishes over it before it reads it, the joiner's base does not
  change, and `last_published_manifest` says that its folder was published already: the
  joiner publishes nothing, and the folders stay different until one of its users writes. The
  shortest way takes one failed fetch and three writes of the host, within the bounds of
  `one_writer`. `Converges` excepts this state by name (`HeldBack`, and only after a
  fault) and shows that there is no other.
* Sync session, edits during a pass. A plan is made from a scan and executed without
  looking again: what a user writes at a path after the scan is overwritten or removed if
  the plan has an action there. `NoClobber` and `Materialised` except these paths
  (`touched`), so they are about every change a pass could have seen.
* Follower. Without a state file its folder is its base, so entries that have not arrived
  read as removed (`saved = NoState` in `RemovalsArePublished`). A file
  written by a pass that was killed is ahead of the base and may stay behind (`ahead`);
  recreated files arrive as conflict copies (`Recreated`). An empty folder is seeded
  after up to ten waits from a look taken before them: a file its user puts there
  meanwhile is overwritten (`saved = NoState` and `edited` again).
* Room. After hibernation the sessions of sockets that are still closing come back; when
  such a socket closes, the others are told that its peer left although it may be
  connected (`revived`). Dead sockets count against the capacity until noticed.
* Pairing. A handshake expires sixty seconds after the process started, waiting
  included. A third peer in the room can end the others' processes with an envelope that
  does not open. A sender that is started again is never answered by a receiver whose
  handshake is spent. A LAN exchange that breaks ends the receiver although the
  room would still do (`Alone` and `faults = 0` in the last properties).
* File transfer. `meta.json` is written in place: a kill leaves a file on which every
  later attempt fails (the second exception in `Concludes`). A tampered empty file makes the
  ends of `blob` wait for each other (`TamperedIsNotEmpty` leaves it out). When the receiving command has the file already, the sender closes at once and the
  receiver may report an error after it wrote the output, or success, by which call sees the close. A kill while the output is
  written leaves a partial file under the final name.
* Browser transfer. The acknowledgement precedes the page's storing of the chunks; a
  reload in between loses them (`reloaded`). A deletion between the page's reads and its
  write leaves a stale count (`deleted`). A failure of IndexedDB ends the page's event
  loop: the wasm node goes on acknowledging files nobody stores (the page is "stopped" in
  `SentArrives`). `handleSendFile` reads the selected peer again after the resume query: if
  the user has selected another one by then, that peer gets the ranges the first is
  missing, may acknowledge them, and has an incomplete file (`own`). Two connections that
  save files of one name can choose one path, before either creates it or because the
  millisecond in it is the same; the later one then overwrites a file that was
  acknowledged (`shared`).

## 4. Proofs

All theorems hold for every value of the constants that satisfies the named ASSUMEs
(sentinels differ from values and from each other, bounds are naturals, peers of a room
are finitely many, a tampered file is not empty). Two have a hypothesis of their own, and
TLC finds the property violated without it:

* `StoredBySingleSender` has one sending browser (`OneSender`); with two, see `two_senders`.
* `HostWritesHold` (a session from first start, without faults) has a joiner that starts
  with an empty folder; one that has files
  publishes them over the host's, as section 3 describes.

| module | theorems | state |
|---|---|---|
| `SyncManifestTheorems` | `MergePlanSound`, `MergePlanApart`, `MergePlanReaches` | what a plan fetches and removes; that its actions touch different paths; that it reaches every change |
| `MergeApply_proofs` | `TypeCorrect`, `PathsHold`, `MergeHolds`, `CopiesHold`, `PlansExecute` (from `Invariance`) | `[]TypeOK`, `[]OldOrNew`, `[]MergesAll`, `[]CopiesConflicts`, `[]Executable` |
| `SyncSession_proofs` | `InductiveInvariant`, `TypeCorrect`, `TombstonesHold`, `RemovalsHold` | `[]Inductive`, `[]TypeOK`, `[]TombstonesAreDeletions`, `RemovalsAreDeletions` |
| | `NoClobberHolds`, `MaterialisedHolds` (from `PassHolds`) | `NoClobber`, `Materialised` |
| | `UnderWayHolds` | `[]Inductive` from `SyncedInit` |
| | `HostWritesHold` | `[]HostWritesKept` |
| `SyncFollow_proofs` | `TypeCorrect`, `RemovalsHold` | `[]TypeOK`, `RemovalsArePublished` |
| `FileTransfer_proofs` | `TypeCorrect`, `CompletedHolds`, `DeliversHolds` | `[]TypeOK`, `[]CompletedIsWhole`, `Delivers` (the refinement) |
| | `ResumesHold`, `ConcludesHolds` (from `CourseHolds`), `ProgressHolds` | `[]SendsOnlyMissing`, `[]Concludes`, `KeepsProgress` |
| `NativePairing_proofs` | `TypeCorrect`, `KeysFit`, `PartnersAgree` | `[]TypeOK`, `[]KeyFitsBundle`, `[]Agreement` |
| | `NothingIsOwed`, `FailureIsMisreading` (from `CourseHolds`) | `[]NothingOwed`, `[]FailsOnlyByMisreading` |
| `RendezvousRoom_proofs` | `TypeCorrect`, `CapacityHolds`, `RefusalsHold` | `[]TypeOK`, `[]WithinCapacity`, `RefusedOnlyWhenFull` |
| | `ViewsHold` (from `ListedHolds`) | `[]ViewsFollowRoom` |
| `BrowserTransfer_proofs` | `TypeCorrect`, `ManifestIsRight`, `AcknowledgedStays` (from `Invariance`), `StoredBySingleSender` | `[]TypeOK`, `[]ManifestTellsStored`, `[]AcknowledgedIsSaved`, `[]StoredIsSent` |

Every module of proofs has one lemma per action, or per group of actions that change the
same things, and one step in it per conjunct.

**SyncManifest.** A plan removes a file only where the remote has a tombstone or no
longer lists a path the base lists (`MergePlanSound`), and it brings every file of the
remote that neither base nor folder has (`MergePlanComplete`). What makes rename detection
safe is `RenamesAreOneToOne`: a source has one target and a target one source, since both
are paired by rank among the paths of equal content. Hence `MergePlanApart`: no two actions
share a path, as source or as target, so their order does not matter. `MergePlanFits` says
what each action finds and brings.

**MergeApply.** The plan of a second run is made from a half-merged folder, so the
invariant speaks of any folder between the original and the merge: a path holds what it
held or what it should (`OldOrNew`), the rest of the plan fits the folder as it is
(`PlanFits`, kept because actions are apart), and every path that is not merged yet is one
an action of the run changes (`Unmerged`). With an empty plan, everything is merged.

**SyncSession.** `TombstonesAreDeletions` alone is not inductive: a
tombstone is published for every path of the base that is missing from the folder,
so the base itself must be right. `Inductive` adds

* `RestartBase`: base and state file agree in a running node, so it is enough to
  speak of the file;
* `MissingIsDeleted`: a file of the base, or of the manifest being applied, that
  is not in the folder was deleted by a user or is brought by an action of the
  plan that is still to run: when the plan is empty the manifest may become the base;
* `KeysStay` and `EntriesTravel`: what a base lists, the replica lists, in
  whatever order entries arrive; so a plan never deletes because a path is
  merely absent;
* `TombstonesEverywhere` and `PlanSound`: the claim itself for document, base, state file and
  the manifest in hand, and for the plan: what it deletes or renames was deleted.

`Pass` is about a pass under way: each action still to run meets what the base has and
brings what the manifest to be recorded has, unless the user was there (`Due`), actions
are apart, and a file that is new in that manifest is in the folder, beside it or to be
brought (`Reached`). `NoClobber` is about the first, `Materialised` about the last when
the plan is empty.

`OnlyHostWrites` carries `HostWritesHold`. Nobody deletes, so no manifest has a tombstone
and no plan a removal. A joiner that started empty has in its folder what its base has and
its running pass brought (`Follows`), so it never has anything to publish; all entries of
the document are the host's, the host's replica stays what it recorded, and its own folder
is changed by its user alone (`Serving`). A host that refused two names that differ in
case is down and stays there (`Ended`).

**SyncFollow.** The invariant is `TypeOK`, base and state file agree once there is a
state, every tombstone is of an unpublished path, entries stay in document and
replica once they are there, and every removal in the plan is of such a path. What
makes a removal safe is that a replica never loses a key its base has.

**FileTransfer.** `FramesAreTrue`: while the sender listens, a frame on its way to it is
true of the receiver's disk now, not only when it was sent. `EndsAreTrue` and
`Phases` say which program can be where and what the receiver has achieved by then. The
hard steps are those that change the disk between attempts, or after one end is gone.
`DeliversHolds` maps every action to a step of `FileDelivery` or a stutter.

`Course` is about one attempt. `NothingTwice`: what is asked for, waiting or under way are
chunks the receiver lacks, each once; it must hold of the answer while it travels, because
the sender takes its list from there. `Accounted`: every chunk is on disk, under way or
waiting, unless the sender stopped short. `Concluding`: if nothing struck, an end that is
alone knows why, and two ends that ended say the same. `ProgressHolds` needs no more
than the first invariant: a step that loses a verified chunk is damage or the clearing of
a store that failed its verification.

**NativePairing.** `WireIsTrue` and `PendingIsTrue`: an envelope is sealed with a key of which its
sender is an end; `KeysAreOwn`: so is every key of its holder; together a key that opens an
envelope has exactly these two ends. `BundleEndsWaiting`: a process with its bundle
has left the loop, so no later PAKE or LAN exchange can replace its key. `LinksAreTrue`
describes the stages of a LAN exchange, of which a receiver has one at a time; `LanKeys`: a
key made on the LAN is shared by whoever holds the bundle, which is what
`Agreement` needs when one end was also in the room.

`Course` adds `Sealed` (keys, envelopes and bundles are of the two peers they go between),
`Owed` (the partner of a paired process that is still in the room has the bundle, or it is
on its way, or a third peer's envelope has taken its place) and `Quiet` (without faults no
minute passes). `NothingOwed` follows; `FailsOnlyByMisreading` is inductive with them: with
two peers every envelope opens, so the control connection is the only way left to fail.

**RendezvousRoom.** One open socket per endpoint id (`OneOpen`), and every open socket
has a session, after hibernation too (`OpenHasSession`). A refusal then counts living
sessions with distinct owners, none of them the browser's own, so the room is full of others.

What a browser *will* show is settled, for each peer, by the last of the unread messages
that names it, so it is stated with quantifiers over positions (`BringAny`, `KeepAll`), and
`ViewsFollowRoom` is preserved message by message: a message appended decides, a message
read is what the browser now shows. It needs that a session that ends is its owner's only
one, hence `Doubles`: two sessions of one browser are there only after a hibernation.

**BrowserTransfer.** Counting is the hard part: a manifest's count is right if the page's
reads are still right when it writes, which holds while nobody deletes (`PageKnows`); a
file is complete when the page is told so if each of its chunks is to be sent, under way,
announced by an event before that one, in the page's hands, or stored (`NothingLost`).
`PathsAreTaken`: a path that two handlers write to, or that a handler took without a test
while a file was there, is in `shared`. With one sender, ids
differ (`IdsDiffer`), so each event has bytes of its own (`EventsHaveBytes`).

**Only model-checked.** Liveness: `Converges`, `Follows` of the follower, `AttemptsEnd`,
`PeersMeet`, `StayersMeet`, `SentArrives`; fairness and ENABLED are beyond the prover.
`NoLostEdit`, `NeitherFails`, and `StoredIsSent` with two senders are refuted by the runs of
"What does not hold".

## 5. Not modelled

* Of sync: directories and file/directory collisions, ignored names, symlinks; a ticket
  that changes with the host's addresses (it gives the joiner another state directory); the
  recovery of a host document that cannot be opened; the LAN ticket service and
  peer-ticket advertisements.
* Of pairing: `pair` after two peers have met (`run_pair_room` binds the control
  session and waits for Ctrl+C); `src/rendezvous.rs` and parts of `src/bootstrap.rs` are types no program exchanges.
* Of the control session: chat messages and their deduplication. `receive_frame` drops
  a message whose id it has seen; there is no acknowledgement, and no program sends one
  twice.
* Of native transfers: those without pairing (naked tickets), a fetch with no other end.
  `unique_output_path` is raced in `BrowserTransfer` only; two receiving
  commands over one directory would race the same way.
* Of browsers: text messages, chat, the selected peer except while a resume query is out, the BroadcastChannel fallback, components
  and styles. `take_received_file` reads a map nothing fills.
* Short codes, saved pair state, the disposable runtime directory, loopback
  probes of messages, argument parsing, help, QR codes and deployment scripts: pure data,
  one owner, or printed text.
* Cryptography and hashing are ideal throughout.
