-------------------------- MODULE BrowserTransfer --------------------------
(***************************************************************************)
(* Files sent by browser peers (src/web/browser-wasm/src/lib.rs and the    *)
(* frontend around it) to another browser, which keeps them in IndexedDB,  *)
(* or to `serve browser-peer` (src/src/browser_peer.rs), which writes them *)
(* to a directory.                                                         *)
(*                                                                         *)
(* A browser asks the receiver over the room which chunks it has, waits    *)
(* four seconds for the answer, and opens one connection per transfer.     *)
(* The receiving wasm node hands chunks to the page through a queue of     *)
(* events and a map keyed by transfer id and chunk; the page handles one   *)
(* event at a time, in several asynchronous steps.  Each chunk counts as   *)
(* one byte, and only whose bytes it holds matters.                        *)
(***************************************************************************)
EXTENDS Naturals, Sequences, FiniteSets, FiniteSetsExt

CONSTANTS
  Sender,        \* browsers that send
  File,          \* files, told apart by their hash
  Size,          \* chunk_count of each
  Name,          \* name of each
  None,          \* nothing stored
  MaxTransfers,  \* bound: sends
  MaxFaults      \* bound: lost connections, failures of IndexedDB, page reloads,
                 \* deletions by the user

ASSUME FileAssumption == Size \in [File -> Nat] /\ DOMAIN Name = File
ASSUME NoneAssumption == None \notin File /\ None \notin [bytes : Nat, completed : BOOLEAN]
ASSUME TransferBound == MaxTransfers \in Nat /\ MaxFaults \in Nat

VARIABLES
  transfers,  \* the sends so far, in the order the users made them
  nextId,     \* next_transfer_id of each sender
  memory,     \* received_chunks: <<transfer id, chunk, file whose bytes these are>>
  events,     \* browser events the page has not taken yet
  page,       \* the handler of the current event
  manifest,   \* received-files by <<sender, file>>
  chunks,     \* received-file-chunks: chunks[k][i] is the file whose bytes are stored
  output,     \* output directory of the native peer: [path -> [file, whole]]
  deleted,    \* keys the user has deleted
  shared,     \* output paths that two handlers chose before they wrote, or in
              \* the same millisecond
  reloaded, faults

store == <<manifest, chunks>>
node  == <<memory, events, page>>
spent == <<deleted, reloaded, faults>>
vars  == <<transfers, nextId, node, store, output, shared, spent>>

Chunks(f) == 1..Size[f]
Keys == Sender \X File
Slots == DOMAIN transfers
Peers == {"browser", "native", "other"}  \* "other": a browser whose store is not followed
Idle == [stage |-> "idle", event |-> None, bytes |-> None, count |-> 0, had |-> FALSE]
Manifest == [bytes : Nat, completed : BOOLEAN]

TypeOK ==
  /\ \A t \in Slots :
       /\ transfers[t].stage \in {"query", "answered", "sending", "sent", "chosen", "writing",
                                  "done", "failed"}
       /\ transfers[t].to \in Peers /\ transfers[t].own \in BOOLEAN
       /\ transfers[t].todo \subseteq Chunks(transfers[t].file)
       /\ transfers[t].count \in 0..Size[transfers[t].file]
  /\ nextId \in [Sender -> Nat]
  /\ \A c \in memory : c[3] \in File /\ c[2] \in Chunks(c[3])
  /\ page.stage \in {"idle", "manifest", "chunk", "store", "dead", "stopped"}
  /\ manifest \in [Keys -> Manifest \cup {None}]
  /\ \A k \in Keys : chunks[k] \in [Chunks(k[2]) -> File \cup {None}]
  /\ deleted \subseteq Keys /\ faults \in 0..MaxFaults

NoChunks(f) == [i \in Chunks(f) |-> None]

Init ==
  /\ transfers = <<>>
  /\ nextId = [s \in Sender |-> 1]
  /\ memory = {} /\ events = <<>> /\ page = Idle
  /\ manifest = [k \in Keys |-> None]
  /\ chunks = [k \in Keys |-> NoChunks(k[2])]
  /\ \E names \in {{}, {<<Name[f]>> : f \in File}} :   \* of files that were there before
       output = [p \in names |-> [file |-> None, whole |-> TRUE]]
  /\ deleted = {} /\ shared = {} /\ reloaded = FALSE /\ faults = 0

----------------------------------------------------------------------------
(* The sending browser *)

At(t, to, stage) == transfers[t].to = to /\ transfers[t].stage = stage
Goes(t, stage) == transfers' = [transfers EXCEPT ![t].stage = stage]

\* handleSendFile: the resume query goes out to the peer that is selected.
SendFile(s, f, to) ==
  /\ Len(transfers) < MaxTransfers
  /\ transfers' = Append(transfers,
       [sender |-> s, file |-> f, to |-> to, stage |-> "query", todo |-> {}, own |-> TRUE, id |-> 0,
        wire |-> <<>>, count |-> 0, path |-> <<>>])
  /\ UNCHANGED <<nextId, node, store, output, shared, spent>>

Stored(k) == {i \in Chunks(k[2]) : chunks[k][i] # None}

\* A file that has a manifest is resumed from its byte count (a slip).
MissingAfterCount(k) ==
  IF manifest[k] = None THEN Chunks(k[2]) ELSE {i \in Chunks(k[2]) : i > manifest[k].bytes + 1}

\* The ranges reach past the last chunk (a slip).
MissingPastEnd(k) == (1..Size[k[2]] + 1) \ Stored(k)

\* getResumeInfo: without a manifest everything is missing.
MissingRanges(k) == IF manifest[k] = None THEN Chunks(k[2]) ELSE Chunks(k[2]) \ Stored(k)

\* The receiving page answers the query; a native peer never does.
Answer(t) ==
  /\ transfers[t].stage = "query"
  /\ LET Reply(todo) ==
           transfers' = [transfers EXCEPT ![t].stage = "answered", ![t].todo = todo]
     IN \/ /\ transfers[t].to = "browser"
           /\ Reply(MissingRanges(<<transfers[t].sender, transfers[t].file>>))
        \/ /\ transfers[t].to = "other"
           /\ \E todo \in SUBSET Chunks(transfers[t].file) : Reply(todo)
  /\ UNCHANGED <<nextId, node, store, output, shared, spent>>

\* All transfers of a page share one number (a slip).
SameId(s) == nextId
AdvanceId(s) == [nextId EXCEPT ![s] = @ + 1]

\* send_file_inner takes a transfer id and opens the connection to the peer selected by
\* then: with the answer, or with all chunks when none came in time.
Connect(t, to) ==
  /\ LET x == transfers[t] IN
     /\ x.stage \in {"query", "answered"}
     /\ \E todo \in {Chunks(x.file)} \cup (IF x.stage = "answered" THEN {x.todo} ELSE {}) :
          transfers' = [transfers EXCEPT ![t].stage = "sending", ![t].todo = todo, ![t].to = to,
                                         ![t].own = (to = x.to \/ todo = Chunks(x.file)),
                                         ![t].id = nextId[x.sender]]
     /\ nextId' = AdvanceId(x.sender)
  /\ UNCHANGED <<node, store, output, shared, spent>>

BeginSend(t) == transfers[t].to # "other" /\ Connect(t, transfers[t].to)

\* The user has selected another peer since the query went out: it gets the ranges that
\* the first one is missing.
Redirect(t, to) == to # transfers[t].to /\ Connect(t, to)

SendChunk(t) ==
  /\ transfers[t].stage = "sending" /\ transfers[t].todo # {}
  /\ LET i == Min(transfers[t].todo) IN
     transfers' = [transfers EXCEPT ![t].todo = @ \ {i}, ![t].wire = Append(@, i)]
  /\ UNCHANGED <<nextId, node, store, output, shared, spent>>

FinishSend(t) ==
  /\ transfers[t].stage = "sending" /\ transfers[t].todo = {}
  /\ Goes(t, "sent")
  /\ UNCHANGED <<nextId, node, store, output, shared, spent>>

----------------------------------------------------------------------------
(* The receiving wasm node: one task per connection *)

EventOf(t, kind, i) ==
  [kind |-> kind, sender |-> transfers[t].sender, file |-> transfers[t].file,
   id |-> transfers[t].id, chunk |-> i]

\* The bytes replace what the map holds under the same transfer id and chunk.
ReceiveChunk(t) ==
  /\ transfers[t].to = "browser" /\ transfers[t].stage \in {"sending", "sent"}
  /\ transfers[t].wire # <<>>
  /\ LET x == transfers[t]
         i == Head(x.wire)
     IN /\ memory' = {c \in memory : <<c[1], c[2]>> # <<x.id, i>>} \cup {<<x.id, i, x.file>>}
        /\ events' = Append(events, EventOf(t, "chunk", i))
        /\ transfers' = [transfers EXCEPT ![t].wire = Tail(@), ![t].count = @ + 1]
  /\ UNCHANGED <<nextId, page, store, output, shared, spent>>

\* Only a connection that brought the whole file completes it.
Completes(t) == transfers[t].count >= Size[transfers[t].file]

\* The acknowledgement goes out before the page has seen the chunks.
EndReceive(t) ==
  /\ At(t, "browser", "sent") /\ transfers[t].wire = <<>>
  /\ Goes(t, "done")
  /\ events' = IF Completes(t) THEN Append(events, EventOf(t, "completed", 0)) ELSE events
  /\ UNCHANGED <<nextId, memory, page, store, output, shared, spent>>

----------------------------------------------------------------------------
(* The receiving page: one event at a time *)

KeyOf(event) == <<event.sender, event.file>>

\* take_received_chunk; an error ends attachEventStream, and no event is handled again.
TakeChunk ==
  /\ page.stage = "idle" /\ events # <<>> /\ Head(events).kind = "chunk"
  /\ events' = Tail(events)
  /\ LET e == Head(events)
         taken == {c \in memory : c[1] = e.id /\ c[2] = e.chunk}
     IN IF taken = {}
        THEN page' = [Idle EXCEPT !.stage = "dead"] /\ UNCHANGED memory
        ELSE /\ page' = [Idle EXCEPT !.stage = "manifest", !.event = e,
                                     !.bytes = (CHOOSE c \in taken : TRUE)[3]]
             /\ memory' = memory \ taken
  /\ UNCHANGED <<transfers, nextId, store, output, shared, spent>>

LoadManifest ==
  /\ page.stage = "manifest"
  /\ page' = [page EXCEPT !.stage = "chunk",
       !.count = IF manifest[KeyOf(page.event)] = None THEN 0
                 ELSE manifest[KeyOf(page.event)].bytes]
  /\ UNCHANGED <<transfers, nextId, memory, events, store, output, shared, spent>>

LoadChunk ==
  /\ page.stage = "chunk"
  /\ page' = [page EXCEPT !.stage = "store",
       !.had = chunks[KeyOf(page.event)][page.event.chunk] # None]
  /\ UNCHANGED <<transfers, nextId, memory, events, store, output, shared, spent>>

\* A chunk that was stored before counts again (a slip).
CountAgain(count, had) == count + 1
CountNew(count, had) == IF had THEN count ELSE count + 1

\* storeReceivedChunk: manifest and chunk in one transaction.
StoreChunk ==
  /\ page.stage = "store"
  /\ LET k == KeyOf(page.event)
         n == CountNew(page.count, page.had)
     IN /\ manifest' = [manifest EXCEPT ![k] = [bytes |-> n, completed |-> n >= Size[k[2]]]]
        /\ chunks' = [chunks EXCEPT ![k][page.event.chunk] = page.bytes]
  /\ page' = Idle
  /\ UNCHANGED <<transfers, nextId, memory, events, output, shared, spent>>

\* markReceivedFileCompleted uses nothing of the old manifest but its date.
MarkCompleted ==
  /\ page.stage = "idle" /\ events # <<>> /\ Head(events).kind = "completed"
  /\ events' = Tail(events)
  /\ LET k == KeyOf(Head(events)) IN
     manifest' = [manifest EXCEPT ![k] = [bytes |-> Size[k[2]], completed |-> TRUE]]
  /\ UNCHANGED <<transfers, nextId, memory, page, chunks, output, shared, spent>>

----------------------------------------------------------------------------
(* The native peer: one task per connection *)

NativeChunk(t) ==
  /\ transfers[t].to = "native" /\ transfers[t].stage \in {"sending", "sent"}
  /\ transfers[t].wire # <<>>
  /\ transfers' = [transfers EXCEPT ![t].wire = Tail(@), ![t].count = @ + 1]
  /\ UNCHANGED <<nextId, node, store, output, shared, spent>>

Open == {t \in Slots : transfers[t].stage \in {"chosen", "writing"}}

\* What a clock of milliseconds may show: two readings may be equal.
Millis == 1..MaxTransfers

\* The name is taken whether a file has it or not (a slip).
PlainPath(t) == {<<Name[transfers[t].file]>>}
\* unique_output_path: the name, or if a file has it the name with the time, which is not
\* tested again.
UniquePath(t) ==
  LET name == <<Name[transfers[t].file]>> IN
  IF name \in DOMAIN output THEN {Append(name, now) : now \in Millis} ELSE {name}

ChoosePath(t) ==
  /\ At(t, "native", "sent") /\ transfers[t].wire = <<>>
  /\ \E path \in UniquePath(t) :
       /\ transfers' = [transfers EXCEPT ![t].stage = "chosen", ![t].path = path]
       /\ shared' = IF \/ \E u \in Open : transfers[u].path = path
                       \/ Len(path) > 1 /\ path \in DOMAIN output
                    THEN shared \cup {path} ELSE shared
  /\ UNCHANGED <<nextId, node, store, output, spent>>

Put(path, entry) == [p \in DOMAIN output \cup {path} |-> IF p = path THEN entry ELSE output[p]]

\* assemble_file_bytes and the hash check, then the file is created, empty.
CreateFile(t) ==
  /\ At(t, "native", "chosen")
  /\ IF transfers[t].count = Size[transfers[t].file]
     THEN /\ Goes(t, "writing")
          /\ output' = Put(transfers[t].path, [file |-> transfers[t].file, whole |-> FALSE])
     ELSE Goes(t, "failed") /\ UNCHANGED output
  /\ UNCHANGED <<nextId, node, store, shared, spent>>

WriteFile(t) ==
  /\ At(t, "native", "writing")
  /\ Goes(t, "done")
  /\ output' = Put(transfers[t].path, [file |-> transfers[t].file, whole |-> TRUE])
  /\ UNCHANGED <<nextId, node, store, shared, spent>>

----------------------------------------------------------------------------
(* Faults and the receiving user *)

Fault == faults < MaxFaults /\ faults' = faults + 1
Connected(t) == transfers[t].stage \in {"sending", "sent"}

Disconnect(t) ==
  /\ Connected(t) /\ Fault
  /\ Goes(t, "failed")
  /\ UNCHANGED <<nextId, node, store, output, shared, deleted, reloaded>>

\* A request or transaction fails: the handler throws, which ends attachEventStream.
StoreFails ==
  /\ Fault
  /\ \/ page.stage \in {"manifest", "chunk", "store"} /\ UNCHANGED events
     \/ /\ page.stage = "idle" /\ events # <<>> /\ Head(events).kind = "completed"
        /\ events' = Tail(events)
  /\ page' = [Idle EXCEPT !.stage = "stopped"]
  /\ UNCHANGED <<transfers, nextId, memory, store, output, shared, deleted, reloaded>>

\* The page is loaded again: IndexedDB is all that stays.
Reload ==
  /\ Fault
  /\ memory' = {} /\ events' = <<>> /\ page' = Idle
  /\ transfers' = [t \in Slots |-> IF transfers[t].to = "browser" /\ Connected(t)
                                   THEN [transfers[t] EXCEPT !.stage = "failed"]
                                   ELSE transfers[t]]
  /\ reloaded' = TRUE
  /\ UNCHANGED <<nextId, store, output, shared, deleted>>

\* deleteReceivedFile, one transaction, between any two steps of the page.
Delete(k) ==
  /\ manifest[k] # None /\ Fault
  /\ manifest' = [manifest EXCEPT ![k] = None]
  /\ chunks' = [chunks EXCEPT ![k] = NoChunks(k[2])]
  /\ deleted' = deleted \cup {k}
  /\ UNCHANGED <<transfers, nextId, node, output, shared, reloaded>>

Page == TakeChunk \/ LoadManifest \/ LoadChunk \/ StoreChunk \/ MarkCompleted
Step(t) == \/ Answer(t) \/ BeginSend(t) \/ SendChunk(t) \/ FinishSend(t)
           \/ ReceiveChunk(t) \/ EndReceive(t)
           \/ NativeChunk(t) \/ ChoosePath(t) \/ CreateFile(t) \/ WriteFile(t)

Next ==
  \/ \E s \in Sender, f \in File, to \in Peers : SendFile(s, f, to)
  \/ \E t \in Slots : \/ Step(t) \/ Disconnect(t)
                      \/ \E to \in {"browser", "native"} : Redirect(t, to)
  \/ Page \/ StoreFails \/ Reload \/ \E k \in Keys : Delete(k)

Spec == Init /\ [][Next]_vars

\* The page's event loop runs and connections make progress.
FairSpec == Spec /\ WF_vars(Page) /\ WF_vars(\E t \in Slots : Step(t))

----------------------------------------------------------------------------
(* Properties *)

\* Every event finds its chunk, so that the page's event loop never ends for want of one,
\* and the chunks stored for a file are that file's: the bytes travel apart from the event
\* that announces them.
StoredIsSent ==
  /\ page.stage # "dead"
  /\ \A k \in Keys : \A i \in Chunks(k[2]) : chunks[k][i] \in {None, k[2]}

\* The manifest counts each stored chunk once and shows a file as complete exactly when
\* all its chunks are stored, whatever was lost, repeated, resumed or sent twice at once,
\* as long as the user did not delete the file.
ManifestTellsStored ==
  \A k \in Keys \ deleted : manifest[k] # None =>
    /\ manifest[k].bytes = Cardinality(Stored(k))
    /\ manifest[k].completed <=> Stored(k) = Chunks(k[2])

\* A file the native peer acknowledged stays whole at the path it was written to, unless
\* another handler chose that path before it was written, or the same name in the same
\* millisecond.
AcknowledgedIsSaved ==
  \A t \in Slots :
    At(t, "native", "done") /\ transfers[t].path \notin shared =>
      output[transfers[t].path] = [file |-> transfers[t].file, whole |-> TRUE]

\* A transfer that was acknowledged, resumed or not, ends with the file complete at the
\* receiver.  There are four exceptions: its page was reloaded, the file was deleted, a
\* failure of IndexedDB has stopped the page's event loop, and the user selected this
\* peer only after another one had said which ranges it is missing.
SentArrives ==
  \A k \in Keys :
    (\E t \in Slots : /\ At(t, "browser", "done") /\ transfers[t].own
                      /\ <<transfers[t].sender, transfers[t].file>> = k)
      ~> \/ reloaded \/ k \in deleted \/ page.stage = "stopped"
         \/ manifest[k] # None /\ manifest[k].completed
=============================================================================
