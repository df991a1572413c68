---------------------------- MODULE FileTransfer ----------------------------
(***************************************************************************)
(* One file offered by a sender to a receiver over a control session.      *)
(* Three programs share the protocol:                                      *)
(*   "chunked"  src/files.rs, a chunk stream into a PersistentChunkStore   *)
(*   "blob"     src/files.rs, an iroh blob fetched with a ticket           *)
(*   "cli"      src/main.rs, `send file` and `receive file`                *)
(* The first two run both ends in one process; the state of the receiver   *)
(* stays on disk between attempts.  A file is its number of chunks; what   *)
(* matters of a chunk on disk is its length and whether its bytes are the  *)
(* file's.                                                                 *)
(***************************************************************************)
EXTENDS Integers, FiniteSets, Sequences

CONSTANTS
  Files,          \* the descriptors that may be offered
  Size,           \* chunk_count of each
  Tampered,       \* the descriptors whose hash is not that of the payload
  Programs,       \* the programs that run
  MaxAttempts,    \* bound: transfers started
  MaxFaults       \* bound: kills, power losses and edits of the source

ASSUME FilesAssumption ==
  /\ Size \in [Files -> Nat]
  /\ Tampered \subseteq Files
  /\ Programs \subseteq {"chunked", "blob", "cli"}
ASSUME TransferBounds == MaxAttempts \in Nat /\ MaxFaults \in Nat
\* A tampered empty file makes the two ends of "blob" wait for each other.
ASSUME TamperedIsNotEmpty == \A d \in Tampered : Size[d] > 0

VARIABLES
  program,   \* the program of this attempt
  offer,     \* its descriptor
  source,    \* the file at the sender's path: file_descriptor_for_path reads it
             \* once, the blob provider imports it later
  ticket,    \* the content the blob ticket names
  mode,      \* FileProbeMode
  s,         \* where the sender is
  r,         \* where the receiver is
  result,    \* [sender, receiver]: how the attempt ended for each
  toR, toS,  \* control frames under way
  stream,    \* chunks under way on the payload stream
  finished,  \* the sender has finished the payload stream
  short,     \* interrupt_after_chunks stopped this attempt
  missing,   \* missing ranges the sender still has to send
  meta,      \* meta.json of each chunk store: "none", "torn" or "ok"
  chunk,     \* the chunk files of each store
  blobs,     \* <<store, content, chunk>> verified in blob stores
  output,    \* the files written to the output directory
  attempts, faults, struck

attempt  == <<program, offer, mode, attempts>>
frames   == <<toR, toS>>
payload  == <<stream, finished, short, missing>>
disk     == <<meta, chunk, blobs, output>>
world    == <<source, faults, struck>>
vars     == <<attempt, world, ticket, s, r, result, frames, payload, disk>>

Chunks(d)  == 1..Size[d]
Honest(d)  == d \notin Tampered
Outcomes   == {"none", "completed", "cancelled", "rejected", "failed", "already"}
ChunkFile  == {"absent", "good", "stale", "short"}   \* right bytes; right length; neither
Good(d)    == {i \in Chunks(d) : chunk[d][i] = "good"}

TypeOK ==
  /\ program \in Programs /\ offer \in Files /\ source \in Files /\ ticket \in Files
  /\ mode \in {"accept", "reject", "cancel"}
  /\ s \in {"idle", "offered", "streaming", "terminal", "ended"}
  /\ r \in {"idle", "waiting", "meta", "responding", "receiving", "checking", "clearing", "ticket",
            "fetching", "writing", "saving", "reporting", "ended"}
  /\ result \in [{"sender", "receiver"} -> Outcomes]
  /\ meta \in [Files -> {"none", "torn", "ok"}]
  /\ \A d \in Files : chunk[d] \in [Chunks(d) -> ChunkFile]
  /\ missing \subseteq Chunks(offer)
  /\ attempts \in 0..MaxAttempts /\ faults \in 0..MaxFaults

Nothing(d) == [i \in Chunks(d) |-> "absent"]

Init ==
  /\ program \in Programs /\ offer \in Files /\ source = offer /\ ticket = offer
  /\ mode = "accept"
  /\ s = "idle" /\ r = "idle"
  /\ result = [sender |-> "none", receiver |-> "none"]
  /\ toR = <<>> /\ toS = <<>> /\ stream = <<>> /\ finished = FALSE /\ short = FALSE
  /\ missing = {}
  /\ meta = [d \in Files |-> "none"]
  /\ chunk = [d \in Files |-> Nothing(d)]
  /\ blobs = {} /\ output = <<>>
  /\ attempts = 0 /\ faults = 0 /\ struck = FALSE

----------------------------------------------------------------------------
(* Helpers *)

Over == s \in {"idle", "ended"} /\ r \in {"idle", "ended"}

EndSender(outcome) == s' = "ended" /\ result' = [result EXCEPT !.sender = outcome]
EndReceiver(outcome) == r' = "ended" /\ result' = [result EXCEPT !.receiver = outcome]

\* A chunk of the wrong length makes the scan start from nothing (a slip).
SweptAll(d) == IF \E i \in Chunks(d) : chunk[d][i] = "short" THEN Nothing(d) ELSE chunk[d]
\* present_chunks: a file of the wrong length is removed, one of the right length counts.
Swept(d)   == [i \in Chunks(d) |-> IF chunk[d][i] = "short" THEN "absent" ELSE chunk[d][i]]
Present(d) == {i \in Chunks(d) : chunk[d][i] \in {"good", "stale"}}
\* Chunks numbered from zero (a slip).
MissingFromZero(d) == {i - 1 : i \in Chunks(d) \ Present(d)}
\* A file that is not complete is requested whole (a slip).
MissingAll(d) == IF Present(d) = Chunks(d) THEN {} ELSE Chunks(d)
MissingRanges(d) == Chunks(d) \ Present(d)

\* The directory of the blob store: one of the probe, one per content of the command.
Store == IF program = "cli" THEN offer ELSE "native-store"
\* Chunks the blob store holds of a content; nothing has a tampered hash, and the
\* empty blob is always complete.
Held(content) == IF Honest(content)
                 THEN {i \in Chunks(content) : <<Store, content, i>> \in blobs}
                 ELSE {}
\* A chunk that is being fetched counts as held (a slip).
LocalBytesRounded == IF Held(offer) = Chunks(offer) THEN Size[offer]
                     ELSE Cardinality(Held(offer)) + 1
LocalBytes == Cardinality(Held(offer))
CompleteBefore == Honest(offer) /\ Held(offer) = Chunks(offer)

Message(kind) == [kind |-> kind, local |-> 0, missing |-> {}]

----------------------------------------------------------------------------
(* The sender *)

\* Both ends connect and bind; the sender describes its file and offers it.  The
\* probe writes the file it offers.
Start(p, d, m) ==
  /\ Over /\ attempts < MaxAttempts
  /\ p = "cli" => m = "accept" /\ Honest(d) /\ d = source
  /\ program' = p /\ offer' = d /\ mode' = m /\ attempts' = attempts + 1
  /\ source' = d /\ ticket' = d /\ struck' = FALSE
  /\ s' = "offered" /\ r' = "waiting"
  /\ result' = [sender |-> "none", receiver |-> "none"]
  /\ toR' = <<Message("offer")>> /\ toS' = <<>>
  /\ stream' = <<>> /\ finished' = FALSE /\ short' = FALSE /\ missing' = {}
  /\ UNCHANGED <<disk, faults>>

TakeFrame(kind) == toS # <<>> /\ Head(toS).kind = kind /\ toS' = Tail(toS)

\* The probe sends chunks when the response lists missing ranges.
StartStream ==
  /\ program = "chunked" /\ s = "offered" /\ TakeFrame("accepted")
  /\ missing' = Head(toS).missing
  /\ s' = IF missing' = {} THEN "terminal" ELSE "streaming"
  /\ UNCHANGED <<attempt, world, ticket, r, result, toR, stream, finished, short, disk>>

\* A ticket is sent when the receiver reports fewer bytes than the file has.  The
\* provider imports the file as it is now.
SendTicket ==
  /\ program # "chunked" /\ s = "offered" /\ TakeFrame("accepted")
  /\ Head(toS).local < Size[offer]
  /\ s' = "terminal" /\ ticket' = source
  /\ toR' = Append(toR, Message("ticket"))
  /\ UNCHANGED <<attempt, world, r, result, payload, disk>>

\* Otherwise the probe waits for the terminal frame all the same; the command
\* reports success at once and closes.
SkipTicket ==
  /\ program # "chunked" /\ s = "offered" /\ TakeFrame("accepted")
  /\ Head(toS).local >= Size[offer]
  /\ IF program = "cli" THEN EndSender("already") ELSE s' = "terminal" /\ UNCHANGED result
  /\ UNCHANGED <<attempt, world, ticket, r, toR, payload, disk>>

SendChunk ==
  /\ s = "streaming"
  /\ \E i \in missing :
       /\ \A j \in missing : i <= j
       /\ stream' = Append(stream, i) /\ missing' = missing \ {i}
  /\ UNCHANGED <<attempt, world, ticket, s, r, result, frames, finished, short, disk>>

\* The end of send_chunk_stream, or interrupt_after_chunks reached.
FinishStream ==
  /\ s = "streaming"
  /\ s' = "terminal" /\ finished' = TRUE
  /\ short' = (missing # {}) /\ missing' = {}
  /\ UNCHANGED <<attempt, world, ticket, r, result, frames, stream, disk>>

\* The frame that ends the transfer.
SenderEnds ==
  /\ s \in {"offered", "terminal"}
  /\ \/ s = "terminal" /\ TakeFrame("completed") /\ EndSender("completed")
     \/ TakeFrame("cancel") /\ EndSender("cancelled")
     \/ s = "offered" /\ TakeFrame("rejected") /\ EndSender("rejected")
  /\ UNCHANGED <<attempt, world, ticket, r, toR, payload, disk>>

\* The session is closed and nothing is left to read.
SenderLosesPeer ==
  /\ s \in {"offered", "streaming", "terminal"} /\ r = "ended" /\ toS = <<>>
  /\ EndSender("failed")
  /\ UNCHANGED <<attempt, world, ticket, r, frames, payload, disk>>

----------------------------------------------------------------------------
(* The receiver *)

Receives(kind) == toR # <<>> /\ Head(toR).kind = kind /\ toR' = Tail(toR)
Sends(frame) == toS' = Append(toS, frame)

\* reject_offer and cancel_offer.
Decline ==
  /\ r = "waiting" /\ mode # "accept" /\ Receives("offer")
  /\ IF mode = "reject"
     THEN Sends(Message("rejected")) /\ EndReceiver("rejected")
     ELSE Sends(Message("cancel")) /\ EndReceiver("cancelled")
  /\ UNCHANGED <<attempt, world, ticket, s, payload, disk>>

\* PersistentChunkStore::load.  Metadata that cannot be parsed is an error.
LoadStore ==
  /\ r = "waiting" /\ mode = "accept" /\ program = "chunked" /\ Receives("offer")
  /\ CASE meta[offer] = "none" -> r' = "meta" /\ UNCHANGED result
       [] meta[offer] = "torn" -> EndReceiver("failed")
       [] meta[offer] = "ok"   -> r' = "responding" /\ UNCHANGED result
  /\ UNCHANGED <<attempt, world, ticket, s, toS, payload, disk>>

\* The metadata is written in place, so a kill in state "meta" tears it.
WriteMeta ==
  /\ r = "meta"
  /\ meta' = [meta EXCEPT ![offer] = "ok"] /\ r' = "responding"
  /\ UNCHANGED <<attempt, world, ticket, s, result, frames, payload, chunk, blobs, output>>

\* resume_info and the response; a stream is awaited only when something is missing.
RespondChunked ==
  /\ r = "responding"
  /\ chunk' = [chunk EXCEPT ![offer] = Swept(offer)]
  /\ Sends([Message("accepted") EXCEPT !.missing = MissingRanges(offer)])
  /\ r' = IF MissingRanges(offer) = {} THEN "checking" ELSE "receiving"
  /\ UNCHANGED <<attempt, world, ticket, s, result, toR, payload, meta, blobs, output>>

\* receive_chunk_stream: write_chunk checks the length and the chunk's own hash, then
\* renames the temporary file.
ReceiveChunk ==
  /\ r = "receiving" /\ stream # <<>>
  /\ chunk' = [chunk EXCEPT ![offer][Head(stream)] = "good"]
  /\ stream' = Tail(stream)
  /\ UNCHANGED <<attempt, world, ticket, s, r, result, frames, finished, short, missing,
                 meta, blobs, output>>

EndOfStream ==
  /\ r = "receiving" /\ stream = <<>> /\ finished
  /\ r' = "checking"
  /\ UNCHANGED <<attempt, world, ticket, s, result, frames, payload, disk>>

\* A store with a file of the right length for every chunk passes (a slip).
WholeByLength(d) == Honest(d) /\ Present(d) = Chunks(d)
\* verify_complete: the bytes of all chunks have the hash of the descriptor.
Whole(d) == Honest(d) /\ Good(d) = Chunks(d)

\* The rest of handle_chunked_receiver: interrupted, verified, or a hash mismatch that
\* empties the store before it is reported.
Judge ==
  /\ r = "checking"
  /\ CASE Present(offer) # Chunks(offer) -> Sends(Message("cancel")) /\ EndReceiver("cancelled")
       [] Present(offer) = Chunks(offer) /\ Whole(offer) ->
            Sends(Message("completed")) /\ EndReceiver("completed")
       [] OTHER -> r' = "clearing" /\ UNCHANGED <<toS, result>>
  /\ UNCHANGED <<attempt, world, ticket, s, toR, payload, disk>>

\* A mismatch is reported and the store kept (a slip).
KeepStore(d) == UNCHANGED <<meta, chunk>>
Cleared(d) == /\ meta' = [meta EXCEPT ![d] = "none"]
              /\ chunk' = [chunk EXCEPT ![d] = Nothing(d)]

ClearStore ==
  /\ r = "clearing"
  /\ Cleared(offer)
  /\ Sends(Message("cancel")) /\ EndReceiver("cancelled")
  /\ UNCHANGED <<attempt, world, ticket, s, toR, payload, blobs, output>>

\* handle_native_receiver and run_native_receive_file up to the response.
RespondBlob ==
  /\ r = "waiting" /\ mode = "accept" /\ program # "chunked" /\ Receives("offer")
  /\ Sends([Message("accepted") EXCEPT !.local = LocalBytes])
  /\ r' = CASE ~CompleteBefore -> "ticket"
            [] CompleteBefore /\ program = "cli" -> "writing"
            [] OTHER -> "reporting"
  /\ UNCHANGED <<attempt, world, ticket, s, result, payload, disk>>

TakeTicket ==
  /\ r = "ticket" /\ Receives("ticket")
  /\ r' = "fetching"
  /\ UNCHANGED <<attempt, world, ticket, s, result, toS, payload, disk>>

\* execute_get brings verified chunks of the content the ticket names while the
\* provider is up.
Brought == {i \in Chunks(ticket) : <<Store, ticket, i>> \in blobs}
FetchChunk ==
  /\ r = "fetching" /\ s # "ended"
  /\ \E i \in Chunks(ticket) \ Brought : blobs' = blobs \cup {<<Store, ticket, i>>}
  /\ UNCHANGED <<attempt, world, ticket, s, r, result, frames, payload, meta, chunk, output>>

\* The probe compares hashes; the command goes on to look for the offered hash in its
\* store, and fails when the file changed since it was described.
Fetched ==
  /\ r = "fetching" /\ Brought = Chunks(ticket)
  /\ CASE program = "blob" /\ Honest(ticket) -> r' = "reporting" /\ UNCHANGED <<toS, result>>
       [] program = "blob" /\ ~Honest(ticket) ->
            Sends(Message("cancel")) /\ EndReceiver("cancelled")
       [] program = "cli" /\ CompleteBefore -> r' = "writing" /\ UNCHANGED <<toS, result>>
       [] OTHER -> EndReceiver("failed") /\ UNCHANGED toS
  /\ UNCHANGED <<attempt, world, ticket, s, toR, payload, disk>>

\* write_native_blob_to_file: a new name, then the bytes.
CreateOutput ==
  /\ r = "writing"
  /\ output' = Append(output, [file |-> offer, whole |-> FALSE])
  /\ r' = "saving"
  /\ UNCHANGED <<attempt, world, ticket, s, result, frames, payload, meta, chunk, blobs>>

FillOutput ==
  /\ r = "saving"
  /\ output' = [output EXCEPT ![Len(output)] = [file |-> offer, whole |-> TRUE]]
  /\ r' = "reporting"
  /\ UNCHANGED <<attempt, world, ticket, s, result, frames, payload, meta, chunk, blobs>>

\* The terminal frame, sent and waited for.  That a sender which had nothing to do has
\* closed the session is an error when the frame is written, and none when it is only
\* seen while waiting for the frame to be read; a dead sender always is one.
Report ==
  /\ r = "reporting"
  /\ \/ /\ s # "ended" \/ result.sender = "already"
        /\ Sends(Message("completed")) /\ EndReceiver("completed")
     \/ s = "ended" /\ EndReceiver("failed") /\ UNCHANGED toS
  /\ UNCHANGED <<attempt, world, ticket, s, toR, payload, disk>>

ReceiverLosesPeer ==
  /\ s = "ended"
  /\ \/ r \in {"waiting", "ticket"} /\ toR = <<>>
     \/ r = "fetching" /\ Brought # Chunks(ticket)
     \/ r = "receiving" /\ stream = <<>> /\ ~finished
  /\ EndReceiver("failed")
  /\ UNCHANGED <<attempt, world, ticket, s, frames, payload, disk>>

----------------------------------------------------------------------------
(* The world *)

Strike == faults < MaxFaults /\ faults' = faults + 1 /\ struck' = TRUE

\* What a kill leaves on disk: metadata half written, a store half removed.
Torn == meta' = IF r = "meta" THEN [meta EXCEPT ![offer] = "torn"] ELSE meta
HalfCleared ==
  \E left \in SUBSET Chunks(offer), m \in {"none", "ok"} :
    /\ chunk' = [chunk EXCEPT ![offer] =
                   [i \in Chunks(offer) |-> IF i \in left THEN @[i] ELSE "absent"]]
    /\ meta' = [meta EXCEPT ![offer] = m]

\* The two commands die separately.
KillSender ==
  /\ program = "cli" /\ s \notin {"idle", "ended"} /\ Strike
  /\ EndSender("failed")
  /\ UNCHANGED <<attempt, source, ticket, r, frames, payload, disk>>

KillReceiver ==
  /\ program = "cli" /\ r \notin {"idle", "ended"} /\ Strike
  /\ EndReceiver("failed")
  /\ UNCHANGED <<attempt, source, ticket, s, frames, payload, disk>>

\* The probe is one process.
KillProbe ==
  /\ program # "cli" /\ ~Over /\ Strike
  /\ s' = "ended" /\ r' = "ended"
  /\ result' = [sender |-> "failed", receiver |-> "failed"]
  /\ IF r = "clearing" THEN HalfCleared ELSE Torn /\ UNCHANGED chunk
  /\ UNCHANGED <<attempt, source, ticket, frames, payload, blobs, output>>

\* A power loss while nothing runs: renamed chunk files were not synced.
DamageChunk(d, i) ==
  /\ Over /\ Strike
  /\ chunk[d][i] \in {"good", "stale"}
  /\ \E c \in {"short", "stale"} : chunk' = [chunk EXCEPT ![d][i] = c]
  /\ result' = [sender |-> "none", receiver |-> "none"]
  /\ UNCHANGED <<attempt, source, ticket, s, r, frames, payload, meta, blobs, output>>

EditSource(d) ==
  /\ program = "cli" /\ Honest(d) /\ d # source /\ Strike
  /\ source' = d
  /\ UNCHANGED <<attempt, ticket, s, r, result, frames, payload, disk>>

Sender == \/ StartStream \/ SendTicket \/ SkipTicket \/ SendChunk \/ FinishStream
          \/ SenderEnds \/ SenderLosesPeer
Receiver == \/ Decline \/ LoadStore \/ WriteMeta \/ RespondChunked \/ ReceiveChunk
            \/ EndOfStream \/ Judge \/ ClearStore \/ RespondBlob \/ TakeTicket
            \/ FetchChunk \/ Fetched \/ CreateOutput \/ FillOutput \/ Report
            \/ ReceiverLosesPeer
Environment == \/ KillSender \/ KillReceiver \/ KillProbe
               \/ \E d \in Files : EditSource(d) \/ \E i \in Chunks(d) : DamageChunk(d, i)

Next == \/ \E p \in Programs, d \in Files, m \in {"accept", "reject", "cancel"} : Start(p, d, m)
        \/ Sender \/ Receiver \/ Environment

Spec == Init /\ [][Next]_vars

\* Both ends run; users, kills and damage are not fair.
FairSpec == Spec /\ WF_vars(Sender) /\ WF_vars(Receiver)

----------------------------------------------------------------------------
(* Properties *)

\* The receiver's chunk store or blob store holds the offered file, intact.
Kept == IF program = "chunked" THEN Honest(offer) /\ Good(offer) = Chunks(offer)
                               ELSE CompleteBefore
Saved(d) == \E k \in DOMAIN output : output[k] = [file |-> d, whole |-> TRUE]

\* A sender that reports "completed" is right: the receiver has verified and kept the
\* file the sender described, whatever was left over from earlier attempts and
\* whatever happened to the source in between.
CompletedIsWhole ==
  result.sender = "completed" => Kept /\ (program = "cli" => Saved(offer))

\* An attempt nothing interferes with ends in the same way on both sides, and an
\* accepted one that was not cut short delivers an honest file, or empties a store it
\* found damaged so that the next attempt starts afresh.  (A command whose receiver
\* had everything is left out: its two ends race, see the README.)
Concludes ==
  s = "ended" /\ r = "ended" /\ ~struck =>
    /\ result.sender = result.receiver \/ result.sender = "already"
    /\ mode = "accept" /\ Honest(offer) /\ ~short =>
         \/ result.receiver = "completed" \/ result.sender = "already"
         \/ program = "chunked" /\ meta[offer] = "torn"
         \/ program = "chunked" /\ meta[offer] = "none" /\ chunk[offer] = Nothing(offer)

\* A retry resumes: no chunk the receiver holds intact crosses the wire again.
SendsOnlyMissing == \A k \in DOMAIN stream : chunk[offer][stream[k]] # "good"

\* Verified chunks survive interruptions, kills and retries.  Only a failed
\* verification, or the disk itself, takes them away.
KeepsProgress ==
  [][\A d \in Files :
       ~(Good(d) \subseteq Good(d)') =>
         \/ \E i \in Chunks(d) : DamageChunk(d, i)
         \/ r = "clearing" /\ d = offer /\ ~Kept]_vars

\* The two ends never wait for each other: every attempt ends.
AttemptsEnd == (s = "offered") ~> Over

\* The three programs keep the promise of FileDelivery.
Delivery == INSTANCE FileDelivery WITH
  running <- ~Over, kept <- Kept, sender <- result.sender, receiver <- result.receiver

\* Over any number of attempts, kills and edits, each end says of a transfer only what
\* FileDelivery allows.
Delivers == Delivery!Spec
=============================================================================
