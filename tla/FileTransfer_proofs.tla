------------------------- MODULE FileTransfer_proofs -------------------------
(* A file transfer keeps the promise of FileDelivery, resumes where it was   *)
(* and ends in the same way on both sides, for any files, any programs and   *)
(* any number of attempts, kills and edits.                                  *)
EXTENDS FileTransfer, FiniteSetTheorems, TLAPS

Frame == [kind : {"offer", "ticket", "accepted", "completed", "cancel", "rejected"},
          local : Nat, missing : SUBSET Nat]

\* What is under way and on disk is well formed, and about the file that is offered.
WellFormed ==
  /\ toR \in Seq(Frame) /\ toS \in Seq(Frame) /\ stream \in Seq(Nat)
  /\ \A m \in Range(toS) : m.missing \subseteq Chunks(offer)
  /\ \A i \in Range(stream) : i \in Chunks(offer)
  /\ DOMAIN chunk = Files
  /\ output \in Seq([file : Files, whole : BOOLEAN])

Delivered == Kept /\ (program = "cli" => Saved(offer))

\* While the sender listens, the frames on their way to it are true.
FramesAreTrue ==
  s \notin {"idle", "ended"} =>
    \A m \in Range(toS) :
      /\ m.kind = "completed" => r = "ended" /\ result.receiver = "completed" /\ Delivered
      /\ m.kind = "cancel" => r = "ended" /\ result.receiver = "cancelled"
      /\ m.kind = "rejected" => r = "ended" /\ result.receiver = "rejected"
      /\ m.kind = "accepted" /\ program # "chunked" /\ m.local >= Size[offer] => CompleteBefore

\* Each end reports when it ends, and "completed" only of what was delivered.
EndsAreTrue ==
  /\ s # "ended" => result.sender = "none"
  /\ r # "ended" => result.receiver = "none"
  /\ result.sender = "completed" => s = "ended" /\ r = "ended" /\ Delivered

\* Which program can be where, and what the receiver has achieved by then.
Phases ==
  /\ program # "cli" => source = offer /\ ticket = offer
  /\ r \in {"meta", "responding", "receiving", "checking", "clearing"} => program = "chunked"
  /\ r \in {"ticket", "fetching"} => program # "chunked"
  /\ r = "clearing" => ~Kept
  /\ r \in {"writing", "saving"} => program = "cli" /\ CompleteBefore
  /\ r = "saving" => output # <<>> /\ output[Len(output)].file = offer
  /\ r = "reporting" => program # "chunked" /\ Delivered

IInv == TypeOK /\ WellFormed /\ FramesAreTrue /\ EndsAreTrue /\ Phases

-----------------------------------------------------------------------------
(* What is sent and what is read of it.                                      *)

LEMMA AppendRange ==
  ASSUME NEW S, NEW q \in Seq(S), NEW x \in S
  PROVE  Append(q, x) \in Seq(S) /\ Range(Append(q, x)) = Range(q) \cup {x}
<1> DEFINE r1 == Append(q, x)
           n  == Len(q)
<1>1. n \in Nat /\ DOMAIN q = 1..n
  OBVIOUS
<1>2. r1 \in Seq(S) /\ DOMAIN r1 = 1..(n + 1) /\ r1[n + 1] = x
  OBVIOUS
<1>3. \A k \in 1..n : r1[k] = q[k]
  OBVIOUS
<1> HIDE DEF r1, n
<1>4. \A k \in 1..(n + 1) : k = n + 1 \/ k \in 1..n
  BY <1>1
<1>5. Range(r1) \subseteq Range(q) \cup {x}
  BY <1>1, <1>2, <1>3, <1>4 DEF Range
<1>6. n + 1 \in 1..(n + 1) /\ 1..n \subseteq 1..(n + 1)
  BY <1>1
<1>7. Range(q) \cup {x} \subseteq Range(r1)
  BY <1>1, <1>2, <1>3, <1>6 DEF Range
<1> QED
  BY <1>2, <1>5, <1>7 DEF r1

LEMMA TailRange ==
  ASSUME NEW S, NEW q \in Seq(S), q # <<>>
  PROVE  /\ Head(q) \in S /\ Head(q) \in Range(q)
         /\ Tail(q) \in Seq(S) /\ Range(Tail(q)) \subseteq Range(q)
<1>1. Len(q) \in Nat /\ Len(q) > 0
  OBVIOUS
<1>2. Head(q) = q[1] /\ Head(q) \in S /\ Tail(q) \in Seq(S)
  OBVIOUS
<1>3. \A k \in DOMAIN Tail(q) : Tail(q)[k] = q[k + 1] /\ k + 1 \in DOMAIN q
  BY <1>1
<1>4. 1 \in DOMAIN q
  BY <1>1
<1> QED
  BY <1>2, <1>3, <1>4 DEF Range

LEMMA LastIndex ==
  ASSUME NEW S, NEW q \in Seq(S), q # <<>>
  PROVE  Len(q) \in DOMAIN q
OBVIOUS

(* A receiver with as many chunks of the offer as it has, has the offer.     *)
LEMMA EnoughIsAll ==
  ASSUME TypeOK
  PROVE  /\ LocalBytes \in Nat
         /\ LocalBytes >= Size[offer] => CompleteBefore
<1>1. Size[offer] \in Nat
  BY FilesAssumption DEF TypeOK
<1>2. IsFiniteSet(Chunks(offer)) /\ Cardinality(Chunks(offer)) = Size[offer]
  <2>1. 1 \in Int /\ Size[offer] \in Int
    BY <1>1
  <2>2. /\ IsFiniteSet(1..Size[offer])
        /\ Cardinality(1..Size[offer]) = IF 1 > Size[offer] THEN 0 ELSE Size[offer] - 1 + 1
    BY ONLY <2>1, FS_Interval, Zenon
  <2>3. Cardinality(1..Size[offer]) = Size[offer]
    BY ONLY <1>1, <2>2, SMT
  <2> QED
    BY <2>2, <2>3 DEF Chunks
<1>3. Held(offer) \in SUBSET Chunks(offer)
  BY DEF Held
<1>4. /\ IsFiniteSet(Held(offer)) /\ Cardinality(Held(offer)) <= Cardinality(Chunks(offer))
      /\ Cardinality(Chunks(offer)) = Cardinality(Held(offer)) => Chunks(offer) = Held(offer)
  BY <1>2, <1>3, FS_Subset
<1>5. LocalBytes \in Nat
  BY <1>4, FS_CardinalityType DEF LocalBytes
<1>6. CASE Honest(offer)
  BY <1>1, <1>2, <1>4, <1>5, <1>6 DEF LocalBytes, CompleteBefore
<1>7. CASE ~Honest(offer)
  <2>1. Size[offer] > 0 /\ LocalBytes = 0
    BY <1>7, TamperedIsNotEmpty, FS_EmptySet DEF Honest, LocalBytes, Held
  <2> QED
    BY <1>1, <2>1
<1> QED
  BY <1>5, <1>6, <1>7

(* What was delivered stays while the disk does.                            *)
LEMMA SameDisk ==
  ASSUME UNCHANGED <<program, offer, chunk, blobs, output>>
  PROVE  /\ Kept' <=> Kept
         /\ CompleteBefore' <=> CompleteBefore
         /\ Delivered' <=> Delivered
BY DEF Kept, CompleteBefore, Delivered, Saved, Held, Good, Store, Chunks

-----------------------------------------------------------------------------
LEMMA InitIInv == Init => IInv
<1> SUFFICES ASSUME Init PROVE IInv
  OBVIOUS
<1>1. TypeOK
  BY FilesAssumption, TransferBounds DEF Init, TypeOK, Outcomes, Nothing, ChunkFile
<1>2. WellFormed
  BY DEF Init, WellFormed, Range
<1>3. FramesAreTrue /\ EndsAreTrue /\ Phases
  BY DEF Init, FramesAreTrue, EndsAreTrue, Phases
<1> QED
  BY <1>1, <1>2, <1>3 DEF IInv

LEMMA StartIInv ==
  ASSUME IInv, NEW p \in Programs, NEW d \in Files, NEW m \in {"accept", "reject", "cancel"},
         Start(p, d, m)
  PROVE  IInv'
<1> USE DEF Start, disk
<1>1. TypeOK'
  BY TransferBounds DEF IInv, TypeOK, Outcomes
<1>2. WellFormed'
  <2>1. toR' \in Seq(Frame)
    BY DEF Message, Frame
  <2>2. toS' = <<>> /\ stream' = <<>> /\ UNCHANGED <<chunk, output>>
    OBVIOUS
  <2> QED
    BY <2>1, <2>2 DEF IInv, WellFormed, Range
<1>3. FramesAreTrue'
  BY DEF FramesAreTrue, Range
<1>4. EndsAreTrue' /\ Phases'
  BY DEF EndsAreTrue, Phases
<1> QED
  BY <1>1, <1>2, <1>3, <1>4 DEF IInv

(* The sender's steps that take nothing from the receiver.                  *)
LEMMA StreamIInv ==
  ASSUME IInv, SendChunk \/ FinishStream \/ SenderLosesPeer
  PROVE  IInv'
<1>1. /\ UNCHANGED <<program, offer, mode, attempts, source, faults, struck, ticket, r,
                     toR, toS, disk>>
      /\ s \notin {"idle", "ended"}
      /\ \/ s' # "ended" /\ s' \in {"streaming", "terminal"} /\ result' = result
         \/ s' = "ended" /\ result' = [result EXCEPT !.sender = "failed"]
      /\ missing' \subseteq missing
      /\ stream' = stream \/ \E i \in missing : stream' = Append(stream, i)
  BY DEF SendChunk, FinishStream, SenderLosesPeer, EndSender, attempt, world, frames, payload
<1>2. TypeOK'
  BY <1>1 DEF IInv, TypeOK, Outcomes, disk
<1>3. stream' \in Seq(Nat) /\ \A i \in Range(stream') : i \in Chunks(offer)
  <2>1. ASSUME NEW i \in missing
        PROVE  i \in Nat /\ i \in Chunks(offer)
    BY <2>1, FilesAssumption DEF IInv, TypeOK, Chunks
  <2>2. stream \in Seq(Nat) /\ \A i \in Range(stream) : i \in Chunks(offer)
    BY DEF IInv, WellFormed
  <2>3. CASE stream' = stream
    BY <2>2, <2>3
  <2>4. ASSUME NEW i \in missing, stream' = Append(stream, i)
        PROVE  stream' \in Seq(Nat) /\ \A k \in Range(stream') : k \in Chunks(offer)
    <3>1. stream' \in Seq(Nat) /\ Range(stream') = Range(stream) \cup {i}
      BY <2>1, <2>2, <2>4, AppendRange
    <3> QED
      BY <2>1, <2>2, <3>1
  <2> QED
    BY <1>1, <2>3, <2>4
<1>4. WellFormed'
  BY <1>1, <1>3 DEF IInv, WellFormed, disk, Chunks
<1>5. (Kept' <=> Kept) /\ (CompleteBefore' <=> CompleteBefore) /\ (Delivered' <=> Delivered)
  BY <1>1, SameDisk DEF disk
<1>6. FramesAreTrue'
  BY <1>1, <1>5 DEF IInv, FramesAreTrue
<1>7. EndsAreTrue' /\ Phases'
  BY <1>1, <1>5 DEF IInv, TypeOK, EndsAreTrue, Phases, disk
<1> QED
  BY <1>2, <1>4, <1>6, <1>7 DEF IInv

(* The sender's steps that take a frame.                                    *)
LEMMA ReadIInv ==
  ASSUME IInv, StartStream \/ SendTicket \/ SkipTicket \/ SenderEnds
  PROVE  IInv'
<1> DEFINE head == Head(toS)
<1>1. /\ toS # <<>> /\ toS' = Tail(toS)
      /\ UNCHANGED <<program, offer, mode, attempts, source, faults, struck, r,
                     stream, disk, finished, short>>
      /\ s \notin {"idle", "ended"}
      /\ \/ s' \in {"streaming", "terminal"} /\ result' = result
         \/ /\ s' = "ended"
            /\ \/ result' = [result EXCEPT !.sender = "already"]
               \/ head.kind = "completed" /\ result' = [result EXCEPT !.sender = "completed"]
               \/ head.kind = "cancel" /\ result' = [result EXCEPT !.sender = "cancelled"]
               \/ head.kind = "rejected" /\ result' = [result EXCEPT !.sender = "rejected"]
      /\ missing' = missing \/ missing' = head.missing
      /\ ticket' = ticket \/ ticket' = source
      /\ toR' = toR \/ toR' = Append(toR, Message("ticket"))
  BY DEF StartStream, SendTicket, SkipTicket, SenderEnds, TakeFrame, EndSender, attempt, world,
         frames, payload
<1>2. /\ head \in Frame /\ head \in Range(toS)
      /\ toS' \in Seq(Frame) /\ Range(toS') \subseteq Range(toS)
  BY <1>1, TailRange DEF IInv, WellFormed
<1>3. TypeOK'
  <2>1. missing' \subseteq Chunks(offer)
    BY <1>1, <1>2 DEF IInv, WellFormed, TypeOK
  <2> QED
    BY <1>1, <2>1 DEF IInv, TypeOK, Outcomes, disk, Chunks
<1>4. WellFormed'
  <2>1. Message("ticket") \in Frame
    BY DEF Message, Frame
  <2>2. toR' \in Seq(Frame)
    <3>1. toR \in Seq(Frame)
      BY DEF IInv, WellFormed
    <3>2. Append(toR, Message("ticket")) \in Seq(Frame)
      BY <2>1, <3>1, AppendRange
    <3> QED
      BY <1>1, <3>1, <3>2
  <2> QED
    BY <1>1, <1>2, <2>2 DEF IInv, WellFormed, disk, Chunks
<1>5. (Kept' <=> Kept) /\ (CompleteBefore' <=> CompleteBefore) /\ (Delivered' <=> Delivered)
  BY <1>1, SameDisk DEF disk
<1>6. FramesAreTrue'
  <2>1. CASE s' = "ended"
    BY <2>1 DEF FramesAreTrue
  <2>2. CASE s' # "ended"
    BY <2>2, <1>1, <1>2, <1>5 DEF IInv, FramesAreTrue
  <2> QED
    BY <2>1, <2>2
<1>7. EndsAreTrue'
  BY <1>1, <1>2, <1>5 DEF IInv, TypeOK, EndsAreTrue, FramesAreTrue
<1>8. Phases'
  BY <1>1, <1>5 DEF IInv, Phases, disk
<1> QED
  BY <1>3, <1>4, <1>6, <1>7, <1>8 DEF IInv

(* Where the receiver goes when it takes a frame or is done, and what it    *)
(* knows by then.                                                           *)
Proceeds ==
  /\ result' = result
  /\ \/ r' \in {"meta", "responding", "checking"} /\ program = "chunked"
     \/ r' = "clearing" /\ program = "chunked" /\ ~Kept
     \/ r' \in {"ticket", "fetching"} /\ program # "chunked"
     \/ r' = "writing" /\ program = "cli" /\ CompleteBefore
     \/ r' = "reporting" /\ program # "chunked" /\ Delivered

LEMMA ReceiverSteps ==
  ASSUME IInv,
         \/ Decline \/ LoadStore \/ EndOfStream \/ Judge \/ RespondBlob \/ TakeTicket
         \/ Fetched \/ Report \/ ReceiverLosesPeer
  PROVE  /\ UNCHANGED <<program, offer, mode, attempts, source, faults, struck, ticket, s,
                        payload, disk>>
         /\ r \notin {"idle", "ended"}
         /\ toR' = toR \/ (toR # <<>> /\ toR' = Tail(toR))
         /\ \/ toS' = toS /\ Proceeds
            \/ toS' = Append(toS, [Message("accepted") EXCEPT !.local = LocalBytes]) /\ Proceeds
            \/ toS' = toS /\ EndReceiver("failed")
            \/ toS' = Append(toS, Message("cancel")) /\ EndReceiver("cancelled")
            \/ toS' = Append(toS, Message("rejected")) /\ EndReceiver("rejected")
            \/ toS' = Append(toS, Message("completed")) /\ EndReceiver("completed") /\ Delivered
<1> USE DEF attempt, world, frames, payload, disk, Receives, Sends
<1>1. CASE Decline
  BY <1>1 DEF Decline
<1>2. CASE LoadStore
  BY <1>2 DEF LoadStore, Proceeds, IInv, TypeOK
<1>3. CASE EndOfStream
  <2>1. program = "chunked"
    BY <1>3 DEF EndOfStream, IInv, Phases
  <2> QED
    BY <1>3, <2>1 DEF EndOfStream, Proceeds
<1>4. CASE Judge
  <2>1. program = "chunked" /\ (Whole(offer) <=> Delivered) /\ (Kept <=> Delivered)
    BY <1>4 DEF Judge, IInv, Phases, Kept, Delivered, Whole
  <2>2. CASE Present(offer) # Chunks(offer)
    BY <1>4, <2>2 DEF Judge
  <2>3. CASE Present(offer) = Chunks(offer) /\ Whole(offer)
    BY <1>4, <2>1, <2>3 DEF Judge
  <2>4. CASE Present(offer) = Chunks(offer) /\ ~Whole(offer)
    <3>1. r' = "clearing" /\ toS' = toS /\ result' = result /\ toR' = toR
      BY <1>4, <2>4 DEF Judge
    <3> QED
      BY <1>4, <2>1, <2>4, <3>1 DEF Judge, Proceeds
  <2> QED
    BY <2>2, <2>3, <2>4
<1>5. CASE RespondBlob
  <2>1. CompleteBefore /\ program # "cli" => Delivered
    BY <1>5 DEF RespondBlob, Delivered, Kept
  <2> QED
    BY <1>5, <2>1 DEF RespondBlob, Proceeds
<1>6. CASE TakeTicket
  BY <1>6 DEF TakeTicket, Proceeds, IInv, Phases
<1>7. CASE Fetched
  <2>1. program # "chunked" /\ (program = "blob" => ticket = offer)
    BY <1>7 DEF Fetched, IInv, Phases
  <2>2. program = "blob" /\ Honest(ticket) => Delivered
    BY <1>7, <2>1 DEF Fetched, Delivered, Kept, CompleteBefore, Held, Brought
  <2>3. CASE program = "blob"
    BY <1>7, <2>1, <2>2, <2>3 DEF Fetched, Proceeds
  <2>4. CASE program = "cli" /\ CompleteBefore
    BY <1>7, <2>1, <2>4 DEF Fetched, Proceeds
  <2>5. CASE program = "cli" /\ ~CompleteBefore
    BY <1>7, <2>5 DEF Fetched
  <2>6. program \in {"blob", "cli"}
    BY <2>1, FilesAssumption DEF IInv, TypeOK
  <2> QED
    BY <2>3, <2>4, <2>5, <2>6
<1>8. CASE Report
  <2>1. Delivered
    BY <1>8 DEF Report, IInv, Phases
  <2> QED
    BY <1>8, <2>1 DEF Report
<1>9. CASE ReceiverLosesPeer
  <2>1. r \notin {"idle", "ended"} /\ toS' = toS /\ toR' = toR
    BY <1>9 DEF ReceiverLosesPeer
  <2>2. EndReceiver("failed")
    BY <1>9 DEF ReceiverLosesPeer
  <2>3. UNCHANGED <<program, offer, mode, attempts, source, faults, struck, ticket, s,
                        payload, disk>>
    BY <1>9 DEF ReceiverLosesPeer
  <2> QED
    BY <2>1, <2>2, <2>3
<1> QED
  BY <1>1, <1>2, <1>3, <1>4, <1>5, <1>6, <1>7, <1>8, <1>9

(* What the receiver says is true.                                          *)
LEMMA AnswersIInv ==
  ASSUME IInv,
         \/ Decline \/ LoadStore \/ EndOfStream \/ Judge \/ RespondBlob \/ TakeTicket
         \/ Fetched \/ Report \/ ReceiverLosesPeer
  PROVE  IInv'
<1>1. /\ UNCHANGED <<program, offer, mode, attempts, source, faults, struck, ticket, s,
                     payload, disk>>
      /\ r \notin {"idle", "ended"}
      /\ toR' = toR \/ (toR # <<>> /\ toR' = Tail(toR))
      /\ \/ toS' = toS /\ Proceeds
         \/ toS' = Append(toS, [Message("accepted") EXCEPT !.local = LocalBytes]) /\ Proceeds
         \/ toS' = toS /\ EndReceiver("failed")
         \/ toS' = Append(toS, Message("cancel")) /\ EndReceiver("cancelled")
         \/ toS' = Append(toS, Message("rejected")) /\ EndReceiver("rejected")
         \/ toS' = Append(toS, Message("completed")) /\ EndReceiver("completed") /\ Delivered
  BY ReceiverSteps
<1>2. LocalBytes \in Nat /\ (LocalBytes >= Size[offer] => CompleteBefore)
  BY EnoughIsAll DEF IInv
<1>3. (Kept' <=> Kept) /\ (CompleteBefore' <=> CompleteBefore) /\ (Delivered' <=> Delivered)
  BY <1>1, SameDisk DEF disk
<1>4. TypeOK'
  BY <1>1 DEF IInv, TypeOK, Outcomes, payload, disk, Proceeds, EndReceiver, Chunks
<1>5. toS \in Seq(Frame) /\ toR \in Seq(Frame)
  BY DEF IInv, WellFormed
<1>6. toR' \in Seq(Frame)
  BY <1>1, <1>5, TailRange
<1>7. PICK new :
        /\ new \in Frame /\ new.missing = {}
        /\ toS' = toS \/ (toS' \in Seq(Frame) /\ Range(toS') = Range(toS) \cup {new})
        /\ \/ toS' = toS /\ (Proceeds \/ EndReceiver("failed"))
           \/ /\ Proceeds
              /\ new.kind = "accepted" /\ (new.local >= Size[offer] => CompleteBefore)
           \/ new.kind = "cancel" /\ EndReceiver("cancelled")
           \/ new.kind = "rejected" /\ EndReceiver("rejected")
           \/ new.kind = "completed" /\ EndReceiver("completed") /\ Delivered
  <2> DEFINE answer == [Message("accepted") EXCEPT !.local = LocalBytes]
             cancel == Message("cancel")
             rejected == Message("rejected")
             completed == Message("completed")
  <2>1. {answer, cancel, rejected, completed} \subseteq Frame
    BY <1>2 DEF Message, Frame
  <2>2. \A x \in Frame : Append(toS, x) \in Seq(Frame) /\ Range(Append(toS, x)) = Range(toS) \cup {x}
    BY <1>5, AppendRange
  <2>3. /\ answer.kind = "accepted" /\ answer.local = LocalBytes /\ answer.missing = {}
        /\ cancel.kind = "cancel" /\ cancel.missing = {}
        /\ rejected.kind = "rejected" /\ rejected.missing = {}
        /\ completed.kind = "completed" /\ completed.missing = {}
    BY DEF Message
  <2> HIDE DEF answer, cancel, rejected, completed
  <2>4. \/ toS' = toS /\ (Proceeds \/ EndReceiver("failed"))
        \/ toS' = Append(toS, answer) /\ Proceeds
        \/ toS' = Append(toS, cancel) /\ EndReceiver("cancelled")
        \/ toS' = Append(toS, rejected) /\ EndReceiver("rejected")
        \/ toS' = Append(toS, completed) /\ EndReceiver("completed") /\ Delivered
    BY <1>1 DEF answer, cancel, rejected, completed
  <2>5. CASE toS' = toS /\ (Proceeds \/ EndReceiver("failed"))
    BY <2>1, <2>3, <2>5
  <2>6. CASE toS' = Append(toS, answer) /\ Proceeds
    BY <1>2, <2>1, <2>2, <2>3, <2>6
  <2>7. CASE toS' = Append(toS, cancel) /\ EndReceiver("cancelled")
    BY <2>1, <2>2, <2>3, <2>7
  <2>8. CASE toS' = Append(toS, rejected) /\ EndReceiver("rejected")
    BY <2>1, <2>2, <2>3, <2>8
  <2>9. CASE toS' = Append(toS, completed) /\ EndReceiver("completed") /\ Delivered
    BY <2>1, <2>2, <2>3, <2>9
  <2> QED
    BY <2>4, <2>5, <2>6, <2>7, <2>8, <2>9
<1>8. WellFormed'
  BY <1>1, <1>5, <1>6, <1>7 DEF IInv, WellFormed, payload, disk, Chunks
<1>9. FramesAreTrue'
  BY <1>1, <1>3, <1>7 DEF IInv, TypeOK, FramesAreTrue, Proceeds, EndReceiver
<1>10. EndsAreTrue'
  BY <1>1, <1>7 DEF IInv, TypeOK, EndsAreTrue, Proceeds, EndReceiver
<1>11. Phases'
  BY <1>1, <1>3, <1>7 DEF IInv, Phases, Proceeds, EndReceiver
<1> QED
  BY <1>4, <1>8, <1>9, <1>10, <1>11 DEF IInv

(* While the receiver is at work the sender has been told nothing final.    *)
LEMMA NothingFinal ==
  ASSUME IInv, r # "ended"
  PROVE  /\ result.sender # "completed" /\ result.receiver = "none"
         /\ s \notin {"idle", "ended"} =>
              \A m \in Range(toS) : m.kind \notin {"completed", "cancel", "rejected"}
BY DEF IInv, FramesAreTrue, EndsAreTrue

(* The receiver's steps that change its disk and say nothing.               *)
LEMMA QuietDiskIInv ==
  ASSUME IInv, WriteMeta \/ ReceiveChunk \/ FetchChunk \/ CreateOutput \/ FillOutput
  PROVE  IInv'
<1>1. /\ UNCHANGED <<program, offer, mode, attempts, source, faults, struck, ticket, s, result,
                     toR, toS, finished, short, missing>>
      /\ r \notin {"idle", "ended"} /\ r' # "ended"
  BY DEF WriteMeta, ReceiveChunk, FetchChunk, CreateOutput, FillOutput,
         attempt, world, frames, payload
<1>2. CompleteBefore => CompleteBefore'
  <2>1. blobs \subseteq blobs'
    BY DEF WriteMeta, ReceiveChunk, FetchChunk, CreateOutput, FillOutput
  <2> QED
    BY <1>1, <2>1 DEF CompleteBefore, Held, Store, Chunks
<1>3. stream' \in Seq(Nat) /\ Range(stream') \subseteq Range(stream)
  <2>1. stream' = stream \/ (stream # <<>> /\ stream' = Tail(stream))
    BY DEF WriteMeta, ReceiveChunk, FetchChunk, CreateOutput, FillOutput, payload
  <2> QED
    BY <2>1, TailRange DEF IInv, WellFormed
<1>4. /\ DOMAIN chunk' = Files
      /\ \A d \in Files : chunk'[d] \in [Chunks(d) -> ChunkFile]
  <2>1. DOMAIN chunk = Files /\ \A d \in Files : chunk[d] \in [Chunks(d) -> ChunkFile]
    BY DEF IInv, TypeOK, WellFormed
  <2>2. CASE ReceiveChunk
    <3>1. chunk' = [chunk EXCEPT ![offer] = [chunk[offer] EXCEPT ![Head(stream)] = "good"]]
      BY <2>2 DEF ReceiveChunk
    <3>2. [chunk[offer] EXCEPT ![Head(stream)] = "good"] \in [Chunks(offer) -> ChunkFile]
      BY <2>1 DEF ChunkFile, IInv, TypeOK
    <3> QED
      BY <2>1, <3>1, <3>2
  <2>3. CASE chunk' = chunk
    BY <2>1, <2>3
  <2> QED
    BY <2>2, <2>3 DEF WriteMeta, FetchChunk, CreateOutput, FillOutput
<1>5. /\ output' \in Seq([file : Files, whole : BOOLEAN])
      /\ r' = "saving" => output' # <<>> /\ output'[Len(output')].file = offer
      /\ r' = "reporting" => Saved(offer)'
  <2>1. output \in Seq([file : Files, whole : BOOLEAN]) /\ offer \in Files
    BY DEF IInv, WellFormed, TypeOK
  <2>2. CASE WriteMeta \/ ReceiveChunk \/ FetchChunk
    BY <2>1, <2>2 DEF WriteMeta, ReceiveChunk, FetchChunk
  <2>3. CASE CreateOutput
    <3>1. [file |-> offer, whole |-> FALSE] \in [file : Files, whole : BOOLEAN]
      BY <2>1
    <3> QED
      BY <2>1, <2>3, <3>1 DEF CreateOutput
  <2>4. CASE FillOutput
    <3> DEFINE last == [file |-> offer, whole |-> TRUE]
    <3>1. /\ output # <<>>
          /\ output' = [output EXCEPT ![Len(output)] = last] /\ r' = "reporting"
      BY <2>4 DEF FillOutput, IInv, Phases
    <3>2. Len(output) \in DOMAIN output
      BY <2>1, <3>1, LastIndex
    <3>3. last \in [file : Files, whole : BOOLEAN]
      BY <2>1
    <3> HIDE DEF last
    <3>4. output' \in Seq([file : Files, whole : BOOLEAN])
      BY <2>1, <3>1, <3>2, <3>3
    <3>5. output'[Len(output)] = last /\ DOMAIN output' = DOMAIN output
      BY <3>1, <3>2
    <3>6. Saved(offer)'
      BY <1>1, <3>2, <3>5 DEF Saved, last
    <3> QED
      BY <3>1, <3>4, <3>6
  <2> QED
    BY <2>2, <2>3, <2>4
<1>6. TypeOK'
  <2>1. meta' \in [Files -> {"none", "torn", "ok"}]
    BY DEF WriteMeta, ReceiveChunk, FetchChunk, CreateOutput, FillOutput, IInv, TypeOK
  <2>2. r' \in {"responding", "receiving", "fetching", "saving", "reporting"}
    BY DEF WriteMeta, ReceiveChunk, FetchChunk, CreateOutput, FillOutput
  <2> QED
    BY <1>1, <1>4, <2>1, <2>2 DEF IInv, TypeOK, Chunks
<1>7. WellFormed'
  BY <1>1, <1>3, <1>4, <1>5 DEF IInv, WellFormed, Chunks
<1>8. FramesAreTrue' /\ EndsAreTrue'
  BY <1>1, <1>2, NothingFinal DEF IInv, FramesAreTrue, EndsAreTrue
<1>9. Phases'
  <2>1. CASE WriteMeta
    BY <1>1, <2>1 DEF IInv, Phases, WriteMeta
  <2>2. CASE ReceiveChunk
    BY <1>1, <2>2 DEF IInv, Phases, ReceiveChunk
  <2>3. CASE FetchChunk
    BY <1>1, <2>3 DEF IInv, Phases, FetchChunk
  <2>4. CASE CreateOutput
    BY <1>1, <1>2, <1>5, <2>4 DEF IInv, Phases, CreateOutput
  <2>5. CASE FillOutput
    BY <1>1, <1>2, <1>5, <2>5 DEF IInv, Phases, FillOutput, Delivered, Kept
  <2> QED
    BY <2>1, <2>2, <2>3, <2>4, <2>5
<1> QED
  BY <1>6, <1>7, <1>8, <1>9 DEF IInv

(* Files of the wrong length go, and nothing else does.                     *)
LEMMA RespondChunkedIInv ==
  ASSUME IInv, RespondChunked
  PROVE  IInv'
<1> DEFINE new == [Message("accepted") EXCEPT !.missing = MissingRanges(offer)]
<1>1. /\ UNCHANGED <<program, offer, mode, attempts, source, faults, struck, ticket, s, result,
                     toR, payload, meta, blobs, output>>
      /\ r = "responding" /\ r' \in {"checking", "receiving"}
      /\ chunk' = [chunk EXCEPT ![offer] = Swept(offer)]
      /\ toS' = Append(toS, new)
  BY DEF RespondChunked, attempt, world, Sends
<1>2. /\ Swept(offer) \in [Chunks(offer) -> ChunkFile]
      /\ offer \in Files /\ program = "chunked"
  BY <1>1 DEF IInv, TypeOK, Phases, Swept, ChunkFile
<1>3. MissingRanges(offer) \subseteq Chunks(offer) /\ Chunks(offer) \subseteq Nat
  BY <1>2, FilesAssumption DEF MissingRanges, Chunks
<1>4. new \in Frame /\ new.kind = "accepted" /\ new.missing \subseteq Chunks(offer)
  BY <1>3 DEF Message, Frame
<1> HIDE DEF new
<1>5. toS' \in Seq(Frame) /\ Range(toS') = Range(toS) \cup {new}
  BY <1>1, <1>4, AppendRange DEF IInv, WellFormed
<1>6. TypeOK'
  BY <1>1, <1>2 DEF IInv, TypeOK, WellFormed, payload, Chunks
<1>7. WellFormed'
  BY <1>1, <1>4, <1>5 DEF IInv, WellFormed, payload, Chunks
<1>8. FramesAreTrue' /\ EndsAreTrue'
  BY <1>1, <1>2, <1>4, <1>5, NothingFinal DEF IInv, FramesAreTrue, EndsAreTrue
<1>9. Phases'
  BY <1>1, <1>2 DEF IInv, Phases
<1> QED
  BY <1>6, <1>7, <1>8, <1>9 DEF IInv

LEMMA ClearStoreIInv ==
  ASSUME IInv, ClearStore
  PROVE  IInv'
<1> DEFINE new == Message("cancel")
<1>1. /\ UNCHANGED <<program, offer, mode, attempts, source, faults, struck, ticket, s,
                     toR, payload, blobs, output>>
      /\ r = "clearing" /\ r' = "ended" /\ result' = [result EXCEPT !.receiver = "cancelled"]
      /\ chunk' = [chunk EXCEPT ![offer] = Nothing(offer)]
      /\ meta' = [meta EXCEPT ![offer] = "none"]
      /\ toS' = Append(toS, new)
  BY DEF ClearStore, Cleared, EndReceiver, attempt, world, Sends
<1>2. Nothing(offer) \in [Chunks(offer) -> ChunkFile] /\ offer \in Files
  BY DEF IInv, TypeOK, Nothing, ChunkFile
<1>4. new \in Frame /\ new.kind = "cancel" /\ new.missing = {}
  BY DEF Message, Frame
<1> HIDE DEF new
<1>5. toS' \in Seq(Frame) /\ Range(toS') = Range(toS) \cup {new}
  BY <1>1, <1>4, AppendRange DEF IInv, WellFormed
<1>6. TypeOK'
  BY <1>1, <1>2 DEF IInv, TypeOK, WellFormed, payload, Chunks, Outcomes
<1>7. WellFormed'
  BY <1>1, <1>4, <1>5 DEF IInv, WellFormed, payload, Chunks
<1>8. EndsAreTrue'
  BY <1>1, NothingFinal DEF IInv, TypeOK, EndsAreTrue
<1>9. FramesAreTrue'
  <2>1. CompleteBefore' <=> CompleteBefore
    BY <1>1 DEF CompleteBefore, Held, Store, Chunks
  <2>2. result'.receiver = "cancelled"
    BY <1>1 DEF IInv, TypeOK
  <2> QED
    BY <1>1, <1>4, <1>5, <2>1, <2>2, NothingFinal DEF IInv, FramesAreTrue
<1>10. Phases'
  BY <1>1 DEF IInv, Phases
<1> QED
  BY <1>6, <1>7, <1>8, <1>9, <1>10 DEF IInv

-----------------------------------------------------------------------------
LEMMA WorldIInv ==
  ASSUME IInv, Environment
  PROVE  IInv'
<1>1. ASSUME KillSender \/ KillReceiver
      PROVE  IInv'
  <2>1. /\ UNCHANGED <<program, offer, mode, attempts, source, ticket, toR, toS, payload, disk>>
        /\ faults' \in 0..MaxFaults
        /\ \/ /\ s' = "ended" /\ result' = [result EXCEPT !.sender = "failed"] /\ r' = r
              /\ s # "ended"
           \/ /\ r' = "ended" /\ result' = [result EXCEPT !.receiver = "failed"] /\ s' = s
              /\ r # "ended"
    BY <1>1, TransferBounds DEF KillSender, KillReceiver, EndSender, EndReceiver, Strike,
       attempt, frames, IInv, TypeOK
  <2>2. (Kept' <=> Kept) /\ (CompleteBefore' <=> CompleteBefore) /\ (Delivered' <=> Delivered)
    BY <2>1, SameDisk DEF disk
  <2>3. TypeOK'
    BY <2>1 DEF IInv, TypeOK, payload, disk, Outcomes, Chunks
  <2>4. WellFormed'
    BY <2>1 DEF IInv, WellFormed, payload, disk, Chunks
  <2>5. FramesAreTrue'
    BY <2>1, <2>2, NothingFinal DEF IInv, FramesAreTrue
  <2>6. EndsAreTrue'
    BY <2>1, <2>2, NothingFinal DEF IInv, TypeOK, EndsAreTrue
  <2>7. Phases'
    BY <2>1, <2>2 DEF IInv, Phases, disk
  <2> QED
    BY <2>3, <2>4, <2>5, <2>6, <2>7 DEF IInv
<1>2. ASSUME KillProbe
      PROVE  IInv'
  <2>1. /\ UNCHANGED <<program, offer, mode, attempts, source, ticket, toR, toS, payload, blobs, output>>
        /\ s' = "ended" /\ r' = "ended"
        /\ result' = [sender |-> "failed", receiver |-> "failed"]
        /\ faults' \in 0..MaxFaults
    BY <1>2, TransferBounds DEF KillProbe, Strike, attempt, frames, IInv, TypeOK
  <2>2. /\ meta' \in [Files -> {"none", "torn", "ok"}]
        /\ DOMAIN chunk' = Files
        /\ \A d \in Files : chunk'[d] \in [Chunks(d) -> ChunkFile]
    <3>1. CASE r = "clearing"
      <4>1. PICK left \in SUBSET Chunks(offer), m \in {"none", "ok"} :
              /\ chunk' = [chunk EXCEPT ![offer] =
                             [i \in Chunks(offer) |->
                                IF i \in left THEN chunk[offer][i] ELSE "absent"]]
              /\ meta' = [meta EXCEPT ![offer] = m]
        BY <1>2, <3>1 DEF KillProbe, HalfCleared
      <4> QED
        BY <4>1 DEF IInv, TypeOK, WellFormed, ChunkFile
    <3>2. CASE r # "clearing"
      BY <1>2, <3>2 DEF KillProbe, Torn, IInv, TypeOK, WellFormed
    <3> QED
      BY <3>1, <3>2
  <2>3. TypeOK'
    BY <2>1, <2>2 DEF IInv, TypeOK, payload, Outcomes, Chunks
  <2>4. WellFormed'
    BY <2>1, <2>2 DEF IInv, WellFormed, payload, Chunks
  <2>5. FramesAreTrue' /\ EndsAreTrue' /\ Phases'
    BY <2>1 DEF IInv, FramesAreTrue, EndsAreTrue, Phases
  <2> QED
    BY <2>3, <2>4, <2>5 DEF IInv
<1>3. ASSUME NEW d \in Files, NEW i \in Chunks(d), DamageChunk(d, i)
      PROVE  IInv'
  <2>1. /\ UNCHANGED <<program, offer, mode, attempts, source, ticket, s, r, toR, toS, payload, meta,
                       blobs, output>>
        /\ s \in {"idle", "ended"} /\ r \in {"idle", "ended"}
        /\ result' = [sender |-> "none", receiver |-> "none"]
        /\ faults' \in 0..MaxFaults
    BY <1>3, TransferBounds DEF DamageChunk, Over, Strike, attempt, frames, IInv, TypeOK
  <2>2. DOMAIN chunk' = Files /\ \A x \in Files : chunk'[x] \in [Chunks(x) -> ChunkFile]
    <3>1. PICK c \in ChunkFile : chunk' = [chunk EXCEPT ![d] = [chunk[d] EXCEPT ![i] = c]]
      BY <1>3 DEF DamageChunk, ChunkFile
    <3>2. DOMAIN chunk = Files /\ \A x \in Files : chunk[x] \in [Chunks(x) -> ChunkFile]
      BY DEF IInv, TypeOK, WellFormed
    <3>3. [chunk[d] EXCEPT ![i] = c] \in [Chunks(d) -> ChunkFile]
      BY <3>2
    <3> QED
      BY <3>1, <3>2, <3>3
  <2>3. TypeOK'
    BY <2>1, <2>2 DEF IInv, TypeOK, payload, Outcomes, Chunks
  <2>4. WellFormed'
    BY <2>1, <2>2 DEF IInv, WellFormed, payload, Chunks
  <2>5. FramesAreTrue' /\ EndsAreTrue' /\ Phases'
    BY <2>1 DEF IInv, FramesAreTrue, EndsAreTrue, Phases
  <2> QED
    BY <2>3, <2>4, <2>5 DEF IInv
<1>4. ASSUME NEW d \in Files, EditSource(d)
      PROVE  IInv'
  <2>1. /\ UNCHANGED <<program, offer, mode, attempts, ticket, s, r, result, toR, toS, payload, disk>>
        /\ program = "cli" /\ source' = d /\ faults' \in 0..MaxFaults
    BY <1>4, TransferBounds DEF EditSource, Strike, attempt, frames, IInv, TypeOK
  <2>2. (Kept' <=> Kept) /\ (CompleteBefore' <=> CompleteBefore) /\ (Delivered' <=> Delivered)
    BY <2>1, SameDisk DEF disk
  <2>3. TypeOK'
    BY <2>1 DEF IInv, TypeOK, payload, disk, Chunks
  <2>4. WellFormed'
    BY <2>1 DEF IInv, WellFormed, payload, disk, Chunks
  <2>5. FramesAreTrue' /\ EndsAreTrue'
    BY <2>1, <2>2 DEF IInv, FramesAreTrue, EndsAreTrue
  <2>6. Phases'
    BY <2>1, <2>2 DEF IInv, Phases, disk
  <2> QED
    BY <2>3, <2>4, <2>5, <2>6 DEF IInv
<1> QED
  BY <1>1, <1>2, <1>3, <1>4 DEF Environment

LEMMA StutterIInv == IInv /\ UNCHANGED vars => IInv'
BY SameDisk DEF vars, attempt, world, frames, payload, disk, IInv, TypeOK, WellFormed,
   FramesAreTrue, EndsAreTrue, Phases, Chunks

(* Every step preserves the invariant.                                      *)
LEMMA NextIInv == IInv /\ [Next]_vars => IInv'
<1> SUFFICES ASSUME IInv, [Next]_vars
             PROVE  IInv'
  OBVIOUS
<1>1. ASSUME Sender PROVE IInv'
  BY <1>1, StreamIInv, ReadIInv DEF Sender
<1>2. ASSUME Receiver PROVE IInv'
  BY <1>2, AnswersIInv, QuietDiskIInv, RespondChunkedIInv, ClearStoreIInv DEF Receiver
<1> QED
  BY <1>1, <1>2, StartIInv, WorldIInv, StutterIInv DEF Next

(* Frames, disk and ends of a transfer fit together in every run.            *)
THEOREM InductiveInvariant == Spec => []IInv
BY InitIInv, NextIInv, PTL DEF Spec

(* The variables keep their types.                                          *)
THEOREM TypeCorrect == Spec => []TypeOK
<1>1. IInv => TypeOK
  BY DEF IInv
<1> QED
  BY InductiveInvariant, <1>1, PTL

(* A sender that reports "completed" is right, for any files, programs and  *)
(* number of attempts, kills and edits of the source.                       *)
THEOREM CompletedHolds == Spec => []CompletedIsWhole
<1>1. IInv => CompletedIsWhole
  BY DEF IInv, EndsAreTrue, Delivered, CompletedIsWhole
<1> QED
  BY InductiveInvariant, <1>1, PTL

-----------------------------------------------------------------------------
(* FileTransfer implements FileDelivery.                                     *)

LEMMA KeptType == Kept \in BOOLEAN /\ Kept' \in BOOLEAN
BY DEF Kept, CompleteBefore

LEMMA SameKept ==
  ASSUME UNCHANGED <<program, offer, chunk, blobs>>
  PROVE  Kept' = Kept
BY DEF Kept, CompleteBefore, Held, Good, Store, Chunks

Delivering == [Delivery!Next]_<<~Over, Kept, result.sender, result.receiver>>

\* While a transfer goes on, an end that has ended has reported.
Reported ==
  ~Over => /\ s # "idle" /\ r # "idle"
           /\ s = "ended" => result.sender # "none"
           /\ r = "ended" => result.receiver # "none"

LEMMA InitReported == Init => Reported
BY DEF Init, Reported, Over

(* An end that takes a step is part of a transfer, and ends when it reports. *)
LEMMA SenderMoves ==
  ASSUME IInv, Reported, Sender
  PROVE  /\ Reported' /\ ~Over
         /\ result' = result => ~Over'
         /\ result' # result => (Over' <=> result.receiver # "none")
<1>0. {"sender", "receiver"} = DOMAIN result
  BY DEF IInv, TypeOK
<1>1. /\ s \notin {"idle", "ended"} /\ s' # "idle" /\ r' = r
      /\ \/ s' # "ended" /\ result' = result
         \/ \E x \in Outcomes \ {"none"} : EndSender(x)
  BY DEF Sender, StartStream, SendTicket, SkipTicket, SendChunk, FinishStream, SenderEnds,
         SenderLosesPeer, EndSender, Outcomes
<1>2. result.sender = "none" /\ r # "idle" /\ (r = "ended" <=> result.receiver # "none")
  BY <1>1 DEF Reported, Over, IInv, EndsAreTrue
<1>3. CASE s' # "ended" /\ result' = result
  BY <1>1, <1>2, <1>3 DEF Reported, Over
<1>4. CASE \E x \in Outcomes \ {"none"} : EndSender(x)
  <2>1. /\ s' = "ended" /\ result'.sender # "none" /\ result'.receiver = result.receiver
    BY <1>0, <1>4 DEF EndSender
  <2> QED
    BY <1>1, <1>2, <2>1 DEF Reported, Over
<1> QED
  BY <1>1, <1>3, <1>4

LEMMA ReceiverMoves ==
  ASSUME IInv, Reported, Receiver
  PROVE  /\ Reported' /\ ~Over
         /\ result' = result => ~Over'
         /\ result' # result => (Over' <=> result.sender # "none")
<1>0. {"sender", "receiver"} = DOMAIN result
  BY DEF IInv, TypeOK
<1>1. /\ r \notin {"idle", "ended"} /\ r' # "idle" /\ s' = s
      /\ \/ r' # "ended" /\ result' = result
         \/ \E x \in Outcomes \ {"none"} : EndReceiver(x)
  <2>1. CASE Decline \/ LoadStore \/ WriteMeta \/ RespondChunked \/ ReceiveChunk \/ EndOfStream
    BY <2>1 DEF Decline, LoadStore, WriteMeta, RespondChunked, ReceiveChunk, EndOfStream,
                EndReceiver, Outcomes, IInv, TypeOK
  <2>2. CASE Judge
    BY <2>2 DEF Judge, EndReceiver, Outcomes
  <2>3. CASE ClearStore \/ RespondBlob \/ TakeTicket \/ FetchChunk
    BY <2>3 DEF ClearStore, RespondBlob, TakeTicket, FetchChunk, EndReceiver, Outcomes
  <2>4. CASE Fetched
    BY <2>4 DEF Fetched, EndReceiver, Outcomes
  <2>5. CASE CreateOutput \/ FillOutput \/ Report \/ ReceiverLosesPeer
    BY <2>5 DEF CreateOutput, FillOutput, Report, ReceiverLosesPeer, EndReceiver, Outcomes
  <2> QED
    BY <2>1, <2>2, <2>3, <2>4, <2>5 DEF Receiver
<1>2. result.receiver = "none" /\ s # "idle" /\ (s = "ended" <=> result.sender # "none")
  BY <1>1 DEF Reported, Over, IInv, EndsAreTrue
<1>3. CASE r' # "ended" /\ result' = result
  BY <1>1, <1>2, <1>3 DEF Reported, Over
<1>4. CASE \E x \in Outcomes \ {"none"} : EndReceiver(x)
  <2>1. /\ r' = "ended" /\ result'.receiver # "none" /\ result'.sender = result.sender
    BY <1>0, <1>4 DEF EndReceiver
  <2> QED
    BY <1>1, <1>2, <2>1 DEF Reported, Over
<1> QED
  BY <1>1, <1>3, <1>4

LEMMA NextReported == IInv /\ Reported /\ [Next]_vars => Reported'
<1> SUFFICES ASSUME IInv, Reported, [Next]_vars
             PROVE  Reported'
  OBVIOUS
<1>0. {"sender", "receiver"} = DOMAIN result
  BY DEF IInv, TypeOK
<1>1. CASE Environment
  BY <1>0, <1>1 DEF Environment, KillSender, KillReceiver, KillProbe, EditSource, DamageChunk,
         EndSender, EndReceiver, Reported, Over
<1>2. CASE \E p \in Programs, d \in Files, m \in {"accept", "reject", "cancel"} : Start(p, d, m)
  BY <1>2 DEF Start, Reported
<1>3. CASE UNCHANGED vars
  BY <1>3 DEF vars, Reported, Over
<1> QED
  BY <1>1, <1>2, <1>3, SenderMoves, ReceiverMoves DEF Next

LEMMA SenderDelivers == IInv /\ Reported /\ Sender => Delivering
<1> SUFFICES ASSUME IInv, Reported, Sender
             PROVE  Delivering
  OBVIOUS
<1>1. UNCHANGED <<program, offer, chunk, blobs>> /\ s \notin {"idle", "ended"}
  BY DEF Sender, StartStream, SendTicket, SkipTicket, SendChunk, FinishStream, SenderEnds,
         SenderLosesPeer, attempt, disk
<1>2. Kept' = Kept /\ Kept \in BOOLEAN
  BY <1>1, SameKept, KeptType
<1>3. result.sender = "none" /\ "sender" \in DOMAIN result
  BY <1>1 DEF IInv, TypeOK, EndsAreTrue
<1> USE SenderMoves
<1>4. CASE result' = result
  BY <1>2, <1>4 DEF Delivering
<1>5. CASE SenderLosesPeer
  <2>1. result' = [result EXCEPT !.sender = "failed"]
    BY <1>5 DEF SenderLosesPeer, EndSender
  <2>2. result'.sender = "failed" /\ result'.receiver = result.receiver
    BY <1>3, <2>1 DEF IInv, TypeOK
  <2> QED
    BY <1>2, <1>3, <2>2 DEF Delivering, Delivery!Next, Delivery!SenderEnds
<1>6. CASE SkipTicket /\ result' # result
  <2>1. /\ toS # <<>> /\ Head(toS).kind = "accepted" /\ program # "chunked"
        /\ Head(toS).local >= Size[offer]
        /\ result' = [result EXCEPT !.sender = "already"]
    BY <1>6 DEF SkipTicket, TakeFrame, EndSender
  <2>2. Head(toS) \in Range(toS)
    BY <2>1, TailRange DEF IInv, WellFormed
  <2>3. Kept
    BY <1>1, <2>1, <2>2 DEF IInv, FramesAreTrue, Kept
  <2>4. result'.sender = "already" /\ result'.receiver = result.receiver
    BY <1>3, <2>1 DEF IInv, TypeOK
  <2> QED
    BY <1>2, <1>3, <2>3, <2>4 DEF Delivering, Delivery!Next, Delivery!SenderEnds
<1>7. CASE SenderEnds
  <2>1. /\ toS # <<>>
        /\ \/ /\ Head(toS).kind = "completed"
              /\ result' = [result EXCEPT !.sender = "completed"]
           \/ /\ Head(toS).kind = "cancel"
              /\ result' = [result EXCEPT !.sender = "cancelled"]
           \/ /\ Head(toS).kind = "rejected"
              /\ result' = [result EXCEPT !.sender = "rejected"]
    BY <1>7 DEF SenderEnds, TakeFrame, EndSender
  <2>2. Head(toS) \in Range(toS)
    BY <2>1, TailRange DEF IInv, WellFormed
  <2>3. /\ result'.sender = result.receiver /\ result'.receiver = result.receiver
        /\ result.receiver # "none"
    BY <1>1, <2>1, <2>2 DEF IInv, TypeOK, FramesAreTrue
  <2> QED
    BY <1>2, <1>3, <2>3 DEF Delivering, Delivery!Next, Delivery!SenderEnds
<1> QED
  BY <1>4, <1>5, <1>6, <1>7 DEF Sender, StartStream, SendTicket, SendChunk, FinishStream

LEMMA ReceiverDelivers == IInv /\ Reported /\ Receiver => Delivering
<1> SUFFICES ASSUME IInv, Reported, Receiver
             PROVE  Delivering
  OBVIOUS
<1>0. /\ ~Over
      /\ result' = result => ~Over'
      /\ result' # result => (Over' <=> result.sender # "none")
  BY ReceiverMoves
<1>1. CASE \/ Decline \/ LoadStore \/ EndOfStream \/ Judge \/ RespondBlob \/ TakeTicket
           \/ Fetched \/ Report \/ ReceiverLosesPeer
  <2>1. /\ UNCHANGED <<program, offer, payload, disk>> /\ r \notin {"idle", "ended"}
        /\ \/ result' = result
           \/ EndReceiver("failed") \/ EndReceiver("cancelled") \/ EndReceiver("rejected")
           \/ EndReceiver("completed") /\ Delivered
    BY <1>1, ReceiverSteps DEF Proceeds
  <2>2. Kept' = Kept /\ Kept \in BOOLEAN
    BY <2>1, SameKept, KeptType DEF disk
  <2>3. result.receiver = "none" /\ {"sender", "receiver"} = DOMAIN result
    BY <2>1 DEF IInv, TypeOK, EndsAreTrue
  <2>4. \/ result' = result
        \/ /\ result'.sender = result.sender
           /\ \/ result'.receiver \in {"failed", "cancelled", "rejected"}
              \/ result'.receiver = "completed" /\ Kept
    BY <2>1, <2>3 DEF EndReceiver, Delivered
  <2> QED
    BY <1>0, <2>2, <2>3, <2>4 DEF Delivering, Delivery!Next, Delivery!ReceiverEnds
<1>2. CASE WriteMeta \/ ReceiveChunk \/ FetchChunk \/ CreateOutput \/ FillOutput
  <2>1. UNCHANGED <<program, offer, result>> /\ r # "ended"
    BY <1>2 DEF WriteMeta, ReceiveChunk, FetchChunk, CreateOutput, FillOutput, attempt
  <2>2. Kept => Kept'
    <3>1. CASE UNCHANGED <<chunk, blobs>>
      BY <2>1, <3>1, SameKept
    <3>2. CASE ReceiveChunk
      <4>1. program = "chunked" /\ chunk' = [chunk EXCEPT ![offer][Head(stream)] = "good"]
        BY <3>2 DEF ReceiveChunk, IInv, Phases
      <4>2. \A i \in Chunks(offer) : chunk[offer][i] = "good" => chunk'[offer][i] = "good"
        BY <4>1 DEF IInv, TypeOK, WellFormed
      <4> QED
        BY <2>1, <4>1, <4>2 DEF Kept, Good, Chunks
    <3>3. CASE FetchChunk
      <4>1. program # "chunked" /\ blobs \subseteq blobs'
        BY <3>3 DEF FetchChunk, IInv, Phases
      <4> QED
        BY <2>1, <4>1 DEF Kept, CompleteBefore, Held, Store, Chunks
    <3> QED
      BY <1>2, <3>1, <3>2, <3>3 DEF WriteMeta, CreateOutput, FillOutput
  <2>3. result.receiver = "none"
    BY <2>1 DEF IInv, EndsAreTrue
  <2>4. Kept' = TRUE \/ Kept' = Kept
    BY <2>2, KeptType
  <2> QED
    BY <1>0, <2>1, <2>3, <2>4 DEF Delivering, Delivery!Next, Delivery!Keep
<1>3. CASE RespondChunked
  <2>1. /\ UNCHANGED <<program, offer, result, blobs>>
        /\ chunk' = [chunk EXCEPT ![offer] = Swept(offer)]
    BY <1>3 DEF RespondChunked, attempt
  <2>2. chunk'[offer] = Swept(offer)
    BY <2>1 DEF IInv, TypeOK, WellFormed
  <2>3. \A i \in Chunks(offer) : chunk'[offer][i] = "good" <=> chunk[offer][i] = "good"
    BY <2>2 DEF Swept
  <2>4. Kept' <=> Kept
    BY <2>1, <2>3 DEF Kept, CompleteBefore, Held, Store, Good, Chunks
  <2> QED
    BY <1>0, <2>1, <2>4, KeptType DEF Delivering
<1>4. CASE ClearStore
  <2>1. /\ UNCHANGED <<program, offer, blobs>> /\ r = "clearing"
        /\ chunk' = [chunk EXCEPT ![offer] = Nothing(offer)]
        /\ result' = [result EXCEPT !.receiver = "cancelled"]
    BY <1>4 DEF ClearStore, Cleared, EndReceiver, attempt
  <2>2. program = "chunked" /\ ~Kept
    BY <2>1 DEF IInv, Phases
  <2>3. chunk'[offer] = Nothing(offer)
    BY <2>1 DEF IInv, TypeOK, WellFormed
  <2>4. ~Kept'
    BY <2>1, <2>2, <2>3 DEF Kept, Good, Chunks, Nothing
  <2>5. result.receiver = "none" /\ result'.receiver = "cancelled" /\ result'.sender = result.sender
    BY <2>1 DEF IInv, TypeOK, EndsAreTrue
  <2> QED
    BY <1>0, <2>2, <2>4, <2>5, KeptType DEF Delivering, Delivery!Next, Delivery!ReceiverEnds
<1> QED
  BY <1>1, <1>2, <1>3, <1>4 DEF Receiver

LEMMA WorldDelivers == IInv /\ Reported /\ Environment => Delivering
<1> SUFFICES ASSUME IInv, Reported, Environment
             PROVE  Delivering
  OBVIOUS
<1>0. {"sender", "receiver"} = DOMAIN result
  BY DEF IInv, TypeOK
<1>1. CASE KillSender
  <2>1. /\ UNCHANGED <<program, offer, chunk, blobs>> /\ s # "ended"
        /\ result' = [result EXCEPT !.sender = "failed"]
    BY <1>1 DEF KillSender, EndSender, attempt, disk
  <2>2. result.sender = "none" /\ result'.sender = "failed" /\ result'.receiver = result.receiver
    BY <1>0, <2>1 DEF IInv, EndsAreTrue
  <2>3. ~Over /\ (Over' <=> result.receiver # "none")
    BY <1>1 DEF KillSender, EndSender, Over, Reported, IInv, EndsAreTrue
  <2> QED
    BY <2>1, <2>2, <2>3, SameKept, KeptType DEF Delivering, Delivery!Next, Delivery!SenderEnds
<1>2. CASE KillReceiver
  <2>1. /\ UNCHANGED <<program, offer, chunk, blobs>> /\ r # "ended"
        /\ result' = [result EXCEPT !.receiver = "failed"]
    BY <1>2 DEF KillReceiver, EndReceiver, attempt, disk
  <2>2. result.receiver = "none" /\ result'.receiver = "failed" /\ result'.sender = result.sender
    BY <1>0, <2>1 DEF IInv, EndsAreTrue
  <2>3. ~Over /\ (Over' <=> result.sender # "none")
    BY <1>2 DEF KillReceiver, EndReceiver, Over, Reported, IInv, EndsAreTrue
  <2> QED
    BY <2>1, <2>2, <2>3, SameKept, KeptType DEF Delivering, Delivery!Next, Delivery!ReceiverEnds
<1>3. CASE KillProbe
  <2>1. /\ UNCHANGED <<program, offer, blobs>>
        /\ result' = [sender |-> "failed", receiver |-> "failed"]
    BY <1>3 DEF KillProbe, attempt
  <2>2. Kept' <=> Kept
    <3>1. CASE r = "clearing"
      <4>1. PICK left \in SUBSET Chunks(offer) :
              chunk' = [chunk EXCEPT ![offer] = [i \in Chunks(offer) |->
                                       IF i \in left THEN chunk[offer][i] ELSE "absent"]]
        BY <1>3, <3>1 DEF KillProbe, HalfCleared
      <4>2. program = "chunked" /\ ~Kept
        BY <3>1 DEF IInv, Phases
      <4>3. \A i \in Chunks(offer) : chunk'[offer][i] = "good" => chunk[offer][i] = "good"
        BY <4>1 DEF IInv, TypeOK, WellFormed
      <4>4. Kept' => Kept
        BY <2>1, <4>2, <4>3 DEF Kept, Good, Chunks
      <4> QED
        BY <4>2, <4>4
    <3>2. CASE r # "clearing"
      BY <1>3, <2>1, <3>2, SameKept DEF KillProbe, Torn
    <3> QED
      BY <3>1, <3>2
  <2>3. Kept' = Kept
    BY <2>2, KeptType
  <2>4. result'.sender = "failed" /\ result'.receiver = "failed" /\ ~Over /\ Over'
    BY <1>3, <2>1 DEF KillProbe, Over
  <2> QED
    BY <2>3, <2>4 DEF Delivering, Delivery!Next, Delivery!Abort
<1>4. CASE \E d \in Files : \E i \in Chunks(d) : DamageChunk(d, i)
  <2>1. result'.sender = "none" /\ result'.receiver = "none" /\ Over /\ Over'
    BY <1>4 DEF DamageChunk, Over
  <2> QED
    BY <2>1, KeptType DEF Delivering, Delivery!Next, Delivery!Damage
<1>5. CASE \E d \in Files : EditSource(d)
  <2>1. UNCHANGED <<program, offer, chunk, blobs, result, s, r>>
    BY <1>5 DEF EditSource, attempt, disk
  <2> QED
    BY <2>1, SameKept DEF Delivering, Over
<1> QED
  BY <1>1, <1>2, <1>3, <1>4, <1>5 DEF Environment

LEMMA NextDelivers == IInv /\ Reported /\ [Next]_vars => Delivering
<1> SUFFICES ASSUME IInv, Reported, [Next]_vars
             PROVE  Delivering
  OBVIOUS
<1>1. ASSUME NEW p \in Programs, NEW d \in Files, NEW m \in {"accept", "reject", "cancel"},
             Start(p, d, m)
      PROVE  Delivering
  <2>1. result'.sender = "none" /\ result'.receiver = "none" /\ Over /\ ~Over'
    BY <1>1 DEF Start, Over
  <2> QED
    BY <2>1, KeptType DEF Delivering, Delivery!Next, Delivery!Begin
<1>2. CASE UNCHANGED vars
  <2>1. UNCHANGED <<program, offer, chunk, blobs, result, s, r>>
    BY <1>2 DEF vars, attempt, disk
  <2> QED
    BY <2>1, SameKept DEF Delivering, Over
<1> QED
  BY <1>1, <1>2, SenderDelivers, ReceiverDelivers, WorldDelivers DEF Next

(* Each end says of a transfer only what FileDelivery allows, for any       *)
(* files, programs and number of attempts, kills and edits.                 *)
THEOREM DeliversHolds == Spec => Delivers
<1>1. Init => Delivery!Init
  <2>1. Kept \in BOOLEAN
    BY KeptType
  <2> QED
    BY <2>1 DEF Init, Delivery!Init, Over
<1>2. IInv /\ Reported /\ [Next]_vars => [Delivery!Next]_(Delivery!delivery)
  BY NextDelivers DEF Delivering, Delivery!delivery
<1> QED
  BY <1>1, <1>2, InductiveInvariant, InitReported, NextReported, PTL DEF Spec, Delivers, Delivery!Spec

-----------------------------------------------------------------------------
(* What crosses the wire, and how an attempt ends.                           *)

Opening == r \in {"waiting", "meta", "responding"}

\* The chunks that are asked for, waiting to be sent or under way are chunks the
\* receiver does not hold, each of them once.
NothingTwice ==
  /\ \A k \in DOMAIN stream :
       /\ stream[k] \notin missing /\ chunk[offer][stream[k]] # "good"
       /\ \A l \in DOMAIN stream : stream[l] = stream[k] => l = k
  /\ \A i \in missing : chunk[offer][i] # "good"
  /\ s \in {"idle", "offered"} => stream = <<>> /\ missing = {}
  /\ Opening => s \in {"offered", "ended"} /\ stream = <<>> /\ missing = {} /\ toS = <<>>
  /\ s = "offered" =>
       \A m \in Range(toS) : m.kind = "accepted" => \A i \in m.missing : chunk[offer][i] # "good"

\* While chunks come in, each is on disk or still to come, unless the sender stopped short.
Accounted ==
  /\ s \in {"offered", "streaming"} => ~short /\ ~finished
  /\ r = "receiving" /\ s = "offered" =>
       \A m \in Range(toS) : m.kind = "accepted" => Chunks(offer) \subseteq Present(offer) \cup m.missing
  /\ r = "receiving" /\ s = "streaming" =>
       Chunks(offer) \subseteq Present(offer) \cup Range(stream) \cup missing
  /\ r = "receiving" /\ s = "terminal" /\ ~short =>
       Chunks(offer) \subseteq Present(offer) \cup Range(stream)
  /\ r = "checking" /\ ~short => Present(offer) = Chunks(offer)
  /\ program # "cli" /\ s = "ended" => r = "ended"
  /\ s = "idle" => r = "idle"

\* How an accepted attempt at an honest file may have ended for the receiver.
Settled ==
  \/ result.receiver = "completed" \/ result.sender = "already"
  \/ program = "chunked" /\ meta[offer] = "torn"
  \/ program = "chunked" /\ meta[offer] = "none" /\ chunk[offer] = Nothing(offer)

\* Where nothing struck, an end that is alone knows why, and an end that is told nothing
\* has lost a receiver that failed.
Concluding ==
  ~struck =>
    /\ source = offer /\ ticket = offer
    /\ s = "ended" /\ r # "ended" => result.sender = "already"
    /\ s \notin {"idle", "ended"} /\ r = "ended" =>
         \/ result.receiver = "failed"
         \/ \E m \in Range(toS) : m.kind \in {"completed", "cancel", "rejected"}
    /\ s = "ended" /\ r = "ended" => result.sender = result.receiver \/ result.sender = "already"
    /\ r = "ended" /\ mode = "accept" /\ Honest(offer) /\ ~short => Settled

Course == NothingTwice /\ Accounted /\ Concluding

(* Reading a frame leaves the others as they are.                            *)
LEMMA TailIndices ==
  ASSUME NEW S, NEW q \in Seq(S), q # <<>>
  PROVE  /\ 1 \in DOMAIN q /\ Head(q) = q[1] /\ Tail(q) \in Seq(S)
         /\ \A k \in DOMAIN Tail(q) :
              k + 1 \in DOMAIN q /\ k + 1 # 1 /\ Tail(q)[k] = q[k + 1] /\ k \in Nat
         /\ Range(q) = {Head(q)} \cup Range(Tail(q))
<1>1. Len(q) \in Nat /\ Len(q) > 0 /\ DOMAIN q = 1..Len(q)
  OBVIOUS
<1>2. 1 \in DOMAIN q /\ Head(q) = q[1] /\ Tail(q) \in Seq(S) /\ DOMAIN Tail(q) = 1..(Len(q) - 1)
  BY <1>1
<1>3. \A k \in DOMAIN Tail(q) :
        k + 1 \in DOMAIN q /\ k + 1 # 1 /\ Tail(q)[k] = q[k + 1] /\ k \in Nat
  BY <1>1, <1>2
<1>4. \A k \in DOMAIN q : k = 1 \/ (k - 1 \in DOMAIN Tail(q) /\ Tail(q)[k - 1] = q[k])
  BY <1>1, <1>2
<1>5. Range(Tail(q)) \subseteq Range(q) /\ Head(q) \in Range(q)
  BY <1>2, <1>3 DEF Range
<1>6. Range(q) \subseteq {Head(q)} \cup Range(Tail(q))
  <2> SUFFICES ASSUME NEW k \in DOMAIN q PROVE q[k] \in {Head(q)} \cup Range(Tail(q))
    BY DEF Range
  <2>1. CASE k = 1
    BY <1>2, <2>1
  <2>2. CASE k - 1 \in DOMAIN Tail(q) /\ Tail(q)[k - 1] = q[k]
    BY <2>2 DEF Range
  <2> QED
    BY <1>4, <2>1, <2>2
<1> QED
  BY <1>2, <1>3, <1>5, <1>6

LEMMA Answering ==
  ASSUME IInv
  PROVE  \A m \in Frame : Append(toS, m) \in Seq(Frame) /\ Range(Append(toS, m)) = Range(toS) \cup {m}
<1>1. toS \in Seq(Frame)
  BY DEF IInv, WellFormed
<1> QED
  BY <1>1, AppendRange

LEMMA InitCourse == Init => Course
<1> SUFFICES ASSUME Init PROVE Course
  OBVIOUS
<1>1. Range(toS) = {}
  BY DEF Init, Range
<1> QED
  BY <1>1 DEF Init, Course, NothingTwice, Accounted, Concluding, Opening

LEMMA StartCourse ==
  ASSUME IInv, Course, NEW p \in Programs, NEW d \in Files, NEW m \in {"accept", "reject", "cancel"},
         Start(p, d, m)
  PROVE  Course'
<1>1. Range(toS)' = {}
  BY DEF Start, Range
<1> QED
  BY <1>1 DEF Start, Course, NothingTwice, Accounted, Concluding, Opening

(* A new descriptor is asked for once.                                      *)
LEMMA StartStreamCourse ==
  ASSUME IInv, Course, StartStream
  PROVE  Course'
<1> DEFINE head == Head(toS)
<1> USE DEF Course
<1>1. /\ toS # <<>> /\ head.kind = "accepted" /\ toS' = Tail(toS) /\ s = "offered"
      /\ missing' = head.missing /\ s' = IF missing' = {} THEN "terminal" ELSE "streaming"
      /\ UNCHANGED <<program, offer, mode, source, ticket, struck, r, result, stream, short,
                     finished, meta, chunk>>
  BY DEF StartStream, TakeFrame, attempt, world, disk
<1>2. head \in Range(toS) /\ Range(toS) = {head} \cup Range(toS')
  BY <1>1, TailIndices DEF IInv, WellFormed
<1>3. stream = <<>> /\ Range(stream) = {} /\ ~Opening
  BY <1>1 DEF NothingTwice, Range
<1>4. Present(offer)' = Present(offer) /\ Chunks(offer)' = Chunks(offer)
  BY <1>1 DEF Present, Chunks
<1> HIDE DEF head
<1>5. NothingTwice'
  BY <1>1, <1>2, <1>3 DEF NothingTwice, Opening
<1>6. Accounted'
  BY <1>1, <1>2, <1>3, <1>4 DEF Accounted
<1>7. Concluding'
  BY <1>1, <1>2 DEF Concluding, Settled, Nothing, Chunks, Honest
<1> QED
  BY <1>5, <1>6, <1>7

LEMMA TicketCourse ==
  ASSUME IInv, Course, SendTicket \/ SkipTicket
  PROVE  Course'
<1> DEFINE head == Head(toS)
<1> USE DEF Course
<1>1. /\ toS # <<>> /\ head.kind = "accepted" /\ toS' = Tail(toS) /\ s = "offered"
      /\ program # "chunked"
      /\ ticket' = ticket \/ ticket' = source
      /\ \/ s' = "terminal" /\ result' = result
         \/ program = "cli" /\ s' = "ended" /\ result' = [result EXCEPT !.sender = "already"]
      /\ UNCHANGED <<program, offer, mode, source, struck, r, stream, missing, short,
                     finished, meta, chunk>>
  BY DEF SendTicket, SkipTicket, EndSender, TakeFrame, attempt, world, disk, payload
<1>2. head \in Range(toS) /\ Range(toS) = {head} \cup Range(toS')
  BY <1>1, TailIndices DEF IInv, WellFormed
<1>3. stream = <<>> /\ ~Opening /\ r \notin {"receiving", "checking"}
  BY <1>1 DEF NothingTwice, IInv, Phases
<1>4. \/ s' = "terminal" /\ result' = result
      \/ s' = "ended" /\ result'.sender = "already" /\ result'.receiver = result.receiver
  BY <1>1 DEF IInv, TypeOK
<1> HIDE DEF head
<1>5. NothingTwice'
  BY <1>1, <1>2, <1>3 DEF NothingTwice, Opening
<1>6. Accounted'
  BY <1>1, <1>2, <1>3 DEF Accounted
<1>7. r = "ended" /\ mode = "accept" /\ Honest(offer) /\ ~short /\ Settled => Settled'
  BY <1>1, <1>4 DEF Settled, Nothing, Chunks
<1>8. Concluding'
  BY <1>1, <1>2, <1>4, <1>7 DEF Concluding, Honest
<1> QED
  BY <1>5, <1>6, <1>8

(* A chunk on the wire is one chunk less to send.                           *)
LEMMA SendChunkCourse ==
  ASSUME IInv, Course, SendChunk
  PROVE  Course'
<1> USE DEF Course
<1>1. PICK i \in missing : stream' = Append(stream, i) /\ missing' = missing \ {i}
  BY DEF SendChunk
<1>2. /\ s = "streaming"
      /\ UNCHANGED <<program, offer, mode, source, ticket, struck, s, r, result, toS, short,
                     finished, meta, chunk>>
  BY DEF SendChunk, attempt, world, disk, frames
<1>3. stream \in Seq(Nat) /\ i \in Nat
  BY FilesAssumption DEF IInv, WellFormed, TypeOK, Chunks
<1>4. Range(stream') = Range(stream) \cup {i}
  BY <1>1, <1>3, AppendRange
<1>5. /\ Len(stream) \in Nat /\ DOMAIN stream = 1..Len(stream)
      /\ DOMAIN stream' = 1..(Len(stream) + 1)
      /\ stream'[Len(stream) + 1] = i /\ \A k \in DOMAIN stream : stream'[k] = stream[k]
  BY <1>1, <1>3
<1>6. \A k \in DOMAIN stream' : k = Len(stream) + 1 \/ k \in DOMAIN stream
  BY <1>5
<1>7. ~Opening
  BY <1>2 DEF NothingTwice
<1>8. NothingTwice'
  <2>1. ASSUME NEW k \in DOMAIN stream'
        PROVE  /\ stream'[k] \notin missing' /\ chunk[offer][stream'[k]] # "good"
               /\ \A l \in DOMAIN stream' : stream'[l] = stream'[k] => l = k
    <3>1. CASE k = Len(stream) + 1
      BY <1>1, <1>5, <1>6, <3>1 DEF NothingTwice
    <3>2. CASE k \in DOMAIN stream
      BY <1>1, <1>5, <1>6, <3>2 DEF NothingTwice
    <3> QED
      BY <1>6, <3>1, <3>2
  <2> QED
    BY <1>1, <1>2, <1>7, <2>1 DEF NothingTwice, Opening
<1>9. Accounted'
  BY <1>1, <1>2, <1>4 DEF Accounted, Present, Chunks
<1>10. Concluding'
  BY <1>2 DEF Concluding, Settled, Nothing, Chunks, Honest
<1> QED
  BY <1>8, <1>9, <1>10

LEMMA FinishStreamCourse ==
  ASSUME IInv, Course, FinishStream
  PROVE  Course'
<1> USE DEF Course
<1>1. /\ s = "streaming" /\ s' = "terminal" /\ short' = (missing # {}) /\ missing' = {}
      /\ UNCHANGED <<program, offer, mode, source, ticket, struck, r, result, toS, stream, meta, chunk>>
  BY DEF FinishStream, attempt, world, disk, frames
<1>2. NothingTwice'
  BY <1>1 DEF NothingTwice, Opening
<1>3. ~short
  BY <1>1 DEF Accounted
<1>4. Accounted'
  BY <1>1, <1>3 DEF Accounted, Present, Chunks
<1>5. Concluding'
  BY <1>1, <1>3 DEF Concluding, Settled, Nothing, Chunks, Honest
<1> QED
  BY <1>2, <1>4, <1>5

(* The sender is told how the receiver ended, or finds that it failed.      *)
LEMMA SenderEndsCourse ==
  ASSUME IInv, Course, SenderEnds \/ SenderLosesPeer
  PROVE  Course'
<1> USE DEF Course
<1>1. /\ s \notin {"idle", "ended"} /\ s' = "ended"
      /\ UNCHANGED <<program, offer, mode, source, ticket, struck, r, stream, missing, short,
                     finished, meta, chunk>>
  BY DEF SenderEnds, SenderLosesPeer, EndSender, attempt, world, disk, payload
<1>2. /\ r = "ended" /\ result'.receiver = result.receiver /\ result.sender = "none"
      /\ ~struck => result'.sender = result.receiver
  <2>1. CASE SenderEnds
    <3>1. /\ toS # <<>>
          /\ \/ Head(toS).kind = "completed" /\ result' = [result EXCEPT !.sender = "completed"]
             \/ Head(toS).kind = "cancel" /\ result' = [result EXCEPT !.sender = "cancelled"]
             \/ Head(toS).kind = "rejected" /\ result' = [result EXCEPT !.sender = "rejected"]
      BY <2>1 DEF SenderEnds, TakeFrame, EndSender
    <3>2. Head(toS) \in Range(toS)
      BY <3>1, TailRange DEF IInv, WellFormed
    <3> QED
      BY <1>1, <3>1, <3>2 DEF IInv, TypeOK, FramesAreTrue, EndsAreTrue
  <2>2. CASE SenderLosesPeer
    <3>1. r = "ended" /\ toS = <<>> /\ result' = [result EXCEPT !.sender = "failed"]
      BY <2>2 DEF SenderLosesPeer, EndSender
    <3>2. Range(toS) = {}
      BY <3>1 DEF Range
    <3>3. ~struck => result.receiver = "failed"
      BY <1>1, <3>1, <3>2 DEF Concluding
    <3> QED
      BY <1>1, <3>1, <3>3 DEF IInv, TypeOK, EndsAreTrue
  <2> QED
    BY <2>1, <2>2
<1>3. NothingTwice'
  BY <1>1, <1>2 DEF NothingTwice, Opening
<1>4. Accounted'
  BY <1>1, <1>2 DEF Accounted
<1>5. Concluding'
  BY <1>1, <1>2 DEF Concluding, Settled, Nothing, Chunks, Honest
<1> QED
  BY <1>3, <1>4, <1>5
(* The receiver declines, or opens its store.                               *)
LEMMA OpeningCourse ==
  ASSUME IInv, Course, Decline \/ LoadStore \/ WriteMeta
  PROVE  Course'
<1> USE DEF Course
<1>1. /\ UNCHANGED <<program, offer, mode, source, ticket, struck, s, stream, missing, short,
                     finished, chunk>>
      /\ Opening
  BY DEF Decline, LoadStore, WriteMeta, Opening, attempt, world, disk, payload
<1>2. toS = <<>> /\ stream = <<>> /\ missing = {} /\ s \in {"offered", "ended"}
      /\ Range(toS) = {} /\ toS \in Seq(Frame)
  BY <1>1 DEF NothingTwice, Range, IInv, WellFormed
<1>3. CASE Decline
  <2>1. PICK m : /\ toS' = Append(toS, m) /\ m \in Frame /\ m.kind \in {"cancel", "rejected"}
                 /\ r' = "ended" /\ mode # "accept"
                 /\ result'.sender = result.sender
    <3>1. Message("rejected") \in Frame /\ Message("cancel") \in Frame
          /\ Message("rejected").kind = "rejected" /\ Message("cancel").kind = "cancel"
      BY DEF Message, Frame
    <3> QED
      BY <1>3, <3>1 DEF Decline, Sends, EndReceiver, IInv, TypeOK
  <2>2. Range(toS') = {m}
    <3>1. Range(Append(toS, m)) = Range(toS) \cup {m}
      BY <2>1, Answering
    <3> QED
      BY <1>2, <2>1, <3>1
  <2>3. NothingTwice'
    BY <1>1, <1>2, <2>1, <2>2 DEF NothingTwice, Opening
  <2>4. Accounted'
    BY <1>1, <1>2, <2>1 DEF Accounted
  <2>5. Concluding'
    BY <1>1, <1>2, <2>1, <2>2 DEF Concluding, Opening
  <2> QED
    BY <2>3, <2>4, <2>5
<1>4. CASE LoadStore /\ r' = "ended"
  <2>1. /\ toS' = toS /\ program = "chunked" /\ meta' = meta /\ meta[offer] = "torn"
        /\ result' = [result EXCEPT !.receiver = "failed"]
    BY <1>4 DEF LoadStore, EndReceiver, disk, IInv, TypeOK
  <2>2. NothingTwice'
    BY <1>1, <1>2, <1>4, <2>1 DEF NothingTwice, Opening
  <2>3. Accounted'
    BY <1>1, <1>2, <1>4 DEF Accounted
  <2>4. Concluding'
    BY <1>1, <1>2, <1>4, <2>1 DEF Concluding, Settled, Opening, IInv, TypeOK
  <2> QED
    BY <2>2, <2>3, <2>4
<1>5. CASE (LoadStore /\ r' # "ended") \/ WriteMeta
  <2>1. toS' = toS /\ result' = result /\ r' \in {"meta", "responding"}
    BY <1>5 DEF LoadStore, WriteMeta, EndReceiver, frames, IInv, TypeOK
  <2>2. NothingTwice'
    BY <1>1, <1>2, <2>1 DEF NothingTwice, Opening
  <2>3. Accounted'
    BY <1>1, <2>1 DEF Accounted, Opening
  <2>4. Concluding'
    BY <1>1, <1>2, <2>1 DEF Concluding, Opening
  <2> QED
    BY <2>2, <2>3, <2>4
<1> QED
  BY <1>3, <1>4, <1>5

(* What is asked for is what is not there.                                  *)
LEMMA RespondCourse ==
  ASSUME IInv, Course, RespondChunked
  PROVE  Course'
<1> USE DEF Course
<1> DEFINE new == [Message("accepted") EXCEPT !.missing = MissingRanges(offer)]
<1>1. /\ UNCHANGED <<program, offer, mode, source, ticket, struck, s, result, stream, missing, short,
                     finished, meta>>
      /\ r = "responding" /\ chunk' = [chunk EXCEPT ![offer] = Swept(offer)]
      /\ r' = IF MissingRanges(offer) = {} THEN "checking" ELSE "receiving"
      /\ toS' = Append(toS, new)
  BY DEF RespondChunked, Sends, attempt, world, payload
<1>2. toS = <<>> /\ stream = <<>> /\ missing = {} /\ s \in {"offered", "ended"}
      /\ Range(toS) = {} /\ toS \in Seq(Frame)
  BY <1>1 DEF NothingTwice, Opening, Range, IInv, WellFormed
<1>3. program = "chunked" /\ s = "offered" /\ offer \in Files
  BY <1>1, <1>2 DEF Accounted, IInv, Phases, TypeOK
<1>4. MissingRanges(offer) \subseteq Nat
  BY <1>3, FilesAssumption DEF MissingRanges, Chunks
<1>5. new \in Frame /\ new.missing = MissingRanges(offer)
  BY <1>4 DEF Message, Frame
<1> HIDE DEF new
<1>6. Range(toS') = {new}
  <2>1. Range(Append(toS, new)) = Range(toS) \cup {new}
    BY <1>5, Answering
  <2> QED
    BY <1>1, <1>2, <2>1
<1>7. chunk'[offer] = Swept(offer)
  BY <1>1, <1>3 DEF IInv, WellFormed
<1>8. Present(offer)' = Present(offer) /\ Chunks(offer)' = Chunks(offer)
  BY <1>1, <1>7 DEF Present, Swept, Chunks
<1>9. \A i \in MissingRanges(offer) : chunk'[offer][i] # "good"
  BY <1>7 DEF MissingRanges, Present, Swept
<1>10. NothingTwice'
  BY <1>1, <1>2, <1>3, <1>5, <1>6, <1>9 DEF NothingTwice, Opening
<1>11. Accounted'
  BY <1>1, <1>3, <1>5, <1>6, <1>8 DEF Accounted, MissingRanges, Present
<1>12. Concluding'
  BY <1>1, <1>3 DEF Concluding
<1> QED
  BY <1>10, <1>11, <1>12

(* A chunk that comes in is on disk, and was under way once.                *)
LEMMA ReceiveChunkCourse ==
  ASSUME IInv, Course, ReceiveChunk
  PROVE  Course'
<1> USE DEF Course
<1> DEFINE h == Head(stream)
<1>1. /\ UNCHANGED <<program, offer, mode, source, ticket, struck, s, r, result, toS, missing, short,
                     finished, meta>>
      /\ r = "receiving" /\ stream # <<>> /\ stream' = Tail(stream)
      /\ chunk' = [chunk EXCEPT ![offer] = [chunk[offer] EXCEPT ![h] = "good"]]
  BY DEF ReceiveChunk, attempt, world, frames
<1>2. /\ 1 \in DOMAIN stream /\ h = stream[1]
      /\ \A k \in DOMAIN stream' :
           k + 1 \in DOMAIN stream /\ k + 1 # 1 /\ stream'[k] = stream[k + 1] /\ k \in Nat
      /\ Range(stream) = {h} \cup Range(stream')
  BY <1>1, TailIndices DEF IInv, WellFormed
<1>3. h \in Chunks(offer) /\ offer \in Files
  BY <1>2 DEF IInv, WellFormed, TypeOK
<1>4. s \notin {"idle", "offered"} /\ h \notin missing
  BY <1>1, <1>2 DEF NothingTwice
<1> HIDE DEF h
<1>5. \A i \in Chunks(offer) : chunk'[offer][i] = IF i = h THEN "good" ELSE chunk[offer][i]
  BY <1>1, <1>3 DEF IInv, TypeOK, WellFormed
<1>6. Present(offer)' = Present(offer) \cup {h} /\ Chunks(offer)' = Chunks(offer)
  BY <1>1, <1>3, <1>5 DEF Present, Chunks
<1>7. NothingTwice'
  <2>1. ASSUME NEW k \in DOMAIN stream'
        PROVE  /\ stream'[k] \notin missing' /\ chunk'[offer][stream'[k]] # "good"
               /\ \A l \in DOMAIN stream' : stream'[l] = stream'[k] => l = k
    <3>1. k + 1 \in DOMAIN stream /\ k + 1 # 1 /\ stream'[k] = stream[k + 1] /\ k \in Nat
      BY <1>2
    <3>2. stream[k + 1] \notin missing /\ chunk[offer][stream[k + 1]] # "good" /\ stream[k + 1] # h
      BY <1>2, <3>1 DEF NothingTwice
    <3>3. stream[k + 1] \in Chunks(offer)
      BY <3>1 DEF IInv, WellFormed, Range
    <3>4. \A l \in DOMAIN stream' : stream'[l] = stream'[k] => l = k
      <4>1. ASSUME NEW l \in DOMAIN stream', stream'[l] = stream'[k]
            PROVE  l = k
        <5>1. l + 1 \in DOMAIN stream /\ stream[l + 1] = stream[k + 1] /\ l \in Nat
          BY <1>2, <3>1, <4>1
        <5>2. l + 1 = k + 1
          BY <3>1, <5>1 DEF NothingTwice
        <5> QED
          BY <3>1, <5>1, <5>2
      <4> QED
        BY <4>1
    <3> QED
      BY <1>1, <1>5, <3>1, <3>2, <3>3, <3>4
  <2>2. \A i \in missing : chunk'[offer][i] # "good"
    BY <1>4, <1>5 DEF NothingTwice, IInv, TypeOK
  <2> QED
    BY <1>1, <1>4, <2>1, <2>2 DEF NothingTwice, Opening
<1>8. Accounted'
  BY <1>1, <1>2, <1>4, <1>6 DEF Accounted
<1>9. Concluding'
  BY <1>1 DEF Concluding
<1> QED
  BY <1>7, <1>8, <1>9

(* A stream that was not cut short brought everything.                      *)
LEMMA EndOfStreamCourse ==
  ASSUME IInv, Course, EndOfStream
  PROVE  Course'
<1> USE DEF Course
<1>1. /\ UNCHANGED <<program, offer, mode, source, ticket, struck, s, result, toS, stream, missing,
                     short, finished, meta, chunk>>
      /\ r = "receiving" /\ stream = <<>> /\ finished /\ r' = "checking"
  BY DEF EndOfStream, attempt, world, frames, payload, disk
<1>2. program = "chunked" /\ s = "terminal" /\ Range(stream) = {}
  BY <1>1 DEF IInv, Phases, TypeOK, Accounted, Range
<1>3. Chunks(offer)' = Chunks(offer) /\ Present(offer)' = Present(offer)
      /\ Present(offer) \subseteq Chunks(offer)
  BY <1>1 DEF Chunks, Present
<1>4. NothingTwice'
  BY <1>1 DEF NothingTwice, Opening
<1>5. Accounted'
  BY <1>1, <1>2, <1>3 DEF Accounted
<1>6. Concluding'
  BY <1>1, <1>2 DEF Concluding
<1> QED
  BY <1>4, <1>5, <1>6

(* Steps of the receiver that leave it at work, after it has answered.      *)
LEMMA AtWorkCourse ==
  ASSUME IInv, Course,
         UNCHANGED <<program, offer, mode, source, ticket, struck, s, result, toS, stream, missing,
                     short, finished, meta, chunk>>,
         r \notin {"idle", "ended"} \cup {"waiting", "meta", "responding"},
         r' \notin {"idle", "ended"} \cup {"waiting", "meta", "responding", "receiving", "checking"}
  PROVE  Course'
<1> USE DEF Course
<1>1. NothingTwice'
  BY DEF NothingTwice, Opening
<1>2. Accounted'
  BY DEF Accounted
<1>3. Concluding'
  BY DEF Concluding
<1> QED
  BY <1>1, <1>2, <1>3

(* The receiver ends and says so, or finds that the sender has ended.       *)
LEMMA ReceiverEndsCourse ==
  ASSUME IInv, Course,
         UNCHANGED <<program, offer, mode, source, ticket, struck, s, stream, missing, short, finished>>,
         r \notin {"idle", "ended"} \cup {"waiting", "meta", "responding"}, r' = "ended",
         result'.sender = result.sender,
         \/ toS' = toS /\ result'.receiver = "failed"
         \/ \E m \in Frame : toS' = Append(toS, m) /\ m.kind \in {"completed", "cancel"},
         \A i \in Chunks(offer) : chunk'[offer][i] = "good" => chunk[offer][i] = "good",
         ~struck /\ mode = "accept" /\ Honest(offer) /\ ~short => Settled'
  PROVE  Course'
<1> USE DEF Course
<1>1. /\ \A k \in DOMAIN stream : stream[k] \in Chunks(offer)
      /\ \A i \in missing : i \in Chunks(offer)
      /\ \A m \in Range(toS) : \A i \in m.missing : i \in Chunks(offer)
      /\ toS \in Seq(Frame)
  BY DEF IInv, WellFormed, TypeOK, Range
<1>2. \/ toS' = toS /\ result'.receiver = "failed"
      \/ \E m \in Frame : m.kind \in {"completed", "cancel"} /\ Range(toS') = Range(toS) \cup {m}
  BY Answering
<1>3. NothingTwice'
  BY <1>1, <1>2 DEF NothingTwice, Opening
<1>4. Accounted'
  BY DEF Accounted
<1>5. Concluding'
  BY <1>2 DEF Concluding, Honest
<1> QED
  BY <1>3, <1>4, <1>5
(* The answer of a program that fetches blobs asks for no chunks.           *)
LEMMA RespondBlobCourse ==
  ASSUME IInv, Course, RespondBlob
  PROVE  Course'
<1> USE DEF Course
<1> DEFINE new == [Message("accepted") EXCEPT !.local = LocalBytes]
<1>1. /\ UNCHANGED <<program, offer, mode, source, ticket, struck, s, result, stream, missing, short,
                     finished, meta, chunk>>
      /\ Opening /\ r' \in {"ticket", "writing", "reporting"} /\ toS' = Append(toS, new)
  BY DEF RespondBlob, Sends, Opening, attempt, world, payload, disk
<1>2. new \in Frame /\ new.missing = {}
  BY EnoughIsAll DEF Message, Frame, IInv
<1> HIDE DEF new
<1>3. Range(toS') = Range(toS) \cup {new}
  BY <1>1, <1>2, Answering
<1>4. s \in {"offered", "ended"} /\ stream = <<>> /\ missing = {}
  BY <1>1 DEF NothingTwice
<1>5. NothingTwice'
  BY <1>1, <1>2, <1>3, <1>4 DEF NothingTwice, Opening
<1>6. Accounted'
  <2>1. program # "chunked"
    BY DEF RespondBlob
  <2>2. r # "ended"
    BY <1>1 DEF Opening
  <2> QED
    BY <1>1, <1>4, <2>1, <2>2 DEF Accounted
<1>7. Concluding'
  BY <1>1, <1>4 DEF Concluding, Opening
<1> QED
  BY <1>5, <1>6, <1>7

LEMMA JudgeCourse ==
  ASSUME IInv, Course, Judge
  PROVE  Course'
<1>1. /\ UNCHANGED <<program, offer, mode, source, ticket, struck, s, stream, missing, short,
                     finished, meta, chunk>>
      /\ r = "checking"
  BY DEF Judge, attempt, world, payload, disk
<1>2. Message("cancel") \in Frame /\ Message("completed") \in Frame
      /\ Message("cancel").kind = "cancel" /\ Message("completed").kind = "completed"
  BY DEF Message, Frame
<1>3. CASE Present(offer) # Chunks(offer)
  <2>1. toS' = Append(toS, Message("cancel")) /\ r' = "ended" /\ result'.sender = result.sender
    BY <1>3 DEF Judge, Sends, EndReceiver, IInv, TypeOK
  <2>2. short
    BY <1>1, <1>3 DEF Course, Accounted
  <2> QED
    BY <1>1, <1>2, <2>1, <2>2, ReceiverEndsCourse
<1>4. CASE Present(offer) = Chunks(offer) /\ Whole(offer)
  <2>1. /\ toS' = Append(toS, Message("completed")) /\ r' = "ended" /\ result'.sender = result.sender
        /\ result'.receiver = "completed"
    BY <1>4 DEF Judge, Sends, EndReceiver, IInv, TypeOK
  <2>2. Settled'
    BY <2>1 DEF Settled
  <2> QED
    BY <1>1, <1>2, <2>1, <2>2, ReceiverEndsCourse
<1>5. CASE Present(offer) = Chunks(offer) /\ ~Whole(offer)
  <2>1. r' = "clearing" /\ toS' = toS /\ result' = result
    BY <1>5 DEF Judge
  <2> QED
    BY <1>1, <2>1, AtWorkCourse
<1> QED
  BY <1>3, <1>4, <1>5

LEMMA ClearStoreCourse ==
  ASSUME IInv, Course, ClearStore
  PROVE  Course'
<1>1. /\ UNCHANGED <<program, offer, mode, source, ticket, struck, s, stream, missing, short, finished>>
      /\ r = "clearing" /\ r' = "ended" /\ result'.sender = result.sender
      /\ toS' = Append(toS, Message("cancel"))
  BY DEF ClearStore, attempt, world, payload, Sends, EndReceiver, IInv, TypeOK
<1>2. Message("cancel") \in Frame /\ Message("cancel").kind = "cancel"
  BY DEF Message, Frame
<1>3. program = "chunked" /\ meta'[offer] = "none" /\ chunk'[offer] = Nothing(offer)
  BY <1>1 DEF ClearStore, Cleared, IInv, TypeOK, WellFormed, Phases
<1>4. \A i \in Chunks(offer) : chunk'[offer][i] = "good" => chunk[offer][i] = "good"
  BY <1>3 DEF Nothing
<1>5. Settled'
  BY <1>1, <1>3 DEF Settled, Nothing, Chunks
<1> QED
  BY <1>1, <1>2, <1>4, <1>5, ReceiverEndsCourse

(* What the ticket brings is what was offered, unless the source changed.   *)
LEMMA FetchedCourse ==
  ASSUME IInv, Course, Fetched
  PROVE  Course'
<1>1. /\ UNCHANGED <<program, offer, mode, source, ticket, struck, s, stream, missing, short,
                     finished, meta, chunk>>
      /\ r = "fetching" /\ Brought = Chunks(ticket)
  BY DEF Fetched, attempt, world, payload, disk
<1>2. Message("cancel") \in Frame /\ Message("cancel").kind = "cancel"
  BY DEF Message, Frame
<1>3. program \in {"blob", "cli"}
  BY <1>1, FilesAssumption DEF IInv, Phases, TypeOK
<1>4. ~struck => ticket = offer
  BY DEF Course, Concluding
<1>5. CASE program = "blob" /\ Honest(ticket)
  <2>1. r' = "reporting" /\ toS' = toS /\ result' = result
    BY <1>5 DEF Fetched
  <2> QED
    BY <1>1, <2>1, AtWorkCourse
<1>6. CASE program = "blob" /\ ~Honest(ticket)
  <2>1. toS' = Append(toS, Message("cancel")) /\ r' = "ended" /\ result'.sender = result.sender
    BY <1>6 DEF Fetched, Sends, EndReceiver, IInv, TypeOK
  <2> QED
    BY <1>1, <1>2, <1>4, <1>6, <2>1, ReceiverEndsCourse
<1>7. CASE program = "cli" /\ CompleteBefore
  <2>1. r' = "writing" /\ toS' = toS /\ result' = result
    BY <1>7 DEF Fetched
  <2> QED
    BY <1>1, <2>1, AtWorkCourse
<1>8. CASE program = "cli" /\ ~CompleteBefore
  <2>1. /\ toS' = toS /\ r' = "ended" /\ result'.sender = result.sender
        /\ result'.receiver = "failed"
    BY <1>8 DEF Fetched, EndReceiver, IInv, TypeOK
  <2>2. struck \/ ~Honest(offer)
    BY <1>1, <1>4, <1>8 DEF CompleteBefore, Held, Brought
  <2> QED
    BY <1>1, <2>1, <2>2, ReceiverEndsCourse
<1> QED
  BY <1>3, <1>5, <1>6, <1>7, <1>8

LEMMA ReportCourse ==
  ASSUME IInv, Course, Report \/ ReceiverLosesPeer, ~Opening
  PROVE  Course'
<1>1. /\ UNCHANGED <<program, offer, mode, source, ticket, struck, s, stream, missing, short,
                     finished, meta, chunk>>
      /\ r \in {"reporting", "ticket", "fetching", "receiving"} /\ r' = "ended"
      /\ result'.sender = result.sender
  BY DEF Report, ReceiverLosesPeer, EndReceiver, attempt, world, payload, disk, IInv, TypeOK, Opening
<1>2. Message("completed") \in Frame /\ Message("completed").kind = "completed"
  BY DEF Message, Frame
<1>3. CASE s = "ended" /\ EndReceiver("failed") /\ toS' = toS
  <2>1. toS' = toS /\ result'.receiver = "failed"
    BY <1>3 DEF EndReceiver, IInv, TypeOK
  <2>2. ~struck => Settled'
    BY <1>1, <1>3 DEF Course, Concluding, Settled
  <2> QED
    BY <1>1, <2>1, <2>2, ReceiverEndsCourse
<1>4. CASE EndReceiver("completed") /\ Sends(Message("completed"))
  <2>1. toS' = Append(toS, Message("completed")) /\ result'.receiver = "completed"
    BY <1>4 DEF Sends, EndReceiver, IInv, TypeOK
  <2>2. Settled'
    BY <2>1 DEF Settled
  <2> QED
    BY <1>1, <1>2, <2>1, <2>2, ReceiverEndsCourse
<1> QED
  BY <1>3, <1>4 DEF Report, ReceiverLosesPeer, frames

(* A receiver that still waits for an offer loses its peer.                 *)
LEMMA LosesOpeningCourse ==
  ASSUME IInv, Course, ReceiverLosesPeer, Opening
  PROVE  Course'
<1> USE DEF Course
<1>1. /\ UNCHANGED <<program, offer, mode, source, ticket, struck, s, stream, missing, short,
                     finished, meta, chunk, toS>>
      /\ s = "ended" /\ r = "waiting" /\ r' = "ended"
      /\ result'.sender = result.sender /\ result'.receiver = "failed"
  BY DEF ReceiverLosesPeer, EndReceiver, attempt, world, payload, disk, frames, IInv, TypeOK, Opening
<1>2. NothingTwice'
  BY <1>1 DEF NothingTwice, Opening
<1>3. Accounted'
  BY <1>1 DEF Accounted
<1>4. Concluding'
  BY <1>1 DEF Concluding, Settled
<1> QED
  BY <1>2, <1>3, <1>4

LEMMA ReceiverCourse ==
  ASSUME IInv, Course, Receiver
  PROVE  Course'
<1>1. CASE TakeTicket \/ FetchChunk \/ CreateOutput \/ FillOutput
  BY <1>1, AtWorkCourse DEF TakeTicket, FetchChunk, CreateOutput, FillOutput, attempt, world, payload,
     disk, frames
<1> QED
  BY <1>1, OpeningCourse, RespondCourse, ReceiveChunkCourse, EndOfStreamCourse, RespondBlobCourse,
     JudgeCourse, ClearStoreCourse, FetchedCourse, ReportCourse, LosesOpeningCourse
     DEF Receiver, Report, Opening

(* Kills, damage and edits: an attempt that is struck promises less.        *)
LEMMA WorldCourse ==
  ASSUME IInv, Course, Environment
  PROVE  Course'
<1> USE DEF Course
<1>1. /\ struck' = TRUE /\ UNCHANGED <<program, offer, stream, missing, short, finished, toS>>
      /\ \/ UNCHANGED <<s, r>> /\ (program = "cli" \/ Over)
         \/ program = "cli" /\ s # "idle" /\ s' = "ended" /\ r' = r
         \/ program = "cli" /\ r # "idle" /\ r' = "ended" /\ s' = s
         \/ s' = "ended" /\ r' = "ended"
      /\ program # "cli" /\ ~Over => r' = "ended"
      /\ chunk' # chunk => Over \/ r' = "ended"
  BY DEF Environment, KillSender, KillReceiver, KillProbe, EditSource, DamageChunk, Strike, EndSender,
     EndReceiver, attempt, frames, payload, disk
<1>2. \A i \in Chunks(offer) : chunk'[offer][i] = "good" => chunk[offer][i] = "good"
  <2>1. CASE KillSender \/ KillReceiver \/ \E d \in Files : EditSource(d)
    BY <2>1 DEF KillSender, KillReceiver, EditSource, disk
  <2>2. CASE KillProbe
    BY <2>2 DEF KillProbe, HalfCleared, Torn, IInv, TypeOK, WellFormed
  <2>3. ASSUME NEW d \in Files, NEW j \in Chunks(d), DamageChunk(d, j)
        PROVE  \A i \in Chunks(offer) : chunk'[offer][i] = "good" => chunk[offer][i] = "good"
    <3>1. PICK c \in {"short", "stale"} : chunk' = [chunk EXCEPT ![d] = [chunk[d] EXCEPT ![j] = c]]
      BY <2>3 DEF DamageChunk
    <3> QED
      BY <3>1 DEF IInv, TypeOK, WellFormed
  <2> QED
    BY <2>1, <2>2, <2>3 DEF Environment
<1>3. /\ \A k \in DOMAIN stream : stream[k] \in Chunks(offer)
      /\ \A i \in missing : i \in Chunks(offer)
      /\ \A m \in Range(toS) : \A i \in m.missing : i \in Chunks(offer)
  BY DEF IInv, WellFormed, TypeOK, Range
<1>4. program = "cli" => r \notin {"receiving", "checking"}
  BY DEF IInv, Phases
<1>5. NothingTwice'
  BY <1>1, <1>2, <1>3 DEF NothingTwice, Opening, Over
<1>6. Accounted'
  BY <1>1, <1>4 DEF Accounted, Over
<1>7. Concluding'
  BY <1>1 DEF Concluding
<1> QED
  BY <1>5, <1>6, <1>7

LEMMA NextCourse == IInv /\ Course /\ [Next]_vars => Course'
<1> SUFFICES ASSUME IInv, Course, [Next]_vars
             PROVE  Course'
  OBVIOUS
<1>1. ASSUME Sender PROVE Course'
  BY <1>1, StartStreamCourse, TicketCourse, SendChunkCourse, FinishStreamCourse, SenderEndsCourse
     DEF Sender
<1>2. CASE UNCHANGED vars
  BY <1>2 DEF vars, attempt, world, frames, payload, disk, Course, NothingTwice, Accounted, Concluding,
     Opening, Settled, Nothing, Chunks, Present, Honest
<1> QED
  BY <1>1, <1>2, StartCourse, ReceiverCourse, WorldCourse DEF Next

(* The course of an attempt, which the next theorems read off.             *)
THEOREM CourseHolds == Spec => []Course
BY InitCourse, NextCourse, InductiveInvariant, PTL DEF Spec

(* No chunk the receiver holds intact crosses the wire again, whatever was  *)
(* left over from earlier attempts.                                         *)
THEOREM ResumesHold == Spec => []SendsOnlyMissing
<1>1. Course => SendsOnlyMissing
  BY DEF Course, NothingTwice, SendsOnlyMissing
<1> QED
  BY CourseHolds, <1>1, PTL

(* An attempt nothing interferes with ends in the same way on both sides,   *)
(* and an accepted one delivers an honest file or makes room for the next.  *)
THEOREM ConcludesHolds == Spec => []Concludes
<1>1. Course => Concludes
  BY DEF Course, Concluding, Settled, Concludes
<1> QED
  BY CourseHolds, <1>1, PTL

(* Verified chunks go only with a failed verification or by the disk itself, *)
(* in every step.                                                           *)
THEOREM ProgressHolds == Spec => KeepsProgress
<1> DEFINE Losing(d) == \/ \E i \in Chunks(d) : DamageChunk(d, i)
                        \/ r = "clearing" /\ d = offer /\ ~Kept
<1>1. ASSUME IInv, [Next]_vars, NEW d \in Files, ~(Good(d) \subseteq Good(d)')
      PROVE  Losing(d)
  <2>1. PICK i \in Chunks(d) : chunk[d][i] = "good" /\ chunk'[d][i] # "good"
    BY <1>1 DEF Good, Chunks
  <2>2. chunk' # chunk
    BY <2>1
  <2>3. CASE RespondChunked
    <3>1. chunk'[d] = IF d = offer THEN Swept(offer) ELSE chunk[d]
      BY <1>1, <2>3 DEF RespondChunked, IInv, WellFormed
    <3> QED
      BY <2>1, <3>1 DEF Swept
  <2>4. CASE ReceiveChunk
    <3>1. \A j \in Chunks(d) : chunk'[d][j] \in {"good", chunk[d][j]}
      BY <1>1, <2>4 DEF ReceiveChunk, IInv, TypeOK, WellFormed
    <3> QED
      BY <2>1, <3>1
  <2>5. CASE ClearStore \/ KillProbe
    <3>1. r = "clearing" /\ d = offer
      BY <1>1, <2>1, <2>5 DEF ClearStore, Cleared, KillProbe, HalfCleared, IInv, WellFormed
    <3> QED
      BY <1>1, <3>1 DEF IInv, Phases
  <2>6. ASSUME NEW e \in Files, NEW j \in Chunks(e), DamageChunk(e, j)
        PROVE  Losing(d)
    <3>1. PICK c : chunk' = [chunk EXCEPT ![e] = [chunk[e] EXCEPT ![j] = c]]
      BY <2>6 DEF DamageChunk
    <3>2. d = e
      BY <1>1, <2>1, <3>1 DEF IInv, WellFormed
    <3> QED
      BY <2>6, <3>2
  <2> QED
    BY <1>1, <2>2, <2>3, <2>4, <2>5, <2>6 DEF Next, Sender, Receiver, Environment, Start, StartStream,
       SendTicket, SkipTicket, SendChunk, FinishStream, SenderEnds, SenderLosesPeer, Decline, LoadStore,
       WriteMeta, EndOfStream, Judge, RespondBlob, TakeTicket, FetchChunk, Fetched, CreateOutput,
       FillOutput, Report, ReceiverLosesPeer, KillSender, KillReceiver, EditSource, disk, vars
<1>2. IInv /\ [Next]_vars =>
        [\A d \in Files : ~(Good(d) \subseteq Good(d)') =>
           \/ \E i \in Chunks(d) : DamageChunk(d, i)
           \/ r = "clearing" /\ d = offer /\ ~Kept]_vars
  BY <1>1
<1> QED
  BY <1>2, InductiveInvariant, PTL DEF Spec, KeepsProgress
=============================================================================
