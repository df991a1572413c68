----------------------- MODULE BrowserTransfer_proofs -----------------------
(* What a receiver of browser files shows and keeps, for any files, any      *)
(* number of transfers at once, lost connections, reloads and deletions.     *)
EXTENDS BrowserTransfer, FiniteSetTheorems, WellFoundedInduction, TLAPS

Stage == {"query", "answered", "sending", "sent", "chosen", "writing", "done", "failed"}
Begun == Stage \ {"query", "answered"}
Written == {"chosen", "writing", "done"}
Held == {"manifest", "chunk", "store"}

Paths == Seq({Name[f] : f \in File} \cup Nat)
PathsOf(t) ==
  LET name == <<Name[transfers[t].file]>> IN {name} \cup {Append(name, now) : now \in Millis}

AnyTransfer ==
  [sender : Sender, file : File, to : Peers, stage : Stage, todo : SUBSET Nat, own : BOOLEAN,
   id : Nat, wire : Seq(Nat), count : Nat, path : Paths]

\* All chunks of a transfer, those to be sent, on the way and received.
Total(x) == Cardinality(x.todo) + Len(x.wire) + x.count

\* The chunks of a transfer that it has still to bring.
Left(x) == x.todo \cup {x.wire[m] : m \in DOMAIN x.wire}

\* A transfer sends each chunk at most once.
Transfer ==
  {x \in AnyTransfer :
     /\ x.todo \subseteq Chunks(x.file) /\ x.wire \in Seq(Chunks(x.file))
     /\ Total(x) <= Size[x.file]
     /\ \A m, n \in DOMAIN x.wire : x.wire[m] = x.wire[n] => m = n
     /\ \A m \in DOMAIN x.wire : x.wire[m] \notin x.todo
     /\ x.stage \notin Begun => x.wire = <<>> /\ x.count = 0
     /\ x.stage \in {"sent", "chosen", "writing", "done"} => x.todo = {}
     /\ x.stage \in {"chosen", "writing"} => x.to = "native"}

Event ==
  {e \in [kind : {"chunk", "completed"}, sender : Sender, file : File, id : Nat, chunk : Nat] :
     e.kind = "chunk" => e.chunk \in Chunks(e.file)}

WellFormed ==
  /\ transfers \in Seq(Transfer)
  /\ nextId \in [Sender -> Nat]
  /\ memory \subseteq Nat \X Nat \X File /\ \A c \in memory : c[2] \in Chunks(c[3])
  /\ events \in Seq(Event)
  /\ page \in [stage : Held \cup {"idle", "dead", "stopped"}, event : Event \cup {None},
               bytes : File \cup {None}, count : Nat, had : BOOLEAN]
  /\ page.stage \in Held => page.event \in Event /\ page.event.kind = "chunk" /\ page.bytes \in File
  /\ manifest \in [Keys -> Manifest \cup {None}]
  /\ DOMAIN chunks = Keys /\ \A k \in Keys : chunks[k] \in [Chunks(k[2]) -> File \cup {None}]
  /\ deleted \subseteq Keys /\ faults \in 0..MaxFaults

\* The page has read what is stored.
PageKnows ==
  /\ \A k \in Keys : manifest[k] = None => Stored(k) = {}
  /\ LET k == KeyOf(page.event) IN
     /\ page.stage \in {"chunk", "store"} /\ k \notin deleted => page.count = Cardinality(Stored(k))
     /\ page.stage = "store" /\ k \notin deleted => (page.had <=> page.event.chunk \in Stored(k))

\* Chunk i of k is stored, or in the page's hands, or announced by one of n events.
Holds(k, i) == page.stage \in Held /\ KeyOf(page.event) = k /\ page.event.chunk = i
Announced(k, i, n) ==
  \E m \in 1..n : events[m].kind = "chunk" /\ KeyOf(events[m]) = k /\ events[m].chunk = i
Arrived(k, i, n) == i \in Stored(k) \/ Holds(k, i) \/ Announced(k, i, n)

\* All of a file that is sent whole is on the way or has arrived,
WholeComes(t) ==
  LET x == transfers[t] IN
  /\ x.to = "browser" /\ x.stage \in {"sending", "sent"}
  /\ Total(x) = Size[x.file] /\ KeyOf(x) \notin deleted
  => \A i \in Chunks(x.file) \ Left(x) : Arrived(KeyOf(x), i, Len(events))

\* and has arrived before the page is told so.
ToldWhole(n) ==
  LET e == events[n] IN
  e.kind = "completed" /\ KeyOf(e) \notin deleted =>
    \A i \in Chunks(e.file) : Arrived(KeyOf(e), i, n)

\* So it is while the page lives.
NothingLost ==
  page.stage \notin {"dead", "stopped"} =>
    (\A t \in Slots : WholeComes(t)) /\ (\A n \in DOMAIN events : ToldWhole(n))

\* Two handlers write to one path only if it is shared.
PathsAreTaken ==
  /\ \A t \in Slots : transfers[t].to = "native" =>
       /\ transfers[t].stage \in Written => transfers[t].path \in PathsOf(t)
       /\ transfers[t].stage \in {"writing", "done"} => transfers[t].path \in DOMAIN output
  /\ \A t, u \in Slots :
       /\ transfers[t].to = "native" /\ transfers[t].stage \in Written
       /\ u \in Open /\ t # u /\ transfers[t].path = transfers[u].path
       => transfers[u].path \in shared

IInv == /\ WellFormed /\ PageKnows /\ NothingLost /\ PathsAreTaken
        /\ ManifestTellsStored /\ AcknowledgedIsSaved

\* A single sender
OneSender == \A s, t \in Sender : s = t

IdsDiffer ==
  /\ \A t \in Slots : transfers[t].stage \in Begun =>
       /\ transfers[t].id < nextId[transfers[t].sender]
       /\ \A u \in Slots : transfers[u].stage \in Begun /\ transfers[u].id = transfers[t].id => t = u
  /\ \A n \in DOMAIN events : events[n].id < nextId[events[n].sender]

\* Each chunk event has bytes of its own, of its file, and no transfer brings them again.
EventsHaveBytes ==
  /\ \A c, d \in memory : c[1] = d[1] /\ c[2] = d[2] => c = d
  /\ \A n \in DOMAIN events :
       LET e == events[n] IN
       e.kind = "chunk" =>
         /\ <<e.id, e.chunk, e.file>> \in memory
         /\ \A m \in DOMAIN events :
              events[m].kind = "chunk" /\ events[m].id = e.id /\ events[m].chunk = e.chunk => m = n
         /\ \A t \in Slots :
              transfers[t].stage \in {"sending", "sent"} /\ transfers[t].id = e.id =>
                e.chunk \notin Left(transfers[t])

HeldIsSent == page.stage \in Held => page.bytes = page.event.file

SInv == IdsDiffer /\ EventsHaveBytes /\ HeldIsSent /\ StoredIsSent

-----------------------------------------------------------------------------
(* Transfers                                                                 *)

\* Of the initial parts of S, one has no part of S below it.
LEMMA MinIsMember ==
  ASSUME NEW S \in SUBSET Nat, S # {}, IsFiniteSet(S)
  PROVE  Min(S) \in S
<1> DEFINE upto(x) == {y \in S : y <= x}
           parts   == {upto(x) : x \in S}
<1>1. parts \subseteq FiniteSubsetsOf(S) /\ parts # {}
  <2>1. \A x \in S : upto(x) \in SUBSET S
    OBVIOUS
  <2>2. \A x \in S : IsFiniteSet(upto(x))
    BY <2>1, FS_Subset
  <2> QED
    BY <2>1, <2>2 DEF FiniteSubsetsOf
<1>2. PICK p \in parts : \A q \in parts : ~(<<q, p>> \in StrictSubsetOrdering(S))
  BY <1>1, FS_StrictSubsetOrderingWellFounded, WFMin
<1>3. PICK x \in S : p = upto(x)
  OBVIOUS
<1>4. ASSUME NEW y \in S, y < x PROVE FALSE
  <2>1. x \in upto(x) /\ x \notin upto(y)
    BY <1>4
  <2>2. ASSUME NEW z \in S, z <= y PROVE z <= x
    BY <1>4, <2>2
  <2>3. upto(y) \subseteq upto(x)
    BY <2>2
  <2>4. upto(y) \in SUBSET S /\ upto(x) \in SUBSET S /\ upto(y) \in parts
    OBVIOUS
  <2> HIDE DEF upto, parts
  <2>5. <<upto(y), p>> \in StrictSubsetOrdering(S)
    BY <1>3, <2>1, <2>3, <2>4 DEF StrictSubsetOrdering
  <2> QED
    BY <1>2, <2>4, <2>5
<1>5. \A y \in S : x <= y
  BY <1>4
<1> QED
  BY <1>5 DEF Min

\* One transfer becomes y.
LEMMA OneChanges ==
  ASSUME transfers \in Seq(Transfer), NEW t \in Slots, NEW y \in Transfer,
         transfers' = [transfers EXCEPT ![t] = y]
  PROVE  /\ transfers' \in Seq(Transfer) /\ Slots' = Slots
         /\ transfers'[t] = y /\ \A u \in Slots : u # t => transfers'[u] = transfers[u]
BY DEF Slots

LEMMA FieldsOf ==
  ASSUME NEW x \in Transfer
  PROVE  /\ x \in AnyTransfer
         /\ x.sender \in Sender /\ x.file \in File /\ x.to \in Peers /\ x.stage \in Stage
         /\ x.todo \in SUBSET Chunks(x.file) /\ x.id \in Nat /\ x.wire \in Seq(Chunks(x.file))
         /\ x.wire \in Seq(Nat)
         /\ x.count \in Nat /\ x.path \in Paths /\ x.own \in BOOLEAN
         /\ Size[x.file] \in Nat /\ Chunks(x.file) \in SUBSET Nat /\ Len(x.wire) \in Nat
         /\ IsFiniteSet(x.todo) /\ Cardinality(x.todo) \in Nat /\ KeyOf(x) \in Keys
         /\ Total(x) \in Nat /\ Total(x) <= Size[x.file]
<1>1. x \in AnyTransfer /\ Total(x) <= Size[x.file]
  BY DEF Transfer
<1>2. /\ x.sender \in Sender /\ x.file \in File /\ x.to \in Peers
      /\ x.stage \in Stage /\ x.id \in Nat /\ x.count \in Nat /\ x.path \in Paths /\ x.wire \in Seq(Nat)
      /\ x.own \in BOOLEAN
  BY <1>1 DEF AnyTransfer
<1>3. x.todo \subseteq Chunks(x.file) /\ x.wire \in Seq(Chunks(x.file))
  BY DEF Transfer
<1>4. Size[x.file] \in Nat
  BY <1>2, FileAssumption
<1>5. IsFiniteSet(Chunks(x.file)) /\ Chunks(x.file) \in SUBSET Nat
  BY <1>4, FS_Interval DEF Chunks
<1>6. IsFiniteSet(x.todo) /\ Cardinality(x.todo) \in Nat
  BY <1>3, <1>5, FS_Subset, FS_CardinalityType
<1>7. Len(x.wire) \in Nat
  BY <1>2
<1> QED
  BY <1>1, <1>2, <1>3, <1>4, <1>5, <1>6, <1>7 DEF Total, KeyOf, Keys

LEMMA SendEffect ==
  ASSUME NEW x \in Transfer, NEW i \in x.todo, x.stage = "sending"
  PROVE  LET y == [x EXCEPT !.todo = @ \ {i}, !.wire = Append(@, i)] IN
         y \in Transfer /\ Total(y) = Total(x) /\ Left(y) = Left(x)
<1> DEFINE y == [x EXCEPT !.todo = @ \ {i}, !.wire = Append(@, i)]
<1> USE FieldsOf
<1>1. /\ y \in AnyTransfer /\ y.todo = x.todo \ {i} /\ y.wire = Append(x.wire, i)
      /\ y.file = x.file /\ y.count = x.count /\ y.stage = "sending" /\ y.to = x.to
  <2>1. x.todo \ {i} \in SUBSET Nat /\ Append(x.wire, i) \in Seq(Nat)
    OBVIOUS
  <2> QED
    BY <2>1 DEF AnyTransfer
<1>2. /\ Len(y.wire) = Len(x.wire) + 1 /\ y.wire \in Seq(Chunks(x.file))
      /\ DOMAIN x.wire = 1..Len(x.wire) /\ DOMAIN y.wire = 1..(Len(x.wire) + 1)
      /\ \A m \in DOMAIN x.wire : y.wire[m] = x.wire[m]
      /\ y.wire[Len(x.wire) + 1] = i
  BY <1>1
<1>3. Cardinality(y.todo) = Cardinality(x.todo) - 1
  <2>1. IsFiniteSet(x.todo) /\ i \in x.todo /\ y.todo = x.todo \ {i}
    BY <1>1
  <2> QED
    BY ONLY <2>1, FS_RemoveElement
<1>4. Total(y) = Total(x)
  BY <1>1, <1>2, <1>3 DEF Total
<1>5. /\ \A m \in DOMAIN y.wire : m \in DOMAIN x.wire \/ m = Len(x.wire) + 1
      /\ \A m \in DOMAIN x.wire : x.wire[m] \notin x.todo
  <2>1. \A m \in DOMAIN x.wire : x.wire[m] \notin x.todo
    BY DEF Transfer
  <2>2. Len(x.wire) \in Nat
    OBVIOUS
  <2>3. \A m \in 1..(Len(x.wire) + 1) : m \in 1..Len(x.wire) \/ m = Len(x.wire) + 1
    BY ONLY <2>2
  <2> HIDE DEF y
  <2> QED
    BY ONLY <1>2, <2>1, <2>3
<1>6. \A m, n \in DOMAIN y.wire : y.wire[m] = y.wire[n] => m = n
  <2>1. \A m, n \in DOMAIN x.wire : x.wire[m] = x.wire[n] => m = n
    BY DEF Transfer
  <2>2. \A m \in DOMAIN y.wire : m \in DOMAIN x.wire \/ m = Len(x.wire) + 1
    BY <1>5
  <2>3. Len(x.wire) + 1 \notin DOMAIN x.wire /\ \A m \in DOMAIN x.wire : y.wire[m] # i
    BY <1>2, <1>5
  <2> HIDE DEF y
  <2> QED
    BY <2>1, <2>2, <2>3, <1>2
<1>7. \A m \in DOMAIN y.wire : y.wire[m] \notin y.todo
  <2>1. \A m \in DOMAIN y.wire : m \in DOMAIN x.wire \/ m = Len(x.wire) + 1
    BY <1>5
  <2> HIDE DEF y
  <2> QED
    BY <2>1, <1>1, <1>2, <1>5
<1>8. Left(y) = Left(x)
  <2>1. \A m \in DOMAIN y.wire : m \in DOMAIN x.wire \/ m = Len(x.wire) + 1
    BY <1>5
  <2>2. Len(x.wire) + 1 \in DOMAIN y.wire /\ \A m \in DOMAIN x.wire : m \in DOMAIN y.wire
    BY <1>2
  <2> HIDE DEF y
  <2>3. Left(y) \subseteq Left(x)
    BY <2>1, <1>1, <1>2 DEF Left
  <2>4. ASSUME NEW j \in Left(x) PROVE j \in Left(y)
    <3>1. CASE j \in x.todo
      BY <2>2, <3>1, <1>1, <1>2 DEF Left
    <3>2. CASE j \notin x.todo
      <4>1. PICK m \in DOMAIN x.wire : j = x.wire[m]
        BY <2>4, <3>2 DEF Left
      <4> QED
        BY <2>2, <4>1, <1>2 DEF Left
    <3> QED
      BY <3>1, <3>2
  <2> QED
    BY <2>3, <2>4
<1>9. y \in Transfer
  <2> HIDE DEF y
  <2>1. y.todo \subseteq Chunks(y.file) /\ y.wire \in Seq(Chunks(y.file)) /\ Total(y) <= Size[y.file]
    BY <1>1, <1>2, <1>4
  <2>2. y.stage \in Begun /\ y.stage \notin {"sent", "chosen", "writing", "done"}
    BY <1>1 DEF Begun, Stage
  <2> QED
    BY <2>1, <2>2, <1>1, <1>6, <1>7 DEF Transfer
<1> QED
  BY <1>4, <1>8, <1>9

LEMMA TailFacts ==
  ASSUME NEW S, NEW q \in Seq(S), q # <<>>
  PROVE  /\ Len(q) \in Nat /\ Len(q) > 0 /\ DOMAIN q = 1..Len(q)
         /\ Tail(q) \in Seq(S) /\ Len(Tail(q)) = Len(q) - 1 /\ DOMAIN Tail(q) = 1..(Len(q) - 1)
         /\ \A m \in 1..(Len(q) - 1) : Tail(q)[m] = q[m + 1]
         /\ Head(q) = q[1] /\ Head(q) \in S /\ 1 \in DOMAIN q
OBVIOUS

LEMMA ReceiveEffect ==
  ASSUME NEW x \in Transfer, x.wire # <<>>
  PROVE  LET y == [x EXCEPT !.wire = Tail(@), !.count = @ + 1] IN
         /\ y \in Transfer /\ Total(y) = Total(x) /\ Head(x.wire) \in Chunks(x.file)
         /\ Left(x) = Left(y) \cup {Head(x.wire)} /\ Head(x.wire) \notin Left(y)
<1> DEFINE y == [x EXCEPT !.wire = Tail(@), !.count = @ + 1]
<1> USE FieldsOf
<1>1. /\ y \in AnyTransfer /\ y.todo = x.todo /\ y.wire = Tail(x.wire)
      /\ y.file = x.file /\ y.count = x.count + 1 /\ y.stage = x.stage /\ y.to = x.to
  <2>1. Tail(x.wire) \in Seq(Nat) /\ x.count + 1 \in Nat
    OBVIOUS
  <2> QED
    BY <2>1 DEF AnyTransfer
<1>2. /\ Len(y.wire) = Len(x.wire) - 1 /\ y.wire \in Seq(Chunks(x.file))
      /\ DOMAIN x.wire = 1..Len(x.wire) /\ DOMAIN y.wire = 1..(Len(x.wire) - 1)
      /\ \A m \in DOMAIN y.wire : y.wire[m] = x.wire[m + 1]
      /\ Head(x.wire) = x.wire[1] /\ Head(x.wire) \in Chunks(x.file) /\ 1 \in DOMAIN x.wire
  <2>1. x.wire \in Seq(Chunks(x.file))
    OBVIOUS
  <2>2. y.wire = Tail(x.wire)
    BY <1>1
  <2>3. /\ Len(x.wire) \in Nat /\ Len(x.wire) > 0 /\ DOMAIN x.wire = 1..Len(x.wire)
        /\ Tail(x.wire) \in Seq(Chunks(x.file)) /\ Len(Tail(x.wire)) = Len(x.wire) - 1
        /\ DOMAIN Tail(x.wire) = 1..(Len(x.wire) - 1)
        /\ \A m \in 1..(Len(x.wire) - 1) : Tail(x.wire)[m] = x.wire[m + 1]
        /\ Head(x.wire) = x.wire[1] /\ Head(x.wire) \in Chunks(x.file) /\ 1 \in DOMAIN x.wire
    BY ONLY <2>1, x.wire # <<>>, TailFacts
  <2> HIDE DEF y
  <2> QED
    BY ONLY <2>2, <2>3
<1> HIDE DEF y
<1>3. Total(y) = Total(x)
  <2>1. x.count \in Nat /\ Len(x.wire) \in Nat /\ Cardinality(x.todo) \in Nat
    OBVIOUS
  <2> QED
    BY ONLY <2>1, <1>1, <1>2 DEF Total
<1>4. \A m \in DOMAIN x.wire : x.wire[m] \notin x.todo
  BY DEF Transfer
<1>5. \A m \in DOMAIN y.wire : m + 1 \in DOMAIN x.wire /\ m \in Nat /\ m + 1 # 1
  <2>1. Len(x.wire) \in Nat
    OBVIOUS
  <2> QED
    BY ONLY <1>2, <2>1
<1>6. \A m, n \in DOMAIN x.wire : x.wire[m] = x.wire[n] => m = n
  BY DEF Transfer
<1>7. \A m \in DOMAIN x.wire : m = 1 \/ (m - 1 \in DOMAIN y.wire /\ y.wire[m - 1] = x.wire[m])
  <2> SUFFICES ASSUME NEW m \in DOMAIN x.wire, m # 1
               PROVE  m - 1 \in DOMAIN y.wire /\ y.wire[m - 1] = x.wire[m]
    OBVIOUS
  <2>1. Len(x.wire) \in Nat /\ m \in DOMAIN x.wire /\ m # 1
    OBVIOUS
  <2>2. m - 1 \in 1..(Len(x.wire) - 1) /\ (m - 1) + 1 = m
    BY ONLY <1>2, <2>1
  <2> QED
    BY ONLY <2>2, <1>2
<1>8. \A m, n \in DOMAIN y.wire : y.wire[m] = y.wire[n] => m = n
  <2> SUFFICES ASSUME NEW m \in DOMAIN y.wire, NEW n \in DOMAIN y.wire, y.wire[m] = y.wire[n]
               PROVE  m = n
    OBVIOUS
  <2>1. x.wire[m + 1] = x.wire[n + 1]
    BY <1>2
  <2>2. m + 1 = n + 1
    BY <2>1, <1>5, <1>6
  <2> QED
    BY <2>2, <1>5
<1>9. \A m \in DOMAIN y.wire : y.wire[m] \notin y.todo
  BY <1>1, <1>2, <1>4, <1>5
<1>10. Head(x.wire) \notin Left(y)
  <2>1. \A m \in DOMAIN y.wire : y.wire[m] # x.wire[1]
    BY <1>2, <1>5, <1>6
  <2> QED
    BY <2>1, <1>1, <1>2, <1>4 DEF Left
<1>11. Left(x) = Left(y) \cup {Head(x.wire)}
  <2>1. Left(y) \cup {Head(x.wire)} \subseteq Left(x)
    BY <1>1, <1>2, <1>5 DEF Left
  <2>2. Left(x) \subseteq Left(y) \cup {Head(x.wire)}
    <3> SUFFICES ASSUME NEW m \in DOMAIN x.wire PROVE x.wire[m] \in Left(y) \cup {Head(x.wire)}
      BY <1>1 DEF Left
    <3> QED
      BY <1>2, <1>7 DEF Left
  <2> QED
    BY <2>1, <2>2
<1>12. y \in Transfer
  <2>1. y.todo \subseteq Chunks(y.file) /\ y.wire \in Seq(Chunks(y.file)) /\ Total(y) <= Size[y.file]
    BY <1>1, <1>2, <1>3
  <2>2. y.stage \in Begun
    BY DEF Transfer, Begun, Stage, y
  <2> QED
    BY <2>1, <2>2, <1>1, <1>8, <1>9 DEF Transfer
<1> QED
  BY <1>2, <1>3, <1>10, <1>11, <1>12 DEF y
-----------------------------------------------------------------------------
(* The parts of the invariant that a step leaves alone                       *)

LEMMA WellFormedTypeOK == WellFormed => TypeOK
<1> SUFFICES ASSUME WellFormed PROVE TypeOK
  OBVIOUS
<1> USE DEF WellFormed
<1>1. ASSUME NEW t \in Slots
      PROVE  /\ transfers[t].stage \in Stage /\ transfers[t].to \in Peers
             /\ transfers[t].own \in BOOLEAN
             /\ transfers[t].todo \subseteq Chunks(transfers[t].file)
             /\ transfers[t].count \in 0..Size[transfers[t].file]
  <2> DEFINE x == transfers[t]
  <2>1. x \in Transfer
    BY DEF Slots
  <2> HIDE DEF x
  <2>2. /\ x.stage \in Stage /\ x.to \in Peers /\ x.todo \in SUBSET Chunks(x.file)
        /\ x.own \in BOOLEAN
        /\ x.count \in Nat /\ Size[x.file] \in Nat /\ Len(x.wire) \in Nat
        /\ Cardinality(x.todo) \in Nat /\ Total(x) <= Size[x.file]
    BY <2>1, FieldsOf
  <2>3. x.count \in 0..Size[x.file]
    BY <2>2 DEF Total
  <2> QED
    BY <2>2, <2>3 DEF x
<1>2. \A c \in memory : c[3] \in File
  OBVIOUS
<1>3. page.stage \in {"idle", "manifest", "chunk", "store", "dead", "stopped"}
  BY DEF Held
<1> QED
  BY <1>1, <1>2, <1>3 DEF TypeOK, Stage

\* A transfer joins the others.
LEMMA OneMore ==
  ASSUME transfers \in Seq(Transfer), NEW y \in Transfer, transfers' = Append(transfers, y)
  PROVE  /\ transfers' \in Seq(Transfer) /\ Slots \subseteq Slots'
         /\ \A u \in Slots' : (u \in Slots /\ transfers'[u] = transfers[u])
                              \/ (u \notin Slots /\ transfers'[u] = y)
BY DEF Slots

LEMMA PathsKept ==
  ASSUME PathsAreTaken, AcknowledgedIsSaved, transfers' \in Seq(Transfer),
         UNCHANGED <<output, shared>>,
         \A u \in Slots' : \/ u \in Slots /\ transfers'[u] = transfers[u]
                           \/ transfers'[u].to # "native"
                           \/ transfers'[u].stage \notin Written
  PROVE  PathsAreTaken' /\ AcknowledgedIsSaved'
<1>1. \A u \in Slots' : transfers'[u].stage \in {"chosen", "writing"} => transfers'[u].to = "native"
  BY DEF Transfer, Slots
<1>2. \A u \in Slots' : transfers'[u].to = "native" /\ transfers'[u].stage \in Written =>
         u \in Slots /\ transfers'[u] = transfers[u]
  OBVIOUS
<1>3. \A u \in Open' : u \in Open /\ u \in Slots' /\ transfers'[u] = transfers[u]
                       /\ transfers'[u].to = "native"
  BY <1>1, <1>2 DEF Open, Written
<1>4. PathsAreTaken'
  <2>1. \A t \in Slots' : transfers'[t].to = "native" =>
          /\ transfers'[t].stage \in Written => transfers'[t].path \in PathsOf(t)'
          /\ transfers'[t].stage \in {"writing", "done"} => transfers'[t].path \in DOMAIN output'
    BY <1>2 DEF PathsAreTaken, PathsOf, Written
  <2>2. \A t, u \in Slots' :
          /\ transfers'[t].to = "native" /\ transfers'[t].stage \in Written
          /\ u \in Open' /\ t # u /\ transfers'[t].path = transfers'[u].path
          => transfers'[u].path \in shared'
    <3> SUFFICES ASSUME NEW t \in Slots', NEW u \in Open',
                        transfers'[t].to = "native", transfers'[t].stage \in Written,
                        t # u, transfers'[t].path = transfers'[u].path
                 PROVE  transfers'[u].path \in shared
      OBVIOUS
    <3>1. t \in Slots /\ transfers'[t] = transfers[t] /\ u \in Open /\ u \in Slots
          /\ transfers'[u] = transfers[u]
      <4>1. t \in Slots /\ transfers'[t] = transfers[t]
        BY <1>2
      <4>2. u \in Open /\ u \in Slots /\ transfers'[u] = transfers[u]
        BY <1>3 DEF Open
      <4> QED
        BY <4>1, <4>2
    <3> QED
      BY <3>1 DEF PathsAreTaken
  <2> QED
    BY <2>1, <2>2 DEF PathsAreTaken
<1>5. AcknowledgedIsSaved'
  BY <1>2 DEF AcknowledgedIsSaved, At, Written
<1> QED
  BY <1>4, <1>5

LEMMA StoreKept ==
  ASSUME PageKnows, ManifestTellsStored, UNCHANGED <<page, manifest, chunks>>, deleted \subseteq deleted'
  PROVE  PageKnows' /\ ManifestTellsStored'
<1>1. \A k : Stored(k)' = Stored(k)
  BY DEF Stored
<1> QED
  BY <1>1 DEF PageKnows, ManifestTellsStored, KeyOf

\* What has arrived stays when the page and its queue do.
LEMMA ArrivedKept ==
  ASSUME UNCHANGED <<page, chunks, events>>
  PROVE  \A k, i, n : Arrived(k, i, n)' = Arrived(k, i, n)
BY DEF Arrived, Holds, Announced, Stored, KeyOf

\* No connection to a browser is new or goes on.
LEMMA NothingLostKept ==
  ASSUME NothingLost, UNCHANGED <<page, chunks, events, deleted>>,
         \A u \in Slots' : transfers'[u].to = "browser" /\ transfers'[u].stage \in {"sending", "sent"} =>
                            u \in Slots /\ transfers'[u] = transfers[u]
  PROVE  NothingLost'
<1>1. \A k, i, n : Arrived(k, i, n)' = Arrived(k, i, n)
  BY ArrivedKept
<1> SUFFICES ASSUME page.stage \notin {"dead", "stopped"} PROVE NothingLost'
  BY DEF NothingLost, WholeComes, ToldWhole
<1>2. ASSUME NEW u \in Slots', transfers'[u].to = "browser",
             transfers'[u].stage \in {"sending", "sent"},
             Total(transfers'[u]) = Size[transfers'[u].file], KeyOf(transfers'[u]) \notin deleted,
             NEW i \in Chunks(transfers'[u].file) \ Left(transfers'[u])
      PROVE  Arrived(KeyOf(transfers'[u]), i, Len(events))
  <2>1. u \in Slots /\ transfers'[u] = transfers[u]
    BY <1>2
  <2> QED
    BY <1>2, <2>1 DEF NothingLost, WholeComes, ToldWhole
<1>3. \A n \in DOMAIN events :
        events[n].kind = "completed" /\ KeyOf(events[n]) \notin deleted =>
          \A i \in Chunks(events[n].file) : Arrived(KeyOf(events[n]), i, n)
  BY DEF NothingLost, WholeComes, ToldWhole
<1> QED
  BY <1>1, <1>2, <1>3 DEF NothingLost, WholeComes, ToldWhole

\* A transfer goes on, and the receiver sees nothing of it.
LEMMA GoesOnIInv ==
  ASSUME IInv, NEW t \in Slots, NEW y \in Transfer, transfers' = [transfers EXCEPT ![t] = y],
         y.sender = transfers[t].sender, y.file = transfers[t].file,
         y.to = "native" => y.stage \notin Written,
         (/\ y.to = "browser" /\ y.stage \in {"sending", "sent"} /\ Total(y) = Size[y.file]
          /\ KeyOf(y) \notin deleted /\ page.stage \notin {"dead", "stopped"})
           => \A i \in Chunks(y.file) \ Left(y) : Arrived(KeyOf(y), i, Len(events)),
         nextId' \in [Sender -> Nat], faults' \in 0..MaxFaults,
         UNCHANGED <<memory, events, page, manifest, chunks, output, deleted, shared>>
  PROVE  IInv'
<1> USE DEF IInv
<1>1. /\ transfers' \in Seq(Transfer) /\ Slots' = Slots
      /\ transfers'[t] = y /\ \A u \in Slots : u # t => transfers'[u] = transfers[u]
  BY OneChanges DEF WellFormed
<1>2. WellFormed'
  BY <1>1 DEF WellFormed, KeyOf
<1>3. PageKnows' /\ ManifestTellsStored'
  BY StoreKept
<1>4. PathsAreTaken' /\ AcknowledgedIsSaved'
  <2>1. \A u \in Slots' : \/ u \in Slots /\ transfers'[u] = transfers[u]
                          \/ transfers'[u].to # "native"
                          \/ transfers'[u].stage \notin Written
    BY <1>1
  <2> QED
    BY <1>1, <2>1, PathsKept
<1>5. NothingLost'
  <2>1. \A k, i, n : Arrived(k, i, n)' = Arrived(k, i, n)
    BY ArrivedKept
  <2> SUFFICES ASSUME page.stage \notin {"dead", "stopped"} PROVE NothingLost'
    BY DEF NothingLost, WholeComes, ToldWhole
  <2>2. ASSUME NEW u \in Slots, transfers'[u].to = "browser",
               transfers'[u].stage \in {"sending", "sent"},
               Total(transfers'[u]) = Size[transfers'[u].file], KeyOf(transfers'[u]) \notin deleted,
               NEW i \in Chunks(transfers'[u].file) \ Left(transfers'[u])
        PROVE  Arrived(KeyOf(transfers'[u]), i, Len(events))
    <3>1. CASE u = t
      BY <1>1, <2>2, <3>1
    <3>2. CASE u # t
      BY <1>1, <2>2, <3>2 DEF NothingLost, WholeComes, ToldWhole
    <3> QED
      BY <3>1, <3>2
  <2>3. \A n \in DOMAIN events :
          events[n].kind = "completed" /\ KeyOf(events[n]) \notin deleted =>
            \A i \in Chunks(events[n].file) : Arrived(KeyOf(events[n]), i, n)
    BY DEF NothingLost, WholeComes, ToldWhole
  <2> QED
    <3>1. \A u \in Slots' : WholeComes(u)'
      BY <1>1, <2>1, <2>2 DEF WholeComes
    <3>2. \A n \in DOMAIN events' : ToldWhole(n)'
      BY <1>1, <2>1, <2>3 DEF ToldWhole
    <3> QED
      BY <3>1, <3>2 DEF NothingLost
<1> QED
  BY <1>2, <1>3, <1>4, <1>5
-----------------------------------------------------------------------------
(* The sending browser                                                       *)

LEMMA InitIInv == Init => IInv
<1> SUFFICES ASSUME Init PROVE IInv
  OBVIOUS
<1> USE DEF Init
<1>1. Slots = {} /\ Open = {}
  BY DEF Slots, Open
<1>2. WellFormed
  <2>1. page \in [stage : Held \cup {"idle", "dead", "stopped"}, event : Event \cup {None},
                 bytes : File \cup {None}, count : Nat, had : BOOLEAN]
    BY DEF Idle
  <2>2. page.stage \notin Held
    BY DEF Idle, Held
  <2>3. \A k \in Keys : chunks[k] \in [Chunks(k[2]) -> File \cup {None}]
    BY DEF NoChunks
  <2>4. faults \in 0..MaxFaults
    BY TransferBound
  <2>5. transfers \in Seq(Transfer) /\ events \in Seq(Event) /\ nextId \in [Sender -> Nat]
    OBVIOUS
  <2>6. manifest \in [Keys -> Manifest \cup {None}] /\ DOMAIN chunks = Keys
    OBVIOUS
  <2> QED
    BY <2>1, <2>2, <2>3, <2>4, <2>5, <2>6 DEF WellFormed
<1>3. PageKnows
  BY DEF PageKnows, Stored, NoChunks, Idle
<1>4. NothingLost
  BY <1>1 DEF NothingLost, WholeComes, ToldWhole
<1>5. PathsAreTaken /\ AcknowledgedIsSaved
  BY <1>1 DEF PathsAreTaken, AcknowledgedIsSaved
<1>6. ManifestTellsStored
  BY DEF ManifestTellsStored
<1> QED
  BY <1>2, <1>3, <1>4, <1>5, <1>6 DEF IInv

LEMMA FreshTransfer ==
  ASSUME NEW y \in AnyTransfer, y.stage \in {"query", "answered", "sending"},
         y.wire = <<>>, y.count = 0, y.todo \subseteq Chunks(y.file), Total(y) <= Size[y.file]
  PROVE  y \in Transfer
<1>1. DOMAIN y.wire = {} /\ y.wire \in Seq(Chunks(y.file))
  OBVIOUS
<1>2. y.stage \notin {"sent", "chosen", "writing", "done"} /\ y.stage \notin {"chosen", "writing"}
  OBVIOUS
<1> QED
  BY <1>1, <1>2 DEF Transfer

LEMMA SendFileIInv ==
  ASSUME IInv, NEW s \in Sender, NEW f \in File, NEW to \in Peers, SendFile(s, f, to)
  PROVE  IInv'
<1> USE DEF IInv
<1> DEFINE y == [sender |-> s, file |-> f, to |-> to, stage |-> "query", todo |-> {}, own |-> TRUE,
                 id |-> 0, wire |-> <<>>, count |-> 0, path |-> <<>>]
<1>1. y \in Transfer /\ y.stage = "query"
  <2>1. Size[f] \in Nat /\ Cardinality({}) = 0
    BY FileAssumption, FS_EmptySet
  <2>2. y \in AnyTransfer
    BY DEF AnyTransfer, Stage, Paths
  <2>3. Total(y) = 0
    BY <2>1 DEF Total
  <2>4. Total(y) <= Size[y.file]
    BY <2>1, <2>3
  <2> QED
    BY <2>2, <2>4, FreshTransfer
<1>2. /\ transfers' = Append(transfers, y)
      /\ UNCHANGED <<nextId, memory, events, page, manifest, chunks, output, deleted, shared, faults>>
  BY DEF SendFile, node, store, spent
<1> HIDE DEF y
<1>3. /\ transfers' \in Seq(Transfer)
      /\ \A u \in Slots' : (u \in Slots /\ transfers'[u] = transfers[u])
                          \/ (u \notin Slots /\ transfers'[u] = y)
  BY <1>1, <1>2, OneMore DEF WellFormed
<1>4. WellFormed'
  BY <1>2, <1>3 DEF WellFormed, KeyOf
<1>5. PageKnows' /\ ManifestTellsStored'
  BY <1>2, StoreKept
<1>6. PathsAreTaken' /\ AcknowledgedIsSaved'
  BY <1>1, <1>2, <1>3, PathsKept DEF Written
<1>7. NothingLost'
  BY <1>1, <1>2, <1>3, NothingLostKept
<1> QED
  BY <1>4, <1>5, <1>6, <1>7

LEMMA PartOfFile ==
  ASSUME NEW f \in File, NEW S \in SUBSET Chunks(f)
  PROVE  /\ IsFiniteSet(S) /\ Cardinality(S) \in Nat /\ Cardinality(S) <= Size[f]
         /\ Cardinality(S) = Size[f] <=> S = Chunks(f)
         /\ Cardinality(S) >= Size[f] <=> S = Chunks(f)
<1>1. Size[f] \in Nat
  BY FileAssumption
<1>2. IsFiniteSet(Chunks(f)) /\ Cardinality(Chunks(f)) = Size[f]
  <2>1. 1 \in Int /\ Size[f] \in Int
    BY <1>1
  <2>2. /\ IsFiniteSet(1..Size[f])
        /\ Cardinality(1..Size[f]) = IF 1 > Size[f] THEN 0 ELSE Size[f] - 1 + 1
    BY ONLY <2>1, FS_Interval, Zenon
  <2>3. Cardinality(1..Size[f]) = Size[f]
    BY ONLY <1>1, <2>2, SMT
  <2> QED
    BY <2>2, <2>3 DEF Chunks
<1>3. /\ IsFiniteSet(S) /\ Cardinality(S) <= Cardinality(Chunks(f))
      /\ Cardinality(Chunks(f)) = Cardinality(S) => Chunks(f) = S
  BY <1>2, FS_Subset
<1>4. Cardinality(S) \in Nat
  BY <1>3, FS_CardinalityType
<1> QED
  BY <1>1, <1>2, <1>3, <1>4

\* Which chunks are missing, the receiver says of chunks of the file.
LEMMA AnswerIInv ==
  ASSUME IInv, NEW t \in Slots, Answer(t)
  PROVE  IInv'
<1> DEFINE x == transfers[t]
<1>1. x \in Transfer
  BY DEF IInv, WellFormed, Slots
<1>2. x.stage = "query"
  BY DEF Answer
<1>3. PICK todo \in SUBSET Chunks(x.file) :
        transfers' = [transfers EXCEPT ![t] = [x EXCEPT !.stage = "answered", !.todo = todo]]
  <2>1. MissingRanges(<<x.sender, x.file>>) \in SUBSET Chunks(x.file)
    BY DEF MissingRanges
  <2> QED
    BY <2>1 DEF Answer
<1> DEFINE y == [x EXCEPT !.stage = "answered", !.todo = todo]
<1> HIDE DEF x
<1>4. x \in AnyTransfer /\ x.file \in File /\ Size[x.file] \in Nat /\ Chunks(x.file) \in SUBSET Nat
  BY <1>1, FieldsOf
<1>5. Cardinality(todo) \in Nat /\ Cardinality(todo) <= Size[x.file]
  BY <1>3, <1>4, PartOfFile
<1>6. x.wire = <<>> /\ x.count = 0
  BY <1>1, <1>2 DEF Transfer, Begun
<1>7. /\ y \in AnyTransfer /\ y.todo = todo /\ y.stage = "answered" /\ y.file = x.file
      /\ y.sender = x.sender /\ y.wire = <<>> /\ y.count = 0
  BY <1>3, <1>4, <1>6 DEF AnyTransfer, Stage
<1> HIDE DEF y
<1>8. y \in Transfer
  <2>1. Total(y) <= Size[y.file]
    BY <1>5, <1>7 DEF Total
  <2> QED
    BY <2>1, <1>3, <1>7, FreshTransfer
<1>9. /\ UNCHANGED <<nextId, memory, events, page, manifest, chunks, output, deleted, shared, faults>>
      /\ nextId' \in [Sender -> Nat] /\ faults' \in 0..MaxFaults
  BY DEF Answer, node, store, spent, IInv, WellFormed
<1>10. y.stage \notin Written /\ y.stage \notin {"sending", "sent"}
  BY <1>7 DEF Written
<1> QED
  BY <1>3, <1>7, <1>8, <1>9, <1>10, GoesOnIInv DEF x, y

\* A transfer with an answer sends what it names, and any can send everything.
LEMMA ConnectEffect ==
  ASSUME transfers \in Seq(Transfer), nextId \in [Sender -> Nat], NEW t \in Slots,
         NEW to \in Peers, Connect(t, to)
  PROVE  /\ transfers[t].stage \in {"query", "answered"}
         /\ nextId' = [nextId EXCEPT ![transfers[t].sender] = @ + 1]
         /\ UNCHANGED <<memory, events, page, manifest, chunks, output, deleted, shared, faults>>
         /\ \E y \in Transfer :
              /\ transfers' = [transfers EXCEPT ![t] = y]
              /\ y.sender = transfers[t].sender /\ y.file = transfers[t].file /\ y.stage = "sending"
              /\ y.id = nextId[y.sender]
              /\ Total(y) = Size[y.file] => Left(y) = Chunks(y.file)
<1> DEFINE x == transfers[t]
<1>1. x \in Transfer
  BY DEF Slots
<1> DEFINE sent == {Chunks(x.file)} \cup (IF x.stage = "answered" THEN {x.todo} ELSE {})
<1>2. PICK todo \in sent :
        transfers' = [transfers EXCEPT ![t].stage = "sending", ![t].todo = todo, ![t].to = to,
                                       ![t].own = (to = x.to \/ todo = Chunks(x.file)),
                                       ![t].id = nextId[x.sender]]
  <2>1. \E todo \in sent :
          transfers' = [transfers EXCEPT ![t].stage = "sending", ![t].todo = todo, ![t].to = to,
                                         ![t].own = (to = x.to \/ todo = Chunks(x.file)),
                                         ![t].id = nextId[x.sender]]
    BY Zenon DEF Connect
  <2> QED
    BY <2>1
<1> DEFINE y == [x EXCEPT !.stage = "sending", !.todo = todo, !.to = to,
                         !.own = (to = x.to \/ todo = Chunks(x.file)), !.id = nextId[x.sender]]
<1>3. /\ transfers' = [transfers EXCEPT ![t] = y] /\ x.stage \in {"query", "answered"}
      /\ nextId' = [nextId EXCEPT ![x.sender] = @ + 1]
  <2>1. transfers' = [transfers EXCEPT ![t] = y]
    BY <1>2
  <2>2. x.stage \in {"query", "answered"} /\ nextId' = AdvanceId(x.sender)
    BY Zenon DEF Connect
  <2> QED
    BY <2>1, <2>2 DEF AdvanceId
<1> HIDE DEF x
<1>4. /\ x \in AnyTransfer /\ x.file \in File /\ Size[x.file] \in Nat /\ Chunks(x.file) \in SUBSET Nat
      /\ x.sender \in Sender /\ x.todo \in SUBSET Chunks(x.file)
  BY <1>1, FieldsOf
<1>5. todo \in SUBSET Chunks(x.file)
  BY <1>2, <1>4
<1>6. /\ Cardinality(todo) \in Nat /\ Cardinality(todo) <= Size[x.file]
      /\ Cardinality(todo) = Size[x.file] => todo = Chunks(x.file)
  BY <1>4, <1>5, PartOfFile
<1>7. x.wire = <<>> /\ x.count = 0
  BY <1>1, <1>3 DEF Transfer, Begun
<1>8. nextId[x.sender] \in Nat
  BY <1>4
<1>9. /\ y \in AnyTransfer /\ y.todo = todo /\ y.stage = "sending" /\ y.file = x.file
      /\ y.sender = x.sender /\ y.wire = <<>> /\ y.count = 0 /\ y.id = nextId[x.sender]
  BY <1>4, <1>5, <1>7, <1>8 DEF AnyTransfer, Stage
<1> HIDE DEF y
<1>10. Total(y) = Cardinality(todo)
  BY <1>6, <1>9 DEF Total
<1>11. y \in Transfer
  BY <1>5, <1>6, <1>9, <1>10, FreshTransfer
<1>12. Total(y) = Size[y.file] => Left(y) = Chunks(y.file)
  BY <1>6, <1>9, <1>10 DEF Left
<1>13. UNCHANGED <<memory, events, page, manifest, chunks, output, deleted, shared, faults>>
  BY DEF Connect, node, store, spent
<1> QED
  BY <1>3, <1>9, <1>11, <1>12, <1>13 DEF x

\* The peer that was asked, or another one that the user has selected since.
LEMMA Connects ==
  ASSUME transfers \in Seq(Transfer), NEW t \in Slots,
         BeginSend(t) \/ \E to \in {"browser", "native"} : Redirect(t, to)
  PROVE  \E to \in Peers : Connect(t, to)
<1>1. transfers[t].to \in Peers
  <2>1. transfers[t] \in Transfer
    BY DEF Slots
  <2> QED
    BY <2>1, FieldsOf
<1> QED
  BY <1>1 DEF BeginSend, Redirect, Peers

LEMMA ConnectIInv ==
  ASSUME IInv, NEW t \in Slots, NEW to \in Peers, Connect(t, to)
  PROVE  IInv'
<1>1. transfers \in Seq(Transfer) /\ nextId \in [Sender -> Nat] /\ faults \in 0..MaxFaults
  BY DEF IInv, WellFormed
<1>2. PICK y \in Transfer :
        /\ transfers' = [transfers EXCEPT ![t] = y]
        /\ y.sender = transfers[t].sender /\ y.file = transfers[t].file /\ y.stage = "sending"
        /\ Total(y) = Size[y.file] => Left(y) = Chunks(y.file)
  BY <1>1, ConnectEffect
<1>3. /\ nextId' = [nextId EXCEPT ![transfers[t].sender] = @ + 1]
      /\ UNCHANGED <<memory, events, page, manifest, chunks, output, deleted, shared, faults>>
  BY <1>1, ConnectEffect
<1>4. nextId' \in [Sender -> Nat]
  <2>1. transfers[t].sender \in Sender
    BY <1>2, FieldsOf
  <2>2. nextId[transfers[t].sender] + 1 \in Nat
    BY <1>1, <2>1
  <2> QED
    BY <1>1, <1>3, <2>1, <2>2
<1>5. y.stage \notin Written
  BY <1>2 DEF Written
<1> QED
  BY <1>1, <1>2, <1>3, <1>4, <1>5, GoesOnIInv
LEMMA SendChunkIInv ==
  ASSUME IInv, NEW t \in Slots, SendChunk(t)
  PROVE  IInv'
<1> DEFINE x == transfers[t]
           i == Min(x.todo)
           y == [x EXCEPT !.todo = @ \ {i}, !.wire = Append(@, i)]
<1>1. x \in Transfer /\ nextId \in [Sender -> Nat] /\ faults \in 0..MaxFaults
  BY DEF IInv, WellFormed, Slots
<1>2. /\ x.stage = "sending" /\ x.todo # {} /\ transfers' = [transfers EXCEPT ![t] = y]
      /\ UNCHANGED <<nextId, memory, events, page, manifest, chunks, output, deleted, shared, faults>>
  BY DEF SendChunk, node, store, spent
<1>3. x.todo \in SUBSET Nat /\ IsFiniteSet(x.todo) /\ x \in AnyTransfer
  BY <1>1, FieldsOf
<1>4. i \in x.todo
  BY <1>2, <1>3, MinIsMember
<1> HIDE DEF i
<1>5. y \in Transfer /\ Total(y) = Total(x) /\ Left(y) = Left(x)
  BY <1>1, <1>2, <1>4, SendEffect
<1>6. /\ y.sender = x.sender /\ y.file = x.file /\ y.to = x.to /\ y.stage = "sending"
      /\ KeyOf(y) = KeyOf(x)
  BY <1>2, <1>3 DEF AnyTransfer, KeyOf
<1> HIDE DEF y
<1>7. (/\ y.to = "browser" /\ y.stage \in {"sending", "sent"} /\ Total(y) = Size[y.file]
       /\ KeyOf(y) \notin deleted /\ page.stage \notin {"dead", "stopped"})
        => \A j \in Chunks(y.file) \ Left(y) : Arrived(KeyOf(y), j, Len(events))
  BY <1>2, <1>5, <1>6 DEF IInv, NothingLost, WholeComes, ToldWhole
<1>8. y.stage \notin Written
  BY <1>6 DEF Written
<1> QED
  BY <1>1, <1>2, <1>5, <1>6, <1>7, <1>8, GoesOnIInv DEF x

\* Only the stage changes.
LEMMA StageEffect ==
  ASSUME NEW x \in Transfer, NEW stage \in Begun,
         stage \in {"sent", "chosen", "writing", "done"} => x.todo = {},
         stage \in {"chosen", "writing"} => x.to = "native"
  PROVE  LET y == [x EXCEPT !.stage = stage] IN
         /\ y \in Transfer /\ Total(y) = Total(x) /\ Left(y) = Left(x) /\ KeyOf(y) = KeyOf(x)
         /\ y.sender = x.sender /\ y.file = x.file /\ y.to = x.to /\ y.stage = stage
         /\ y.path = x.path /\ y.id = x.id
<1> DEFINE y == [x EXCEPT !.stage = stage]
<1>1. x \in AnyTransfer
  BY DEF Transfer
<1>2. /\ y \in AnyTransfer /\ y.sender = x.sender /\ y.file = x.file /\ y.to = x.to
      /\ y.stage = stage /\ y.path = x.path /\ y.id = x.id /\ y.todo = x.todo
      /\ y.wire = x.wire /\ y.count = x.count
  BY <1>1 DEF AnyTransfer, Begun
<1> HIDE DEF y
<1>3. Total(y) = Total(x) /\ Left(y) = Left(x) /\ KeyOf(y) = KeyOf(x)
  BY <1>2 DEF Total, Left, KeyOf
<1>4. y \in Transfer
  BY <1>2, <1>3 DEF Transfer
<1> QED
  BY <1>2, <1>3, <1>4 DEF y

LEMMA FinishSendIInv ==
  ASSUME IInv, NEW t \in Slots, FinishSend(t)
  PROVE  IInv'
<1> DEFINE x == transfers[t]
           y == [x EXCEPT !.stage = "sent"]
<1>1. x \in Transfer /\ nextId \in [Sender -> Nat] /\ faults \in 0..MaxFaults
  BY DEF IInv, WellFormed, Slots
<1>2. /\ x.stage = "sending" /\ x.todo = {} /\ transfers' = [transfers EXCEPT ![t] = y]
      /\ UNCHANGED <<nextId, memory, events, page, manifest, chunks, output, deleted, shared, faults>>
  BY DEF FinishSend, Goes, node, store, spent
<1>3. "sent" \in Begun /\ "sent" \notin {"chosen", "writing"}
  BY DEF Begun, Stage
<1>4. /\ y \in Transfer /\ Total(y) = Total(x) /\ Left(y) = Left(x) /\ KeyOf(y) = KeyOf(x)
      /\ y.sender = x.sender /\ y.file = x.file /\ y.to = x.to /\ y.stage = "sent"
  BY <1>1, <1>2, <1>3, StageEffect
<1> HIDE DEF y
<1>5. (/\ y.to = "browser" /\ y.stage \in {"sending", "sent"} /\ Total(y) = Size[y.file]
       /\ KeyOf(y) \notin deleted /\ page.stage \notin {"dead", "stopped"})
        => \A j \in Chunks(y.file) \ Left(y) : Arrived(KeyOf(y), j, Len(events))
  BY <1>2, <1>4 DEF IInv, NothingLost, WholeComes, ToldWhole
<1>6. y.stage \notin Written
  BY <1>4 DEF Written
<1> QED
  BY <1>1, <1>2, <1>4, <1>5, <1>6, GoesOnIInv DEF x

LEMMA DisconnectIInv ==
  ASSUME IInv, NEW t \in Slots, Disconnect(t)
  PROVE  IInv'
<1> DEFINE x == transfers[t]
           y == [x EXCEPT !.stage = "failed"]
<1>1. x \in Transfer /\ nextId \in [Sender -> Nat] /\ faults \in 0..MaxFaults
  BY DEF IInv, WellFormed, Slots
<1>2. /\ transfers' = [transfers EXCEPT ![t] = y] /\ faults < MaxFaults /\ faults' = faults + 1
      /\ UNCHANGED <<nextId, memory, events, page, manifest, chunks, output, deleted, shared>>
  BY DEF Disconnect, Fault, Goes, node, store
<1>3. "failed" \in Begun /\ "failed" \notin {"sent", "chosen", "writing", "done"}
  BY DEF Begun, Stage
<1>4. y \in Transfer /\ y.sender = x.sender /\ y.file = x.file /\ y.stage = "failed"
  BY <1>1, <1>3, StageEffect
<1> HIDE DEF y
<1>5. faults' \in 0..MaxFaults
  BY <1>1, <1>2, TransferBound
<1>6. y.stage \notin Written /\ y.stage \notin {"sending", "sent"}
  BY <1>4 DEF Written
<1> QED
  BY <1>1, <1>2, <1>4, <1>5, <1>6, GoesOnIInv DEF x

-----------------------------------------------------------------------------
(* The receiving browser                                                     *)

\* An event joins the queue.
LEMMA MoreArrives ==
  ASSUME events \in Seq(Event), NEW e \in Event, events' = Append(events, e), UNCHANGED <<page, chunks>>
  PROVE  /\ events' \in Seq(Event) /\ Len(events') = Len(events) + 1 /\ Len(events) \in Nat
         /\ DOMAIN events' = DOMAIN events \cup {Len(events) + 1} /\ Len(events) + 1 \notin DOMAIN events
         /\ \A n \in DOMAIN events : events'[n] = events[n]
         /\ events'[Len(events) + 1] = e
         /\ \A k, i : \A n \in 0..Len(events) : Arrived(k, i, n) => Arrived(k, i, n)'
         /\ \A k, i : Arrived(k, i, Len(events)) => Arrived(k, i, Len(events))'
         /\ e.kind = "chunk" =>
              \A k, i : k = KeyOf(e) /\ i = e.chunk => Arrived(k, i, Len(events))'
<1>1. /\ events' \in Seq(Event) /\ Len(events') = Len(events) + 1 /\ Len(events) \in Nat
      /\ DOMAIN events = 1..Len(events) /\ DOMAIN events' = 1..(Len(events) + 1)
      /\ \A n \in DOMAIN events : events'[n] = events[n]
      /\ events'[Len(events) + 1] = e
  OBVIOUS
<1>2. \A k, i : (i \in Stored(k))' = (i \in Stored(k)) /\ Holds(k, i)' = Holds(k, i)
  BY DEF Stored, Holds, KeyOf
<1>3. \A k, i : \A n \in 0..Len(events) : Announced(k, i, n) => Announced(k, i, n)'
  BY <1>1 DEF Announced, KeyOf
<1>4. \A k, i : Announced(k, i, Len(events)) => Announced(k, i, Len(events))'
  BY <1>1 DEF Announced, KeyOf
<1>5. e.kind = "chunk" => \A k, i : k = KeyOf(e) /\ i = e.chunk => Announced(k, i, Len(events))'
  BY <1>1 DEF Announced, KeyOf
<1> QED
  BY <1>1, <1>2, <1>3, <1>4, <1>5 DEF Arrived

\* A chunk leaves the connection for the queue.
LEMMA ReceiveChunkIInv ==
  ASSUME IInv, NEW t \in Slots, ReceiveChunk(t)
  PROVE  IInv'
<1> USE DEF IInv
<1> DEFINE x == transfers[t]
           i == Head(x.wire)
           y == [x EXCEPT !.wire = Tail(@), !.count = @ + 1]
           e == EventOf(t, "chunk", i)
<1>1. x \in Transfer /\ x \in AnyTransfer
  BY FieldsOf DEF WellFormed, Slots
<1>2. /\ x.to = "browser" /\ x.stage \in {"sending", "sent"} /\ x.wire # <<>>
      /\ memory' = {c \in memory : <<c[1], c[2]>> # <<x.id, i>>} \cup {<<x.id, i, x.file>>}
      /\ events' = Append(events, e) /\ transfers' = [transfers EXCEPT ![t] = y]
      /\ UNCHANGED <<nextId, page, manifest, chunks, output, shared, deleted, faults>>
  BY DEF ReceiveChunk, store, spent
<1>3. e.kind = "chunk" /\ e.chunk = i /\ e.file = x.file /\ e.sender = x.sender /\ KeyOf(e) = KeyOf(x)
  BY DEF EventOf, KeyOf
<1>4. /\ y \in Transfer /\ Total(y) = Total(x) /\ i \in Chunks(x.file)
      /\ Left(x) = Left(y) \cup {i}
  BY <1>1, <1>2, ReceiveEffect
<1>5. /\ y.sender = x.sender /\ y.file = x.file /\ y.to = "browser" /\ y.stage = x.stage
      /\ KeyOf(y) = KeyOf(x)
  BY <1>1, <1>2 DEF AnyTransfer, KeyOf
<1>6. x.id \in Nat /\ x.file \in File /\ x.sender \in Sender /\ Chunks(x.file) \subseteq Nat
  BY <1>1, FieldsOf
<1>7. e \in Event
  BY <1>4, <1>6 DEF EventOf, Event
<1> HIDE DEF y, i, e
<1>8. /\ transfers' \in Seq(Transfer) /\ Slots' = Slots
      /\ transfers'[t] = y /\ \A u \in Slots : u # t => transfers'[u] = transfers[u]
  BY <1>2, <1>4, OneChanges DEF WellFormed
<1>9. /\ events' \in Seq(Event) /\ Len(events') = Len(events) + 1 /\ Len(events) \in Nat
      /\ DOMAIN events' = DOMAIN events \cup {Len(events) + 1} /\ Len(events) + 1 \notin DOMAIN events
      /\ \A n \in DOMAIN events : events'[n] = events[n]
      /\ events'[Len(events) + 1] = e
      /\ \A k, j : \A n \in 0..Len(events) : Arrived(k, j, n) => Arrived(k, j, n)'
      /\ \A k, j : Arrived(k, j, Len(events)) => Arrived(k, j, Len(events))'
      /\ \A k, j : k = KeyOf(e) /\ j = e.chunk => Arrived(k, j, Len(events))'
  BY <1>2, <1>3, <1>7, MoreArrives DEF WellFormed
<1>10. WellFormed'
  <2>1. memory' \subseteq Nat \X Nat \X File /\ \A c \in memory' : c[2] \in Chunks(c[3])
    BY <1>2, <1>4, <1>6 DEF WellFormed
  <2> QED
    BY <1>2, <1>8, <1>9, <2>1 DEF WellFormed, KeyOf
<1>11. PageKnows' /\ ManifestTellsStored'
  BY <1>2, StoreKept
<1>12. PathsAreTaken' /\ AcknowledgedIsSaved'
  <2>1. \A u \in Slots' : \/ u \in Slots /\ transfers'[u] = transfers[u]
                          \/ transfers'[u].to = "browser"
    BY <1>5, <1>8
  <2> QED
    BY <1>2, <1>8, <2>1, PathsKept
<1>13. NothingLost'
  <2> SUFFICES ASSUME page.stage \notin {"dead", "stopped"} PROVE NothingLost'
    BY <1>2 DEF NothingLost, WholeComes, ToldWhole
  <2>1. ASSUME NEW u \in Slots, transfers'[u].to = "browser",
               transfers'[u].stage \in {"sending", "sent"},
               Total(transfers'[u]) = Size[transfers'[u].file], KeyOf(transfers'[u]) \notin deleted,
               NEW j \in Chunks(transfers'[u].file) \ Left(transfers'[u]),
               NEW k, k = KeyOf(transfers'[u])
        PROVE  Arrived(k, j, Len(events))'
    <3>1. CASE u = t
      <4>1. j = i \/ j \notin Left(x)
        BY <1>4, <1>8, <2>1, <3>1
      <4>2. CASE j = i
        BY <1>3, <1>5, <1>8, <1>9, <2>1, <3>1, <4>2
      <4>3. CASE j \notin Left(x)
        <5>1. Arrived(k, j, Len(events))
          <6>1. /\ x.to = "browser" /\ x.stage \in {"sending", "sent"} /\ Total(x) = Size[x.file]
                /\ KeyOf(x) \notin deleted /\ j \in Chunks(x.file) \ Left(x) /\ k = KeyOf(x)
            BY <1>2, <1>4, <1>5, <1>8, <2>1, <3>1, <4>3
          <6>2. WholeComes(t)
            BY DEF NothingLost
          <6> QED
            BY <1>2, <6>1, <6>2 DEF WholeComes
        <5> QED
          BY <1>5, <1>8, <1>9, <3>1, <5>1
      <4> QED
        BY <4>1, <4>2, <4>3
    <3>2. CASE u # t
      <4>1. Arrived(k, j, Len(events))
        BY <1>8, <2>1, <3>2 DEF NothingLost, WholeComes, ToldWhole
      <4> QED
        BY <1>8, <1>9, <3>2, <4>1
    <3> QED
      BY <3>1, <3>2
  <2>2. ASSUME NEW n \in DOMAIN events', events'[n].kind = "completed",
               KeyOf(events'[n]) \notin deleted, NEW j \in Chunks(events'[n].file),
               NEW k, k = KeyOf(events'[n])
        PROVE  Arrived(k, j, n)'
    <3>1. n \in DOMAIN events /\ events'[n] = events[n] /\ n \in 0..Len(events)
      BY <1>3, <1>9, <2>2 DEF WellFormed
    <3>2. Arrived(k, j, n)
      BY <2>2, <3>1 DEF NothingLost, WholeComes, ToldWhole
    <3> QED
      BY <1>9, <3>1, <3>2
  <2> QED
    <3>1. \A u \in Slots' : WholeComes(u)'
      <4>1. ASSUME NEW u \in Slots PROVE WholeComes(u)'
        BY <1>2, <1>8, <2>1 DEF WholeComes
      <4> QED
        BY <1>8, <4>1
    <3>2. \A n \in DOMAIN events' : ToldWhole(n)'
      BY <1>2, <2>2 DEF ToldWhole
    <3> QED
      BY <3>1, <3>2 DEF NothingLost
<1> QED
  BY <1>10, <1>11, <1>12, <1>13

\* The page is told that a file is complete when a connection has brought all of it.
LEMMA EndReceiveIInv ==
  ASSUME IInv, NEW t \in Slots, EndReceive(t)
  PROVE  IInv'
<1> USE DEF IInv
<1> DEFINE x == transfers[t]
           y == [x EXCEPT !.stage = "done"]
           e == EventOf(t, "completed", 0)
<1>1. x \in Transfer
  BY DEF WellFormed, Slots
<1>2. /\ x.to = "browser" /\ x.stage = "sent" /\ x.wire = <<>>
      /\ transfers' = [transfers EXCEPT ![t] = y]
      /\ events' = IF Completes(t) THEN Append(events, e) ELSE events
      /\ UNCHANGED <<nextId, memory, page, manifest, chunks, output, shared, deleted, faults>>
  BY DEF EndReceive, At, Goes, store, spent
<1>3. x.todo = {} /\ "done" \in Begun /\ "done" \notin {"chosen", "writing"}
  BY <1>1, <1>2 DEF Transfer, Begun, Stage
<1>4. /\ y \in Transfer /\ y.sender = x.sender /\ y.file = x.file /\ y.to = "browser" /\ y.stage = "done"
  BY <1>1, <1>2, <1>3, StageEffect
<1>5. /\ x.count \in Nat /\ Size[x.file] \in Nat /\ Total(x) <= Size[x.file]
      /\ x.id \in Nat /\ x.file \in File /\ x.sender \in Sender
  BY <1>1, FieldsOf
<1> HIDE DEF y
<1>6. /\ transfers' \in Seq(Transfer) /\ Slots' = Slots
      /\ transfers'[t] = y /\ \A u \in Slots : u # t => transfers'[u] = transfers[u]
  BY <1>2, <1>4, OneChanges DEF WellFormed
<1>7. PageKnows' /\ ManifestTellsStored'
  BY <1>2, StoreKept
<1>8. PathsAreTaken' /\ AcknowledgedIsSaved'
  <2>1. \A u \in Slots' : \/ u \in Slots /\ transfers'[u] = transfers[u]
                          \/ transfers'[u].to = "browser"
    BY <1>4, <1>6
  <2> QED
    BY <1>2, <1>6, <2>1, PathsKept
<1>9. \A u \in Slots : transfers'[u].stage \in {"sending", "sent"} => transfers'[u] = transfers[u]
  BY <1>4, <1>6
<1>10. CASE Completes(t)
  <2>1. e.kind = "completed" /\ e.file = x.file /\ KeyOf(e) = KeyOf(x) /\ e \in Event
    BY <1>5 DEF EventOf, KeyOf, Event
  <2> HIDE DEF e
  <2>2. /\ events' \in Seq(Event) /\ Len(events') = Len(events) + 1 /\ Len(events) \in Nat
        /\ DOMAIN events' = DOMAIN events \cup {Len(events) + 1} /\ Len(events) + 1 \notin DOMAIN events
        /\ \A n \in DOMAIN events : events'[n] = events[n]
        /\ events'[Len(events) + 1] = e
        /\ \A k, j : \A n \in 0..Len(events) : Arrived(k, j, n) => Arrived(k, j, n)'
        /\ \A k, j : Arrived(k, j, Len(events)) => Arrived(k, j, Len(events))'
    BY <1>2, <1>10, <2>1, MoreArrives DEF WellFormed
  <2>3. WellFormed'
    BY <1>2, <1>6, <2>2 DEF WellFormed, KeyOf
  <2>4. Total(x) = Size[x.file] /\ Left(x) = {}
    <3>1. Cardinality(x.todo) = 0 /\ Len(x.wire) = 0
      BY <1>2, <1>3, FS_EmptySet
    <3> QED
      BY <1>2, <1>3, <1>5, <1>10, <3>1 DEF Completes, Total, Left
  <2>5. NothingLost'
    <3> SUFFICES ASSUME page.stage \notin {"dead", "stopped"} PROVE NothingLost'
      BY <1>2 DEF NothingLost, WholeComes, ToldWhole
    <3>1. KeyOf(x) \notin deleted => \A j \in Chunks(x.file) : Arrived(KeyOf(x), j, Len(events))
      BY <1>2, <2>4 DEF NothingLost, WholeComes, ToldWhole
    <3>2. ASSUME NEW u \in Slots, transfers'[u].to = "browser",
                 transfers'[u].stage \in {"sending", "sent"},
                 Total(transfers'[u]) = Size[transfers'[u].file], KeyOf(transfers'[u]) \notin deleted,
                 NEW j \in Chunks(transfers'[u].file) \ Left(transfers'[u]),
                 NEW k, k = KeyOf(transfers'[u])
          PROVE  Arrived(k, j, Len(events))'
      <4>1. transfers'[u] = transfers[u]
        BY <1>9, <3>2
      <4>2. Arrived(k, j, Len(events))
        BY <3>2, <4>1 DEF NothingLost, WholeComes, ToldWhole
      <4> QED
        BY <2>2, <4>1, <4>2
    <3>3. ASSUME NEW n \in DOMAIN events', events'[n].kind = "completed",
                 KeyOf(events'[n]) \notin deleted, NEW j \in Chunks(events'[n].file),
                 NEW k, k = KeyOf(events'[n])
          PROVE  Arrived(k, j, n)'
      <4>1. CASE n \in DOMAIN events
        <5>1. events'[n] = events[n] /\ n \in 0..Len(events)
          BY <2>2, <4>1 DEF WellFormed
        <5>2. Arrived(k, j, n)
          BY <3>3, <4>1, <5>1 DEF NothingLost, WholeComes, ToldWhole
        <5> QED
          BY <2>2, <5>1, <5>2
      <4>2. CASE n = Len(events) + 1
        <5>1. Arrived(k, j, Len(events))
          BY <2>1, <2>2, <3>1, <3>3, <4>2
        <5> QED
          BY <2>1, <2>2, <4>2, <5>1
      <4> QED
        BY <2>2, <4>1, <4>2
    <3> QED
      <4>1. \A u \in Slots' : WholeComes(u)'
        <5>1. ASSUME NEW u \in Slots PROVE WholeComes(u)'
          BY <1>2, <1>6, <3>2 DEF WholeComes
        <5> QED
          BY <1>6, <5>1
      <4>2. \A n \in DOMAIN events' : ToldWhole(n)'
        BY <1>2, <3>3 DEF ToldWhole
      <4> QED
        BY <4>1, <4>2 DEF NothingLost
  <2> QED
    BY <1>7, <1>8, <2>3, <2>5
<1>11. CASE ~Completes(t)
  <2>1. events' = events
    BY <1>2, <1>11
  <2>2. WellFormed'
    BY <1>2, <1>6, <2>1 DEF WellFormed, KeyOf
  <2>3. NothingLost'
    BY <1>2, <1>6, <1>9, <2>1, NothingLostKept
  <2> QED
    BY <1>7, <1>8, <2>2, <2>3
<1> QED
  BY <1>10, <1>11

\* The queue is as long as it was or an event shorter, and nothing is lost on the way.
LEMMA QueueMoves ==
  ASSUME WellFormed, NothingLost, UNCHANGED <<transfers, deleted>>, page.stage \notin {"dead", "stopped"},
         NEW d \in {0, 1}, events' \in Seq(Event), Len(events') = Len(events) - d,
         \A n \in DOMAIN events' : n + d \in DOMAIN events /\ events'[n] = events[n + d],
         \A k \in Keys : \A i : \A n \in d..Len(events) : \A m \in Nat :
           Arrived(k, i, n) /\ n = m + d => Arrived(k, i, m)',
         d <= Len(events)
  PROVE  NothingLost'
<1> USE DEF WellFormed
<1>1. Len(events) \in Nat /\ Len(events') \in Nat /\ Slots' = Slots
      /\ DOMAIN events' = 1..Len(events') /\ DOMAIN events = 1..Len(events)
  BY DEF Slots
<1>2. ASSUME NEW t \in Slots, transfers[t].to = "browser", transfers[t].stage \in {"sending", "sent"},
             Total(transfers[t]) = Size[transfers[t].file], KeyOf(transfers[t]) \notin deleted,
             NEW i \in Chunks(transfers[t].file) \ Left(transfers[t]),
             NEW k, k = KeyOf(transfers[t])
      PROVE  Arrived(k, i, Len(events))'
  <2>1. Arrived(k, i, Len(events))
    BY <1>2 DEF NothingLost, WholeComes, ToldWhole
  <2>2. k \in Keys
    <3>1. transfers[t] \in Transfer
      BY DEF Slots
    <3> QED
      BY <1>2, <3>1, FieldsOf
  <2>3. Len(events) \in d..Len(events) /\ Len(events) = Len(events') + d
    BY <1>1
  <2> QED
    BY <1>1, <2>1, <2>2, <2>3
<1>3. ASSUME NEW n \in DOMAIN events', events'[n].kind = "completed",
             KeyOf(events'[n]) \notin deleted, NEW i \in Chunks(events'[n].file),
             NEW k, k = KeyOf(events'[n])
      PROVE  Arrived(k, i, n)'
  <2>1. n + d \in DOMAIN events /\ events'[n] = events[n + d] /\ n \in Nat /\ n + d \in d..Len(events)
    BY <1>1
  <2>2. Arrived(k, i, n + d)
    BY <1>3, <2>1 DEF NothingLost, WholeComes, ToldWhole
  <2>3. k \in Keys
    <3>1. events'[n] \in Event
      BY <1>1
    <3> QED
      BY <1>3, <3>1 DEF KeyOf, Keys, Event
  <2> QED
    BY <2>1, <2>2, <2>3
<1> QED
  BY <1>1, <1>2, <1>3 DEF NothingLost, WholeComes, ToldWhole

\* A page that takes an event still has the chunk that event was about, if any.
LEMMA TakesEvent ==
  ASSUME events \in Seq(Event), events # <<>>, events' = Tail(events),
         \A k \in Keys : \A i : i \in Stored(k) => (i \in Stored(k))',
         \A k \in Keys : \A i : Holds(k, i) => Holds(k, i)',
         Head(events).kind = "chunk" =>
           \A k, i : k = KeyOf(Head(events)) /\ i = Head(events).chunk => Holds(k, i)'
  PROVE  /\ events' \in Seq(Event) /\ Len(events') = Len(events) - 1 /\ 1 <= Len(events)
         /\ \A n \in DOMAIN events' : n + 1 \in DOMAIN events /\ events'[n] = events[n + 1]
         /\ \A k \in Keys : \A i : \A n \in 1..Len(events) : \A m \in Nat :
              Arrived(k, i, n) /\ n = m + 1 => Arrived(k, i, m)'
<1>1. /\ Len(events) \in Nat /\ Len(events) > 0
      /\ Tail(events) \in Seq(Event) /\ Len(Tail(events)) = Len(events) - 1
      /\ DOMAIN Tail(events) = 1..(Len(events) - 1) /\ DOMAIN events = 1..Len(events)
      /\ \A m \in 1..(Len(events) - 1) : Tail(events)[m] = events[m + 1]
      /\ Head(events) = events[1]
  BY TailFacts
<1>2. \A n \in DOMAIN events' : n + 1 \in DOMAIN events /\ events'[n] = events[n + 1]
  BY <1>1
<1>3. ASSUME NEW k \in Keys, NEW i, NEW n \in 1..Len(events), NEW m \in Nat, n = m + 1,
             Announced(k, i, n)
      PROVE  Holds(k, i)' \/ Announced(k, i, m)'
  <2>1. PICK j \in 1..n : events[j].kind = "chunk" /\ KeyOf(events[j]) = k /\ events[j].chunk = i
    BY <1>3 DEF Announced
  <2>2. CASE j = 1
    BY <1>1, <2>1, <2>2
  <2>3. CASE j # 1
    <3>1. j - 1 \in 1..m /\ j - 1 \in 1..(Len(events) - 1) /\ (j - 1) + 1 = j
      BY <1>1, <1>3, <2>3
    <3>2. events'[j - 1] = events[j]
      BY <1>1, <3>1
    <3>3. Announced(k, i, m)'
      BY <2>1, <3>1, <3>2 DEF Announced, KeyOf
    <3> QED
      BY <3>3
  <2> QED
    BY <2>2, <2>3
<1>4. \A k \in Keys : \A i : \A n \in 1..Len(events) : \A m \in Nat :
        Arrived(k, i, n) /\ n = m + 1 => Arrived(k, i, m)'
  BY <1>3 DEF Arrived
<1> QED
  BY <1>1, <1>2, <1>4

LEMMA TakeChunkIInv ==
  ASSUME IInv, TakeChunk
  PROVE  IInv'
<1> USE DEF IInv
<1> DEFINE e == Head(events)
           taken == {c \in memory : c[1] = e.id /\ c[2] = e.chunk}
<1>1. /\ page.stage = "idle" /\ events # <<>> /\ e.kind = "chunk" /\ events' = Tail(events)
      /\ UNCHANGED <<transfers, nextId, manifest, chunks, output, deleted, shared, faults>>
      /\ \/ page' = [Idle EXCEPT !.stage = "dead"] /\ memory' = memory
         \/ /\ taken # {} /\ memory' = memory \ taken
            /\ page' = [Idle EXCEPT !.stage = "manifest", !.event = e,
                                    !.bytes = (CHOOSE c \in taken : TRUE)[3]]
  BY DEF TakeChunk, store, spent
<1>2. e \in Event /\ Tail(events) \in Seq(Event)
  BY <1>1 DEF WellFormed
<1>3. transfers' \in Seq(Transfer) /\ memory' \subseteq memory
  BY <1>1 DEF WellFormed
<1>4. PathsAreTaken' /\ AcknowledgedIsSaved'
  BY <1>1, <1>3, PathsKept DEF Slots
<1>5. \A k : Stored(k)' = Stored(k)
  BY <1>1 DEF Stored
<1>6. ManifestTellsStored'
  BY <1>1, <1>5 DEF ManifestTellsStored
<1>7. CASE page' = [Idle EXCEPT !.stage = "dead"]
  <2>1. page'.stage = "dead"
    BY <1>7 DEF Idle
  <2>2. page' \in [stage : Held \cup {"idle", "dead", "stopped"}, event : Event \cup {None},
                   bytes : File \cup {None}, count : Nat, had : BOOLEAN]
    BY <1>7 DEF Idle
  <2>3. WellFormed'
    BY <1>1, <1>2, <1>3, <2>1, <2>2 DEF WellFormed, Held
  <2>4. PageKnows' /\ NothingLost'
    BY <1>1, <1>5, <2>1 DEF PageKnows, NothingLost, WholeComes, ToldWhole
  <2> QED
    BY <1>4, <1>6, <2>3, <2>4
<1>8. CASE /\ taken # {}
           /\ page' = [Idle EXCEPT !.stage = "manifest", !.event = e,
                                   !.bytes = (CHOOSE c \in taken : TRUE)[3]]
  <2>1. (CHOOSE c \in taken : TRUE)[3] \in File
    BY <1>8 DEF WellFormed
  <2> HIDE DEF taken
  <2>2. /\ page' \in [stage : Held \cup {"idle", "dead", "stopped"}, event : Event \cup {None},
                      bytes : File \cup {None}, count : Nat, had : BOOLEAN]
        /\ page'.stage = "manifest" /\ page'.event = e /\ page'.bytes \in File
    BY <1>2, <1>8, <2>1 DEF Idle, Held
  <2>3. WellFormed'
    BY <1>1, <1>2, <1>3, <2>2 DEF WellFormed
  <2>4. PageKnows'
    BY <1>1, <1>5, <2>2 DEF PageKnows
  <2>5. NothingLost'
    <3>1. \A k, i : k = KeyOf(e) /\ i = e.chunk => Holds(k, i)'
      BY <2>2 DEF Holds, Held, KeyOf
    <3>2. \A k, i : ~Holds(k, i)
      BY <1>1 DEF Holds, Held
    <3>3. /\ events' \in Seq(Event) /\ Len(events') = Len(events) - 1 /\ 1 <= Len(events)
          /\ \A n \in DOMAIN events' : n + 1 \in DOMAIN events /\ events'[n] = events[n + 1]
          /\ \A k \in Keys : \A i : \A n \in 1..Len(events) : \A m \in Nat :
               Arrived(k, i, n) /\ n = m + 1 => Arrived(k, i, m)'
      BY <1>1, <1>5, <3>1, <3>2, TakesEvent DEF WellFormed
    <3> QED
      BY <1>1, <3>3, QueueMoves
  <2> QED
    BY <1>4, <1>6, <2>3, <2>4, <2>5
<1> QED
  BY <1>1, <1>7, <1>8
LEMMA StoredType ==
  ASSUME WellFormed, NEW k \in Keys
  PROVE  /\ k[2] \in File /\ Stored(k) \in SUBSET Chunks(k[2])
         /\ IsFiniteSet(Stored(k)) /\ Cardinality(Stored(k)) \in Nat
         /\ Cardinality(Stored(k)) >= Size[k[2]] <=> Stored(k) = Chunks(k[2])
<1>1. k[2] \in File /\ Stored(k) \in SUBSET Chunks(k[2])
  BY DEF Keys, Stored
<1> QED
  BY <1>1, PartOfFile

LEMMA HeldEvent ==
  ASSUME WellFormed, page.stage \in Held
  PROVE  /\ page.event \in Event /\ page.event.kind = "chunk" /\ page.bytes \in File
         /\ KeyOf(page.event) \in Keys /\ KeyOf(page.event)[2] = page.event.file
         /\ page.event.chunk \in Chunks(page.event.file)
<1>1. page.event \in Event /\ page.event.kind = "chunk" /\ page.bytes \in File
  BY DEF WellFormed
<1> QED
  BY <1>1 DEF Event, KeyOf, Keys

\* The page learns something of the file whose chunk it holds.
LEMMA LoadsIInv ==
  ASSUME IInv, LoadManifest \/ LoadChunk
  PROVE  IInv'
<1> USE DEF IInv
<1> DEFINE k == KeyOf(page.event)
<1>1. /\ page.stage \in Held
      /\ UNCHANGED <<transfers, nextId, memory, events, manifest, chunks, output, deleted, shared, faults>>
  BY DEF LoadManifest, LoadChunk, store, spent, Held
<1>2. k \in Keys /\ page.event \in Event /\ page.event.kind = "chunk" /\ page.bytes \in File
  BY <1>1, HeldEvent
<1>3. \A l : Stored(l)' = Stored(l)
  BY <1>1 DEF Stored
<1>4. Cardinality(Stored(k)) \in Nat /\ Cardinality({}) = 0
  BY <1>2, StoredType, FS_EmptySet
<1>5. /\ page'.stage \in {"chunk", "store"} /\ page'.event = page.event /\ page'.bytes = page.bytes
      /\ page' \in [stage : Held \cup {"idle", "dead", "stopped"}, event : Event \cup {None},
                    bytes : File \cup {None}, count : Nat, had : BOOLEAN]
      /\ k \notin deleted => page'.count = Cardinality(Stored(k))
      /\ page'.stage = "store" /\ k \notin deleted => (page'.had <=> page.event.chunk \in Stored(k))
  <2>1. CASE LoadManifest
    <3> DEFINE n == IF manifest[k] = None THEN 0 ELSE manifest[k].bytes
    <3>1. page' = [page EXCEPT !.stage = "chunk", !.count = n]
      BY <2>1 DEF LoadManifest
    <3>2. n \in Nat
      BY <1>2 DEF WellFormed, Manifest
    <3>3. k \notin deleted => n = Cardinality(Stored(k))
      BY <1>2, <1>4 DEF ManifestTellsStored, PageKnows
    <3> HIDE DEF n, k
    <3> QED
      BY <3>1, <3>2, <3>3 DEF WellFormed, Held
  <2>2. CASE LoadChunk
    <3>1. page.stage = "chunk"
          /\ page' = [page EXCEPT !.stage = "store", !.had = chunks[k][page.event.chunk] # None]
      BY <2>2 DEF LoadChunk
    <3>2. chunks[k][page.event.chunk] # None <=> page.event.chunk \in Stored(k)
      BY <1>1, HeldEvent DEF Stored
    <3>3. k \notin deleted => page.count = Cardinality(Stored(k))
      BY <3>1 DEF PageKnows
    <3> HIDE DEF k
    <3> QED
      BY <3>1, <3>2, <3>3 DEF WellFormed, Held
  <2> QED
    BY <2>1, <2>2
<1>6. WellFormed'
  BY <1>1, <1>2, <1>5 DEF WellFormed, Held
<1>7. PageKnows'
  BY <1>1, <1>3, <1>5 DEF PageKnows, KeyOf
<1>8. ManifestTellsStored'
  BY <1>1, <1>3 DEF ManifestTellsStored
<1>9. PathsAreTaken' /\ AcknowledgedIsSaved'
  BY <1>1, <1>6, PathsKept DEF Slots, WellFormed
<1>10. NothingLost'
  <2>1. \A l, i : Holds(l, i)' = Holds(l, i)
    BY <1>1, <1>5 DEF Holds, Held, KeyOf
  <2>2. \A l, i, n : Arrived(l, i, n)' = Arrived(l, i, n)
    BY <1>1, <1>3, <2>1 DEF Arrived, Announced, KeyOf
  <2>3. events \in Seq(Event) /\ Len(events) \in Nat /\ page.stage \notin {"dead", "stopped"}
    BY <1>1 DEF WellFormed, Held
  <2>4. \A l \in Keys : \A i : \A n \in 0..Len(events) : \A m \in Nat :
          Arrived(l, i, n) /\ n = m + 0 => Arrived(l, i, m)'
    BY <2>2
  <2> QED
    BY <1>1, <2>3, <2>4, QueueMoves
<1> QED
  BY <1>6, <1>7, <1>8, <1>9, <1>10

\* Manifest and chunk go into the store together.
LEMMA StoreChunkIInv ==
  ASSUME IInv, StoreChunk
  PROVE  IInv'
<1> USE DEF IInv
<1>1. PICK k \in Keys : k = KeyOf(page.event)
  BY HeldEvent DEF StoreChunk, Held
<1>2. PICK i \in Chunks(k[2]) : i = page.event.chunk
  BY <1>1, HeldEvent DEF StoreChunk, Held
<1>3. PICK bytes \in File : bytes = page.bytes
  BY HeldEvent DEF StoreChunk, Held
<1>4. PICK n \in Nat : n = CountNew(page.count, page.had)
  BY DEF WellFormed, CountNew
<1> DEFINE entry == [bytes |-> n, completed |-> n >= Size[k[2]]]
<1>5. /\ page.stage = "store" /\ page' = Idle
      /\ manifest' = [manifest EXCEPT ![k] = entry]
      /\ chunks' = [chunks EXCEPT ![k][i] = bytes]
      /\ UNCHANGED <<transfers, nextId, memory, events, output, deleted, shared, faults>>
  BY <1>1, <1>2, <1>3, <1>4 DEF StoreChunk, spent
<1>6. k[2] \in File /\ Size[k[2]] \in Nat
  BY FileAssumption DEF Keys
<1>7. entry \in Manifest /\ entry # None /\ bytes # None
  <2>1. entry \in [bytes : Nat, completed : BOOLEAN]
    BY <1>6
  <2> HIDE DEF entry
  <2> QED
    BY <2>1, NoneAssumption DEF Manifest
<1>8. /\ DOMAIN chunks' = Keys
      /\ chunks'[k] = [chunks[k] EXCEPT ![i] = bytes]
      /\ \A l \in Keys : l # k => chunks'[l] = chunks[l]
  BY <1>5 DEF WellFormed
<1>9. /\ manifest' \in [Keys -> Manifest \cup {None}] /\ manifest'[k] = entry
      /\ \A l \in Keys : l # k => manifest'[l] = manifest[l]
  BY <1>5, <1>7 DEF WellFormed
<1>10. \A l \in Keys : chunks'[l] \in [Chunks(l[2]) -> File \cup {None}]
  <2>1. chunks[k] \in [Chunks(k[2]) -> File \cup {None}]
    BY DEF WellFormed
  <2>2. chunks'[k] \in [Chunks(k[2]) -> File \cup {None}]
    BY <1>8, <2>1
  <2> QED
    BY <1>8, <2>2 DEF WellFormed
<1>11. Stored(k)' = Stored(k) \cup {i} /\ \A l \in Keys : l # k => Stored(l)' = Stored(l)
  <2>1. \A j \in Chunks(k[2]) : chunks'[k][j] = IF j = i THEN bytes ELSE chunks[k][j]
    BY <1>8 DEF WellFormed
  <2> QED
    BY <1>7, <1>8, <2>1 DEF Stored
<1>12. WellFormed'
  <2>1. Idle \in [stage : Held \cup {"idle", "dead", "stopped"}, event : Event \cup {None},
                  bytes : File \cup {None}, count : Nat, had : BOOLEAN] /\ Idle.stage = "idle"
    BY DEF Idle
  <2> QED
    BY <1>5, <1>8, <1>9, <1>10, <2>1 DEF WellFormed, Held
<1>13. PageKnows'
  BY <1>5, <1>7, <1>8, <1>9, <1>11 DEF PageKnows, Idle
<1>14. PathsAreTaken'
  BY <1>5 DEF PathsAreTaken, Slots, Open, PathsOf
<1>15. AcknowledgedIsSaved'
  BY <1>5 DEF AcknowledgedIsSaved, Slots, At
<1>16. ManifestTellsStored'
  <2>1. ASSUME k \notin deleted
        PROVE  n = Cardinality(Stored(k)') /\ (n >= Size[k[2]] <=> Stored(k)' = Chunks(k[2]))
    <3>1. /\ IsFiniteSet(Stored(k)) /\ Cardinality(Stored(k)) \in Nat
          /\ Stored(k) \cup {i} \in SUBSET Chunks(k[2])
      BY StoredType
    <3>2. page.count = Cardinality(Stored(k)) /\ (page.had <=> i \in Stored(k))
      BY <1>1, <1>2, <1>5, <2>1 DEF PageKnows
    <3>3. n = Cardinality(Stored(k) \cup {i})
      <4>1. CASE i \in Stored(k)
        <5>1. Stored(k) \cup {i} = Stored(k)
          BY <4>1
        <5> QED
          BY <1>4, <3>2, <4>1, <5>1 DEF CountNew
      <4>2. CASE i \notin Stored(k)
        <5>1. Cardinality(Stored(k) \cup {i}) = Cardinality(Stored(k)) + 1
          BY <3>1, <4>2, FS_AddElement
        <5> QED
          BY <1>4, <3>2, <4>2, <5>1 DEF CountNew
      <4> QED
        BY <4>1, <4>2
    <3>4. Cardinality(Stored(k) \cup {i}) >= Size[k[2]] <=> Stored(k) \cup {i} = Chunks(k[2])
      BY <1>6, <3>1, PartOfFile
    <3> QED
      BY <1>11, <3>3, <3>4
  <2>2. ASSUME NEW l \in Keys \ deleted, manifest'[l] # None
        PROVE  /\ manifest'[l].bytes = Cardinality(Stored(l)')
               /\ manifest'[l].completed <=> Stored(l)' = Chunks(l[2])
    <3>1. CASE l = k
      <4>1. manifest'[k].bytes = n /\ manifest'[k].completed = (n >= Size[k[2]])
        BY <1>9
      <4> QED
        BY <2>1, <2>2, <3>1, <4>1
    <3>2. CASE l # k
      BY <1>9, <1>11, <2>2, <3>2 DEF ManifestTellsStored
    <3> QED
      BY <3>1, <3>2
  <2> QED
    BY <1>5, <2>2 DEF ManifestTellsStored
<1>17. NothingLost'
  <2>2. ASSUME NEW l \in Keys, NEW j, Holds(l, j)
        PROVE  l = k /\ j = i
    BY <1>1, <1>2, <2>2 DEF Holds
  <2>3. \A l \in Keys : \A j : (j \in Stored(l) \/ Holds(l, j)) => (j \in Stored(l))'
    BY <1>11, <2>2
  <2>4. \A l \in Keys : \A j, m : Announced(l, j, m) => Announced(l, j, m)'
    BY <1>5 DEF Announced, KeyOf
  <2>5. events \in Seq(Event) /\ Len(events) \in Nat /\ page.stage \notin {"dead", "stopped"}
    BY <1>5 DEF WellFormed
  <2>6. \A l \in Keys : \A j : \A q \in 0..Len(events) : \A m \in Nat :
          Arrived(l, j, q) /\ q = m + 0 => Arrived(l, j, m)'
    BY <2>3, <2>4 DEF Arrived
  <2> QED
    BY <1>5, <2>5, <2>6, QueueMoves
<1> QED
  BY <1>12, <1>13, <1>14, <1>15, <1>16, <1>17

\* The page is told that a file has arrived, and all of it has.
LEMMA MarkCompletedIInv ==
  ASSUME IInv, MarkCompleted
  PROVE  IInv'
<1> USE DEF IInv
<1>1. PICK e \in Event : e = Head(events) /\ e = events[1] /\ e.kind = "completed" /\ 1 \in DOMAIN events
  BY DEF MarkCompleted, WellFormed
<1>2. PICK k \in Keys : k = KeyOf(e) /\ k[2] = e.file
  <2>1. e.sender \in Sender /\ e.file \in File
    BY DEF Event
  <2>2. KeyOf(e) \in Keys /\ KeyOf(e)[2] = e.file
    BY <2>1 DEF KeyOf, Keys
  <2> QED
    BY <2>2
<1> DEFINE entry == [bytes |-> Size[k[2]], completed |-> TRUE]
<1>3. /\ page.stage = "idle" /\ events # <<>> /\ events' = Tail(events)
      /\ manifest' = [manifest EXCEPT ![k] = entry]
      /\ UNCHANGED <<transfers, nextId, memory, page, chunks, output, deleted, shared, faults>>
  BY <1>1, <1>2 DEF MarkCompleted, spent
<1>4. k[2] \in File /\ Size[k[2]] \in Nat
  BY FileAssumption DEF Keys
<1>5. entry \in Manifest /\ entry # None
  <2>1. entry \in [bytes : Nat, completed : BOOLEAN]
    BY <1>4
  <2> HIDE DEF entry
  <2> QED
    BY <2>1, NoneAssumption DEF Manifest
<1>6. /\ manifest' \in [Keys -> Manifest \cup {None}] /\ manifest'[k] = entry
      /\ \A l \in Keys : l # k => manifest'[l] = manifest[l]
  BY <1>3, <1>5 DEF WellFormed
<1>7. \A l : Stored(l)' = Stored(l)
  BY <1>3 DEF Stored
<1>8. WellFormed'
  BY <1>3, <1>6 DEF WellFormed
<1>9. PageKnows'
  BY <1>3, <1>5, <1>6, <1>7 DEF PageKnows
<1>10. PathsAreTaken'
  BY <1>3 DEF PathsAreTaken, Slots, Open, PathsOf
<1>11. AcknowledgedIsSaved'
  BY <1>3 DEF AcknowledgedIsSaved, Slots, At
<1>12. ManifestTellsStored'
  <2>1. ASSUME k \notin deleted
        PROVE  Stored(k) = Chunks(k[2]) /\ Cardinality(Stored(k)) = Size[k[2]]
    <3>1. \A i \in Chunks(k[2]) : Arrived(k, i, 1)
      BY <1>1, <1>2, <1>3, <2>1 DEF NothingLost, WholeComes, ToldWhole
    <3>2. \A i : ~Holds(k, i) /\ ~Announced(k, i, 1)
      BY <1>1, <1>3 DEF Holds, Held, Announced
    <3>3. Stored(k) = Chunks(k[2])
      BY <3>1, <3>2, StoredType DEF Arrived
    <3> QED
      BY <1>4, <3>3, PartOfFile
  <2>2. ASSUME NEW l \in Keys \ deleted, manifest'[l] # None
        PROVE  /\ manifest'[l].bytes = Cardinality(Stored(l)')
               /\ manifest'[l].completed <=> Stored(l)' = Chunks(l[2])
    <3>1. CASE l = k
      BY <1>6, <1>7, <2>1, <2>2, <3>1
    <3>2. CASE l # k
      BY <1>6, <1>7, <2>2, <3>2 DEF ManifestTellsStored
    <3> QED
      BY <3>1, <3>2
  <2> QED
    BY <1>3, <2>2 DEF ManifestTellsStored
<1>13. NothingLost'
  <2>1. \A l \in Keys : \A i : Holds(l, i)' = Holds(l, i)
    BY <1>3 DEF Holds, KeyOf
  <2>2. /\ events' \in Seq(Event) /\ Len(events') = Len(events) - 1 /\ 1 <= Len(events)
        /\ \A n \in DOMAIN events' : n + 1 \in DOMAIN events /\ events'[n] = events[n + 1]
        /\ \A l \in Keys : \A i : \A n \in 1..Len(events) : \A m \in Nat :
             Arrived(l, i, n) /\ n = m + 1 => Arrived(l, i, m)'
    BY <1>1, <1>3, <1>7, <2>1, TakesEvent DEF WellFormed
  <2> QED
    BY <1>3, <2>2, QueueMoves
<1> QED
  BY <1>8, <1>9, <1>10, <1>11, <1>12, <1>13
-----------------------------------------------------------------------------
(* The native peer                                                           *)

LEMMA NativeChunkIInv ==
  ASSUME IInv, NEW t \in Slots, NativeChunk(t)
  PROVE  IInv'
<1> DEFINE x == transfers[t]
           y == [x EXCEPT !.wire = Tail(@), !.count = @ + 1]
<1>1. x \in Transfer /\ nextId \in [Sender -> Nat] /\ faults \in 0..MaxFaults
  BY DEF IInv, WellFormed, Slots
<1>2. /\ x.to = "native" /\ x.stage \in {"sending", "sent"} /\ x.wire # <<>>
      /\ transfers' = [transfers EXCEPT ![t] = y]
      /\ UNCHANGED <<nextId, memory, events, page, manifest, chunks, output, deleted, shared, faults>>
  BY DEF NativeChunk, node, store, spent
<1>3. x \in AnyTransfer
  BY <1>1, FieldsOf
<1>4. y \in Transfer
  BY <1>1, <1>2, ReceiveEffect
<1>5. y.sender = x.sender /\ y.file = x.file /\ y.to = "native" /\ y.stage = x.stage
  BY <1>2, <1>3 DEF AnyTransfer
<1> HIDE DEF y
<1>6. y.stage \notin Written
  BY <1>2, <1>5 DEF Written
<1> QED
  BY <1>1, <1>2, <1>4, <1>5, <1>6, GoesOnIInv DEF x

\* A native transfer goes on to a stage where its connection is over.
LEMMA NativeStepIInv ==
  ASSUME IInv, NEW t \in Slots, NEW y \in Transfer, transfers' = [transfers EXCEPT ![t] = y],
         y.to = "native", y.stage \notin {"sending", "sent"}, PathsAreTaken', AcknowledgedIsSaved',
         UNCHANGED <<nextId, memory, events, page, manifest, chunks, deleted, faults>>
  PROVE  IInv'
<1> USE DEF IInv
<1>1. /\ transfers' \in Seq(Transfer) /\ Slots' = Slots
      /\ transfers'[t] = y /\ \A u \in Slots : u # t => transfers'[u] = transfers[u]
  BY OneChanges DEF WellFormed
<1>2. WellFormed'
  BY <1>1 DEF WellFormed, KeyOf
<1>3. PageKnows' /\ ManifestTellsStored'
  BY StoreKept
<1>4. NothingLost'
  BY <1>1, NothingLostKept
<1> QED
  BY <1>2, <1>3, <1>4

LEMMA Fallback ==
  ASSUME NEW S, NEW name \in S, NEW now \in Millis, Nat \subseteq S
  PROVE  Append(<<name>>, now) \in Seq(S) /\ Len(Append(<<name>>, now)) = 2
<1>1. now \in S
  BY TransferBound DEF Millis
<1> QED
  BY <1>1

\* A handler takes a path that no file has, or one that is shared if a file has it.
LEMMA ChoosePathIInv ==
  ASSUME IInv, NEW t \in Slots, ChoosePath(t)
  PROVE  IInv'
<1> USE DEF IInv
<1> DEFINE x == transfers[t]
<1>1. PICK path \in UniquePath(t) :
        /\ transfers' = [transfers EXCEPT ![t] = [x EXCEPT !.stage = "chosen", !.path = path]]
        /\ shared' = IF \/ \E u \in Open : transfers[u].path = path
                        \/ Len(path) > 1 /\ path \in DOMAIN output
                     THEN shared \cup {path} ELSE shared
  BY DEF ChoosePath
<1> DEFINE y == [x EXCEPT !.stage = "chosen", !.path = path]
<1>2. /\ x.to = "native" /\ x.stage = "sent" /\ transfers' = [transfers EXCEPT ![t] = y]
      /\ shared \subseteq shared'
      /\ (\E u \in Open : transfers[u].path = path) => path \in shared'
      /\ Len(path) > 1 /\ path \in DOMAIN output => path \in shared'
      /\ UNCHANGED <<nextId, memory, events, page, manifest, chunks, output, deleted, faults>>
  BY <1>1 DEF ChoosePath, At, node, store, spent
<1>3. x \in Transfer /\ x \in AnyTransfer /\ x.file \in File /\ t \in Nat
  <2>1. transfers \in Seq(Transfer) /\ t \in DOMAIN transfers
    BY DEF WellFormed, Slots
  <2>2. x \in Transfer /\ t \in Nat
    BY ONLY <2>1
  <2> QED
    BY <2>2, FieldsOf
<1>4. path \in Paths
  <2> DEFINE S == {Name[f] : f \in File} \cup Nat
  <2>1. Name[x.file] \in S /\ Nat \subseteq S
    BY <1>3
  <2>2. UniquePath(t) \subseteq {<<Name[x.file]>>} \cup {Append(<<Name[x.file]>>, now) : now \in Millis}
    BY DEF UniquePath
  <2>3. Paths = Seq(S)
    BY DEF Paths
  <2> HIDE DEF S
  <2>4. <<Name[x.file]>> \in Seq(S) /\ \A now \in Millis : Append(<<Name[x.file]>>, now) \in Seq(S)
    BY <2>1, Fallback
  <2> QED
    BY <1>1, <2>2, <2>3, <2>4
<1>5. /\ y \in AnyTransfer /\ y.stage = "chosen" /\ y.path = path /\ y.to = "native"
      /\ y.todo = x.todo /\ y.wire = x.wire /\ y.count = x.count /\ y.file = x.file
  BY <1>2, <1>3, <1>4 DEF AnyTransfer, Stage
<1> HIDE DEF y
<1>6. y \in Transfer
  <2>1. Total(y) = Total(x)
    BY <1>5 DEF Total
  <2> QED
    BY <1>2, <1>3, <1>5, <2>1 DEF Transfer, Begun, Stage
<1>7. /\ transfers' \in Seq(Transfer) /\ Slots' = Slots
      /\ transfers'[t] = y /\ \A u \in Slots : u # t => transfers'[u] = transfers[u]
  BY <1>2, <1>6, OneChanges DEF WellFormed
<1>8. \A u \in Slots : (u \in Open' <=> u = t \/ u \in Open) /\ t \notin Open
  BY <1>2, <1>5, <1>7 DEF Open
<1>9. path \in PathsOf(t) /\ (path \in DOMAIN output => Len(path) > 1)
  <2>1. CASE path = <<Name[x.file]>> /\ path \notin DOMAIN output
    BY <2>1 DEF PathsOf
  <2>2. ASSUME NEW now \in Millis, path = Append(<<Name[x.file]>>, now)
        PROVE  path \in PathsOf(t) /\ Len(path) > 1
    <3> DEFINE S == {Name[f] : f \in File} \cup Nat
    <3>1. Name[x.file] \in S /\ Nat \subseteq S
      BY <1>3
    <3> HIDE DEF S
    <3>2. Len(path) = 2
      BY <2>2, <3>1, Fallback
    <3>3. path \in PathsOf(t)
      BY <2>2 DEF PathsOf
    <3> QED
      BY <3>2, <3>3
  <2> QED
    BY <1>1, <2>1, <2>2 DEF UniquePath
\* Who writes to the same path now, or wrote to it, shares it.
<1>10. ASSUME NEW u \in Slots, u # t, transfers[u].to = "native", transfers[u].stage \in Written,
              transfers[u].path = path
       PROVE  path \in shared'
  <2>1. CASE u \in Open
    BY <1>2, <1>10, <2>1
  <2>2. CASE u \notin Open
    <3>1. path \in DOMAIN output
      BY <1>10, <2>2 DEF PathsAreTaken, Written, Open
    <3> QED
      BY <1>2, <1>9, <3>1
  <2> QED
    BY <2>1, <2>2
<1>11. PathsAreTaken'
  <2>1. \A u \in Slots' : transfers'[u].to = "native" =>
          /\ transfers'[u].stage \in Written => transfers'[u].path \in PathsOf(u)'
          /\ transfers'[u].stage \in {"writing", "done"} => transfers'[u].path \in DOMAIN output'
    <3>1. transfers'[t].path \in PathsOf(t)' /\ transfers'[t].stage \notin {"writing", "done"}
      BY <1>5, <1>7, <1>9 DEF PathsOf
    <3>2. \A u \in Slots : u # t => PathsOf(u)' = PathsOf(u)
      BY <1>7 DEF PathsOf
    <3>3. output' = output
      BY DEF ChoosePath
    <3> QED
      BY <1>7, <3>1, <3>2, <3>3 DEF PathsAreTaken
  <2>2. ASSUME NEW u \in Slots', NEW v \in Slots', transfers'[u].to = "native",
               transfers'[u].stage \in Written, v \in Open', u # v,
               transfers'[u].path = transfers'[v].path
        PROVE  transfers'[v].path \in shared'
    <3>1. CASE u = t
      <4>1. v \in Open /\ transfers'[v] = transfers[v] /\ transfers[v].path = path
        BY <1>5, <1>7, <1>8, <2>2, <3>1
      <4> QED
        BY <1>2, <4>1
    <3>2. CASE v = t
      BY <1>5, <1>7, <1>10, <2>2, <3>2
    <3>3. CASE u # t /\ v # t
      <4>1. v \in Open /\ transfers'[v] = transfers[v] /\ transfers'[u] = transfers[u]
        BY <1>7, <1>8, <2>2, <3>3
      <4> QED
        BY <1>2, <1>7, <2>2, <4>1 DEF PathsAreTaken
    <3> QED
      BY <3>1, <3>2, <3>3
  <2> QED
    BY <2>1, <2>2 DEF PathsAreTaken, Open
<1>12. AcknowledgedIsSaved'
  <2>1. \A u \in Slots' : At(u, "native", "done")' => u # t /\ At(u, "native", "done")
                                                      /\ transfers'[u] = transfers[u]
    BY <1>5, <1>7 DEF At
  <2> QED
    BY <1>2, <1>7, <2>1 DEF AcknowledgedIsSaved
<1> QED
  BY <1>2, <1>5, <1>6, <1>11, <1>12, NativeStepIInv DEF x

\* The file is created, or written in full, at the path the handler chose.
LEMMA PutIInv ==
  ASSUME IInv, NEW t \in Slots, NEW y \in Transfer, transfers' = [transfers EXCEPT ![t] = y],
         transfers[t].to = "native", y.to = "native", y.file = transfers[t].file,
         y.path = transfers[t].path,
         NEW whole \in BOOLEAN, output' = Put(y.path, [file |-> y.file, whole |-> whole]),
         \/ transfers[t].stage = "chosen" /\ y.stage = "writing"
         \/ transfers[t].stage = "writing" /\ y.stage = "done" /\ whole = TRUE,
         UNCHANGED <<nextId, memory, events, page, manifest, chunks, deleted, faults, shared>>
  PROVE  IInv'
<1> USE DEF IInv
<1>1. /\ transfers' \in Seq(Transfer) /\ Slots' = Slots
      /\ transfers'[t] = y /\ \A u \in Slots : u # t => transfers'[u] = transfers[u]
  BY OneChanges DEF WellFormed
<1>2. t \in Open /\ transfers[t].stage \in Written
  BY DEF Open, Written
<1>3. \A u \in Slots : u \in Open' => u \in Open
  BY <1>1, <1>2 DEF Open
<1>4. \A u \in Slots : transfers'[u].path = transfers[u].path /\ transfers'[u].to = transfers[u].to
                       /\ PathsOf(u)' = PathsOf(u)
  BY <1>1 DEF PathsOf
<1>5. \A u \in Slots : transfers'[u].stage \in Written => transfers[u].stage \in Written
  BY <1>1, <1>2
<1>6. DOMAIN output' = DOMAIN output \cup {y.path}
      /\ output'[y.path] = [file |-> y.file, whole |-> whole]
      /\ \A p \in DOMAIN output : p # y.path => output'[p] = output[p]
  BY DEF Put
<1>7. PathsAreTaken'
  <2>1. \A u \in Slots : transfers'[u].to = "native" =>
          /\ transfers'[u].stage \in Written => transfers'[u].path \in PathsOf(u)'
          /\ transfers'[u].stage \in {"writing", "done"} => transfers'[u].path \in DOMAIN output'
    BY <1>1, <1>4, <1>5, <1>6 DEF PathsAreTaken
  <2>2. \A u, v \in Slots :
          /\ transfers'[u].to = "native" /\ transfers'[u].stage \in Written
          /\ v \in Open' /\ u # v /\ transfers'[u].path = transfers'[v].path
          => transfers'[v].path \in shared
    BY <1>3, <1>4, <1>5 DEF PathsAreTaken
  <2> QED
    BY <1>1, <2>1, <2>2 DEF PathsAreTaken
\* No other handler that is done has this path, unless it is shared.
<1>8. AcknowledgedIsSaved'
  <2>1. ASSUME NEW u \in Slots, transfers'[u].to = "native", transfers'[u].stage = "done",
               transfers'[u].path \notin shared
        PROVE  output'[transfers'[u].path] = [file |-> transfers'[u].file, whole |-> TRUE]
    <3>1. CASE u = t
      BY <1>1, <1>6, <2>1, <3>1
    <3>2. CASE u # t
      <4>1. transfers'[u] = transfers[u] /\ transfers[u].stage \in Written
        BY <1>1, <2>1, <3>2 DEF Written
      <4>2. transfers[u].path # y.path
        BY <1>2, <2>1, <3>2, <4>1 DEF PathsAreTaken
      <4>3. /\ transfers[u].path \in DOMAIN output
            /\ output[transfers[u].path] = [file |-> transfers[u].file, whole |-> TRUE]
        BY <2>1, <4>1 DEF PathsAreTaken, AcknowledgedIsSaved, At
      <4> QED
        BY <1>6, <4>1, <4>2, <4>3
    <3> QED
      BY <3>1, <3>2
  <2> QED
    BY <1>1, <2>1 DEF AcknowledgedIsSaved, At
<1>9. y.stage \notin {"sending", "sent"}
  OBVIOUS
<1> QED
  BY <1>7, <1>8, <1>9, NativeStepIInv

LEMMA CreateFileIInv ==
  ASSUME IInv, NEW t \in Slots, CreateFile(t)
  PROVE  IInv'
<1> DEFINE x == transfers[t]
<1>1. x \in Transfer /\ transfers \in Seq(Transfer)
  BY DEF IInv, WellFormed, Slots
<1>2. /\ x.to = "native" /\ x.stage = "chosen"
      /\ UNCHANGED <<nextId, memory, events, page, manifest, chunks, deleted, faults, shared>>
  BY DEF CreateFile, At, node, store, spent
<1>3. x.todo = {} /\ "writing" \in Begun /\ "failed" \in Begun
      /\ "failed" \notin {"sent", "chosen", "writing", "done"}
  BY <1>1, <1>2 DEF Transfer, Begun, Stage
<1>4. CASE x.count = Size[x.file]
  <2> DEFINE y == [x EXCEPT !.stage = "writing"]
  <2>1. transfers' = [transfers EXCEPT ![t] = y]
        /\ output' = Put(x.path, [file |-> x.file, whole |-> FALSE])
    BY <1>4 DEF CreateFile, Goes
  <2>2. y \in Transfer /\ y.to = x.to /\ y.file = x.file /\ y.stage = "writing" /\ y.path = x.path
    BY <1>1, <1>2, <1>3, StageEffect
  <2> HIDE DEF y
  <2> QED
    BY <1>2, <2>1, <2>2, PutIInv
<1>5. CASE x.count # Size[x.file]
  <2> DEFINE y == [x EXCEPT !.stage = "failed"]
  <2>1. transfers' = [transfers EXCEPT ![t] = y] /\ output' = output
    BY <1>5 DEF CreateFile, Goes
  <2>2. y \in Transfer /\ y.to = x.to /\ y.stage = "failed"
    BY <1>1, <1>3, StageEffect
  <2> HIDE DEF y
  <2>3. /\ transfers' \in Seq(Transfer) /\ Slots' = Slots
        /\ transfers'[t] = y /\ \A u \in Slots : u # t => transfers'[u] = transfers[u]
    BY <1>1, <2>1, <2>2, OneChanges
  <2>4. PathsAreTaken' /\ AcknowledgedIsSaved'
    <3>1. \A u \in Slots' : \/ u \in Slots /\ transfers'[u] = transfers[u]
                            \/ transfers'[u].stage \notin Written
      BY <2>2, <2>3 DEF Written
    <3> QED
      BY <1>2, <2>1, <2>3, <3>1, PathsKept DEF IInv
  <2> QED
    BY <1>2, <2>1, <2>2, <2>4, NativeStepIInv
<1> QED
  BY <1>4, <1>5

LEMMA WriteFileIInv ==
  ASSUME IInv, NEW t \in Slots, WriteFile(t)
  PROVE  IInv'
<1> DEFINE x == transfers[t]
           y == [x EXCEPT !.stage = "done"]
<1>1. x \in Transfer
  BY DEF IInv, WellFormed, Slots
<1>2. /\ x.to = "native" /\ x.stage = "writing"
      /\ UNCHANGED <<nextId, memory, events, page, manifest, chunks, deleted, faults, shared>>
  BY DEF WriteFile, At, node, store, spent
<1>3. x.todo = {} /\ "done" \in Begun /\ "done" \notin {"chosen", "writing"}
  BY <1>1, <1>2 DEF Transfer, Begun, Stage
<1>4. transfers' = [transfers EXCEPT ![t] = y]
      /\ output' = Put(x.path, [file |-> x.file, whole |-> TRUE])
  BY DEF WriteFile, Goes
<1>5. y \in Transfer /\ y.to = x.to /\ y.file = x.file /\ y.stage = "done" /\ y.path = x.path
  BY <1>1, <1>3, StageEffect
<1> HIDE DEF y
<1> QED
  BY <1>2, <1>4, <1>5, PutIInv

-----------------------------------------------------------------------------
(* Faults and the receiving user                                             *)

\* A reload ends the connections whose chunks it loses.
LEMMA ReloadIInv ==
  ASSUME IInv, Reload
  PROVE  IInv'
<1> USE DEF IInv
<1>1. /\ memory' = {} /\ events' = <<>> /\ page' = Idle
      /\ transfers' = [t \in Slots |-> IF transfers[t].to = "browser" /\ Connected(t)
                                       THEN [transfers[t] EXCEPT !.stage = "failed"]
                                       ELSE transfers[t]]
      /\ faults < MaxFaults /\ faults' = faults + 1
      /\ UNCHANGED <<nextId, manifest, chunks, output, shared, deleted>>
  BY DEF Reload, Fault, store
<1>2. transfers \in Seq(Transfer) /\ \A t \in Slots : transfers[t] \in Transfer
  BY DEF WellFormed, Slots
<1>3. ASSUME NEW t \in Slots
      PROVE  /\ transfers'[t] \in Transfer
             /\ \/ transfers'[t] = transfers[t]
                \/ transfers'[t].to = "browser" /\ transfers'[t].stage = "failed"
             /\ transfers'[t].to = "browser" => transfers'[t].stage \notin {"sending", "sent"}
  <2>1. CASE transfers[t].to = "browser" /\ Connected(t)
    <3> DEFINE x == transfers[t]
               y == [x EXCEPT !.stage = "failed"]
    <3>1. transfers'[t] = y
      BY <1>1, <2>1
    <3>2. "failed" \in Begun /\ "failed" \notin {"sent", "chosen", "writing", "done"}
      BY DEF Begun, Stage
    <3>3. y \in Transfer /\ y.to = x.to /\ y.stage = "failed"
      BY <1>2, <3>2, StageEffect
    <3> QED
      BY <2>1, <3>1, <3>3
  <2>2. CASE ~(transfers[t].to = "browser" /\ Connected(t))
    BY <1>1, <1>2, <2>2 DEF Connected
  <2> QED
    BY <2>1, <2>2
<1>4. Slots' = Slots /\ transfers' \in Seq(Transfer)
  <2>1. Len(transfers) \in Nat /\ Slots = 1..Len(transfers)
    BY <1>2 DEF Slots
  <2>2. transfers' \in [1..Len(transfers) -> Transfer]
    BY <1>1, <1>3, <2>1
  <2> QED
    BY <2>1, <2>2 DEF Slots
<1>5. Idle \in [stage : Held \cup {"idle", "dead", "stopped"}, event : Event \cup {None},
                bytes : File \cup {None}, count : Nat, had : BOOLEAN]
      /\ Idle.stage = "idle" /\ "idle" \notin Held
  BY DEF Idle, Held
<1>6. faults' \in 0..MaxFaults
  BY <1>1, TransferBound DEF WellFormed
<1>7. WellFormed'
  BY <1>1, <1>4, <1>5, <1>6 DEF WellFormed
<1>8. \A k : Stored(k)' = Stored(k)
  BY <1>1 DEF Stored
<1>9. PageKnows' /\ ManifestTellsStored'
  BY <1>1, <1>5, <1>8 DEF PageKnows, ManifestTellsStored
<1>10. PathsAreTaken' /\ AcknowledgedIsSaved'
  BY <1>1, <1>3, <1>4, PathsKept
<1>11. NothingLost'
  <2>1. DOMAIN events' = {}
    BY <1>1
  <2> QED
    BY <1>3, <1>4, <2>1 DEF NothingLost, WholeComes, ToldWhole
<1> QED
  BY <1>7, <1>9, <1>10, <1>11

\* The page takes no event any more.
LEMMA StoreFailsIInv ==
  ASSUME IInv, StoreFails
  PROVE  IInv'
<1> USE DEF IInv
<1> DEFINE stopped == [Idle EXCEPT !.stage = "stopped"]
<1>1. /\ page' = stopped /\ faults < MaxFaults /\ faults' = faults + 1
      /\ events' = events \/ (events # <<>> /\ events' = Tail(events))
      /\ UNCHANGED <<transfers, nextId, memory, manifest, chunks, output, shared, deleted>>
  BY DEF StoreFails, Fault, store
<1>2. stopped \in [stage : Held \cup {"idle", "dead", "stopped"}, event : Event \cup {None},
                  bytes : File \cup {None}, count : Nat, had : BOOLEAN]
      /\ stopped.stage = "stopped" /\ "stopped" \notin Held
  BY DEF Idle, Held
<1> HIDE DEF stopped
<1>3. faults' \in 0..MaxFaults
  BY <1>1, TransferBound DEF WellFormed
<1>4. events' \in Seq(Event)
  <2>1. events \in Seq(Event)
    BY DEF WellFormed
  <2> QED
    BY <1>1, <2>1, TailFacts
<1>5. WellFormed'
  BY <1>1, <1>2, <1>3, <1>4 DEF WellFormed
<1>6. \A k : Stored(k)' = Stored(k)
  BY <1>1 DEF Stored
<1>7. PageKnows' /\ ManifestTellsStored'
  BY <1>1, <1>2, <1>6 DEF PageKnows, ManifestTellsStored
<1>8. PathsAreTaken' /\ AcknowledgedIsSaved'
  BY <1>1, <1>5, PathsKept DEF Slots, WellFormed
<1>9. NothingLost'
  BY <1>1, <1>2 DEF NothingLost
<1> QED
  BY <1>5, <1>7, <1>8, <1>9

LEMMA DeleteIInv ==
  ASSUME IInv, NEW k \in Keys, Delete(k)
  PROVE  IInv'
<1> USE DEF IInv
<1>1. /\ manifest' = [manifest EXCEPT ![k] = None]
      /\ chunks' = [chunks EXCEPT ![k] = NoChunks(k[2])]
      /\ deleted' = deleted \cup {k} /\ faults < MaxFaults /\ faults' = faults + 1
      /\ UNCHANGED <<transfers, nextId, memory, events, page, output, shared>>
  BY DEF Delete, Fault, node
<1>2. /\ manifest' \in [Keys -> Manifest \cup {None}] /\ DOMAIN chunks' = Keys
      /\ manifest'[k] = None /\ chunks'[k] = NoChunks(k[2])
      /\ \A l \in Keys : l # k => manifest'[l] = manifest[l] /\ chunks'[l] = chunks[l]
  BY <1>1 DEF WellFormed
<1>3. NoChunks(k[2]) \in [Chunks(k[2]) -> File \cup {None}]
  BY DEF NoChunks
<1>4. faults' \in 0..MaxFaults
  BY <1>1, TransferBound DEF WellFormed
<1>5. WellFormed'
  BY <1>1, <1>2, <1>3, <1>4 DEF WellFormed
<1>6. Stored(k)' = {} /\ \A l \in Keys : l # k => Stored(l)' = Stored(l)
  BY <1>2 DEF Stored, NoChunks
<1>7. PageKnows'
  <2>1. \A l \in Keys : manifest'[l] = None => Stored(l)' = {}
    BY <1>2, <1>6 DEF PageKnows
  <2>2. ASSUME NEW l \in Keys, l = KeyOf(page.event), l \notin deleted', page.stage \in Held
        PROVE  Stored(l)' = Stored(l) /\ l \notin deleted
    BY <1>1, <1>6, <2>2
  <2>3. page.stage \in Held => KeyOf(page.event) \in Keys
    BY HeldEvent
  <2>4. ASSUME NEW l, l = KeyOf(page.event), l \notin deleted', page.stage \in {"chunk", "store"}
        PROVE  /\ page.count = Cardinality(Stored(l)')
               /\ page.stage = "store" => (page.had <=> page.event.chunk \in Stored(l)')
    BY <2>2, <2>3, <2>4 DEF PageKnows, Held
  <2> QED
    BY <1>1, <2>1, <2>4 DEF PageKnows, KeyOf
<1>8. ManifestTellsStored'
  BY <1>1, <1>2, <1>6 DEF ManifestTellsStored
<1>9. PathsAreTaken' /\ AcknowledgedIsSaved'
  BY <1>1, <1>5, PathsKept DEF Slots, WellFormed
<1>10. NothingLost'
  <2> SUFFICES ASSUME page.stage \notin {"dead", "stopped"} PROVE NothingLost'
    BY <1>1 DEF NothingLost, WholeComes, ToldWhole
  <2>1. \A l, i, n : Holds(l, i)' = Holds(l, i) /\ Announced(l, i, n)' = Announced(l, i, n)
    BY <1>1 DEF Holds, Announced, KeyOf
  <2>2. \A l \in Keys : \A i, n : l # k => (Arrived(l, i, n) => Arrived(l, i, n)')
    BY <1>6, <2>1 DEF Arrived
  <2>3. ASSUME NEW t \in Slots, transfers[t].to = "browser", transfers[t].stage \in {"sending", "sent"},
               Total(transfers[t]) = Size[transfers[t].file], KeyOf(transfers[t]) \notin deleted',
               NEW i \in Chunks(transfers[t].file) \ Left(transfers[t]),
               NEW l, l = KeyOf(transfers[t])
        PROVE  Arrived(l, i, Len(events))'
    <3>1. l # k /\ l \notin deleted
      BY <1>1, <2>3
    <3>2. l \in Keys
      <4>1. transfers[t] \in Transfer
        BY DEF Slots, WellFormed
      <4> QED
        BY <2>3, <4>1, FieldsOf
    <3>3. Arrived(l, i, Len(events))
      BY <2>3, <3>1 DEF NothingLost, WholeComes, ToldWhole
    <3> QED
      BY <1>1, <2>2, <3>1, <3>2, <3>3
  <2>4. ASSUME NEW n \in DOMAIN events, events[n].kind = "completed",
               KeyOf(events[n]) \notin deleted', NEW i \in Chunks(events[n].file),
               NEW l, l = KeyOf(events[n])
        PROVE  Arrived(l, i, n)'
    <3>1. l # k /\ l \notin deleted
      BY <1>1, <2>4
    <3>2. l \in Keys
      <4>1. events[n] \in Event
        BY DEF WellFormed
      <4> QED
        BY <2>4, <4>1 DEF KeyOf, Keys, Event
    <3>3. Arrived(l, i, n)
      BY <2>4, <3>1 DEF NothingLost, WholeComes, ToldWhole
    <3> QED
      BY <2>2, <3>1, <3>2, <3>3
  <2> QED
    BY <1>1, <2>3, <2>4 DEF NothingLost, WholeComes, ToldWhole, Slots
<1> QED
  BY <1>5, <1>7, <1>8, <1>9, <1>10
-----------------------------------------------------------------------------
LEMMA NextIInv == IInv /\ [Next]_vars => IInv'
<1> SUFFICES ASSUME IInv, [Next]_vars PROVE IInv'
  OBVIOUS
<1>1. CASE UNCHANGED vars
  <2>1. UNCHANGED <<transfers, nextId, memory, events, page, manifest, chunks, output, shared,
                    deleted, faults>>
    BY <1>1 DEF vars, node, store, spent
  <2>2. WellFormed' /\ transfers' \in Seq(Transfer)
    BY <2>1 DEF IInv, WellFormed, KeyOf
  <2>3. PageKnows' /\ ManifestTellsStored'
    BY <2>1, StoreKept DEF IInv
  <2>4. PathsAreTaken' /\ AcknowledgedIsSaved'
    BY <2>1, <2>2, PathsKept DEF IInv, Slots
  <2>5. NothingLost'
    BY <2>1, NothingLostKept DEF IInv, Slots
  <2> QED
    BY <2>2, <2>3, <2>4, <2>5 DEF IInv
<1>2. ASSUME NEW s \in Sender, NEW f \in File, NEW to \in Peers, SendFile(s, f, to)
      PROVE  IInv'
  BY <1>2, SendFileIInv
<1>3. ASSUME NEW t \in Slots, BeginSend(t) \/ \E to \in {"browser", "native"} : Redirect(t, to)
      PROVE  IInv'
  <2>1. transfers \in Seq(Transfer)
    BY DEF IInv, WellFormed
  <2>2. PICK to \in Peers : Connect(t, to)
    BY <1>3, <2>1, Connects
  <2> QED
    BY <2>2, ConnectIInv
<1>4. ASSUME NEW t \in Slots, Step(t) PROVE IInv'
  <2>1. CASE Answer(t)        BY <2>1, AnswerIInv
  <2>2. CASE BeginSend(t)     BY <1>3, <2>2
  <2>3. CASE SendChunk(t)     BY <2>3, SendChunkIInv
  <2>4. CASE FinishSend(t)    BY <2>4, FinishSendIInv
  <2>5. CASE ReceiveChunk(t)  BY <2>5, ReceiveChunkIInv
  <2>6. CASE EndReceive(t)    BY <2>6, EndReceiveIInv
  <2>7. CASE NativeChunk(t)   BY <2>7, NativeChunkIInv
  <2>8. CASE ChoosePath(t)    BY <2>8, ChoosePathIInv
  <2>9. CASE CreateFile(t)    BY <2>9, CreateFileIInv
  <2>10. CASE WriteFile(t)    BY <2>10, WriteFileIInv
  <2> QED
    BY <1>4, <2>1, <2>2, <2>3, <2>4, <2>5, <2>6, <2>7, <2>8, <2>9, <2>10 DEF Step
<1>5. ASSUME NEW t \in Slots, Disconnect(t) PROVE IInv'
  BY <1>5, DisconnectIInv
<1>6. CASE Page
  <2>1. CASE TakeChunk                   BY <2>1, TakeChunkIInv
  <2>2. CASE LoadManifest \/ LoadChunk   BY <2>2, LoadsIInv
  <2>3. CASE StoreChunk                  BY <2>3, StoreChunkIInv
  <2>4. CASE MarkCompleted               BY <2>4, MarkCompletedIInv
  <2> QED
    BY <1>6, <2>1, <2>2, <2>3, <2>4 DEF Page
<1>7. CASE StoreFails
  BY <1>7, StoreFailsIInv
<1>8. CASE Reload
  BY <1>8, ReloadIInv
<1>9. ASSUME NEW k \in Keys, Delete(k) PROVE IInv'
  BY <1>9, DeleteIInv
<1> QED
  BY <1>1, <1>2, <1>3, <1>4, <1>5, <1>6, <1>7, <1>8, <1>9 DEF Next

\* What the receivers show and keep fits together in every run.
THEOREM Invariance == Spec => []IInv
<1>1. Init => IInv
  BY InitIInv
<1>2. IInv /\ [Next]_vars => IInv'
  BY NextIInv
<1> QED
  BY <1>1, <1>2, PTL DEF Spec

\* The state is well typed: a transfer sends and receives chunks of its file only, and no
\* more than it has.
THEOREM TypeCorrect == Spec => []TypeOK
<1>1. IInv => TypeOK
  BY WellFormedTypeOK DEF IInv
<1> QED
  BY <1>1, Invariance, PTL

\* The received-files manifest counts each stored chunk once and shows a file as complete
\* exactly when it is, for any number of senders, repeated and interrupted transfers.
THEOREM ManifestIsRight == Spec => []ManifestTellsStored
<1>1. IInv => ManifestTellsStored
  BY DEF IInv
<1> QED
  BY <1>1, Invariance, PTL

\* A file that the native peer acknowledged stays as it was written at its path, unless two
\* handlers chose the path at once, or the same name, taken before, in the same millisecond.
THEOREM AcknowledgedStays == Spec => []AcknowledgedIsSaved
<1>1. IInv => AcknowledgedIsSaved
  BY DEF IInv
<1> QED
  BY <1>1, Invariance, PTL
-----------------------------------------------------------------------------
(* A single sender                                                           *)

\* No transfer takes another number or begins again.
LEMMA SendingKept ==
  ASSUME IdsDiffer, EventsHaveBytes, UNCHANGED <<nextId, memory, events>>, Slots' = Slots,
         \A u \in Slots :
           /\ transfers'[u].id = transfers[u].id /\ transfers'[u].sender = transfers[u].sender
           /\ transfers'[u].stage \in Begun => transfers[u].stage \in Begun
           /\ transfers'[u].stage \in {"sending", "sent"} =>
                transfers[u].stage \in {"sending", "sent"} /\ Left(transfers'[u]) \subseteq Left(transfers[u])
  PROVE  IdsDiffer' /\ EventsHaveBytes'
<1>1. IdsDiffer'
  BY DEF IdsDiffer
<1>2. EventsHaveBytes'
  BY DEF EventsHaveBytes
<1> QED
  BY <1>1, <1>2

LEMMA PageKept ==
  ASSUME HeldIsSent, StoredIsSent, UNCHANGED <<page, chunks>>
  PROVE  HeldIsSent' /\ StoredIsSent'
BY DEF HeldIsSent, StoredIsSent

\* The steps of a transfer that only its sender, or the native peer, sees.
LEMMA QuietSInv ==
  ASSUME IInv, SInv, NEW t \in Slots,
         \/ Answer(t) \/ SendChunk(t) \/ FinishSend(t) \/ Disconnect(t)
         \/ NativeChunk(t) \/ ChoosePath(t) \/ CreateFile(t) \/ WriteFile(t)
  PROVE  SInv'
<1> DEFINE x == transfers[t]
<1>1. transfers \in Seq(Transfer) /\ x \in Transfer /\ x \in AnyTransfer
  BY FieldsOf DEF IInv, WellFormed, Slots
<1>2. UNCHANGED <<nextId, memory, events, page, chunks>>
  BY DEF Answer, SendChunk, FinishSend, Disconnect, NativeChunk, ChoosePath, CreateFile, WriteFile,
         node, store
<1>3. PICK y : /\ transfers' = [transfers EXCEPT ![t] = y]
               /\ y.id = x.id /\ y.sender = x.sender
               /\ y.stage \in Begun => x.stage \in Begun
               /\ y.stage \in {"sending", "sent"} =>
                    x.stage \in {"sending", "sent"} /\ Left(y) \subseteq Left(x)
  <2>1. CASE Answer(t)
    <3>1. PICK todo : transfers' = [transfers EXCEPT ![t] = [x EXCEPT !.stage = "answered", !.todo = todo]]
      BY <2>1 DEF Answer
    <3> DEFINE z == [x EXCEPT !.stage = "answered", !.todo = todo]
    <3>2. z.id = x.id /\ z.sender = x.sender /\ z.stage = "answered"
      BY <1>1 DEF AnyTransfer
    <3>3. z.stage \notin Begun /\ z.stage \notin {"sending", "sent"}
      BY <3>2 DEF Begun
    <3> QED
      BY <3>1, <3>2, <3>3
  <2>2. CASE SendChunk(t)
    <3> DEFINE i == Min(x.todo)
               z == [x EXCEPT !.todo = @ \ {i}, !.wire = Append(@, i)]
    <3>1. transfers' = [transfers EXCEPT ![t] = z] /\ x.stage = "sending" /\ x.todo # {}
      BY <2>2 DEF SendChunk
    <3>2. x.todo \in SUBSET Nat /\ IsFiniteSet(x.todo)
      BY <1>1, FieldsOf
    <3>3. i \in x.todo
      BY <3>1, <3>2, MinIsMember
    <3> HIDE DEF i
    <3>4. Left(z) = Left(x)
      BY <1>1, <3>1, <3>3, SendEffect
    <3>5. z.id = x.id /\ z.sender = x.sender /\ z.stage = x.stage
      BY <1>1 DEF AnyTransfer
    <3> HIDE DEF z
    <3> QED
      BY <3>1, <3>4, <3>5
  <2>3. CASE FinishSend(t) \/ Disconnect(t)
    <3>1. PICK stage \in {"sent", "failed"} : transfers' = [transfers EXCEPT ![t] = [x EXCEPT !.stage = stage]]
      BY <2>3 DEF FinishSend, Disconnect, Goes
    <3>2. x.stage \in {"sending", "sent"}
      BY <2>3 DEF FinishSend, Disconnect, Connected
    <3> DEFINE z == [x EXCEPT !.stage = stage]
    <3>3. /\ z.id = x.id /\ z.sender = x.sender /\ Left(z) = Left(x)
      BY <1>1 DEF AnyTransfer, Left
    <3>4. x.stage \in Begun
      BY <3>2 DEF Begun, Stage
    <3> HIDE DEF z
    <3> QED
      BY <3>1, <3>2, <3>3, <3>4 DEF z
  <2>4. CASE NativeChunk(t)
    <3> DEFINE z == [x EXCEPT !.wire = Tail(@), !.count = @ + 1]
    <3>1. transfers' = [transfers EXCEPT ![t] = z] /\ x.wire # <<>>
      BY <2>4 DEF NativeChunk
    <3>2. Left(x) = Left(z) \cup {Head(x.wire)}
      BY <1>1, <3>1, ReceiveEffect
    <3>3. z.id = x.id /\ z.sender = x.sender /\ z.stage = x.stage
      BY <1>1 DEF AnyTransfer
    <3> HIDE DEF z
    <3> QED
      BY <3>1, <3>2, <3>3
  <2>5. CASE ChoosePath(t) \/ CreateFile(t) \/ WriteFile(t)
    <3>1. x.stage \in {"sent", "chosen", "writing"}
      BY <2>5 DEF ChoosePath, CreateFile, WriteFile, At
    <3>2. \E stage \in {"chosen", "writing", "done", "failed"} : \E path :
            transfers' = [transfers EXCEPT ![t] = [x EXCEPT !.stage = stage, !.path = path]]
      <4>1. CASE ChoosePath(t)
        <5>1. PICK path : transfers' = [transfers EXCEPT ![t] = [x EXCEPT !.stage = "chosen", !.path = path]]
          BY <4>1 DEF ChoosePath
        <5> QED
          BY <5>1
      <4>2. CASE CreateFile(t) \/ WriteFile(t)
        <5>1. PICK stage \in {"chosen", "writing", "done", "failed"} :
                transfers' = [transfers EXCEPT ![t] = [x EXCEPT !.stage = stage]]
          BY <4>2 DEF CreateFile, WriteFile, Goes
        <5>2. [x EXCEPT !.stage = stage, !.path = x.path] = [x EXCEPT !.stage = stage]
          BY <1>1 DEF AnyTransfer
        <5>3. transfers' = [transfers EXCEPT ![t] = [x EXCEPT !.stage = stage, !.path = x.path]]
          BY <5>1, <5>2
        <5> QED
          BY <5>3
      <4> QED
        BY <2>5, <4>1, <4>2
    <3>3. PICK stage \in {"chosen", "writing", "done", "failed"} : \E path :
            transfers' = [transfers EXCEPT ![t] = [x EXCEPT !.stage = stage, !.path = path]]
      BY <3>2
    <3>4. PICK path : transfers' = [transfers EXCEPT ![t] = [x EXCEPT !.stage = stage, !.path = path]]
      BY <3>3
    <3> DEFINE z == [x EXCEPT !.stage = stage, !.path = path]
    <3>5. z.id = x.id /\ z.sender = x.sender /\ z.stage = stage
      BY <1>1 DEF AnyTransfer
    <3>6. x.stage \in Begun
      BY <3>1 DEF Begun, Stage
    <3> HIDE DEF z
    <3> QED
      BY <3>4, <3>5, <3>6 DEF z
  <2> QED
    BY <2>1, <2>2, <2>3, <2>4, <2>5
<1>4. Slots' = Slots /\ transfers'[t] = y /\ \A u \in Slots : u # t => transfers'[u] = transfers[u]
  BY <1>1, <1>3 DEF Slots
<1>5. \A u \in Slots :
        /\ transfers'[u].id = transfers[u].id /\ transfers'[u].sender = transfers[u].sender
        /\ transfers'[u].stage \in Begun => transfers[u].stage \in Begun
        /\ transfers'[u].stage \in {"sending", "sent"} =>
             transfers[u].stage \in {"sending", "sent"} /\ Left(transfers'[u]) \subseteq Left(transfers[u])
  BY <1>3, <1>4
<1> QED
  BY <1>2, <1>4, <1>5, SendingKept, PageKept DEF SInv

\* A new transfer has no number yet.
LEMMA SendFileSInv ==
  ASSUME IInv, SInv, NEW s \in Sender, NEW f \in File, NEW to \in Peers, SendFile(s, f, to)
  PROVE  SInv'
<1> DEFINE y == [sender |-> s, file |-> f, to |-> to, stage |-> "query", todo |-> {}, own |-> TRUE,
                 id |-> 0, wire |-> <<>>, count |-> 0, path |-> <<>>]
<1>1. transfers' = Append(transfers, y) /\ transfers \in Seq(Transfer) /\ y.stage = "query"
      /\ UNCHANGED <<nextId, memory, events, page, chunks>>
  BY DEF SendFile, node, store, IInv, WellFormed
<1> HIDE DEF y
<1>2. \A u \in Slots' : (u \in Slots /\ transfers'[u] = transfers[u])
                      \/ transfers'[u].stage = "query"
  BY <1>1 DEF Slots
<1>3. \A u \in Slots' : transfers'[u].stage \in Begun => u \in Slots /\ transfers'[u] = transfers[u]
  BY <1>2 DEF Begun
<1>4. \A u \in Slots' : transfers'[u].stage \in {"sending", "sent"} =>
        u \in Slots /\ transfers'[u] = transfers[u]
  BY <1>2
<1>5. IdsDiffer'
  BY <1>1, <1>3 DEF SInv, IdsDiffer
<1>6. EventsHaveBytes'
  <2>1. ASSUME NEW n \in DOMAIN events, events[n].kind = "chunk", NEW u \in Slots',
               transfers'[u].stage \in {"sending", "sent"}, transfers'[u].id = events[n].id
        PROVE  events[n].chunk \notin Left(transfers'[u])
    <3>1. u \in Slots /\ transfers'[u] = transfers[u]
      BY <1>4, <2>1
    <3> QED
      BY <2>1, <3>1 DEF SInv, EventsHaveBytes
  <2> QED
    BY <1>1, <2>1 DEF SInv, EventsHaveBytes
<1> QED
  BY <1>1, <1>5, <1>6, PageKept DEF SInv

\* The number a sender takes is new, and with one sender nobody else has it.
LEMMA ConnectSInv ==
  ASSUME OneSender, IInv, SInv, NEW t \in Slots, NEW to \in Peers, Connect(t, to)
  PROVE  SInv'
<1>1. /\ transfers \in Seq(Transfer) /\ nextId \in [Sender -> Nat] /\ events \in Seq(Event)
      /\ \A u \in Slots : transfers[u] \in Transfer
  BY DEF IInv, WellFormed, Slots
<1>2. PICK y \in Transfer :
        /\ transfers' = [transfers EXCEPT ![t] = y]
        /\ y.sender = transfers[t].sender /\ y.stage = "sending" /\ y.id = nextId[y.sender]
  BY <1>1, ConnectEffect
<1>3. /\ nextId' = [nextId EXCEPT ![transfers[t].sender] = @ + 1]
      /\ transfers[t].stage \in {"query", "answered"}
      /\ UNCHANGED <<memory, events, page, chunks>>
  BY <1>1, ConnectEffect
<1>4. PICK s \in Sender : s = y.sender
  BY FieldsOf
<1>5. /\ \A u \in Slots : transfers[u].sender = s /\ transfers[u].id \in Nat
      /\ \A n \in DOMAIN events : events[n].sender = s /\ events[n].id \in Nat
  <2>1. \A u \in Slots : transfers[u].sender \in Sender /\ transfers[u].id \in Nat
    BY <1>1, FieldsOf
  <2>2. \A n \in DOMAIN events : events[n].sender \in Sender /\ events[n].id \in Nat
    BY <1>1 DEF Event
  <2> QED
    BY <2>1, <2>2 DEF OneSender
<1>6. nextId'[s] = nextId[s] + 1 /\ nextId[s] \in Nat /\ y.id = nextId[s]
  BY <1>1, <1>2, <1>3, <1>4
<1>7. Slots' = Slots /\ transfers'[t] = y /\ \A u \in Slots : u # t => transfers'[u] = transfers[u]
  BY <1>1, <1>2, OneChanges
<1>8. \A u \in Slots : transfers[u].stage \in Begun => transfers[u].id < nextId[s]
  BY <1>5 DEF SInv, IdsDiffer
<1>9. \A n \in DOMAIN events : events[n].id < nextId[s]
  BY <1>5 DEF SInv, IdsDiffer
<1>10. IdsDiffer'
  <2>1. \A n \in DOMAIN events : events[n].id < nextId'[events[n].sender]
    BY <1>5, <1>6, <1>9
  <2>2. ASSUME NEW u \in Slots, transfers'[u].stage \in Begun
        PROVE  transfers'[u].id < nextId'[transfers'[u].sender]
    <3>1. CASE u = t
      BY <1>4, <1>6, <1>7, <3>1
    <3>2. CASE u # t
      BY <1>5, <1>6, <1>7, <1>8, <2>2, <3>2
    <3> QED
      BY <3>1, <3>2
  <2>3. ASSUME NEW u \in Slots, NEW v \in Slots, transfers'[u].stage \in Begun,
               transfers'[v].stage \in Begun, transfers'[u].id = transfers'[v].id
        PROVE  u = v
    <3>1. CASE u = t /\ v # t
      BY <1>5, <1>6, <1>7, <1>8, <2>3, <3>1
    <3>2. CASE u # t /\ v = t
      BY <1>5, <1>6, <1>7, <1>8, <2>3, <3>2
    <3>3. CASE u # t /\ v # t
      BY <1>7, <2>3, <3>3 DEF SInv, IdsDiffer
    <3> QED
      BY <3>1, <3>2, <3>3
  <2> QED
    BY <1>3, <1>7, <2>1, <2>2, <2>3 DEF IdsDiffer
<1>11. EventsHaveBytes'
  <2>1. \A n \in DOMAIN events : events[n].id # y.id
    BY <1>5, <1>6, <1>9
  <2>2. ASSUME NEW n \in DOMAIN events, events[n].kind = "chunk", NEW u \in Slots,
               transfers'[u].stage \in {"sending", "sent"}, transfers'[u].id = events[n].id
        PROVE  events[n].chunk \notin Left(transfers'[u])
    <3>1. u # t /\ transfers'[u] = transfers[u]
      BY <1>7, <2>1, <2>2
    <3> QED
      BY <2>2, <3>1 DEF SInv, EventsHaveBytes
  <2> QED
    BY <1>3, <1>7, <2>2 DEF SInv, EventsHaveBytes
<1> QED
  BY <1>3, <1>10, <1>11, PageKept DEF SInv

\* The bytes go into the map with the event, and no other event is about them.
LEMMA ReceiveChunkSInv ==
  ASSUME IInv, SInv, NEW t \in Slots, ReceiveChunk(t)
  PROVE  SInv'
<1> USE DEF SInv
<1> DEFINE x == transfers[t]
           i == Head(x.wire)
           y == [x EXCEPT !.wire = Tail(@), !.count = @ + 1]
           e == EventOf(t, "chunk", i)
           entry == <<x.id, i, x.file>>
           N == Len(events) + 1
<1>1. x \in Transfer /\ x \in AnyTransfer /\ transfers \in Seq(Transfer) /\ events \in Seq(Event)
  BY FieldsOf DEF IInv, WellFormed, Slots
<1>2. /\ x.stage \in {"sending", "sent"} /\ x.wire # <<>>
      /\ memory' = {c \in memory : <<c[1], c[2]>> # <<x.id, i>>} \cup {entry}
      /\ events' = Append(events, e) /\ transfers' = [transfers EXCEPT ![t] = y]
      /\ UNCHANGED <<nextId, page, chunks>>
  BY DEF ReceiveChunk, store
<1>3. e.kind = "chunk" /\ e.chunk = i /\ e.id = x.id /\ e.file = x.file /\ e.sender = x.sender
  BY DEF EventOf
<1>4. y \in Transfer /\ Left(x) = Left(y) \cup {i} /\ i \notin Left(y)
  BY <1>1, <1>2, ReceiveEffect
<1>5. y.id = x.id /\ y.sender = x.sender /\ y.stage = x.stage /\ x.stage \in Begun
  BY <1>1, <1>2 DEF AnyTransfer, Begun, Stage
<1>6. entry[1] = x.id /\ entry[2] = i
  OBVIOUS
<1> HIDE DEF y, i, e, entry
<1>7. /\ Slots' = Slots
      /\ transfers'[t] = y /\ \A u \in Slots : u # t => transfers'[u] = transfers[u]
  BY <1>1, <1>2, <1>4, OneChanges
<1>8. /\ DOMAIN events' = DOMAIN events \cup {N} /\ N \notin DOMAIN events
      /\ events'[N] = e /\ \A n \in DOMAIN events : events'[n] = events[n]
  BY <1>1, <1>2
<1> HIDE DEF N
<1>9. IdsDiffer'
  <2>1. \A u \in Slots : /\ transfers'[u].id = transfers[u].id /\ transfers'[u].sender = transfers[u].sender
                         /\ transfers'[u].stage = transfers[u].stage
    BY <1>5, <1>7
  <2>2. e.id < nextId[e.sender]
    BY <1>3, <1>5 DEF IdsDiffer
  <2>3. \A n \in DOMAIN events' : events'[n].id < nextId[events'[n].sender]
    BY <1>8, <2>2 DEF IdsDiffer
  <2> QED
    BY <1>2, <1>7, <2>1, <2>3 DEF IdsDiffer
\* No event in the queue is about this chunk of this transfer.
<1>10. \A n \in DOMAIN events : events[n].kind = "chunk" => events[n].id # x.id \/ events[n].chunk # i
  BY <1>2, <1>4 DEF EventsHaveBytes
<1>11. EventsHaveBytes'
  <2>1. \A c, d \in memory' : c[1] = d[1] /\ c[2] = d[2] => c = d
    BY <1>2, <1>6 DEF EventsHaveBytes
  <2>2. ASSUME NEW n \in DOMAIN events', events'[n].kind = "chunk"
        PROVE  /\ <<events'[n].id, events'[n].chunk, events'[n].file>> \in memory'
               /\ \A m \in DOMAIN events' :
                    events'[m].kind = "chunk" /\ events'[m].id = events'[n].id
                    /\ events'[m].chunk = events'[n].chunk => m = n
               /\ \A u \in Slots :
                    transfers'[u].stage \in {"sending", "sent"} /\ transfers'[u].id = events'[n].id =>
                      events'[n].chunk \notin Left(transfers'[u])
    <3>1. CASE n = N
      <4>1. <<events'[n].id, events'[n].chunk, events'[n].file>> \in memory'
        BY <1>2, <1>3, <1>8, <3>1 DEF entry
      <4>2. \A m \in DOMAIN events' :
              events'[m].kind = "chunk" /\ events'[m].id = events'[n].id
              /\ events'[m].chunk = events'[n].chunk => m = n
        BY <1>3, <1>8, <1>10, <3>1
      <4>3. \A u \in Slots :
              transfers'[u].stage \in {"sending", "sent"} /\ transfers'[u].id = x.id => u = t
        <5>1. \A u \in Slots : transfers'[u].stage \in {"sending", "sent"} => transfers'[u].stage \in Begun
          BY DEF Begun, Stage
        <5> QED
          BY <1>5, <1>7, <5>1 DEF IdsDiffer
      <4> QED
        BY <1>3, <1>4, <1>7, <1>8, <3>1, <4>1, <4>2, <4>3
    <3>2. CASE n \in DOMAIN events
      <4>1. events'[n] = events[n] /\ events[n].kind = "chunk"
        BY <1>8, <2>2, <3>2
      <4>2. <<events[n].id, events[n].chunk, events[n].file>> \in memory'
        <5>1. <<events[n].id, events[n].chunk, events[n].file>> \in memory
          BY <3>2, <4>1 DEF EventsHaveBytes
        <5> QED
          BY <1>2, <1>10, <3>2, <4>1, <5>1
      <4>3. ASSUME NEW m \in DOMAIN events', events'[m].kind = "chunk",
                   events'[m].id = events[n].id, events'[m].chunk = events[n].chunk
            PROVE  m = n
        <5>1. m # N
          BY <1>3, <1>8, <1>10, <3>2, <4>1, <4>3
        <5>2. m \in DOMAIN events /\ events'[m] = events[m]
          BY <1>8, <5>1
        <5> QED
          BY <3>2, <4>1, <4>3, <5>2 DEF EventsHaveBytes
      <4>4. \A u \in Slots :
              transfers'[u].stage \in {"sending", "sent"} /\ transfers'[u].id = events[n].id =>
                events[n].chunk \notin Left(transfers'[u])
        <5>1. \A u \in Slots : /\ transfers'[u].id = transfers[u].id
                               /\ transfers'[u].stage = transfers[u].stage
                               /\ Left(transfers'[u]) \subseteq Left(transfers[u])
          BY <1>4, <1>5, <1>7
        <5> QED
          BY <3>2, <4>1, <5>1 DEF EventsHaveBytes
      <4> QED
        BY <4>1, <4>2, <4>3, <4>4
    <3> QED
      BY <1>8, <3>1, <3>2
  <2> QED
    BY <1>7, <2>1, <2>2 DEF EventsHaveBytes
<1> QED
  BY <1>2, <1>9, <1>11, PageKept

LEMMA EndReceiveSInv ==
  ASSUME IInv, SInv, NEW t \in Slots, EndReceive(t)
  PROVE  SInv'
<1> USE DEF SInv
<1> DEFINE x == transfers[t]
           y == [x EXCEPT !.stage = "done"]
           e == EventOf(t, "completed", 0)
           N == Len(events) + 1
<1>1. x \in Transfer /\ transfers \in Seq(Transfer) /\ events \in Seq(Event)
  BY DEF IInv, WellFormed, Slots
<1>2. /\ x.stage = "sent" /\ transfers' = [transfers EXCEPT ![t] = y]
      /\ events' \in {Append(events, e), events}
      /\ UNCHANGED <<nextId, memory, page, chunks>>
  BY DEF EndReceive, At, Goes, store
<1>3. x.todo = {} /\ x.stage \in Begun /\ "done" \in Begun /\ "done" \notin {"chosen", "writing"}
  BY <1>1, <1>2 DEF Transfer, Begun, Stage
<1>4. y \in Transfer /\ y.sender = x.sender /\ y.id = x.id /\ y.stage = "done"
  BY <1>1, <1>3, StageEffect
<1>5. e.kind = "completed" /\ e.id = x.id /\ e.sender = x.sender
  BY DEF EventOf
<1> HIDE DEF y, e
<1>6. /\ Slots' = Slots
      /\ transfers'[t] = y /\ \A u \in Slots : u # t => transfers'[u] = transfers[u]
  BY <1>1, <1>2, <1>4, OneChanges
<1>7. \A n \in DOMAIN events' : (n \in DOMAIN events /\ events'[n] = events[n]) \/ events'[n] = e
  BY <1>1, <1>2
<1>8. \A n \in DOMAIN events : n \in DOMAIN events' /\ events'[n] = events[n]
  BY <1>1, <1>2
<1>9. IdsDiffer'
  <2>1. \A u \in Slots : /\ transfers'[u].id = transfers[u].id /\ transfers'[u].sender = transfers[u].sender
                         /\ transfers'[u].stage \in Begun => transfers[u].stage \in Begun
    BY <1>3, <1>4, <1>6
  <2>2. e.id < nextId[e.sender]
    BY <1>3, <1>5 DEF IdsDiffer
  <2>3. \A n \in DOMAIN events' : events'[n].id < nextId[events'[n].sender]
    BY <1>7, <2>2 DEF IdsDiffer
  <2> QED
    BY <1>2, <1>6, <2>1, <2>3 DEF IdsDiffer
<1>10. EventsHaveBytes'
  <2>1. \A n \in DOMAIN events' : events'[n].kind = "chunk" => n \in DOMAIN events /\ events'[n] = events[n]
    BY <1>5, <1>7
  <2>2. \A u \in Slots : transfers'[u].stage \in {"sending", "sent"} => transfers'[u] = transfers[u]
    BY <1>4, <1>6
  <2> QED
    BY <1>2, <1>6, <2>1, <2>2 DEF EventsHaveBytes
<1> QED
  BY <1>2, <1>9, <1>10, PageKept

\* The first event leaves the queue, and the map what that event was about.
LEMMA TakesSInv ==
  ASSUME IInv, IdsDiffer, EventsHaveBytes, events # <<>>, events' = Tail(events),
         UNCHANGED <<transfers, nextId>>, memory' \subseteq memory,
         \A c \in memory \ memory' : Head(events).kind = "chunk" /\ c[1] = Head(events).id
                                     /\ c[2] = Head(events).chunk
  PROVE  IdsDiffer' /\ EventsHaveBytes'
<1>1. /\ DOMAIN events' = 1..(Len(events) - 1) /\ DOMAIN events = 1..Len(events)
      /\ \A n \in 1..(Len(events) - 1) : events'[n] = events[n + 1]
      /\ Head(events) = events[1] /\ 1 \in DOMAIN events /\ Len(events) \in Nat
  BY TailFacts DEF IInv, WellFormed
<1>2. \A n \in DOMAIN events' : n + 1 \in DOMAIN events /\ events'[n] = events[n + 1] /\ n \in Nat /\ n + 1 # 1
  BY <1>1
<1>3. IdsDiffer'
  BY <1>2 DEF IdsDiffer, Slots
<1>4. EventsHaveBytes'
  <2>1. ASSUME NEW n \in DOMAIN events', events'[n].kind = "chunk"
        PROVE  /\ <<events'[n].id, events'[n].chunk, events'[n].file>> \in memory'
               /\ \A m \in DOMAIN events' :
                    events'[m].kind = "chunk" /\ events'[m].id = events'[n].id
                    /\ events'[m].chunk = events'[n].chunk => m = n
    <3> DEFINE c == <<events'[n].id, events'[n].chunk, events'[n].file>>
    <3>1. c \in memory /\ c[1] = events[n + 1].id /\ c[2] = events[n + 1].chunk
      BY <1>2, <2>1 DEF EventsHaveBytes
    <3>2. ~(events[1].kind = "chunk" /\ events[1].id = events[n + 1].id
            /\ events[1].chunk = events[n + 1].chunk)
      BY <1>1, <1>2, <2>1 DEF EventsHaveBytes
    <3>3. c \in memory'
      BY <1>1, <3>1, <3>2
    <3>4. ASSUME NEW m \in DOMAIN events', events'[m].kind = "chunk", events'[m].id = events'[n].id,
                 events'[m].chunk = events'[n].chunk
          PROVE  m = n
      <4>1. /\ m + 1 \in DOMAIN events /\ n + 1 \in DOMAIN events
            /\ events[m + 1].kind = "chunk" /\ events[n + 1].kind = "chunk"
            /\ events[m + 1].id = events[n + 1].id /\ events[m + 1].chunk = events[n + 1].chunk
        BY <1>2, <2>1, <3>4
      <4>2. m + 1 = n + 1
        BY <4>1 DEF EventsHaveBytes
      <4> QED
        BY <1>2, <4>2
    <3> QED
      BY <3>3, <3>4
  <2>2. \A n \in DOMAIN events' : \A t \in Slots :
          events'[n].kind = "chunk" /\ transfers[t].stage \in {"sending", "sent"}
          /\ transfers[t].id = events'[n].id => events'[n].chunk \notin Left(transfers[t])
    <3> SUFFICES ASSUME NEW n \in DOMAIN events', NEW t \in Slots, events'[n].kind = "chunk",
                        transfers[t].stage \in {"sending", "sent"}, transfers[t].id = events'[n].id
                 PROVE  events'[n].chunk \notin Left(transfers[t])
      OBVIOUS
    <3>1. n + 1 \in DOMAIN events /\ events'[n] = events[n + 1]
      BY <1>2
    <3> QED
      BY <3>1 DEF EventsHaveBytes
  <2>3. \A c, d \in memory' : c[1] = d[1] /\ c[2] = d[2] => c = d
    BY DEF EventsHaveBytes
  <2> QED
    BY <2>1, <2>2, <2>3 DEF EventsHaveBytes, Slots
<1> QED
  BY <1>3, <1>4

\* The event finds its bytes, and nothing else.
LEMMA TakeChunkSInv ==
  ASSUME IInv, SInv, TakeChunk
  PROVE  SInv'
<1> USE DEF SInv
<1>1. PICK e \in Event : e = Head(events) /\ e = events[1] /\ 1 \in DOMAIN events
  BY DEF TakeChunk, IInv, WellFormed
<1> DEFINE taken == {c \in memory : c[1] = e.id /\ c[2] = e.chunk}
           entry == <<e.id, e.chunk, e.file>>
<1>2. /\ events # <<>> /\ e.kind = "chunk" /\ events' = Tail(events)
      /\ UNCHANGED <<transfers, nextId, chunks>>
  BY <1>1 DEF TakeChunk, store
<1>3. entry \in memory
  BY <1>1, <1>2 DEF EventsHaveBytes
<1>4. taken = {entry}
  BY <1>3 DEF EventsHaveBytes
<1>5. /\ memory' = memory \ taken
      /\ page' = [Idle EXCEPT !.stage = "manifest", !.event = e, !.bytes = entry[3]]
  <2>1. taken # {} /\ (CHOOSE c \in taken : TRUE) = entry
    BY <1>4
  <2>2. taken = {c \in memory : c[1] = Head(events).id /\ c[2] = Head(events).chunk}
    BY <1>1
  <2> HIDE DEF entry, taken
  <2> QED
    BY <1>1, <2>1, <2>2 DEF TakeChunk
<1>6. page'.stage = "manifest" /\ page'.event = e /\ page'.bytes = e.file
  BY <1>5 DEF Idle
<1>7. IdsDiffer' /\ EventsHaveBytes'
  BY <1>1, <1>2, <1>5, TakesSInv
<1>8. HeldIsSent' /\ StoredIsSent'
  BY <1>2, <1>6 DEF HeldIsSent, StoredIsSent
<1> QED
  BY <1>7, <1>8

\* The page moves on with the chunk it holds, or is told of a completed file.
LEMMA PageSInv ==
  ASSUME IInv, SInv, LoadManifest \/ LoadChunk \/ StoreChunk \/ MarkCompleted
  PROVE  SInv'
<1> USE DEF SInv
<1>1. UNCHANGED <<transfers, nextId, memory>>
  BY DEF LoadManifest, LoadChunk, StoreChunk, MarkCompleted
<1>2. CASE LoadManifest \/ LoadChunk
  <2>1. /\ page.stage \in Held /\ page'.stage \in Held /\ UNCHANGED <<events, chunks>>
        /\ page'.event = page.event /\ page'.bytes = page.bytes
    BY <1>2 DEF LoadManifest, LoadChunk, store, IInv, WellFormed, Held
  <2>2. HeldIsSent' /\ StoredIsSent'
    BY <2>1 DEF HeldIsSent, StoredIsSent, Held
  <2> QED
    BY <1>1, <2>1, <2>2 DEF IdsDiffer, EventsHaveBytes, Slots
<1>3. CASE StoreChunk
  <2>1. PICK k \in Keys : k = KeyOf(page.event) /\ k[2] = page.event.file
    BY <1>3, HeldEvent DEF StoreChunk, Held, IInv
  <2>2. PICK i : i = page.event.chunk
    OBVIOUS
  <2>3. page.bytes = k[2] /\ page' = Idle /\ UNCHANGED events
    BY <1>3, <2>1 DEF StoreChunk, HeldIsSent, Held
  <2>4. chunks' = [chunks EXCEPT ![k][i] = k[2]]
    BY <1>3, <2>1, <2>2, <2>3 DEF StoreChunk
  <2>5. StoredIsSent'
    <3>1. page'.stage # "dead"
      BY <2>3 DEF Idle
    <3>2. ASSUME NEW l \in Keys, NEW j \in Chunks(l[2])
          PROVE  chunks'[l][j] \in {None, l[2]}
      <4>1. chunks[l] \in [Chunks(l[2]) -> File \cup {None}] /\ DOMAIN chunks = Keys
        BY DEF IInv, WellFormed
      <4>2. chunks'[l][j] = IF l = k /\ j = i THEN k[2] ELSE chunks[l][j]
        BY <2>4, <4>1
      <4> QED
        BY <4>2 DEF StoredIsSent
    <3> QED
      BY <3>1, <3>2 DEF StoredIsSent
  <2>6. HeldIsSent'
    BY <2>3 DEF HeldIsSent, Idle, Held
  <2> QED
    BY <1>1, <2>3, <2>5, <2>6 DEF IdsDiffer, EventsHaveBytes, Slots
<1>4. CASE MarkCompleted
  <2>1. events # <<>> /\ events' = Tail(events) /\ UNCHANGED <<page, chunks>>
    BY <1>4 DEF MarkCompleted
  <2> QED
    BY <1>1, <2>1, TakesSInv, PageKept
<1> QED
  BY <1>2, <1>3, <1>4

\* Both a reload and a deletion only forget.
LEMMA ForgetsSInv ==
  ASSUME IInv, SInv, Reload \/ \E k \in Keys : Delete(k)
  PROVE  SInv'
<1> USE DEF SInv
<1>1. CASE Reload
  <2>1. memory' = {} /\ events' = <<>> /\ page' = Idle /\ UNCHANGED <<nextId, chunks>>
    BY <1>1 DEF Reload, store
  <2>2. transfers' = [t \in Slots |-> IF transfers[t].to = "browser" /\ Connected(t)
                                      THEN [transfers[t] EXCEPT !.stage = "failed"]
                                      ELSE transfers[t]]
    BY <1>1 DEF Reload
  <2>3. \A t \in Slots : transfers[t] \in AnyTransfer
    BY DEF IInv, WellFormed, Slots, Transfer
  <2>4. Slots' = Slots
    BY <2>2 DEF Slots
  <2>5. \A t \in Slots : /\ transfers'[t].id = transfers[t].id /\ transfers'[t].sender = transfers[t].sender
                         /\ transfers'[t].stage \in Begun => transfers[t].stage \in Begun
    <3> SUFFICES ASSUME NEW t \in Slots
                 PROVE  /\ transfers'[t].id = transfers[t].id /\ transfers'[t].sender = transfers[t].sender
                        /\ transfers'[t].stage \in Begun => transfers[t].stage \in Begun
      OBVIOUS
    <3>1. CASE transfers[t].to = "browser" /\ Connected(t)
      <4>1. transfers'[t] = [transfers[t] EXCEPT !.stage = "failed"]
        BY <2>2, <3>1
      <4>2. transfers[t].stage \in Begun
        BY <3>1 DEF Connected, Begun, Stage
      <4> QED
        BY <2>3, <4>1, <4>2 DEF AnyTransfer
    <3>2. CASE ~(transfers[t].to = "browser" /\ Connected(t))
      BY <2>2, <3>2
    <3> QED
      BY <3>1, <3>2
  <2>6. DOMAIN events' = {}
    BY <2>1
  <2>7. IdsDiffer'
    BY <2>1, <2>4, <2>5, <2>6 DEF IdsDiffer
  <2>8. EventsHaveBytes'
    BY <2>1, <2>6 DEF EventsHaveBytes
  <2>9. HeldIsSent' /\ StoredIsSent'
    BY <2>1 DEF HeldIsSent, StoredIsSent, Idle, Held
  <2> QED
    BY <2>7, <2>8, <2>9
<1>2. ASSUME NEW k \in Keys, Delete(k) PROVE SInv'
  <2>1. chunks' = [chunks EXCEPT ![k] = NoChunks(k[2])]
        /\ UNCHANGED <<transfers, nextId, memory, events, page>>
    BY <1>2 DEF Delete, node
  <2>2. StoredIsSent'
    BY <2>1 DEF StoredIsSent, NoChunks, IInv, WellFormed
  <2> QED
    BY <2>1, <2>2 DEF IdsDiffer, EventsHaveBytes, HeldIsSent, Slots
<1> QED
  BY <1>1, <1>2

\* A failure of the store only ends what the page does.
LEMMA StoreFailsSInv ==
  ASSUME IInv, SInv, StoreFails
  PROVE  SInv'
<1> USE DEF SInv
<1>1. /\ page'.stage = "stopped" /\ UNCHANGED <<transfers, nextId, memory, chunks>>
      /\ \/ events' = events
         \/ events # <<>> /\ Head(events).kind = "completed" /\ events' = Tail(events)
  BY DEF StoreFails, store, Idle
<1>2. HeldIsSent' /\ StoredIsSent'
  BY <1>1 DEF HeldIsSent, StoredIsSent, Held
<1>3. IdsDiffer' /\ EventsHaveBytes'
  <2>1. CASE events' = events
    BY <1>1, <2>1 DEF IdsDiffer, EventsHaveBytes, Slots
  <2>2. CASE events # <<>> /\ events' = Tail(events)
    BY <1>1, <2>2, TakesSInv
  <2> QED
    BY <1>1, <2>1, <2>2
<1> QED
  BY <1>2, <1>3

LEMMA NextSInv == OneSender /\ IInv /\ SInv /\ [Next]_vars => SInv'
<1> SUFFICES ASSUME OneSender, IInv, SInv, [Next]_vars PROVE SInv'
  OBVIOUS
<1>1. CASE UNCHANGED vars
  <2>1. UNCHANGED <<transfers, nextId, memory, events, page, chunks>>
    BY <1>1 DEF vars, node, store
  <2> QED
    BY <2>1, PageKept DEF SInv, IdsDiffer, EventsHaveBytes, Slots
<1>2. ASSUME NEW s \in Sender, NEW f \in File, NEW to \in Peers, SendFile(s, f, to)
      PROVE  SInv'
  BY <1>2, SendFileSInv
<1>3. ASSUME NEW t \in Slots, BeginSend(t) \/ \E to \in {"browser", "native"} : Redirect(t, to)
      PROVE  SInv'
  <2>1. transfers \in Seq(Transfer)
    BY DEF IInv, WellFormed
  <2>2. PICK to \in Peers : Connect(t, to)
    BY <1>3, <2>1, Connects
  <2> QED
    BY <2>2, ConnectSInv
<1>4. ASSUME NEW t \in Slots, Step(t) \/ Disconnect(t) PROVE SInv'
  <2>1. CASE BeginSend(t)     BY <1>3, <2>1
  <2>2. CASE ReceiveChunk(t)  BY <2>2, ReceiveChunkSInv
  <2>3. CASE EndReceive(t)    BY <2>3, EndReceiveSInv
  <2>4. CASE \/ Answer(t) \/ SendChunk(t) \/ FinishSend(t) \/ Disconnect(t)
             \/ NativeChunk(t) \/ ChoosePath(t) \/ CreateFile(t) \/ WriteFile(t)
    BY <2>4, QuietSInv
  <2> QED
    BY <1>4, <2>1, <2>2, <2>3, <2>4 DEF Step
<1>5. CASE Page
  <2>1. CASE TakeChunk  BY <2>1, TakeChunkSInv
  <2>2. CASE LoadManifest \/ LoadChunk \/ StoreChunk \/ MarkCompleted  BY <2>2, PageSInv
  <2> QED
    BY <1>5, <2>1, <2>2 DEF Page
<1>6. CASE StoreFails
  BY <1>6, StoreFailsSInv
<1>7. CASE Reload \/ \E k \in Keys : Delete(k)
  BY <1>7, ForgetsSInv
<1> QED
  BY <1>1, <1>2, <1>3, <1>4, <1>5, <1>6, <1>7 DEF Next

\* While one browser sends, every event finds its chunk, so that no missing chunk ends the
\* event loop of the receiving page, and the bytes stored for a file are the file's.  With
\* two senders, whose transfer ids are not told apart, this is false: see the run two_senders.
THEOREM StoredBySingleSender == OneSender /\ Spec => []StoredIsSent
<1>1. Init => SInv
  BY DEF Init, SInv, IdsDiffer, EventsHaveBytes, HeldIsSent, StoredIsSent, Slots, Idle, Held, NoChunks
<1>2. SInv => StoredIsSent
  BY DEF SInv
<1>3. OneSender => (Spec => []SInv)
  <2> SUFFICES ASSUME OneSender PROVE Spec => []SInv
    OBVIOUS
  <2>1. IInv /\ SInv /\ [Next]_vars => SInv'
    BY NextSInv
  <2> QED
    BY <1>1, <2>1, Invariance, PTL DEF Spec
<1> QED
  BY <1>2, <1>3, PTL
=============================================================================
