------------------------ MODULE RendezvousRoom_proofs ------------------------
(* The room's bookkeeping of sockets and sessions, for any peers, capacity   *)
(* and bounds, and what follows from it: a browser is refused only by a room *)
(* that is full of others.  And what the browsers show of the room: who has  *)
(* a session, once they have read what is under way.                         *)
EXTENDS RendezvousRoom, FiniteSetTheorems, TLAPS

\* Of the sockets of one endpoint id only one is open: the room replaces sessions.
OneOpen ==
  \A s, t \in Socket : ready[s] = "open" /\ ready[t] = "open" /\ Owner(s) = Owner(t) => s = t

\* The room forgets no session whose socket is open, awake or after hibernation.
OpenHasSession == \A s \in Socket : ready[s] = "open" => s \in sessions

IInv == TypeOK /\ OneOpen /\ OpenHasSession

(* What the room does to its sockets in one step, for the lemmas below: it  *)
(* closes some of those with a session and ends sessions it closed.         *)
Closes(closed) ==
  /\ closed \subseteq sessions
  /\ ready' = CloseSockets(closed)
  /\ sessions' \in SUBSET sessions
  /\ \A s \in sessions : s \notin sessions' => s \in closed \/ ready[s] # "open"

LEMMA InitIInv == Init => IInv
<1> SUFFICES ASSUME Init PROVE IInv
  OBVIOUS
<1> USE RoomAssumption, RoomBounds DEF Init
<1>1. 0 \in 0..MaxSockets /\ 0 \in 0..MaxAttempts /\ 0 \in 0..MaxJoins /\ 0 \in 0..MaxFaults
  OBVIOUS
<1>2. \A e \in Peer : mode[e] = "in" <=> link[e] # 0
  OBVIOUS
<1>3. wire \in [Socket -> Seq(Messages)]
  OBVIOUS
<1>4. /\ ready \in [Socket -> {"open", "closing", "closed"}]
      /\ gone \subseteq Socket /\ sessions \subseteq Socket /\ expired \in BOOLEAN
  OBVIOUS
<1>5. TypeOK
  BY <1>1, <1>2, <1>3, <1>4 DEF TypeOK
<1> QED
  BY <1>5 DEF IInv, OneOpen, OpenHasSession

(* Closing sockets keeps the books.                                         *)
LEMMA ClosesKeeps ==
  ASSUME IInv, NEW closed, Closes(closed)
  PROVE  /\ ready' \in [Socket -> {"open", "closing", "closed"}]
         /\ sessions' \subseteq Socket
         /\ OneOpen' /\ OpenHasSession'
<1> USE DEF IInv, TypeOK, Closes, CloseSockets
<1>1. ready' \in [Socket -> {"open", "closing", "closed"}] /\ sessions' \subseteq Socket
  BY DEF Closes
<1>2. \A s \in Socket : ready'[s] = "open" => ready[s] = "open" /\ s \notin closed
  OBVIOUS
<1>3. OneOpen'
  BY <1>2 DEF OneOpen
<1>4. OpenHasSession'
  BY <1>2 DEF OpenHasSession
<1> QED
  BY <1>1, <1>3, <1>4

(* What the room sends are messages.                                        *)
LEMMA SetToSeqType ==
  ASSUME NEW S, IsFiniteSet(S)
  PROVE  SetToSeq(S) \in Seq(S)
<1>1. Cardinality(S) \in Nat /\ ExistsBijection(1..Cardinality(S), S)
  BY FS_CardinalityType
<1>2. \E f \in [1..Cardinality(S) -> S] : IsInjective(f)
  BY <1>1 DEF ExistsBijection, Bijection, Injection
<1>3. SetToSeq(S) \in [1..Cardinality(S) -> S]
  BY <1>2 DEF SetToSeq
<1> QED
  BY <1>1, <1>3

LEMMA LeftsType ==
  ASSUME NEW s \in Socket, NEW ended \in SUBSET Socket
  PROVE  Lefts(s, ended) \in Seq(Messages)
<1> DEFINE T == Owners(ended) \ {Owner(s)}
           f == [e \in T |-> Message("left", {e})]
           M == {Message("left", {e}) : e \in T}
<1>1. T \in SUBSET Peer
  BY DEF Owners, Owner, Socket
<1>2. IsFiniteSet(T)
  BY <1>1, FS_Subset, RoomAssumption
<1>3. f \in Surjection(T, M)
  BY DEF Surjection
<1>4. IsFiniteSet(M)
  BY <1>2, <1>3, FS_Surjection
<1>5. SetToSeq(M) \in Seq(M)
  BY <1>4, SetToSeqType
<1>6. M \subseteq Messages
  BY <1>1 DEF Message, Messages
<1> HIDE DEF M
<1>7. SetToSeq(M) \in Seq(Messages)
  BY <1>5, <1>6
<1> QED
  BY <1>7 DEF Lefts, M

LEMMA CleanWireType == IInv => CleanWire \in [Socket -> Seq(Messages)]
<1> SUFFICES ASSUME IInv PROVE CleanWire \in [Socket -> Seq(Messages)]
  OBVIOUS
<1>1. Dead \in SUBSET Socket
  BY DEF Dead, IInv, TypeOK
<1>2. \A s \in Socket : Lefts(s, Dead) \in Seq(Messages)
  BY <1>1, LeftsType
<1>3. \A s \in Socket : Farewell(s) \in Seq(Messages)
  <2>1. Message("expired", {}) \in Messages
    BY DEF Message, Messages
  <2> QED
    BY <2>1 DEF Farewell
<1>4. \A s \in Socket : Lefts(s, Dead) \o Farewell(s) \in Seq(Messages)
  BY <1>2, <1>3
<1>5. wire \in [Socket -> Seq(Messages)]
  BY DEF IInv, TypeOK
<1> QED
  BY <1>4, <1>5 DEF CleanWire, Broadcast

(* A browser whose connection failed is somewhere it can be.                *)
LEMMA RetryType ==
  ASSUME IInv, NEW e \in Peer, Retry(e)
  PROVE  /\ mode' \in [Peer -> {"out", "connecting", "in", "fallback"}]
         /\ attempts' \in [Peer -> 0..MaxAttempts]
         /\ mode'[e] \in {"connecting", "fallback"}
         /\ \A x \in Peer \ {e} : mode'[x] = mode[x] /\ attempts'[x] = attempts[x]
<1>1. /\ mode \in [Peer -> {"out", "connecting", "in", "fallback"}]
      /\ attempts \in [Peer -> 0..MaxAttempts]
  BY DEF IInv, TypeOK
<1> QED
  BY <1>1, RoomAssumption DEF Retry

(* The room answers a connection.                                           *)
LEMMA FetchIInv ==
  ASSUME IInv, NEW e \in Peer, Fetch(e)
  PROVE  IInv'
<1> USE DEF IInv
<1>0. /\ mode[e] = "connecting" /\ expired' = FALSE
      /\ UNCHANGED <<revived, joins, faults>>
      /\ \E k \in 1..MaxSockets : ready[<<e, k>>] = "closed"
  BY DEF Fetch
<1>1. CASE Refuse(e)
  <2>1. Closes(Expelled \cup {s \in Kept : Owner(s) = e})
    BY <1>1 DEF Refuse, EvictDuplicate, Closes, Kept, Expelled, Living, Dead
  <2>2. wire' \in [Socket -> Seq(Messages)]
    BY <1>1, CleanWireType DEF Refuse
  <2>3. Retry(e) /\ UNCHANGED <<gone, link, peers>>
    BY <1>1 DEF Refuse
  <2>4. \A x \in Peer : mode'[x] = "in" <=> link'[x] # 0
    BY <1>0, <2>3, RetryType DEF TypeOK
  <2> QED
    BY <1>0, <2>1, <2>2, <2>3, <2>4, ClosesKeeps, RetryType DEF TypeOK
<1>2. CASE Accept(e)
  <2> DEFINE n == CHOOSE k \in 1..MaxSockets : ready[<<e, k>>] = "closed"
             new == <<e, n>>
             rest == EvictDuplicate(Kept, e)
             shut == Expelled \cup {s \in Kept : Owner(s) = e}
  <2>1. n \in 1..MaxSockets /\ ready[new] = "closed" /\ new \in Socket /\ Owner(new) = e
    BY <1>0 DEF Socket, Owner
  <2>2. /\ ready' = [CloseSockets(shut) EXCEPT ![new] = "open"]
        /\ sessions' = rest \cup {new}
        /\ gone' = gone \ {new}
        /\ link' = [link EXCEPT ![e] = n]
        /\ mode' = [mode EXCEPT ![e] = "in"]
        /\ attempts' = [attempts EXCEPT ![e] = 0]
        /\ UNCHANGED peers
    BY <1>2 DEF Accept
  <2>20. wire' = [Broadcast(CleanWire, {s \in rest : Owner(s) # e},
                            [s \in Socket |-> <<Message("joined", {e})>>])
                    EXCEPT ![new] = <<Message("snapshot", Owners(rest))>>]
    BY <1>2 DEF Accept
  <2> HIDE DEF n
  <2>3. wire' \in [Socket -> Seq(Messages)]
    <3> DEFINE told == Broadcast(CleanWire, {s \in rest : Owner(s) # e},
                                 [s \in Socket |-> <<Message("joined", {e})>>])
    <3>1. wire' = [told EXCEPT ![new] = <<Message("snapshot", Owners(rest))>>]
      BY <2>20
    <3>2. <<Message("joined", {e})>> \in Seq(Messages)
      BY DEF Message, Messages
    <3>3. told \in [Socket -> Seq(Messages)]
      BY <3>2, CleanWireType DEF Broadcast
    <3>4. Owners(rest) \subseteq Peer
      BY DEF Owners, Owner, EvictDuplicate, Kept, Living, TypeOK, Socket
    <3>5. <<Message("snapshot", Owners(rest))>> \in Seq(Messages)
      BY <3>4 DEF Message, Messages
    <3> HIDE DEF told
    <3> QED
      BY <3>1, <3>3, <3>5
  <2>4. /\ rest \subseteq Socket
        /\ \A s \in Socket : ready[s] = "open" => s \in rest \/ s \in shut
        /\ \A s \in rest : Owner(s) # e
    BY DEF EvictDuplicate, Kept, Expelled, Living, Dead, OpenHasSession, TypeOK
  <2>5. \A s \in Socket : ready'[s] = "open" => s = new \/ (ready[s] = "open" /\ s \in rest)
    BY <2>1, <2>2, <2>4 DEF CloseSockets, TypeOK
  <2>6. OneOpen'
    BY <2>1, <2>4, <2>5 DEF OneOpen
  <2>7. OpenHasSession'
    BY <2>2, <2>5 DEF OpenHasSession
  <2>8. ready' \in [Socket -> {"open", "closing", "closed"}] /\ sessions' \subseteq Socket
    BY <2>1, <2>2, <2>4 DEF CloseSockets, TypeOK
  <2>9. \A x \in Peer : mode'[x] = "in" <=> link'[x] # 0
    <3>1. n # 0
      BY <2>1, RoomBounds
    <3> QED
      BY <2>2, <3>1 DEF TypeOK
  <2>10. /\ link' \in [Peer -> 0..MaxSockets]
         /\ mode' \in [Peer -> {"out", "connecting", "in", "fallback"}]
         /\ attempts' \in [Peer -> 0..MaxAttempts]
    BY <2>1, <2>2, RoomAssumption, RoomBounds DEF TypeOK
  <2> QED
    BY <1>0, <2>2, <2>3, <2>6, <2>7, <2>8, <2>9, <2>10 DEF TypeOK
<1> QED
  BY <1>1, <1>2 DEF Fetch

(* A fault is counted within its bound.                                     *)
LEMMA FaultType == TypeOK /\ Fault => faults' \in 0..MaxFaults
BY RoomBounds DEF TypeOK, Fault

(* Every step keeps the books.                                              *)
LEMMA NextIInv == IInv /\ [Next]_vars => IInv'
<1> SUFFICES ASSUME IInv, [Next]_vars
             PROVE  IInv'
  OBVIOUS
<1> USE RoomAssumption, RoomBounds
<1> USE DEF IInv
<1>1. ASSUME NEW e \in Peer, JoinCode(e)
      PROVE  IInv'
  <2> USE <1>1 DEF JoinCode, room
  <2>1. TypeOK'
    BY DEF TypeOK
  <2> QED
    BY <2>1 DEF OneOpen, OpenHasSession
<1>2. ASSUME NEW e \in Peer, Leave(e)
      PROVE  IInv'
  <2> USE <1>2 DEF Leave, Close, Lost
  <2>1. TypeOK'
    BY DEF TypeOK, Link, Socket
  <2> QED
    BY <2>1 DEF OneOpen, OpenHasSession
<1>3. ASSUME NEW e \in Peer, Drop(e)
      PROVE  IInv'
  <2>1. /\ mode[e] = "in" /\ Fault /\ Retry(e)
        /\ gone' = gone \cup {Link(e)} /\ link' = [link EXCEPT ![e] = 0]
        /\ wire' = [wire EXCEPT ![Link(e)] = <<>>]
        /\ UNCHANGED <<ready, sessions, expired, peers, revived, joins>>
    BY <1>3 DEF Drop, Close, Lost
  <2>2. Link(e) \in Socket
    BY <2>1 DEF Link, Socket, TypeOK
  <2>3. \A x \in Peer : mode'[x] = "in" <=> link'[x] # 0
    BY <2>1, RetryType DEF TypeOK
  <2>4. faults' \in 0..MaxFaults
    BY <2>1, FaultType
  <2>5. TypeOK'
    BY <2>1, <2>2, <2>3, <2>4, RetryType DEF TypeOK
  <2> QED
    BY <2>1, <2>5 DEF OneOpen, OpenHasSession
<1>4. ASSUME NEW e \in Peer, Fetch(e)
      PROVE  IInv'
  BY <1>4, FetchIInv
<1>5. ASSUME NEW e \in Peer, Receive(e)
      PROVE  IInv'
  <2>1. /\ mode[e] = "in"
        /\ wire[Link(e)] # <<>> /\ wire' = [wire EXCEPT ![Link(e)] = Tail(@)]
        /\ peers' = [peers EXCEPT ![e] = Show(@, Head(wire[Link(e)])) \ {e}]
        /\ UNCHANGED <<ready, sessions, expired, attempts, revived, joins, faults>>
        /\ \/ /\ mode' = [mode EXCEPT ![e] = "fallback"] /\ gone' = gone \cup {Link(e)}
              /\ link' = [link EXCEPT ![e] = 0]
           \/ UNCHANGED <<mode, link, gone>>
    BY <1>5 DEF Receive, Close
  <2>2. Link(e) \in Socket
    BY <2>1 DEF Link, Socket, TypeOK
  <2>3. peers' \in [Peer -> SUBSET Peer]
    <3> DEFINE m == Head(wire[Link(e)])
    <3>1. m \in Messages
      BY <2>1, <2>2 DEF TypeOK
    <3>2. Show(peers[e], m) \subseteq Peer
      BY <3>1 DEF Show, Messages, TypeOK
    <3> QED
      BY <2>1, <3>2 DEF TypeOK
  <2>4. wire' \in [Socket -> Seq(Messages)]
    BY <2>1, <2>2 DEF TypeOK
  <2>5. /\ mode' \in [Peer -> {"out", "connecting", "in", "fallback"}]
        /\ link' \in [Peer -> 0..MaxSockets] /\ gone' \subseteq Socket
        /\ \A x \in Peer : mode'[x] = "in" <=> link'[x] # 0
    <3>1. CASE UNCHANGED <<mode, link, gone>>
      BY <3>1 DEF TypeOK
    <3>2. CASE /\ mode' = [mode EXCEPT ![e] = "fallback"] /\ gone' = gone \cup {Link(e)}
               /\ link' = [link EXCEPT ![e] = 0]
      BY <3>2, <2>2 DEF TypeOK
    <3> QED
      BY <2>1, <3>1, <3>2
  <2>6. TypeOK'
    BY <2>1, <2>3, <2>4, <2>5 DEF TypeOK
  <2> QED
    BY <2>1, <2>6 DEF OneOpen, OpenHasSession
<1>6. ASSUME NEW e \in Peer, NEW to \in Peer, Relay(e, to)
      PROVE  IInv'
  <2>1. Closes(Expelled)
    BY <1>6 DEF Relay, Closes, Kept, Expelled, Living, Dead
  <2>2. UNCHANGED <<client, gone, revived, joins>> /\ expired' = FALSE
    BY <1>6 DEF Relay
  <2>4. wire' \in [Socket -> Seq(Messages)]
    <3>1. <<Message("relay", {e})>> \in Seq(Messages)
      BY DEF Message, Messages
    <3>2. \A s \in Socket : CleanWire[s] \o <<Message("relay", {e})>> \in Seq(Messages)
      BY <3>1, CleanWireType
    <3> QED
      BY <1>6, <3>2, CleanWireType DEF Relay, Broadcast
  <2>3. faults' \in 0..MaxFaults
    BY <1>6, FaultType DEF Relay
  <2> QED
    BY <2>1, <2>2, <2>3, <2>4, ClosesKeeps DEF TypeOK, client
<1>7. ASSUME NEW e \in Peer, Reject(e)
      PROVE  IInv'
  <2> DEFINE ended == {Link(e)} \cap Kept
  <2>1. Closes(Expelled \cup ended)
    BY <1>7 DEF Reject, Closes, Kept, Expelled, Living, Dead
  <2>2. UNCHANGED <<client, gone, revived, joins>> /\ expired' = FALSE
    BY <1>7 DEF Reject
  <2>4. wire' \in [Socket -> Seq(Messages)]
    <3>1. <<Message("rejected", {})>> \in Seq(Messages)
      BY DEF Message, Messages
    <3>2. \A s \in Socket : Lefts(s, ended) \in Seq(Messages)
      BY LeftsType DEF Kept, Living, TypeOK
    <3> DEFINE told(s) == IF s \in ended THEN <<Message("rejected", {})>> ELSE Lefts(s, ended)
    <3>3. \A s \in Socket : told(s) \in Seq(Messages)
      BY <3>1, <3>2
    <3>4. wire' = [s \in Socket |-> IF s \in Kept \ gone /\ ready[s] = "open"
                                   THEN CleanWire[s] \o told(s) ELSE CleanWire[s]]
      BY <1>7 DEF Reject, Broadcast
    <3> HIDE DEF told
    <3>5. \A s \in Socket : CleanWire[s] \o told(s) \in Seq(Messages)
      BY <3>3, CleanWireType
    <3> QED
      BY <3>4, <3>5, CleanWireType
  <2>3. faults' \in 0..MaxFaults
    BY <1>7, FaultType DEF Reject
  <2> QED
    BY <2>1, <2>2, <2>3, <2>4, ClosesKeeps DEF TypeOK, client
<1>8. ASSUME NEW s \in Socket, Notice(s)
      PROVE  IInv'
  <2> USE <1>8 DEF Notice, client
  <2>1. TypeOK'
    BY DEF TypeOK
  <2> QED
    BY <2>1 DEF OneOpen, OpenHasSession, TypeOK
<1>9. ASSUME NEW s \in Socket, SocketClosed(s)
      PROVE  IInv'
  <2>1. /\ ready[s] = "closing" /\ ready' = [ready EXCEPT ![s] = "closed"]
        /\ sessions' = sessions \ {s}
        /\ expired' = (expired /\ sessions' # {})
        /\ UNCHANGED <<client, gone, revived, joins, faults>>
    BY <1>9 DEF SocketClosed
  <2>2. wire' \in [Socket -> Seq(Messages)]
    <3>1. \A t \in Socket : Lefts(t, {s}) \in Seq(Messages)
      BY LeftsType
    <3>2. wire \in [Socket -> Seq(Messages)]
      BY DEF TypeOK
    <3>3. \A x, y \in Seq(Messages) : x \o y \in Seq(Messages)
      OBVIOUS
    <3>4. \A t \in Socket : wire[t] \o Lefts(t, {s}) \in Seq(Messages)
      BY <3>1, <3>2, <3>3, Zenon
    <3> QED
      BY <1>9, <3>2, <3>4 DEF SocketClosed, Broadcast
  <2>3. expired' \in BOOLEAN
    BY <2>1
  <2>4. TypeOK'
    BY <2>1, <2>2, <2>3 DEF TypeOK, client
  <2> QED
    BY <2>1, <2>4 DEF OneOpen, OpenHasSession, TypeOK
<1>10. ASSUME Expire \/ Hibernate
       PROVE  IInv'
  <2>1. /\ UNCHANGED <<ready, wire, client, gone, joins>>
        /\ \/ sessions' = sessions /\ UNCHANGED revived
           \/ /\ sessions' = {s \in Socket : ready[s] # "closed"}
              /\ revived' = revived \cup Owners(sessions' \ sessions)
        /\ expired' \in BOOLEAN /\ faults' \in 0..MaxFaults
    BY <1>10, FaultType DEF Expire, Hibernate, TypeOK
  <2>2. sessions' \subseteq Socket /\ revived' \subseteq Peer
    BY <2>1 DEF TypeOK, Owners, Owner, Socket
  <2>3. TypeOK'
    BY <2>1, <2>2 DEF TypeOK, client
  <2> QED
    BY <2>1, <2>3 DEF OneOpen, OpenHasSession
<1>11. CASE UNCHANGED vars
  BY <1>11 DEF vars, room, client, TypeOK, OneOpen, OpenHasSession
<1> QED
  BY <1>1, <1>2, <1>3, <1>4, <1>5, <1>6, <1>7, <1>8, <1>9, <1>10, <1>11
     DEF Next, Connects, Ends

(* Rooms and browsers agree on who is connected, in every run.               *)
THEOREM InductiveInvariant == Spec => []IInv
BY InitIInv, NextIInv, PTL DEF Spec

(* The room's and the browsers' variables keep their types.                 *)
THEOREM TypeCorrect == Spec => []TypeOK
<1>1. IInv => TypeOK
  BY DEF IInv
<1> QED
  BY InductiveInvariant, <1>1, PTL

(* A room that is full for e is full of others: no two of the sessions it   *)
(* counts belong to one browser, nor does one belong to e.                  *)
LEMMA FullOfOthers ==
  ASSUME IInv, NEW e \in Peer, Full(Kept, e)
  PROVE  Cardinality(Owners(EvictDuplicate(Kept, e)) \ {e}) >= Capacity
<1> DEFINE S == EvictDuplicate(Kept, e)
           T == Owners(S) \ {e}
           f == [s \in S |-> Owner(s)]
<1>1. S \subseteq Socket /\ \A s \in S : ready[s] = "open" /\ Owner(s) \in T
  BY DEF EvictDuplicate, Kept, Living, Dead, IInv, TypeOK, Owners
<1>2. f \in Injection(S, T)
  BY <1>1 DEF Injection, IsInjective, IInv, OneOpen
<1>3. IsFiniteSet(T)
  <2>1. T \in SUBSET Peer
    BY <1>1 DEF Owners, Owner, Socket
  <2> QED
    BY <2>1, FS_Subset, RoomAssumption
<1>4. IsFiniteSet(S) /\ Cardinality(S) <= Cardinality(T)
  BY <1>2, <1>3, FS_Injection
<1>5. Cardinality(S) \in Nat /\ Cardinality(T) \in Nat
  BY <1>3, <1>4, FS_CardinalityType
<1>6. Cardinality(S) >= Capacity
  BY DEF Full
<1> HIDE DEF S, T
<1>7. Cardinality(T) >= Capacity
  BY <1>4, <1>5, <1>6, RoomAssumption
<1> QED
  BY <1>7 DEF S, T

(* Only the answer of the room changes what a connecting browser does.      *)
LEMMA OnlyRefusalRetries ==
  ASSUME IInv, Next, NEW e \in Peer, mode[e] = "connecting", mode'[e] # "in",
         <<mode'[e], attempts'[e]>> # <<mode[e], attempts[e]>>
  PROVE  Full(Kept, e) /\ sessions' = EvictDuplicate(Kept, e)
<1> USE DEF IInv
<1>0. mode'[e] # mode[e] \/ attempts'[e] # attempts[e]
  OBVIOUS
<1>1. ASSUME NEW x \in Peer, Fetch(x)
      PROVE  Full(Kept, e) /\ sessions' = EvictDuplicate(Kept, e)
  <2>1. CASE Full(Kept, x)
    <3>1. Refuse(x)
      BY <1>1, <2>1 DEF Fetch
    <3>2. x = e
      BY <1>0, <3>1, RetryType DEF Refuse
    <3> QED
      BY <2>1, <3>1, <3>2 DEF Refuse
  <2>2. CASE ~Full(Kept, x)
    <3>1. mode' = [mode EXCEPT ![x] = "in"] /\ attempts' = [attempts EXCEPT ![x] = 0]
      BY <1>1, <2>2 DEF Fetch, Accept
    <3> QED
      BY <1>0, <3>1 DEF TypeOK
  <2> QED
    BY <2>1, <2>2
<1>2. ASSUME NEW x \in Peer, Drop(x)
      PROVE  FALSE
  BY <1>0, <1>2, RetryType DEF Drop
<1>3. ASSUME NEW x \in Peer, JoinCode(x)
      PROVE  FALSE
  BY <1>0, <1>3 DEF JoinCode, TypeOK
<1>4. ASSUME NEW x \in Peer, Leave(x) \/ Receive(x)
      PROVE  FALSE
  BY <1>0, <1>4 DEF Leave, Receive, TypeOK
<1>5. ASSUME NEW x \in Peer, Reject(x) \/ \E to \in Peer : Relay(x, to)
      PROVE  FALSE
  BY <1>0, <1>5 DEF Reject, Relay, client
<1>6. ASSUME Ends \/ Expire \/ Hibernate
      PROVE  FALSE
  BY <1>0, <1>6 DEF Ends, Notice, SocketClosed, Expire, Hibernate, client
<1> QED
  BY <1>1, <1>2, <1>3, <1>4, <1>5, <1>6 DEF Next, Connects

(* A browser is refused only by a room that is full of others, whatever     *)
(* sockets were lost, replaced, expelled or revived, and also with its last *)
(* attempt.                                                                 *)
THEOREM RefusalsHold == Spec => RefusedOnlyWhenFull
<1>1. IInv /\ [Next]_vars =>
        [\A e \in Peer :
           mode[e] = "connecting" /\ mode'[e] # "in"
             /\ <<mode'[e], attempts'[e]>> # <<mode[e], attempts[e]>>
             => Cardinality(Owners(sessions') \ {e}) >= Capacity]_vars
  BY OnlyRefusalRetries, FullOfOthers
<1> QED
  BY InductiveInvariant, <1>1, PTL DEF Spec, RefusedOnlyWhenFull

----------------------------------------------------------------------------
(* How many sockets the room keeps open.                                    *)

OpenSockets == {s \in Socket : ready[s] = "open"}

\* The room never has more sockets open than it may have sessions.
WithinCapacity == Cardinality(OpenSockets) <= Capacity

LEMMA SocketsFinite == \A S \in SUBSET Socket : IsFiniteSet(S) /\ Cardinality(S) \in Nat
<1>1. IsFiniteSet(1..MaxSockets)
  BY RoomBounds, FS_Interval
<1>2. IsFiniteSet(Socket)
  BY <1>1, RoomAssumption, FS_Product DEF Socket
<1> QED
  BY <1>2, FS_Subset, FS_CardinalityType

(* Sockets that are closed leave no more of them open.                      *)
LEMMA FewerOpen ==
  ASSUME WithinCapacity, \A s \in Socket : ready'[s] = "open" => ready[s] = "open"
  PROVE  WithinCapacity'
<1>1. OpenSockets' \subseteq OpenSockets /\ OpenSockets \in SUBSET Socket
  BY DEF OpenSockets
<1>2. Cardinality(OpenSockets') <= Cardinality(OpenSockets)
  BY <1>1, SocketsFinite, FS_Subset
<1>3. Cardinality(OpenSockets') \in Nat /\ Cardinality(OpenSockets) \in Nat
  BY <1>1, SocketsFinite
<1> QED
  BY <1>2, <1>3, RoomAssumption DEF WithinCapacity

(* A browser is let in only where there is room left for it.                *)
LEMMA AcceptWithinCapacity ==
  ASSUME IInv, NEW e \in Peer, Accept(e), ~Full(Kept, e)
  PROVE  WithinCapacity'
<1> DEFINE n == CHOOSE k \in 1..MaxSockets : ready[<<e, k>>] = "closed"
           new == <<e, n>>
           rest == EvictDuplicate(Kept, e)
           shut == Expelled \cup {s \in Kept : Owner(s) = e}
<1>1. ready' = [CloseSockets(shut) EXCEPT ![new] = "open"]
  BY DEF Accept
<1>2. /\ rest \in SUBSET Socket
      /\ \A s \in Socket : ready[s] = "open" => s \in rest \/ s \in shut
  BY DEF EvictDuplicate, Kept, Expelled, Living, Dead, IInv, OpenHasSession, TypeOK
<1>3. OpenSockets' \subseteq rest \cup {new}
  BY <1>1, <1>2 DEF OpenSockets, CloseSockets
<1>4. IsFiniteSet(rest) /\ Cardinality(rest) \in Nat /\ Cardinality(rest) < Capacity
  BY <1>2, SocketsFinite, RoomAssumption DEF Full
<1> HIDE DEF rest, new
<1>5. /\ IsFiniteSet(rest \cup {new})
      /\ Cardinality(rest \cup {new}) \in {Cardinality(rest), Cardinality(rest) + 1}
  BY <1>4, FS_AddElement
<1>6. Cardinality(OpenSockets') \in Nat /\ Cardinality(OpenSockets') <= Cardinality(rest \cup {new})
  BY <1>3, <1>5, FS_Subset, FS_CardinalityType
<1> QED
  BY <1>4, <1>5, <1>6, RoomAssumption DEF WithinCapacity

(* Every step keeps within the capacity.                                    *)
LEMMA NextWithinCapacity == IInv /\ WithinCapacity /\ [Next]_vars => WithinCapacity'
<1> SUFFICES ASSUME IInv, WithinCapacity, [Next]_vars
             PROVE  WithinCapacity'
  OBVIOUS
<1> USE DEF IInv, TypeOK
<1>1. ASSUME NEW closed, ready' = CloseSockets(closed)
      PROVE  WithinCapacity'
  BY <1>1, FewerOpen DEF CloseSockets
<1>2. ASSUME NEW e \in Peer, Fetch(e)
      PROVE  WithinCapacity'
  BY <1>1, <1>2, AcceptWithinCapacity DEF Fetch, Refuse
<1>3. ASSUME NEW e \in Peer, JoinCode(e) \/ Leave(e) \/ Drop(e) \/ Receive(e)
      PROVE  WithinCapacity'
  BY <1>3, FewerOpen DEF JoinCode, room, Leave, Drop, Receive
<1>4. ASSUME NEW e \in Peer, Reject(e) \/ \E to \in Peer : Relay(e, to)
      PROVE  WithinCapacity'
  BY <1>1, <1>4 DEF Reject, Relay
<1>5. ASSUME NEW s \in Socket, Notice(s) \/ SocketClosed(s)
      PROVE  WithinCapacity'
  BY <1>5, FewerOpen DEF Notice, SocketClosed
<1>6. CASE Expire \/ Hibernate \/ UNCHANGED vars
  BY <1>6, FewerOpen DEF Expire, Hibernate, vars, room
<1> QED
  BY <1>2, <1>3, <1>4, <1>5, <1>6 DEF Next, Connects, Ends

(* A room never has more sockets open than its capacity, whatever was lost, *)
(* expelled, replaced or revived.                                           *)
THEOREM CapacityHolds == Spec => []WithinCapacity
<1>1. Init => WithinCapacity
  <2> SUFFICES ASSUME Init PROVE WithinCapacity
    OBVIOUS
  <2>1. OpenSockets = {}
    BY DEF Init, OpenSockets
  <2> QED
    BY <2>1, FS_EmptySet, RoomAssumption DEF WithinCapacity
<1> QED
  BY InductiveInvariant, <1>1, NextWithinCapacity, PTL DEF Spec

(* So a browser that is refused had no session to evict.                    *)
LEMMA RefusedEvictsNone ==
  ASSUME IInv, WithinCapacity, NEW e \in Peer, Full(Kept, e)
  PROVE  EvictDuplicate(Kept, e) = Kept
<1> DEFINE rest == EvictDuplicate(Kept, e)
<1> SUFFICES ASSUME NEW s \in Kept, Owner(s) = e PROVE FALSE
  BY DEF EvictDuplicate
<1>1. rest \subseteq OpenSockets \ {s} /\ s \in OpenSockets /\ OpenSockets \in SUBSET Socket
  BY DEF EvictDuplicate, Kept, Living, Dead, OpenSockets, IInv, TypeOK
<1>2. IsFiniteSet(OpenSockets) /\ Cardinality(OpenSockets) \in Nat
  BY <1>1, SocketsFinite
<1>3. IsFiniteSet(OpenSockets \ {s}) /\ Cardinality(OpenSockets \ {s}) = Cardinality(OpenSockets) - 1
  BY <1>1, <1>2, FS_RemoveElement
<1>4. Cardinality(rest) \in Nat /\ Cardinality(rest) <= Cardinality(OpenSockets \ {s})
  BY <1>1, <1>3, FS_Subset, FS_CardinalityType
<1> QED
  BY <1>2, <1>3, <1>4, RoomAssumption DEF Full, WithinCapacity

----------------------------------------------------------------------------
(* What the browsers show: the room's list of sessions, and what a browser  *)
(* has been sent but has not read.                                          *)

\* A session's socket is listed by the platform,
SessionsListed == \A s \in sessions : ready[s] # "closed"

\* a browser in the room has closed its own sockets but not the one it uses,
InNotGone == \A e \in Peer : mode[e] = "in" => Link(e) \notin gone

\* and two sessions of one browser are there only after a hibernation.
Doubles == \A s, t \in sessions : s # t /\ Owner(s) = Owner(t) => Owner(s) \in revived

Listed == SessionsListed /\ InNotGone /\ Doubles

(* A message shows what it brings, and what it keeps of what is shown.      *)
LEMMA ShowPointwise ==
  ASSUME NEW m \in Messages, NEW S, NEW f
  PROVE  f \in Show(S, m) <=> Brings(m, f) \/ (f \in S /\ Keeps(m, f))
BY DEF Show, Brings, Keeps, Messages

(* Nothing to read changes nothing,                                         *)
LEMMA NothingRead ==
  ASSUME NEW f
  PROVE  KeepAll(<<>>, f) /\ ~BringAny(<<>>, f)
BY DEF KeepAll, BringAny

(* one message does what it does,                                           *)
LEMMA OneRead ==
  ASSUME NEW m, NEW f
  PROVE  /\ KeepAll(<<m>>, f) <=> Keeps(m, f)
         /\ BringAny(<<m>>, f) <=> Brings(m, f)
<1>1. DOMAIN <<m>> = {1} /\ <<m>>[1] = m
  OBVIOUS
<1>2. KeepAll(<<m>>, f) <=> Keeps(m, f)
  BY <1>1 DEF KeepAll
<1>3. BringAny(<<m>>, f) <=> Brings(m, f)
  BY <1>1 DEF BringAny
<1> QED
  BY <1>2, <1>3

(* and what is read last has the last word.                                 *)
LEMMA MoreRead ==
  ASSUME NEW w \in Seq(Messages), NEW v \in Seq(Messages), NEW f, NEW S
  PROVE  /\ KeepAll(w \o v, f) <=> KeepAll(w, f) /\ KeepAll(v, f)
         /\ BringAny(w \o v, f) <=> BringAny(v, f) \/ (BringAny(w, f) /\ KeepAll(v, f))
         /\ Shown(S, w \o v, f) <=> BringAny(v, f) \/ (Shown(S, w, f) /\ KeepAll(v, f))
<1> DEFINE u == w \o v
<1>1. /\ DOMAIN w = 1..Len(w) /\ DOMAIN v = 1..Len(v) /\ DOMAIN u = 1..(Len(w) + Len(v))
      /\ Len(w) \in Nat /\ Len(v) \in Nat
      /\ \A i \in 1..Len(w) : u[i] = w[i]
      /\ \A i \in 1..Len(v) : u[Len(w) + i] = v[i]
  OBVIOUS
<1> HIDE DEF u
<1>2. \A j \in DOMAIN u : j \in DOMAIN w \/ \E i \in DOMAIN v : j = Len(w) + i
  <2> SUFFICES ASSUME NEW j \in DOMAIN u, j \notin DOMAIN w
               PROVE  \E i \in DOMAIN v : j = Len(w) + i
    OBVIOUS
  <2>1. j - Len(w) \in DOMAIN v /\ j = Len(w) + (j - Len(w))
    BY <1>1
  <2> QED
    BY <2>1
<1>3. KeepAll(u, f) <=> KeepAll(w, f) /\ KeepAll(v, f)
  <2>1. ASSUME KeepAll(u, f) PROVE KeepAll(w, f) /\ KeepAll(v, f)
    <3>1. \A j \in DOMAIN w : j \in DOMAIN u /\ u[j] = w[j]
      BY <1>1
    <3>2. \A j \in DOMAIN v : Len(w) + j \in DOMAIN u /\ u[Len(w) + j] = v[j]
      BY <1>1
    <3> QED
      BY <2>1, <3>1, <3>2 DEF KeepAll
  <2>2. ASSUME KeepAll(w, f), KeepAll(v, f) PROVE KeepAll(u, f)
    BY <1>1, <1>2, <2>2 DEF KeepAll
  <2> QED
    BY <2>1, <2>2
<1>4. ASSUME BringAny(u, f) PROVE BringAny(v, f) \/ (BringAny(w, f) /\ KeepAll(v, f))
  <2>1. PICK i \in DOMAIN u : Brings(u[i], f) /\ \A j \in DOMAIN u : j > i => Keeps(u[j], f)
    BY <1>4 DEF BringAny
  <2>2. CASE i \in DOMAIN w
    <3>1. Brings(w[i], f) /\ \A j \in DOMAIN w : j > i => Keeps(w[j], f)
      BY <1>1, <2>1, <2>2
    <3>2. \A j \in DOMAIN v : Len(w) + j \in DOMAIN u /\ Len(w) + j > i
      BY <1>1, <2>2
    <3>3. \A j \in DOMAIN v : Keeps(v[j], f)
      BY <1>1, <2>1, <3>2
    <3> QED
      BY <2>2, <3>1, <3>3 DEF BringAny, KeepAll
  <2>3. CASE \E k \in DOMAIN v : i = Len(w) + k
    <3>1. PICK k \in DOMAIN v : i = Len(w) + k
      BY <2>3
    <3>2. \A j \in DOMAIN v : j > k => Keeps(v[j], f)
      <4>1. \A j \in DOMAIN v : j > k => Len(w) + j \in DOMAIN u /\ Len(w) + j > i
        BY <1>1, <3>1
      <4> QED
        BY <1>1, <2>1, <4>1
    <3> QED
      BY <1>1, <2>1, <3>1, <3>2 DEF BringAny
  <2> QED
    BY <1>2, <2>2, <2>3
<1>5. ASSUME BringAny(v, f) PROVE BringAny(u, f)
  <2>1. PICK k \in DOMAIN v : Brings(v[k], f) /\ \A j \in DOMAIN v : j > k => Keeps(v[j], f)
    BY <1>5 DEF BringAny
  <2>2. Len(w) + k \in DOMAIN u /\ Brings(u[Len(w) + k], f)
    BY <1>1, <2>1
  <2>3. \A j \in DOMAIN u : j > Len(w) + k => Keeps(u[j], f)
    BY <1>1, <1>2, <2>1
  <2> QED
    BY <2>2, <2>3 DEF BringAny
<1>6. ASSUME BringAny(w, f), KeepAll(v, f) PROVE BringAny(u, f)
  <2>1. PICK k \in DOMAIN w : Brings(w[k], f) /\ \A j \in DOMAIN w : j > k => Keeps(w[j], f)
    BY <1>6 DEF BringAny
  <2>2. k \in DOMAIN u /\ Brings(u[k], f)
    BY <1>1, <2>1
  <2>3. \A j \in DOMAIN u : j > k => Keeps(u[j], f)
    BY <1>1, <1>2, <1>6, <2>1 DEF KeepAll
  <2> QED
    BY <2>2, <2>3 DEF BringAny
<1>7. BringAny(u, f) <=> BringAny(v, f) \/ (BringAny(w, f) /\ KeepAll(v, f))
  BY <1>4, <1>5, <1>6
<1>8. Shown(S, u, f) <=> BringAny(v, f) \/ (Shown(S, w, f) /\ KeepAll(v, f))
  BY <1>3, <1>7 DEF Shown
<1> QED
  BY <1>3, <1>7, <1>8 DEF u

(* A browser shows in the end what it shows after the first message and     *)
(* then the others.                                                         *)
LEMMA FirstRead ==
  ASSUME NEW w \in Seq(Messages), w # <<>>, NEW S, NEW f
  PROVE  Shown(S, w, f) <=> Shown(Show(S, Head(w)), Tail(w), f)
<1>1. w = <<Head(w)>> \o Tail(w) /\ Head(w) \in Messages /\ Tail(w) \in Seq(Messages)
  OBVIOUS
<1>2. <<Head(w)>> \in Seq(Messages)
  BY <1>1
<1> DEFINE m == Head(w)
           v == Tail(w)
<1>3. Shown(S, <<m>> \o v, f) <=> BringAny(v, f) \/ (Shown(S, <<m>>, f) /\ KeepAll(v, f))
  BY <1>1, <1>2, MoreRead
<1>4. Shown(S, <<m>>, f) <=> f \in Show(S, m)
  BY <1>1, OneRead, ShowPointwise DEF Shown
<1>5. Shown(Show(S, m), v, f) <=> (f \in Show(S, m) /\ KeepAll(v, f)) \/ BringAny(v, f)
  BY DEF Shown
<1>6. Shown(S, w, f) <=> Shown(S, <<m>> \o v, f)
  BY <1>1
<1> HIDE DEF m, v
<1> QED
  BY <1>3, <1>4, <1>5, <1>6 DEF m, v

(* SetToSeq lists its set.                                                  *)
LEMMA SetToSeqLists ==
  ASSUME NEW S, IsFiniteSet(S)
  PROVE  /\ \A i \in DOMAIN SetToSeq(S) : SetToSeq(S)[i] \in S
         /\ \A x \in S : \E i \in DOMAIN SetToSeq(S) : SetToSeq(S)[i] = x
<1> DEFINE n == Cardinality(S)
           q == SetToSeq(S)
<1>1. n \in Nat /\ ExistsBijection(1..n, S)
  BY FS_CardinalityType
<1>2. \E g \in [1..n -> S] : IsInjective(g)
  BY <1>1 DEF ExistsBijection, Bijection, Injection
<1>3. q \in [1..n -> S] /\ IsInjective(q)
  BY <1>2 DEF SetToSeq
<1>4. q \in Injection(1..n, S)
  BY <1>3 DEF Injection
<1>5. IsFiniteSet(1..n) /\ Cardinality(1..n) = n
  BY <1>1, FS_Interval
<1> HIDE DEF q
<1>6. q \in Surjection(1..n, S)
  BY <1>4, <1>5, FS_Injection
<1> QED
  BY <1>3, <1>6 DEF Surjection, q

(* peer-left takes away the owners of the sessions that ended, and no more. *)
LEMMA LeftsRead ==
  ASSUME NEW s \in Socket, NEW ended \in SUBSET Socket, NEW f
  PROVE  /\ KeepAll(Lefts(s, ended), f) <=> f \notin Owners(ended) \ {Owner(s)}
         /\ ~BringAny(Lefts(s, ended), f)
<1> DEFINE T == Owners(ended) \ {Owner(s)}
           g == [e \in T |-> Message("left", {e})]
           M == {Message("left", {e}) : e \in T}
           q == SetToSeq(M)
<1>1. T \in SUBSET Peer
  BY DEF Owners, Owner, Socket
<1>2. IsFiniteSet(T)
  BY <1>1, FS_Subset, RoomAssumption
<1>3. g \in Surjection(T, M)
  BY DEF Surjection
<1>4. IsFiniteSet(M)
  BY <1>2, <1>3, FS_Surjection
<1>5. /\ \A i \in DOMAIN q : q[i] \in M
      /\ \A x \in M : \E i \in DOMAIN q : q[i] = x
  BY <1>4, SetToSeqLists
<1>6. \A x \in M : ~Brings(x, f)
  BY DEF Brings, Show, Message
<1>7. \A e \in T : Keeps(Message("left", {e}), f) <=> f # e
  BY DEF Keeps, Show, Message
<1>8. Lefts(s, ended) = q
  BY DEF Lefts
<1> HIDE DEF q
<1>9. ~BringAny(q, f)
  BY <1>5, <1>6 DEF BringAny
<1>10. KeepAll(q, f) <=> f \notin T
  <2>1. ASSUME f \in T PROVE ~KeepAll(q, f)
    BY <1>5, <1>7, <2>1 DEF KeepAll
  <2>2. ASSUME f \notin T PROVE KeepAll(q, f)
    BY <1>5, <1>7, <2>2 DEF KeepAll
  <2> QED
    BY <2>1, <2>2
<1> QED
  BY <1>8, <1>9, <1>10

(* What a browser would show after the room has cleaned up.                 *)
CleanWill(e) == {f \in Peer \ {e} : Shown(peers[e], CleanWire[Link(e)], f)}

(* A browser's own socket, as the room and its wire see it.                 *)
LEMMA LinkType ==
  ASSUME IInv, NEW e \in Peer, mode[e] = "in"
  PROVE  Link(e) \in Socket /\ Owner(Link(e)) = e
BY DEF IInv, TypeOK, Link, Socket, Owner

\* e shows W while S are the sessions, and misses only peers of R.
Follows(e, W, S, R) == W \subseteq Owners(S) /\ Owners(S) \ (W \cup {e}) \subseteq R
DoubleIn(S, R) == \A s, t \in S : s # t /\ Owner(s) = Owner(t) => Owner(s) \in R

(* Sessions that end take their owners away from what is shown, those of    *)
(* browsers with another session too.                                       *)
LEMMA EndingKeeps ==
  ASSUME NEW S, NEW E \in SUBSET S, NEW W, NEW R, NEW e,
         Follows(e, W, S, R), DoubleIn(S, R)
  PROVE  Follows(e, W \ Owners(E), S \ E, R)
<1>1. W \ Owners(E) \subseteq Owners(S \ E)
  BY DEF Owners, Follows
<1>2. ASSUME NEW f \in Owners(S \ E), f # e, f \notin W \ Owners(E)
      PROVE  f \in R
  <2>1. PICK s \in S \ E : f = Owner(s)
    BY <1>2 DEF Owners
  <2>2. CASE f \notin W
    BY <1>2, <2>1, <2>2 DEF Owners, Follows
  <2>3. CASE f \in Owners(E)
    <3>1. PICK t \in E : f = Owner(t)
      BY <2>3 DEF Owners
    <3> QED
      BY <2>1, <3>1 DEF DoubleIn
  <2> QED
    BY <1>2, <2>2, <2>3
<1> QED
  BY <1>1, <1>2 DEF Follows

(* cleanup tells a browser whose session lives who has left.                *)
LEMMA CleanRead ==
  ASSUME IInv, InNotGone, NEW e \in Peer, mode[e] = "in", Link(e) \in Living,
         NEW f \in Peer \ {e}
  PROVE  Shown(peers[e], CleanWire[Link(e)], f)
           <=> Shown(peers[e], wire[Link(e)], f) /\ f \notin Owners(Dead)
<1> DEFINE s == Link(e)
           v == Lefts(s, Dead)
           u == Farewell(s)
<1>1. s \in Socket /\ Owner(s) = e /\ s \notin gone /\ ready[s] = "open"
  BY LinkType DEF InNotGone, Living, Dead
<1>2. Dead \in SUBSET Socket
  BY DEF Dead, IInv, TypeOK
<1>3. v \in Seq(Messages) /\ wire[s] \in Seq(Messages)
  BY <1>1, <1>2, LeftsType DEF IInv, TypeOK
<1>4. u \in Seq(Messages) /\ KeepAll(u, f) /\ ~BringAny(u, f)
  <2>1. Message("expired", {}) \in Messages
    BY DEF Message, Messages
  <2>2. Keeps(Message("expired", {}), f) /\ ~Brings(Message("expired", {}), f)
    BY DEF Keeps, Brings, Show, Message
  <2>3. CASE s \in Expelled
    BY <2>1, <2>2, <2>3, OneRead DEF Farewell
  <2>4. CASE s \notin Expelled
    BY <2>4, NothingRead DEF Farewell
  <2> QED
    BY <2>3, <2>4
<1>5. KeepAll(v, f) <=> f \notin Owners(Dead)
  BY <1>1, <1>2, LeftsRead
<1>6. ~BringAny(v, f)
  BY <1>1, <1>2, LeftsRead
<1>7. CleanWire[s] = wire[s] \o (v \o u)
  <2>1. s \in Living \ gone
    BY <1>1
  <2> QED
    BY <1>1, <2>1 DEF CleanWire, Broadcast
<1> HIDE DEF s, v, u
<1>8. v \o u \in Seq(Messages)
  BY <1>3, <1>4
<1>9. /\ KeepAll(v \o u, f) <=> f \notin Owners(Dead)
      /\ ~BringAny(v \o u, f)
  BY <1>3, <1>4, <1>5, <1>6, MoreRead
<1>10. Shown(peers[e], wire[s] \o (v \o u), f)
         <=> Shown(peers[e], wire[s], f) /\ f \notin Owners(Dead)
  BY <1>3, <1>8, <1>9, MoreRead
<1> QED
  BY <1>7, <1>10 DEF s

(* After cleanup a browser that keeps its session shows who has one.        *)
LEMMA CleanFollows ==
  ASSUME IInv, Listed, ViewsFollowRoom, NEW e \in Peer, mode[e] = "in", Link(e) \in Kept
  PROVE  Follows(e, CleanWill(e), Kept, revived)
<1>1. Link(e) \in Living /\ Kept = sessions \ Dead /\ Dead \in SUBSET sessions
  BY DEF Kept, Expelled, Living, Dead
<1>2. CleanWill(e) = Will(e) \ Owners(Dead)
  BY <1>1, CleanRead DEF CleanWill, Will, Listed
<1>3. Follows(e, Will(e), sessions, revived)
  BY <1>1 DEF ViewsFollowRoom, Present, Follows
<1>4. DoubleIn(sessions, revived)
  BY DEF Listed, Doubles, DoubleIn
<1>5. Follows(e, Will(e) \ Owners(Dead), sessions \ Dead, revived)
  BY <1>1, <1>3, <1>4, EndingKeeps
<1> QED
  BY <1>1, <1>2, <1>5

(* The room keeps its list of sessions in step with the sockets.            *)
LEMMA ClosesListed ==
  ASSUME IInv, Listed, NEW closed, Closes(closed)
  PROVE  SessionsListed' /\ (UNCHANGED revived => Doubles')
<1>1. SessionsListed'
  BY DEF Closes, CloseSockets, Listed, SessionsListed, IInv, TypeOK
<1>2. UNCHANGED revived => Doubles'
  BY DEF Closes, Listed, Doubles
<1> QED
  BY <1>1, <1>2

(* Closing one browser's connection leaves the others theirs.               *)
LEMMA OthersStayIn ==
  ASSUME IInv, InNotGone, NEW e \in Peer, mode'[e] # "in",
         \A x \in Peer \ {e} : mode'[x] = mode[x] /\ link'[x] = link[x],
         gone' \subseteq gone \cup {Link(e)}
  PROVE  InNotGone'
<1> SUFFICES ASSUME NEW x \in Peer, mode'[x] = "in"
             PROVE  Link(x)' \notin gone'
  BY DEF InNotGone
<1>1. x # e /\ mode[x] = "in" /\ link'[x] = link[x]
  OBVIOUS
<1>2. Link(x) \notin gone
  BY <1>1 DEF InNotGone
<1>3. Link(x)' = Link(x) /\ Link(x) # Link(e)
  BY <1>1 DEF Link
<1> QED
  BY <1>2, <1>3

(* The room answers a connection.                                           *)
LEMMA FetchListed ==
  ASSUME IInv, Listed, NEW e \in Peer, Fetch(e)
  PROVE  Listed'
<1>0. mode[e] = "connecting" /\ UNCHANGED revived
      /\ \E k \in 1..MaxSockets : ready[<<e, k>>] = "closed"
  BY DEF Fetch
<1>1. CASE Refuse(e)
  <2>1. Closes(Expelled \cup {s \in Kept : Owner(s) = e})
    BY <1>1 DEF Refuse, EvictDuplicate, Closes, Kept, Expelled, Living, Dead
  <2>2. Retry(e) /\ UNCHANGED <<gone, link>>
    BY <1>1 DEF Refuse
  <2>3. InNotGone'
    BY <2>2, RetryType, OthersStayIn DEF Listed
  <2> QED
    BY <1>0, <2>1, <2>3, ClosesListed DEF Listed
<1>2. CASE Accept(e)
  <2> DEFINE n == CHOOSE k \in 1..MaxSockets : ready[<<e, k>>] = "closed"
             new == <<e, n>>
             rest == EvictDuplicate(Kept, e)
             shut == Expelled \cup {s \in Kept : Owner(s) = e}
  <2>1. n \in 1..MaxSockets /\ new \in Socket /\ Owner(new) = e
    BY <1>0 DEF Socket, Owner
  <2>2. /\ ready' = [CloseSockets(shut) EXCEPT ![new] = "open"]
        /\ sessions' = rest \cup {new}
        /\ gone' = gone \ {new}
        /\ link' = [link EXCEPT ![e] = n]
        /\ mode' = [mode EXCEPT ![e] = "in"]
    BY <1>2 DEF Accept
  <2> HIDE DEF n
  <2>3. rest \subseteq Socket /\ rest \subseteq sessions
        /\ \A s \in rest : Owner(s) # e /\ ready[s] = "open"
    BY DEF EvictDuplicate, Kept, Expelled, Living, Dead, IInv, TypeOK
  <2>4. SessionsListed'
    <3>1. \A s \in Socket : ready'[s] = IF s = new THEN "open"
                                        ELSE IF s \in shut THEN "closing" ELSE ready[s]
      BY <2>1, <2>2 DEF CloseSockets
    <3> HIDE DEF new, rest, shut
    <3> QED
      BY <2>1, <2>2, <2>3, <3>1 DEF SessionsListed
  <2>5. Doubles'
    BY <1>0, <2>1, <2>2, <2>3 DEF Doubles, Listed
  <2>6. InNotGone'
    <3> SUFFICES ASSUME NEW x \in Peer, mode'[x] = "in"
                 PROVE  Link(x)' \notin gone'
      BY DEF InNotGone
    <3>1. CASE x = e
      BY <2>1, <2>2, <3>1 DEF Link, IInv, TypeOK
    <3>2. CASE x # e
      BY <2>2, <3>2 DEF Link, IInv, TypeOK, Listed, InNotGone
    <3> QED
      BY <3>1, <3>2
  <2> QED
    BY <2>4, <2>5, <2>6 DEF Listed
<1> QED
  BY <1>1, <1>2 DEF Fetch

(* Every step keeps the list.                                               *)
LEMMA NextListed == IInv /\ Listed /\ [Next]_vars => Listed'
<1> SUFFICES ASSUME IInv, Listed, [Next]_vars
             PROVE  Listed'
  OBVIOUS
<1>0. mode \in [Peer -> {"out", "connecting", "in", "fallback"}] /\ link \in [Peer -> 0..MaxSockets]
  BY DEF IInv, TypeOK
<1>1. ASSUME UNCHANGED <<ready, sessions, revived>>, InNotGone'
      PROVE  Listed'
  BY <1>1 DEF Listed, SessionsListed, Doubles
<1>2. ASSUME NEW closed, Closes(closed), UNCHANGED <<mode, link, gone, revived>>
      PROVE  Listed'
  BY <1>2, ClosesListed DEF Listed, InNotGone, Link
<1>3. ASSUME UNCHANGED <<mode, link, gone>> PROVE InNotGone'
  BY <1>3 DEF Listed, InNotGone, Link
<1>4. ASSUME NEW e \in Peer, JoinCode(e)
      PROVE  Listed'
  <2>1. /\ UNCHANGED <<link, gone, ready, sessions, revived>>
        /\ mode' = [mode EXCEPT ![e] = "connecting"]
    BY <1>4 DEF JoinCode, room
  <2>2. InNotGone'
    BY <1>0, <2>1, OthersStayIn DEF Listed
  <2> QED
    BY <1>1, <2>1, <2>2
<1>5. ASSUME NEW e \in Peer, Leave(e)
      PROVE  Listed'
  <2>1. /\ UNCHANGED <<ready, sessions, revived>>
        /\ mode' = [mode EXCEPT ![e] = "out"]
        /\ gone' = gone \cup {Link(e)} /\ link' = [link EXCEPT ![e] = 0]
    BY <1>5 DEF Leave, Close
  <2>2. InNotGone'
    BY <1>0, <2>1, OthersStayIn DEF Listed
  <2> QED
    BY <1>1, <2>1, <2>2
<1>6. ASSUME NEW e \in Peer, Drop(e)
      PROVE  Listed'
  <2>1. /\ UNCHANGED <<ready, sessions, revived>> /\ Retry(e)
        /\ gone' = gone \cup {Link(e)} /\ link' = [link EXCEPT ![e] = 0]
    BY <1>6 DEF Drop, Close
  <2>2. InNotGone'
    BY <1>0, <2>1, RetryType, OthersStayIn DEF Listed
  <2> QED
    BY <1>1, <2>1, <2>2
<1>7. ASSUME NEW e \in Peer, Fetch(e)
      PROVE  Listed'
  BY <1>7, FetchListed
<1>8. ASSUME NEW e \in Peer, Receive(e)
      PROVE  Listed'
  <2>1. /\ UNCHANGED <<ready, sessions, revived>>
        /\ \/ /\ mode' = [mode EXCEPT ![e] = "fallback"] /\ gone' = gone \cup {Link(e)}
              /\ link' = [link EXCEPT ![e] = 0]
           \/ UNCHANGED <<mode, link, gone>>
    BY <1>8 DEF Receive, Close
  <2>2. CASE UNCHANGED <<mode, link, gone>>
    BY <1>1, <1>3, <2>1, <2>2
  <2>3. CASE /\ mode' = [mode EXCEPT ![e] = "fallback"] /\ gone' = gone \cup {Link(e)}
             /\ link' = [link EXCEPT ![e] = 0]
    <3>1. InNotGone'
      BY <1>0, <2>3, OthersStayIn DEF Listed
    <3> QED
      BY <1>1, <2>1, <3>1
  <2> QED
    BY <2>1, <2>2, <2>3
<1>9. ASSUME NEW e \in Peer, NEW to \in Peer, Relay(e, to)
      PROVE  Listed'
  <2>1. Closes(Expelled)
    BY <1>9 DEF Relay, Closes, Kept, Expelled, Living, Dead
  <2> QED
    BY <1>2, <1>9, <2>1 DEF Relay, client
<1>10. ASSUME NEW e \in Peer, Reject(e)
       PROVE  Listed'
  <2>1. Closes(Expelled \cup ({Link(e)} \cap Kept))
    BY <1>10 DEF Reject, Closes, Kept, Expelled, Living, Dead
  <2> QED
    BY <1>2, <1>10, <2>1 DEF Reject, client
<1>11. ASSUME NEW s \in Socket, Notice(s)
       PROVE  Listed'
  <2>1. SessionsListed'
    BY <1>11 DEF Notice, SessionsListed, Listed, IInv, TypeOK
  <2>2. Doubles' /\ InNotGone'
    BY <1>3, <1>11 DEF Notice, Doubles, Listed, client
  <2> QED
    BY <2>1, <2>2 DEF Listed
<1>12. ASSUME NEW s \in Socket, SocketClosed(s)
       PROVE  Listed'
  <2>0. /\ ready' = [ready EXCEPT ![s] = "closed"] /\ sessions' = sessions \ {s}
        /\ UNCHANGED <<mode, link, gone, revived>>
    BY <1>12 DEF SocketClosed, client
  <2>1. SessionsListed'
    BY <2>0 DEF SessionsListed, Listed, IInv, TypeOK
  <2>2. Doubles' /\ InNotGone'
    BY <1>3, <2>0 DEF Doubles, Listed
  <2> QED
    BY <2>1, <2>2 DEF Listed
<1>13. ASSUME Expire
       PROVE  Listed'
  BY <1>1, <1>3, <1>13 DEF Expire, client
<1>14. ASSUME Hibernate
       PROVE  Listed'
  <2>1. /\ sessions' = {s \in Socket : ready[s] # "closed"}
        /\ revived' = revived \cup Owners(sessions' \ sessions)
        /\ UNCHANGED <<ready, mode, link, gone>>
    BY <1>14 DEF Hibernate, client
  <2>2. SessionsListed' /\ InNotGone'
    BY <1>3, <2>1 DEF SessionsListed
  <2>3. Doubles'
    <3> SUFFICES ASSUME NEW s \in sessions', NEW t \in sessions', s # t, Owner(s) = Owner(t)
                 PROVE  Owner(s) \in revived'
      BY DEF Doubles
    <3>1. CASE s \in sessions /\ t \in sessions
      BY <2>1, <3>1 DEF Listed, Doubles
    <3>2. CASE s \notin sessions \/ t \notin sessions
      BY <2>1, <3>2 DEF Owners
    <3> QED
      BY <3>1, <3>2
  <2> QED
    BY <2>2, <2>3 DEF Listed
<1>15. CASE UNCHANGED vars
  BY <1>1, <1>3, <1>15 DEF vars, room, client
<1> QED
  BY <1>4, <1>5, <1>6, <1>7, <1>8, <1>9, <1>10, <1>11, <1>12, <1>13, <1>14, <1>15
     DEF Next, Connects, Ends

\* ViewsFollowRoom, of one browser.
Sees(e) == mode[e] = "in" /\ Link(e) \in Living => Follows(e, Will(e), sessions, revived)

(* The views of all browsers are right if each one's is.                    *)
LEMMA ViewsAreSeen == ViewsFollowRoom <=> \A e \in Peer : Sees(e)
BY DEF ViewsFollowRoom, Sees, Follows, Present

(* A step that leaves a browser alone, but for sockets the room closes,     *)
(* leaves its view right.                                                   *)
LEMMA LeftAlone ==
  ASSUME ViewsFollowRoom, NEW x \in Peer,
         mode'[x] = mode[x], link'[x] = link[x], peers'[x] = peers[x],
         mode[x] = "in" => wire'[Link(x)] = wire[Link(x)],
         UNCHANGED <<sessions, revived>>, \A s \in sessions : ready'[s] = "open" => ready[s] = "open"
  PROVE  Sees(x)'
<1>1. Sees(x)
  BY ViewsAreSeen
<1>2. Link(x)' = Link(x)
  BY DEF Link
<1>3. mode[x] = "in" => Will(x)' = Will(x)
  BY <1>2 DEF Will
<1>4. Link(x) \in Living' => Link(x) \in Living
  BY DEF Living, Dead
<1> QED
  BY <1>1, <1>2, <1>3, <1>4 DEF Sees, Follows

(* The room refuses a connection after it has cleaned up.                   *)
LEMMA RefuseSees ==
  ASSUME IInv, Listed, WithinCapacity, ViewsFollowRoom, NEW e \in Peer, Full(Kept, e), Refuse(e),
         UNCHANGED revived, NEW x \in Peer
  PROVE  Sees(x)'
<1>1. /\ wire' = CleanWire /\ sessions' = Kept /\ UNCHANGED <<gone, link, peers>> /\ Retry(e)
  BY RefusedEvictsNone DEF Refuse
<1> SUFFICES ASSUME mode'[x] = "in", Link(x)' \in Living'
             PROVE  Follows(x, Will(x)', sessions', revived')
  BY DEF Sees, Follows
<1>2. x # e /\ mode[x] = "in" /\ Link(x)' = Link(x) /\ peers'[x] = peers[x]
  BY <1>1, RetryType DEF Link
<1>3. Link(x) \in Kept
  BY <1>1, <1>2 DEF Living
<1>4. Will(x)' = CleanWill(x)
  BY <1>1, <1>2 DEF Will, CleanWill
<1> QED
  BY <1>1, <1>2, <1>3, <1>4, CleanFollows

(* The room lets a browser in: it gets the list, the others get its name.   *)
LEMMA AcceptSees ==
  ASSUME IInv, Listed, ViewsFollowRoom, NEW e \in Peer, Accept(e), UNCHANGED revived,
         \E k \in 1..MaxSockets : ready[<<e, k>>] = "closed",
         NEW x \in Peer
  PROVE  Sees(x)'
<1> DEFINE n == CHOOSE k \in 1..MaxSockets : ready[<<e, k>>] = "closed"
           new == <<e, n>>
           rest == EvictDuplicate(Kept, e)
           to == {s \in rest : Owner(s) # e}
           told == Broadcast(CleanWire, to, [s \in Socket |-> <<Message("joined", {e})>>])
<1>1. n \in 1..MaxSockets /\ new \in Socket /\ Owner(new) = e
  BY DEF Socket, Owner
<1>2. /\ sessions' = rest \cup {new}
      /\ link' = [link EXCEPT ![e] = n]
      /\ mode' = [mode EXCEPT ![e] = "in"]
      /\ UNCHANGED peers
      /\ wire' = [told EXCEPT ![new] = <<Message("snapshot", Owners(rest))>>]
  BY DEF Accept
<1> HIDE DEF n
<1>3. \A s \in Socket : wire'[s] = IF s = new THEN <<Message("snapshot", Owners(rest))>>
                                  ELSE IF s \in to \ gone /\ ready[s] = "open"
                                  THEN CleanWire[s] \o <<Message("joined", {e})>>
                                  ELSE CleanWire[s]
  BY <1>1, <1>2 DEF Broadcast
<1>4. /\ rest \subseteq Kept /\ \A s \in rest : Owner(s) # e /\ ready[s] = "open"
      /\ Kept \subseteq Socket
      /\ Owners(sessions') = Owners(Kept) \cup {e} /\ Owners(rest) = Owners(Kept) \ {e}
      /\ Owners(rest) \subseteq Peer
  <2>1. /\ rest \subseteq Kept /\ \A s \in rest : Owner(s) # e /\ ready[s] = "open"
        /\ \A s \in Kept : Owner(s) # e => s \in rest
        /\ Kept \subseteq Socket
    BY DEF EvictDuplicate, Kept, Living, Dead, IInv, TypeOK
  <2>2. Owners(rest) = Owners(Kept) \ {e}
    BY <2>1 DEF Owners
  <2>3. Owners(sessions') = Owners(rest) \cup {e}
    BY <1>1, <1>2 DEF Owners
  <2>4. e \in Owners(sessions') /\ Owners(rest) \subseteq Peer
    BY <2>1, <2>3 DEF Owners, Owner, Socket
  <2> QED
    BY <2>1, <2>2, <2>3, <2>4
<1> SUFFICES ASSUME mode'[x] = "in", Link(x)' \in Living'
             PROVE  Follows(x, Will(x)', sessions', revived')
  BY DEF Sees, Follows
<1>5. CASE x = e
  <2>1. Link(x)' = new
    BY <1>2, <1>5 DEF Link, IInv, TypeOK
  <2> DEFINE m == Message("snapshot", Owners(rest))
  <2>2. wire'[new] = <<m>>
    BY <1>1, <1>3
  <2>3. \A f : (Keeps(m, f) <=> f \in Owners(rest)) /\ (Brings(m, f) <=> f \in Owners(rest))
    BY DEF Keeps, Brings, Show, Message
  <2> HIDE DEF m
  <2>4. \A f : Shown(peers[x], <<m>>, f) <=> f \in Owners(rest)
    BY <2>3, OneRead DEF Shown
  <2>5. Will(x)' = Owners(rest)
    <3>1. \A f : Shown(peers[x], <<m>>, f) => f \in Peer \ {x}
      BY <1>4, <1>5, <2>4
    <3>2. Will(x)' = {f \in Peer \ {x} : Shown(peers[x], <<m>>, f)}
      BY <1>2, <2>1, <2>2 DEF Will
    <3> QED
      BY <2>4, <3>1, <3>2
  <2> QED
    BY <1>4, <1>5, <2>5 DEF Follows
<1>6. CASE x # e
  <2>1. mode[x] = "in" /\ Link(x)' = Link(x) /\ Link(x) \in Socket /\ Owner(Link(x)) = x
    BY <1>2, <1>6, LinkType DEF IInv, TypeOK, Link
  <2>2. Link(x) # new
    BY <1>1, <1>6, <2>1
  <2>3. Link(x) \in rest /\ Link(x) \in Kept /\ ready[Link(x)] = "open" /\ Link(x) \notin gone
    BY <1>2, <1>4, <2>1, <2>2 DEF Living, Listed, InNotGone
  <2> DEFINE m == Message("joined", {e})
             w == CleanWire[Link(x)]
  <2>4. wire'[Link(x)] = w \o <<m>>
    BY <1>3, <1>6, <2>1, <2>2, <2>3
  <2>5. w \in Seq(Messages) /\ <<m>> \in Seq(Messages)
    <3>1. m \in Messages
      BY DEF Message, Messages
    <3>2. w \in Seq(Messages)
      BY <2>1, CleanWireType
    <3> HIDE DEF m, w
    <3> QED
      BY <3>1, <3>2
  <2>6. \A f : Keeps(m, f) /\ (Brings(m, f) <=> f = e)
    BY DEF Keeps, Brings, Show, Message
  <2> HIDE DEF m, w
  <2>7. \A f : Shown(peers[x], w \o <<m>>, f) <=> f = e \/ Shown(peers[x], w, f)
    BY <2>5, <2>6, OneRead, MoreRead
  <2>8. Will(x)' = {f \in Peer \ {x} : Shown(peers[x], w \o <<m>>, f)}
    BY <1>2, <2>1, <2>4 DEF Will
  <2>9. Will(x)' = CleanWill(x) \cup {e}
    BY <1>6, <2>7, <2>8 DEF CleanWill, w
  <2>10. Follows(x, CleanWill(x), Kept, revived)
    BY <2>1, <2>3, CleanFollows
  <2> QED
    BY <1>4, <2>9, <2>10 DEF Follows
<1> QED
  BY <1>5, <1>6

(* A relayed message changes no view.                                       *)
LEMMA RelaySees ==
  ASSUME IInv, Listed, ViewsFollowRoom, NEW e \in Peer, NEW to \in Peer, Relay(e, to),
         NEW x \in Peer
  PROVE  Sees(x)'
<1> DEFINE m == Message("relay", {e})
           w == CleanWire[Link(x)]
<1>1. /\ sessions' = Kept /\ UNCHANGED <<mode, link, peers, revived>>
      /\ wire' = Broadcast(CleanWire, FirstOf({s \in Kept : Owner(s) = to /\ Link(e) \in Kept}),
                           [s \in Socket |-> <<m>>])
  BY DEF Relay, client
<1> SUFFICES ASSUME mode'[x] = "in", Link(x)' \in Living'
             PROVE  Follows(x, Will(x)', sessions', revived')
  BY DEF Sees, Follows
<1>2. mode[x] = "in" /\ Link(x)' = Link(x) /\ Link(x) \in Kept /\ Link(x) \in Socket
  BY <1>1, LinkType DEF Link, Living
<1>3. wire'[Link(x)] = w \/ wire'[Link(x)] = w \o <<m>>
  BY <1>1, <1>2 DEF Broadcast
<1>4. w \in Seq(Messages) /\ <<m>> \in Seq(Messages)
  <2>1. m \in Messages
    BY DEF Message, Messages
  <2>2. w \in Seq(Messages)
    BY <1>2, CleanWireType
  <2> HIDE DEF m, w
  <2> QED
    BY <2>1, <2>2
<1>5. \A f : Keeps(m, f) /\ ~Brings(m, f)
  BY DEF Keeps, Brings, Show, Message
<1> HIDE DEF m, w
<1>6. \A f : Shown(peers[x], w \o <<m>>, f) <=> Shown(peers[x], w, f)
  BY <1>4, <1>5, OneRead, MoreRead
<1>7. \A f : Shown(peers[x], wire'[Link(x)], f) <=> Shown(peers[x], w, f)
  BY <1>3, <1>6
<1>8. Will(x)' = CleanWill(x)
  BY <1>1, <1>2, <1>7 DEF Will, CleanWill, w
<1> QED
  BY <1>1, <1>2, <1>8, CleanFollows

(* The room ends the session of a message it rejects, and says so.          *)
LEMMA RejectSees ==
  ASSUME IInv, Listed, ViewsFollowRoom, NEW e \in Peer, Reject(e), NEW x \in Peer
  PROVE  Sees(x)'
<1> DEFINE ended == {Link(e)} \cap Kept
           v == Lefts(Link(x), ended)
           w == CleanWire[Link(x)]
<1>1. /\ sessions' = Kept \ ended /\ UNCHANGED <<mode, link, peers, revived>>
      /\ wire' = Broadcast(CleanWire, Kept, [s \in Socket |->
                   IF s \in ended THEN <<Message("rejected", {})>> ELSE Lefts(s, ended)])
  BY DEF Reject, client
<1> SUFFICES ASSUME mode'[x] = "in", Link(x)' \in Living'
             PROVE  Follows(x, Will(x)', sessions', revived')
  BY DEF Sees, Follows
<1>2. /\ mode[x] = "in" /\ Link(x)' = Link(x) /\ Link(x) \in Kept \ ended
      /\ Link(x) \in Socket /\ Owner(Link(x)) = x /\ Link(x) \notin gone
  BY <1>1, LinkType DEF Link, Living, Listed, InNotGone
<1>3. ready[Link(x)] = "open" /\ ended \in SUBSET Socket /\ ended \in SUBSET Kept
  BY <1>2 DEF Kept, Living, Dead, IInv, TypeOK
<1>4. wire'[Link(x)] = w \o v
  BY <1>1, <1>2, <1>3 DEF Broadcast
<1>5. w \in Seq(Messages) /\ v \in Seq(Messages)
  BY <1>2, <1>3, CleanWireType, LeftsType
<1>6. \A f : (KeepAll(v, f) <=> f \notin Owners(ended) \ {x}) /\ ~BringAny(v, f)
  BY <1>2, <1>3, LeftsRead
<1>7. /\ Follows(x, CleanWill(x), Kept, revived)
      /\ DoubleIn(Kept, revived)
  <2>1. Kept \subseteq sessions
    BY DEF Kept, Living
  <2> QED
    BY <1>2, <2>1, CleanFollows DEF Listed, Doubles, DoubleIn
<1> HIDE DEF ended, v, w
<1>8. \A f : Shown(peers[x], w \o v, f)
               <=> Shown(peers[x], w, f) /\ f \notin Owners(ended) \ {x}
  BY <1>5, <1>6, MoreRead
<1>9. Will(x)' = {f \in Peer \ {x} : Shown(peers[x], w \o v, f)}
  BY <1>1, <1>2, <1>4 DEF Will
<1>10. Will(x)' = CleanWill(x) \ Owners(ended)
  BY <1>8, <1>9 DEF CleanWill, w
<1>11. Follows(x, CleanWill(x) \ Owners(ended), Kept \ ended, revived)
  BY <1>3, <1>7, EndingKeeps
<1> QED
  BY <1>1, <1>10, <1>11

(* The room hears that a socket is closed, and tells of the session it had. *)
LEMMA SocketClosedSees ==
  ASSUME IInv, Listed, ViewsFollowRoom, NEW s \in Socket, SocketClosed(s), NEW x \in Peer
  PROVE  Sees(x)'
<1>1. /\ ready[s] = "closing" /\ ready' = [ready EXCEPT ![s] = "closed"]
      /\ sessions' = sessions \ {s}
      /\ UNCHANGED <<mode, link, peers, revived>>
      /\ wire' = IF s \in sessions
                 THEN Broadcast(wire, sessions \ {s}, [t \in Socket |-> Lefts(t, {s})]) ELSE wire
  BY DEF SocketClosed, client
<1>2. CASE s \notin sessions
  <2>1. sessions' = sessions
    BY <1>1, <1>2
  <2>2. \A t \in sessions : ready'[t] = "open" => ready[t] = "open"
    BY <1>1 DEF IInv, TypeOK
  <2> QED
    BY <1>1, <1>2, <2>1, <2>2, LeftAlone
<1>3. CASE s \in sessions
  <2> SUFFICES ASSUME mode'[x] = "in", Link(x)' \in Living'
               PROVE  Follows(x, Will(x)', sessions', revived')
    BY DEF Sees, Follows
  <2> DEFINE v == Lefts(Link(x), {s})
             w == wire[Link(x)]
  <2>1. /\ mode[x] = "in" /\ Link(x)' = Link(x) /\ Link(x) \in sessions \ {s}
        /\ Link(x) \in Socket /\ Owner(Link(x)) = x /\ Link(x) \notin gone
    BY <1>1, LinkType DEF Link, Living, Listed, InNotGone
  <2>2. ready[Link(x)] = "open" /\ Link(x) \in Living
    BY <1>1, <2>1 DEF Living, Dead, IInv, TypeOK
  <2>3. wire'[Link(x)] = w \o v
    BY <1>1, <1>3, <2>1, <2>2 DEF Broadcast
  <2>4. w \in Seq(Messages) /\ v \in Seq(Messages) /\ {s} \in SUBSET sessions
    BY <1>3, <2>1, LeftsType DEF IInv, TypeOK
  <2>5. \A f : (KeepAll(v, f) <=> f \notin Owners({s}) \ {x}) /\ ~BringAny(v, f)
    BY <2>1, LeftsRead
  <2>6. Follows(x, Will(x), sessions, revived) /\ DoubleIn(sessions, revived)
    BY <2>1, <2>2, ViewsAreSeen DEF Sees, Listed, Doubles, DoubleIn
  <2> HIDE DEF v, w
  <2>7. \A f : Shown(peers[x], w \o v, f)
                 <=> Shown(peers[x], w, f) /\ f \notin Owners({s}) \ {x}
    BY <2>4, <2>5, MoreRead
  <2>8. Will(x)' = {f \in Peer \ {x} : Shown(peers[x], w \o v, f)}
    BY <1>1, <2>1, <2>3 DEF Will
  <2>9. Will(x)' = Will(x) \ Owners({s})
    BY <2>7, <2>8 DEF Will, w
  <2>10. Follows(x, Will(x) \ Owners({s}), sessions \ {s}, revived)
    BY <2>4, <2>6, EndingKeeps
  <2> QED
    BY <1>1, <2>9, <2>10
<1> QED
  BY <1>2, <1>3

(* What a browser reads turns what is under way into what it shows.         *)
LEMMA ReceiveSees ==
  ASSUME IInv, Listed, ViewsFollowRoom, NEW e \in Peer, Receive(e), NEW x \in Peer
  PROVE  Sees(x)'
<1> DEFINE l == Link(e)
           m == Head(wire[l])
<1>1. /\ mode[e] = "in" /\ wire[l] # <<>>
      /\ wire' = [wire EXCEPT ![l] = Tail(@)]
      /\ peers' = [peers EXCEPT ![e] = Show(@, m) \ {e}]
      /\ UNCHANGED <<ready, sessions, revived>>
      /\ \/ /\ mode' = [mode EXCEPT ![e] = "fallback"] /\ link' = [link EXCEPT ![e] = 0]
         \/ UNCHANGED <<mode, link>>
  BY DEF Receive, Close
<1>2. l \in Socket /\ Owner(l) = e /\ wire[l] \in Seq(Messages)
  BY <1>1, LinkType DEF IInv, TypeOK
<1>3. CASE x # e
  <2>1. /\ mode'[x] = mode[x] /\ link'[x] = link[x] /\ peers'[x] = peers[x]
    BY <1>1, <1>3 DEF IInv, TypeOK
  <2>2. mode[x] = "in" => wire'[Link(x)] = wire[Link(x)]
    BY <1>1, <1>2, <1>3, LinkType DEF IInv, TypeOK
  <2> QED
    BY <1>1, <2>1, <2>2, LeftAlone
<1>4. CASE x = e
  <2> SUFFICES ASSUME mode'[x] = "in", Link(x)' \in Living'
               PROVE  Follows(x, Will(x)', sessions', revived')
    BY DEF Sees, Follows
  <2>1. UNCHANGED <<mode, link>>
    BY <1>1, <1>4 DEF IInv, TypeOK
  <2>2. Link(x)' = l /\ Link(x) \in Living
    BY <1>1, <1>4, <2>1 DEF Link, Living, Dead
  <2>3. wire'[l] = Tail(wire[l]) /\ peers'[x] = Show(peers[x], m) \ {x}
    BY <1>1, <1>2, <1>4 DEF IInv, TypeOK
  <2>4. \A f : Shown(peers[x], wire[l], f) <=> Shown(Show(peers[x], m), Tail(wire[l]), f)
    BY <1>1, <1>2, FirstRead
  <2> HIDE DEF l, m
  <2>5. \A f \in Peer \ {x} : Shown(peers[x], wire[l], f) <=> Shown(peers'[x], wire'[l], f)
    BY <2>3, <2>4 DEF Shown
  <2>6. Will(x)' = Will(x)
    BY <1>4, <2>2, <2>5 DEF Will, l
  <2>7. Follows(x, Will(x), sessions, revived)
    BY <1>1, <1>4, <2>2, ViewsAreSeen DEF Sees
  <2> QED
    BY <1>1, <2>6, <2>7 DEF Follows
<1> QED
  BY <1>3, <1>4

(* Every step keeps the views.                                              *)
LEMMA NextViews ==
  IInv /\ Listed /\ WithinCapacity /\ ViewsFollowRoom /\ [Next]_vars => ViewsFollowRoom'
<1> SUFFICES ASSUME IInv, Listed, WithinCapacity, ViewsFollowRoom, [Next]_vars, NEW x \in Peer
             PROVE  Sees(x)'
  BY DEF ViewsFollowRoom, Sees, Follows, Present
<1>0. mode \in [Peer -> {"out", "connecting", "in", "fallback"}] /\ link \in [Peer -> 0..MaxSockets]
      /\ peers \in [Peer -> SUBSET Peer] /\ wire \in [Socket -> Seq(Messages)]
  BY DEF IInv, TypeOK
<1>1. ASSUME NEW e \in Peer, mode'[e] # "in", UNCHANGED <<ready, sessions, revived>>,
             \A y \in Peer \ {e} : /\ mode'[y] = mode[y] /\ link'[y] = link[y]
                                   /\ peers'[y] = peers[y],
             wire' = wire \/ (mode[e] = "in" /\ Lost(e))
      PROVE  Sees(x)'
  <2>1. CASE x = e
    BY <1>1, <2>1 DEF Sees
  <2>2. CASE x # e
    <3>1. mode[x] = "in" => wire'[Link(x)] = wire[Link(x)]
      BY <1>0, <1>1, <2>2, LinkType DEF Lost
    <3> QED
      BY <1>1, <2>2, <3>1, LeftAlone
  <2> QED
    BY <2>1, <2>2
<1>2. ASSUME NEW e \in Peer, JoinCode(e)
      PROVE  Sees(x)'
  BY <1>0, <1>1, <1>2 DEF JoinCode, room
<1>3. ASSUME NEW e \in Peer, Leave(e)
      PROVE  Sees(x)'
  BY <1>0, <1>1, <1>3 DEF Leave, Close
<1>4. ASSUME NEW e \in Peer, Drop(e)
      PROVE  Sees(x)'
  BY <1>0, <1>1, <1>4, RetryType DEF Drop, Close
<1>5. ASSUME NEW e \in Peer, Fetch(e)
      PROVE  Sees(x)'
  BY <1>5, RefuseSees, AcceptSees DEF Fetch
<1>6. ASSUME Hibernate
      PROVE  Sees(x)'
  <2>1. /\ sessions' = {s \in Socket : ready[s] # "closed"}
        /\ revived' = revived \cup Owners(sessions' \ sessions)
        /\ UNCHANGED <<ready, mode, link, wire, peers>>
    BY <1>6 DEF Hibernate, client
  <2>2. sessions \subseteq sessions' /\ Owners(sessions') = Owners(sessions) \cup Owners(sessions' \ sessions)
    BY <2>1 DEF Listed, SessionsListed, IInv, TypeOK, Owners
  <2> SUFFICES ASSUME mode'[x] = "in", Link(x)' \in Living'
               PROVE  Follows(x, Will(x)', sessions', revived')
    BY DEF Sees, Follows
  <2>3. Link(x)' = Link(x) /\ mode[x] = "in" /\ Link(x) \in Living
    BY <2>1 DEF Link, Living, Dead, IInv, OpenHasSession
  <2>4. Will(x)' = Will(x)
    BY <2>1, <2>3 DEF Will
  <2>5. Follows(x, Will(x), sessions, revived)
    BY <2>3, ViewsAreSeen DEF Sees
  <2> QED
    BY <2>1, <2>2, <2>4, <2>5 DEF Follows
<1>7. ASSUME NEW s \in Socket, Notice(s)
      PROVE  Sees(x)'
  <2>1. \A t \in sessions : ready'[t] = "open" => ready[t] = "open"
    BY <1>7 DEF Notice, IInv, TypeOK
  <2> QED
    BY <1>7, <2>1, LeftAlone DEF Notice, client
<1>8. CASE Expire
  BY <1>8, LeftAlone DEF Expire, client
<1>9. CASE UNCHANGED vars
  BY <1>9, LeftAlone DEF vars, room, client
<1> QED
  BY <1>2, <1>3, <1>4, <1>5, <1>6, <1>7, <1>8, <1>9,
     RelaySees, RejectSees, SocketClosedSees, ReceiveSees
     DEF Next, Connects, Ends

(* The room's list, the browsers' own sockets and the doubles are as Listed *)
(* says: what the views rest on.                                            *)
THEOREM ListedHolds == Spec => []Listed
<1>1. Init => Listed
  BY DEF Init, Listed, SessionsListed, InNotGone, Doubles
<1> QED
  BY InductiveInvariant, <1>1, NextListed, PTL DEF Spec

(* A browser in the room comes to show who has a session there and nobody   *)
(* else, and misses only peers that a hibernation revived, for any number   *)
(* of browsers, sockets, losses and expiries and in whatever order they come. *)
THEOREM ViewsHold == Spec => []ViewsFollowRoom
<1>1. Init => ViewsFollowRoom
  BY DEF Init, ViewsFollowRoom
<1> QED
  BY InductiveInvariant, ListedHolds, CapacityHolds, <1>1, NextViews, PTL DEF Spec
=============================================================================
