------------------------ MODULE NativePairing_proofs ------------------------
(* Keys and bundles belong together, for any number of processes with a code *)
(* in any roles, any interleaving of room and LAN, and any faults.           *)
EXTENDS NativePairing, TLAPS

RoomEvent == [kind : {"joined", "pake", "bootstrap"}, key : Key \cup {NoPeer}]

\* What p may send: a bundle is sealed with a key of which p is an end.
TruthOf(p) == {x \in RoomEvent : x.kind = "bootstrap" => x.key # NoPeer /\ p \in x.key.of}

\* Nobody is served by itself, and every envelope on the way is its sender's.
WireIsTrue ==
  \A p \in Peer : wire[p][p] = <<>> /\ \A q \in Peer : wire[p][q] \in Seq(TruthOf(p))

\* So is an envelope that waits for the key.
PendingIsTrue ==
  \A p \in Peer : pending[p] # NoPeer => pending[p].from # p /\ pending[p].from \in pending[p].key.of

\* A process mixes its own identity into its key.
KeysAreOwn == \A p \in Peer : key[p] # NoPeer => \E q \in Peer : key[p].of = {p, q}

\* A process that has its bundle does not wait for another, on the LAN or in the room,
\* and none returns without.
BundleEndsWaiting ==
  \A p \in Peer : /\ bundle[p] # NoPeer => pc[p] \in {"paired", "bound", "failed"}
                  /\ pc[p] \in {"paired", "bound"} => bundle[p] # NoPeer

\* The state of a LAN exchange, of which a receiver has one at a time.
LinksAreTrue ==
  /\ \A s \in Peer : link[s] # NoLink =>
       LET r == link[s].to IN
       /\ r \in Peer /\ link[s].stage # "none"
       /\ role[s] = "send" /\ role[r] = "receive" /\ pc[r] = "responding"
       /\ link[s].stage \in {"init", "reply"} => pc[s] \in {"lan", "lanonly"}
       /\ link[s].stage = "init" /\ key[r] # NoPeer => key[r].via = "room"
       /\ link[s].stage \in {"reply", "finish"} => key[r] = PairKey("lan", s, r)
       /\ link[s].stage = "finish" => bundle[s] = r /\ key[s] = key[r] /\ pc[s] = "paired"
  /\ \A s, t \in Peer : link[s] # NoLink /\ link[t] # NoLink /\ link[s].to = link[t].to => s = t

\* A key made on the LAN stays, and who holds the bundle holds the owner's key.
LanKeys ==
  \A p \in Peer : key[p] # NoPeer /\ key[p].via = "lan" =>
    /\ pc[p] \in {"responding", "paired", "bound", "failed"}
    /\ bundle[p] # NoPeer => key[bundle[p]] = key[p]

IInv == /\ TypeOK /\ WireIsTrue /\ PendingIsTrue /\ KeysAreOwn /\ BundleEndsWaiting
        /\ LinksAreTrue /\ LanKeys /\ KeyFitsBundle

-----------------------------------------------------------------------------
LEMMA InitIInv == Init => IInv
<1> SUFFICES ASSUME Init PROVE IInv
  OBVIOUS
<1> USE PeerAssumption, RoleAssumption, FaultAssumption DEF Init
<1>1. wire \in [Peer -> [Peer -> Seq(RoomEvent)]]
  OBVIOUS
<1>2. TypeOK
  BY <1>1 DEF TypeOK, NoLink, RoomEvent
<1>3. WireIsTrue
  BY DEF WireIsTrue
<1>4. PendingIsTrue /\ KeysAreOwn /\ BundleEndsWaiting /\ LanKeys /\ KeyFitsBundle
  BY DEF PendingIsTrue, KeysAreOwn, BundleEndsWaiting, LanKeys, KeyFitsBundle
<1>5. LinksAreTrue
  BY DEF LinksAreTrue
<1> QED
  BY <1>2, <1>3, <1>4, <1>5 DEF IInv

(* Keys of two processes.                                                    *)
LEMMA PairKeyType ==
  ASSUME NEW p \in Peer, NEW q \in Peer, NEW via \in {"room", "lan"}
  PROVE  /\ PairKey(via, p, q) \in Key /\ PairKey(via, p, q) # NoPeer
         /\ PairKey(via, p, q).of = {p, q} /\ PairKey(via, p, q).via = via
BY PeerAssumption DEF PairKey, Key

\* The first event from q is handled and p answers it.
LEMMA HandleType ==
  ASSUME wire \in [Peer -> [Peer -> Seq(RoomEvent)]], WireIsTrue,
         NEW p \in Peer, NEW q \in Peer, wire[q][p] # <<>>,
         NEW events \in Seq(TruthOf(p)), Handle(p, q, events)
  PROVE  /\ p # q /\ Head(wire[q][p]) \in TruthOf(q)
         /\ wire' \in [Peer -> [Peer -> Seq(RoomEvent)]] /\ WireIsTrue'
<1> USE DEF WireIsTrue
<1>1. p # q
  OBVIOUS
<1>2. Head(wire[q][p]) \in TruthOf(q) /\ Tail(wire[q][p]) \in Seq(TruthOf(q))
  OBVIOUS
<1>3. wire[p][q] \o events \in Seq(TruthOf(p))
  OBVIOUS
<1>4. wire' = [wire EXCEPT ![q][p] = Tail(@), ![p][q] = @ \o events]
  BY DEF Handle
<1>5. \A x \in Peer, y \in Peer :
        wire'[x][y] = IF x = q /\ y = p THEN Tail(wire[q][p])
                      ELSE IF x = p /\ y = q THEN wire[p][q] \o events ELSE wire[x][y]
  BY <1>1, <1>4
<1>6. \A x \in Peer, y \in Peer : wire'[x][y] \in Seq(TruthOf(x))
  BY <1>1, <1>2, <1>3, <1>5
<1>7. \A x \in Peer : wire'[x][x] = <<>>
  BY <1>1, <1>5
<1>8. \A x \in Peer : Seq(TruthOf(x)) \subseteq Seq(RoomEvent)
  BY DEF TruthOf
<1>9. wire' \in [Peer -> [Peer -> Seq(RoomEvent)]]
  <2>1. Tail(wire[q][p]) \in Seq(RoomEvent) /\ wire[p][q] \o events \in Seq(RoomEvent)
    BY <1>2, <1>3, <1>8
  <2> QED
    BY <2>1, <1>1, <1>4
<1> QED
  BY <1>1, <1>2, <1>6, <1>7, <1>9 DEF TruthOf

Final == {"paired", "bound", "failed"}

\* Steps that move processes between stages and send what is true keep the invariant.
LEMMA MovesIInv ==
  ASSUME IInv, TypeOK', WireIsTrue', UNCHANGED <<key, bundle, pending, link, role>>,
         \A x \in Peer : \/ pc'[x] = pc[x]
                         \/ /\ link[x] = NoLink /\ pc[x] # "responding"
                            /\ pc[x] \in Final => pc'[x] \in Final
                            /\ pc'[x] \in {"paired", "bound"} => pc[x] \in {"paired", "bound"}
  PROVE  IInv'
<1> USE DEF IInv
<1>1. PendingIsTrue' /\ KeysAreOwn' /\ KeyFitsBundle'
  BY DEF PendingIsTrue, KeysAreOwn, KeyFitsBundle
<1>2. BundleEndsWaiting'
  BY DEF BundleEndsWaiting, Final
<1>3. LinksAreTrue'
  BY DEF LinksAreTrue, PairKey
<1>4. LanKeys'
  BY DEF LanKeys, Final
<1> QED
  BY <1>1, <1>2, <1>3, <1>4

\* Only a process that looks on the LAN, or has returned from there, has a connection.
LEMMA NoLinkElsewhere ==
  ASSUME TypeOK, LinksAreTrue, NEW p \in Peer, pc[p] \notin {"lan", "lanonly", "paired"}
  PROVE  link[p] = NoLink
<1>1. link[p].stage \in {"none", "init", "reply", "finish"}
  BY DEF TypeOK
<1> QED
  BY <1>1 DEF LinksAreTrue

\* What p puts in the room when it joins.
LEMMA JoinRoomIInv ==
  ASSUME IInv, NEW p \in Peer, JoinRoom(p)
  PROVE  IInv'
<1> USE DEF IInv
<1>1. Event("joined", NoPeer) \in TruthOf(p) /\ Event("pake", NoPeer) \in TruthOf(p)
  BY DEF Event, TruthOf, RoomEvent
<1>2. <<Event("joined", NoPeer), Event("pake", NoPeer)>> \in Seq(TruthOf(p)) /\ <<>> \in Seq(TruthOf(p))
  BY <1>1
<1>3. p \notin Members /\ Members \subseteq Peer
  BY DEF Members, JoinRoom
<1>4. wire \in [Peer -> [Peer -> Seq(RoomEvent)]]
  BY DEF TypeOK, RoomEvent
<1>5. /\ wire'[p] = [q \in Peer |-> IF q \in Members
                                   THEN <<Event("joined", NoPeer), Event("pake", NoPeer)>>
                                   ELSE <<>>]
      /\ \A x \in Peer \ {p} : wire'[x] = wire[x]
      /\ DOMAIN wire' = Peer
  BY <1>4 DEF JoinRoom
<1>6. \A x \in Peer, y \in Peer : wire'[x][y] \in Seq(TruthOf(x))
  <2>1. \A y \in Peer : wire'[p][y] \in Seq(TruthOf(p))
    BY <1>2, <1>5
  <2>2. ASSUME NEW x \in Peer \ {p}, NEW y \in Peer
        PROVE  wire'[x][y] \in Seq(TruthOf(x))
    <3>1. wire[x][y] \in Seq(TruthOf(x))
      BY DEF WireIsTrue
    <3> QED
      BY <3>1, <1>5
  <2> QED
    BY <2>1, <2>2
<1>7. WireIsTrue'
  <2>1. \A x \in Peer : wire'[x][x] = <<>>
    BY <1>3, <1>5 DEF WireIsTrue
  <2> QED
    BY <1>6, <2>1 DEF WireIsTrue, TruthOf
<1>8. wire' \in [Peer -> [Peer -> Seq(RoomEvent)]]
  <2>1. \A x \in Peer : Seq(TruthOf(x)) \subseteq Seq(RoomEvent)
    BY DEF TruthOf
  <2>2. \A x \in Peer, y \in Peer : wire'[x][y] \in Seq(RoomEvent)
    BY <2>1, <1>6
  <2>3. \A x \in Peer : wire'[x] = [y \in Peer |-> wire'[x][y]]
    BY <1>4, <1>5
  <2>4. wire' = [x \in Peer |-> wire'[x]]
    BY <1>4 DEF JoinRoom
  <2>5. \A x \in Peer : wire'[x] \in [Peer -> Seq(RoomEvent)]
    BY <2>2, <2>3
  <2> QED
    BY <2>4, <2>5
<1>9. TypeOK'
  BY <1>3, <1>8 DEF TypeOK, JoinRoom, Stage, RoomEvent, pairing, world
<1> QED
  <2>1. \A x \in Peer :
          pc'[x] = pc[x] \/ (x = p /\ pc[x] = "joining" /\ pc'[x] = "room" /\ link[x] = NoLink)
    BY NoLinkElsewhere DEF JoinRoom, Stage, TypeOK
  <2> QED
    BY <1>7, <1>9, <2>1, MovesIInv DEF JoinRoom, pairing, world, Final

\* Handling an event leaves the other variables of the room with their types.
LEMMA QuietRoomIInv ==
  ASSUME IInv, NEW p \in Peer, NEW q \in Peer,
         ReceiveJoined(p, q) \/ LaterPake(p, q) \/ RoomError(p, q)
  PROVE  IInv'
<1> USE DEF IInv
<1>1. wire \in [Peer -> [Peer -> Seq(RoomEvent)]] /\ WireIsTrue
  BY DEF TypeOK, RoomEvent
<1>2. Event("pake", NoPeer) \in TruthOf(p)
  BY DEF Event, TruthOf, RoomEvent
<1>3. key'[p] # NoPeer /\ key' = key => Event("bootstrap", key'[p]) \in TruthOf(p)
  BY DEF Event, TruthOf, RoomEvent, KeysAreOwn, TypeOK
<1>4. pc[p] = "room" /\ wire[q][p] # <<>>
  BY DEF ReceiveJoined, LaterPake, RoomError, HandleEvent
<1>5. PICK events \in Seq(TruthOf(p)) : Handle(p, q, events)
  <2>1. CASE ReceiveJoined(p, q)
    <3>1. <<>> \in Seq(TruthOf(p)) /\ <<Event("pake", NoPeer)>> \in Seq(TruthOf(p))
      BY <1>2
    <3>2. \E events \in {<<>>, <<Event("pake", NoPeer)>>} : Handle(p, q, events)
      BY <2>1, Zenon DEF ReceiveJoined
    <3> QED
      BY <3>1, <3>2
  <2>2. CASE LaterPake(p, q)
    <3>1. key' = key /\ key[p] # NoPeer /\ Handle(p, q, Bootstrap(p, q))
      BY <2>2 DEF LaterPake, pairing
    <3>2. Bootstrap(p, q) \in Seq(TruthOf(p))
      BY <1>3, <3>1 DEF Bootstrap
    <3> QED
      BY <3>1, <3>2
  <2>3. CASE RoomError(p, q)
    <3>1. Handle(p, q, <<>>) /\ <<>> \in Seq(TruthOf(p))
      BY <2>3 DEF RoomError
    <3> QED
      BY <3>1
  <2> QED
    BY <2>1, <2>2, <2>3
<1>6. wire' \in [Peer -> [Peer -> Seq(RoomEvent)]] /\ WireIsTrue'
  BY <1>1, <1>4, <1>5, HandleType
<1>7. UNCHANGED <<key, bundle, pending, spent, link, world>>
  BY DEF ReceiveJoined, LaterPake, RoomError, pairing
<1>8. /\ pc' = pc \/ pc' = [pc EXCEPT ![p] = "failed"]
      /\ paked' \in [Peer -> SUBSET Peer] /\ booted' \in [Peer -> SUBSET Peer]
  <2>1. /\ pc' = pc \/ pc' = [pc EXCEPT ![p] = "failed"]
        /\ paked' = paked \/ paked' = [paked EXCEPT ![p] = @ \cup {q}]
        /\ booted' = booted \/ booted' = [booted EXCEPT ![p] = @ \cup {q}]
    <3>1. CASE ReceiveJoined(p, q)
      BY <3>1 DEF ReceiveJoined
    <3>2. CASE LaterPake(p, q)
      BY <3>2 DEF LaterPake
    <3>3. CASE RoomError(p, q)
      BY <3>3 DEF RoomError, Stage, sent
    <3> QED
      BY <3>1, <3>2, <3>3
  <2>2. paked \in [Peer -> SUBSET Peer] /\ booted \in [Peer -> SUBSET Peer]
    BY DEF TypeOK
  <2>3. paked' \in [Peer -> SUBSET Peer]
    BY <2>1, <2>2
  <2>4. booted' \in [Peer -> SUBSET Peer]
    BY <2>1, <2>2
  <2> QED
    BY <2>1, <2>3, <2>4
<1>9. TypeOK'
  BY <1>6, <1>7, <1>8 DEF TypeOK, RoomEvent, world
<1>10. link[p] = NoLink
  BY <1>4, NoLinkElsewhere
<1> QED
  BY <1>4, <1>6, <1>7, <1>8, <1>9, <1>10, MovesIInv DEF Final, world, TypeOK

\* The first PAKE message: the key is made, and an early envelope that it opens came
\* from the process the key is shared with.
LEMMA FirstPakeIInv ==
  ASSUME IInv, NEW p \in Peer, NEW q \in Peer, FirstPake(p, q)
  PROVE  IInv'
<1> USE DEF IInv
<1> DEFINE k == PairKey("room", p, q)
<1>1. /\ k \in Key /\ k # NoPeer /\ k.of = {p, q} /\ k.via = "room"
  BY PairKeyType
<1>2. /\ pc[p] = "room" /\ wire[q][p] # <<>> /\ key[p] = NoPeer
      /\ pending[p] # NoPeer => pending[p].key = k
      /\ key' = [key EXCEPT ![p] = k]
      /\ bundle' = [bundle EXCEPT ![p] = IF pending[p] = NoPeer THEN @ ELSE pending[p].from]
      /\ pending' = [pending EXCEPT ![p] = NoPeer]
      /\ spent' = [spent EXCEPT ![p] = TRUE]
      /\ Handle(p, q, Bootstrap(p, q))
      /\ booted' = [booted EXCEPT ![p] = @ \cup {q}]
      /\ pc' = [pc EXCEPT ![p] = Proceed(p)]
      /\ UNCHANGED <<paked, link, role, expired, misread, faults>>
  BY DEF FirstPake, HandleEvent, Opens, Stage, world
<1> HIDE DEF k
<1>3. bundle[p] = NoPeer
  BY <1>2 DEF KeyFitsBundle
<1>4. pending[p] = NoPeer \/ pending[p] \in Envelope
  BY DEF TypeOK
<1>5. pending[p] # NoPeer => pending[p].from = q
  <2> SUFFICES ASSUME pending[p] # NoPeer PROVE pending[p].from = q
    OBVIOUS
  <2>1. pending[p].from # p /\ pending[p].from \in pending[p].key.of
    BY DEF PendingIsTrue
  <2> QED
    BY <2>1, <1>1, <1>2
<1>6. /\ key'[p] = k /\ \A x \in Peer \ {p} : key'[x] = key[x] /\ bundle'[x] = bundle[x]
                                             /\ pending'[x] = pending[x] /\ pc'[x] = pc[x]
      /\ bundle'[p] \in {NoPeer, q} /\ pending'[p] = NoPeer
  BY <1>2, <1>3, <1>5 DEF TypeOK
<1>7. Bootstrap(p, q) \in Seq(TruthOf(p))
  <2>1. Event("bootstrap", key'[p]) \in TruthOf(p)
    BY <1>1, <1>6 DEF Event, TruthOf, RoomEvent
  <2> QED
    BY <2>1 DEF Bootstrap
<1>8. wire' \in [Peer -> [Peer -> Seq(RoomEvent)]] /\ WireIsTrue'
  <2>1. wire \in [Peer -> [Peer -> Seq(RoomEvent)]]
    BY DEF TypeOK, RoomEvent
  <2> QED
    BY <2>1, <1>2, <1>7, HandleType
<1>9. Proceed(p) \in {"room", "paired"} /\ (bundle'[p] # NoPeer <=> Proceed(p) = "paired")
  BY <1>1, <1>6 DEF Proceed
<1>10. pc'[p] = Proceed(p)
  BY <1>2 DEF TypeOK
<1>11. TypeOK'
  <2>1. bundle' \in [Peer -> Peer \cup {NoPeer}]
    BY <1>2, <1>3, <1>5 DEF TypeOK
  <2>2. key' \in [Peer -> Key \cup {NoPeer}] /\ pending' \in [Peer -> Envelope \cup {NoPeer}]
    BY <1>1, <1>2 DEF TypeOK
  <2>3. pc' \in [Peer -> {"off", "lan", "joining", "room", "lanonly", "responding", "paired",
                          "bound", "failed"}]
    BY <1>2, <1>9 DEF TypeOK
  <2>4. booted' \in [Peer -> SUBSET Peer] /\ spent' \in [Peer -> BOOLEAN]
    BY <1>2 DEF TypeOK
  <2> QED
    BY <1>2, <1>8, <2>1, <2>2, <2>3, <2>4 DEF TypeOK, RoomEvent
<1>12. PendingIsTrue' /\ KeysAreOwn'
  BY <1>1, <1>6 DEF PendingIsTrue, KeysAreOwn
<1>13. BundleEndsWaiting'
  BY <1>6, <1>9, <1>10 DEF BundleEndsWaiting
<1>14. link[p] = NoLink
  BY <1>2, NoLinkElsewhere
<1>15. LinksAreTrue'
  <2>1. \A s \in Peer : link[s] # NoLink => s # p /\ link[s].to # p
    BY <1>2, <1>14 DEF LinksAreTrue
  <2> QED
    <3>1. link' = link /\ role' = role /\ key'[p] = k /\ key[p] = NoPeer
      BY <1>2, <1>6
    <3>2. \A x \in Peer \ {p} : key'[x] = key[x] /\ bundle'[x] = bundle[x] /\ pc'[x] = pc[x]
      BY <1>6
    <3> QED
      BY <2>1, <3>1, <3>2 DEF LinksAreTrue
<1>16. LanKeys'
  <2>1. \A x \in Peer : key[x] # NoPeer /\ bundle[x] # NoPeer /\ key[x].via = "lan" => bundle[x] # p
    BY <1>2 DEF LanKeys
  <2>2. \A x \in Peer : bundle[x] \in Peer \cup {NoPeer}
    BY DEF TypeOK
  <2>3. ASSUME NEW x \in Peer \ {p}, key[x] # NoPeer, key[x].via = "lan"
        PROVE  /\ pc'[x] \in {"responding", "paired", "bound", "failed"}
               /\ bundle'[x] # NoPeer => key'[bundle'[x]] = key'[x]
    BY <1>6, <2>1, <2>2, <2>3 DEF LanKeys
  <2> QED
    BY <1>1, <1>6, <2>3 DEF LanKeys
<1>17. KeyFitsBundle'
  BY <1>1, <1>6 DEF KeyFitsBundle
<1> QED
  BY <1>8, <1>11, <1>12, <1>13, <1>15, <1>16, <1>17

\* An envelope that opens was sealed by its sender for the process that opens it.
LEMMA ReceiveBootstrapIInv ==
  ASSUME IInv, NEW p \in Peer, NEW q \in Peer, ReceiveBootstrap(p, q)
  PROVE  IInv'
<1> USE DEF IInv
<1> DEFINE x == Head(wire[q][p])
<1>1. /\ pc[p] = "room" /\ wire[q][p] # <<>> /\ x.kind = "bootstrap" /\ key[p] # NoPeer
      /\ x.key = key[p]
      /\ bundle' = [bundle EXCEPT ![p] = q]
      /\ Handle(p, q, <<>>)
      /\ pc' = [pc EXCEPT ![p] = Proceed(p)]
      /\ UNCHANGED <<spent, key, pending, paked, booted, link, role, expired, misread, faults>>
  BY DEF ReceiveBootstrap, HandleEvent, Opens, Received, Stage, world, sent
<1>2. /\ p # q /\ x \in TruthOf(q)
      /\ wire' \in [Peer -> [Peer -> Seq(RoomEvent)]] /\ WireIsTrue'
  <2>1. wire \in [Peer -> [Peer -> Seq(RoomEvent)]]
    BY DEF TypeOK, RoomEvent
  <2>2. <<>> \in Seq(TruthOf(p))
    OBVIOUS
  <2> QED
    BY <2>1, <2>2, <1>1, HandleType
<1>3. key[p].of = {p, q}
  <2>1. q \in key[p].of
    BY <1>1, <1>2 DEF TruthOf
  <2> QED
    BY <2>1, <1>1, <1>2 DEF KeysAreOwn
<1> HIDE DEF x
<1>4. bundle'[p] = q /\ \A y \in Peer \ {p} : bundle'[y] = bundle[y] /\ pc'[y] = pc[y]
  BY <1>1 DEF TypeOK
<1>5. Proceed(p) = "paired" /\ pc'[p] = "paired"
  BY <1>1, <1>4, PeerAssumption DEF Proceed, TypeOK
<1>6. TypeOK'
  BY <1>1, <1>2, <1>5 DEF TypeOK, RoomEvent
<1>7. PendingIsTrue' /\ KeysAreOwn' /\ BundleEndsWaiting'
  BY <1>1, <1>4, <1>5, PeerAssumption DEF PendingIsTrue, KeysAreOwn, BundleEndsWaiting
<1>8. LinksAreTrue'
  <2>1. link[p] = NoLink
    BY <1>1, NoLinkElsewhere
  <2>2. \A s \in Peer : link[s] # NoLink => s # p /\ link[s].to # p
    BY <1>1, <2>1 DEF LinksAreTrue
  <2> QED
    BY <1>1, <1>4, <2>2 DEF LinksAreTrue, PairKey
<1>9. LanKeys'
  BY <1>1, <1>4 DEF LanKeys
<1>10. KeyFitsBundle'
  BY <1>1, <1>3, <1>4 DEF KeyFitsBundle
<1> QED
  BY <1>2, <1>6, <1>7, <1>8, <1>9, <1>10

\* An envelope that comes before the key waits in the slot.
LEMMA EarlyBootstrapIInv ==
  ASSUME IInv, NEW p \in Peer, NEW q \in Peer, EarlyBootstrap(p, q)
  PROVE  IInv'
<1> USE DEF IInv
<1> DEFINE x == Head(wire[q][p])
<1>1. /\ wire[q][p] # <<>> /\ x.kind = "bootstrap"
      /\ pending' = [pending EXCEPT ![p] = [from |-> q, key |-> x.key]]
      /\ Handle(p, q, <<>>)
      /\ UNCHANGED <<pc, spent, key, bundle, paked, booted, link, role, expired, misread, faults>>
  BY DEF EarlyBootstrap, HandleEvent, Received, world, sent
<1>2. /\ p # q /\ x \in TruthOf(q)
      /\ wire' \in [Peer -> [Peer -> Seq(RoomEvent)]] /\ WireIsTrue'
  <2>1. wire \in [Peer -> [Peer -> Seq(RoomEvent)]]
    BY DEF TypeOK, RoomEvent
  <2>2. <<>> \in Seq(TruthOf(p))
    OBVIOUS
  <2> QED
    BY <2>1, <2>2, <1>1, HandleType
<1>3. x.key \in Key /\ q \in x.key.of
  BY <1>1, <1>2 DEF TruthOf, RoomEvent
<1> HIDE DEF x
<1>4. TypeOK'
  BY <1>1, <1>2, <1>3 DEF TypeOK, RoomEvent, Envelope
<1>5. PendingIsTrue'
  <2>1. \A y \in Peer : pending'[y] = IF y = p THEN [from |-> q, key |-> x.key] ELSE pending[y]
    BY <1>1 DEF TypeOK
  <2>2. pending'[p].from = q /\ pending'[p].key = x.key
    BY <2>1
  <2>3. \A y \in Peer \ {p} : pending'[y] = pending[y]
    BY <2>1
  <2> QED
    BY <2>2, <2>3, <1>2, <1>3 DEF PendingIsTrue
<1>6. KeysAreOwn' /\ BundleEndsWaiting' /\ LanKeys' /\ KeyFitsBundle'
  BY <1>1 DEF KeysAreOwn, BundleEndsWaiting, LanKeys, KeyFitsBundle
<1>7. LinksAreTrue'
  BY <1>1 DEF LinksAreTrue, PairKey
<1> QED
  BY <1>2, <1>4, <1>5, <1>6, <1>7

-----------------------------------------------------------------------------
(* The LAN.                                                                  *)

\* A sender takes the receiver's loop for its LAN exchange.
LEMMA LanDialIInv ==
  ASSUME IInv, NEW s \in Peer, NEW r \in Peer, LanDial(s, r)
  PROVE  IInv'
<1> USE DEF IInv
<1>1. /\ role[s] = "send" /\ pc[s] \in {"lan", "lanonly"} /\ link[s] = NoLink
      /\ role[r] = "receive" /\ pc[r] \in {"room", "lanonly"}
      /\ link' = [link EXCEPT ![s] = [to |-> r, stage |-> "init"]]
      /\ pc' = [pc EXCEPT ![r] = "responding"]
      /\ UNCHANGED <<spent, key, bundle, pending, paked, booted, wire, role, expired, misread, faults>>
  BY DEF LanDial, Accepting, Stage, pairing, sent, world
<1>2. s # r /\ pc'[r] = "responding" /\ \A x \in Peer \ {r} : pc'[x] = pc[x]
  BY <1>1 DEF TypeOK
<1>3. /\ link'[s].to = r /\ link'[s].stage = "init"
      /\ \A x \in Peer \ {s} : link'[x] = link[x]
  BY <1>1 DEF TypeOK
<1>4. TypeOK'
  BY <1>1 DEF TypeOK
<1>5. WireIsTrue' /\ PendingIsTrue' /\ KeysAreOwn' /\ KeyFitsBundle'
  BY <1>1 DEF WireIsTrue, TruthOf, PendingIsTrue, KeysAreOwn, KeyFitsBundle
<1>6. BundleEndsWaiting'
  BY <1>1, <1>2 DEF BundleEndsWaiting
<1>7. key[r] # NoPeer => key[r].via = "room"
  <2>1. key[r] = NoPeer \/ key[r].via \in {"room", "lan"}
    BY DEF TypeOK, Key
  <2> QED
    BY <2>1, <1>1 DEF LanKeys
<1>8. LinksAreTrue'
  <2>1. \A x \in Peer : link[x] # NoLink => x \notin {s, r} /\ link[x].to \notin {r, s}
    BY <1>1, NoLinkElsewhere DEF LinksAreTrue
  <2>2. \A x \in Peer : link'[x] # NoLink /\ x # s => link[x] # NoLink /\ link'[x] = link[x]
    BY <1>3
  <2> QED
    BY <1>1, <1>2, <1>3, <1>7, <2>1, <2>2 DEF LinksAreTrue, PairKey
<1>9. LanKeys'
  BY <1>1, <1>2 DEF LanKeys
<1> QED
  BY <1>4, <1>5, <1>6, <1>8, <1>9

(* The receiver makes its key and answers, or its minute is over.            *)
LEMMA LanReplyIInv ==
  ASSUME IInv, NEW s \in Peer, LanReply(s)
  PROVE  IInv'
<1> USE DEF IInv
<1> DEFINE r == link[s].to
<1>1. /\ link[s].stage = "init" /\ link[s] # NoLink
      /\ UNCHANGED <<spent, bundle, pending, paked, booted, wire, role, expired, misread, faults>>
  BY DEF LanReply, NoLink, sent, world
<1>2. /\ r \in Peer /\ role[s] = "send" /\ role[r] = "receive" /\ pc[r] = "responding"
      /\ pc[s] \in {"lan", "lanonly"}
      /\ key[r] # NoPeer => key[r].via = "room"
      /\ \A x \in Peer : link[x] # NoLink /\ link[x].to = r => x = s
  BY <1>1 DEF LinksAreTrue
<1>3. bundle[r] = NoPeer
  BY <1>2 DEF BundleEndsWaiting
<1>4. WireIsTrue' /\ PendingIsTrue'
  BY <1>1 DEF WireIsTrue, TruthOf, PendingIsTrue
<1>5. \A x \in Peer : link[x] # NoLink => x # r
  BY <1>2 DEF LinksAreTrue
<1>6. CASE r \in expired
  <2>1. /\ pc' = [pc EXCEPT ![r] = "failed"] /\ link' = [link EXCEPT ![s] = NoLink]
        /\ key' = key
    BY <1>6 DEF LanReply, Stage
  <2>2. /\ \A x \in Peer \ {r} : pc'[x] = pc[x]
        /\ pc'[r] = "failed"
        /\ \A x \in Peer \ {s} : link'[x] = link[x]
        /\ link'[s] = NoLink
    BY <1>2, <2>1 DEF TypeOK
  <2>3. TypeOK'
    BY <1>1, <1>2, <2>1 DEF TypeOK, NoLink
  <2>4. KeysAreOwn' /\ KeyFitsBundle' /\ BundleEndsWaiting' /\ LanKeys'
    BY <1>1, <1>3, <2>1, <2>2 DEF KeysAreOwn, KeyFitsBundle, BundleEndsWaiting, LanKeys
  <2>5. LinksAreTrue'
    <3>1. \A x \in Peer : link'[x] # NoLink =>
             x \notin {s, r} /\ link'[x] = link[x] /\ link[x].to # r
      BY <1>2, <1>5, <2>2
    <3> QED
      BY <1>1, <2>1, <2>2, <3>1 DEF LinksAreTrue, PairKey
  <2> QED
    BY <1>4, <2>3, <2>4, <2>5
<1>7. CASE r \notin expired
  <2> DEFINE k == PairKey("lan", s, r)
  <2>1. /\ key' = [key EXCEPT ![r] = k]
        /\ link' = [link EXCEPT ![s].stage = "reply"] /\ pc' = pc
    BY <1>7 DEF LanReply
  <2>2. k \in Key /\ k # NoPeer /\ k.of = {s, r} /\ k.via = "lan"
    BY <1>2, PairKeyType
  <2>3. /\ key'[r] = k /\ \A x \in Peer \ {r} : key'[x] = key[x]
        /\ link'[s].to = r /\ link'[s].stage = "reply"
        /\ \A x \in Peer \ {s} : link'[x] = link[x]
    BY <1>2, <2>1 DEF TypeOK
  <2>4. TypeOK'
    <3>1. key' \in [Peer -> Key \cup {NoPeer}]
      BY <2>1, <2>2 DEF TypeOK
    <3>2. link' \in [Peer -> [to : Peer \cup {NoPeer}, stage : {"none", "init", "reply", "finish"}]]
      BY <2>1 DEF TypeOK
    <3> QED
      BY <1>1, <2>1, <3>1, <3>2 DEF TypeOK
  <2>5. KeysAreOwn'
    BY <1>2, <2>2, <2>3 DEF KeysAreOwn
  <2>6. BundleEndsWaiting'
    BY <1>1, <2>1 DEF BundleEndsWaiting
  <2>7. KeyFitsBundle'
    BY <1>1, <1>3, <2>3 DEF KeyFitsBundle
  <2>8. LinksAreTrue'
    <3>1. \A x \in Peer \ {s} : link'[x] # NoLink =>
             link'[x] = link[x] /\ x # r /\ link[x].to # r
      BY <1>2, <1>5, <2>3
    <3>2. s # r
      BY <1>2
    <3> HIDE DEF r
    <3>3. ASSUME NEW x \in Peer, link'[x] # NoLink
          PROVE  LET t == link'[x].to IN
                 /\ t \in Peer /\ link'[x].stage # "none"
                 /\ role'[x] = "send" /\ role'[t] = "receive" /\ pc'[t] = "responding"
                 /\ link'[x].stage \in {"init", "reply"} => pc'[x] \in {"lan", "lanonly"}
                 /\ link'[x].stage = "init" /\ key'[t] # NoPeer => key'[t].via = "room"
                 /\ link'[x].stage \in {"reply", "finish"} => key'[t] = PairKey("lan", x, t)
                 /\ link'[x].stage = "finish" => bundle'[x] = t /\ key'[x] = key'[t] /\ pc'[x] = "paired"
      <4>1. CASE x = s
        BY <4>1, <1>1, <1>2, <2>1, <2>3
      <4>2. CASE x # s
        BY <4>2, <3>1, <3>3, <1>1, <2>1, <2>3 DEF LinksAreTrue
      <4> QED
        BY <4>1, <4>2
    <3>4. \A x, y \in Peer : link'[x] # NoLink /\ link'[y] # NoLink /\ link'[x].to = link'[y].to
             => x = y
      BY <3>1, <2>3 DEF LinksAreTrue
    <3> QED
      BY <3>3, <3>4 DEF LinksAreTrue, PairKey
  <2>9. LanKeys'
    <3>1. \A x \in Peer : bundle[x] \in Peer \cup {NoPeer}
      BY DEF TypeOK
    <3>2. \A x \in Peer : key[x] # NoPeer /\ key[x].via = "lan" /\ bundle[x] = r => FALSE
      <4>1. ASSUME NEW x \in Peer, key[x] # NoPeer, key[x].via = "lan", bundle[x] = r
            PROVE  FALSE
        <5>1. key[r] = key[x]
          BY <4>1, <1>2, PeerAssumption DEF LanKeys
        <5> QED
          BY <5>1, <4>1, <1>2
      <4> QED
        BY <4>1
    <3> QED
      BY <1>1, <1>2, <1>3, <2>1, <2>2, <2>3, <3>1, <3>2 DEF LanKeys
  <2> QED
    BY <1>4, <2>4, <2>5, <2>6, <2>7, <2>8, <2>9
<1> QED
  BY <1>6, <1>7

(* The sender has the receiver's bundle and returns.                         *)
LEMMA LanTakeIInv ==
  ASSUME IInv, NEW s \in Peer, LanTake(s)
  PROVE  IInv'
<1> USE DEF IInv
<1> DEFINE r == link[s].to
           k == PairKey("lan", s, r)
<1>1. /\ link[s].stage = "reply" /\ link[s] # NoLink
      /\ key' = [key EXCEPT ![s] = k]
      /\ bundle' = [bundle EXCEPT ![s] = r]
      /\ link' = [link EXCEPT ![s].stage = "finish"]
      /\ pc' = [pc EXCEPT ![s] = "paired"]
      /\ UNCHANGED <<spent, pending, paked, booted, wire, role, expired, misread, faults>>
  BY DEF LanTake, Stage, NoLink, sent, world
<1>2. /\ r \in Peer /\ role[s] = "send" /\ role[r] = "receive" /\ pc[r] = "responding"
      /\ pc[s] \in {"lan", "lanonly"} /\ key[r] = k
      /\ \A x \in Peer : link[x] # NoLink => link[x].to # s /\ x # r
  BY <1>1 DEF LinksAreTrue
<1>3. s # r
  BY <1>2
<1>4. k \in Key /\ k # NoPeer /\ k.of = {s, r} /\ k.via = "lan"
  BY <1>2, PairKeyType
<1>5. /\ key'[s] = k /\ bundle'[s] = r /\ pc'[s] = "paired"
      /\ \A x \in Peer \ {s} : key'[x] = key[x] /\ bundle'[x] = bundle[x] /\ pc'[x] = pc[x]
      /\ link'[s].to = r /\ link'[s].stage = "finish"
      /\ \A x \in Peer \ {s} : link'[x] = link[x]
  BY <1>1 DEF TypeOK
<1>6. TypeOK'
  <2>1. key' \in [Peer -> Key \cup {NoPeer}] /\ bundle' \in [Peer -> Peer \cup {NoPeer}]
    BY <1>1, <1>2, <1>4 DEF TypeOK
  <2>2. link' \in [Peer -> [to : Peer \cup {NoPeer}, stage : {"none", "init", "reply", "finish"}]]
    <3>1. link[s] \in [to : Peer \cup {NoPeer}, stage : {"none", "init", "reply", "finish"}]
      BY DEF TypeOK
    <3>2. [link[s] EXCEPT !.stage = "finish"]
            \in [to : Peer \cup {NoPeer}, stage : {"none", "init", "reply", "finish"}]
      BY <3>1
    <3> QED
      BY <1>1, <3>2 DEF TypeOK
  <2> QED
    BY <1>1, <2>1, <2>2 DEF TypeOK
<1>7. WireIsTrue' /\ PendingIsTrue'
  BY <1>1 DEF WireIsTrue, TruthOf, PendingIsTrue
<1> HIDE DEF r, k
<1>8. KeysAreOwn' /\ KeyFitsBundle'
  BY <1>2, <1>4, <1>5 DEF KeysAreOwn, KeyFitsBundle
<1>9. BundleEndsWaiting'
  BY <1>2, <1>5, PeerAssumption DEF BundleEndsWaiting
<1>10. LinksAreTrue'
  <2>1. ASSUME NEW x \in Peer, link'[x] # NoLink
        PROVE  LET t == link'[x].to IN
               /\ t \in Peer /\ link'[x].stage # "none"
               /\ role'[x] = "send" /\ role'[t] = "receive" /\ pc'[t] = "responding"
               /\ link'[x].stage \in {"init", "reply"} => pc'[x] \in {"lan", "lanonly"}
               /\ link'[x].stage = "init" /\ key'[t] # NoPeer => key'[t].via = "room"
               /\ link'[x].stage \in {"reply", "finish"} => key'[t] = PairKey("lan", x, t)
               /\ link'[x].stage = "finish" => bundle'[x] = t /\ key'[x] = key'[t] /\ pc'[x] = "paired"
    <3>1. CASE x = s
      BY <3>1, <1>1, <1>2, <1>3, <1>5 DEF k
    <3>2. CASE x # s
      <4>1. link[x] # NoLink /\ link'[x] = link[x] /\ link[x].to # s
        BY <3>2, <2>1, <1>2, <1>5
      <4> QED
        BY <4>1, <3>2, <1>1, <1>5 DEF LinksAreTrue
    <3> QED
      BY <3>1, <3>2
  <2>2. \A x, y \in Peer : link'[x] # NoLink /\ link'[y] # NoLink /\ link'[x].to = link'[y].to
           => x = y
    BY <1>1, <1>5 DEF LinksAreTrue, r
  <2> QED
    BY <2>1, <2>2 DEF LinksAreTrue, PairKey
<1>11. LanKeys'
  <2>1. \A x \in Peer : bundle[x] \in Peer \cup {NoPeer}
    BY DEF TypeOK
  <2>2. ASSUME NEW x \in Peer \ {s}, key[x] # NoPeer, key[x].via = "lan", bundle[x] = s
        PROVE  FALSE
    <3>1. key[s] = key[x]
      BY <2>2, PeerAssumption DEF LanKeys
    <3> QED
      BY <3>1, <2>2, <1>2 DEF LanKeys
  <2>3. ASSUME NEW x \in Peer \ {s}, key[x] # NoPeer, key[x].via = "lan"
        PROVE  /\ pc'[x] \in {"responding", "paired", "bound", "failed"}
               /\ bundle'[x] # NoPeer => key'[bundle'[x]] = key'[x]
    BY <2>1, <2>2, <2>3, <1>5 DEF LanKeys
  <2> QED
    BY <1>2, <1>3, <1>5, <2>3 DEF LanKeys
<1> QED
  BY <1>6, <1>7, <1>8, <1>9, <1>10, <1>11

(* The receiver has the sender's bundle too.                                 *)
LEMMA LanFinishIInv ==
  ASSUME IInv, NEW s \in Peer, LanFinish(s)
  PROVE  IInv'
<1> USE DEF IInv
<1> DEFINE r == link[s].to
<1>1. /\ link[s].stage = "finish" /\ link[s] # NoLink
      /\ bundle' = [bundle EXCEPT ![r] = s]
      /\ link' = [link EXCEPT ![s] = NoLink]
      /\ pc' = [pc EXCEPT ![r] = "paired"]
      /\ UNCHANGED <<spent, key, pending, paked, booted, wire, role, expired, misread, faults>>
  BY DEF LanFinish, Stage, NoLink, sent, world
<1>2. /\ r \in Peer /\ role[s] = "send" /\ role[r] = "receive"
      /\ key[r] = PairKey("lan", s, r) /\ key[s] = key[r]
      /\ \A x \in Peer : link[x] # NoLink => x # r /\ (link[x].to = r => x = s)
  BY <1>1 DEF LinksAreTrue
<1>3. key[r] # NoPeer /\ key[r].of = {s, r} /\ key[r].via = "lan"
  BY <1>2, PairKeyType
<1>4. /\ bundle'[r] = s /\ pc'[r] = "paired" /\ link'[s] = NoLink
      /\ \A x \in Peer \ {r} : bundle'[x] = bundle[x] /\ pc'[x] = pc[x]
      /\ \A x \in Peer \ {s} : link'[x] = link[x]
  BY <1>1, <1>2 DEF TypeOK
<1>5. TypeOK'
  BY <1>1, <1>2 DEF TypeOK, NoLink
<1>6. WireIsTrue' /\ PendingIsTrue' /\ KeysAreOwn'
  BY <1>1 DEF WireIsTrue, TruthOf, PendingIsTrue, KeysAreOwn
<1> HIDE DEF r
<1>7. KeyFitsBundle' /\ BundleEndsWaiting'
  BY <1>1, <1>3, <1>4, PeerAssumption DEF KeyFitsBundle, BundleEndsWaiting
<1>8. LinksAreTrue'
  <2>1. \A x \in Peer : link'[x] # NoLink =>
           x \notin {s, r} /\ link'[x] = link[x] /\ link[x].to # r
    BY <1>2, <1>4
  <2> QED
    BY <1>1, <1>4, <2>1 DEF LinksAreTrue, PairKey
<1>9. LanKeys'
  BY <1>1, <1>2, <1>3, <1>4 DEF LanKeys
<1> QED
  BY <1>5, <1>6, <1>7, <1>8, <1>9

(* A broken exchange ends the receiver only.                                 *)
LEMMA LanFailsIInv ==
  ASSUME IInv, NEW s \in Peer, LanFails(s)
  PROVE  IInv'
<1> USE DEF IInv
<1> DEFINE r == link[s].to
<1>1. /\ link[s] # NoLink
      /\ link' = [link EXCEPT ![s] = NoLink]
      /\ pc' = [pc EXCEPT ![r] = "failed"]
      /\ faults' \in 0..MaxFaults
      /\ UNCHANGED <<spent, key, bundle, pending, paked, booted, wire, role, expired, misread>>
  BY FaultAssumption DEF LanFails, Fault, Stage, pairing, sent, TypeOK
<1>2. /\ r \in Peer
      /\ \A x \in Peer : link[x] # NoLink => x # r /\ (link[x].to = r => x = s)
  BY <1>1 DEF LinksAreTrue
<1>4. /\ pc'[r] = "failed" /\ link'[s] = NoLink
      /\ \A x \in Peer \ {r} : pc'[x] = pc[x]
      /\ \A x \in Peer \ {s} : link'[x] = link[x]
  BY <1>1, <1>2 DEF TypeOK
<1>5. TypeOK'
  BY <1>1, <1>2 DEF TypeOK, NoLink
<1>6. WireIsTrue' /\ PendingIsTrue' /\ KeysAreOwn' /\ KeyFitsBundle'
  BY <1>1 DEF WireIsTrue, TruthOf, PendingIsTrue, KeysAreOwn, KeyFitsBundle
<1> HIDE DEF r
<1>7. BundleEndsWaiting'
  BY <1>1, <1>4 DEF BundleEndsWaiting
<1>8. LinksAreTrue'
  <2>1. \A x \in Peer : link'[x] # NoLink =>
           x \notin {s, r} /\ link'[x] = link[x] /\ link[x].to # r
    BY <1>2, <1>4
  <2> QED
    BY <1>1, <1>4, <2>1 DEF LinksAreTrue, PairKey
<1>9. LanKeys'
  BY <1>1, <1>4 DEF LanKeys
<1> QED
  BY <1>5, <1>6, <1>7, <1>8, <1>9

-----------------------------------------------------------------------------
(* The rest only moves processes between stages.                             *)

\* Nothing but the stage, the minute, the misreading and the faults changes.
Moves(p) ==
  \/ Start(p) \/ NoRoom(p) \/ LanTimeout(p) \/ Dial(p) \/ DialTooEarly(p) \/ DialFails(p)
  \/ Kill(p) \/ MinutePasses(p)

\* A process that has no LAN exchange goes to another stage.
LEMMA StageChanges ==
  ASSUME IInv, NEW p \in Peer, pc' = pc \/ (link[p] = NoLink /\ pc[p] # "responding"),
         UNCHANGED <<spent, key, bundle, pending, paked, booted, wire, link, role>>,
         expired' \in {expired, expired \cup {p}}, misread' \subseteq Peer,
         faults' \in 0..MaxFaults,
         NEW to \in {"lan", "joining", "lanonly", "failed"},
         pc' = pc \/ pc' = [pc EXCEPT ![p] = to],
         pc[p] \in Final => to = "failed" \/ pc' = pc
  PROVE  IInv'
<1> USE DEF IInv
<1>1. pc' \in [Peer -> {"off", "lan", "joining", "room", "lanonly", "responding", "paired",
                        "bound", "failed"}]
  BY DEF TypeOK
<1>2. TypeOK'
  BY <1>1 DEF TypeOK
<1>3. WireIsTrue'
  BY DEF WireIsTrue, TruthOf
<1>4. \A x \in Peer : pc'[x] = pc[x] \/ (x = p /\ pc'[x] = to)
  BY DEF TypeOK
<1> QED
  BY <1>2, <1>3, <1>4, MovesIInv DEF Final

\* Every such step keeps the invariant.
LEMMA StagesIInv ==
  ASSUME IInv, NEW p \in Peer, Moves(p)
  PROVE  IInv'
<1> USE DEF IInv
<1> DEFINE r == bundle[p]
<1>1. /\ UNCHANGED <<spent, key, bundle, pending, paked, booted, wire, link, role>>
      /\ expired' \in {expired, expired \cup {p}}
  BY DEF Moves, Start, NoRoom, LanTimeout, Dial, DialTooEarly, DialFails, Kill, MinutePasses,
         pairing, sent, world
<1>2. faults' \in 0..MaxFaults
  <2>1. faults' = faults \/ Fault
    BY DEF Moves, Start, NoRoom, LanTimeout, Dial, DialTooEarly, DialFails, Kill, MinutePasses,
           world
  <2> QED
    BY <2>1, FaultAssumption DEF Fault, TypeOK
<1>3. pc[p] = "paired" => r \in Peer
  BY DEF BundleEndsWaiting, TypeOK
<1>4. misread' \subseteq Peer
  <2>1. misread' = misread \/ (DialTooEarly(p) /\ misread' = misread \cup {r})
    BY DEF Moves, Start, NoRoom, LanTimeout, Dial, DialTooEarly, DialFails, Kill, MinutePasses,
           world
  <2> QED
    BY <2>1, <1>3 DEF DialTooEarly, TypeOK
<1>5. CASE Start(p)
  <2>1. PICK to \in {"lan", "joining"} : pc[p] = "off" /\ pc' = [pc EXCEPT ![p] = to]
    BY <1>5 DEF Start, Stage
  <2>2. link[p] = NoLink
    BY <1>5, <2>1, NoLinkElsewhere DEF Start
  <2> QED
    BY <2>1, <2>2, <1>1, <1>2, <1>4, StageChanges DEF Final
<1>6. CASE NoRoom(p)
  <2>1. PICK to \in {"failed", "lanonly"} : pc[p] = "joining" /\ pc' = [pc EXCEPT ![p] = to]
    BY <1>6 DEF NoRoom, Stage
  <2>2. link[p] = NoLink
    BY <1>6, <2>1, NoLinkElsewhere DEF NoRoom
  <2> QED
    BY <2>1, <2>2, <1>1, <1>2, <1>4, StageChanges DEF Final
<1>7. CASE LanTimeout(p)
  <2>1. PICK to \in {"joining"} : pc[p] = "lan" /\ pc' = [pc EXCEPT ![p] = to]
    BY <1>7 DEF LanTimeout, Stage
  <2>2. link[p] = NoLink
    BY <1>7, <2>1, NoLinkElsewhere DEF LanTimeout
  <2> QED
    BY <2>1, <2>2, <1>1, <1>2, <1>4, StageChanges DEF Final
<1>8. CASE Kill(p)
  <2>1. PICK to \in {"failed"} : pc[p] # "responding" /\ pc' = [pc EXCEPT ![p] = to]
    BY <1>8 DEF Kill, Stage, Running
  <2>2. link[p] = NoLink
    BY <1>8, <2>1, NoLinkElsewhere DEF Kill
  <2> QED
    BY <2>1, <2>2, <1>1, <1>2, <1>4, StageChanges DEF Final
<1>9. CASE MinutePasses(p)
  <2>1. pc' = pc /\ "failed" \in {"lan", "joining", "lanonly", "failed"}
    BY <1>9 DEF MinutePasses
  <2> QED
    BY <2>1, <1>1, <1>2, <1>4, StageChanges
<1>10. CASE DialFails(p)
  <2>1. PICK to \in {"failed"} : pc[p] = "paired" /\ pc' = [pc EXCEPT ![p] = to]
    BY <1>10 DEF DialFails, Stage
  <2>2. link[p] = NoLink
    BY <1>10, <2>1, NoLinkElsewhere DEF DialFails
  <2> QED
    BY <2>1, <2>2, <1>1, <1>2, <1>4, StageChanges DEF Final
<1>11. CASE Dial(p) \/ DialTooEarly(p)
  <2>1. /\ pc[p] = "paired" /\ link[p] = NoLink /\ role[r] = "receive"
        /\ pc[r] \in {"paired", "room", "lanonly"}
    BY <1>11 DEF Dial, DialTooEarly, Accepting
  <2>2. link[r] = NoLink
    <3>1. r \in Peer
      BY <2>1, <1>3
    <3> QED
      BY <2>1, <3>1 DEF LinksAreTrue
  <2>3. PICK to \in {"bound", "failed"} : pc' = [pc EXCEPT ![p] = to, ![r] = to]
    BY <1>11 DEF Dial, DialTooEarly
  <2>4. to = "bound" => pc[r] = "paired"
    <3>1. DialTooEarly(p) => pc'[p] = "failed"
      BY <1>3, <2>1 DEF DialTooEarly, TypeOK
    <3>2. pc'[p] = to
      BY <1>3, <2>1, <2>3 DEF TypeOK
    <3> QED
      BY <1>11, <3>1, <3>2 DEF Dial
  <2>5. \A x \in Peer : \/ pc'[x] = pc[x]
                        \/ /\ link[x] = NoLink /\ pc[x] # "responding" /\ pc'[x] = to
                           /\ to = "bound" => pc[x] = "paired"
    BY <1>3, <2>1, <2>2, <2>3, <2>4 DEF TypeOK
  <2>6. TypeOK'
    <3>1. pc' \in [Peer -> {"off", "lan", "joining", "room", "lanonly", "responding", "paired",
                            "bound", "failed"}]
      BY <2>3 DEF TypeOK
    <3> QED
      BY <3>1, <1>1, <1>2, <1>4 DEF TypeOK
  <2>7. WireIsTrue'
    BY <1>1 DEF WireIsTrue, TruthOf
  <2> QED
    BY <1>1, <2>5, <2>6, <2>7, MovesIInv DEF Final
<1> QED
  BY <1>5, <1>6, <1>7, <1>8, <1>9, <1>10, <1>11 DEF Moves

\* Every step keeps the invariant.
LEMMA NextIInv == IInv /\ [Next]_vars => IInv'
<1> SUFFICES ASSUME IInv, [Next]_vars PROVE IInv'
  OBVIOUS
<1>1. CASE UNCHANGED vars
  <2>1. UNCHANGED <<role, pc, spent, key, bundle, pending, paked, booted, wire, link, expired,
                    misread, faults>>
    BY <1>1 DEF vars, pairing, sent, world
  <2>2. TypeOK' /\ WireIsTrue'
    BY <2>1 DEF IInv, TypeOK, WireIsTrue, TruthOf
  <2> QED
    BY <2>1, <2>2, MovesIInv
<1>2. ASSUME NEW p \in Peer, NEW q \in Peer,
             \/ ReceiveJoined(p, q) \/ FirstPake(p, q) \/ LaterPake(p, q)
             \/ ReceiveBootstrap(p, q) \/ EarlyBootstrap(p, q) \/ RoomError(p, q)
      PROVE  IInv'
  BY <1>2, QuietRoomIInv, FirstPakeIInv, ReceiveBootstrapIInv, EarlyBootstrapIInv
<1>3. ASSUME NEW p \in Peer, JoinRoom(p)
      PROVE  IInv'
  BY <1>3, JoinRoomIInv
<1>4. ASSUME NEW s \in Peer, LanReply(s) \/ LanTake(s) \/ LanFinish(s) \/ LanFails(s)
      PROVE  IInv'
  BY <1>4, LanReplyIInv, LanTakeIInv, LanFinishIInv, LanFailsIInv
<1>5. ASSUME NEW s \in Peer, NEW r \in Peer, LanDial(s, r)
      PROVE  IInv'
  BY <1>5, LanDialIInv
<1>6. ASSUME NEW p \in Peer, Moves(p)
      PROVE  IInv'
  BY <1>6, StagesIInv
<1> QED
  BY <1>1, <1>2, <1>3, <1>4, <1>5, <1>6 DEF Next, RoomStep, LanStep, DialStep, Moves

\* Keys, bundles, envelopes and connections fit together in every run.
THEOREM InductiveInvariant == Spec => []IInv
BY InitIInv, NextIInv, PTL DEF Spec

-----------------------------------------------------------------------------
\* The variables of NativePairing keep their types.
THEOREM TypeCorrect == Spec => []TypeOK
<1>1. IInv => TypeOK
  BY DEF IInv
<1> QED
  BY <1>1, InductiveInvariant, PTL

\* No peer holds a bundle under a key that it does not share with the bundle's owner.
THEOREM KeysFit == Spec => []KeyFitsBundle
<1>1. IInv => KeyFitsBundle
  BY DEF IInv
<1> QED
  BY <1>1, InductiveInvariant, PTL

\* Two keys with the same ends, made in the same way, are one.
LEMMA SameKey ==
  ASSUME NEW j \in Key, NEW k \in Key, j.of = k.of, j.via = k.via
  PROVE  j = k
BY DEF Key

\* By the ends of their keys, and the way they were made.
LEMMA Agrees == IInv => Agreement
<1> SUFFICES ASSUME IInv, NEW p \in Peer, NEW q \in Peer, bundle[p] = q, bundle[q] = p
             PROVE  key[p] = key[q]
  BY DEF Agreement
<1> USE DEF IInv
<1>1. p # NoPeer /\ q # NoPeer
  BY PeerAssumption
<1>2. /\ key[p] # NoPeer /\ key[p].of = {p, q}
      /\ key[q] # NoPeer /\ key[q].of = {p, q}
  BY <1>1 DEF KeyFitsBundle
<1>3. key[p] \in Key /\ key[q] \in Key
  BY <1>2 DEF TypeOK
<1>4. CASE key[p].via = "lan" \/ key[q].via = "lan"
  BY <1>1, <1>2, <1>4 DEF LanKeys
<1>5. CASE key[p].via = "room" /\ key[q].via = "room"
  BY <1>2, <1>3, <1>5, SameKey
<1> QED
  BY <1>3, <1>4, <1>5 DEF Key

\* Peers that took each other for their partner hold the same key.
THEOREM PartnersAgree == Spec => []Agreement
BY Agrees, InductiveInvariant, PTL
-----------------------------------------------------------------------------
(* What a process that returns owes its partner, and how two that are alone  *)
(* can fail.                                                                 *)

\* Not in the room, and not past it.
Outside == {"off", "lan", "joining", "lanonly"}

\* The keys p can have made with the processes that came to the room.
RoomKeys(p) == {PairKey("room", p, q) : q \in {x \in Peer \ {p} : pc[x] \notin Outside}}

\* Keys, envelopes and bundles are of processes that came, and an envelope or a bundle
\* is there only once its owner has a key.
KeysSealed == \A p \in Peer : key[p] # NoPeer /\ key[p].via = "room" => key[p] \in RoomKeys(p)
WireSealed ==
  \A p, q \in Peer : \A i \in DOMAIN wire[p][q] :
    wire[p][q][i].kind = "bootstrap" => wire[p][q][i].key \in RoomKeys(p) /\ key[p] # NoPeer
PendingSealed ==
  \A p \in Peer : pending[p] # NoPeer =>
    pending[p].key \in RoomKeys(pending[p].from) /\ key[pending[p].from] # NoPeer
BundlesSealed ==
  \A p \in Peer : bundle[p] # NoPeer =>
    bundle[p] # p /\ pc[bundle[p]] \notin Outside /\ key[bundle[p]] # NoPeer
NothingOutside ==
  \A p \in Peer : pc[p] \in Outside => key[p] = NoPeer /\ \A q \in Peer : wire[p][q] = <<>>
BootedHasKey == \A p \in Peer : key[p] = NoPeer => booted[p] = {}

Sealed == KeysSealed /\ WireSealed /\ PendingSealed /\ BundlesSealed /\ NothingOutside /\ BootedHasKey

\* The bundle of p is on its way to q, under p's key.
OnItsWay(p, q) ==
  \E i \in DOMAIN wire[p][q] : wire[p][q][i].kind = "bootstrap" /\ wire[p][q][i].key = key[p]

\* The partner of p that is in the room gets the bundle, has it, or will fail over the
\* envelope that took its place.
Owed ==
  \A p, q \in Peer :
    p # q /\ key[p] # NoPeer /\ key[p].via = "room" /\ q \in key[p].of /\ pc[q] = "room" =>
      OnItsWay(p, q) \/ (pending[q] # NoPeer /\ key[q] = NoPeer) \/ bundle[q] = p

\* Without faults no minute passes, and who is bound is bound to its partner.
Quiet ==
  /\ faults = 0 => expired = {}
  /\ \A p \in Peer : pc[p] = "bound" => pc[bundle[p]] = "bound"

Course == Sealed /\ Owed /\ Quiet /\ FailsOnlyByMisreading

\* At the start nothing has come.
LEMMA InitCourse == Init => Course
<1> SUFFICES ASSUME Init PROVE Course
  OBVIOUS
<1>1. Sealed
  BY DEF Init, Sealed, KeysSealed, WireSealed, PendingSealed, BundlesSealed, NothingOutside, BootedHasKey
<1>2. Owed /\ Quiet
  BY DEF Init, Owed, Quiet
<1>3. FailsOnlyByMisreading
  BY DEF Init, FailsOnlyByMisreading
<1> QED
  BY <1>1, <1>2, <1>3 DEF Course

(* Who came to the room has come.                                            *)
LEMMA KeysStay ==
  ASSUME \A x \in Peer : pc'[x] \in Outside => pc[x] \in Outside
  PROVE  \A p \in Peer : RoomKeys(p) \subseteq RoomKeys(p)'
BY DEF RoomKeys

(* Steps that send nothing: stages, and what the LAN gives.                  *)
LEMMA NothingSentSealed ==
  ASSUME IInv, Sealed, UNCHANGED <<wire, pending, booted>>,
         \A x \in Peer : pc'[x] \in Outside => pc[x] \in Outside,
         \A x \in Peer : \/ key'[x] = key[x]
                         \/ key'[x] # NoPeer /\ key'[x].via = "lan" /\ pc'[x] \notin Outside,
         \A x \in Peer : \/ bundle'[x] = bundle[x]
                         \/ /\ bundle'[x] \in Peer \ {x} /\ pc'[bundle'[x]] \notin Outside
                            /\ key'[bundle'[x]] # NoPeer
  PROVE  Sealed'
<1> USE DEF Sealed
<1>1. \A p \in Peer : RoomKeys(p) \subseteq RoomKeys(p)'
  BY KeysStay
<1>2. KeysSealed'
  BY <1>1 DEF KeysSealed
<1>3. WireSealed'
  BY <1>1 DEF WireSealed
<1>4. PendingSealed'
  <2>1. \A p \in Peer : pending[p] # NoPeer => pending[p].from \in Peer
    BY DEF IInv, TypeOK, Envelope
  <2> QED
    BY <1>1, <2>1 DEF PendingSealed
<1>5. BundlesSealed'
  <2>1. \A p \in Peer : bundle[p] # NoPeer => bundle[p] \in Peer
    BY DEF IInv, TypeOK
  <2> QED
    BY <2>1 DEF BundlesSealed
<1>6. NothingOutside'
  BY DEF NothingOutside
<1>7. BootedHasKey'
  BY DEF BootedHasKey
<1> QED
  BY <1>2, <1>3, <1>4, <1>5, <1>6, <1>7

\* Nor do they take away what is owed.
LEMMA NothingSentOwed ==
  ASSUME IInv, Owed, UNCHANGED <<wire, pending>>,
         \A x \in Peer : key'[x] = key[x] \/ (key'[x].via = "lan" /\ pc'[x] # "room"),
         \A x \in Peer : bundle'[x] = bundle[x] \/ pc'[x] # "room",
         \A x \in Peer : pc'[x] = "room" => pc[x] = "room"
  PROVE  Owed'
<1> SUFFICES ASSUME NEW p \in Peer, NEW q \in Peer, p # q, key'[p] # NoPeer, key'[p].via = "room",
                    q \in key'[p].of, pc'[q] = "room"
             PROVE  OnItsWay(p, q)' \/ (pending'[q] # NoPeer /\ key'[q] = NoPeer) \/ bundle'[q] = p
  BY DEF Owed
<1>1. key'[p] = key[p] /\ key'[q] = key[q] /\ bundle'[q] = bundle[q] /\ pc[q] = "room"
  OBVIOUS
<1>2. OnItsWay(p, q) => OnItsWay(p, q)'
  BY <1>1 DEF OnItsWay
<1> QED
  BY <1>1, <1>2 DEF Owed

(* Who fails only by faults, or after a misreading.                          *)
LEMMA NobodyFails ==
  ASSUME IInv, FailsOnlyByMisreading, faults' = 0 => faults = 0, misread \subseteq misread', role' = role,
         \A x \in Peer : pc'[x] = "off" => pc[x] = "off",
         \A x \in Peer : pc'[x] = "failed" => pc[x] = "failed" \/ faults' # 0 \/ misread' # {}
  PROVE  FailsOnlyByMisreading'
BY DEF FailsOnlyByMisreading, Meets, Alone

\* Nobody gets bound, and no minute passes unless it is a fault.
LEMMA QuietStays ==
  ASSUME IInv, Quiet, faults' = 0 => faults = 0 /\ expired' = expired,
         \A x \in Peer : pc[x] = "bound" => pc'[x] = "bound" /\ bundle'[x] = bundle[x],
         \A x \in Peer : pc'[x] = "bound" => pc[x] = "bound"
  PROVE  Quiet'
<1>1. \A x \in Peer : pc[x] = "bound" => bundle[x] \in Peer
  BY DEF IInv, TypeOK, BundleEndsWaiting
<1> QED
  BY <1>1 DEF Quiet

\* In a room of two, the key of one is with the other.
LEMMA TheOther ==
  ASSUME NEW p \in Peer, NEW q \in Peer, \A z \in Peer \ {p, q} : pc[z] = "off",
         NEW x \in {p, q}, NEW y \in {p, q}, x # y, NEW k \in RoomKeys(x)
  PROVE  k = PairKey("room", x, y) /\ k = PairKey("room", y, x)
<1>1. PICK z \in Peer \ {x} : pc[z] \notin Outside /\ k = PairKey("room", x, z)
  BY DEF RoomKeys
<1>2. z = y
  BY <1>1 DEF Outside
<1>3. {x, y} = {y, x}
  OBVIOUS
<1> QED
  BY <1>1, <1>2, <1>3 DEF PairKey

\* The empty answer, and an answer of one event.
LEMMA NoEvents == \E none : none = <<>> /\ none \in Seq(RoomEvent) /\ \A i \in DOMAIN none : FALSE
<1> DEFINE none == <<>>
<1>1. none \in Seq(RoomEvent) /\ \A i \in DOMAIN none : FALSE
  OBVIOUS
<1> QED
  BY <1>1, Zenon

\* An answer of one event has that event only.
LEMMA OneEvent ==
  ASSUME NEW x \in RoomEvent
  PROVE  <<x>> \in Seq(RoomEvent) /\ \A i \in DOMAIN <<x>> : <<x>>[i] = x
OBVIOUS

(* Handling an event: what is on the wire then, and what is not any more.    *)
LEMMA HandleEffect ==
  ASSUME IInv, NEW p \in Peer, NEW q \in Peer, wire[q][p] # <<>>,
         NEW events \in Seq(RoomEvent), Handle(p, q, events)
  PROVE  /\ p # q
         /\ \A x, y \in Peer : \A j \in DOMAIN wire'[x][y] :
              \/ \E i \in DOMAIN wire[x][y] : wire[x][y][i] = wire'[x][y][j]
              \/ x = p /\ y = q /\ \E i \in DOMAIN events : events[i] = wire'[x][y][j]
         /\ \A x, y \in Peer : \A i \in DOMAIN wire[x][y] :
              \/ x = q /\ y = p /\ wire[x][y][i] = Head(wire[q][p])
              \/ \E j \in DOMAIN wire'[x][y] : wire'[x][y][j] = wire[x][y][i]
         /\ \A i \in DOMAIN events : \E j \in DOMAIN wire'[p][q] : wire'[p][q][j] = events[i]
         /\ \A x \in Peer \ {p, q} : wire'[x] = wire[x]
<1>1. /\ wire \in [Peer -> [Peer -> Seq(RoomEvent)]] /\ p # q
      /\ wire' = [wire EXCEPT ![q][p] = Tail(@), ![p][q] = @ \o events]
  BY DEF IInv, TypeOK, RoomEvent, WireIsTrue, Handle
<1>2. /\ wire'[q][p] = Tail(wire[q][p]) /\ wire'[p][q] = wire[p][q] \o events
      /\ \A x \in Peer, y \in Peer :
           ~(x = q /\ y = p) /\ ~(x = p /\ y = q) => wire'[x][y] = wire[x][y]
      /\ \A x \in Peer \ {p, q} : wire'[x] = wire[x]
  BY <1>1
<1>3. /\ \A j \in DOMAIN wire'[q][p] : \E i \in DOMAIN wire[q][p] : wire[q][p][i] = wire'[q][p][j]
      /\ \A i \in DOMAIN wire[q][p] :
           \/ wire[q][p][i] = Head(wire[q][p])
           \/ \E j \in DOMAIN wire'[q][p] : wire'[q][p][j] = wire[q][p][i]
  <2> DEFINE w == wire[q][p]
             t == Tail(wire[q][p])
  <2>1. w \in Seq(RoomEvent) /\ w # <<>> /\ Len(w) \in Nat /\ Len(w) > 0
    BY <1>1
  <2>2. DOMAIN w = 1..Len(w) /\ DOMAIN t = 1..(Len(w) - 1) /\ Head(w) = w[1]
        /\ \A j \in DOMAIN t : t[j] = w[j + 1]
    BY <2>1
  <2> HIDE DEF w, t
  <2>3. \A j \in DOMAIN t : j + 1 \in DOMAIN w
    BY <2>1, <2>2
  <2>4. \A i \in DOMAIN w : i = 1 \/ (i - 1 \in DOMAIN t /\ t[i - 1] = w[i])
    BY <2>1, <2>2
  <2>5. /\ \A j \in DOMAIN t : \E i \in DOMAIN w : w[i] = t[j]
        /\ \A i \in DOMAIN w : w[i] = Head(w) \/ \E j \in DOMAIN t : t[j] = w[i]
    BY <2>2, <2>3, <2>4
  <2> QED
    BY <1>2, <2>5 DEF w, t
<1>4. /\ \A j \in DOMAIN wire'[p][q] : \/ \E i \in DOMAIN wire[p][q] : wire[p][q][i] = wire'[p][q][j]
                                       \/ \E i \in DOMAIN events : events[i] = wire'[p][q][j]
      /\ \A i \in DOMAIN wire[p][q] : \E j \in DOMAIN wire'[p][q] : wire'[p][q][j] = wire[p][q][i]
      /\ \A i \in DOMAIN events : \E j \in DOMAIN wire'[p][q] : wire'[p][q][j] = events[i]
  <2> DEFINE w == wire[p][q]
             c == wire[p][q] \o events
  <2>1. w \in Seq(RoomEvent) /\ Len(w) \in Nat /\ Len(events) \in Nat
    BY <1>1
  <2>2. /\ DOMAIN w = 1..Len(w) /\ DOMAIN events = 1..Len(events)
        /\ DOMAIN c = 1..(Len(w) + Len(events))
        /\ \A j \in DOMAIN c : c[j] = IF j <= Len(w) THEN w[j] ELSE events[j - Len(w)]
    BY <2>1
  <2> HIDE DEF w, c
  <2>3. \A j \in DOMAIN c : \/ j \in DOMAIN w /\ w[j] = c[j]
                            \/ j - Len(w) \in DOMAIN events /\ events[j - Len(w)] = c[j]
    BY <2>1, <2>2
  <2>4. \A i \in DOMAIN w : i \in DOMAIN c /\ c[i] = w[i]
    BY <2>1, <2>2
  <2>5. \A i \in DOMAIN events : i + Len(w) \in DOMAIN c /\ c[i + Len(w)] = events[i]
    <3>1. \A i \in DOMAIN events : i + Len(w) \in DOMAIN c /\ ~(i + Len(w) <= Len(w))
                                   /\ (i + Len(w)) - Len(w) = i
      BY <2>1, <2>2
    <3> QED
      BY <2>2, <3>1
  <2>6. /\ \A j \in DOMAIN c : (\E i \in DOMAIN w : w[i] = c[j]) \/ \E i \in DOMAIN events : events[i] = c[j]
        /\ \A i \in DOMAIN w : \E j \in DOMAIN c : c[j] = w[i]
        /\ \A i \in DOMAIN events : \E j \in DOMAIN c : c[j] = events[i]
    BY <2>3, <2>4, <2>5
  <2>7. w = wire[p][q] /\ c = wire'[p][q]
    BY <1>2 DEF w, c
  <2> QED
    BY <2>6, <2>7
<1>5. ASSUME NEW x \in Peer, NEW y \in Peer
      PROVE  /\ \A j \in DOMAIN wire'[x][y] :
                  \/ \E i \in DOMAIN wire[x][y] : wire[x][y][i] = wire'[x][y][j]
                  \/ x = p /\ y = q /\ \E i \in DOMAIN events : events[i] = wire'[x][y][j]
             /\ \A i \in DOMAIN wire[x][y] :
                  \/ x = q /\ y = p /\ wire[x][y][i] = Head(wire[q][p])
                  \/ \E j \in DOMAIN wire'[x][y] : wire'[x][y][j] = wire[x][y][i]
  <2>1. CASE x = q /\ y = p
    BY <1>3, <2>1
  <2>2. CASE x = p /\ y = q
    BY <1>4, <2>2
  <2>3. CASE ~(x = q /\ y = p) /\ ~(x = p /\ y = q)
    BY <1>2, <2>3
  <2> QED
    BY <2>1, <2>2, <2>3
<1>6. \A x, y \in Peer : \A j \in DOMAIN wire'[x][y] :
        \/ \E i \in DOMAIN wire[x][y] : wire[x][y][i] = wire'[x][y][j]
        \/ x = p /\ y = q /\ \E i \in DOMAIN events : events[i] = wire'[x][y][j]
  BY <1>5
<1>7. \A x, y \in Peer : \A i \in DOMAIN wire[x][y] :
        \/ x = q /\ y = p /\ wire[x][y][i] = Head(wire[q][p])
        \/ \E j \in DOMAIN wire'[x][y] : wire'[x][y][j] = wire[x][y][i]
  BY <1>5
<1> QED
  BY <1>1, <1>2, <1>4, <1>6, <1>7, Zenon

(* What is sealed stays sealed when p handles an event from q.               *)
LEMMA HandleSealed ==
  ASSUME IInv, Sealed, NEW p \in Peer, NEW q \in Peer, pc[p] = "room", wire[q][p] # <<>>,
         NEW events \in Seq(RoomEvent), Handle(p, q, events),
         \A x \in Peer \ {p} : pc'[x] = pc[x] /\ key'[x] = key[x], pc'[p] \notin Outside,
         key[p] # NoPeer => key'[p] # NoPeer,
         \A i \in DOMAIN events :
           events[i].kind = "bootstrap" => events[i].key \in RoomKeys(p) /\ key'[p] # NoPeer
  PROVE  /\ WireSealed' /\ NothingOutside' /\ pc[q] \notin Outside
         /\ \A x \in Peer : RoomKeys(x) \subseteq RoomKeys(x)'
<1>1. /\ \A x, y \in Peer : \A j \in DOMAIN wire'[x][y] :
           \/ \E i \in DOMAIN wire[x][y] : wire[x][y][i] = wire'[x][y][j]
           \/ x = p /\ y = q /\ \E i \in DOMAIN events : events[i] = wire'[x][y][j]
      /\ \A x \in Peer \ {p, q} : wire'[x] = wire[x]
  BY HandleEffect
<1>2. \A x \in Peer : RoomKeys(x) \subseteq RoomKeys(x)'
  <2>1. \A x \in Peer : pc'[x] \in Outside => pc[x] \in Outside
    OBVIOUS
  <2> QED
    BY <2>1, KeysStay
<1>3. pc[q] \notin Outside
  BY DEF Sealed, NothingOutside
<1>4. NothingOutside'
  <2>1. ASSUME NEW x \in Peer, pc'[x] \in Outside
        PROVE  key'[x] = NoPeer /\ \A y \in Peer : wire'[x][y] = <<>>
    <3>1. x \notin {p, q} /\ pc[x] \in Outside
      BY <1>3, <2>1
    <3> QED
      BY <1>1, <3>1 DEF Sealed, NothingOutside
  <2> QED
    BY <2>1 DEF NothingOutside
<1>5. \A x \in Peer : key[x] # NoPeer => key'[x] # NoPeer
  OBVIOUS
<1>6. WireSealed'
  <2>1. ASSUME NEW x \in Peer, NEW y \in Peer, NEW j \in DOMAIN wire'[x][y],
               wire'[x][y][j].kind = "bootstrap"
        PROVE  wire'[x][y][j].key \in RoomKeys(x)' /\ key'[x] # NoPeer
    <3>1. CASE \E i \in DOMAIN wire[x][y] : wire[x][y][i] = wire'[x][y][j]
      <4>1. wire'[x][y][j].key \in RoomKeys(x) /\ key[x] # NoPeer
        BY <2>1, <3>1 DEF Sealed, WireSealed
      <4> QED
        BY <1>2, <1>5, <4>1
    <3>2. CASE x = p /\ \E i \in DOMAIN events : events[i] = wire'[x][y][j]
      BY <1>2, <2>1, <3>2
    <3> QED
      BY <1>1, <3>1, <3>2
  <2> QED
    BY <2>1 DEF WireSealed
<1> QED
  BY <1>2, <1>3, <1>4, <1>6

(* A bundle that was on its way is, unless it was just taken.                *)
LEMMA StillOnItsWay ==
  ASSUME IInv, NEW p \in Peer, NEW q \in Peer, wire[q][p] # <<>>,
         NEW events \in Seq(RoomEvent), Handle(p, q, events),
         NEW x \in Peer, NEW y \in Peer, key'[x] = key[x], OnItsWay(x, y),
         ~(x = q /\ y = p) \/ Head(wire[q][p]).kind # "bootstrap"
  PROVE  OnItsWay(x, y)'
<1>1. PICK i \in DOMAIN wire[x][y] : wire[x][y][i].kind = "bootstrap" /\ wire[x][y][i].key = key[x]
  BY DEF OnItsWay
<1>2. \/ x = q /\ y = p /\ wire[x][y][i] = Head(wire[q][p])
      \/ \E j \in DOMAIN wire'[x][y] : wire'[x][y][j] = wire[x][y][i]
  BY HandleEffect
<1> QED
  BY <1>1, <1>2 DEF OnItsWay

(* Events that leave keys and bundles alone: nothing is lost, and in a room  *)
(* of two every envelope opens.                                              *)
LEMMA QuietRoomCourse ==
  ASSUME IInv, IInv', Course, NEW p \in Peer, NEW q \in Peer,
         ReceiveJoined(p, q) \/ LaterPake(p, q) \/ RoomError(p, q)
  PROVE  Course'
<1> USE DEF Course
<1>1. /\ pc[p] = "room" /\ wire[q][p] # <<>> /\ wire \in [Peer -> [Peer -> Seq(RoomEvent)]]
      /\ UNCHANGED <<key, bundle, pending, link, role, expired, misread, faults>>
  BY DEF ReceiveJoined, LaterPake, RoomError, HandleEvent, pairing, world, IInv, TypeOK, RoomEvent
<1>2. p # q
  BY <1>1 DEF IInv, WireIsTrue
<1>3. \/ pc' = pc /\ Head(wire[q][p]).kind # "bootstrap"
      \/ RoomError(p, q) /\ pc'[p] = "failed" /\ \A x \in Peer \ {p} : pc'[x] = pc[x]
  BY DEF ReceiveJoined, LaterPake, RoomError, HandleEvent, Stage, IInv, TypeOK
<1>4. key[p] # NoPeer => key[p] \in RoomKeys(p) /\ key[p] \in Key
  <2>1. key[p] # NoPeer => key[p] \in Key /\ key[p].via \in {"room", "lan"}
    BY DEF IInv, TypeOK, Key
  <2> QED
    BY <1>1, <2>1 DEF IInv, LanKeys, Sealed, KeysSealed
<1>5. PICK events \in Seq(RoomEvent) :
        /\ Handle(p, q, events)
        /\ \A i \in DOMAIN events :
             events[i].kind = "bootstrap" => events[i].key \in RoomKeys(p) /\ key'[p] # NoPeer
  <2>1. CASE ReceiveJoined(p, q)
    <3>1. Event("pake", NoPeer) \in RoomEvent /\ Event("pake", NoPeer).kind = "pake"
      BY DEF Event, RoomEvent
    <3> DEFINE x == Event("pake", NoPeer)
               one == <<Event("pake", NoPeer)>>
    <3>2. Handle(p, q, <<>>) \/ Handle(p, q, one)
      BY <2>1, Zenon DEF ReceiveJoined
    <3>3. one \in Seq(RoomEvent) /\ \A i \in DOMAIN one : one[i] = x
      BY <3>1, OneEvent
    <3> HIDE DEF one, x
    <3>4. \A i \in DOMAIN one : one[i].kind = "pake"
      BY <3>1, <3>3 DEF x
    <3> QED
      BY <3>2, <3>3, <3>4, NoEvents
  <2>2. CASE LaterPake(p, q)
    <3>1. key[p] # NoPeer /\ Handle(p, q, Bootstrap(p, q))
      BY <2>2 DEF LaterPake
    <3>2. Event("bootstrap", key'[p]) \in RoomEvent /\ Event("bootstrap", key'[p]).key = key'[p]
      BY <1>1, <1>4, <3>1 DEF Event, RoomEvent
    <3>3. /\ Bootstrap(p, q) \in Seq(RoomEvent)
          /\ \A i \in DOMAIN Bootstrap(p, q) : Bootstrap(p, q)[i].key = key'[p]
      BY <3>2 DEF Bootstrap
    <3> QED
      BY <1>1, <1>4, <3>1, <3>3
  <2>3. CASE RoomError(p, q)
    <3>1. Handle(p, q, <<>>)
      BY <2>3 DEF RoomError
    <3> QED
      BY <3>1, NoEvents
  <2> QED
    BY <2>1, <2>2, <2>3
<1>6. /\ WireSealed' /\ NothingOutside' /\ pc[q] \notin Outside
      /\ \A x \in Peer : RoomKeys(x) \subseteq RoomKeys(x)'
  <2>1. pc'[p] \notin Outside /\ \A x \in Peer \ {p} : pc'[x] = pc[x] /\ key'[x] = key[x]
    BY <1>1, <1>3 DEF Outside
  <2> QED
    BY <1>1, <1>5, <2>1, HandleSealed
<1>7. Sealed'
  <2>1. KeysSealed'
    BY <1>1, <1>6 DEF Sealed, KeysSealed
  <2>2. PendingSealed'
    <3>1. \A x \in Peer : pending[x] # NoPeer => pending[x].from \in Peer
      BY DEF IInv, TypeOK, Envelope
    <3> QED
      BY <1>1, <1>6, <3>1 DEF Sealed, PendingSealed
  <2>3. BundlesSealed'
    <3>1. \A x \in Peer : bundle[x] # NoPeer => bundle[x] \in Peer
      BY DEF IInv, TypeOK
    <3> QED
      BY <1>1, <1>3, <3>1 DEF Sealed, BundlesSealed, Outside
  <2>4. BootedHasKey'
    <3>1. booted' = booted \/ (key[p] # NoPeer /\ booted' = [booted EXCEPT ![p] = @ \cup {q}])
      BY DEF ReceiveJoined, LaterPake, RoomError, sent
    <3> QED
      BY <1>1, <3>1 DEF Sealed, BootedHasKey, IInv, TypeOK
  <2> QED
    BY <1>6, <2>1, <2>2, <2>3, <2>4 DEF Sealed
<1>8. Owed'
  <2> SUFFICES ASSUME NEW x \in Peer, NEW y \in Peer, x # y, key'[x] # NoPeer, key'[x].via = "room",
                      y \in key'[x].of, pc'[y] = "room"
               PROVE  OnItsWay(x, y)' \/ (pending'[y] # NoPeer /\ key'[y] = NoPeer) \/ bundle'[y] = x
    BY DEF Owed
  <2>1. pc[y] = "room" /\ (y = p => Head(wire[q][p]).kind # "bootstrap")
    BY <1>3
  <2>2. OnItsWay(x, y) \/ (pending[y] # NoPeer /\ key[y] = NoPeer) \/ bundle[y] = x
    BY <1>1, <2>1 DEF Owed
  <2>3. OnItsWay(x, y) => OnItsWay(x, y)'
    BY <1>1, <1>5, <2>1, StillOnItsWay
  <2> QED
    BY <1>1, <2>2, <2>3
<1>9. Quiet'
  BY <1>1, <1>3, QuietStays DEF IInv, TypeOK
<1>10. FailsOnlyByMisreading'
  <2>1. CASE pc' = pc
    BY <1>1, <2>1, NobodyFails
  <2>2. CASE RoomError(p, q)
    <3> SUFFICES ASSUME NEW a \in Peer, NEW b \in Peer, Meets(a, b)', Alone(a, b)', misread' = {}
                 PROVE  FALSE
      <4>1. \A a, b \in Peer : Meets(a, b)' /\ Alone(a, b)' => misread' # {}
        OBVIOUS
      <4> QED
        BY <4>1 DEF FailsOnlyByMisreading
    <3>1. a # b /\ faults = 0 /\ \A x \in Peer \ {a, b} : pc[x] = "off"
      BY <1>1, <1>3, <2>2 DEF Meets, Alone, IInv, TypeOK
    <3>2. p \in {a, b} /\ q \in {a, b} /\ p \notin expired
      BY <1>1, <1>6, <3>1 DEF Outside, Quiet
    <3>3. \A k \in RoomKeys(q) : k = PairKey("room", p, q)
      BY <1>2, <3>1, <3>2, TheOther
    <3>4. \A k \in RoomKeys(p) : k = PairKey("room", p, q)
      BY <1>2, <3>1, <3>2, TheOther
    <3>5. CASE pending[p] # NoPeer /\ ~Opens(PairKey("room", p, q), pending[p])
      <4>1. /\ pending[p].from \in Peer \ {p} /\ pending[p].key \in RoomKeys(pending[p].from)
            /\ key[pending[p].from] # NoPeer
        BY <3>5 DEF Sealed, PendingSealed, IInv, PendingIsTrue, TypeOK, Envelope
      <4>2. pending[p].from = q
        BY <3>1, <3>2, <1>2, <4>1 DEF Sealed, NothingOutside, Outside
      <4> QED
        BY <3>3, <3>5, <4>1, <4>2 DEF Opens
    <3>6. CASE /\ HandleEvent(p, q, "bootstrap") /\ key[p] # NoPeer
               /\ ~Opens(key[p], Received(q, Head(wire[q][p])))
      <4>1. 1 \in DOMAIN wire[q][p] /\ Head(wire[q][p]) = wire[q][p][1]
        <5>1. wire[q][p] \in Seq(RoomEvent)
          BY <1>1
        <5> QED
          <6>1. wire[q][p] # <<>>
            BY <1>1
          <6> QED
            BY ONLY <5>1, <6>1
      <4>2. Head(wire[q][p]).key \in RoomKeys(q)
        BY <3>6, <4>1 DEF HandleEvent, Sealed, WireSealed
      <4> QED
        BY <1>4, <3>3, <3>4, <3>6, <4>2 DEF Opens, Received
    <3> QED
      BY <2>2, <3>2, <3>5, <3>6 DEF RoomError
  <2> QED
    BY <1>3, <2>1, <2>2
<1> QED
  BY <1>7, <1>8, <1>9, <1>10
(* The first PAKE message makes a key and sends the bundle under it.         *)
LEMMA FirstPakeCourse ==
  ASSUME IInv, IInv', Course, NEW p \in Peer, NEW q \in Peer, FirstPake(p, q)
  PROVE  Course'
<1> USE DEF Course
<1> DEFINE k == PairKey("room", p, q)
<1>1. k \in Key /\ k # NoPeer /\ k.of = {p, q} /\ k.via = "room"
  BY PairKeyType
<1>2. /\ pc[p] = "room" /\ wire[q][p] # <<>> /\ Head(wire[q][p]).kind = "pake" /\ key[p] = NoPeer
      /\ pending[p] # NoPeer => pending[p].key = k
      /\ key' = [key EXCEPT ![p] = k]
      /\ bundle' = [bundle EXCEPT ![p] = IF pending[p] = NoPeer THEN @ ELSE pending[p].from]
      /\ pending' = [pending EXCEPT ![p] = NoPeer]
      /\ Handle(p, q, Bootstrap(p, q))
      /\ pc' = [pc EXCEPT ![p] = Proceed(p)]
      /\ UNCHANGED <<role, expired, misread, faults>>
      /\ booted' = [booted EXCEPT ![p] = @ \cup {q}]
  BY DEF FirstPake, HandleEvent, Opens, Stage, world
<1>3. p # q /\ pc[q] \notin Outside
  BY <1>2 DEF IInv, WireIsTrue, Sealed, NothingOutside
<1>4. k \in RoomKeys(p)
  BY <1>3 DEF RoomKeys
<1> HIDE DEF k
<1>5. bundle[p] = NoPeer /\ booted[p] = {}
  BY <1>2 DEF IInv, KeyFitsBundle, Sealed, BootedHasKey
<1>6. pending[p] # NoPeer => pending[p].from = q /\ key[q] # NoPeer
  <2> SUFFICES ASSUME pending[p] # NoPeer PROVE pending[p].from = q /\ key[q] # NoPeer
    OBVIOUS
  <2>1. pending[p].from # p /\ pending[p].from \in pending[p].key.of
    BY DEF IInv, PendingIsTrue
  <2>2. pending[p].from = q
    BY <2>1, <1>1, <1>2
  <2> QED
    BY <2>2 DEF Sealed, PendingSealed
<1>7. /\ key'[p] = k /\ pending'[p] = NoPeer /\ pc'[p] = Proceed(p)
      /\ bundle'[p] = IF pending[p] = NoPeer THEN NoPeer ELSE q
      /\ \A x \in Peer \ {p} : key'[x] = key[x] /\ bundle'[x] = bundle[x]
                               /\ pending'[x] = pending[x] /\ pc'[x] = pc[x] /\ booted'[x] = booted[x]
  BY <1>2, <1>5, <1>6 DEF IInv, TypeOK
<1>8. Proceed(p) \in {"room", "paired"} /\ (pending[p] # NoPeer => Proceed(p) = "paired")
  BY <1>1, <1>3, <1>7, PeerAssumption DEF Proceed
<1> DEFINE e == Event("bootstrap", k)
           events == <<Event("bootstrap", k)>>
<1>9. e \in RoomEvent /\ e.kind = "bootstrap" /\ e.key = k
  BY <1>1 DEF Event, RoomEvent
<1>10. Handle(p, q, events)
  BY <1>2, <1>5, <1>7, Zenon DEF Bootstrap
<1>11. events \in Seq(RoomEvent) /\ 1 \in DOMAIN events /\ \A i \in DOMAIN events : events[i] = e
  BY <1>9
<1> HIDE DEF e, events
<1>12. /\ WireSealed' /\ NothingOutside'
       /\ \A x \in Peer : RoomKeys(x) \subseteq RoomKeys(x)'
  <2>1. pc'[p] \notin Outside
    BY <1>7, <1>8 DEF Outside
  <2>2. \A i \in DOMAIN events :
          events[i].kind = "bootstrap" => events[i].key \in RoomKeys(p) /\ key'[p] # NoPeer
    BY <1>1, <1>4, <1>7, <1>9, <1>11
  <2> QED
    BY <1>2, <1>7, <1>10, <1>11, <2>1, <2>2, HandleSealed
<1>13. Sealed'
  <2>1. KeysSealed'
    BY <1>4, <1>7, <1>12 DEF Sealed, KeysSealed
  <2>2. PendingSealed'
    <3>1. \A x \in Peer : pending[x] # NoPeer => pending[x].from \in Peer
      BY DEF IInv, TypeOK, Envelope
    <3> QED
      BY <1>1, <1>7, <1>12, <3>1 DEF Sealed, PendingSealed
  <2>3. BundlesSealed'
    <3>1. \A x \in Peer : bundle[x] # NoPeer => bundle[x] \in Peer
      BY DEF IInv, TypeOK
    <3> QED
      BY <1>1, <1>3, <1>6, <1>7, <1>8, <3>1 DEF Sealed, BundlesSealed, Outside
  <2>4. BootedHasKey'
    BY <1>1, <1>7 DEF Sealed, BootedHasKey
  <2> QED
    BY <1>12, <2>1, <2>2, <2>3, <2>4 DEF Sealed
<1>14. Owed'
  <2> SUFFICES ASSUME NEW x \in Peer, NEW y \in Peer, x # y, key'[x] # NoPeer, key'[x].via = "room",
                      y \in key'[x].of, pc'[y] = "room"
               PROVE  OnItsWay(x, y)' \/ (pending'[y] # NoPeer /\ key'[y] = NoPeer) \/ bundle'[y] = x
    BY DEF Owed
  <2>1. CASE x = p
    <3>1. y = q
      BY <1>1, <1>7, <2>1
    <3>2. \A i \in DOMAIN events : \E j \in DOMAIN wire'[p][q] : wire'[p][q][j] = events[i]
      BY <1>2, <1>10, <1>11, HandleEffect
    <3>3. \E j \in DOMAIN wire'[p][q] : wire'[p][q][j] = e
      BY <1>11, <3>2
    <3> QED
      BY <1>7, <1>9, <2>1, <3>1, <3>3 DEF OnItsWay
  <2>2. CASE x # p
    <3>1. key'[x] = key[x] /\ pc[y] = "room"
      BY <1>2, <1>7, <2>2
    <3>2. OnItsWay(x, y) \/ (pending[y] # NoPeer /\ key[y] = NoPeer) \/ bundle[y] = x
      BY <3>1 DEF Owed
    <3>3. OnItsWay(x, y) => OnItsWay(x, y)'
      BY <1>2, <1>10, <1>11, <3>1, StillOnItsWay
    <3>4. CASE y = p
      <4>1. x # NoPeer
        BY PeerAssumption
      <4> QED
        BY <1>5, <1>7, <1>8, <3>2, <3>3, <3>4, <4>1
    <3> QED
      BY <1>7, <3>2, <3>3, <3>4
  <2> QED
    BY <2>1, <2>2
<1>15. Quiet'
  <2>1. \A x \in Peer : pc[x] = "bound" => pc'[x] = "bound" /\ bundle'[x] = bundle[x]
    BY <1>2, <1>7
  <2>2. \A x \in Peer : pc'[x] = "bound" => pc[x] = "bound"
    BY <1>7, <1>8
  <2> QED
    BY <1>2, <2>1, <2>2, QuietStays
<1>16. FailsOnlyByMisreading'
  <2>1. \A x \in Peer : (pc'[x] = "off" => pc[x] = "off") /\ (pc'[x] = "failed" => pc[x] = "failed")
    BY <1>7, <1>8
  <2> QED
    BY <1>2, <2>1, NobodyFails
<1> QED
  BY <1>13, <1>14, <1>15, <1>16
(* The first envelope that waits from q is q's, under a key of q's.          *)
LEMMA HeadIsSealed ==
  ASSUME IInv, Sealed, NEW p \in Peer, NEW q \in Peer, HandleEvent(p, q, "bootstrap")
  PROVE  /\ wire[q][p] # <<>> /\ p # q /\ key[q] # NoPeer /\ pc[q] \notin Outside
         /\ Head(wire[q][p]) \in RoomEvent /\ Head(wire[q][p]).key \in RoomKeys(q)
<1>0. wire \in [Peer -> [Peer -> Seq(RoomEvent)]]
  BY DEF IInv, TypeOK, RoomEvent
<1>1. wire[q][p] \in Seq(RoomEvent) /\ wire[q][p] # <<>>
  BY <1>0 DEF HandleEvent
<1>2. 1 \in DOMAIN wire[q][p] /\ Head(wire[q][p]) = wire[q][p][1] /\ Head(wire[q][p]) \in RoomEvent
  BY <1>1
<1>3. Head(wire[q][p]).key \in RoomKeys(q) /\ key[q] # NoPeer
  BY <1>2 DEF HandleEvent, Sealed, WireSealed
<1> QED
  BY <1>1, <1>2, <1>3 DEF IInv, WireIsTrue, Sealed, NothingOutside

(* An envelope that comes after the key opens and pairs the process; one     *)
(* that comes before it waits.                                               *)
LEMMA EnvelopeCourse ==
  ASSUME IInv, IInv', Course, NEW p \in Peer, NEW q \in Peer,
         ReceiveBootstrap(p, q) \/ EarlyBootstrap(p, q)
  PROVE  Course'
<1> USE DEF Course
<1>1. /\ HandleEvent(p, q, "bootstrap") /\ Handle(p, q, <<>>)
      /\ UNCHANGED <<key, booted, role, expired, misread, faults>>
      /\ bundle' = [bundle EXCEPT ![p] = bundle'[p]] /\ pending' = [pending EXCEPT ![p] = pending'[p]]
      /\ pc' = [pc EXCEPT ![p] = pc'[p]]
  BY DEF ReceiveBootstrap, EarlyBootstrap, world, sent, Stage, IInv, TypeOK
<1>2. /\ wire[q][p] # <<>> /\ p # q /\ key[q] # NoPeer /\ pc[q] \notin Outside /\ pc[p] = "room"
      /\ Head(wire[q][p]) \in RoomEvent /\ Head(wire[q][p]).key \in RoomKeys(q)
  BY <1>1, HeadIsSealed DEF HandleEvent
<1>3. \A x \in Peer \ {p} : bundle'[x] = bundle[x] /\ pending'[x] = pending[x] /\ pc'[x] = pc[x]
  BY <1>1 DEF IInv, TypeOK
<1>4. \/ /\ pc'[p] = "paired" /\ bundle'[p] = q /\ pending'[p] = pending[p]
      \/ /\ pc'[p] = "room" /\ bundle'[p] = bundle[p] /\ key[p] = NoPeer
         /\ pending'[p] = Received(q, Head(wire[q][p]))
  <2>1. CASE ReceiveBootstrap(p, q)
    <3>1. bundle'[p] = q /\ pending' = pending /\ key[p] # NoPeer /\ pc'[p] = Proceed(p)
      BY <2>1 DEF ReceiveBootstrap, Stage, IInv, TypeOK
    <3> QED
      BY <1>1, <3>1, PeerAssumption DEF Proceed
  <2>2. CASE EarlyBootstrap(p, q)
    BY <1>2, <2>2 DEF EarlyBootstrap, IInv, TypeOK
  <2> QED
    BY <2>1, <2>2
<1>5. PICK none : none = <<>> /\ none \in Seq(RoomEvent) /\ \A i \in DOMAIN none : FALSE
  BY NoEvents, Zenon
<1>6. Handle(p, q, none)
  BY <1>1, <1>5
<1>7. /\ WireSealed' /\ NothingOutside'
      /\ \A x \in Peer : RoomKeys(x) \subseteq RoomKeys(x)'
  <2>1. pc'[p] \notin Outside
    BY <1>4 DEF Outside
  <2> QED
    BY <1>1, <1>2, <1>3, <1>5, <1>6, <2>1, HandleSealed
<1>8. Sealed'
  <2>1. KeysSealed'
    BY <1>1, <1>7 DEF Sealed, KeysSealed
  <2>2. PendingSealed'
    <3>1. \A x \in Peer : pending[x] # NoPeer => pending[x].from \in Peer
      BY DEF IInv, TypeOK, Envelope
    <3>2. Received(q, Head(wire[q][p])).from = q
          /\ Received(q, Head(wire[q][p])).key = Head(wire[q][p]).key
      BY DEF Received
    <3>3. ASSUME NEW x \in Peer, pending'[x] # NoPeer
          PROVE  \E f \in Peer : f = pending'[x].from /\ pending'[x].key \in RoomKeys(f)' /\ key'[f] # NoPeer
      <4>1. CASE pending'[x] = pending[x]
        BY <1>1, <1>7, <3>1, <3>3, <4>1 DEF Sealed, PendingSealed
      <4>2. CASE x = p /\ pending'[p] = Received(q, Head(wire[q][p]))
        BY <1>1, <1>2, <1>7, <3>2, <4>2
      <4> QED
        BY <1>3, <1>4, <4>1, <4>2
    <3> QED
      BY <3>3 DEF PendingSealed
  <2>3. BundlesSealed'
    <3>1. \A x \in Peer : bundle[x] # NoPeer => bundle[x] \in Peer
      BY DEF IInv, TypeOK
    <3> QED
      BY <1>1, <1>2, <1>3, <1>4, <3>1 DEF Sealed, BundlesSealed, Outside
  <2>4. BootedHasKey'
    BY <1>1 DEF Sealed, BootedHasKey
  <2> QED
    BY <1>7, <2>1, <2>2, <2>3, <2>4 DEF Sealed
<1>9. Owed'
  <2> SUFFICES ASSUME NEW x \in Peer, NEW y \in Peer, x # y, key'[x] # NoPeer, key'[x].via = "room",
                      y \in key'[x].of, pc'[y] = "room"
               PROVE  OnItsWay(x, y)' \/ (pending'[y] # NoPeer /\ key'[y] = NoPeer) \/ bundle'[y] = x
    BY DEF Owed
  <2>1. key'[x] = key[x] /\ pc[y] = "room" /\ key'[y] = key[y]
    BY <1>1, <1>2, <1>3
  <2>2. OnItsWay(x, y) \/ (pending[y] # NoPeer /\ key[y] = NoPeer) \/ bundle[y] = x
    BY <1>1, <2>1 DEF Owed
  <2>3. CASE y = p
    <3>1. pending'[p] = Received(q, Head(wire[q][p])) /\ key[p] = NoPeer
      BY <1>4, <2>3
    <3>2. pending'[p] # NoPeer
      <4>1. Head(wire[q][p]).key \in Key
        <5>1. PICK z \in Peer : Head(wire[q][p]).key = PairKey("room", q, z)
          BY <1>2 DEF RoomKeys
        <5> QED
          BY <5>1, PairKeyType
      <4>2. Received(q, Head(wire[q][p])) \in Envelope
        BY <4>1 DEF Received, Envelope
      <4> QED
        BY <3>1, <4>2, PeerAssumption
    <3> QED
      BY <2>1, <2>3, <3>1, <3>2
  <2>4. CASE y # p
    <3>1. OnItsWay(x, y) => OnItsWay(x, y)'
      BY <1>2, <1>5, <1>6, <2>1, <2>4, StillOnItsWay
    <3> QED
      BY <1>3, <2>1, <2>2, <2>4, <3>1
  <2> QED
    BY <2>3, <2>4
<1>10. Quiet'
  <2>1. \A x \in Peer : pc[x] = "bound" => pc'[x] = "bound" /\ bundle'[x] = bundle[x]
    BY <1>2, <1>3
  <2>2. \A x \in Peer : pc'[x] = "bound" => pc[x] = "bound"
    BY <1>3, <1>4
  <2> QED
    BY <1>1, <2>1, <2>2, QuietStays
<1>11. FailsOnlyByMisreading'
  <2>1. \A x \in Peer : (pc'[x] = "off" => pc[x] = "off") /\ (pc'[x] = "failed" => pc[x] = "failed")
    BY <1>3, <1>4
  <2> QED
    BY <1>1, <2>1, NobodyFails
<1> QED
  BY <1>8, <1>9, <1>10, <1>11

(* Who joins has no key yet, and nobody has one made with it.                *)
LEMMA JoinRoomCourse ==
  ASSUME IInv, IInv', Course, NEW p \in Peer, JoinRoom(p)
  PROVE  Course'
<1> USE DEF Course
<1>1. /\ UNCHANGED <<key, bundle, pending, booted, role, expired, misread, faults>>
      /\ pc[p] = "joining" /\ pc'[p] = "room" /\ \A x \in Peer \ {p} : pc'[x] = pc[x]
  BY DEF JoinRoom, pairing, world, Stage, IInv, TypeOK
<1>2. /\ key[p] = NoPeer /\ p \notin Members
  BY <1>1 DEF Sealed, NothingOutside, Outside, Members
<1>3. /\ \A x \in Peer \ {p} : wire'[x] = wire[x]
      /\ \A y \in Peer : \A j \in DOMAIN wire'[p][y] : wire'[p][y][j].kind \in {"joined", "pake"}
  <2> DEFINE hello == <<Event("joined", NoPeer), Event("pake", NoPeer)>>
             none == <<>>
  <2>1. /\ Event("joined", NoPeer).kind = "joined" /\ Event("pake", NoPeer).kind = "pake"
        /\ Event("joined", NoPeer) \in RoomEvent /\ Event("pake", NoPeer) \in RoomEvent
    BY DEF Event, RoomEvent
  <2>2. /\ \A j \in DOMAIN hello : hello[j].kind \in {"joined", "pake"}
        /\ \A j \in DOMAIN none : none[j].kind \in {"joined", "pake"}
    BY <2>1
  <2>3. wire' = [wire EXCEPT ![p] = [y \in Peer |-> IF y \in Members THEN hello ELSE none]]
    BY DEF JoinRoom
  <2> HIDE DEF hello, none
  <2>4. /\ wire'[p] = [y \in Peer |-> IF y \in Members THEN hello ELSE none]
        /\ \A x \in Peer \ {p} : wire'[x] = wire[x]
    BY <2>3 DEF IInv, TypeOK
  <2>5. \A y \in Peer : wire'[p][y] = hello \/ wire'[p][y] = none
    BY <2>4
  <2> QED
    BY <2>2, <2>4, <2>5
<1>4. \A x \in Peer : RoomKeys(x) \subseteq RoomKeys(x)'
  BY <1>1, KeysStay DEF Outside
<1>5. Sealed'
  <2>1. KeysSealed' /\ BootedHasKey'
    BY <1>1, <1>4 DEF Sealed, KeysSealed, BootedHasKey
  <2>2. PendingSealed'
    <3>1. \A x \in Peer : pending[x] # NoPeer => pending[x].from \in Peer
      BY DEF IInv, TypeOK, Envelope
    <3> QED
      BY <1>1, <1>4, <3>1 DEF Sealed, PendingSealed
  <2>3. BundlesSealed'
    <3>1. \A x \in Peer : bundle[x] # NoPeer => bundle[x] \in Peer
      BY DEF IInv, TypeOK
    <3> QED
      BY <1>1, <3>1 DEF Sealed, BundlesSealed, Outside
  <2>4. WireSealed'
    BY <1>1, <1>3, <1>4 DEF Sealed, WireSealed
  <2>5. NothingOutside'
    BY <1>1, <1>3 DEF Sealed, NothingOutside, Outside
  <2> QED
    BY <2>1, <2>2, <2>3, <2>4, <2>5 DEF Sealed
<1>6. Owed'
  <2> SUFFICES ASSUME NEW x \in Peer, NEW y \in Peer, x # y, key'[x] # NoPeer, key'[x].via = "room",
                      y \in key'[x].of, pc'[y] = "room"
               PROVE  OnItsWay(x, y)' \/ (pending'[y] # NoPeer /\ key'[y] = NoPeer) \/ bundle'[y] = x
    BY DEF Owed
  <2>1. x # p /\ key[x] \in RoomKeys(x)
    BY <1>1, <1>2 DEF Sealed, KeysSealed
  <2>2. pc[y] \notin Outside
    <3>1. PICK z \in Peer \ {x} : pc[z] \notin Outside /\ key[x] = PairKey("room", x, z)
      BY <2>1 DEF RoomKeys
    <3> QED
      BY <1>1, <3>1, PairKeyType
  <2>3. y # p /\ pc[y] = "room"
    BY <1>1, <2>2 DEF Outside
  <2>4. OnItsWay(x, y) => OnItsWay(x, y)'
    BY <1>1, <1>3, <2>1 DEF OnItsWay
  <2> QED
    BY <1>1, <2>3, <2>4 DEF Owed
<1>7. Quiet'
  BY <1>1, QuietStays
<1>8. FailsOnlyByMisreading'
  BY <1>1, NobodyFails
<1> QED
  BY <1>5, <1>6, <1>7, <1>8
(* The LAN gives keys and bundles to processes that do not wait in the room, *)
(* and without faults no exchange fails.                                     *)
LEMMA LanCourse ==
  ASSUME IInv, Course, NEW s \in Peer,
         \/ \E r \in Peer : LanDial(s, r)
         \/ LanReply(s) \/ LanTake(s) \/ LanFinish(s) \/ LanFails(s)
  PROVE  Course'
<1> USE DEF Course
<1>1. UNCHANGED <<wire, pending, booted, role, expired, misread>>
  BY DEF LanDial, LanReply, LanTake, LanFinish, LanFails, pairing, sent, world
<1>2. faults' = faults \/ (faults' # 0 /\ faults' = faults + 1)
  BY DEF LanDial, LanReply, LanTake, LanFinish, LanFails, world, Fault, IInv, TypeOK
<1>3. \A r \in Peer : /\ PairKey("lan", s, r) # NoPeer /\ PairKey("lan", s, r).via = "lan"
  BY PairKeyType
<1>4. ASSUME NEW r \in Peer, LanDial(s, r)
      PROVE  /\ UNCHANGED <<key, bundle>>
             /\ pc[r] \in {"room", "lanonly"} /\ pc'[r] = "responding"
             /\ \A x \in Peer \ {r} : pc'[x] = pc[x]
  BY <1>4 DEF LanDial, Stage, Accepting, pairing, IInv, TypeOK
<1> DEFINE t == link[s].to
<1>5. ASSUME ~\E r \in Peer : LanDial(s, r)
      PROVE  /\ t \in Peer /\ t # s /\ pc[t] = "responding" /\ pc[s] \in {"lan", "lanonly", "paired"}
             /\ link[s].stage \in {"reply", "finish"} => key[t] = PairKey("lan", s, t)
             /\ link[s].stage = "finish" => key[s] = key[t] /\ pc[s] = "paired"
             /\ link[s] # NoLink
  <2>1. link[s] # NoLink
    BY <1>5 DEF LanReply, LanTake, LanFinish, LanFails, NoLink
  <2>2. link[s].stage \in {"init", "reply", "finish"}
    BY <2>1 DEF IInv, LinksAreTrue, TypeOK
  <2> QED
    BY <2>1, <2>2 DEF IInv, LinksAreTrue
<1> HIDE DEF t
<1>6. CASE \E r \in Peer : LanDial(s, r)
  <2>1. PICK r \in Peer : LanDial(s, r)
    BY <1>6
  <2>2. /\ UNCHANGED <<key, bundle>>
        /\ pc[r] \in {"room", "lanonly"} /\ pc'[r] = "responding"
        /\ \A x \in Peer \ {r} : pc'[x] = pc[x]
    BY <1>4, <2>1
  <2>3. \A x \in Peer : pc'[x] = pc[x] \/ (pc[x] \in {"room", "lanonly"} /\ pc'[x] = "responding")
    BY <2>2
  <2>4. Sealed'
    BY <1>1, <2>2, <2>3, NothingSentSealed DEF Outside
  <2>5. Owed'
    BY <1>1, <2>2, <2>3, NothingSentOwed
  <2>6. Quiet'
    BY <1>1, <1>2, <2>2, <2>3, QuietStays
  <2>7. FailsOnlyByMisreading'
    BY <1>1, <1>2, <2>3, NobodyFails
  <2> QED
    BY <2>4, <2>5, <2>6, <2>7
<1>7. CASE ~\E r \in Peer : LanDial(s, r)
  <2>1. /\ t \in Peer /\ t # s /\ pc[t] = "responding" /\ pc[s] \in {"lan", "lanonly", "paired"}
        /\ link[s].stage \in {"reply", "finish"} => key[t] = PairKey("lan", s, t)
        /\ link[s].stage = "finish" => key[s] = key[t] /\ pc[s] = "paired"
        /\ PairKey("lan", s, t) # NoPeer /\ PairKey("lan", s, t).via = "lan"
    BY <1>3, <1>5, <1>7
  <2>2. \A x \in Peer : x \notin {s, t} => key'[x] = key[x] /\ bundle'[x] = bundle[x] /\ pc'[x] = pc[x]
    BY <1>7 DEF LanReply, LanTake, LanFinish, LanFails, Stage, pairing, t, IInv, TypeOK
  <2>3. \/ /\ key'[t] = PairKey("lan", s, t) /\ key'[s] = key[s] /\ UNCHANGED <<bundle, pc>>
        \/ /\ key'[s] = PairKey("lan", s, t) /\ key'[t] = key[t] /\ bundle'[s] = t /\ pc'[s] = "paired"
           /\ key[t] = PairKey("lan", s, t) /\ bundle'[t] = bundle[t] /\ pc'[t] = pc[t]
        \/ /\ UNCHANGED key /\ bundle'[t] = s /\ pc'[t] = "paired" /\ bundle'[s] = bundle[s]
           /\ pc'[s] = pc[s] /\ pc[s] = "paired" /\ key[s] = PairKey("lan", s, t)
        \/ /\ UNCHANGED <<key, bundle>> /\ pc'[t] = "failed" /\ pc'[s] = pc[s]
           /\ expired # {} \/ faults' # 0
    <3>1. CASE LanReply(s)
      BY <2>1, <3>1 DEF LanReply, Stage, t, IInv, TypeOK
    <3>2. CASE LanTake(s)
      BY <2>1, <3>2 DEF LanTake, Stage, t, IInv, TypeOK
    <3>3. CASE LanFinish(s)
      BY <2>1, <3>3 DEF LanFinish, Stage, t, IInv, TypeOK
    <3>4. CASE LanFails(s)
      <4>1. expired # {} \/ faults' # 0
        BY <1>2, <3>4 DEF LanFails, Fault, IInv, TypeOK
      <4> QED
        BY <2>1, <3>4, <4>1 DEF LanFails, Stage, pairing, t, IInv, TypeOK
    <3> QED
      BY <1>7, <3>1, <3>2, <3>3, <3>4
  <2>4. \A x \in Peer : /\ pc'[x] \in Outside => pc[x] \in Outside
                        /\ pc'[x] = "room" => pc[x] = "room"
                        /\ pc'[x] = "bound" => pc[x] = "bound"
                        /\ pc'[x] = "off" => pc[x] = "off"
                        /\ pc'[x] = "failed" => pc[x] = "failed" \/ expired # {} \/ faults' # 0
    BY <2>1, <2>2, <2>3 DEF Outside
  <2>5. \A x \in Peer : /\ \/ key'[x] = key[x]
                           \/ /\ key'[x] # NoPeer /\ key'[x].via = "lan"
                              /\ pc'[x] \notin Outside /\ pc'[x] # "room"
                        /\ \/ bundle'[x] = bundle[x]
                           \/ /\ bundle'[x] \in Peer \ {x} /\ pc'[bundle'[x]] \notin Outside
                              /\ key'[bundle'[x]] # NoPeer /\ pc'[x] # "room"
    BY <2>1, <2>2, <2>3 DEF Outside
  <2>6. \A x \in Peer : pc[x] = "bound" => pc'[x] = "bound" /\ bundle'[x] = bundle[x]
    BY <2>1, <2>2
  <2>7. Sealed'
    BY <1>1, <2>4, <2>5, NothingSentSealed
  <2>8. Owed'
    BY <1>1, <2>4, <2>5, NothingSentOwed
  <2>9. Quiet'
    BY <1>1, <1>2, <2>4, <2>6, QuietStays
  <2>10. FailsOnlyByMisreading'
    <3>1. expired # {} => faults' # 0
      BY <1>2 DEF Quiet
    <3> QED
      BY <1>1, <1>2, <2>4, <3>1, NobodyFails
  <2> QED
    BY <2>7, <2>8, <2>9, <2>10
<1> QED
  BY <1>6, <1>7
(* Who dials in a room of two is bound to the other, unless it comes early.  *)
LEMMA DialCourse ==
  ASSUME IInv, Course, NEW s \in Peer, Dial(s) \/ DialTooEarly(s) \/ DialFails(s)
  PROVE  Quiet' /\ FailsOnlyByMisreading'
<1> USE DEF Course
<1> DEFINE r == bundle[s]
<1>1. /\ role[s] = "send" /\ pc[s] = "paired"
      /\ UNCHANGED <<key, bundle, role, expired, faults>> /\ misread \subseteq misread'
  BY DEF Dial, DialTooEarly, DialFails, pairing, world
<1>2. r \in Peer /\ r # s /\ pc[r] \notin Outside
  <2>1. r # NoPeer
    BY <1>1 DEF IInv, BundleEndsWaiting
  <2> QED
    BY <2>1 DEF IInv, TypeOK, Sealed, BundlesSealed
<1> HIDE DEF r
<1>3. \A x \in Peer \ {s, r} : pc'[x] = pc[x]
  BY <1>2 DEF Dial, DialTooEarly, DialFails, Stage, r, IInv, TypeOK
<1>4. \/ /\ Binds(s, r) /\ pc[r] = "paired" /\ pc'[s] = "bound" /\ pc'[r] = "bound"
      \/ /\ ~Binds(s, r) /\ pc[r] = "paired" /\ pc'[s] = "failed" /\ pc'[r] = "failed"
      \/ /\ pc[r] \in {"room", "lanonly"} /\ misread' # {} /\ pc'[s] = "failed" /\ pc'[r] = "failed"
      \/ /\ role[r] # "receive" \/ pc[r] \in {"failed", "bound"}
         /\ pc'[s] = "failed" /\ pc'[r] = pc[r]
  <2>1. CASE Dial(s)
    BY <1>2, <2>1 DEF Dial, r, IInv, TypeOK
  <2>2. CASE DialTooEarly(s)
    BY <1>2, <2>2 DEF DialTooEarly, Accepting, r, IInv, TypeOK
  <2>3. CASE DialFails(s)
    BY <1>2, <2>3 DEF DialFails, Stage, r, IInv, TypeOK
  <2> QED
    BY <2>1, <2>2, <2>3
<1>5. Quiet'
  <2>1. ASSUME NEW x \in Peer, pc'[x] = "bound"
        PROVE  pc'[bundle[x]] = "bound"
    <3>1. CASE pc[x] = "bound"
      <4>1. bundle[x] \in Peer /\ pc[bundle[x]] = "bound"
        BY <3>1 DEF IInv, TypeOK, BundleEndsWaiting, Quiet
      <4> QED
        BY <1>1, <1>3, <1>4, <4>1
    <3>2. CASE pc[x] # "bound"
      <4>1. Binds(s, r) /\ pc'[s] = "bound" /\ pc'[r] = "bound" /\ x \in {s, r}
        BY <1>3, <1>4, <2>1, <3>2
      <4> QED
        BY <4>1 DEF Binds, r
    <3> QED
      BY <3>1, <3>2
  <2> QED
    BY <1>1, <2>1 DEF Quiet
<1>6. FailsOnlyByMisreading'
  <2> SUFFICES ASSUME NEW a \in Peer, NEW b \in Peer, Meets(a, b)', Alone(a, b)',
                      "failed" \in {pc'[a], pc'[b]}, misread' = {}
               PROVE  FALSE
    <3>1. \A a, b \in Peer : Meets(a, b)' /\ Alone(a, b)' /\ "failed" \in {pc'[a], pc'[b]}
                               => misread' # {}
      OBVIOUS
    <3> QED
      BY <3>1 DEF FailsOnlyByMisreading
  <2>1. /\ a # b /\ faults = 0 /\ \A x \in Peer \ {a, b} : pc'[x] = "off"
        /\ Meets(a, b) /\ <<role[a], role[b]>> \in {<<"send", "receive">>, <<"pair", "pair">>}
    BY <1>1 DEF Meets, Alone
  <2>2. pc'[s] # "off" /\ pc'[r] # "off"
    BY <1>2, <1>4 DEF Outside
  <2>3. s = a /\ r = b /\ role[r] = "receive"
    BY <1>1, <1>2, <2>1, <2>2
  <2>4. \A x \in Peer \ {s, r} : pc[x] = "off"
    BY <1>3, <2>1, <2>3
  <2>5. misread = {} /\ pc[s] # "failed" /\ pc[r] # "failed"
    <3>1. misread = {} /\ Alone(a, b)
      BY <1>1, <2>1, <2>3, <2>4 DEF Alone
    <3> QED
      BY <2>1, <2>3, <3>1 DEF FailsOnlyByMisreading
  <2>6. CASE pc[r] = "paired" /\ ~Binds(s, r)
    <3>1. bundle[r] = s
      <4>1. bundle[r] # NoPeer /\ bundle[r] \in Peer
        BY <1>2, <2>6 DEF IInv, TypeOK, BundleEndsWaiting
      <4> QED
        BY <1>2, <2>4, <4>1 DEF Sealed, BundlesSealed, Outside
    <3>2. key[s] = key[r]
      BY <1>2, <3>1, Agrees DEF Agreement, r
    <3> QED
      BY <2>6, <3>1, <3>2 DEF Binds
  <2>7. CASE pc[r] = "bound"
    <3>1. bundle[r] # NoPeer /\ bundle[r] \in Peer /\ pc[bundle[r]] = "bound"
      BY <1>2, <2>7 DEF IInv, TypeOK, BundleEndsWaiting, Quiet
    <3> QED
      BY <1>1, <1>2, <2>4, <3>1 DEF Sealed, BundlesSealed
  <2>8. CASE Binds(s, r) /\ pc'[s] = "bound" /\ pc'[r] = "bound"
    BY <2>3, <2>8
  <2> QED
    BY <1>4, <2>3, <2>5, <2>6, <2>7, <2>8
<1> QED
  BY <1>5, <1>6

(* Steps from stage to stage send nothing and change no key.                 *)
LEMMA MovesCourse ==
  ASSUME IInv, Course, NEW p \in Peer, Moves(p)
  PROVE  Course'
<1> USE DEF Course
<1>1. UNCHANGED <<key, bundle, pending, booted, wire, role>>
  BY DEF Moves, Start, NoRoom, LanTimeout, Dial, DialTooEarly, DialFails, Kill, MinutePasses,
         pairing, sent, world
<1>2. CASE Dial(p) \/ DialTooEarly(p) \/ DialFails(p)
  <2>1. \A x \in Peer : pc'[x] = pc[x] \/ pc'[x] \in {"bound", "failed"}
    <3>1. bundle[p] \in Peer
      BY <1>2 DEF Dial, DialTooEarly, DialFails, IInv, TypeOK, BundleEndsWaiting
    <3> QED
      BY <1>2, <3>1 DEF Dial, DialTooEarly, DialFails, Stage, IInv, TypeOK
  <2>2. Sealed'
    BY <1>1, <2>1, NothingSentSealed DEF Outside
  <2>3. Owed'
    BY <1>1, <2>1, NothingSentOwed
  <2> QED
    BY <1>2, <2>2, <2>3, DialCourse
<1>3. CASE ~(Dial(p) \/ DialTooEarly(p) \/ DialFails(p))
  <2>1. \A x \in Peer : \/ pc'[x] = pc[x]
                        \/ pc[x] \in Outside /\ pc'[x] \in {"lan", "joining", "lanonly"}
                        \/ pc[x] # "bound" /\ pc'[x] = "failed" /\ faults' # 0
    BY <1>3 DEF Moves, Start, NoRoom, LanTimeout, Kill, MinutePasses, Stage, Outside, Running, Fault,
                IInv, TypeOK
  <2>2. /\ misread' = misread /\ (faults' = 0 => faults = 0 /\ expired' = expired)
    BY <1>3 DEF Moves, Start, NoRoom, LanTimeout, Kill, MinutePasses, Fault, world, IInv, TypeOK
  <2>3. Sealed'
    BY <1>1, <2>1, NothingSentSealed DEF Outside
  <2>4. Owed'
    BY <1>1, <2>1, NothingSentOwed
  <2>5. Quiet'
    <3>1. \A x \in Peer : pc[x] = "bound" => pc'[x] = "bound" /\ bundle'[x] = bundle[x]
      BY <1>1, <2>1 DEF Outside
    <3>2. \A x \in Peer : pc'[x] = "bound" => pc[x] = "bound"
      BY <2>1
    <3> QED
      BY <2>2, <3>1, <3>2, QuietStays
  <2>6. FailsOnlyByMisreading'
    BY <1>1, <2>1, <2>2, NobodyFails
  <2> QED
    BY <2>3, <2>4, <2>5, <2>6
<1> QED
  BY <1>2, <1>3

\* Every step keeps it.
LEMMA NextCourse == IInv /\ IInv' /\ Course /\ [Next]_vars => Course'
<1> SUFFICES ASSUME IInv, IInv', Course, [Next]_vars PROVE Course'
  OBVIOUS
<1>1. CASE UNCHANGED vars
  <2>1. UNCHANGED <<role, pc, key, bundle, pending, booted, wire, expired, misread, faults>>
    BY <1>1 DEF vars, pairing, sent, world
  <2>2. Sealed'
    BY <2>1, NothingSentSealed DEF Course
  <2>3. Owed'
    BY <2>1, NothingSentOwed DEF Course
  <2>4. Quiet'
    BY <2>1, QuietStays DEF Course
  <2>5. FailsOnlyByMisreading'
    BY <2>1, NobodyFails DEF Course
  <2> QED
    BY <2>2, <2>3, <2>4, <2>5 DEF Course
<1>2. ASSUME NEW p \in Peer, NEW q \in Peer,
             \/ ReceiveJoined(p, q) \/ FirstPake(p, q) \/ LaterPake(p, q)
             \/ ReceiveBootstrap(p, q) \/ EarlyBootstrap(p, q) \/ RoomError(p, q)
      PROVE  Course'
  BY <1>2, QuietRoomCourse, FirstPakeCourse, EnvelopeCourse
<1>3. ASSUME NEW p \in Peer, JoinRoom(p)
      PROVE  Course'
  BY <1>3, JoinRoomCourse
<1>4. ASSUME NEW s \in Peer,
             \/ \E r \in Peer : LanDial(s, r)
             \/ LanReply(s) \/ LanTake(s) \/ LanFinish(s) \/ LanFails(s)
      PROVE  Course'
  BY <1>4, LanCourse
<1>5. ASSUME NEW p \in Peer, Moves(p)
      PROVE  Course'
  BY <1>5, MovesCourse
<1> QED
  BY <1>1, <1>2, <1>3, <1>4, <1>5 DEF Next, RoomStep, LanStep, DialStep, Moves

\* In any run, what is sent is sealed, what is owed comes or is refused, and two that
\* are alone fail only after a misreading.
THEOREM CourseHolds == Spec => []Course
<1>1. IInv /\ Course /\ [Next]_vars /\ IInv' => Course'
  BY NextCourse
<1> QED
  BY <1>1, InitCourse, InductiveInvariant, PTL DEF Spec

\* A peer that returned paired over the room owes its partner nothing: while that waits
\* in the room under their key or without one, it has the bundle or the bundle is on its way.
THEOREM NothingIsOwed == Spec => []NothingOwed
<1>1. IInv /\ Course => NothingOwed
  <2> SUFFICES ASSUME IInv, Course, NEW p \in Peer, NEW q \in Peer, pc[p] \in {"paired", "bound"},
                      bundle[p] = q, key[p].via = "room", pc[q] = "room", key[q] \in {key[p], NoPeer}
               PROVE  \/ \E i \in DOMAIN wire[p][q] : wire[p][q][i] = Event("bootstrap", key[p])
                      \/ pending[q] = [from |-> p, key |-> key[p]]
                      \/ bundle[q] = p
    BY DEF NothingOwed
  <2>1. q # NoPeer /\ q # p /\ key[q] # NoPeer
    BY PeerAssumption DEF Course, Sealed, BundlesSealed
  <2>2. key[p] # NoPeer /\ key[p].of = {p, q}
    BY <2>1 DEF IInv, KeyFitsBundle
  <2>3. OnItsWay(p, q) \/ bundle[q] = p
    BY <2>1, <2>2 DEF Course, Owed
  <2>4. \A i \in DOMAIN wire[p][q] :
          wire[p][q][i] = [kind |-> wire[p][q][i].kind, key |-> wire[p][q][i].key]
    <3>1. wire[p][q] \in Seq(RoomEvent)
      <4>1. wire \in [Peer -> [Peer -> Seq(RoomEvent)]]
        BY DEF IInv, TypeOK, RoomEvent
      <4> QED
        BY <4>1
    <3>2. \A i \in DOMAIN wire[p][q] : wire[p][q][i] \in RoomEvent
      BY <3>1
    <3> QED
      BY <3>2 DEF RoomEvent
  <2> QED
    BY <2>3, <2>4 DEF OnItsWay, Event
<1> QED
  BY <1>1, InductiveInvariant, CourseHolds, PTL

\* Two peers that are alone with a code, and around whom nothing goes wrong, fail only
\* when the receiver has mistaken the control connection for a LAN pairing.
THEOREM FailureIsMisreading == Spec => []FailsOnlyByMisreading
<1>1. Course => FailsOnlyByMisreading
  BY DEF Course
<1> QED
  BY <1>1, CourseHolds, PTL
=============================================================================
