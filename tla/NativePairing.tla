--------------------------- MODULE NativePairing ---------------------------
(***************************************************************************)
(* How two natives that were given the same short code find each other     *)
(* (establish_native_control_peer of src/src/main.rs) and open a control   *)
(* session (src/src/control.rs).  A "send" process looks for a receiver on *)
(* the LAN for 2.5 seconds and then joins the room; a "receive" process    *)
(* joins the room and accepts LAN connections at the same time; a "pair"   *)
(* process uses the room only and dials nobody.                            *)
(*                                                                         *)
(* Cryptography is ideal: the PAKE gives both ends of two handshakes one   *)
(* key and an envelope opens with the key that sealed it.  The room keeps  *)
(* the order of what one member sends another; wire[p][q] holds it until q *)
(* reads it.  A process that is started again is another member of Peer.   *)
(***************************************************************************)
EXTENDS Naturals, Sequences, FiniteSets

CONSTANTS
  Peer,       \* processes that may be started with the code
  Roles,      \* the possible roles of all processes together
  NoPeer,     \* nobody; also no key, no envelope
  MaxFaults   \* bound: kills, broken links, unreachable rooms, elapsed minutes

ASSUME RoleAssumption == Roles \subseteq [Peer -> {"send", "receive", "pair"}]
ASSUME FaultAssumption == MaxFaults \in Nat

VARIABLES
  role,
  pc,        \* "off", "lan", "joining", "room", "lanonly", "responding", "paired",
             \* "bound" or "failed"
  spent,     \* the room handshake of p has been taken
  key,       \* the established pairing: the way it was made and its two ends
  bundle,    \* whose bootstrap bundle p holds
  pending,   \* pending_bootstrap: an envelope that came before the key
  paked,     \* sent_pake_to
  booted,    \* sent_bootstrap_to
  wire,      \* wire[p][q]: room events about and from p under way to q
  link,      \* link[s]: the LAN pairing connection of sender s
  expired,   \* processes whose handshake is more than a minute old
  misread,   \* receivers that took a control connection for a LAN pairing
  faults

pairing == <<spent, key, bundle, pending>>
sent    == <<paked, booted>>
world   == <<role, expired, misread, faults>>
vars    == <<pc, pairing, sent, wire, link, world>>

Key == [via : {"room", "lan"}, of : SUBSET Peer]
Envelope == [from : Peer, key : Key]
ASSUME PeerAssumption == NoPeer \notin Peer \cup Key \cup Envelope
NoLink == [to |-> NoPeer, stage |-> "none"]

TypeOK ==
  /\ role \in Roles
  /\ pc \in [Peer -> {"off", "lan", "joining", "room", "lanonly", "responding", "paired",
                      "bound", "failed"}]
  /\ spent \in [Peer -> BOOLEAN]
  /\ key \in [Peer -> Key \cup {NoPeer}]
  /\ bundle \in [Peer -> Peer \cup {NoPeer}]
  /\ pending \in [Peer -> Envelope \cup {NoPeer}]
  /\ paked \in [Peer -> SUBSET Peer] /\ booted \in [Peer -> SUBSET Peer]
  /\ wire \in [Peer -> [Peer -> Seq([kind : {"joined", "pake", "bootstrap"},
                                     key : Key \cup {NoPeer}])]]
  /\ link \in [Peer -> [to : Peer \cup {NoPeer}, stage : {"none", "init", "reply", "finish"}]]
  /\ expired \subseteq Peer /\ misread \subseteq Peer /\ faults \in 0..MaxFaults

Init ==
  /\ role \in Roles
  /\ pc = [p \in Peer |-> "off"]
  /\ spent = [p \in Peer |-> FALSE]
  /\ key = [p \in Peer |-> NoPeer]
  /\ bundle = [p \in Peer |-> NoPeer]
  /\ pending = [p \in Peer |-> NoPeer]
  /\ paked = [p \in Peer |-> {}] /\ booted = [p \in Peer |-> {}]
  /\ wire = [p \in Peer |-> [q \in Peer |-> <<>>]]
  /\ link = [p \in Peer |-> NoLink]
  /\ expired = {} /\ misread = {} /\ faults = 0

Stage(p, stage) == pc' = [pc EXCEPT ![p] = stage]
Fault == faults < MaxFaults /\ faults' = faults + 1
\* Each end mixes in its own identity (a slip).
PairKeyOwn(via, p, q) == [via |-> via, of |-> {p}]
PairKey(via, p, q) == [via |-> via, of |-> {p, q}]
Event(kind, k) == [kind |-> kind, key |-> k]

----------------------------------------------------------------------------
(* The room *)

Members == {p \in Peer : pc[p] = "room"}

Start(p) ==
  /\ pc[p] = "off"
  /\ Stage(p, IF role[p] = "send" THEN "lan" ELSE "joining")
  /\ UNCHANGED <<pairing, sent, wire, link, world>>

\* A peer that finds others in the room waits for their PAKE (a slip).
JoinSilently(p) ==
  /\ pc[p] = "joining"
  /\ Stage(p, "room")
  /\ wire' = [wire EXCEPT ![p] = [q \in Peer |-> IF q \in Members THEN <<Event("joined", NoPeer)>>
                                                 ELSE <<>>]]
  /\ UNCHANGED <<pairing, sent, link, world>>

\* connect_async and the snapshot, which is the first message on the socket: a PAKE
\* message goes to every member, behind the peer-joined that the room sends them.
JoinRoom(p) ==
  /\ pc[p] = "joining"
  /\ Stage(p, "room")
  /\ wire' = [wire EXCEPT ![p] =
                [q \in Peer |-> IF q \in Members
                                THEN <<Event("joined", NoPeer), Event("pake", NoPeer)>>
                                ELSE <<>>]]
  /\ paked' = [paked EXCEPT ![p] = Members]
  /\ UNCHANGED <<pairing, booted, link, world>>

\* The room cannot be reached: senders and receivers go on with the LAN alone.
NoRoom(p) ==
  /\ pc[p] = "joining" /\ Fault
  /\ Stage(p, IF role[p] = "pair" THEN "failed" ELSE "lanonly")
  /\ UNCHANGED <<pairing, sent, wire, link, role, expired, misread>>

\* What p sends to q while it handles the first event that is waiting from q.
Handle(p, q, events) ==
  wire' = [wire EXCEPT ![q][p] = Tail(@), ![p][q] = @ \o events]

HandleEvent(p, q, kind) ==
  pc[p] = "room" /\ wire[q][p] # <<>> /\ Head(wire[q][p]).kind = kind

\* send_native_pake: the peer counts as served even if the handshake is spent.
ReceiveJoined(p, q) ==
  /\ HandleEvent(p, q, "joined")
  /\ Handle(p, q, IF q \in paked[p] \/ spent[p] THEN <<>> ELSE <<Event("pake", NoPeer)>>)
  /\ paked' = [paked EXCEPT ![p] = @ \cup {q}]
  /\ UNCHANGED <<pc, pairing, booted, link, world>>

\* An envelope opens under any key (a slip).
OpensAlways(k, envelope) == envelope # NoPeer
\* open_bootstrap: authenticated decryption.
Opens(k, envelope) == envelope.key = k

\* The next turn of the loop returns when both halves are there; that leaves the room.
Proceed(p) == IF key'[p] # NoPeer /\ bundle'[p] # NoPeer THEN "paired" ELSE "room"

\* A receiver, who dials nobody, sends no bundle (a slip).
BootstrapOfDialer(p, q) ==
  IF q \in booted[p] \/ role[p] = "receive" THEN <<>> ELSE <<Event("bootstrap", key'[p])>>

\* send_native_bootstrap: once per peer.
Bootstrap(p, q) == IF q \in booted[p] THEN <<>> ELSE <<Event("bootstrap", key'[p])>>

\* The first PAKE message takes the handshake and opens an envelope that came early.
FirstPake(p, q) ==
  /\ HandleEvent(p, q, "pake") /\ key[p] = NoPeer /\ p \notin expired
  /\ pending[p] # NoPeer => Opens(PairKey("room", p, q), pending[p])
  /\ key' = [key EXCEPT ![p] = PairKey("room", p, q)]
  /\ bundle' = [bundle EXCEPT ![p] = IF pending[p] = NoPeer THEN @ ELSE pending[p].from]
  /\ pending' = [pending EXCEPT ![p] = NoPeer]
  /\ spent' = [spent EXCEPT ![p] = TRUE]
  /\ Handle(p, q, Bootstrap(p, q))
  /\ booted' = [booted EXCEPT ![p] = @ \cup {q}]
  /\ Stage(p, Proceed(p))
  /\ UNCHANGED <<paked, link, world>>

\* Later ones are answered with the bundle, sealed for the first partner.
LaterPake(p, q) ==
  /\ HandleEvent(p, q, "pake") /\ key[p] # NoPeer
  /\ UNCHANGED pairing
  /\ Handle(p, q, Bootstrap(p, q))
  /\ booted' = [booted EXCEPT ![p] = @ \cup {q}]
  /\ UNCHANGED <<pc, paked, link, world>>

\* The sender of an envelope is forgotten (a slip).
ReceivedBare(q, event) == [from |-> NoPeer, key |-> event.key]
Received(q, event) == [from |-> q, key |-> event.key]

ReceiveBootstrap(p, q) ==
  /\ HandleEvent(p, q, "bootstrap") /\ key[p] # NoPeer
  /\ Opens(key[p], Received(q, Head(wire[q][p])))
  /\ bundle' = [bundle EXCEPT ![p] = q]
  /\ UNCHANGED <<spent, key, pending>>
  /\ Handle(p, q, <<>>)
  /\ Stage(p, Proceed(p))
  /\ UNCHANGED <<sent, link, world>>

\* One slot: a second early envelope replaces the first.
EarlyBootstrap(p, q) ==
  /\ HandleEvent(p, q, "bootstrap") /\ key[p] = NoPeer
  /\ pending' = [pending EXCEPT ![p] = Received(q, Head(wire[q][p]))]
  /\ Handle(p, q, <<>>)
  /\ UNCHANGED <<pc, spent, key, bundle, sent, link, world>>

\* The errors that end the process: an expired handshake, an envelope that does not open.
RoomError(p, q) ==
  /\ \/ /\ HandleEvent(p, q, "pake") /\ key[p] = NoPeer
        /\ \/ p \in expired
           \/ pending[p] # NoPeer /\ ~Opens(PairKey("room", p, q), pending[p])
     \/ /\ HandleEvent(p, q, "bootstrap") /\ key[p] # NoPeer
        /\ ~Opens(key[p], Received(q, Head(wire[q][p])))
  /\ Stage(p, "failed")
  /\ Handle(p, q, <<>>)
  /\ UNCHANGED <<pairing, sent, link, world>>

----------------------------------------------------------------------------
(* The LAN *)

Accepting(r) == role[r] = "receive" /\ pc[r] \in {"room", "lanonly"}

\* The sender discovers the receiver and sends LocalPairingInit; the receiver's loop
\* leaves the room's events alone until the exchange is over.
LanDial(s, r) ==
  /\ role[s] = "send" /\ pc[s] \in {"lan", "lanonly"} /\ link[s] = NoLink
  /\ Accepting(r)
  /\ link' = [link EXCEPT ![s] = [to |-> r, stage |-> "init"]]
  /\ Stage(r, "responding")
  /\ UNCHANGED <<pairing, sent, wire, world>>

\* complete_local_control_responder: a fresh handshake with the start time of the
\* process, then LocalPairingReply.
LanReply(s) ==
  /\ link[s].stage = "init"
  /\ LET r == link[s].to IN
     IF r \in expired
     THEN Stage(r, "failed") /\ link' = [link EXCEPT ![s] = NoLink] /\ UNCHANGED key
     ELSE /\ key' = [key EXCEPT ![r] = PairKey("lan", s, r)]
          /\ link' = [link EXCEPT ![s].stage = "reply"]
          /\ UNCHANGED pc
  /\ UNCHANGED <<spent, bundle, pending, sent, wire, world>>

\* The sender has the receiver's bundle, sends LocalPairingFinish and returns.
LanTake(s) ==
  /\ link[s].stage = "reply" /\ (s \notin expired \/ pc[s] = "lanonly")
  /\ key' = [key EXCEPT ![s] = PairKey("lan", s, link[s].to)]
  /\ bundle' = [bundle EXCEPT ![s] = link[s].to]
  /\ link' = [link EXCEPT ![s].stage = "finish"]
  /\ Stage(s, "paired")
  /\ UNCHANGED <<spent, pending, sent, wire, world>>

LanFinish(s) ==
  /\ link[s].stage = "finish"
  /\ bundle' = [bundle EXCEPT ![link[s].to] = s]
  /\ Stage(link[s].to, "paired")
  /\ link' = [link EXCEPT ![s] = NoLink]
  /\ UNCHANGED <<spent, key, pending, sent, wire, world>>

\* The exchange fails: the receiver's process ends, the sender looks on unless it has
\* returned.
LanFails(s) ==
  /\ link[s] # NoLink
  /\ \/ link[s].stage = "reply" /\ s \in expired /\ pc[s] = "lan" /\ UNCHANGED faults
     \/ Fault
  /\ Stage(link[s].to, "failed")
  /\ link' = [link EXCEPT ![s] = NoLink]
  /\ UNCHANGED <<pairing, sent, wire, role, expired, misread>>

\* 2.5 seconds without a receiver; the sender without a room starts over instead.
LanTimeout(s) ==
  /\ pc[s] = "lan" /\ link[s] = NoLink
  /\ Stage(s, "joining")
  /\ UNCHANGED <<pairing, sent, wire, link, world>>

----------------------------------------------------------------------------
(* The control session *)

\* ControlSession::connect and accept: both ends verify the other's bind frame, made of
\* the key and the bundle.
Binds(s, r) == key[s] = key[r] /\ bundle[r] = s

\* A receiver that has its pairing accepts the connection the sender dials.
Dial(s) ==
  /\ role[s] = "send" /\ pc[s] = "paired" /\ link[s] = NoLink
  /\ LET r == bundle[s] IN
     /\ role[r] = "receive" /\ pc[r] = "paired"
     /\ pc' = [pc EXCEPT ![s] = IF Binds(s, r) THEN "bound" ELSE "failed",
                         ![r] = IF Binds(s, r) THEN "bound" ELSE "failed"]
  /\ UNCHANGED <<pairing, sent, wire, link, world>>

\* One that still waits for the sender's envelope takes the connection for a LAN
\* pairing and cannot decode the bind frame.
DialTooEarly(s) ==
  /\ role[s] = "send" /\ pc[s] = "paired" /\ link[s] = NoLink
  /\ LET r == bundle[s] IN
     /\ Accepting(r)
     /\ pc' = [pc EXCEPT ![s] = "failed", ![r] = "failed"]
     /\ misread' = misread \cup {r}
  /\ UNCHANGED <<pairing, sent, wire, link, role, expired, faults>>

DialFails(s) ==
  /\ role[s] = "send" /\ pc[s] = "paired" /\ link[s] = NoLink
  /\ role[bundle[s]] # "receive" \/ pc[bundle[s]] \in {"failed", "bound"}
  /\ Stage(s, "failed")
  /\ UNCHANGED <<pairing, sent, wire, link, world>>

----------------------------------------------------------------------------
(* Faults *)

Running(p) == pc[p] \notin {"off", "bound", "failed"}

\* A kill, or a room that closes the socket.  A LAN exchange fails with it.
Kill(p) ==
  /\ Running(p) /\ link[p] = NoLink /\ pc[p] # "responding" /\ Fault
  /\ Stage(p, "failed")
  /\ UNCHANGED <<pairing, sent, wire, link, role, expired, misread>>

\* A minute has passed since p started.
MinutePasses(p) ==
  /\ Running(p) /\ p \notin expired /\ Fault
  /\ expired' = expired \cup {p}
  /\ UNCHANGED <<pc, pairing, sent, wire, link, role, misread>>

RoomStep(p) ==
  \/ JoinRoom(p)
  \/ \E q \in Peer : \/ ReceiveJoined(p, q) \/ FirstPake(p, q) \/ LaterPake(p, q)
                     \/ ReceiveBootstrap(p, q) \/ EarlyBootstrap(p, q) \/ RoomError(p, q)
LanStep(s) == LanReply(s) \/ LanTake(s) \/ LanFinish(s) \/ LanTimeout(s)
DialStep(s) == Dial(s) \/ DialTooEarly(s) \/ DialFails(s)

Next == \E p \in Peer :
  \/ Start(p) \/ RoomStep(p) \/ LanStep(p) \/ DialStep(p)
  \/ \E r \in Peer : LanDial(p, r)
  \/ NoRoom(p) \/ LanFails(p) \/ Kill(p) \/ MinutePasses(p)

Spec == Init /\ [][Next]_vars

\* Processes and the room go on; nobody has to start one, to be found on the LAN, or to
\* fail.
FairSpec == Spec /\ \A p \in Peer : WF_vars(RoomStep(p)) /\ WF_vars(LanStep(p)) /\ WF_vars(DialStep(p))

----------------------------------------------------------------------------
(* Properties *)

\* A peer holds a bundle only under the key it shares with the bundle's owner: early
\* envelopes, third peers in the room and a LAN exchange in between never mix the two.
KeyFitsBundle ==
  \A p \in Peer : bundle[p] # NoPeer => key[p] # NoPeer /\ key[p].of = {p, bundle[p]}

\* Two peers that took each other for their partner hold the same key, whichever of
\* the room and the LAN each was paired over.
Agreement ==
  \A p, q \in Peer : bundle[p] = q /\ bundle[q] = p => key[p] = key[q]

\* A peer that returned paired over the room owes its partner nothing: while the
\* partner still waits in the room, it has the bundle or the envelope is on its way.
NothingOwed ==
  \A p, q \in Peer :
    /\ pc[p] \in {"paired", "bound"} /\ bundle[p] = q /\ key[p].via = "room"
    /\ pc[q] = "room" /\ key[q] \in {key[p], NoPeer}
    => \/ \E i \in DOMAIN wire[p][q] : wire[p][q][i] = Event("bootstrap", key[p])
       \/ pending[q] = [from |-> p, key |-> key[p]]
       \/ bundle[q] = p

Alone(p, q) == faults = 0 /\ \A x \in Peer \ {p, q} : pc[x] = "off"
Meets(p, q) == p # q /\ <<role[p], role[q]>> \in {<<"send", "receive">>, <<"pair", "pair">>}

\* Nothing but a receiver's mistaking the control connection makes a process fail when
\* two peers are alone with a code and nothing goes wrong around them.
FailsOnlyByMisreading ==
  \A p, q \in Peer : Meets(p, q) /\ Alone(p, q) /\ "failed" \in {pc[p], pc[q]} => misread # {}

\* Two such peers both get their pairing, whoever comes first and however the events of
\* the room interleave.
PeersMeet ==
  \A p, q \in Peer :
    [](Meets(p, q) /\ Alone(p, q)) /\ <>(pc[p] # "off" /\ pc[q] # "off")
      => <>(misread # {} \/ {pc[p], pc[q]} \subseteq {"paired", "bound"})

\* The receiver gets what the sender sends when nothing goes wrong around them.
NeitherFails ==
  \A p, q \in Peer : Meets(p, q) /\ Alone(p, q) => "failed" \notin {pc[p], pc[q]}
=============================================================================
