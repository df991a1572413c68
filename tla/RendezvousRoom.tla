--------------------------- MODULE RendezvousRoom ---------------------------
(***************************************************************************)
(* A rendezvous room (class Room of src/web/rendezvous-worker/src/index.ts)*)
(* and the browsers in it (connectRoom of the frontend's rendezvous.ts and *)
(* the peer list of state.ts).                                             *)
(*                                                                         *)
(* The room keeps a session per socket.  A browser that lost its socket    *)
(* connects again before the room may have noticed the loss, and then has  *)
(* two sockets for a while.  The platform (external) may evict the room    *)
(* from memory between two events; its constructor rebuilds the sessions   *)
(* from the sockets the platform still lists, those that are closing       *)
(* included.  Time is reduced to whether the room has passed its age.      *)
(***************************************************************************)
EXTENDS Naturals, Sequences, FiniteSets, SequencesExt

CONSTANTS
  Peer,         \* endpoint ids
  Capacity,     \* maxPeers
  MaxAttempts,  \* MAX_RECONNECT_ATTEMPTS
  MaxSockets,   \* bound: sockets of one browser that are not closed
  MaxJoins,     \* bound: codes that users enter
  MaxFaults     \* bound: lost connections, expiries, relayed and rejected messages

ASSUME RoomAssumption == IsFiniteSet(Peer) /\ Capacity \in Nat \ {0} /\ MaxAttempts \in Nat
ASSUME RoomBounds == MaxSockets \in Nat /\ MaxJoins \in Nat /\ MaxFaults \in Nat

VARIABLES
  ready,     \* readyState of each socket at the room; a closed one is used again
  gone,      \* sockets whose browser end is closed
  wire,      \* messages under way to the browser, per socket
  sessions,  \* sockets that have a session
  expired,   \* the room is older than maxRoomAgeMs
  mode,      \* what each browser's connectRoom does
  link,      \* the number of its socket, 0 for none
  peers,     \* the peers its page shows
  attempts,  \* reconnectAttempts
  revived,   \* peers a dropped session of which came back with the room's memory
  joins, faults

room   == <<ready, wire, sessions, expired>>
client == <<mode, link, peers, attempts>>
vars   == <<room, client, gone, revived, joins, faults>>

Socket == Peer \X (1..MaxSockets)
Owner(s) == s[1]
Owners(S) == {Owner(s) : s \in S}
Link(e) == <<e, link[e]>>
Messages == [type : {"snapshot", "joined", "left", "relay", "expired", "rejected"},
             who : SUBSET Peer]

TypeOK ==
  /\ ready \in [Socket -> {"open", "closing", "closed"}]
  /\ wire \in [Socket -> Seq(Messages)] /\ gone \subseteq Socket /\ sessions \subseteq Socket
  /\ expired \in BOOLEAN
  /\ mode \in [Peer -> {"out", "connecting", "in", "fallback"}]
  /\ link \in [Peer -> 0..MaxSockets]
  /\ \A e \in Peer : mode[e] = "in" <=> link[e] # 0
  /\ peers \in [Peer -> SUBSET Peer]
  /\ attempts \in [Peer -> 0..MaxAttempts]
  /\ revived \subseteq Peer /\ joins \in 0..MaxJoins /\ faults \in 0..MaxFaults

Init ==
  /\ ready = [s \in Socket |-> "closed"]
  /\ wire = [s \in Socket |-> <<>>]
  /\ gone = Socket /\ sessions = {} /\ expired = FALSE
  /\ mode = [e \in Peer |-> "out"]
  /\ link = [e \in Peer |-> 0]
  /\ peers = [e \in Peer |-> {}]
  /\ attempts = [e \in Peer |-> 0]
  /\ revived = {} /\ joins = 0 /\ faults = 0

Message(type, who) == [type |-> type, who |-> who]
Fault == faults < MaxFaults /\ faults' = faults + 1

----------------------------------------------------------------------------
(* The room *)

\* What a session sees of sessions that end: peer-left, but not for its own endpoint id.
Lefts(s, ended) ==
  SetToSeq({Message("left", {e}) : e \in Owners(ended) \ {Owner(s)}})

\* send skips sockets that are not open; what is sent to a browser that is gone is lost.
Broadcast(w, to, messages) ==
  [s \in Socket |-> IF s \in to \ gone /\ ready[s] = "open" THEN w[s] \o messages[s] ELSE w[s]]

\* cleanup: sessions whose socket is closing end, and the age of an empty room counts
\* from now; in a room that is too old everybody is sent away.
Dead     == {s \in sessions : ready[s] # "open"}
Living   == sessions \ Dead
Expelled == IF expired THEN Living ELSE {}
Kept     == Living \ Expelled

\* closeAll forgets the sessions and closes nothing (a slip).
NoFarewell(s) == <<>>
Farewell(s) == IF s \in Expelled THEN <<Message("expired", {})>> ELSE <<>>

CleanWire == Broadcast(wire, Living, [s \in Socket |-> Lefts(s, Dead) \o Farewell(s)])
CloseSockets(closed) == [s \in Socket |-> IF s \in closed THEN "closing" ELSE ready[s]]

\* evictDuplicate, without a word to the others.
EvictDuplicate(S, e) == {s \in S : Owner(s) # e}

\* Capacity counts the session about to be replaced (a slip).
FullBeforeEviction(S, e) == Cardinality(S) >= Capacity
Full(S, e) == Cardinality(EvictDuplicate(S, e)) >= Capacity

Accept(e) ==
  LET n    == CHOOSE k \in 1..MaxSockets : ready[<<e, k>>] = "closed"
      rest == EvictDuplicate(Kept, e)
      told == Broadcast(CleanWire, {s \in rest : Owner(s) # e},
                        [s \in Socket |-> <<Message("joined", {e})>>])
  IN /\ ready' = [CloseSockets(Expelled \cup {s \in Kept : Owner(s) = e})
                    EXCEPT ![<<e, n>>] = "open"]
     /\ wire' = [told EXCEPT ![<<e, n>>] = <<Message("snapshot", Owners(rest))>>]
     /\ sessions' = rest \cup {<<e, n>>}
     /\ gone' = gone \ {<<e, n>>}
     /\ link' = [link EXCEPT ![e] = n]
     /\ mode' = [mode EXCEPT ![e] = "in"]
     /\ attempts' = [attempts EXCEPT ![e] = 0]
     /\ UNCHANGED peers

\* A failed connection is tried again, always (a slip) or until the attempts are used up.
RetryAlways(e) ==
  attempts' = [attempts EXCEPT ![e] = @ + 1] /\ mode' = [mode EXCEPT ![e] = "connecting"]
Retry(e) ==
  IF attempts[e] < MaxAttempts
  THEN attempts' = [attempts EXCEPT ![e] = @ + 1] /\ mode' = [mode EXCEPT ![e] = "connecting"]
  ELSE mode' = [mode EXCEPT ![e] = "fallback"] /\ UNCHANGED attempts

\* The sessions of e are evicted before the room is found to be full.
Refuse(e) ==
  /\ ready' = CloseSockets(Expelled \cup {s \in Kept : Owner(s) = e})
  /\ wire' = CleanWire
  /\ sessions' = EvictDuplicate(Kept, e)
  /\ Retry(e)
  /\ UNCHANGED <<gone, link, peers>>

\* fetch: after cleanup no room is expired, so the answer 410 is never given.
Fetch(e) ==
  /\ mode[e] = "connecting" /\ \E k \in 1..MaxSockets : ready[<<e, k>>] = "closed"
  /\ IF Full(Kept, e) THEN Refuse(e) ELSE Accept(e)
  /\ expired' = FALSE
  /\ UNCHANGED <<revived, joins, faults>>

\* The loop over the sessions returns at the first one of the endpoint id.
FirstOf(S) == IF S = {} THEN {} ELSE {CHOOSE s \in S : TRUE}

\* webSocketMessage with a valid relay for `to`.
Relay(e, to) ==
  /\ mode[e] = "in" /\ ready[Link(e)] = "open" /\ Fault
  /\ ready' = CloseSockets(Expelled)
  /\ wire' = Broadcast(CleanWire, FirstOf({s \in Kept : Owner(s) = to /\ Link(e) \in Kept}),
                       [s \in Socket |-> <<Message("relay", {e})>>])
  /\ sessions' = Kept /\ expired' = FALSE
  /\ UNCHANGED <<client, gone, revived, joins>>

\* A message that is too large, or is not a relay, ends the session that sent it.
Reject(e) ==
  /\ mode[e] = "in" /\ ready[Link(e)] = "open" /\ Fault
  /\ LET ended == {Link(e)} \cap Kept IN
     /\ ready' = CloseSockets(Expelled \cup ended)
     /\ wire' = Broadcast(CleanWire, Kept, [s \in Socket |->
                  IF s \in ended THEN <<Message("rejected", {})>> ELSE Lefts(s, ended)])
     /\ sessions' = Kept \ ended
  /\ expired' = FALSE
  /\ UNCHANGED <<client, gone, revived, joins>>

\* The room notices that the other end is gone,
Notice(s) ==
  /\ s \in gone /\ ready[s] = "open"
  /\ ready' = [ready EXCEPT ![s] = "closing"]
  /\ UNCHANGED <<wire, sessions, expired, client, gone, revived, joins, faults>>

\* and onClose ends the session if there still is one.
SocketClosed(s) ==
  /\ s \in gone /\ ready[s] = "closing"
  /\ ready' = [ready EXCEPT ![s] = "closed"]
  /\ sessions' = sessions \ {s}
  /\ wire' = IF s \in sessions
             THEN Broadcast(wire, sessions \ {s}, [t \in Socket |-> Lefts(t, {s})]) ELSE wire
  /\ expired' = (expired /\ sessions' # {})
  /\ UNCHANGED <<client, gone, revived, joins, faults>>

Expire ==
  /\ ~expired /\ sessions # {} /\ Fault
  /\ expired' = TRUE
  /\ UNCHANGED <<ready, wire, sessions, client, gone, revived, joins>>

\* The constructor after hibernation; the age counts from the oldest session left.
Hibernate ==
  /\ sessions' = {s \in Socket : ready[s] # "closed"}
  /\ revived' = revived \cup Owners(sessions' \ sessions)
  /\ expired' \in {FALSE, expired}
  /\ UNCHANGED <<ready, wire, client, gone, joins, faults>>

----------------------------------------------------------------------------
(* The browsers *)

JoinCode(e) ==
  /\ mode[e] \in {"out", "fallback"} /\ joins < MaxJoins
  /\ joins' = joins + 1
  /\ mode' = [mode EXCEPT ![e] = "connecting"]
  /\ peers' = [peers EXCEPT ![e] = {}]
  /\ attempts' = [attempts EXCEPT ![e] = 0]
  /\ UNCHANGED <<room, link, gone, revived, faults>>

Close(e) == gone' = gone \cup {Link(e)} /\ link' = [link EXCEPT ![e] = 0]
Lost(e) == wire' = [wire EXCEPT ![Link(e)] = <<>>]

\* The page is closed.
Leave(e) ==
  /\ mode[e] = "in"
  /\ Close(e) /\ Lost(e)
  /\ mode' = [mode EXCEPT ![e] = "out"]
  /\ peers' = [peers EXCEPT ![e] = {}]
  /\ UNCHANGED <<ready, sessions, expired, attempts, revived, joins, faults>>

Drop(e) ==
  /\ mode[e] = "in" /\ Fault
  /\ Close(e) /\ Lost(e)
  /\ Retry(e)
  /\ UNCHANGED <<ready, sessions, expired, peers, revived, joins>>

\* The snapshot is added to what is shown (a slip).
ShowMore(shown, m) ==
  CASE m.type \in {"snapshot", "joined"} -> shown \cup m.who
    [] m.type = "left" -> shown \ m.who
    [] OTHER           -> shown

\* handleRendezvousEvent, upsertPeer and removePeer.
Show(shown, m) ==
  CASE m.type = "snapshot" -> m.who
    [] m.type = "joined"   -> shown \cup m.who
    [] m.type = "left"     -> shown \ m.who
    [] OTHER               -> shown

\* The page acts on the next message; a close that names its reason ends the connection.
Receive(e) ==
  /\ mode[e] = "in" /\ wire[Link(e)] # <<>>
  /\ LET m == Head(wire[Link(e)]) IN
     /\ peers' = [peers EXCEPT ![e] = Show(@, m) \ {e}]
     /\ IF m.type \in {"expired", "rejected"}
        THEN mode' = [mode EXCEPT ![e] = "fallback"] /\ Close(e)
        ELSE UNCHANGED <<mode, link, gone>>
  /\ wire' = [wire EXCEPT ![Link(e)] = Tail(@)]
  /\ UNCHANGED <<ready, sessions, expired, attempts, revived, joins, faults>>

Connects(e) == Fetch(e) \/ Receive(e)
Ends == \E s \in Socket : Notice(s) \/ SocketClosed(s)

Next ==
  \/ \E e \in Peer : JoinCode(e) \/ Leave(e) \/ Drop(e) \/ Connects(e) \/ Reject(e)
  \/ \E e, to \in Peer : Relay(e, to)
  \/ Ends \/ Expire \/ Hibernate

Spec == Init /\ [][Next]_vars

\* The network delivers, and the platform reports ends of sockets.
FairSpec == Spec /\ WF_vars(Ends) /\ \A e \in Peer : WF_vars(Connects(e))

----------------------------------------------------------------------------
(* Properties *)

Present == Owners(sessions)

\* A message brings f to the peers shown or keeps it among them; messages that are read
\* in turn bring f if one does and the later ones keep it.
Brings(m, f) == f \in Show({}, m)
Keeps(m, f)  == f \in Show({f}, m)
KeepAll(w, f) == \A j \in DOMAIN w : Keeps(w[j], f)
BringAny(w, f) ==
  \E i \in DOMAIN w : Brings(w[i], f) /\ \A j \in DOMAIN w : j > i => Keeps(w[j], f)

Shown(S, w, f) == (f \in S /\ KeepAll(w, f)) \/ BringAny(w, f)

\* The peers that e shows once it has read what is under way.
Will(e) == {f \in Peer \ {e} : Shown(peers[e], wire[Link(e)], f)}

\* What a browser with a session shows, once it has read what is under way, is who has a
\* session: no peer that left, and no peer missing, however often sockets were lost,
\* replaced before the room noticed, or expelled.  A peer is missing only if the room
\* forgot its session, hibernated, and found the old socket still listed: when that
\* socket closes the others are told that the peer left, connected or not.
ViewsFollowRoom ==
  \A e \in Peer :
    mode[e] = "in" /\ Link(e) \in Living =>
      Will(e) \subseteq Present /\ Present \ (Will(e) \cup {e}) \subseteq revived

\* A browser is refused only if the room is full of others: never because of the session
\* it is about to replace, or of one that has ended.  Only a refusal makes a connecting
\* browser try again, or give up with the last attempt.
RefusedOnlyWhenFull ==
  [][\A e \in Peer :
       mode[e] = "connecting" /\ mode'[e] # "in"
         /\ <<mode'[e], attempts'[e]>> # <<mode[e], attempts[e]>>
         => Cardinality(Owners(sessions') \ {e}) >= Capacity]_vars

\* Browsers that stay in a room come to show each other: nobody stays connected to a
\* room that has forgotten it, after an expiry or a hibernation.
StayersMeet ==
  \A e, f \in Peer :
    e # f /\ <>[](mode[e] = "in" /\ mode[f] = "in") => <>[](f \in peers[e] \cup revived)
=============================================================================
