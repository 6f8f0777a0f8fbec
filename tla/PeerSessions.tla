---------------------------- MODULE PeerSessions ----------------------------
(***************************************************************************)
(* The connections of one node: the p2p Host with its dials, accepted      *)
(* sockets, RLPx handshakes, Sessions and Peer records (libp2p), and the   *)
(* taraxa capability above it with its pending and ready peers, its packet *)
(* queue limit and its black list.                                         *)
(*                                                                         *)
(* Three kinds of executors interleave.  Host::strand_ runs MainLoop,      *)
(* DialDone, Accept, StartPeerSession and HostDisconnect; the strand of a  *)
(* socket runs that connection's Transition, OnConnect, ReadPacket, Kicked *)
(* and RemoteDrops; the packets' thread pool runs HandlePacket and         *)
(* StatusProcessed.  A call from one to another is a post: kick holds the  *)
(* ids whose Host::disconnect is posted to strand_, conn[c].kick is        *)
(* Session::disconnect posted to the socket.                               *)
(*                                                                         *)
(* Disconnect reasons are kept as the classes Peer::isUseless tells apart: *)
(* "Fine" (NoDisconnect, DisconnectRequested), "Quick" (TCPError,          *)
(* PingTimeout, TooManyPeers), "Slow" (ClientQuit, UserReason), "Critical" *)
(* (BadProtocol, UselessPeer, IncompatibleProtocol, UnexpectedIdentity,    *)
(* DuplicatePeer).                                                         *)
(***************************************************************************)
EXTENDS Naturals, FiniteSets, FiniteSetsExt

CONSTANTS
  Peers,       \* node ids of the remote nodes
  Trusted,     \* trusted_nodes, allowed above the limit
  Ideal,       \* m_idealPeerCount
  Stretch,     \* m_stretchPeers
  QuickLimit,  \* attempts after which a "Quick" peer is useless (10)
  SlowLimit,   \* attempts after which a "Slow" peer is useless (25)
  KeepPeers,   \* peers an overloaded node always keeps (5)
  MaxOthers,   \* bound: connected peers outside Peers
  MaxFaults    \* bound: failures, restarts, dropped table entries, other peers joining,
               \* packets read while the queue is over its limit

ASSUME ConstantsAssumption ==
  /\ Trusted \subseteq Peers
  /\ {Ideal, Stretch} \subseteq Nat \ {0}
  /\ {QuickLimit, SlowLimit, KeepPeers} \subseteq Nat
  /\ {MaxOthers, MaxFaults} \subseteq Nat

Conns == Peers \X {"out", "in"}
NoConn == <<>>

VARIABLES
  boot,      \* boot_nodes of the configuration
  known,     \* keys of m_peers
  info,      \* the Peer of each id
  table,     \* ids in the node table
  event,     \* last unprocessed node table event of an id
  conn,      \* the connections: socket, handshake and Session
  session,   \* m_sessions
  kick,      \* Host::disconnect calls posted to strand_
  pending,   \* pending_peers_
  ready,     \* peers_
  malicious, \* malicious_peers_
  inbox,     \* kinds of packets of a peer in the thread pool's queues
  handling,  \* initial status packets past getPacketSenderPeer
  overLimit, \* queue_over_limit_
  lastCount, \* last_disconnect_number_of_peers_
  others,    \* connected and ready peers outside Peers
  faults     \* failures so far

hostVars == <<boot, known, info, table, event, conn, session, kick>>
capVars == <<pending, ready, malicious, inbox, handling, overLimit, lastCount>>
vars == <<hostVars, capVars, others, faults>>
-----------------------------------------------------------------------------
Classes == {"Fine", "Quick", "Slow", "Critical"}
Kinds == {"initial", "other"}

\* m_nextState of a handshake while the I/O of the state before it is awaited; the
\* two reads of an EIP-8 message, and those of a frame's header and body, are one.
HandshakeStates == {"AckAuth", "WriteHello", "ReadHello", "StartSession"}

\* "posted": on_success posted startPeerSession; "accepted": onConnect posted.
States == {"none", "dialing", "posted", "accepted", "live"} \cup HandshakeStates

NewPeer(type) ==
  [type |-> type, last |-> "Fine", failedHandshake |-> FALSE, attempts |-> 0]
NewConn(st) ==
  [st |-> st, open |-> TRUE, own |-> TRUE, late |-> FALSE, kick |-> FALSE, greeted |-> FALSE]
Closed == [NewConn("none") EXCEPT !.open = FALSE]

TypeOK ==
  /\ boot \in SUBSET Peers
  /\ known \in SUBSET Peers
  /\ info \in [Peers -> [type : {"Required", "Optional"}, last : Classes,
                         failedHandshake : BOOLEAN, attempts : 0 .. SlowLimit]]
  /\ table \in SUBSET Peers
  /\ event \in [Peers -> {"none", "added", "dropped"}]
  /\ conn \in [Conns -> [st : States, open : BOOLEAN, own : BOOLEAN,
                         late : BOOLEAN, kick : BOOLEAN, greeted : BOOLEAN]]
  /\ session \in [Peers -> Conns \cup {NoConn}]
  /\ {kick, pending, ready, malicious, handling} \subseteq SUBSET Peers
  /\ inbox \in [Peers -> SUBSET Kinds]
  /\ overLimit \in BOOLEAN
  /\ lastCount \in 0 .. Cardinality(Peers) + MaxOthers
  /\ others \in 0 .. MaxOthers
  /\ faults \in 0 .. MaxFaults
-----------------------------------------------------------------------------
(* Peer *)

CountAttempt(i) == [i EXCEPT !.attempts = Min({@ + 1, SlowLimit})]

\* Mutant: a Required peer can be useless too.
UselessAnyType(i) ==
  \/ i.failedHandshake
  \/ i.last = "Critical"
  \/ i.last = "Quick" /\ i.attempts >= QuickLimit
  \/ i.last = "Slow" /\ i.attempts >= SlowLimit

isUseless(i) ==
  /\ i.type # "Required"
  /\ \/ i.failedHandshake
     \/ i.last = "Critical"
     \/ i.last = "Quick" /\ i.attempts >= QuickLimit
     \/ i.last = "Slow" /\ i.attempts >= SlowLimit

(* Host *)

isSession(c) == c # NoConn /\ conn[c].st \in {"accepted", "live"}
havePeerSession(p) == isSession(session[p]) /\ conn[session[p]].open
peer_count == Cardinality({p \in Peers : havePeerSession(p)}) + others
pendingConns == {c \in Conns : conn[c].st = "dialing"}
IngressSlots == Ideal * Stretch
slotsAvailable(slots) == peer_count + Cardinality(pendingConns) < slots

\* The remote of an accepted socket is known once its auth message is read.
isHandshaking(p) ==
  \/ conn[<<p, "out">>].st \in HandshakeStates
  \/ conn[<<p, "in">>].st \in HandshakeStates \ {"AckAuth"}
  \/ \E d \in {"out", "in"} : conn[<<p, d>>].late

\* The conditions of Host::connect.  The last one is a bound of the model: the
\* previous outgoing connection to the peer has ended.
CanConnect(p, i) ==
  /\ ~isHandshaking(p) /\ ~havePeerSession(p)
  /\ p \in table \/ i[p].type = "Required"
  /\ conn[<<p, "out">>].st = "none"

\* The connections c of the peers of S no longer hold the Peer of m_peers.
Disowned(cs, S) ==
  [c \in Conns |-> IF c[1] \in S THEN [cs[c] EXCEPT !.own = FALSE] ELSE cs[c]]

\* The record of peer p after its connection c ended with the given class.
Ended(c, class) ==
  IF conn[c].own THEN [info EXCEPT ![c[1]].last = class] ELSE info

Detach(c) ==
  session' = [session EXCEPT ![c[1]] = IF @ = c THEN NoConn ELSE @]

Fault == faults < MaxFaults /\ faults' = faults + 1
-----------------------------------------------------------------------------
Init ==
  /\ boot \in SUBSET Peers
  /\ known = boot
  /\ info = [p \in Peers |-> NewPeer(IF p \in boot THEN "Required" ELSE "Optional")]
  /\ table = {}
  /\ event = [p \in Peers |-> "none"]
  /\ conn = [c \in Conns |-> Closed]
  /\ session = [p \in Peers |-> NoConn]
  /\ kick = {} /\ pending = {} /\ ready = {} /\ malicious = {} /\ handling = {}
  /\ inbox = [p \in Peers |-> {}]
  /\ overLimit = FALSE /\ lastCount = 0
  /\ others = 0 /\ faults = 0

\* The node table (see NodeTable) gains or loses an entry and queues the event.
TableAdds(p) ==
  /\ p \notin table
  /\ table' = table \cup {p}
  /\ event' = [event EXCEPT ![p] = "added"]
  /\ UNCHANGED <<boot, known, info, conn, session, kick, capVars, others, faults>>

TableDrops(p) ==
  /\ p \in table
  /\ Fault
  /\ table' = table \ {p}
  /\ event' = [event EXCEPT ![p] = "dropped"]
  /\ UNCHANGED <<boot, known, info, conn, session, kick, capVars, others>>

\* Sets of at most n members of S, as many as possible.
FirstOf(n, S) == kSubset(Min({n, Cardinality(S)}), S)
Monus(m, n) == IF m > n THEN m - n ELSE 0

\* onNodeTableEvent: the ids that enter m_peers, and those that leave it.
Added == {p \in table : event[p] = "added"}
DroppedPeers == {p \in known : event[p] = "dropped" /\ info[p].type = "Optional"}

\* shouldReconnect: the fallback time of these peers, which depends on their last
\* disconnect and their attempts, has passed since the last attempt.
DueSets == SUBSET Peers

\* The peers of m_peers after the node table's events, those of them without a
\* session, and those that the main loop forgets.
Listed == (known \ DroppedPeers) \cup Added
Alone == {p \in Listed : ~havePeerSession(p)}
Useless == {p \in Alone : isUseless(info[p])}
Gone == DroppedPeers \cup Useless

\* The connections once the peers of dial are dialled.
Dialled(dial) ==
  LET cs == Disowned(conn, Gone)
  IN  [c \in Conns |-> IF c[1] \in dial /\ c[2] = "out"
                       THEN [NewConn("dialing") EXCEPT !.own = c[1] \notin Gone] ELSE cs[c]]

\* A round of the main loop: the node table's events, then the peers without a
\* session are forgotten when useless or dialled again when due, Required ones up
\* to the ideal count, Optional ones while slots are left.
MainLoop(due) ==
  LET occupied == peer_count + Cardinality(pendingConns)
      toConnect == (Alone \ Useless) \cap due
      required == {p \in toConnect : info[p].type = "Required"}
      connected == {p \in Listed \ Alone : info[p].type = "Required"}
      reqConn == Cardinality(connected) + Cardinality(required)
      dialable(S) == {p \in S : CanConnect(p, info)}
  IN
  /\ \E dialAdded \in FirstOf(Monus(Ideal, occupied), dialable(Added)),
        first \in FirstOf(Monus(Ideal, Cardinality(connected)), required) :
       LET taken == occupied + Cardinality(dialAdded \cup dialable(first))
           left == Monus(Ideal + reqConn + 1, taken)
       IN
       \E second \in FirstOf(left, toConnect \ required) :
         conn' = Dialled(dialAdded \cup dialable(first \cup second))
  /\ known' = Listed \ Useless
  /\ info' = [p \in Peers |-> IF p \in Gone THEN NewPeer("Optional") ELSE info[p]]
  /\ event' = [p \in Peers |-> "none"]
  /\ UNCHANGED <<boot, table, session, kick, capVars, others, faults>>

\* The completion of async_connect.
DialDone(p, ok) ==
  LET c == <<p, "out">>
      i == IF conn[c].own THEN [info EXCEPT ![p] = CountAttempt(@)] ELSE info
  IN
  /\ conn[c].st = "dialing"
  /\ \/ /\ ok
        /\ info' = i
        /\ conn' = [conn EXCEPT ![c].st = "AckAuth"]
        /\ UNCHANGED faults
     \/ /\ ~ok
        /\ Fault
        /\ info' = IF conn[c].own THEN [i EXCEPT ![p].last = "Quick"] ELSE i
        /\ conn' = [conn EXCEPT ![c] = Closed]
  /\ UNCHANGED <<boot, known, table, event, session, kick, capVars, others>>

\* runAcceptor's handler for a socket of peer p.
Accept(p) ==
  /\ conn[<<p, "in">>].st = "none"
  /\ peer_count <= IngressSlots + Cardinality(Trusted)
  /\ conn' = [conn EXCEPT ![<<p, "in">>] = [NewConn("AckAuth") EXCEPT !.own = FALSE]]
  /\ UNCHANGED <<boot, known, info, table, event, session, kick, capVars, others, faults>>

\* RLPXHandshake::transition: the state after the one whose I/O succeeded.
NextState ==
  [AckAuth |-> "WriteHello", WriteHello |-> "ReadHello",
   ReadHello |-> "StartSession", StartSession |-> "posted"]

\* The awaited I/O is a message of the remote (readAuth, readAck, the hello frame)
\* and not one of the node's own (writeAuth, writeAck, its hello).
Reading(c) ==
  \/ conn[c].st = "StartSession"
  \/ conn[c].st = IF c[2] = "out" THEN "WriteHello" ELSE "AckAuth"
Writing(c) ==
  \/ conn[c].st = "ReadHello"
  \/ conn[c].st = IF c[2] = "out" THEN "AckAuth" ELSE "WriteHello"

\* The idle timer cancelled by the last read may have expired already: its
\* handler then still runs (late).
Transition(c, late) ==
  /\ Reading(c) \/ Writing(c)
  /\ late => conn[c].st = "StartSession"
  /\ conn' = [conn EXCEPT ![c].st = NextState[@], ![c].late = late]
  /\ IF late THEN Fault ELSE UNCHANGED faults
  /\ UNCHANGED <<boot, known, info, table, event, session, kick, capVars, others>>

\* RLPXHandshake::error, by an I/O error, the idle timer or a bad message; a
\* message that cannot be decrypted or is not a hello makes the peer useless.
HandshakeFails(c, fatal) ==
  /\ Reading(c) \/ Writing(c)
  /\ fatal => Reading(c)
  /\ Fault
  /\ conn' = [conn EXCEPT ![c] = Closed]
  /\ info' = IF c[1] \in known /\ (c[2] = "out" \/ conn[c].st # "AckAuth")
             THEN [info EXCEPT ![c[1]].failedHandshake = fatal]
             ELSE info
  /\ UNCHANGED <<boot, known, table, event, session, kick, capVars, others>>

\* The expired timer of a finished handshake closes the session's socket.
LateTimeout(c) ==
  /\ conn[c].late
  /\ conn' = [conn EXCEPT ![c].open = FALSE, ![c].late = FALSE]
  /\ info' = IF c[1] \in known THEN [info EXCEPT ![c[1]].failedHandshake = FALSE] ELSE info
  /\ UNCHANGED <<boot, known, table, event, session, kick, capVars, others, faults>>

\* Mutant: a second session of a connected peer is not refused.
RefusalIgnoringSession(p, hello) ==
  CASE hello = "incompatible" -> "Critical"
    [] ~slotsAvailable(IngressSlots) /\ p \notin Trusted -> "Quick"
    [] OTHER -> "Fine"

\* The class of the reason a new session is refused for, "Fine" if it is not.
RefusalOf(p, hello) ==
  CASE hello = "incompatible" -> "Critical"
    [] havePeerSession(p) -> "Critical"
    [] ~slotsAvailable(IngressSlots) /\ p \notin Trusted -> "Quick"
    [] OTHER -> "Fine"

\* startPeerSession and Session::make for a hello that names another id, shares
\* no capability or has an old protocol version, or is good.
StartPeerSession(c, hello) ==
  LET p == c[1]
      refusal == RefusalOf(p, hello)
      i == [info EXCEPT ![p].failedHandshake = FALSE]
  IN
  /\ conn[c].st = "posted"
  /\ IF hello = "good" THEN UNCHANGED faults ELSE Fault
  /\ known' = known \cup {p}
  /\ IF hello # "wrongId" /\ refusal = "Fine"
     THEN /\ conn' = [conn EXCEPT ![c].st = "accepted", ![c].own = TRUE]
          /\ info' = [i EXCEPT ![p].last = "Fine"]
          /\ session' = [session EXCEPT ![p] = c]
     ELSE /\ conn' = [conn EXCEPT ![c] = Closed]
          /\ info' = IF hello = "wrongId" THEN i ELSE [i EXCEPT ![p].last = refusal]
          /\ UNCHANGED session
  /\ UNCHANGED <<boot, table, event, kick, capVars, others>>

\* Host::disconnect, on strand_: finds the session of the id at that moment.
HostDisconnect(p) ==
  /\ p \in kick
  /\ kick' = kick \ {p}
  /\ conn' = IF havePeerSession(p) THEN [conn EXCEPT ![session[p]].kick = TRUE] ELSE conn
  /\ UNCHANGED <<boot, known, info, table, event, session, capVars, others, faults>>
-----------------------------------------------------------------------------
(* Session and TaraxaCapability *)

peersCount == Cardinality(ready) + others

\* TaraxaCapability::onConnect refuses the peer.
Refused(p) == p \in malicious \/ (overLimit /\ peersCount >= lastCount)

OnConnect(c) ==
  LET p == c[1] IN
  /\ conn[c].st = "accepted"
  /\ \/ /\ Refused(p)
        /\ conn' = [conn EXCEPT ![c].st = "live", ![c].kick = TRUE]
        /\ UNCHANGED pending
     \/ /\ ~Refused(p)
        /\ conn' = [conn EXCEPT ![c].st = "live"]
        /\ pending' = pending \cup {p}
  /\ UNCHANGED <<boot, known, info, table, event, session, kick>>
  /\ UNCHANGED <<ready, malicious, inbox, handling, overLimit, lastCount, others, faults>>

\* Session::drop with TaraxaCapability::onDisconnect and PeersState::erasePeer.
drop(c, class) ==
  /\ conn' = [conn EXCEPT ![c] = Closed]
  /\ Detach(c)
  /\ info' = Ended(c, class)
  /\ pending' = pending \ {c[1]}
  /\ ready' = ready \ {c[1]}
  /\ UNCHANGED <<boot, known, table, event, kick>>
  /\ UNCHANGED <<malicious, inbox, handling, overLimit, lastCount, others>>

\* Session::disconnect_, posted by Host::disconnect or by onConnect, with UserReason,
\* or with BadProtocol for a packet that could not be decoded.
Kicked(c, class) ==
  /\ conn[c].st = "live" /\ conn[c].kick
  /\ class = "Critical" => c[1] \in malicious
  /\ drop(c, class)
  /\ UNCHANGED faults

\* The pending read fails because the socket was closed under the session.
ReadFails(c) ==
  /\ conn[c].st = "live" /\ ~conn[c].open
  /\ drop(c, "Quick")
  /\ UNCHANGED faults

\* The connection breaks, the remote asks to disconnect or sends a bad frame.
RemoteDrops(c, class) ==
  /\ conn[c].st = "live" /\ conn[c].open
  /\ class = "Fine" => ~conn[c].kick
  /\ Fault
  /\ drop(c, class)

\* PeersState::getPacketSenderPeer finds the sender.
SenderKnown(p, kind) == p \in ready \/ (p \in pending /\ kind = "initial")

Kick(p) == kick' = kick \cup {p}

\* The queue limit of interpretCapabilityPacket.  "long": more packets than
\* max_packets_queue_size are queued; "elapsed": they have been for queue_limit_time
\* and the last disconnect is peer_disconnect_interval ago.
QueueLimits(p, long, elapsed) ==
  IF long
  THEN /\ overLimit' = TRUE
       /\ lastCount' = IF elapsed THEN peersCount ELSE lastCount
       /\ IF elapsed /\ peersCount > KeepPeers THEN Kick(p) ELSE UNCHANGED kick
  ELSE /\ overLimit' = FALSE
       /\ lastCount' = 0
       /\ UNCHANGED kick

\* Packets wait in the thread pool's queues.
Backlog == \E p \in Peers : inbox[p] # {}

\* Session::readPacket is not muted.
Readable(c) == conn[c].st = "live" /\ conn[c].open /\ ~conn[c].kick

\* A packet is read: Session::readPacket and interpretCapabilityPacket.  The remote
\* sends its initial status first (greeted) and once.
ReadPacket(c, kind, long, elapsed) ==
  LET p == c[1] IN
  /\ Readable(c)
  /\ conn[c].greeted <=> kind = "other"
  /\ conn' = [conn EXCEPT ![c].greeted = TRUE]
  /\ \/ /\ ~SenderKnown(p, kind)
        /\ Kick(p)
        /\ UNCHANGED <<inbox, overLimit, lastCount, faults>>
     \/ /\ SenderKnown(p, kind)
        /\ IF long THEN Backlog /\ Fault ELSE UNCHANGED faults
        /\ QueueLimits(p, long, elapsed)
        /\ inbox' = [inbox EXCEPT ![p] = @ \cup {kind}]
  /\ UNCHANGED <<boot, known, info, table, event, session>>
  /\ UNCHANGED <<pending, ready, malicious, handling, others>>

\* The packets of the peer took longer than peer_max_packets_processing_time_us.
PeerTooSlow(c) ==
  /\ Readable(c) /\ SenderKnown(c[1], "other") /\ Backlog
  /\ Fault
  /\ Kick(c[1])
  /\ UNCHANGED <<boot, known, info, table, event, conn, session, capVars, others>>

\* PacketHandler::processPacket up to the handler's own code.  An initial status
\* packet is handled in a second step, StatusProcessed; any other packet is
\* processed, or found invalid and its sender blacklisted.
HandlePacket(p, kind, bad) ==
  /\ kind \in inbox[p]
  /\ bad => kind = "other"
  /\ inbox' = [inbox EXCEPT ![p] = @ \ {kind}]
  /\ \/ /\ ~SenderKnown(p, kind) /\ ~bad
        /\ Kick(p)
        /\ UNCHANGED <<malicious, handling, faults>>
     \/ /\ SenderKnown(p, kind) /\ ~bad
        /\ handling' = IF kind = "initial" THEN handling \cup {p} ELSE handling
        /\ UNCHANGED <<kick, malicious, faults>>
     \/ /\ SenderKnown(p, kind) /\ bad
        /\ Fault
        /\ malicious' = malicious \cup {p}
        /\ Kick(p)
        /\ UNCHANGED handling
  /\ UNCHANGED <<boot, known, info, table, event, conn, session>>
  /\ UNCHANGED <<pending, ready, overLimit, lastCount, others>>

\* StatusPacketHandler::process for an initial status: the peer becomes ready, or
\* is disconnected for its chain id, its genesis or its short history.
StatusProcessed(p, fits) ==
  /\ p \in handling
  /\ handling' = handling \ {p}
  /\ \/ /\ fits
        /\ pending' = pending \ {p}
        /\ ready' = ready \cup {p}
        /\ UNCHANGED <<kick, faults>>
     \/ /\ ~fits
        /\ Fault
        /\ Kick(p)
        /\ UNCHANGED <<pending, ready>>
  /\ UNCHANGED <<boot, known, info, table, event, conn, session>>
  /\ UNCHANGED <<malicious, inbox, overLimit, lastCount, others>>

\* peer_blacklist_timeout has passed.
ForgetMalicious(p) ==
  /\ p \in malicious
  /\ malicious' = malicious \ {p}
  /\ UNCHANGED <<hostVars, pending, ready, inbox, handling, overLimit, lastCount, others, faults>>

\* Peers outside Peers connect, within the slots, and leave.
OthersChange ==
  /\ \/ others < MaxOthers /\ slotsAvailable(IngressSlots) /\ others' = others + 1 /\ Fault
     \/ others > 0 /\ others' = others - 1 /\ UNCHANGED faults
  /\ UNCHANGED <<hostVars, capVars>>

\* The records once ~Host has dropped every session with ClientQuit.
ClientQuit ==
  [p \in Peers |-> IF havePeerSession(p) /\ conn[session[p]].own
                   THEN [info[p] EXCEPT !.last = "Slow"] ELSE info[p]]

\* The node stops and starts again.  save_state keeps the peers that connected lately ("saved"); a restored Peer keeps
\* its attempts and its last disconnect, and boot nodes are added again.
Restart(saved) ==
  LET type(p) == IF p \in boot THEN "Required" ELSE "Optional" IN
  /\ Fault
  /\ known' = boot \cup saved
  /\ info' = [p \in Peers |-> IF p \in saved THEN [ClientQuit[p] EXCEPT !.failedHandshake = FALSE]
                              ELSE NewPeer(type(p))]
  /\ table' = {}
  /\ event' = [p \in Peers |-> "none"]
  /\ conn' = [c \in Conns |-> Closed]
  /\ session' = [p \in Peers |-> NoConn]
  /\ kick' = {} /\ pending' = {} /\ ready' = {} /\ malicious' = {} /\ handling' = {}
  /\ inbox' = [p \in Peers |-> {}]
  /\ overLimit' = FALSE /\ lastCount' = 0 /\ others' = 0
  /\ UNCHANGED boot

Next ==
  \/ \E due \in DueSets : MainLoop(due)
  \/ \E p \in Peers :
       \/ TableAdds(p) \/ TableDrops(p)
       \/ Accept(p) \/ HostDisconnect(p) \/ ForgetMalicious(p)
       \/ \E ok \in BOOLEAN : DialDone(p, ok) \/ StatusProcessed(p, ok)
       \/ \E kind \in Kinds, bad \in BOOLEAN : HandlePacket(p, kind, bad)
  \/ \E c \in Conns :
       \/ \E b \in BOOLEAN : Transition(c, b) \/ HandshakeFails(c, b)
       \/ \E hello \in {"good", "incompatible", "wrongId"} : StartPeerSession(c, hello)
       \/ LateTimeout(c) \/ OnConnect(c) \/ ReadFails(c) \/ PeerTooSlow(c)
       \/ \E class \in {"Slow", "Critical"} : Kicked(c, class)
       \/ \E class \in {"Fine", "Quick", "Critical"} : RemoteDrops(c, class)
       \/ \E kind \in Kinds, l, e \in BOOLEAN : ReadPacket(c, kind, l, e)
  \/ OthersChange
  \/ \E saved \in SUBSET known : Restart(saved)

Spec == Init /\ [][Next]_vars
-----------------------------------------------------------------------------
SessionsOf(p) == {c \in Conns : c[1] = p /\ conn[c].st \in {"accepted", "live"}}

\* However dials and accepted sockets of the same peer cross, at most one of its
\* sessions has an open socket (Host.cpp:280-288, the DuplicatePeer check).
AtMostOneSession ==
  \A p \in Peers : Cardinality({c \in SessionsOf(p) : conn[c].open}) <= 1

\* A boot node is never forgotten, whatever its connections did and whatever the
\* node table says of it, so that the main loop keeps dialling it (Peer.cpp:37,
\* Host.cpp:340).
BootNodesKept == \A p \in boot : p \in known /\ info[p].type = "Required"

\* A peer waits for its initial status only while one of its sessions lives: the
\* onDisconnect of a session always follows its onConnect (Session.cpp:52, :243).
PendingHaveSession == \A p \in pending : \E c \in SessionsOf(p) : conn[c].st = "live"

\* A peer has one session at most, and is pending only while it has one.
SessionsAgree == AtMostOneSession /\ PendingHaveSession
=============================================================================
