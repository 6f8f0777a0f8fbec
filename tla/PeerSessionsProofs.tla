------------------------- MODULE PeerSessionsProofs -------------------------
(***************************************************************************)
(* Proofs about PeerSessions, for any peers, boot nodes, limits and number *)
(* of faults: however dials, accepted sockets, handshakes and disconnects  *)
(* of a peer cross, it has one open session at most, it is pending only    *)
(* while a session of it lives, and boot nodes are never forgotten.        *)
(*                                                                         *)
(* The invariant has two halves that do not depend on each other:          *)
(*   ConnsOK    the connections, m_sessions and pending_peers_,            *)
(*   RecordsOK  the Peer records and the keys of m_peers.                  *)
(***************************************************************************)
EXTENDS PeerSessions, FiniteSetTheorems, TLAPS

\* The time the SMT solver is given for a step that names no prover.
USE SMTT(60)

Infos == [type : {"Required", "Optional"}, last : Classes, failedHandshake : BOOLEAN,
          attempts : 0..SlowLimit]
ConnStates == [st : States, open : BOOLEAN, own : BOOLEAN, late : BOOLEAN, kick : BOOLEAN,
               greeted : BOOLEAN]

InSession(c) == conn[c].st \in {"accepted", "live"}

\* A session with an open socket is the one that m_sessions names, so that
\* havePeerSession finds it; a pending peer has a session that called onConnect.
ConnsOK ==
  /\ conn \in [Conns -> ConnStates] /\ session \in [Peers -> Conns \cup {NoConn}]
  /\ \A c \in Conns : InSession(c) /\ conn[c].open => session[c[1]] = c
  /\ pending \subseteq Peers
  /\ \A p \in pending : \E c \in Conns : c[1] = p /\ conn[c].st = "live"

RecordsOK == boot \subseteq Peers /\ info \in [Peers -> Infos] /\ BootNodesKept

SessionsInv == ConnsOK /\ RecordsOK

-----------------------------------------------------------------------------
(* Connections.                                                            *)

LEMMA ConnOf ==
  ASSUME NEW c \in Conns
  PROVE  c[1] \in Peers /\ c[2] \in {"out", "in"} /\ c = <<c[1], c[2]>> /\ c # NoConn
BY DEF Conns, NoConn

LEMMA ConnIs ==
  ASSUME NEW p \in Peers
  PROVE  <<p, "out">> \in Conns /\ <<p, "in">> \in Conns
BY DEF Conns

LEMMA NewConns ==
  /\ \A st \in States : NewConn(st) \in ConnStates /\ NewConn(st).st = st
  /\ Closed \in ConnStates /\ Closed.st = "none" /\ ~Closed.open
BY Zenon DEF NewConn, Closed, ConnStates, States

\* A step that opens no session and ends none that called onConnect.
LEMMA ConnsStep ==
  ASSUME ConnsOK, conn' \in [Conns -> ConnStates], UNCHANGED session, pending' \subseteq pending,
         \A c \in Conns : /\ conn'[c].st \in {"accepted", "live"} /\ conn'[c].open
                               => InSession(c) /\ conn[c].open
                          /\ conn[c].st = "live" => conn'[c].st = "live"
  PROVE  ConnsOK'
BY DEF ConnsOK, InSession

\* One connection that has no session changes, and still has none.
LEMMA OtherStates ==
  ASSUME ConnsOK, NEW c \in Conns, NEW r \in ConnStates, ~InSession(c),
         r.st \notin {"accepted", "live"}, conn' = [conn EXCEPT ![c] = r],
         UNCHANGED <<session, pending>>
  PROVE  ConnsOK'
<1>1. conn \in [Conns -> ConnStates] /\ conn' \in [Conns -> ConnStates]
  BY DEF ConnsOK
<1>2. conn'[c] = r /\ \A d \in Conns \ {c} : conn'[d] = conn[d]
  BY <1>1
<1>3. \A d \in Conns : /\ conn'[d].st \in {"accepted", "live"} /\ conn'[d].open
                            => InSession(d) /\ conn[d].open
                       /\ conn[d].st = "live" => conn'[d].st = "live"
  BY <1>2 DEF InSession
<1> QED
  BY <1>1, <1>3, ConnsStep

\* The socket closes, the session is asked to end or has read a packet.
LEMMA SameState ==
  ASSUME ConnsOK, NEW c \in Conns, NEW r \in ConnStates, r.st = conn[c].st,
         r.open => conn[c].open, conn' = [conn EXCEPT ![c] = r], UNCHANGED <<session, pending>>
  PROVE  ConnsOK'
<1>1. conn \in [Conns -> ConnStates] /\ conn' \in [Conns -> ConnStates]
  BY DEF ConnsOK
<1>2. conn'[c] = r /\ \A d \in Conns \ {c} : conn'[d] = conn[d]
  BY <1>1
<1>3. \A d \in Conns : /\ conn'[d].st \in {"accepted", "live"} /\ conn'[d].open
                            => InSession(d) /\ conn[d].open
                       /\ conn[d].st = "live" => conn'[d].st = "live"
  BY <1>2 DEF InSession
<1> QED
  BY <1>1, <1>3, ConnsStep

LEMMA HandshakesKeepConns ==
  ASSUME ConnsOK, NEW p \in Peers, NEW c \in Conns, NEW b \in BOOLEAN,
         DialDone(p, b) \/ Accept(p) \/ Transition(c, b) \/ HandshakeFails(c, b)
  PROVE  ConnsOK'
<1>1. conn \in [Conns -> ConnStates] /\ UNCHANGED <<session, pending>>
  BY Zenon DEF ConnsOK, DialDone, Accept, Transition, HandshakeFails, capVars
<1>2. CASE DialDone(p, b)
  <2> DEFINE d == <<p, "out">>
  <2>1. d \in Conns
    BY ConnIs, Zenon
  <2> HIDE DEF d
  <2>2. /\ conn[d].st = "dialing"
        /\ conn' = [conn EXCEPT ![d].st = "AckAuth"] \/ conn' = [conn EXCEPT ![d] = Closed]
    BY <1>2, Zenon DEF DialDone, d
  <2>3. ~InSession(d)
    BY <2>2 DEF InSession
  <2>4. CASE conn' = [conn EXCEPT ![d].st = "AckAuth"]
    <3> DEFINE r == [conn[d] EXCEPT !.st = "AckAuth"]
    <3>1. r \in ConnStates /\ r.st = "AckAuth" /\ conn' = [conn EXCEPT ![d] = r]
      BY <1>1, <2>1, <2>4 DEF ConnStates, States, HandshakeStates
    <3> HIDE DEF r
    <3> QED
      BY <1>1, <2>1, <2>3, <3>1, OtherStates, Zenon
  <2>5. CASE conn' = [conn EXCEPT ![d] = Closed]
    BY <1>1, <2>1, <2>3, <2>5, NewConns, OtherStates, Zenon
  <2> QED
    BY <2>2, <2>4, <2>5
<1>3. CASE Accept(p)
  <2> DEFINE d == <<p, "in">>
             r == [NewConn("AckAuth") EXCEPT !.own = FALSE]
  <2>1. d \in Conns
    BY ConnIs, Zenon
  <2>2. conn[d].st = "none" /\ conn' = [conn EXCEPT ![d] = r]
    BY <1>3, Zenon DEF Accept
  <2>3. r \in ConnStates /\ r.st = "AckAuth"
    BY Zenon DEF NewConn, ConnStates, States, HandshakeStates
  <2> HIDE DEF d, r
  <2>4. ~InSession(d)
    BY <2>2 DEF InSession
  <2> QED
    BY <1>1, <2>1, <2>2, <2>3, <2>4, OtherStates, Zenon
<1>4. CASE Transition(c, b) \/ HandshakeFails(c, b)
  <2>1. conn[c].st \in HandshakeStates /\ ~InSession(c)
    BY <1>4 DEF Transition, HandshakeFails, Reading, Writing, HandshakeStates, InSession
  <2>2. CASE Transition(c, b)
    <3> DEFINE r == [conn[c] EXCEPT !.st = NextState[conn[c].st], !.late = b]
    <3>1. NextState[conn[c].st] \in {"WriteHello", "ReadHello", "StartSession", "posted"}
      BY <2>1 DEF NextState, HandshakeStates
    <3>2. conn' = [conn EXCEPT ![c].st = NextState[@], ![c].late = b]
      BY <2>2 DEF Transition
    <3>3. conn' = [conn EXCEPT ![c] = r]
      BY <1>1, <3>2, Zenon DEF ConnStates
    <3>4. r \in ConnStates /\ r.st = NextState[conn[c].st]
      BY <1>1, <3>1, Zenon DEF ConnStates, States, HandshakeStates
    <3> HIDE DEF r
    <3> QED
      BY <1>1, <2>1, <3>1, <3>3, <3>4, OtherStates, Zenon
  <2>3. CASE HandshakeFails(c, b)
    BY <1>1, <2>1, <2>3, NewConns, OtherStates, Zenon DEF HandshakeFails
  <2> QED
    BY <1>4, <2>2, <2>3
<1> QED
  BY <1>2, <1>3, <1>4

LEMMA MainLoopKeepsConns ==
  ASSUME ConnsOK, NEW due, MainLoop(due)
  PROVE  ConnsOK'
<1>1. UNCHANGED <<session, pending>> /\ conn \in [Conns -> ConnStates]
  BY Zenon DEF MainLoop, capVars, ConnsOK
<1> DEFINE Can(S) == {p \in S : CanConnect(p, info)}
<1>2. PICK n, dialAdded, first, second :
        dialAdded \in FirstOf(n, Can(Added)) /\ conn' = Dialled(dialAdded \cup Can(first \cup second))
  BY Zenon DEF MainLoop
<1> DEFINE dial == dialAdded \cup Can(first \cup second)
           cs == Disowned(conn, Gone)
<1>3. conn' = [c \in Conns |-> IF c[1] \in dial /\ c[2] = "out"
                               THEN [NewConn("dialing") EXCEPT !.own = c[1] \notin Gone] ELSE cs[c]]
  BY <1>2, Zenon DEF Dialled
<1>4. \A p \in dial : conn[<<p, "out">>].st = "none"
  <2>1. dialAdded \subseteq {p \in Added : CanConnect(p, info)}
    BY <1>2 DEF FirstOf, kSubset
  <2> QED
    BY <2>1, Zenon DEF CanConnect
<1>5. \A c \in Conns : \/ /\ conn[c].st = "none"
                          /\ conn'[c] = [NewConn("dialing") EXCEPT !.own = c[1] \notin Gone]
                       \/ conn'[c] = conn[c] \/ conn'[c] = [conn[c] EXCEPT !.own = FALSE]
  <2> SUFFICES ASSUME NEW c \in Conns
               PROVE  \/ /\ conn[c].st = "none"
                         /\ conn'[c] = [NewConn("dialing") EXCEPT !.own = c[1] \notin Gone]
                      \/ conn'[c] = conn[c] \/ conn'[c] = [conn[c] EXCEPT !.own = FALSE]
    OBVIOUS
  <2>1. c = <<c[1], c[2]>>
    BY ConnOf
  <2> HIDE DEF dial
  <2>2. conn'[c] = IF c[1] \in dial /\ c[2] = "out"
                   THEN [NewConn("dialing") EXCEPT !.own = c[1] \notin Gone] ELSE cs[c]
    BY <1>3, Zenon DEF dial
  <2>3. cs[c] = conn[c] \/ cs[c] = [conn[c] EXCEPT !.own = FALSE]
    BY <1>3 DEF Disowned
  <2> QED
    BY <1>4, <2>1, <2>2, <2>3
<1>6. \A c \in Conns : /\ conn'[c] \in ConnStates
                       /\ \/ conn'[c].st = conn[c].st /\ conn'[c].open = conn[c].open
                          \/ conn[c].st = "none" /\ conn'[c].st = "dialing"
  <2> SUFFICES ASSUME NEW c \in Conns
               PROVE  /\ conn'[c] \in ConnStates
                      /\ \/ conn'[c].st = conn[c].st /\ conn'[c].open = conn[c].open
                         \/ conn[c].st = "none" /\ conn'[c].st = "dialing"
    OBVIOUS
  <2>1. conn[c] \in ConnStates
    BY <1>1
  <2>2. \A b \in BOOLEAN : [NewConn("dialing") EXCEPT !.own = b] \in ConnStates
                           /\ [NewConn("dialing") EXCEPT !.own = b].st = "dialing"
    BY Zenon DEF NewConn, ConnStates, States
  <2>3. [conn[c] EXCEPT !.own = FALSE] \in ConnStates
        /\ [conn[c] EXCEPT !.own = FALSE].st = conn[c].st
        /\ [conn[c] EXCEPT !.own = FALSE].open = conn[c].open
    BY <2>1, Zenon DEF ConnStates
  <2>4. CASE /\ conn[c].st = "none"
             /\ conn'[c] = [NewConn("dialing") EXCEPT !.own = c[1] \notin Gone]
    <3>1. (c[1] \notin Gone) \in BOOLEAN
      BY Zenon
    <3> QED
      BY <2>2, <2>4, <3>1, Zenon
  <2>5. CASE conn'[c] = conn[c]
    BY <2>1, <2>5, Zenon
  <2>6. CASE conn'[c] = [conn[c] EXCEPT !.own = FALSE]
    BY <2>3, <2>6
  <2> QED
    BY <1>5, <2>4, <2>5, <2>6, Zenon
<1>7. conn' \in [Conns -> ConnStates]
  BY <1>3, <1>6
<1>8. \A c \in Conns : /\ conn'[c].st \in {"accepted", "live"} /\ conn'[c].open
                            => InSession(c) /\ conn[c].open
                       /\ conn[c].st = "live" => conn'[c].st = "live"
  BY <1>6 DEF InSession
<1> QED
  BY <1>1, <1>7, <1>8, ConnsStep

\* The DuplicatePeer check: a session is accepted when no other has an open socket.
LEMMA StartKeepsConns ==
  ASSUME ConnsOK, NEW c \in Conns, NEW hello, StartPeerSession(c, hello)
  PROVE  ConnsOK'
<1>1. /\ conn[c].st = "posted" /\ UNCHANGED pending
      /\ conn \in [Conns -> ConnStates] /\ session \in [Peers -> Conns \cup {NoConn}]
  BY Zenon DEF StartPeerSession, capVars, ConnsOK
<1>2. c[1] \in Peers /\ ~InSession(c)
  BY <1>1, ConnOf DEF InSession
<1>3. CASE conn' = [conn EXCEPT ![c] = Closed] /\ UNCHANGED session
  BY <1>1, <1>2, <1>3, NewConns, OtherStates, Zenon
<1>4. CASE /\ RefusalOf(c[1], hello) = "Fine"
           /\ conn' = [conn EXCEPT ![c].st = "accepted", ![c].own = TRUE]
           /\ session' = [session EXCEPT ![c[1]] = c]
  <2>1. ~havePeerSession(c[1])
    BY <1>4 DEF RefusalOf
  <2>2. \A d \in Conns : d[1] = c[1] => ~(InSession(d) /\ conn[d].open)
    <3> SUFFICES ASSUME NEW d \in Conns, d[1] = c[1], InSession(d), conn[d].open PROVE FALSE
      OBVIOUS
    <3>1. session[c[1]] = d /\ d # NoConn
      BY ConnOf DEF ConnsOK
    <3> QED
      BY <2>1, <3>1 DEF havePeerSession, isSession, InSession
  <2>3. conn' \in [Conns -> ConnStates] /\ session' \in [Peers -> Conns \cup {NoConn}]
    BY <1>1, <1>2, <1>4, ZenonT(30) DEF ConnStates, States
  <2>4. conn'[c].st = "accepted" /\ \A d \in Conns \ {c} : conn'[d] = conn[d]
    BY <1>1, <1>4 DEF ConnStates
  <2>5. session'[c[1]] = c /\ \A p \in Peers \ {c[1]} : session'[p] = session[p]
    BY <1>1, <1>2, <1>4
  <2>6. \A d \in Conns : InSession(d)' /\ conn'[d].open => session'[d[1]] = d
    <3> SUFFICES ASSUME NEW d \in Conns, conn'[d].st \in {"accepted", "live"}, conn'[d].open
                 PROVE  session'[d[1]] = d
      BY DEF InSession
    <3>1. CASE d = c
      BY <2>5, <3>1
    <3>2. CASE d # c
      <4>1. InSession(d) /\ conn[d].open /\ d[1] \in Peers
        BY <2>4, <3>2, ConnOf DEF InSession
      <4> QED
        BY <2>2, <2>5, <4>1 DEF ConnsOK
    <3> QED
      BY <3>1, <3>2
  <2>7. \A p \in pending' : \E d \in Conns : d[1] = p /\ conn'[d].st = "live"
    <3> SUFFICES ASSUME NEW p \in pending PROVE \E d \in Conns : d[1] = p /\ conn'[d].st = "live"
      BY <1>1
    <3>1. PICK d \in Conns : d[1] = p /\ conn[d].st = "live"
      BY DEF ConnsOK
    <3>2. d # c
      BY <1>1, <3>1
    <3> QED
      BY <2>4, <3>1, <3>2
  <2> QED
    BY <1>1, <2>3, <2>6, <2>7 DEF ConnsOK
<1> QED
  BY <1>3, <1>4, Zenon DEF StartPeerSession

LEMMA SessionsKeepConns ==
  ASSUME ConnsOK, NEW p \in Peers, NEW c \in Conns, NEW kind, NEW long, NEW elapsed,
         HostDisconnect(p) \/ LateTimeout(c) \/ ReadPacket(c, kind, long, elapsed)
  PROVE  ConnsOK'
<1>1. conn \in [Conns -> ConnStates] /\ UNCHANGED <<session, pending>>
  BY Zenon DEF ConnsOK, HostDisconnect, LateTimeout, ReadPacket, capVars
<1>2. CASE HostDisconnect(p)
  <2> DEFINE d == session[p]
             r == [conn[d] EXCEPT !.kick = TRUE]
  <2>1. CASE UNCHANGED conn
    BY <1>1, <2>1, ConnsStep DEF InSession
  <2>2. CASE havePeerSession(p) /\ conn' = [conn EXCEPT ![d].kick = TRUE]
    <3>1. d \in Conns
      BY <2>2 DEF ConnsOK, havePeerSession, isSession
    <3>2. r \in ConnStates /\ r.st = conn[d].st /\ r.open = conn[d].open
          /\ conn' = [conn EXCEPT ![d] = r]
      BY <1>1, <2>2, <3>1, ZenonT(30) DEF ConnStates
    <3> HIDE DEF d, r
    <3> QED
      BY <1>1, <3>1, <3>2, SameState, Zenon
  <2> QED
    BY <1>2, <2>1, <2>2, Zenon DEF HostDisconnect
<1>3. CASE LateTimeout(c)
  <2> DEFINE r == [conn[c] EXCEPT !.open = FALSE, !.late = FALSE]
  <2>1. conn' = [conn EXCEPT ![c].open = FALSE, ![c].late = FALSE]
    BY <1>3, Zenon DEF LateTimeout
  <2>2. r \in ConnStates /\ r.st = conn[c].st /\ ~r.open /\ conn' = [conn EXCEPT ![c] = r]
    BY <1>1, <2>1, Zenon DEF ConnStates
  <2> HIDE DEF r
  <2> QED
    BY <1>1, <2>2, SameState, Zenon
<1>4. CASE ReadPacket(c, kind, long, elapsed)
  <2> DEFINE r == [conn[c] EXCEPT !.greeted = TRUE]
  <2>1. conn' = [conn EXCEPT ![c].greeted = TRUE]
    BY <1>4, Zenon DEF ReadPacket
  <2>2. r \in ConnStates /\ r.st = conn[c].st /\ r.open = conn[c].open /\ conn' = [conn EXCEPT ![c] = r]
    BY <1>1, <2>1, Zenon DEF ConnStates
  <2> HIDE DEF r
  <2> QED
    BY <1>1, <2>2, SameState, Zenon
<1> QED
  BY <1>2, <1>3, <1>4

LEMMA OnConnectKeepsConns ==
  ASSUME ConnsOK, NEW c \in Conns, OnConnect(c)
  PROVE  ConnsOK'
<1>1. /\ conn[c].st = "accepted" /\ UNCHANGED session
      /\ \/ conn' = [conn EXCEPT ![c].st = "live", ![c].kick = TRUE] /\ UNCHANGED pending
         \/ conn' = [conn EXCEPT ![c].st = "live"] /\ pending' = pending \cup {c[1]}
  BY Zenon DEF OnConnect
<1>2. conn \in [Conns -> ConnStates] /\ c[1] \in Peers
  BY ConnOf DEF ConnsOK
<1>3. conn' \in [Conns -> ConnStates] /\ conn'[c].st = "live" /\ conn'[c].open = conn[c].open
      /\ \A d \in Conns \ {c} : conn'[d] = conn[d]
  BY <1>1, <1>2 DEF ConnStates, States
<1>4. \A d \in Conns : InSession(d)' /\ conn'[d].open => InSession(d) /\ conn[d].open
  BY <1>1, <1>3 DEF InSession
<1>5. pending' \subseteq pending \cup {c[1]}
  BY <1>1
<1>6. \A d \in Conns : conn[d].st = "live" => conn'[d].st = "live"
  BY <1>1, <1>3
<1> QED
  BY <1>1, <1>2, <1>3, <1>4, <1>5, <1>6 DEF ConnsOK

LEMMA DropKeepsConns ==
  ASSUME ConnsOK, NEW c \in Conns, NEW class, drop(c, class)
  PROVE  ConnsOK'
<1>1. /\ conn' = [conn EXCEPT ![c] = Closed] /\ pending' = pending \ {c[1]}
      /\ session' = [session EXCEPT ![c[1]] = IF @ = c THEN NoConn ELSE @]
  BY Zenon DEF drop, Detach
<1>2. /\ conn \in [Conns -> ConnStates] /\ session \in [Peers -> Conns \cup {NoConn}]
      /\ c[1] \in Peers /\ Closed \in ConnStates /\ ~Closed.open
  BY ConnOf, NewConns DEF ConnsOK
<1>3. conn' \in [Conns -> ConnStates] /\ session' \in [Peers -> Conns \cup {NoConn}]
  BY <1>1, <1>2
<1>4. conn'[c] = Closed /\ \A d \in Conns \ {c} : conn'[d] = conn[d]
  BY <1>1, <1>2
<1>5. \A d \in Conns \ {c} : session[d[1]] = d => session'[d[1]] = d
  <2> SUFFICES ASSUME NEW d \in Conns \ {c}, session[d[1]] = d PROVE session'[d[1]] = d
    OBVIOUS
  <2>1. d[1] \in Peers
    BY ConnOf
  <2> QED
    BY <1>1, <1>2, <2>1
<1>6. \A d \in Conns : InSession(d)' /\ conn'[d].open => session'[d[1]] = d
  BY <1>2, <1>4, <1>5 DEF ConnsOK, InSession
<1>7. \A p \in pending' : \E d \in Conns : d[1] = p /\ conn'[d].st = "live"
  <2> SUFFICES ASSUME NEW p \in pending, p # c[1]
               PROVE  \E d \in Conns : d[1] = p /\ conn'[d].st = "live"
    BY <1>1
  <2>1. PICK d \in Conns : d[1] = p /\ conn[d].st = "live"
    BY DEF ConnsOK
  <2>2. d # c
    BY <2>1
  <2> QED
    BY <1>4, <2>1, <2>2
<1>8. pending' \subseteq Peers
  BY <1>1 DEF ConnsOK
<1> QED
  BY <1>3, <1>6, <1>7, <1>8 DEF ConnsOK

LEMMA ConnsFrame ==
  ASSUME ConnsOK, UNCHANGED <<conn, session>>, pending' \subseteq pending
  PROVE  ConnsOK'
BY ConnsStep DEF InSession, ConnsOK

LEMMA RestartKeepsConns ==
  ASSUME ConnsOK, NEW saved, Restart(saved)
  PROVE  ConnsOK'
<1>1. /\ conn' = [c \in Conns |-> Closed] /\ session' = [p \in Peers |-> NoConn]
      /\ pending' = {}
  BY Zenon DEF Restart
<1>2. conn' \in [Conns -> ConnStates] /\ session' \in [Peers -> Conns \cup {NoConn}]
  BY <1>1, NewConns
<1>3. \A c \in Conns : conn'[c].st = "none"
  BY <1>1, NewConns
<1> QED
  BY <1>1, <1>2, <1>3 DEF ConnsOK, InSession

-----------------------------------------------------------------------------
(* Peer records.                                                           *)

LEMMA RecordsStep ==
  ASSUME RecordsOK, UNCHANGED boot, info' \in [Peers -> Infos],
         \A p \in boot : p \in known' /\ info'[p].type = info[p].type
  PROVE  RecordsOK'
BY DEF RecordsOK, BootNodesKept

LEMMA RecordsFrame ==
  ASSUME RecordsOK, UNCHANGED <<boot, known, info>>
  PROVE  RecordsOK'
BY DEF RecordsOK, BootNodesKept

\* What happens to one record leaves its type.
LEMMA RecordSet ==
  ASSUME RecordsOK, NEW p \in Peers, NEW r \in Infos, r.type = info[p].type, UNCHANGED boot,
         known \subseteq known', info' = [info EXCEPT ![p] = r]
  PROVE  RecordsOK'
<1>1. info \in [Peers -> Infos] /\ boot \subseteq Peers /\ BootNodesKept
  BY DEF RecordsOK
<1>2. info' \in [Peers -> Infos] /\ \A q \in Peers : info'[q].type = info[q].type
  BY <1>1
<1> QED
  BY <1>1, <1>2, RecordsStep DEF BootNodesKept

LEMMA RecordChanges ==
  ASSUME NEW i \in Infos
  PROVE  /\ \A class \in Classes : [i EXCEPT !.last = class] \in Infos
                                   /\ [i EXCEPT !.last = class].type = i.type
         /\ \A b \in BOOLEAN : [i EXCEPT !.failedHandshake = b] \in Infos
                               /\ [i EXCEPT !.failedHandshake = b].type = i.type
         /\ CountAttempt(i) \in Infos /\ CountAttempt(i).type = i.type
<1>1. SlowLimit \in Nat
  BY ConstantsAssumption
<1>2. i.attempts \in 0..SlowLimit
  BY DEF Infos
<1>3. Min({i.attempts + 1, SlowLimit}) \in 0..SlowLimit
  <2> DEFINE a == i.attempts + 1
  <2>1. a \in Nat \ {0}
    BY <1>1, <1>2
  <2> HIDE DEF a
  <2>2. Min({a, SlowLimit}) = IF a <= SlowLimit THEN a ELSE SlowLimit
    BY <1>1, <2>1 DEF Min
  <2>3. Min({a, SlowLimit}) \in 0..SlowLimit
    BY <1>1, <2>1, <2>2
  <2> QED
    BY <2>3 DEF a
<1> QED
  BY <1>3 DEF Infos, CountAttempt

\* Peer::isUseless spares Required peers, and so does onNodeTableEvent.
LEMMA MainLoopKeepsRecords ==
  ASSUME RecordsOK, NEW due, MainLoop(due)
  PROVE  RecordsOK'
<1>1. /\ known' = Listed \ Useless /\ UNCHANGED boot
      /\ info' = [p \in Peers |-> IF p \in Gone THEN NewPeer("Optional") ELSE info[p]]
  BY Zenon DEF MainLoop
<1>2. boot \subseteq Peers /\ info \in [Peers -> Infos] /\ BootNodesKept
  BY DEF RecordsOK
<1>3. NewPeer("Optional") \in Infos
  BY ConstantsAssumption DEF NewPeer, Infos, Classes
<1>4. info' \in [Peers -> Infos]
  BY <1>1, <1>2, <1>3
<1>5. \A p \in boot : p \notin DroppedPeers /\ p \notin Useless
  BY <1>2 DEF BootNodesKept, DroppedPeers, Useless, isUseless
<1>6. \A p \in boot : p \in known' /\ info'[p].type = info[p].type
  BY <1>1, <1>2, <1>5 DEF BootNodesKept, Gone, Listed
<1> QED
  BY <1>1, <1>4, <1>6, RecordsStep

LEMMA DialKeepsRecords ==
  ASSUME RecordsOK, NEW p \in Peers, NEW ok \in BOOLEAN, DialDone(p, ok)
  PROVE  RecordsOK'
<1> DEFINE r == CountAttempt(info[p])
<1>1. UNCHANGED <<boot, known>> /\ info \in [Peers -> Infos]
  BY Zenon DEF DialDone, RecordsOK
<1>2. \/ info' = info \/ info' = [info EXCEPT ![p] = CountAttempt(@)]
      \/ info' = [[info EXCEPT ![p] = CountAttempt(@)] EXCEPT ![p].last = "Quick"]
  BY Zenon DEF DialDone
<1>3. r \in Infos /\ r.type = info[p].type
  BY <1>1, RecordChanges
<1>4. [r EXCEPT !.last = "Quick"] \in Infos /\ [r EXCEPT !.last = "Quick"].type = info[p].type
  <2> HIDE DEF r
  <2> QED
    BY <1>3, RecordChanges, Zenon DEF Classes
<1>5. info' = info \/ info' = [info EXCEPT ![p] = r] \/ info' = [info EXCEPT ![p] = [r EXCEPT !.last = "Quick"]]
  BY <1>1, <1>2
<1> HIDE DEF r
<1> QED
  BY <1>1, <1>3, <1>4, <1>5, RecordSet, RecordsFrame, Zenon

LEMMA HandshakesKeepRecords ==
  ASSUME RecordsOK, NEW c \in Conns, NEW b \in BOOLEAN, HandshakeFails(c, b) \/ LateTimeout(c)
  PROVE  RecordsOK'
<1>1. UNCHANGED <<boot, known>> /\ info \in [Peers -> Infos] /\ c[1] \in Peers
  BY ConnOf, Zenon DEF HandshakeFails, LateTimeout, RecordsOK
<1>2. PICK f \in BOOLEAN : info' = info \/ info' = [info EXCEPT ![c[1]].failedHandshake = f]
  BY Zenon DEF HandshakeFails, LateTimeout
<1> DEFINE p == c[1]
           r == [info[p] EXCEPT !.failedHandshake = f]
<1>3. r \in Infos /\ r.type = info[p].type
  BY <1>1, RecordChanges
<1>4. info' = info \/ info' = [info EXCEPT ![p] = r]
  BY <1>1, <1>2
<1> HIDE DEF r, p
<1>5. p \in Peers
  BY <1>1 DEF p
<1> QED
  BY <1>1, <1>3, <1>4, <1>5, RecordSet, RecordsFrame

LEMMA StartKeepsRecords ==
  ASSUME RecordsOK, NEW c \in Conns, NEW hello, StartPeerSession(c, hello)
  PROVE  RecordsOK'
<1> DEFINE p == c[1]
           i == [info EXCEPT ![p].failedHandshake = FALSE]
           refusal == RefusalOf(p, hello)
           r == [info[p] EXCEPT !.failedHandshake = FALSE]
<1>1. UNCHANGED boot /\ known' = known \cup {p} /\ info \in [Peers -> Infos] /\ p \in Peers
  BY ConnOf, Zenon DEF StartPeerSession, RecordsOK
<1>2. info' = i \/ info' = [i EXCEPT ![p].last = "Fine"] \/ info' = [i EXCEPT ![p].last = refusal]
  BY Zenon DEF StartPeerSession
<1>3. refusal \in Classes /\ "Fine" \in Classes
  BY DEF RefusalOf, Classes
<1> HIDE DEF refusal
<1>4. r \in Infos /\ r.type = info[p].type
  BY <1>1, RecordChanges, Zenon
<1>5. /\ i = [info EXCEPT ![p] = r]
      /\ \A class : [i EXCEPT ![p].last = class] = [info EXCEPT ![p] = [r EXCEPT !.last = class]]
  BY <1>1, Zenon
<1> HIDE DEF r, i
<1>6. \A class \in Classes : [r EXCEPT !.last = class] \in Infos /\ [r EXCEPT !.last = class].type = info[p].type
  BY <1>4, RecordChanges
<1> HIDE DEF p
<1>7. CASE info' = i
  BY <1>1, <1>4, <1>5, <1>7, RecordSet, Zenon
<1>8. CASE \E class \in Classes : info' = [i EXCEPT ![p].last = class]
  <2>1. PICK class \in Classes : info' = [info EXCEPT ![p] = [r EXCEPT !.last = class]]
    BY <1>5, <1>8, Zenon
  <2> DEFINE t == [r EXCEPT !.last = class]
  <2>2. t \in Infos /\ t.type = info[p].type /\ info' = [info EXCEPT ![p] = t]
    BY <1>6, <2>1
  <2> HIDE DEF t
  <2> QED
    BY <1>1, <2>2, RecordSet, Zenon
<1> QED
  BY <1>2, <1>3, <1>7, <1>8

LEMMA DropKeepsRecords ==
  ASSUME RecordsOK, NEW c \in Conns, NEW class \in Classes, drop(c, class)
  PROVE  RecordsOK'
<1> DEFINE p == c[1]
           r == [info[p] EXCEPT !.last = class]
<1>1. UNCHANGED <<boot, known>> /\ info \in [Peers -> Infos] /\ p \in Peers
  BY ConnOf, Zenon DEF drop, RecordsOK
<1>2. r \in Infos /\ r.type = info[p].type
  BY <1>1, RecordChanges
<1>3. info' = info \/ info' = [info EXCEPT ![p] = r]
  BY <1>1 DEF drop, Ended
<1> HIDE DEF r, p
<1> QED
  BY <1>1, <1>2, <1>3, RecordSet, RecordsFrame

\* save_state and the boot nodes of the configuration bring every Required peer back.
LEMMA RestartKeepsRecords ==
  ASSUME RecordsOK, NEW saved \in SUBSET known, Restart(saved)
  PROVE  RecordsOK'
<1> DEFINE type(p) == IF p \in boot THEN "Required" ELSE "Optional"
<1>1. /\ UNCHANGED boot /\ known' = boot \cup saved
      /\ info' = [p \in Peers |-> IF p \in saved THEN [ClientQuit[p] EXCEPT !.failedHandshake = FALSE]
                                  ELSE NewPeer(type(p))]
  BY Zenon DEF Restart
<1>2. boot \subseteq Peers /\ info \in [Peers -> Infos] /\ BootNodesKept
  BY DEF RecordsOK
<1>3. \A p \in Peers : ClientQuit[p] \in Infos /\ ClientQuit[p].type = info[p].type
  <2> SUFFICES ASSUME NEW p \in Peers
               PROVE  ClientQuit[p] \in Infos /\ ClientQuit[p].type = info[p].type
    OBVIOUS
  <2>1. info[p] \in Infos
    BY <1>2
  <2> QED
    BY <2>1, RecordChanges, Zenon DEF Classes, ClientQuit
<1>4. \A p \in Peers : info'[p] \in Infos
                      /\ info'[p].type = IF p \in saved THEN info[p].type ELSE type(p)
  <2> SUFFICES ASSUME NEW p \in Peers
               PROVE  info'[p] \in Infos
                      /\ info'[p].type = IF p \in saved THEN info[p].type ELSE type(p)
    OBVIOUS
  <2>1. CASE p \in saved
    BY <1>1, <1>3, <2>1, RecordChanges, Zenon
  <2>2. CASE p \notin saved
    <3>1. NewPeer(type(p)) \in Infos /\ NewPeer(type(p)).type = type(p)
      BY ConstantsAssumption DEF NewPeer, Infos, Classes
    <3> QED
      BY <1>1, <2>2, <3>1
  <2> QED
    BY <2>1, <2>2
<1>5. info' \in [Peers -> Infos]
  BY <1>1, <1>4
<1>6. \A p \in boot : p \in known' /\ info'[p].type = info[p].type
  BY <1>1, <1>2, <1>4, Zenon DEF BootNodesKept
<1> QED
  BY <1>1, <1>5, <1>6, RecordsStep

-----------------------------------------------------------------------------
(* The theorems.                                                           *)

LEMMA NextKeeps ==
  ASSUME SessionsInv, Next
  PROVE  SessionsInv'
<1> USE DEF SessionsInv
<1>1. ASSUME NEW due, MainLoop(due) PROVE SessionsInv'
  BY <1>1, MainLoopKeepsConns, MainLoopKeepsRecords
<1>2. ASSUME NEW p \in Peers, TableAdds(p) \/ TableDrops(p) \/ ForgetMalicious(p) PROVE SessionsInv'
  <2>1. UNCHANGED <<conn, session, pending, boot, known, info>>
    BY <1>2, Zenon DEF TableAdds, TableDrops, ForgetMalicious, hostVars, capVars
  <2> QED
    BY <2>1, ConnsFrame, RecordsFrame
<1>3. ASSUME NEW p \in Peers, Accept(p) \/ HostDisconnect(p) PROVE SessionsInv'
  <2>1. UNCHANGED <<boot, known, info>>
    BY <1>3, Zenon DEF Accept, HostDisconnect
  <2>2. <<p, "out">> \in Conns /\ TRUE \in BOOLEAN
    BY ConnIs, Zenon
  <2>3. ConnsOK'
    BY <1>3, <2>2, HandshakesKeepConns, SessionsKeepConns, Zenon
  <2> QED
    BY <2>1, <2>3, RecordsFrame
<1>4. ASSUME NEW p \in Peers, NEW ok \in BOOLEAN, DialDone(p, ok) PROVE SessionsInv'
  <2>1. <<p, "out">> \in Conns
    BY ConnIs, Zenon
  <2> QED
    BY <1>4, <2>1, HandshakesKeepConns, DialKeepsRecords, Zenon
<1>5. ASSUME NEW p \in Peers, NEW ok \in BOOLEAN, StatusProcessed(p, ok) PROVE SessionsInv'
  <2>1. UNCHANGED <<conn, session, boot, known, info>> /\ pending' \subseteq pending
    BY <1>5 DEF StatusProcessed
  <2> QED
    BY <2>1, ConnsFrame, RecordsFrame
<1>6. ASSUME NEW p \in Peers, NEW kind \in Kinds, NEW bad \in BOOLEAN, HandlePacket(p, kind, bad)
      PROVE  SessionsInv'
  <2>1. UNCHANGED <<conn, session, pending, boot, known, info>>
    BY <1>6, Zenon DEF HandlePacket
  <2> QED
    BY <2>1, ConnsFrame, RecordsFrame
<1>7. ASSUME NEW c \in Conns, NEW b \in BOOLEAN, Transition(c, b) \/ HandshakeFails(c, b)
      PROVE  SessionsInv'
  <2>1. c[1] \in Peers
    BY ConnOf
  <2>2. ConnsOK'
    BY <1>7, <2>1, HandshakesKeepConns, Zenon
  <2>3. CASE Transition(c, b)
    <3>1. UNCHANGED <<boot, known, info>>
      BY <2>3, Zenon DEF Transition
    <3> QED
      BY <2>2, <3>1, RecordsFrame
  <2>4. CASE HandshakeFails(c, b)
    BY <2>2, <2>4, HandshakesKeepRecords
  <2> QED
    BY <1>7, <2>3, <2>4
<1>8. ASSUME NEW c \in Conns, NEW hello, StartPeerSession(c, hello) PROVE SessionsInv'
  BY <1>8, StartKeepsConns, StartKeepsRecords
<1>9. ASSUME NEW c \in Conns, LateTimeout(c) PROVE SessionsInv'
  <2>1. c[1] \in Peers /\ TRUE \in BOOLEAN
    BY ConnOf
  <2> QED
    BY <1>9, <2>1, SessionsKeepConns, HandshakesKeepRecords, Zenon
<1>10. ASSUME NEW c \in Conns, OnConnect(c) PROVE SessionsInv'
  <2>1. UNCHANGED <<boot, known, info>>
    BY <1>10, Zenon DEF OnConnect
  <2> QED
    BY <1>10, <2>1, OnConnectKeepsConns, RecordsFrame
<1>11. ASSUME NEW c \in Conns, NEW class \in Classes,
              ReadFails(c) \/ Kicked(c, class) \/ RemoteDrops(c, class)
       PROVE  SessionsInv'
  <2>1. PICK k \in Classes : drop(c, k)
    BY <1>11 DEF ReadFails, Kicked, RemoteDrops, Classes
  <2> QED
    BY <2>1, DropKeepsConns, DropKeepsRecords
<1>12. ASSUME NEW c \in Conns, PeerTooSlow(c) PROVE SessionsInv'
  <2>1. UNCHANGED <<conn, session, pending, boot, known, info>>
    BY <1>12, Zenon DEF PeerTooSlow, capVars
  <2> QED
    BY <2>1, ConnsFrame, RecordsFrame
<1>13. ASSUME NEW c \in Conns, NEW kind, NEW l, NEW e, ReadPacket(c, kind, l, e) PROVE SessionsInv'
  <2>1. UNCHANGED <<boot, known, info>> /\ c[1] \in Peers
    BY <1>13, ConnOf, Zenon DEF ReadPacket
  <2> QED
    BY <1>13, <2>1, SessionsKeepConns, RecordsFrame, Zenon
<1>14. CASE OthersChange
  <2>1. UNCHANGED <<conn, session, pending, boot, known, info>>
    BY <1>14, Zenon DEF OthersChange, hostVars, capVars
  <2> QED
    BY <2>1, ConnsFrame, RecordsFrame
<1>15. ASSUME NEW saved \in SUBSET known, Restart(saved) PROVE SessionsInv'
  BY <1>15, RestartKeepsConns, RestartKeepsRecords
<1>16. "Slow" \in Classes /\ "Critical" \in Classes /\ "Fine" \in Classes /\ "Quick" \in Classes
  BY DEF Classes
<1> HIDE DEF SessionsInv
<1> QED
  BY <1>1, <1>2, <1>3, <1>4, <1>5, <1>6, <1>7, <1>8, <1>9, <1>10, <1>11, <1>12, <1>13, <1>14, <1>15, <1>16
  DEF Next

\* SessionsInv is inductive: no interleaving of the host's strand, the sockets' strands,
\* the packet threads and restarts leads out of it.
THEOREM SessionsInvariant == Spec => []SessionsInv
<1>1. Init => SessionsInv
  <2> SUFFICES ASSUME Init PROVE SessionsInv
    OBVIOUS
  <2>1. conn = [c \in Conns |-> Closed] /\ session = [p \in Peers |-> NoConn] /\ pending = {}
    BY DEF Init
  <2>2. ConnsOK
    BY <2>1, NewConns DEF ConnsOK, InSession
  <2>3. \A t \in {"Required", "Optional"} : NewPeer(t) \in Infos /\ NewPeer(t).type = t
    BY ConstantsAssumption DEF NewPeer, Infos, Classes
  <2>4. RecordsOK
    BY <2>3 DEF Init, RecordsOK, BootNodesKept
  <2> QED
    BY <2>2, <2>4 DEF SessionsInv
<1>2. SessionsInv /\ [Next]_vars => SessionsInv'
  <2> SUFFICES ASSUME SessionsInv, [Next]_vars PROVE SessionsInv'
    OBVIOUS
  <2>1. CASE Next
    BY <2>1, NextKeeps
  <2>2. CASE UNCHANGED vars
    <3>1. UNCHANGED <<conn, session, pending, boot, known, info>>
      BY <2>2, Zenon DEF vars, hostVars, capVars
    <3> QED
      BY <3>1, ConnsFrame, RecordsFrame DEF SessionsInv
  <2> QED
    BY <2>1, <2>2
<1> QED
  BY <1>1, <1>2, PTL DEF Spec

\* A peer never has two sessions with open sockets, and it waits for its initial status
\* only while a session of it has called onConnect and not yet onDisconnect.
THEOREM SessionsAgreeHolds == Spec => []SessionsAgree
<1>1. SessionsInv => SessionsAgree
  <2> SUFFICES ASSUME SessionsInv PROVE SessionsAgree
    OBVIOUS
  <2>1. ConnsOK
    BY DEF SessionsInv
  <2>2. ASSUME NEW p \in Peers PROVE Cardinality({c \in SessionsOf(p) : conn[c].open}) <= 1
    <3> DEFINE T == {c \in SessionsOf(p) : conn[c].open}
    <3>1. T \subseteq {session[p]}
      BY <2>1 DEF ConnsOK, SessionsOf, InSession
    <3> HIDE DEF T
    <3>2. IsFiniteSet({session[p]}) /\ Cardinality({session[p]}) = 1
      BY FS_Singleton, Zenon
    <3>3. Cardinality(T) <= Cardinality({session[p]})
      BY <3>1, <3>2, FS_Subset
    <3>4. Cardinality(T) <= 1
      BY <3>2, <3>3
    <3> QED
      BY <3>4 DEF T
  <2>3. PendingHaveSession
    BY <2>1 DEF ConnsOK, PendingHaveSession, SessionsOf
  <2> QED
    BY <2>2, <2>3 DEF SessionsAgree, AtMostOneSession
<1> QED
  BY <1>1, SessionsInvariant, PTL

\* A boot node stays in m_peers as a Required peer, through useless disconnects, dropped
\* node table entries and restarts.
THEOREM BootNodesKeptHolds == Spec => []BootNodesKept
<1>1. SessionsInv => BootNodesKept
  BY DEF SessionsInv, RecordsOK
<1> QED
  BY <1>1, SessionsInvariant, PTL
=============================================================================
