--------------------------- MODULE PbftSyncProofs ---------------------------
(***************************************************************************)
(* What PbftSync guarantees for any peers, chains, limits and number of    *)
(* disconnects, from the inductive invariant and the lemmas on the queue   *)
(* and on one peer of PbftSyncInvariant: here every outcome of a handler   *)
(* and every action keeps the part of SyncInv about the peers.             *)
(***************************************************************************)
EXTENDS PbftSyncInvariant

\* The time the SMT solver is given for a step that names no prover.
USE SMTT(60)

-----------------------------------------------------------------------------
(* The outcomes of the handlers, in a state in which out is on the way     *)
(* from the peers and s is what they remember.                             *)

OutcomeOK(c, out, s) ==
  /\ DOMAIN c = {"sync", "known", "dag", "inbox", "snapshots", "completes", "live"}
  /\ c.known \in [Peers -> Nat] /\ c.dag \in [Peers -> DagStates]
  /\ c.inbox \in [Peers -> Seq(Requests)] /\ c.live \subseteq Peers
  /\ \A p \in Peers : PeerOK(c.known[p], c.dag[p], c.inbox[p], out[p], s[p], size[p])

LEMMA CurrentOK ==
  ASSUME PeersInv
  PROVE  OutcomeOK(Current, packets, served)
<1>1. /\ DOMAIN Current = {"sync", "known", "dag", "inbox", "snapshots", "completes", "live"}
      /\ Current.known = known /\ Current.dag = dag /\ Current.inbox = inbox
      /\ Current.live \subseteq Peers
  BY Zenon DEF Current
<1> QED
  BY <1>1, Zenon DEF OutcomeOK, PeersInv

\* Only one peer's part of the outcome changes.
LEMMA OutcomeAt ==
  ASSUME NEW c, NEW d, NEW out, NEW s, OutcomeOK(c, out, s), NEW p \in Peers,
         DOMAIN d = DOMAIN c, d.live \subseteq Peers,
         d.known \in [Peers -> Nat], d.dag \in [Peers -> DagStates],
         d.inbox \in [Peers -> Seq(Requests)],
         \A q \in Peers \ {p} : /\ d.known[q] = c.known[q] /\ d.dag[q] = c.dag[q]
                                /\ d.inbox[q] = c.inbox[q],
         PeerOK(d.known[p], d.dag[p], d.inbox[p], out[p], s[p], size[p])
  PROVE  OutcomeOK(d, out, s)
<1>1. \A q \in Peers : PeerOK(d.known[q], d.dag[q], d.inbox[q], out[q], s[q], size[q])
  <2> SUFFICES ASSUME NEW q \in Peers, q # p
               PROVE  PeerOK(d.known[q], d.dag[q], d.inbox[q], out[q], s[q], size[q])
    BY Zenon
  <2>1. /\ d.known[q] = c.known[q] /\ d.dag[q] = c.dag[q] /\ d.inbox[q] = c.inbox[q]
    BY Zenon
  <2>2. PeerOK(c.known[q], c.dag[q], c.inbox[q], out[q], s[q], size[q])
    BY Zenon DEF OutcomeOK
  <2> QED
    BY <2>1, <2>2, Zenon
<1> QED
  BY <1>1, Zenon DEF OutcomeOK

\* What is neither known of a peer nor asked of it does not matter.
LEMMA OutcomePlain ==
  ASSUME NEW c, NEW out, NEW s, OutcomeOK(c, out, s), NEW x
  PROVE  /\ OutcomeOK([c EXCEPT !.sync = x], out, s)
         /\ OutcomeOK([c EXCEPT !.snapshots = x], out, s)
         /\ OutcomeOK([c EXCEPT !.completes = x], out, s)
<1>1. OutcomeOK([c EXCEPT !.sync = x], out, s)
  <2> DEFINE d == [c EXCEPT !.sync = x]
  <2>1. /\ DOMAIN d = DOMAIN c /\ d.known = c.known /\ d.dag = c.dag /\ d.inbox = c.inbox
        /\ d.live = c.live
    BY Zenon DEF OutcomeOK
  <2> HIDE DEF d
  <2>2. OutcomeOK(d, out, s)
    BY <2>1, Zenon DEF OutcomeOK
  <2> QED
    BY <2>2, Zenon DEF d
<1>2. OutcomeOK([c EXCEPT !.snapshots = x], out, s)
  <2> DEFINE d == [c EXCEPT !.snapshots = x]
  <2>1. /\ DOMAIN d = DOMAIN c /\ d.known = c.known /\ d.dag = c.dag /\ d.inbox = c.inbox
        /\ d.live = c.live
    BY Zenon DEF OutcomeOK
  <2> HIDE DEF d
  <2>2. OutcomeOK(d, out, s)
    BY <2>1, Zenon DEF OutcomeOK
  <2> QED
    BY <2>2, Zenon DEF d
<1>3. OutcomeOK([c EXCEPT !.completes = x], out, s)
  <2> DEFINE d == [c EXCEPT !.completes = x]
  <2>1. /\ DOMAIN d = DOMAIN c /\ d.known = c.known /\ d.dag = c.dag /\ d.inbox = c.inbox
        /\ d.live = c.live
    BY Zenon DEF OutcomeOK
  <2> HIDE DEF d
  <2>2. OutcomeOK(d, out, s)
    BY <2>1, Zenon DEF OutcomeOK
  <2> QED
    BY <2>2, Zenon DEF d
<1> QED
  BY <1>1, <1>2, <1>3, Zenon

LEMMA SyncPeerOK ==
  ASSUME NEW c, NEW out, NEW s, OutcomeOK(c, out, s), NEW period \in Nat \ {0}
  PROVE  OutcomeOK(syncPeerPbft(c, period), out, s)
<1>1. CASE c.sync.peer # NoPeer /\ period <= c.known[c.sync.peer] /\ c.sync.peer \in c.live
  <2> DEFINE p == c.sync.peer
             r == [type |-> "GetPbftSync", period |-> period]
             d == [c EXCEPT !.inbox[p] = Append(@, r)]
  <2>1. p \in Peers
    BY <1>1, Zenon DEF OutcomeOK
  <2>2. PeerOK(c.known[p], c.dag[p], Append(c.inbox[p], r), out[p], s[p], size[p])
    <3>1. PeerOK(c.known[p], c.dag[p], c.inbox[p], out[p], s[p], size[p])
      BY <2>1, Zenon DEF OutcomeOK
    <3> HIDE DEF p
    <3> QED
      BY <1>1, <3>1, PeerAsked, Zenon DEF p
  <2> HIDE DEF p, r
  <2>3. /\ DOMAIN d = DOMAIN c /\ d.known = c.known /\ d.dag = c.dag /\ d.live = c.live
        /\ d.inbox = [c.inbox EXCEPT ![p] = Append(c.inbox[p], r)]
    BY Zenon DEF OutcomeOK
  <2> HIDE DEF d
  <2>4. Append(c.inbox[p], r) \in Seq(Requests)
    BY <2>2, Zenon DEF PeerOK
  <2>5. /\ d.inbox \in [Peers -> Seq(Requests)] /\ d.inbox[p] = Append(c.inbox[p], r)
        /\ \A q \in Peers \ {p} : d.inbox[q] = c.inbox[q]
    BY <2>1, <2>3, <2>4 DEF OutcomeOK
  <2>6. d.known \in [Peers -> Nat] /\ d.dag \in [Peers -> DagStates] /\ d.live \subseteq Peers
    BY <2>3, Zenon DEF OutcomeOK
  <2>7. PeerOK(d.known[p], d.dag[p], d.inbox[p], out[p], s[p], size[p])
    BY <2>2, <2>3, <2>5, Zenon
  <2>8. \A q \in Peers \ {p} : /\ d.known[q] = c.known[q] /\ d.dag[q] = c.dag[q]
                               /\ d.inbox[q] = c.inbox[q]
    BY <2>3, <2>5, Zenon
  <2>9. OutcomeOK(d, out, s)
    BY <2>1, <2>3, <2>5, <2>6, <2>7, <2>8, OutcomeAt, Zenon
  <2> QED
    BY <1>1, <2>9, Zenon DEF syncPeerPbft, d, p, r
<1>2. CASE ~(c.sync.peer # NoPeer /\ period <= c.known[c.sync.peer] /\ c.sync.peer \in c.live)
  BY <1>2, OutcomePlain, Zenon DEF syncPeerPbft
<1> QED
  BY <1>1, <1>2, Zenon

LEMMA ForgottenOK ==
  ASSUME NEW c, NEW out, NEW s, OutcomeOK(c, out, s), NEW p \in Peers
  PROVE  OutcomeOK([c EXCEPT !.dag[p] = IF @ = "expired" THEN "none" ELSE @], out, s)
<1> DEFINE g == IF c.dag[p] = "expired" THEN "none" ELSE c.dag[p]
           d == [c EXCEPT !.dag[p] = IF @ = "expired" THEN "none" ELSE @]
<1>1. PeerOK(c.known[p], g, c.inbox[p], out[p], s[p], size[p]) /\ g \in DagStates
  <2>1. PeerOK(c.known[p], c.dag[p], c.inbox[p], out[p], s[p], size[p])
    BY Zenon DEF OutcomeOK
  <2>2. CASE c.dag[p] = "expired"
    BY <2>1, <2>2, PeerForgets, Zenon DEF DagStates
  <2>3. CASE c.dag[p] # "expired"
    BY <2>1, <2>3, Zenon DEF PeerOK
  <2> QED
    BY <2>2, <2>3, Zenon
<1>2. /\ DOMAIN d = DOMAIN c /\ d.known = c.known /\ d.inbox = c.inbox /\ d.live = c.live
      /\ d.dag = [c.dag EXCEPT ![p] = g]
  BY Zenon DEF OutcomeOK
<1> HIDE DEF d, g
<1>3. /\ d.dag \in [Peers -> DagStates] /\ d.dag[p] = g
      /\ \A q \in Peers \ {p} : d.dag[q] = c.dag[q]
  BY <1>1, <1>2, Zenon DEF OutcomeOK
<1>4. d.known \in [Peers -> Nat] /\ d.inbox \in [Peers -> Seq(Requests)] /\ d.live \subseteq Peers
  BY <1>2, Zenon DEF OutcomeOK
<1>5. OutcomeOK(d, out, s)
  BY <1>1, <1>2, <1>3, <1>4, OutcomeAt, Zenon
<1> QED
  BY <1>5, Zenon DEF d

LEMMA RequestDagOK ==
  ASSUME NEW c, NEW out, NEW s, OutcomeOK(c, out, s), NEW p \in Peers, chain \in Nat
  PROVE  OutcomeOK(requestDagBlocks(c, p), out, s)
<1>1. CASE p \in DagPeers /\ c.dag[p] = "none" /\ pbftSyncingPeriod = c.known[p]
  <2> DEFINE r == [type |-> "GetDagSync", period |-> chain]
             d == [c EXCEPT !.dag[p] = "syncing", !.inbox[p] = Append(@, r)]
  <2>1. PeerOK(c.known[p], "syncing", Append(c.inbox[p], r), out[p], s[p], size[p])
    <3>1. PeerOK(c.known[p], "none", c.inbox[p], out[p], s[p], size[p])
      BY <1>1, Zenon DEF OutcomeOK
    <3> QED
      BY <3>1, PeerAskedForDag, Zenon
  <2> HIDE DEF r
  <2>2. /\ DOMAIN d = DOMAIN c /\ d.known = c.known /\ d.live = c.live
        /\ d.dag = [c.dag EXCEPT ![p] = "syncing"]
        /\ d.inbox = [c.inbox EXCEPT ![p] = Append(c.inbox[p], r)]
    BY Zenon DEF OutcomeOK
  <2> HIDE DEF d
  <2>3. Append(c.inbox[p], r) \in Seq(Requests)
    BY <2>1, Zenon DEF PeerOK
  <2>4. /\ d.inbox \in [Peers -> Seq(Requests)] /\ d.inbox[p] = Append(c.inbox[p], r)
        /\ \A q \in Peers \ {p} : d.inbox[q] = c.inbox[q]
    BY <2>2, <2>3 DEF OutcomeOK
  <2>5. /\ d.dag \in [Peers -> DagStates] /\ d.dag[p] = "syncing"
        /\ \A q \in Peers \ {p} : d.dag[q] = c.dag[q]
    BY <2>2 DEF OutcomeOK, DagStates
  <2>6. d.known \in [Peers -> Nat] /\ d.live \subseteq Peers
    BY <2>2, Zenon DEF OutcomeOK
  <2>7. PeerOK(d.known[p], d.dag[p], d.inbox[p], out[p], s[p], size[p])
    BY <2>1, <2>2, <2>4, <2>5, Zenon
  <2>8. \A q \in Peers \ {p} : /\ d.known[q] = c.known[q] /\ d.dag[q] = c.dag[q]
                               /\ d.inbox[q] = c.inbox[q]
    BY <2>2, <2>4, <2>5, Zenon
  <2>9. OutcomeOK(d, out, s)
    BY <2>2, <2>4, <2>5, <2>6, <2>7, <2>8, OutcomeAt, Zenon
  <2> QED
    BY <1>1, <2>9, Zenon DEF requestDagBlocks, d, r
<1>2. CASE ~(p \in DagPeers /\ c.dag[p] = "none" /\ pbftSyncingPeriod = c.known[p])
  BY <1>2, Zenon DEF requestDagBlocks
<1> QED
  BY <1>1, <1>2, Zenon

\* What the node knows of a peer is at most what the peer has.
LEMMA KnownOK ==
  ASSUME NEW c, NEW out, NEW s, OutcomeOK(c, out, s), NEW p \in Peers,
         NEW m \in Nat, m <= size[p]
  PROVE  OutcomeOK([c EXCEPT !.known[p] = m], out, s)
<1> DEFINE d == [c EXCEPT !.known[p] = m]
<1>1. PeerOK(m, c.dag[p], c.inbox[p], out[p], s[p], size[p])
  <2>1. PeerOK(c.known[p], c.dag[p], c.inbox[p], out[p], s[p], size[p])
    BY Zenon DEF OutcomeOK
  <2> QED
    BY <2>1, PeerRaised, Zenon
<1>2. /\ DOMAIN d = DOMAIN c /\ d.dag = c.dag /\ d.inbox = c.inbox /\ d.live = c.live
      /\ d.known = [c.known EXCEPT ![p] = m]
  BY Zenon DEF OutcomeOK
<1> HIDE DEF d
<1>3. /\ d.known \in [Peers -> Nat] /\ d.known[p] = m
      /\ \A q \in Peers \ {p} : d.known[q] = c.known[q]
  BY <1>2, Zenon DEF OutcomeOK
<1>4. d.dag \in [Peers -> DagStates] /\ d.inbox \in [Peers -> Seq(Requests)] /\ d.live \subseteq Peers
  BY <1>2, Zenon DEF OutcomeOK
<1>5. PeerOK(d.known[p], d.dag[p], d.inbox[p], out[p], s[p], size[p])
  BY <1>1, <1>2, <1>3, Zenon
<1>6. \A q \in Peers \ {p} : /\ d.known[q] = c.known[q] /\ d.dag[q] = c.dag[q]
                             /\ d.inbox[q] = c.inbox[q]
  BY <1>2, <1>3, Zenon
<1>7. OutcomeOK(d, out, s)
  BY <1>2, <1>3, <1>4, <1>5, <1>6, OutcomeAt, Zenon
<1> QED
  BY <1>7, Zenon DEF d

LEMMA StartWithOK ==
  ASSUME NEW c, NEW out, NEW s, OutcomeOK(c, out, s), NEW p \in Peers, QueueTypes
  PROVE  OutcomeOK(StartWith(c, p), out, s)
<1> DEFINE x == SyncingWith(p, c.known[p])
           e == [c EXCEPT !.sync = x]
           started == [c EXCEPT !.sync = x, !.dag[p] = IF @ = "expired" THEN "none" ELSE @]
           asked == syncPeerPbft(started, pbftSyncingPeriod + 1)
<1>1. OutcomeOK(e, out, s)
  BY OutcomePlain, Zenon
<1>2. OutcomeOK([e EXCEPT !.dag[p] = IF @ = "expired" THEN "none" ELSE @], out, s)
  <2> HIDE DEF e
  <2> QED
    BY <1>1, ForgottenOK, Zenon
<1>3. started = [e EXCEPT !.dag[p] = IF @ = "expired" THEN "none" ELSE @]
  <2> HIDE DEF x
  <2> QED
    BY Zenon DEF OutcomeOK
<1>4. pbftSyncingPeriod + 1 \in Nat \ {0}
  BY SyncingPeriod DEF QueueTypes
<1>5. OutcomeOK(asked, out, s)
  <2> HIDE DEF started, e
  <2> QED
    BY <1>2, <1>3, <1>4, SyncPeerOK, Zenon
<1> DEFINE y == IF asked.sync.deep THEN FALSE ELSE asked.snapshots
<1>6. OutcomeOK([asked EXCEPT !.snapshots = y], out, s)
  <2> HIDE DEF asked, y
  <2> QED
    BY <1>5, OutcomePlain, Zenon
<1>7. StartWith(c, p) = [asked EXCEPT !.snapshots = y]
  BY Zenon DEF StartWith
<1> QED
  BY <1>6, <1>7, Zenon

LEMMA StartSyncingOK ==
  ASSUME NEW c0, NEW out, NEW s, OutcomeOK(c0, out, s), QueueTypes,
         NEW d \in startSyncingPbft(c0)
  PROVE  OutcomeOK(d, out, s)
<1> DEFINE c == [c0 EXCEPT !.sync = Refreshed(@)]
           longest == getMaxChainPeers(c, c.live)
<1>1. OutcomeOK(c, out, s)
  BY OutcomePlain, Zenon
<1>2. d \in IF c.sync.on \/ longest = {} THEN {c}
           ELSE {IF c.known[p] > pbftSyncingPeriod
                 THEN StartWith(c, p) ELSE [c EXCEPT !.snapshots = TRUE] : p \in longest}
  BY Zenon DEF startSyncingPbft
<1>3. longest \subseteq c.live /\ c.live \subseteq Peers
  <2> HIDE DEF c
  <2> QED
    BY <1>1, Zenon DEF getMaxChainPeers, OutcomeOK
<1> HIDE DEF c, longest
<1>4. \/ d = c
      \/ \E p \in longest : d = StartWith(c, p) \/ d = [c EXCEPT !.snapshots = TRUE]
  BY <1>2, Zenon
<1>5. ASSUME NEW p \in longest PROVE OutcomeOK(StartWith(c, p), out, s)
  <2>1. p \in Peers
    BY <1>3, Zenon
  <2> QED
    BY <1>1, <2>1, StartWithOK, Zenon
<1>6. OutcomeOK([c EXCEPT !.snapshots = TRUE], out, s)
  BY <1>1, OutcomePlain, Zenon
<1> QED
  BY <1>1, <1>4, <1>5, <1>6, Zenon

LEMMA RequestPendingOK ==
  ASSUME NEW c, NEW out, NEW s, OutcomeOK(c, out, s), chain \in Nat,
         NEW d \in requestPendingDagBlocks(c)
  PROVE  OutcomeOK(d, out, s)
<1> DEFINE longest == getMaxChainPeers(c, {p \in c.live : c.dag[p] \in {"none", "syncing"}})
<1>1. longest \subseteq Peers
  BY Zenon DEF getMaxChainPeers, OutcomeOK
<1>2. d = c \/ \E p \in longest : d = requestDagBlocks(c, p)
  BY Zenon DEF requestPendingDagBlocks
<1> HIDE DEF longest
<1>3. ASSUME NEW p \in longest PROVE OutcomeOK(requestDagBlocks(c, p), out, s)
  <2>1. p \in Peers
    BY <1>1, Zenon
  <2> QED
    BY <2>1, RequestDagOK, Zenon
<1> QED
  BY <1>2, <1>3, Zenon

LEMMA SyncCompleteOK ==
  ASSUME NEW c, NEW out, NEW s, OutcomeOK(c, out, s), QueueTypes,
         NEW d \in pbftSyncComplete(c)
  PROVE  OutcomeOK(d, out, s)
<1> DEFINE c1 == [c EXCEPT !.sync = NotSyncing]
<1>1. \/ d = [c EXCEPT !.completes = c.completes + 1]
      \/ \E e \in startSyncingPbft(c1) : d = e \/ d \in requestPendingDagBlocks(e)
  <2>1. CASE QueueSize > 0
    BY <2>1, Zenon DEF pbftSyncComplete
  <2>2. CASE ~(QueueSize > 0)
    <3>1. d \in UNION {IF e.sync.on THEN {e} ELSE requestPendingDagBlocks(e) : e \in startSyncingPbft(c1)}
      BY <2>2, Zenon DEF pbftSyncComplete
    <3> HIDE DEF c1
    <3>2. PICK S \in {IF e.sync.on THEN {e} ELSE requestPendingDagBlocks(e) : e \in startSyncingPbft(c1)} :
                 d \in S
      BY <3>1, Zenon
    <3>3. PICK e \in startSyncingPbft(c1) : S = IF e.sync.on THEN {e} ELSE requestPendingDagBlocks(e)
      BY <3>2, Zenon
    <3>4. d = e \/ d \in requestPendingDagBlocks(e)
      BY <3>2, <3>3, Zenon
    <3> QED
      BY <3>4, Zenon DEF c1
  <2> QED
    BY <2>1, <2>2, Zenon
<1>2. OutcomeOK([c EXCEPT !.completes = c.completes + 1], out, s)
  BY OutcomePlain, Zenon
<1>3. OutcomeOK(c1, out, s)
  BY OutcomePlain, Zenon
<1> HIDE DEF c1
<1>4. ASSUME NEW e \in startSyncingPbft(c1), d = e \/ d \in requestPendingDagBlocks(e)
      PROVE  OutcomeOK(d, out, s)
  <2>1. OutcomeOK(e, out, s)
    BY <1>3, StartSyncingOK, Zenon
  <2>2. chain \in Nat
    BY Zenon DEF QueueTypes
  <2> QED
    BY <1>4, <2>1, <2>2, RequestPendingOK, Zenon
<1> QED
  BY <1>1, <1>2, <1>4, Zenon

-----------------------------------------------------------------------------
(* The peers, action by action.                                            *)

LEMMA BecomesKeeps ==
  ASSUME NEW c, OutcomeOK(c, packets', served'), Becomes(c), UNCHANGED size,
         size \in [Peers -> Nat \ {0}], packets' \in [Peers -> Seq(Answers)],
         served' \in [Peers -> BOOLEAN], DOMAIN link' = Peers
  PROVE  PeersInv'
<1>1. known' = c.known /\ dag' = c.dag /\ inbox' = c.inbox /\ size' = size
  BY Zenon DEF Becomes
<1>2. /\ c.known \in [Peers -> Nat] /\ c.dag \in [Peers -> DagStates]
      /\ c.inbox \in [Peers -> Seq(Requests)]
      /\ \A p \in Peers : PeerOK(c.known[p], c.dag[p], c.inbox[p], packets'[p], served'[p], size[p])
  BY Zenon DEF OutcomeOK
<1> QED
  BY <1>1, <1>2, Zenon DEF PeersInv

LEMMA PeersFrame ==
  ASSUME PeersInv, UNCHANGED <<size, inbox, packets, known, dag, served>>, DOMAIN link' = Peers
  PROVE  PeersInv'
BY Zenon DEF PeersInv

\* A packet is taken from the link with a peer.
LEMMA PacketTaken ==
  ASSUME PeersInv, NEW p \in Peers, packets[p] # <<>>,
         packets' = [packets EXCEPT ![p] = Tail(packets[p])], UNCHANGED served
  PROVE  /\ packets' \in [Peers -> Seq(Answers)] /\ served' \in [Peers -> BOOLEAN]
         /\ OutcomeOK(Current, packets', served')
<1>1. PeerOK(known[p], dag[p], inbox[p], packets[p], served[p], size[p])
  BY Zenon DEF PeersInv
<1>2. PeerOK(known[p], dag[p], inbox[p], Tail(packets[p]), served[p], size[p])
  BY <1>1, AnswerTaken, Zenon
<1>3. Tail(packets[p]) \in Seq(Answers)
  BY <1>2, Zenon DEF PeerOK
<1>4. /\ packets' \in [Peers -> Seq(Answers)] /\ served' \in [Peers -> BOOLEAN] /\ served' = served
      /\ packets'[p] = Tail(packets[p]) /\ \A q \in Peers \ {p} : packets'[q] = packets[q]
  BY <1>3, Zenon DEF PeersInv
<1>5. \A q \in Peers : PeerOK(known[q], dag[q], inbox[q], packets'[q], served'[q], size[q])
  BY <1>2, <1>4, Zenon DEF PeersInv
<1>6. /\ DOMAIN Current = {"sync", "known", "dag", "inbox", "snapshots", "completes", "live"}
      /\ Current.known = known /\ Current.dag = dag /\ Current.inbox = inbox
      /\ Current.live \subseteq Peers
  BY Zenon DEF Current
<1>7. OutcomeOK(Current, packets', served')
  BY <1>5, <1>6, Zenon DEF OutcomeOK, PeersInv
<1> QED
  BY <1>4, <1>7, Zenon

\* The current state, when no packet and no mark of a peer changes.
LEMMA CurrentKept ==
  ASSUME PeersInv, UNCHANGED <<packets, served>>
  PROVE  /\ packets' \in [Peers -> Seq(Answers)] /\ served' \in [Peers -> BOOLEAN]
         /\ OutcomeOK(Current, packets', served')
BY CurrentOK, Zenon DEF PeersInv

LEMMA SessionKeepsPeers ==
  ASSUME PeersInv, NEW p \in Peers, onConnect(p) \/ ForgetMalicious(p) \/ InitialStatus(p)
  PROVE  PeersInv'
<1>1. CASE onConnect(p) \/ ForgetMalicious(p)
  <2>1. UNCHANGED <<size, inbox, packets, known, dag, served>>
    BY <1>1, Zenon DEF onConnect, ForgetMalicious, peerSide
  <2>2. DOMAIN link' = Peers
    BY <1>1, Zenon DEF onConnect, ForgetMalicious, PeersInv
  <2> QED
    BY <2>1, <2>2, PeersFrame, Zenon
<1>2. CASE InitialStatus(p)
  <2>1. UNCHANGED <<size, inbox, packets, dag, served>> /\ known' = [known EXCEPT ![p] = size[p]]
    BY <1>2, Zenon DEF InitialStatus, peerSide
  <2>2. DOMAIN link' = Peers
    BY <1>2, Zenon DEF InitialStatus, PeersInv
  <2>3. PeerOK(size[p], dag[p], inbox[p], packets[p], served[p], size[p]) /\ size[p] \in Nat
    <3>1. PeerOK(known[p], dag[p], inbox[p], packets[p], served[p], size[p]) /\ size[p] \in Nat
      BY Zenon DEF PeersInv
    <3>2. size[p] <= size[p]
      BY <3>1
    <3> QED
      BY <3>1, <3>2, PeerRaised, Zenon
  <2>4. /\ known' \in [Peers -> Nat] /\ known'[p] = size[p]
        /\ \A q \in Peers \ {p} : known'[q] = known[q]
    BY <2>1, <2>3, Zenon DEF PeersInv
  <2>5. \A q \in Peers : PeerOK(known'[q], dag[q], inbox[q], packets[q], served[q], size[q])
    BY <2>3, <2>4, Zenon DEF PeersInv
  <2> QED
    BY <2>1, <2>2, <2>4, <2>5, Zenon DEF PeersInv
<1> QED
  BY <1>1, <1>2, Zenon

LEMMA StatusKeepsPeers ==
  ASSUME PeersInv, QueueTypes, NEW p \in Peers, StandardStatus(p)
  PROVE  PeersInv'
<1> DEFINE e == [Current EXCEPT !.sync = Refreshed(@)]
           c == [Current EXCEPT !.sync = Refreshed(@), !.known[p] = size[p]]
<1>1. UNCHANGED <<size, packets, served, link>>
  BY Zenon DEF StandardStatus, peerSide
<1>2. /\ packets' \in [Peers -> Seq(Answers)] /\ served' \in [Peers -> BOOLEAN]
      /\ OutcomeOK(Current, packets', served')
  BY <1>1, CurrentKept, Zenon
<1>3. size[p] \in Nat /\ size \in [Peers -> Nat \ {0}] /\ DOMAIN link' = Peers
  BY <1>1, Zenon DEF PeersInv
<1>4. OutcomeOK(e, packets', served')
  BY <1>2, OutcomePlain, Zenon
<1>5. OutcomeOK([e EXCEPT !.known[p] = size[p]], packets', served')
  <2> HIDE DEF e
  <2> QED
    BY <1>3, <1>4, KnownOK
<1>6. c = [e EXCEPT !.known[p] = size[p]]
  BY <1>2, Zenon DEF OutcomeOK
<1>7. OutcomeOK(c, packets', served')
  <2> HIDE DEF c, e
  <2> QED
    BY <1>5, <1>6, Zenon
<1>8. PICK d \in StatusOutcomes(p, size[p]) : Becomes(d)
  BY Zenon DEF StandardStatus
<1>9. d \in startSyncingPbft(c) \/ d = requestDagBlocks(c, p) \/ d = c
  <2> HIDE DEF e
  <2>1. d \in CASE ~c.sync.on /\ pbftSyncingPeriod < size[p] ->
                    IF pbftSyncingPeriod + 1 < size[p] \/ lastStatus[p] = size[p]
                    THEN startSyncingPbft(c) ELSE {c}
               [] ~c.sync.on /\ pbftSyncingPeriod = size[p] -> {requestDagBlocks(c, p)}
               [] OTHER -> {c}
    BY <1>8, Zenon DEF StatusOutcomes
  <2> HIDE DEF c
  <2> QED
    BY <2>1, Zenon
<1>10. OutcomeOK(d, packets', served')
  <2> HIDE DEF c
  <2>1. chain \in Nat
    BY Zenon DEF QueueTypes
  <2>2. CASE d \in startSyncingPbft(c)
    BY <1>7, <2>2, StartSyncingOK, Zenon
  <2>3. CASE d = requestDagBlocks(c, p)
    BY <1>7, <2>1, <2>3, RequestDagOK, Zenon
  <2> QED
    BY <1>7, <1>9, <2>2, <2>3, Zenon
<1> QED
  BY <1>1, <1>2, <1>3, <1>8, <1>10, BecomesKeeps, Zenon

LEMMA DisconnectKeepsPeers ==
  ASSUME PeersInv, QueueTypes, NEW p \in Peers, onDisconnect(p)
  PROVE  PeersInv'
<1> DEFINE c == [Current EXCEPT !.sync = Refreshed(@), !.inbox[p] = <<>>, !.live = @ \ {p},
                                !.known[p] = 1, !.dag[p] = "none"]
           c1 == [c EXCEPT !.sync = NotSyncing]
<1>1. /\ UNCHANGED size /\ link' = [link EXCEPT ![p] = "none"]
      /\ packets' = [packets EXCEPT ![p] = <<>>] /\ served' = [served EXCEPT ![p] = FALSE]
      /\ \E d \in IF c.sync.on /\ c.sync.peer = p THEN startSyncingPbft(c1) ELSE {c} : Becomes(d)
  BY Zenon DEF onDisconnect
<1>2. /\ DOMAIN c = {"sync", "known", "dag", "inbox", "snapshots", "completes", "live"}
      /\ c.known = [known EXCEPT ![p] = 1] /\ c.dag = [dag EXCEPT ![p] = "none"]
      /\ c.inbox = [inbox EXCEPT ![p] = <<>>] /\ c.live \subseteq Peers
  BY Zenon DEF Current
<1> HIDE DEF c
<1>3. /\ size \in [Peers -> Nat \ {0}] /\ DOMAIN link' = Peers
      /\ packets' \in [Peers -> Seq(Answers)] /\ served' \in [Peers -> BOOLEAN]
  BY <1>1 DEF PeersInv
<1>4. /\ c.known \in [Peers -> Nat] /\ c.dag \in [Peers -> DagStates]
      /\ c.inbox \in [Peers -> Seq(Requests)]
  BY <1>2 DEF PeersInv, DagStates
<1>5. ASSUME NEW q \in Peers
      PROVE  PeerOK(c.known[q], c.dag[q], c.inbox[q], packets'[q], served'[q], size[q])
  <2>1. CASE q = p
    <3>1. /\ c.known[q] = 1 /\ c.dag[q] = "none" /\ c.inbox[q] = <<>>
          /\ packets'[q] = <<>> /\ served'[q] = FALSE /\ size[q] \in Nat \ {0}
      BY <1>1, <1>2, <2>1, Zenon DEF PeersInv
    <3> QED
      BY <3>1, PeerFresh, Zenon
  <2>2. CASE q # p
    <3>1. /\ c.known[q] = known[q] /\ c.dag[q] = dag[q] /\ c.inbox[q] = inbox[q]
          /\ packets'[q] = packets[q] /\ served'[q] = served[q]
      BY <1>1, <1>2, <2>2, Zenon DEF PeersInv
    <3>2. PeerOK(known[q], dag[q], inbox[q], packets[q], served[q], size[q])
      BY Zenon DEF PeersInv
    <3> QED
      BY <3>1, <3>2, Zenon
  <2> QED
    BY <2>1, <2>2, Zenon
<1>6. OutcomeOK(c, packets', served')
  BY <1>2, <1>4, <1>5, Zenon DEF OutcomeOK
<1>7. OutcomeOK(c1, packets', served')
  BY <1>6, OutcomePlain, Zenon
<1> HIDE DEF c1
<1>8. PICK d : Becomes(d) /\ (d = c \/ d \in startSyncingPbft(c1))
  BY <1>1, Zenon
<1>9. OutcomeOK(d, packets', served')
  BY <1>6, <1>7, <1>8, StartSyncingOK, Zenon
<1> QED
  BY <1>1, <1>3, <1>8, <1>9, BecomesKeeps, Zenon

LEMMA PeerPushKeepsPeers ==
  ASSUME PeersInv, NEW p \in Peers, PeerPush(p)
  PROVE  PeersInv'
<1>1. /\ UNCHANGED <<inbox, packets, known, dag, served, link>>
      /\ size' = [size EXCEPT ![p] = size[p] + 1]
  BY Zenon DEF PeerPush, peers
<1>2. /\ size' \in [Peers -> Nat \ {0}] /\ size'[p] = size[p] + 1
      /\ \A q \in Peers \ {p} : size'[q] = size[q]
  BY <1>1 DEF PeersInv
<1>3. PeerOK(known[p], dag[p], inbox[p], packets[p], served[p], size[p] + 1)
  <2>1. PeerOK(known[p], dag[p], inbox[p], packets[p], served[p], size[p])
    BY Zenon DEF PeersInv
  <2> QED
    BY <2>1, PeerGrows, Zenon
<1>4. \A q \in Peers : PeerOK(known[q], dag[q], inbox[q], packets[q], served[q], size'[q])
  BY <1>2, <1>3, Zenon DEF PeersInv
<1> QED
  BY <1>1, <1>2, <1>4, Zenon DEF PeersInv

LEMMA ServeKeepsPeers ==
  ASSUME PeersInv, NEW p \in Peers, Serve(p)
  PROVE  PeersInv'
<1> DEFINE request == Head(inbox[p])
           more == Served(p, request)
           t == served[p] \/ request = [type |-> "GetDagSync", period |-> size[p]]
<1>1. /\ UNCHANGED <<size, known, dag, link>> /\ inbox[p] # <<>>
      /\ inbox' = [inbox EXCEPT ![p] = Tail(inbox[p])]
      /\ packets' = [packets EXCEPT ![p] = packets[p] \o more]
      /\ served' = [served EXCEPT ![p] = t]
  BY Zenon DEF Serve, peers
<1>2. PeerOK(known[p], dag[p], inbox[p], packets[p], served[p], size[p]) /\ size[p] \in Nat
  BY Zenon DEF PeersInv
<1>3. /\ PeerOK(known[p], dag[p], Tail(inbox[p]), packets[p], served[p], size[p])
      /\ request \in Requests
      /\ request.type = "GetPbftSync" => request.period <= size[p]
      /\ request.type = "GetDagSync" =>
           /\ DagRequests(Tail(inbox[p])) = {} /\ DagReplies(packets[p]) = {}
           /\ dag[p] = "syncing" /\ ~served[p]
  <2> DEFINE k == known[p]
             d == dag[p]
             in == inbox[p]
             out == packets[p]
             s == served[p]
             z == size[p]
  <2>1. PeerOK(k, d, in, out, s, z) /\ in # <<>>
    BY <1>1, <1>2, Zenon
  <2>2. /\ PeerOK(k, d, Tail(in), out, s, z) /\ Head(in) \in Requests
        /\ Head(in).type = "GetPbftSync" => Head(in).period <= z
        /\ Head(in).type = "GetDagSync" =>
             DagRequests(Tail(in)) = {} /\ DagReplies(out) = {} /\ d = "syncing" /\ ~s
    <3> HIDE DEF k, d, in, out, s, z
    <3> QED
      BY <2>1, RequestTaken, Zenon
  <2> QED
    BY <2>2, Zenon
<1> HIDE DEF request
<1>4. PeerOK(known[p], dag[p], Tail(inbox[p]), packets[p] \o more, t, size[p])
  <2>1. CASE request.type = "GetPbftSync"
    <3>1. request.period \in Nat \ {0} /\ request.period <= size[p]
      BY <1>3, <2>1, Zenon DEF Requests
    <3>2. more = SyncPackets(p, request.period)
      BY <2>1, Zenon DEF Served
    <3>3. more \in Seq(PbftAnswers) /\ \A i \in DOMAIN more : more[i].period <= size[p]
      BY <1>2, <3>1, <3>2, ServesBlocks, Zenon
    <3>4. t = served[p]
      <4>1. request # [type |-> "GetDagSync", period |-> size[p]]
        BY <2>1
      <4>2. served[p] \in BOOLEAN
        BY Zenon DEF PeersInv
      <4> QED
        BY <4>1, <4>2, Zenon
    <3> HIDE DEF more, t
    <3> QED
      BY <1>3, <3>3, <3>4, PeerSendsBlocks, Zenon
  <2>2. CASE request.type = "GetDagSync"
    <3>1. request.period \in Nat
      BY <1>3, <2>2, Zenon DEF Requests
    <3>2. more = <<[type |-> "DagSync", request |-> request.period, response |-> size[p]]>>
      BY <2>2, Zenon DEF Served
    <3>3. t \in BOOLEAN /\ (t => request.period = size[p])
      <4>1. ~served[p]
        BY <1>3, <2>2, Zenon
      <4>2. request = [type |-> "GetDagSync", period |-> size[p]] => request.period = size[p]
        OBVIOUS
      <4> QED
        BY <4>1, <4>2, Zenon
    <3> HIDE DEF t
    <3>4. PeerOK(known[p], "syncing", Tail(inbox[p]), packets[p], served[p], size[p]) /\ ~served[p]
      BY <1>3, <2>2, Zenon
    <3>5. DagRequests(Tail(inbox[p])) = {} /\ DagReplies(packets[p]) = {} /\ dag[p] = "syncing"
      BY <1>3, <2>2, Zenon
    <3>6. PeerOK(known[p], "syncing", Tail(inbox[p]),
                 packets[p] \o <<[type |-> "DagSync", request |-> request.period, response |-> size[p]]>>,
                 t, size[p])
      <4> DEFINE k == known[p]
                 in == Tail(inbox[p])
                 out == packets[p]
                 s == served[p]
                 z == size[p]
                 period == request.period
      <4>1. PeerOK(k, "syncing", in, out, s, z) /\ ~s
        BY <3>4, Zenon
      <4>2. DagRequests(in) = {} /\ DagReplies(out) = {}
        BY <3>5, Zenon
      <4>3. period \in Nat /\ t \in BOOLEAN /\ (t => period = z)
        BY <3>1, <3>3, Zenon
      <4> HIDE DEF k, in, out, s, z, period
      <4>4. PeerOK(k, "syncing", in,
                   out \o <<[type |-> "DagSync", request |-> period, response |-> z]>>, t, z)
        BY <4>1, <4>2, <4>3, PeerSendsDag
      <4> QED
        BY <4>4, Zenon DEF k, in, out, z, period
    <3> HIDE DEF more
    <3> QED
      BY <3>2, <3>5, <3>6, Zenon
  <2> QED
    BY <1>3, <2>1, <2>2, Zenon DEF Requests
<1> HIDE DEF more, t
<1>5. Tail(inbox[p]) \in Seq(Requests) /\ packets[p] \o more \in Seq(Answers) /\ t \in BOOLEAN
  BY <1>4, Zenon DEF PeerOK
<1>6. /\ inbox' \in [Peers -> Seq(Requests)] /\ inbox'[p] = Tail(inbox[p])
      /\ \A q \in Peers \ {p} : inbox'[q] = inbox[q]
  BY <1>1, <1>5, Zenon DEF PeersInv
<1>7. /\ packets' \in [Peers -> Seq(Answers)] /\ packets'[p] = packets[p] \o more
      /\ \A q \in Peers \ {p} : packets'[q] = packets[q]
  BY <1>1, <1>5, Zenon DEF PeersInv
<1>8. /\ served' \in [Peers -> BOOLEAN] /\ served'[p] = t
      /\ \A q \in Peers \ {p} : served'[q] = served[q]
  BY <1>1, <1>5, Zenon DEF PeersInv
<1>9. ASSUME NEW q \in Peers
      PROVE  PeerOK(known[q], dag[q], inbox'[q], packets'[q], served'[q], size[q])
  <2>1. CASE q = p
    BY <1>4, <1>6, <1>7, <1>8, <2>1, Zenon
  <2>2. CASE q # p
    <3>1. inbox'[q] = inbox[q] /\ packets'[q] = packets[q] /\ served'[q] = served[q]
      BY <1>6, <1>7, <1>8, <2>2, Zenon
    <3>2. PeerOK(known[q], dag[q], inbox[q], packets[q], served[q], size[q])
      BY Zenon DEF PeersInv
    <3> QED
      BY <3>1, <3>2, Zenon
  <2> QED
    BY <2>1, <2>2, Zenon
<1> QED
  BY <1>1, <1>6, <1>7, <1>8, <1>9, Zenon DEF PeersInv

LEMMA ReceiveKeepsPeers ==
  ASSUME PeersInv, QueueTypes, NEW p \in Peers, ReceivePbftSync(p)
  PROVE  PeersInv'
<1> DEFINE packet == Head(packets[p])
           m == IF sync.peer = p /\ InPeers(p) THEN Max({Current.known[p], packet.period})
                                              ELSE Current.known[p]
           c == [Current EXCEPT !.known[p] = m]
<1>1. /\ UNCHANGED <<size, served, link>> /\ packets[p] # <<>> /\ packet.type = "PbftSync"
      /\ packets' = [packets EXCEPT ![p] = Tail(packets[p])]
  BY Zenon DEF ReceivePbftSync, peerSide
<1>2. PICK d : Becomes(d) /\ (d = c \/ d \in pbftSyncComplete(c))
  BY Zenon DEF ReceivePbftSync
<1>3. /\ packets' \in [Peers -> Seq(Answers)] /\ served' \in [Peers -> BOOLEAN]
      /\ OutcomeOK(Current, packets', served')
  BY <1>1, PacketTaken, Zenon
<1>4. size \in [Peers -> Nat \ {0}] /\ DOMAIN link' = Peers
  BY <1>1, Zenon DEF PeersInv
<1>5. m \in Nat /\ m <= size[p]
  <2>1. known[p] \in Nat /\ known[p] <= size[p] /\ Current.known = known
    BY Zenon DEF PeersInv, PeerOK, WithinChain, Current
  <2>2. packets[p] \in Seq(Answers) /\ WithinChain(known[p], inbox[p], packets[p], size[p])
    BY Zenon DEF PeersInv, PeerOK
  <2>3. packet = packets[p][1] /\ 1 \in DOMAIN packets[p] /\ packet \in Answers
    BY <1>1, <2>2, TailIndices, Zenon
  <2>4. packet.period \in Nat /\ packet.period <= size[p]
    BY <1>1, <2>2, <2>3, Zenon DEF WithinChain, Answers, PbftAnswers, DagAnswers
  <2>5. Max({known[p], packet.period}) \in {known[p], packet.period}
    <3> HIDE DEF packet
    <3> QED
      BY <2>1, <2>4, MaxOfTwo, Zenon
  <2> QED
    BY <2>1, <2>4, <2>5, Zenon
<1> HIDE DEF m
<1>6. OutcomeOK(c, packets', served')
  BY <1>3, <1>5, KnownOK, Zenon
<1> HIDE DEF c
<1>7. OutcomeOK(d, packets', served')
  BY <1>2, <1>6, SyncCompleteOK, Zenon
<1> QED
  BY <1>1, <1>2, <1>3, <1>4, <1>7, BecomesKeeps, Zenon

LEMMA AfterPacketKeepsPeers ==
  ASSUME PeersInv, QueueTypes, AfterPacket
  PROVE  PeersInv'
<1> DEFINE c == [Current EXCEPT !.sync.active = TRUE]
           x == [Current.sync EXCEPT !.active = TRUE]
<1>1. UNCHANGED <<size, packets, served, link>>
  BY Zenon DEF AfterPacket, peerSide
<1>2. /\ packets' \in [Peers -> Seq(Answers)] /\ served' \in [Peers -> BOOLEAN]
      /\ OutcomeOK(Current, packets', served')
  BY <1>1, CurrentKept, Zenon
<1>3. size \in [Peers -> Nat \ {0}] /\ DOMAIN link' = Peers
  BY <1>1, Zenon DEF PeersInv
<1>4. OutcomeOK(c, packets', served')
  <2>1. OutcomeOK([Current EXCEPT !.sync = x], packets', served')
    <3> HIDE DEF x
    <3> QED
      BY <1>2, OutcomePlain, Zenon
  <2>2. c = [Current EXCEPT !.sync = x]
    BY Zenon
  <2> QED
    BY <2>1, <2>2, Zenon
<1>5. PICK d : /\ Becomes(d)
               /\ \/ d \in pbftSyncComplete(c) \/ d = [c EXCEPT !.sync = NotSyncing]
                  \/ d = syncPeerPbft(c, pbftSyncingPeriod + 1) \/ d = c
  <2>1. CASE Packet.votes
    BY <2>1, Zenon DEF AfterPacket
  <2>2. CASE ~Packet.votes
    <3> DEFINE continues == Packet.last /\ pbftSyncingPeriod <= Packet.period /\ c.sync.on
               e == CASE Packet.last /\ pbftSyncingPeriod > Packet.period -> [c EXCEPT !.sync = NotSyncing]
                      [] continues /\ ~TooFarAhead -> syncPeerPbft(c, pbftSyncingPeriod + 1)
                      [] OTHER -> c
    <3>1. Becomes(e)
      BY <2>2, Zenon DEF AfterPacket
    <3>2. \/ e = [c EXCEPT !.sync = NotSyncing] \/ e = c
          \/ e = syncPeerPbft(c, pbftSyncingPeriod + 1)
      <4> HIDE DEF c, continues
      <4> QED
        OBVIOUS
    <3> HIDE DEF e
    <3> QED
      BY <3>1, <3>2, Zenon
  <2> QED
    BY <2>1, <2>2, Zenon
<1> HIDE DEF c
<1>6. OutcomeOK([c EXCEPT !.sync = NotSyncing], packets', served')
  BY <1>4, OutcomePlain, Zenon
<1>7. OutcomeOK(syncPeerPbft(c, pbftSyncingPeriod + 1), packets', served')
  <2>1. pbftSyncingPeriod + 1 \in Nat \ {0}
    BY SyncingPeriod DEF QueueTypes
  <2> QED
    BY <1>4, <2>1, SyncPeerOK, Zenon
<1>8. OutcomeOK(d, packets', served')
  <2>1. CASE d \in pbftSyncComplete(c)
    BY <1>4, <2>1, SyncCompleteOK, Zenon
  <2> QED
    BY <1>4, <1>5, <1>6, <1>7, <2>1, Zenon
<1> QED
  BY <1>1, <1>2, <1>3, <1>5, <1>8, BecomesKeeps, Zenon

\* The state of the DAG sync with a peer is replaced by one that fits.
LEMMA DagStateOK ==
  ASSUME NEW c, NEW out, NEW s, OutcomeOK(c, out, s), NEW p \in Peers, NEW g \in DagStates,
         PeerOK(c.known[p], g, c.inbox[p], out[p], s[p], size[p])
  PROVE  OutcomeOK([c EXCEPT !.dag[p] = g], out, s)
<1> DEFINE d == [c EXCEPT !.dag[p] = g]
<1>1. /\ DOMAIN d = DOMAIN c /\ d.known = c.known /\ d.inbox = c.inbox /\ d.live = c.live
      /\ d.dag = [c.dag EXCEPT ![p] = g]
  BY Zenon DEF OutcomeOK
<1> HIDE DEF d
<1>2. /\ d.dag \in [Peers -> DagStates] /\ d.dag[p] = g
      /\ \A q \in Peers \ {p} : d.dag[q] = c.dag[q]
  BY <1>1, Zenon DEF OutcomeOK
<1>3. d.known \in [Peers -> Nat] /\ d.inbox \in [Peers -> Seq(Requests)] /\ d.live \subseteq Peers
  BY <1>1, Zenon DEF OutcomeOK
<1>4. PeerOK(d.known[p], d.dag[p], d.inbox[p], out[p], s[p], size[p])
  BY <1>1, <1>2, Zenon
<1>5. \A q \in Peers \ {p} : /\ d.known[q] = c.known[q] /\ d.dag[q] = c.dag[q]
                             /\ d.inbox[q] = c.inbox[q]
  BY <1>1, <1>2, Zenon
<1>6. OutcomeOK(d, out, s)
  BY <1>1, <1>2, <1>3, <1>4, <1>5, OutcomeAt, Zenon
<1> QED
  BY <1>6, Zenon DEF d

LEMMA DagSyncKeepsPeers ==
  ASSUME PeersInv, QueueTypes, NEW p \in Peers, ReceiveDagSync(p)
  PROVE  PeersInv'
<1> DEFINE packet == Head(packets[p])
           m == Max({known[p], packet.response})
           raised == [Current EXCEPT !.known[p] = Max({@, packet.response}), !.dag[p] = "none"]
           synced == [Current EXCEPT !.dag[p] = "synced"]
<1>1. /\ UNCHANGED <<size, served>> /\ packets[p] # <<>> /\ packet.type = "DagSync"
      /\ packets' = [packets EXCEPT ![p] = Tail(packets[p])]
  BY Zenon DEF ReceiveDagSync, peerSide
<1>2. DOMAIN link' = Peers
  BY Zenon DEF ReceiveDagSync, Blame, PeersInv
<1>3. /\ packets' \in [Peers -> Seq(Answers)] /\ served' \in [Peers -> BOOLEAN]
      /\ OutcomeOK(Current, packets', served')
  BY <1>1, PacketTaken, Zenon
<1>4. size \in [Peers -> Nat \ {0}] /\ packets'[p] = Tail(packets[p]) /\ served'[p] = served[p]
  BY <1>1, Zenon DEF PeersInv
<1>5. PICK d \in DagSyncOutcomes(p, packet) \cup {Current} : Becomes(d)
  BY Zenon DEF ReceiveDagSync
<1>6. /\ PeerOK(known[p], dag[p], inbox[p], Tail(packets[p]), served[p], size[p])
      /\ DagReplies(Tail(packets[p])) = {} /\ DagRequests(inbox[p]) = {}
      /\ served[p] => packet.response = packet.request
  <2> DEFINE k == known[p]
             g == dag[p]
             in == inbox[p]
             out == packets[p]
             s == served[p]
             z == size[p]
  <2>1. PeerOK(k, g, in, out, s, z) /\ out # <<>> /\ Head(out).type = "DagSync"
    BY <1>1, Zenon DEF PeersInv
  <2>2. /\ PeerOK(k, g, in, Tail(out), s, z)
        /\ DagReplies(Tail(out)) = {} /\ DagRequests(in) = {}
        /\ s => Head(out).response = Head(out).request
    <3> HIDE DEF k, g, in, out, s, z
    <3>1. /\ PeerOK(k, g, in, Tail(out), s, z)
          /\ Head(out).type = "DagSync" =>
               /\ DagReplies(Tail(out)) = {} /\ DagRequests(in) = {}
               /\ g = "syncing" /\ (s => Head(out).response = Head(out).request)
      BY <2>1, AnswerTaken, ZenonT(60)
    <3> QED
      BY <2>1, <3>1, Zenon
  <2> QED
    BY <2>2, Zenon
<1>7. /\ packet \in DagAnswers /\ packet.response \in Nat /\ packet.request \in Nat
      /\ packet.response <= size[p] /\ m \in Nat /\ m <= size[p]
  <2>1. known[p] \in Nat /\ known[p] <= size[p] /\ size[p] \in Nat
    BY Zenon DEF PeersInv, PeerOK, WithinChain
  <2>2. packets[p] \in Seq(Answers) /\ WithinChain(known[p], inbox[p], packets[p], size[p])
    BY Zenon DEF PeersInv, PeerOK
  <2>3. packet = packets[p][1] /\ 1 \in DOMAIN packets[p] /\ packet \in Answers
    BY <1>1, <2>2, TailIndices, Zenon
  <2>4. packet \in DagAnswers /\ packet.response <= size[p]
    BY <1>1, <2>2, <2>3, Zenon DEF WithinChain, Answers, PbftAnswers
  <2> HIDE DEF packet
  <2>5. packet.response \in Nat /\ packet.request \in Nat
    BY <2>4, Zenon DEF DagAnswers
  <2>6. m = IF known[p] >= packet.response THEN known[p] ELSE packet.response
    BY <2>1, <2>5, MaxOfTwo, Zenon
  <2> QED
    BY <2>1, <2>4, <2>5, <2>6, Zenon
<1> HIDE DEF packet
<1>8. /\ Current.known[p] = known[p] /\ Current.inbox[p] = inbox[p]
      /\ DOMAIN Current = {"sync", "known", "dag", "inbox", "snapshots", "completes", "live"}
  BY Zenon DEF Current
<1>9. OutcomeOK(synced, packets', served')
  <2>1. PeerOK(known[p], "synced", inbox[p], Tail(packets[p]), served[p], size[p])
    BY <1>6, DagAnswered, Zenon
  <2>2. PeerOK(Current.known[p], "synced", Current.inbox[p], packets'[p], served'[p], size[p])
    BY <1>4, <1>8, <2>1, Zenon
  <2>3. "synced" \in DagStates
    BY Zenon DEF DagStates
  <2> QED
    BY <1>3, <2>2, <2>3, DagStateOK, Zenon
<1>10. ASSUME packet.response > packet.request PROVE OutcomeOK(raised, packets', served')
  <2> DEFINE e == [Current EXCEPT !.known[p] = m]
  <2>1. OutcomeOK(e, packets', served')
    <3> HIDE DEF m
    <3> QED
      BY <1>3, <1>7, KnownOK, Zenon
  <2>2. ~served[p]
    BY <1>6, <1>7, <1>10
  <2>3. PeerOK(m, "none", inbox[p], Tail(packets[p]), served[p], size[p])
    <3>1. PeerOK(known[p], "none", inbox[p], Tail(packets[p]), served[p], size[p])
      BY <1>6, <2>2, DagAnswered, Zenon
    <3> HIDE DEF m
    <3> QED
      BY <1>7, <3>1, PeerRaised, Zenon
  <2>4. e.known[p] = m /\ e.inbox[p] = inbox[p]
    <3> HIDE DEF m
    <3>1. Current.known \in [Peers -> Nat]
      BY <1>3, Zenon DEF OutcomeOK
    <3> QED
      BY <1>8, <3>1, Zenon
  <2>5. raised = [e EXCEPT !.dag[p] = "none"]
    <3>1. m = Max({Current.known[p], packet.response})
      BY <1>8, Zenon
    <3> HIDE DEF m
    <3> QED
      BY <1>8, <3>1, Zenon
  <2> HIDE DEF e, m, raised
  <2>6. PeerOK(e.known[p], "none", e.inbox[p], packets'[p], served'[p], size[p])
    BY <1>4, <2>3, <2>4, Zenon
  <2>7. "none" \in DagStates
    BY Zenon DEF DagStates
  <2>8. OutcomeOK([e EXCEPT !.dag[p] = "none"], packets', served')
    BY <2>1, <2>6, <2>7, DagStateOK, Zenon
  <2> QED
    BY <2>5, <2>8, Zenon
<1>11. \/ d = Current \/ d = synced
       \/ packet.response > packet.request /\ d \in startSyncingPbft(raised)
  <2>1. \/ d = Current
        \/ d \in CASE sync.deep \/ ~InPeers(p) \/ packet.response < packet.request -> {Current}
                 [] ~sync.deep /\ InPeers(p) /\ packet.response > packet.request -> startSyncingPbft(raised)
                 [] OTHER -> {synced}
    BY <1>5, Zenon DEF DagSyncOutcomes
  <2> HIDE DEF raised, synced
  <2> QED
    BY <2>1, Zenon
<1> HIDE DEF raised, synced
<1>12. OutcomeOK(d, packets', served')
  <2>1. CASE packet.response > packet.request /\ d \in startSyncingPbft(raised)
    BY <1>10, <2>1, StartSyncingOK, Zenon
  <2> QED
    BY <1>3, <1>9, <1>11, <2>1, Zenon
<1> QED
  BY <1>1, <1>2, <1>3, <1>4, <1>5, <1>12, BecomesKeeps, Zenon

LEMMA DagBlockKeepsPeers ==
  ASSUME PeersInv, QueueTypes, NEW p \in Peers, ReceiveDagBlock(p)
  PROVE  PeersInv'
<1> DEFINE c == [Current EXCEPT !.dag[p] = IF @ = "expired" THEN "none" ELSE @]
<1>1. UNCHANGED <<size, packets, served>>
  BY Zenon DEF ReceiveDagBlock, peerSide
<1>2. DOMAIN link' = Peers
  BY Zenon DEF ReceiveDagBlock, PeersInv
<1>3. /\ packets' \in [Peers -> Seq(Answers)] /\ served' \in [Peers -> BOOLEAN]
      /\ OutcomeOK(Current, packets', served')
  BY <1>1, CurrentKept, Zenon
<1>4. size \in [Peers -> Nat \ {0}]
  BY Zenon DEF PeersInv
<1>5. OutcomeOK(c, packets', served')
  BY <1>3, ForgottenOK, Zenon
<1>6. PICK d : Becomes(d) /\ (d = requestDagBlocks(c, p) \/ d = Current)
  BY Zenon DEF ReceiveDagBlock
<1> HIDE DEF c
<1>7. OutcomeOK(requestDagBlocks(c, p), packets', served')
  <2>1. chain \in Nat
    BY Zenon DEF QueueTypes
  <2> QED
    BY <1>5, <2>1, RequestDagOK, Zenon
<1>8. OutcomeOK(d, packets', served')
  BY <1>3, <1>6, <1>7, Zenon
<1> QED
  BY <1>1, <1>2, <1>3, <1>4, <1>6, <1>8, BecomesKeeps, Zenon

LEMMA ExpiryKeepsPeers ==
  ASSUME PeersInv, NEW p \in Peers, DagSyncExpires(p)
  PROVE  PeersInv'
<1> DEFINE g == IF dag[p] = "synced" THEN "expired" ELSE dag[p]
<1>1. /\ UNCHANGED <<size, inbox, packets, known, link>>
      /\ served' = [served EXCEPT ![p] = FALSE] /\ dag' = [dag EXCEPT ![p] = g]
  BY Zenon DEF DagSyncExpires
<1>2. PeerOK(known[p], g, inbox[p], packets[p], FALSE, size[p])
  <2>1. PeerOK(known[p], dag[p], inbox[p], packets[p], served[p], size[p])
    BY Zenon DEF PeersInv
  <2> QED
    BY <2>1, ServedExpires, Zenon
<1> HIDE DEF g
<1>3. g \in DagStates
  BY <1>2, Zenon DEF PeerOK
<1>4. /\ dag' \in [Peers -> DagStates] /\ dag'[p] = g
      /\ \A q \in Peers \ {p} : dag'[q] = dag[q]
  BY <1>1, <1>3, Zenon DEF PeersInv
<1>5. /\ served' \in [Peers -> BOOLEAN] /\ served'[p] = FALSE
      /\ \A q \in Peers \ {p} : served'[q] = served[q]
  BY <1>1, Zenon DEF PeersInv
<1>6. ASSUME NEW q \in Peers PROVE PeerOK(known[q], dag'[q], inbox[q], packets[q], served'[q], size[q])
  <2>1. CASE q = p
    BY <1>2, <1>4, <1>5, <2>1, Zenon
  <2>2. CASE q # p
    <3>1. dag'[q] = dag[q] /\ served'[q] = served[q]
      BY <1>4, <1>5, <2>2, Zenon
    <3>2. PeerOK(known[q], dag[q], inbox[q], packets[q], served[q], size[q])
      BY Zenon DEF PeersInv
    <3> QED
      BY <3>1, <3>2, Zenon
  <2> QED
    BY <2>1, <2>2, Zenon
<1> QED
  BY <1>1, <1>4, <1>5, <1>6, Zenon DEF PeersInv

LEMMA TimerKeepsPeers ==
  ASSUME PeersInv, QueueTypes, RunSyncComplete \/ \E counter \in delayed : delayedPbftSync(counter)
  PROVE  PeersInv'
<1>1. UNCHANGED <<size, packets, served, link>>
  BY Zenon DEF RunSyncComplete, delayedPbftSync, peerSide
<1>2. /\ packets' \in [Peers -> Seq(Answers)] /\ served' \in [Peers -> BOOLEAN]
      /\ OutcomeOK(Current, packets', served')
  BY <1>1, CurrentKept, Zenon
<1>3. size \in [Peers -> Nat \ {0}] /\ DOMAIN link' = Peers
  BY <1>1, Zenon DEF PeersInv
<1>4. CASE RunSyncComplete
  <2> DEFINE c == [Current EXCEPT !.completes = @ - 1]
  <2>1. OutcomeOK(c, packets', served')
    BY <1>2, OutcomePlain, Zenon
  <2>2. PICK d \in pbftSyncComplete(c) : Becomes(d)
    BY <1>4, Zenon DEF RunSyncComplete
  <2> HIDE DEF c
  <2>3. OutcomeOK(d, packets', served')
    BY <2>1, <2>2, SyncCompleteOK, Zenon
  <2> QED
    BY <1>1, <1>2, <1>3, <2>2, <2>3, BecomesKeeps, Zenon
<1>5. ASSUME NEW counter \in delayed, delayedPbftSync(counter) PROVE PeersInv'
  <2> DEFINE c == [Current EXCEPT !.sync = IF counter > MaxDelays THEN NotSyncing ELSE Refreshed(@)]
  <2>1. OutcomeOK(c, packets', served')
    BY <1>2, OutcomePlain, Zenon
  <2>2. PICK d : Becomes(d) /\ (d = syncPeerPbft(c, pbftSyncingPeriod + 1) \/ d = c)
    BY <1>5, Zenon DEF delayedPbftSync
  <2> HIDE DEF c
  <2>3. pbftSyncingPeriod + 1 \in Nat \ {0}
    BY SyncingPeriod DEF QueueTypes
  <2>4. OutcomeOK(syncPeerPbft(c, pbftSyncingPeriod + 1), packets', served')
    BY <2>1, <2>3, SyncPeerOK, Zenon
  <2>5. OutcomeOK(d, packets', served')
    BY <2>1, <2>2, <2>4, Zenon
  <2> QED
    BY <1>1, <1>2, <1>3, <2>2, <2>5, BecomesKeeps, Zenon
<1> QED
  BY <1>4, <1>5, Zenon

\* A process that starts again has no session and no request.
LEMMA RestartKeepsPeers ==
  ASSUME PeersInv, Restarted, UNCHANGED size
  PROVE  PeersInv'
<1>1. /\ known' = [p \in Peers |-> 1] /\ dag' = [p \in Peers |-> "none"]
      /\ inbox' = [p \in Peers |-> <<>>] /\ packets' = [p \in Peers |-> <<>>]
      /\ served' = [p \in Peers |-> FALSE] /\ link' = [p \in Peers |-> "none"]
  BY Zenon DEF Restarted, Becomes, Current
<1>2. \A p \in Peers : PeerOK(known'[p], dag'[p], inbox'[p], packets'[p], served'[p], size'[p])
  BY <1>1, PeerFresh, Zenon DEF PeersInv
<1>3. size' \in [Peers -> Nat \ {0}]
  BY Zenon DEF PeersInv
<1>4. known' \in [Peers -> Nat] /\ dag' \in [Peers -> DagStates] /\ served' \in [Peers -> BOOLEAN]
  BY <1>1, Zenon DEF DagStates
<1>5. inbox' \in [Peers -> Seq(Requests)] /\ packets' \in [Peers -> Seq(Answers)]
  <2>1. <<>> \in Seq(Requests) /\ <<>> \in Seq(Answers)
    OBVIOUS
  <2> QED
    BY <1>1, <2>1, Zenon
<1>6. DOMAIN link' = Peers
  BY <1>1, Zenon
<1> QED
  BY <1>2, <1>3, <1>4, <1>5, <1>6, Zenon DEF PeersInv

\* The other steps leave what peers were asked and answered alone.
LEMMA OthersKeepPeers ==
  ASSUME PeersInv,
         \/ CheckData \/ PushPeriodData \/ Inactive \/ PushCertVotedBlock
         \/ StartDraining \/ PopBlock \/ ProcessPeriodData \/ ReadSyncing
  PROVE  PeersInv'
<1>1. UNCHANGED <<size, inbox, packets, known, dag, served>>
  BY Zenon DEF CheckData, PushPeriodData, Inactive, PushCertVotedBlock, StartDraining, PopBlock,
               ProcessPeriodData, ReadSyncing, peerSide, peers
<1>2. link' = link \/ \E p : link' = [link EXCEPT ![p] = IF @ = "none" THEN @ ELSE "closing"]
  BY Zenon DEF CheckData, PushPeriodData, Inactive, PushCertVotedBlock, StartDraining, PopBlock,
               ProcessPeriodData, ReadSyncing, peers, Blame
<1>3. DOMAIN link' = Peers
  BY <1>2, Zenon DEF PeersInv
<1> QED
  BY <1>1, <1>3, PeersFrame, Zenon

-----------------------------------------------------------------------------
(* The theorems.                                                           *)

LEMMA InitOK ==
  ASSUME Init
  PROVE  SyncInv
<1>1. /\ chain = 0 /\ queue = EmptyQueue /\ worker = Idle /\ pbft = Idle
      /\ known = [p \in Peers |-> 1] /\ dag = [p \in Peers |-> "none"] /\ size = FirstSize
      /\ inbox = [p \in Peers |-> <<>>] /\ packets = [p \in Peers |-> <<>>]
      /\ served = [p \in Peers |-> FALSE] /\ link = [p \in Peers |-> "none"]
  BY Zenon DEF Init
<1>2. QueueInv
  <2>1. /\ queue.blocks = <<>> /\ Len(queue.blocks) = 0
        /\ queue \in [blocks : Seq(Blocks), period : Nat, votes : BOOLEAN]
    BY <1>1 DEF EmptyQueue
  <2>2. worker.pc = "idle" /\ pbft \in [pc : {"idle", "draining", "pushed", "dereferencing"}]
    BY <1>1, Zenon DEF Idle
  <2>3. pbft.pc = "idle"
    BY <1>1, Zenon DEF Idle
  <2> QED
    BY <1>1, <2>1, <2>2, <2>3
    DEF QueueInv, QueueTypes, Contiguous, HeadFits, BlockFits, PacketIsNew, PreviousKnown,
        PacketFollows, Processing
<1>3. PeersInv
  <2>1. size \in [Peers -> Nat \ {0}]
    BY <1>1, SyncAssumption
  <2>2. \A p \in Peers : PeerOK(known[p], dag[p], inbox[p], packets[p], served[p], size[p])
    BY <1>1, <2>1, PeerFresh, Zenon
  <2>3. known \in [Peers -> Nat] /\ dag \in [Peers -> DagStates] /\ served \in [Peers -> BOOLEAN]
    BY <1>1, Zenon DEF DagStates
  <2>4. inbox \in [Peers -> Seq(Requests)] /\ packets \in [Peers -> Seq(Answers)]
    <3>1. <<>> \in Seq(Requests) /\ <<>> \in Seq(Answers)
      OBVIOUS
    <3> QED
      BY <1>1, <3>1, Zenon
  <2>5. DOMAIN link = Peers
    BY <1>1, Zenon
  <2> QED
    BY <2>1, <2>2, <2>3, <2>4, <2>5, Zenon DEF PeersInv
<1> QED
  BY <1>2, <1>3, Zenon DEF SyncInv

LEMMA NextKeeps ==
  ASSUME SyncInv, Next
  PROVE  SyncInv'
<1>1. QueueInv /\ PeersInv /\ QueueTypes
  BY Zenon DEF SyncInv, QueueInv
<1>2. ASSUME NEW p \in Peers, Sessions(p) \/ StandardStatus(p) \/ PeerPush(p) \/ Serve(p)
      PROVE  SyncInv'
  <2>1. UNCHANGED <<chain, queue, worker, pbft>>
    BY <1>2, Zenon DEF Sessions, onConnect, InitialStatus, onDisconnect, ForgetMalicious, StandardStatus,
                       PeerPush, Serve
  <2>2. QueueInv'
    BY <1>1, <2>1, QueueFrame, Zenon
  <2>3. PeersInv'
    BY <1>1, <1>2, SessionKeepsPeers, DisconnectKeepsPeers, StatusKeepsPeers, PeerPushKeepsPeers,
       ServeKeepsPeers, Zenon DEF Sessions
  <2> QED
    BY <2>2, <2>3, Zenon DEF SyncInv
<1>3. ASSUME NEW p \in Peers, ReceivePbftSync(p) PROVE SyncInv'
  <2>1. packets[p] \in Seq(Answers)
    BY <1>1, Zenon DEF PeersInv
  <2> QED
    BY <1>1, <1>3, <2>1, ReceiveKeepsQueue, ReceiveKeepsPeers, Zenon DEF SyncInv
<1>4. ASSUME NEW p \in Peers, ReceiveDagSync(p) \/ ReceiveDagBlock(p) \/ DagSyncExpires(p)
      PROVE  SyncInv'
  <2>1. UNCHANGED <<chain, queue, worker, pbft>>
    BY <1>4, Zenon DEF ReceiveDagSync, ReceiveDagBlock, DagSyncExpires
  <2>2. QueueInv'
    BY <1>1, <2>1, QueueFrame, Zenon
  <2>3. PeersInv'
    BY <1>1, <1>4, DagSyncKeepsPeers, DagBlockKeepsPeers, ExpiryKeepsPeers, Zenon
  <2> QED
    BY <2>2, <2>3, Zenon DEF SyncInv
<1>5. CASE CheckData \/ PushPeriodData
  BY <1>1, <1>5, CheckKeepsQueue, PushKeepsQueue, OthersKeepPeers, Zenon DEF SyncInv
<1>6. CASE AfterPacket
  <2>1. worker' = Idle /\ UNCHANGED <<chain, queue, pbft>>
    BY <1>6, Zenon DEF AfterPacket
  <2> QED
    BY <1>1, <1>6, <2>1, WorkerIdles, AfterPacketKeepsPeers, Zenon DEF SyncInv
<1>7. CASE RunSyncComplete \/ \E counter \in delayed : delayedPbftSync(counter)
  <2>1. UNCHANGED <<chain, queue, worker, pbft>>
    BY <1>7, Zenon DEF RunSyncComplete, delayedPbftSync
  <2>2. QueueInv'
    BY <1>1, <2>1, QueueFrame, Zenon
  <2>3. PeersInv'
    BY <1>1, <1>7, TimerKeepsPeers, Zenon
  <2> QED
    BY <2>2, <2>3, Zenon DEF SyncInv
<1>8. CASE Inactive
  <2>1. UNCHANGED <<chain, queue, worker, pbft>>
    BY <1>8, Zenon DEF Inactive
  <2> QED
    BY <1>1, <1>8, <2>1, QueueFrame, OthersKeepPeers, Zenon DEF SyncInv
<1>9. CASE PushCertVotedBlock \/ StartDraining \/ PopBlock \/ ProcessPeriodData \/ ReadSyncing
  <2>1. QueueInv'
    BY <1>1, <1>9, GossipKeepsQueue, DrainingKeepsQueue, PopKeepsQueue, ProcessKeepsQueue,
       StatePeriodKeepsQueue, Zenon
  <2>2. PeersInv'
    BY <1>1, <1>9, OthersKeepPeers, Zenon
  <2> QED
    BY <2>1, <2>2, Zenon DEF SyncInv
<1>10. CASE SetSyncStatePeriod
  <2>1. QueueInv'
    BY <1>1, <1>10, StatePeriodKeepsQueue, Zenon
  <2>2. UNCHANGED size /\ (Restarted \/ UNCHANGED <<inbox, packets, known, dag, served, link>>)
    BY <1>10, Zenon DEF SetSyncStatePeriod
  <2>3. PeersInv'
    <3>1. CASE Restarted
      BY <1>1, <2>2, <3>1, RestartKeepsPeers, Zenon
    <3>2. CASE UNCHANGED <<inbox, packets, known, dag, served, link>>
      BY <1>1, <2>2, <3>2, PeersFrame, Zenon DEF PeersInv
    <3> QED
      BY <2>2, <3>1, <3>2, Zenon
  <2> QED
    BY <2>1, <2>3, Zenon DEF SyncInv
<1> QED
  BY <1>2, <1>3, <1>4, <1>5, <1>6, <1>7, <1>8, <1>9, <1>10, Zenon DEF Next, WorkerStep, PbftThread

\* SyncInv is inductive: whatever the handlers, the timers, gossip, the PBFT thread and the
\* peers do in between, the queue follows the chain and requests fit their peers.
THEOREM SyncInvariant == Spec => []SyncInv
<1>1. Init => SyncInv
  BY InitOK, Zenon
<1>2. SyncInv /\ [Next]_vars => SyncInv'
  <2> SUFFICES ASSUME SyncInv, [Next]_vars PROVE SyncInv'
    BY Zenon
  <2>1. CASE Next
    BY <2>1, NextKeeps, Zenon
  <2>2. CASE UNCHANGED vars
    <3>1. /\ UNCHANGED <<chain, queue, worker, pbft>>
          /\ UNCHANGED <<size, inbox, packets, known, dag, served, link>>
      BY <2>2, Zenon DEF vars, peerSide, peers
    <3> QED
      BY <3>1, QueueFrame, PeersFrame, Zenon DEF SyncInv, PeersInv
  <2> QED
    BY <2>1, <2>2, Zenon
<1> QED
  BY <1>1, <1>2, PTL DEF Spec

\* The synced blocks are consecutive, and the one that pushSyncedPbftBlocksIntoChain takes
\* is in the chain or extends it with its certificate: processPeriodData never has a
\* reason to clear the queue of blocks that passed the checks of the packet handler.
THEOREM QueuedBlocksFitHolds == Spec => []QueuedBlocksFit
<1>1. SyncInv => QueuedBlocksFit
  <2> SUFFICES ASSUME SyncInv PROVE QueuedBlocksFit
    BY Zenon
  <2> DEFINE b == queue.blocks
             n == Len(b)
  <2>1. b \in Seq(Blocks) /\ n \in Nat /\ queue.period \in Nat
    <3>1. b \in Seq(Blocks) /\ queue.period \in Nat
      BY Zenon DEF SyncInv, QueueInv, QueueTypes
    <3> HIDE DEF b
    <3> QED
      BY <3>1
  <2>2. \A i \in 1..n : b[i].period = queue.period - n + i
    BY Zenon DEF SyncInv, QueueInv, Contiguous
  <2>3. \A i \in 1..n - 1 : b[i + 1].period = b[i].period + 1
    <3> HIDE DEF b, n
    <3> SUFFICES ASSUME NEW i \in 1..n - 1 PROVE b[i + 1].period = b[i].period + 1
      BY Zenon
    <3>1. i \in 1..n /\ i + 1 \in 1..n
      BY <2>1
    <3>2. b[i].period = queue.period - n + i /\ b[i + 1].period = queue.period - n + (i + 1)
      BY <2>2, <3>1, Zenon
    <3>3. queue.period - n + (i + 1) = (queue.period - n + i) + 1
      BY <2>1, <3>1
    <3> QED
      BY <3>2, <3>3, Zenon
  <2>4. b # <<>> => b[Len(b)].period = queue.period
    <3> HIDE DEF b
    <3> SUFFICES ASSUME b # <<>> PROVE b[n].period = queue.period
      BY Zenon
    <3>1. n \in 1..n
      BY <2>1
    <3> QED
      BY <2>1, <2>2, <3>1
  <2>5. pbft.pc = "processing" =>
          pbft.block.period <= chain \/ (pbft.block.period = chain + 1 /\ pbft.votes)
    BY Zenon DEF SyncInv, QueueInv, BlockFits, Processing
  <2> QED
    BY <2>3, <2>4, <2>5, Zenon DEF QueuedBlocksFit
<1> QED
  BY <1>1, SyncInvariant, PTL

\* GetPbftSyncPacketHandler and GetDagSyncPacketHandler of a peer never find a request for
\* which they would throw MaliciousPeerException.
THEOREM NeverBannedHolds == Spec => []NeverBanned
<1>1. SyncInv => NeverBanned
  <2> SUFFICES ASSUME SyncInv, NEW p \in Peers, inbox[p] # <<>>
               PROVE  IF Head(inbox[p]).type = "GetPbftSync" THEN Head(inbox[p]).period <= size[p]
                      ELSE ~served[p]
    BY Zenon DEF NeverBanned
  <2>1. PeerOK(known[p], dag[p], inbox[p], packets[p], served[p], size[p])
    BY Zenon DEF SyncInv, PeersInv
  <2>2. inbox[p] \in Seq(Requests)
    BY <2>1, Zenon DEF PeerOK
  <2>3. Head(inbox[p]) = inbox[p][1] /\ 1 \in DOMAIN inbox[p] /\ Head(inbox[p]) \in Requests
    BY <2>2, TailIndices, Zenon
  <2>4. CASE Head(inbox[p]).type = "GetPbftSync"
    BY <2>1, <2>3, <2>4, Zenon DEF PeerOK, WithinChain
  <2>5. CASE Head(inbox[p]).type = "GetDagSync"
    <3>1. 1 \in DagRequests(inbox[p])
      BY <2>3, <2>5, Zenon DEF DagRequests
    <3> QED
      BY <2>1, <2>5, <3>1, Zenon DEF PeerOK, OneDagSync
  <2>6. Head(inbox[p]).type \in {"GetPbftSync", "GetDagSync"}
    BY <2>3, Zenon DEF Requests
  <2> QED
    BY <2>4, <2>5, <2>6, Zenon
<1> QED
  BY <1>1, SyncInvariant, PTL
=============================================================================
