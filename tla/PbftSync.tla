------------------------------ MODULE PbftSync ------------------------------
(***************************************************************************)
(* One node catches up with its peers: the handlers of status, PBFT sync   *)
(* and DAG sync packets on the worker threads, the queue of synced blocks, *)
(* the PBFT thread that drains it or pushes a block certified by gossip,   *)
(* the timer thread, and sessions that come and go.                        *)
(*                                                                         *)
(* The network certified one block per period, so a block is its period,   *)
(* and its certificate, which the next block or the last packet of a peer  *)
(* carries, is right exactly when the periods fit.  A faulty peer may serve *)
(* packets that fail a check of the handler.  The handler of PBFT sync     *)
(* packets, of which one runs at a time, and the PBFT thread interleave;   *)
(* the other handlers are one step each.                                   *)
(***************************************************************************)
EXTENDS Naturals, Sequences, FiniteSetsExt

CONSTANTS
  Peers, Faulty,          \* the peers and those whose packets may fail a check
  DagPeers,               \* bound: the peers that are asked for DAG blocks
  NoPeer,                 \* nullptr
  FirstSize,              \* the chain size of every peer at the start
  SyncLevelSize,          \* config network.sync_level_size
  AheadLimit,             \* 10 * sync_level_size
  DeepSyncingThreshold,   \* config network.deep_syncing_threshold
  MaxDelays,              \* 60000 / kDelayedPbftSyncDelayMs
  MaxPeriod,              \* bound on the length of every chain
  MaxSlow,                \* bound on inactivity while an answer is on its way
  MaxDisconnects          \* bound on sessions that break by themselves

ASSUME SyncAssumption ==
  /\ Faulty \subseteq Peers /\ DagPeers \subseteq Peers /\ NoPeer \notin Peers
  /\ FirstSize \in [Peers -> 1..MaxPeriod]
  /\ SyncLevelSize \in Nat \ {0} /\ AheadLimit \in Nat /\ DeepSyncingThreshold \in Nat \ {0}
  /\ MaxDelays \in Nat /\ MaxPeriod \in Nat /\ MaxSlow \in Nat /\ MaxDisconnects \in Nat

VARIABLES
  size,       \* PBFT chain size of every peer
  inbox,      \* GetPbftSync and GetDagSync packets on their way to a peer
  packets,    \* PbftSync and DagSync packets on their way from a peer
  link,       \* "none", "pending" (pending_peers_), "ready" (peers_), "closing" (disconnect called)
  known,      \* TaraxaPeer::pbft_chain_size_
  lastStatus, \* TaraxaPeer::last_status_pbft_chain_size_
  dag,        \* peer_dag_syncing_ and peer_dag_synced_: "none", "syncing", "synced", "expired"
  served,     \* the peer's peer_requested_dag_syncing_, within kDagSyncingLimit
  malicious,  \* malicious_peers_
  sync,       \* PbftSyncingState
  snapshots,  \* DbStorage: snapshots are enabled
  chain,      \* own PBFT chain size, also the period of the reward votes
  queue,      \* PeriodDataQueue: queue_, period_ and whether last_block_cert_votes_ is there
  worker,     \* the worker that handles a PBFT sync packet
  pbft,       \* the PBFT thread
  completes,  \* posted calls of pbftSyncComplete
  delayed,    \* counters of the posted calls of delayedPbftSync
  slow, disconnects  \* how often the bounded events happened

peers == <<link, known, lastStatus, dag, malicious>>
peerSide == <<size, served>>
bounds == <<slow, disconnects>>
vars == <<peerSide, inbox, packets, peers, sync, snapshots, chain, queue, worker, pbft, completes,
          delayed, bounds>>

-----------------------------------------------------------------------------
(* PeriodDataQueue.                                                        *)

EmptyQueue == [blocks |-> <<>>, period |-> 0, votes |-> FALSE]

\* A block counts only when its certificate is there.
SizeOf(q) == IF q.votes \/ q.blocks = <<>> THEN Len(q.blocks) ELSE Len(q.blocks) - 1
QueueSize == SizeOf(queue)

Accepts(period) == ~ ( /\ period # Max({queue.period, chain}) + 1
                       /\ queue.blocks = <<>> /\ period # chain + 2 )

Pushed(block, votes) ==
  IF ~Accepts(block.period) THEN queue
  ELSE [blocks |-> Append(IF chain > queue.period THEN <<>> ELSE queue.blocks, block),
        period |-> block.period, votes |-> votes]

Popped ==
  IF Len(queue.blocks) > 1 THEN [queue EXCEPT !.blocks = Tail(@)] ELSE EmptyQueue

\* The certificate that goes with the first block fits it.
PoppedVotes ==
  IF Len(queue.blocks) > 1 THEN queue.blocks[2].period = queue.blocks[1].period + 1 ELSE queue.votes

\* The first block that cleanOldData does not pop; all behind it stay.
FirstKept(period) ==
  Min({i \in 1..Len(queue.blocks) : queue.blocks[i].period >= period} \cup {Len(queue.blocks) + 1})

\* mutant: the block of the current period goes too
CleanOldDataTooMuch == [queue EXCEPT !.blocks = SubSeq(@, FirstKept(chain + 2), Len(@))]

\* period_ and the votes stay.
CleanOldData == [queue EXCEPT !.blocks = SubSeq(@, FirstKept(chain + 1), Len(@))]

pbftSyncingPeriod == Max({queue.period, chain})

\* lastPbftBlockHashFromQueueOrChain
LastBlock ==
  IF queue.blocks # <<>> /\ queue.blocks[Len(queue.blocks)].period > chain
  THEN queue.blocks[Len(queue.blocks)].period ELSE chain

-----------------------------------------------------------------------------
(* PbftSyncingState.                                                       *)

NotSyncing == [on |-> FALSE, peer |-> NoPeer, deep |-> FALSE, active |-> TRUE]

\* The difference of the sizes is unsigned.
Deep(peerSize, period) == peerSize < period \/ peerSize - period >= DeepSyncingThreshold

SyncingWith(p, peerSize) ==
  [on |-> TRUE, peer |-> p, deep |-> Deep(peerSize, pbftSyncingPeriod), active |-> TRUE]

\* isPbftSyncing: a syncing that is not active is ended by asking for it.
Refreshed(s) == IF s.active THEN s ELSE NotSyncing

-----------------------------------------------------------------------------
(* Parts of the handlers: each is an operation on a record c of the        *)
(* variables that it changes.                                              *)

InPeers(p) == link[p] \in {"ready", "closing"}

Current == [sync |-> sync, known |-> known, dag |-> dag, inbox |-> inbox, snapshots |-> snapshots,
            completes |-> completes, live |-> {p \in Peers : InPeers(p)}]

Becomes(c) ==
  /\ sync' = c.sync /\ known' = c.known /\ dag' = c.dag /\ inbox' = c.inbox
  /\ snapshots' = c.snapshots /\ completes' = c.completes

getMaxChainPeers(c, candidates) ==
  {p \in candidates : \A q \in candidates : c.known[q] <= c.known[p]}

\* syncPeerPbft, and the end of the syncing when the request cannot be sent.
syncPeerPbft(c, period) ==
  IF c.sync.peer # NoPeer /\ period <= c.known[c.sync.peer] /\ c.sync.peer \in c.live
  THEN [c EXCEPT !.inbox[c.sync.peer] = Append(@, [type |-> "GetPbftSync", period |-> period])]
  ELSE [c EXCEPT !.sync = NotSyncing]

\* A peer whose DAG was synced more than kDagSyncingLimit ago is asked again.
StartWith(c, p) ==
  LET started == [c EXCEPT !.sync = SyncingWith(p, c.known[p]),
                           !.dag[p] = IF @ = "expired" THEN "none" ELSE @]
      asked == syncPeerPbft(started, pbftSyncingPeriod + 1)
  IN  [asked EXCEPT !.snapshots = IF asked.sync.deep THEN FALSE ELSE @]

\* Outcomes of startSyncingPbft: any peer of the longest known chain may be taken.
startSyncingPbft(c0) ==
  LET c == [c0 EXCEPT !.sync = Refreshed(@)]
      longest == getMaxChainPeers(c, c.live)
  IN  IF c.sync.on \/ longest = {} THEN {c}
      ELSE {IF c.known[p] > pbftSyncingPeriod
            THEN StartWith(c, p) ELSE [c EXCEPT !.snapshots = TRUE] : p \in longest}

\* mutant: parallel requests
requestDagBlocksAlways(c, p) ==
  IF p \in DagPeers /\ c.dag[p] \in {"none", "syncing"} /\ pbftSyncingPeriod = c.known[p]
  THEN [c EXCEPT !.dag[p] = "syncing",
                 !.inbox[p] = Append(@, [type |-> "GetDagSync", period |-> chain])]
  ELSE c

requestDagBlocks(c, p) ==
  IF p \in DagPeers /\ c.dag[p] = "none" /\ pbftSyncingPeriod = c.known[p]
  THEN [c EXCEPT !.dag[p] = "syncing",
                 !.inbox[p] = Append(@, [type |-> "GetDagSync", period |-> chain])]
  ELSE c

requestPendingDagBlocks(c) ==
  LET longest == getMaxChainPeers(c, {p \in c.live : c.dag[p] \in {"none", "syncing"}})
  IN  IF longest = {} THEN {c} ELSE {requestDagBlocks(c, p) : p \in longest}

\* Outcomes of pbftSyncComplete.
pbftSyncComplete(c) ==
  IF QueueSize > 0 THEN {[c EXCEPT !.completes = @ + 1]}
  ELSE UNION {IF d.sync.on THEN {d} ELSE requestPendingDagBlocks(d) :
              d \in startSyncingPbft([c EXCEPT !.sync = NotSyncing])}

\* handleMaliciousSyncPeer: the session ends later.
Blame(p) ==
  /\ malicious' = malicious \cup {p}
  /\ link' = [link EXCEPT ![p] = IF @ = "none" THEN @ ELSE "closing"]

-----------------------------------------------------------------------------
Idle == [pc |-> "idle"]

Init ==
  /\ size = FirstSize
  /\ inbox = [p \in Peers |-> <<>>] /\ packets = [p \in Peers |-> <<>>]
  /\ link = [p \in Peers |-> "none"]
  /\ known = [p \in Peers |-> 1] /\ lastStatus = [p \in Peers |-> 0]
  /\ dag = [p \in Peers |-> "none"] /\ served = [p \in Peers |-> FALSE] /\ malicious = {}
  /\ sync = NotSyncing /\ snapshots = TRUE
  /\ chain = 0 /\ queue = EmptyQueue
  /\ worker = Idle /\ pbft = Idle /\ completes = 0 /\ delayed = {}
  /\ slow = 0 /\ disconnects = 0

-----------------------------------------------------------------------------
(* Sessions and status packets.                                            *)

onConnect(p) ==
  /\ link[p] = "none" /\ p \notin malicious
  /\ link' = [link EXCEPT ![p] = "pending"]
  /\ UNCHANGED <<peerSide, inbox, packets, known, lastStatus, dag, malicious, sync, snapshots, chain,
                 queue, worker, pbft, completes, delayed, bounds>>

InitialStatus(p) ==
  /\ link[p] = "pending"
  /\ link' = [link EXCEPT ![p] = "ready"]
  /\ known' = [known EXCEPT ![p] = size[p]]
  /\ UNCHANGED <<peerSide, inbox, packets, lastStatus, dag, malicious, sync, snapshots, chain, queue,
                 worker, pbft, completes, delayed, bounds>>

\* mutant: one block behind is left to gossip
StatusOutcomesTwoBehind(p, peerSize) ==
  LET c == [Current EXCEPT !.sync = Refreshed(@), !.known[p] = peerSize]
  IN  CASE ~c.sync.on /\ pbftSyncingPeriod + 1 < peerSize -> startSyncingPbft(c)
        [] ~c.sync.on /\ pbftSyncingPeriod = peerSize -> {requestDagBlocks(c, p)}
        [] OTHER -> {c}

\* Behind by one block, the node waits for a second status of the same size.
StatusOutcomes(p, peerSize) ==
  LET c == [Current EXCEPT !.sync = Refreshed(@), !.known[p] = peerSize]
  IN  CASE ~c.sync.on /\ pbftSyncingPeriod < peerSize ->
             IF pbftSyncingPeriod + 1 < peerSize \/ lastStatus[p] = peerSize
             THEN startSyncingPbft(c) ELSE {c}
        [] ~c.sync.on /\ pbftSyncingPeriod = peerSize -> {requestDagBlocks(c, p)}
        [] OTHER -> {c}

StandardStatus(p) ==
  /\ InPeers(p)
  /\ \E c \in StatusOutcomes(p, size[p]) : Becomes(c)
  /\ lastStatus' = [lastStatus EXCEPT ![p] = size[p]]
  /\ UNCHANGED <<peerSide, packets, link, malicious, chain, queue, worker, pbft, delayed, bounds>>

\* erasePeer (the next session has a new TaraxaPeer), and a new syncing peer when this one was it.
onDisconnect(p) ==
  LET c == [Current EXCEPT !.sync = Refreshed(@), !.inbox[p] = <<>>, !.live = @ \ {p},
                         !.known[p] = 1, !.dag[p] = "none"]
  IN  /\ link[p] # "none"
      /\ \/ link[p] = "closing" /\ UNCHANGED disconnects
         \/ link[p] # "closing" /\ disconnects < MaxDisconnects /\ disconnects' = disconnects + 1
      /\ link' = [link EXCEPT ![p] = "none"]
      /\ lastStatus' = [lastStatus EXCEPT ![p] = 0]
      /\ packets' = [packets EXCEPT ![p] = <<>>] /\ served' = [served EXCEPT ![p] = FALSE]
      /\ \E d \in IF c.sync.on /\ c.sync.peer = p
                  THEN startSyncingPbft([c EXCEPT !.sync = NotSyncing]) ELSE {c} : Becomes(d)
      /\ UNCHANGED <<size, malicious, chain, queue, worker, pbft, delayed, slow>>

\* peer_blacklist_timeout has passed.
ForgetMalicious(p) ==
  /\ p \in malicious
  /\ malicious' = malicious \ {p}
  /\ UNCHANGED <<peerSide, inbox, packets, link, known, lastStatus, dag, sync, snapshots, chain,
                 queue, worker, pbft, completes, delayed, bounds>>

-----------------------------------------------------------------------------
(* The peers.                                                              *)

\* The peer's own chain grows.
PeerPush(p) ==
  /\ size[p] < MaxPeriod
  /\ size' = [size EXCEPT ![p] = @ + 1]
  /\ UNCHANGED <<served, inbox, packets, peers, sync, snapshots, chain, queue, worker, pbft, completes,
                 delayed, bounds>>

\* GetPbftSyncPacketHandler: the last block of the chain goes with its certificate.
SyncPackets(p, from) ==
  LET to == Min({size[p], from + SyncLevelSize - 1})
  IN  [i \in 1..to - from + 1 |->
        [type |-> "PbftSync", period |-> from + i - 1, last |-> from + i - 1 = to,
         votes |-> from + i - 1 = size[p]]]

Served(p, request) ==
  IF request.type = "GetPbftSync" THEN SyncPackets(p, request.period)
  ELSE <<[type |-> "DagSync", request |-> request.period, response |-> size[p]]>>

Serve(p) ==
  /\ inbox[p] # <<>>
  /\ inbox' = [inbox EXCEPT ![p] = Tail(@)]
  /\ packets' = [packets EXCEPT ![p] = @ \o Served(p, Head(inbox[p]))]
  /\ served' = [served EXCEPT ![p] = @ \/ Head(inbox[p]) = [type |-> "GetDagSync", period |-> size[p]]]
  /\ UNCHANGED <<size, peers, sync, snapshots, chain, queue, worker, pbft, completes, delayed,
                 bounds>>

-----------------------------------------------------------------------------
(* PbftSyncPacketHandler::process                                          *)

Handling(at) == worker.pc = at
Packet == worker.packet
Goes(at) == worker' = [worker EXCEPT !.pc = at]

\* The packet is ignored unless it comes from the syncing peer and, when the block
\* is not in the chain, is the expected one.
Expected(packet) == packet.period = pbftSyncingPeriod + 1

ReceivePbftSync(p) ==
  LET packet == Head(packets[p])
      mine == sync.peer = p /\ InPeers(p)
      c == [Current EXCEPT !.known[p] = IF mine THEN Max({@, packet.period}) ELSE @]
      unexpected == mine /\ packet.period > chain /\ ~Expected(packet)
  IN  /\ worker.pc = "idle" /\ packets[p] # <<>> /\ packet.type = "PbftSync"
      /\ packets' = [packets EXCEPT ![p] = Tail(@)]
      /\ worker' = IF ~mine \/ unexpected THEN Idle
                   ELSE [pc |-> IF packet.period <= chain THEN "requesting" ELSE "checking",
                         from |-> p, packet |-> packet]
      /\ \E d \in IF unexpected /\ packet.votes /\ packet.period = pbftSyncingPeriod
                  THEN pbftSyncComplete(c) ELSE {c} : Becomes(d)
      /\ UNCHANGED <<peerSide, link, lastStatus, malicious, chain, queue, pbft, delayed, bounds>>

\* The votes for the previous block are votes for the last one of queue or chain.
VotesFit == Packet.period = 1 \/ LastBlock = Packet.period - 1

CheckData ==
  /\ Handling("checking")
  /\ \/ VotesFit /\ Goes("pushing") /\ UNCHANGED <<malicious, link>>
     \/ /\ ~VotesFit \/ worker.from \in Faulty
        /\ worker' = Idle /\ Blame(worker.from)
  /\ UNCHANGED <<peerSide, inbox, packets, known, lastStatus, dag, sync, snapshots, chain, queue, pbft,
                 completes, delayed, bounds>>

\* checkRewardVotes finds the votes of the block that was pushed last.
RewardVotesFound == Packet.period = 1 \/ Packet.period - 1 = chain

\* checkRewardVotes only when the queue is empty, and periodDataQueuePush
PushPeriodData ==
  /\ Handling("pushing")
  /\ IF queue.blocks # <<>> \/ RewardVotesFound
     THEN /\ queue' = Pushed([period |-> Packet.period, from |-> worker.from], Packet.votes)
          /\ Goes("requesting")
          /\ UNCHANGED <<malicious, link, sync>>
     ELSE /\ worker' = Idle
          /\ IF Packet.period <= chain THEN sync' = NotSyncing /\ UNCHANGED <<malicious, link>>
                                       ELSE Blame(worker.from) /\ UNCHANGED sync
          /\ UNCHANGED queue
  /\ UNCHANGED <<peerSide, inbox, packets, known, lastStatus, dag, snapshots, chain, pbft, completes,
                 delayed, bounds>>

TooFarAhead == pbftSyncingPeriod > chain + AheadLimit

\* The packet counts as activity; the last one of a request asks for more.
AfterPacket ==
  LET c == [Current EXCEPT !.sync.active = TRUE]
      continues == Packet.last /\ pbftSyncingPeriod <= Packet.period /\ c.sync.on
  IN  /\ Handling("requesting")
      /\ worker' = Idle
      /\ IF Packet.votes THEN (\E d \in pbftSyncComplete(c) : Becomes(d)) /\ UNCHANGED delayed
         ELSE /\ Becomes(CASE Packet.last /\ pbftSyncingPeriod > Packet.period ->
                                [c EXCEPT !.sync = NotSyncing]
                           [] continues /\ ~TooFarAhead -> syncPeerPbft(c, pbftSyncingPeriod + 1)
                           [] OTHER -> c)
              /\ delayed' = IF continues /\ TooFarAhead THEN delayed \cup {1} ELSE delayed
      /\ UNCHANGED <<peerSide, packets, link, lastStatus, malicious, chain, queue, pbft, bounds>>

-----------------------------------------------------------------------------
(* DagSyncPacketHandler::process                                           *)

\* While the node is deep in PBFT syncing the packet is dropped on arrival.
DagSyncOutcomes(p, packet) ==
  LET raised == [Current EXCEPT !.known[p] = Max({@, packet.response}), !.dag[p] = "none"]
  IN  CASE sync.deep \/ ~InPeers(p) \/ packet.response < packet.request -> {Current}
        [] ~sync.deep /\ InPeers(p) /\ packet.response > packet.request -> startSyncingPbft(raised)
        [] OTHER -> {[Current EXCEPT !.dag[p] = "synced"]}

\* A transaction or a DAG block of the packet fails its verification or cannot be added.
DagSyncFails(p, packet) == p \in Faulty /\ ~sync.deep /\ InPeers(p) /\ packet.response = packet.request

ReceiveDagSync(p) ==
  LET packet == Head(packets[p])
  IN  /\ packets[p] # <<>> /\ packet.type = "DagSync"
      /\ packets' = [packets EXCEPT ![p] = Tail(@)]
      /\ \/ /\ \E c \in DagSyncOutcomes(p, packet) : Becomes(c)
            /\ IF ~sync.deep /\ InPeers(p) /\ packet.response < packet.request
               THEN Blame(p) ELSE UNCHANGED <<malicious, link>>
         \/ DagSyncFails(p, packet) /\ Becomes(Current) /\ Blame(p)
      /\ UNCHANGED <<peerSide, lastStatus, chain, queue, worker, pbft, delayed, bounds>>

\* DagBlockPacketHandler: a gossiped block lacks a transaction, a tip or the pivot here.
ReceiveDagBlock(p) ==
  LET c == [Current EXCEPT !.dag[p] = IF @ = "expired" THEN "none" ELSE @]
  IN  /\ InPeers(p) /\ ~sync.deep
      /\ \/ /\ dag[p] # "synced" /\ Becomes(requestDagBlocks(c, p))
            /\ UNCHANGED <<link, disconnects>>
         \/ /\ dag[p] = "synced" /\ disconnects < MaxDisconnects /\ disconnects' = disconnects + 1
            /\ link' = [link EXCEPT ![p] = "closing"] /\ Becomes(Current)
      /\ UNCHANGED <<peerSide, packets, lastStatus, malicious, chain, queue, worker, pbft, delayed,
                     slow>>

\* kDagSyncingLimit has passed: at the peer, which counts from the request, before here.
DagSyncExpires(p) ==
  /\ served[p] /\ dag[p] # "expired"
  /\ served' = [served EXCEPT ![p] = FALSE]
  /\ dag' = [dag EXCEPT ![p] = IF @ = "synced" THEN "expired" ELSE @]
  /\ UNCHANGED <<size, inbox, packets, link, known, lastStatus, malicious, sync, snapshots, chain,
                 queue, worker, pbft, completes, delayed, bounds>>

-----------------------------------------------------------------------------
(* The timer thread.                                                       *)

RunSyncComplete ==
  /\ completes > 0
  /\ \E c \in pbftSyncComplete([Current EXCEPT !.completes = @ - 1]) : Becomes(c)
  /\ UNCHANGED <<peerSide, packets, link, lastStatus, malicious, chain, queue, worker, pbft, delayed,
                 bounds>>

delayedPbftSync(counter) ==
  LET c == [Current EXCEPT !.sync = IF counter > MaxDelays THEN NotSyncing ELSE Refreshed(@)]
  IN  /\ counter \in delayed
      /\ Becomes(IF c.sync.on /\ ~TooFarAhead THEN syncPeerPbft(c, pbftSyncingPeriod + 1) ELSE c)
      /\ delayed' = (delayed \ {counter})
                    \cup (IF c.sync.on /\ TooFarAhead THEN {counter + 1} ELSE {})
      /\ UNCHANGED <<peerSide, packets, link, lastStatus, malicious, chain, queue, worker, pbft, bounds>>

\* kSyncingInactivityThreshold passes without a packet of the syncing peer.
AnswerOnItsWay ==
  \/ worker.pc # "idle" \/ delayed # {} \/ completes > 0
  \/ sync.peer # NoPeer /\ (inbox[sync.peer] # <<>> \/ packets[sync.peer] # <<>>)

Inactive ==
  /\ sync.on /\ sync.active
  /\ \/ ~AnswerOnItsWay /\ UNCHANGED slow
     \/ AnswerOnItsWay /\ slow < MaxSlow /\ slow' = slow + 1
  /\ sync' = [sync EXCEPT !.active = FALSE]
  /\ UNCHANGED <<peerSide, inbox, packets, peers, snapshots, chain, queue, worker, pbft, completes,
                 delayed, disconnects>>

-----------------------------------------------------------------------------
(* The PBFT thread.                                                        *)

\* tryPushCertVotesBlock: the votes came by gossip, which deep syncing ignores.
PushCertVotedBlock ==
  /\ pbft.pc = "idle" /\ ~sync.deep /\ chain < MaxPeriod
  /\ chain' = chain + 1
  /\ UNCHANGED <<peerSide, inbox, packets, peers, sync, snapshots, queue, worker, pbft, completes,
                 delayed, bounds>>

\* pushSyncedPbftBlocksIntoChain
StartDraining ==
  /\ pbft.pc = "idle" /\ queue.blocks # <<>>
  /\ queue' = CleanOldData
  /\ pbft' = IF SizeOf(CleanOldData) = 0 THEN Idle ELSE [pc |-> "draining"]
  /\ UNCHANGED <<peerSide, inbox, packets, peers, sync, snapshots, chain, worker, completes, delayed,
                 bounds>>

PopBlock ==
  /\ pbft.pc = "draining"
  /\ \/ QueueSize = 0 /\ pbft' = Idle /\ UNCHANGED queue
     \/ /\ QueueSize > 0
        /\ pbft' = [pc |-> "processing", block |-> Head(queue.blocks), votes |-> PoppedVotes]
        /\ queue' = Popped
  /\ UNCHANGED <<peerSide, inbox, packets, peers, sync, snapshots, chain, worker, completes, delayed,
                 bounds>>

\* processPeriodData: a block of the chain is skipped, one that does not fit or
\* whose certificate does not is the sender's fault.
ProcessPeriodData ==
  LET b == pbft.block
  IN  /\ pbft.pc = "processing"
      /\ CASE b.period <= chain ->
                pbft' = [pc |-> "draining"] /\ UNCHANGED <<chain, queue, malicious, link>>
           [] b.period = chain + 1 /\ pbft.votes ->
                /\ chain' = chain + 1 /\ pbft' = [pc |-> "pushed"]
                /\ UNCHANGED <<queue, malicious, link>>
           [] OTHER ->
                /\ queue' = EmptyQueue /\ Blame(b.from) /\ pbft' = [pc |-> "draining"]
                /\ UNCHANGED chain
      /\ UNCHANGED <<peerSide, inbox, packets, known, lastStatus, dag, sync, snapshots, worker,
                     completes, delayed, bounds>>

\* setSyncStatePeriod reads the flag without the lock...
ReadSyncing ==
  /\ pbft.pc = "pushed"
  /\ pbft' = [pc |-> IF sync.on THEN "dereferencing" ELSE "draining"]
  /\ sync' = IF sync.on THEN sync ELSE [sync EXCEPT !.deep = FALSE]
  /\ UNCHANGED <<peerSide, inbox, packets, peers, snapshots, chain, queue, worker, completes, delayed,
                 bounds>>

\* ... and then the size of a peer that may be gone: the process dies, and comes back
\* with its chain.
Restarted ==
  /\ Becomes([Current EXCEPT !.sync = NotSyncing, !.snapshots = TRUE, !.completes = 0,
                              !.inbox = [p \in Peers |-> <<>>], !.known = [p \in Peers |-> 1],
                              !.dag = [p \in Peers |-> "none"]])
  /\ lastStatus' = [p \in Peers |-> 0]
  /\ link' = [p \in Peers |-> "none"] /\ malicious' = {} /\ served' = [p \in Peers |-> FALSE]
  /\ packets' = [p \in Peers |-> <<>>] /\ delayed' = {}
  /\ queue' = EmptyQueue /\ worker' = Idle /\ pbft' = Idle

SetSyncStatePeriod ==
  /\ pbft.pc = "dereferencing"
  /\ \/ sync.peer = NoPeer /\ Restarted
     \/ /\ sync.peer # NoPeer
        /\ pbft' = [pc |-> "draining"]
        /\ sync' = [sync EXCEPT !.deep = Deep(known[sync.peer], pbftSyncingPeriod)]
        /\ UNCHANGED <<served, inbox, packets, link, known, lastStatus, dag, malicious, snapshots, queue, worker,
                       completes, delayed>>
  /\ UNCHANGED <<size, chain, bounds>>

-----------------------------------------------------------------------------
Sessions(p) == onConnect(p) \/ InitialStatus(p) \/ onDisconnect(p) \/ ForgetMalicious(p)

WorkerStep ==
  \/ CheckData \/ PushPeriodData \/ AfterPacket

PbftThread ==
  StartDraining \/ PopBlock \/ ProcessPeriodData \/ ReadSyncing \/ SetSyncStatePeriod

Next ==
  \/ \E p \in Peers :
       \/ Sessions(p) \/ StandardStatus(p) \/ PeerPush(p) \/ Serve(p)
       \/ ReceivePbftSync(p) \/ ReceiveDagSync(p) \/ ReceiveDagBlock(p) \/ DagSyncExpires(p)
  \/ WorkerStep \/ RunSyncComplete \/ (\E counter \in delayed : delayedPbftSync(counter))
  \/ Inactive \/ PushCertVotedBlock \/ PbftThread

Spec == Init /\ [][Next]_vars

-----------------------------------------------------------------------------
\* No request reaches a peer that answers it with MaliciousPeerException: a PBFT sync
\* from a period beyond its chain, or a second DAG sync within kDagSyncingLimit.
NeverBanned ==
  \A p \in Peers : inbox[p] # <<>> =>
    IF Head(inbox[p]).type = "GetPbftSync" THEN Head(inbox[p]).period <= size[p] ELSE ~served[p]

\* Once no session breaks any more the node reaches the chain of every honest peer,
\* without a block certified by gossip.
CatchesUp == <>[](\A p \in Peers \ Faulty : chain >= size[p])

\* The blocks in PeriodDataQueue follow one another, and its period is that of the last
\* one: the certificate of each block is the one in the next.  A block that the PBFT
\* thread takes from it is in the chain already or extends it and comes with its own
\* certificate, whatever the handler and gossip did meanwhile: an honest peer's block is
\* not the reason to clear the queue.
QueuedBlocksFit ==
  LET b == queue.blocks
  IN  /\ \A i \in 1..Len(b) - 1 : b[i + 1].period = b[i].period + 1
      /\ b # <<>> => b[Len(b)].period = queue.period
      /\ pbft.pc = "processing" =>
           \/ pbft.block.period <= chain
           \/ pbft.block.period = chain + 1 /\ pbft.votes
=============================================================================
