# A TLA+ model of the taraxa node

The node is a C++ program that runs a proof-of-stake ledger. Validators build a
block DAG; a PBFT chain orders it, one PBFT block per period; a final chain
executes the ordered transactions. Every node runs a PBFT thread, a pool of
packet workers, a DAG proposer, an executor and the strands of its p2p library
over one RocksDB database, and may be killed at any point. This project models
the parts of that system where the order of steps of several threads or nodes,
or a crash between two of them, decides correctness.

Paths are relative to `src/libraries/core_libs/` unless they start with `src/`.
`PROJECT.json` lists every component, modelled or not, the hazards with the
lines where they bite, and the map from definitions to source lines.

## 1. The system

| Part | State it keeps | Operations | Interacts with |
|---|---|---|---|
| PbftManager (`consensus/src/pbft/pbft_manager.cpp`) | round, step, cert-voted block, next-vote flags, lambda; part of it in the database | five voting steps, round advance, propose, validate, push, sync push, restart | all managers |
| VoteManager, VerifiedVotes (`consensus/src/vote_manager/`) | votes by period, round, step, value; 2t+1 blocks; own and reward votes; saved bundles | add a vote, advance round and period, clean up, recover | packet workers and the PBFT thread at once |
| Dag, DagManager (`consensus/src/dag/`) | graph, pivot tree, non-finalized blocks, anchors, expiry, frontier | add a block, ghost path, order of an anchor, finalize, recover | PbftManager, packet workers |
| ProposedBlocks, PbftChain, PeriodDataQueue | proposed blocks, the head, synced blocks | insert, validate, push, pop, clean up | PbftManager, sync handlers |
| Transactions (`consensus/src/transaction/`) | pool, transactions of DAG blocks, recently finalized ones | insert, pack, expire, finalize, recover | DagManager, PbftManager |
| Pillar chain (`consensus/src/pillar_chain/`) | pillar blocks and votes | create, vote, finalize, recover | PbftManager |
| FinalChain, rewards, sortition parameters | executed blocks, the EVM's state database, statistics, thresholds | execute, distribute, recover, replay | PbftManager |
| Packet thread pool (`network/src/threadpool/`) | three queues, counters, the mask of blocked packets | push, pop, start and finish a packet, stop | packet handlers |
| Packet handlers, syncing, gossip (`network/src/tarcap/`) | syncing state, what peers know | one handler per packet type | thread pool, managers |
| libp2p (`src/libraries/aleth/libp2p/`) | dials, handshakes, sessions, discovery table | connect, accept, read, disconnect, ping | capability, handlers |
| DbStorage (`storage/src/storage.cpp`), light node, snapshots | columns on disk | batches, pruning, snapshots, revert | everybody |
| JSON-RPC, WebSocket, log filters, gas pricer | caches, watches, sessions, prices | read, subscribe, notify | FinalChain |

What must hold: no two nodes decide different blocks for a period; an honest
node never casts two soft or cert votes in a round; a quorum is neither missed
nor invented; what a restart needs is in the database; all nodes finalize the
same DAG blocks and transactions once each and in the same order; every block is
executed and rewarded once, whatever crashes come between the commits; dependent
packets are kept apart and none is left behind; a node that is behind catches
up; a peer has one session; readers see whole blocks.

## 2. Modules

| Module | Models | Checked by |
|---|---|---|
| `PbftConsensus` | consensus of one period on all validators | `pbft_consensus`, `cert_vote_crash`, `vote_manager` (skipped rounds), proofs |
| `VoteManager` | the votes of one node: workers, PBFT thread, database | `vote_manager`, `bundle_overtaken` |
| `Dag`, `DagManager` | ghost path and order as operators; the DAGs of several nodes over one chain | `period_data`, proofs |
| `PacketsThreadPool` | the packet thread pool | `threadpool`, proofs |
| `Ledger`, `SortitionParams`, `ExecutionLedger` | push, execution, two databases, restart; the VRF threshold; what they promise | `ledger`, proofs |
| `PbftSync` | catching up with peers | `chain`, `progress`, proofs |
| `VoteGossip` | gossip of next votes | `progress` |
| `Transactions`, `PillarChain` | what the data of a period carries | `period_data` |
| `PeerSessions`, `NodeTable` | connections of a node; discovery | `services`, proofs (`PeerSessions`); `node_table` |
| `ChainStore`, `FinalChainViews`, `Snapshots`, `ProposedBlocks`, `Rebuild` | one component each | `chain` |
| `SessionFrames`, `Gossip`, `EthFilters`, `WsSessions`, `Rlp`, `GasPricer`, `BlockStats` | one component each | `services`, `subscribers` (`WsSessions`) |
| `PbftConsensusProofs`, `PbftAgreementProofs`, `LedgerProofs`, `PacketsThreadPoolProofs`, `PbftSyncInvariant`, `PbftSyncProofs`, `DagManagerProofs`, `PeerSessionsProofs` | theorems | |

`MC*` modules are instances for TLC. `MCProgress`, `MCPeriodData`, `MCChain` and
`MCServices` hold several components: a variable `focus` picks the one whose
behaviour is explored, the others stay as they began, so that one run is the
union of independent ones. In `MCVoteManager` the set of votes `cast` does the same. No instance replaces a definition of a module.

### Consensus and votes

**`PbftConsensus`** has one action per PBFT state handler (`ProposeBlock`,
`IdentifyBlock`, `CertifyBlock`, `FirstFinish`, `SecondFinish`), each with the
step change of `continuousOperation_` that follows it; `AdvanceRound`,
`LearnPrevNext` (a bundle of the previous round is completed late),
`TryPushCertVotesBlock`, `PushSyncedPbftBlock` and `CrashAndRestart`.

* A validator of weight *w* is *w* members of `Validators`: the code only
  compares sums of weights. `TwoTPlusOne` is `getPbftTwoTPlusOne` with the
  sortition threshold equal to the number of votes. That a committee drawn by
  sortition may hold more faulty votes than its share is outside the model.
* Gossip is the shared set of honest votes. A node acts on a bundle at any time
  after it exists, or never: loss, delay, duplication and reordering are covered.
  Byzantine votes may be counted in every bundle.
* Timers are left out: a step may end at any moment.
* `prevNext` is what the node knows of the previous round, `prevNextDb` the part
  that is saved; `amnesiac` is a history variable, the nodes that came back from a
  crash knowing less than they had voted upon. `Tolerated` counts them with the
  Byzantine ones: agreement is stated for at most *t* of both.

**`VoteManager`** makes `addVerifiedVote` a sequence of actions, one per
acquisition of the lock of `VerifiedVotes` or per database write, run by every
worker and by the PBFT thread; `pc` and `job` are a thread's place and local
variables. Advancing a round or a period is two atomic stores, then the bundles
of the entered round, then the clean-up. `Restart` rebuilds the maps from the
database. Signatures, VRF proofs and the cache of 2t+1 thresholds are left out;
votes in `Votes` are valid (`ValidateVote` only marks them). Which vote of a step
the constructor adds first depends on hashes; the model fixes one order.

**`VoteGossip`** has the send side: what a node marks as known of its peers,
single votes and bundles, the request for next votes, and the rebroadcasts of
`broadcastVotes`. One period, one next vote per node and round, for the null
block; the throttle of requests is a free choice.

**`ProposedBlocks`** has the store and its column, blocks learned from votes and
bundles, the checks of `validatePbftBlock` in their order, leader choice, eligible
wallets, clean-up and restart. A block says whether its order hash is right, whether
its reward votes are known from the start, and which extra data it has; which anchor is
the next one of the ghost path, to which the gas limit does not apply, is a free choice.

### DAG, transactions, pillar chain

Blocks of **`Dag`** are numbers that compare like hashes. `ComputeOrder` follows
`Dag::computeOrder` turn by turn. In **`DagManager`** a validator proposes
(`ProposedAnchors`: ghost path, anchor, clipping to the gas limit), the
validators check order and weight, and each node pushes the block in two steps:
`CommitPeriodData`, the batch, and `SetDagBlockOrder`, the graph in memory with
expiry. `Restart` is `recoverDag`. Any proposal that all of `Validators` find
valid is appended to `chain`. VDF, gas and eligibility checks are assumed passed.

**`Transactions`** has the pool with its per-account queues, the non-proposable
and the known transactions, packing, DAG blocks, expiry, recently finalized
transactions, and recovery. A DAG block is its level and its transactions.

**`PillarChain`** has creation, voting, finalization with the next PBFT block and
the constructors. A push is several durable writes with crashes between them. Where an
assertion of a constructor fails, the node is dead in a build with assertions and goes
on in a release build: the model has both.

### Ledger

`CommitBlock`, `CommitLambda` and `SaveExecutedStatus` are the three commits of
`pushPbftBlock_`; `AdvancePeriod` and `AdvanceRound` what the PBFT thread does
next; `CommitFinalChain`, `CommitState` and `FinishBlock` the executor thread, with
one commit per database; `Crash`, `Restart` (the constructors with recovery and
replay) and `RestartDone`. The EVM is external: its state is the number of its
last block. `SortitionParams` is the manager as operators on a record. A history
variable `lost` has the periods whose lambda was lost between the first two
commits. `ExecutionLedger` is the abstract specification: a chain that grows, its
blocks executed once each in order, rewards paid once.

### Packet thread pool

Workers are interchangeable: those that process a packet are known by the packet
(`busy`), the others are counted by place (`polling`, `inPop`, `waiting`). `Poll`
and `Borrow` are the two passes of `PriorityQueue::pop` under `queue_mutex_`; the
counters are decremented afterwards in actions of their own, without the mutex.
`Wait` is separate from the test of the stop flag. Handlers take any time and may
throw. Spurious wake-ups are left out: nothing may rely on them.

### Network

**`PbftSync`**: status, PBFT sync and DAG sync handlers, the queue of synced
blocks with one step per lock scope, the syncing flag that is read outside its
lock, delayed requests, the PBFT thread that drains the queue, sessions that come
and go. The network certified one chain, so a block is its period. A `Faulty` peer
may serve packets that fail a check, PBFT and DAG sync answers alike. Light nodes are left out; status packets
arrive at once; a null dereference of the syncing peer is a death of the process
and a restart. `ForgetMalicious` is the timeout of the black list; `DagPeers`
bounds who is asked for DAG blocks.

**`PeerSessions`**: dialing, accepting, the handshake with its timer, session
start with the reasons to refuse it, ping timeouts, peer types and useless peers
of libp2p; pending and ready peers of the capability. Reasons of a disconnection
are kept as the classes `Peer::isUseless` tells apart. One peer is tracked, others
are counted; each peer has at most one outgoing connection at a time. The remote
node keeps to the protocol.

**`NodeTable`**: buckets of weak pointers, pings with replacements, pongs,
neighbours, timeouts, discovery rounds and the events to the host. Time is kept as
ages. Endpoint correction for private addresses, `EndpointTracker`, the mode of
boot nodes and the codecs are left out.

**`SessionFrames`**: MACs, splitting into frames and reassembly. **`Gossip`**:
transactions and DAG blocks, and the caches of what a peer knows; sessions break and
are made anew, a packet whose turn comes in between is dropped, one whose turn comes
later is handled in a session it was not sent in; nodes neither sync nor restart and
the pools do not overflow. **`Rlp`**: `RLPStream` and `RLP`
with the typed encoders, in radix 12 in the run so that every form of a header
is met with short data.

### Storage, readers, services

**`ChainStore`**: blocks that move between columns, pruning by a light node, a
reader that looks into one column after the other; the DAG is a chain and a block
stands for itself and its transactions. A crash inside `clearColumnHistory` is
left out. **`FinalChainViews`**: the caches of the final chain while it grows, read by requests
that check first whether the block is executed and by requests that do not.
**`EthFilters`**: the bloom index, `eth_getLogs` and watches. **`Snapshots`**: the
two databases on disk, every change of the file system a step, deaths between any
two. **`WsSessions`**: handshake, requests, subscriptions, the strand that writes,
notifications. **`GasPricer`**, **`BlockStats`**, **`Rebuild`**: the suggested
price; the statistics of a block under three versions of the rules; `rebuildDb`
with its two threads and the executor.

## 3. Runs

| Run | Instance | Shows |
|---|---|---|
| `pbft_consensus` | 3 honest, 1 Byzantine validator, 2 blocks, 2 rounds, 5 steps in round 1 and 3 in round 2; h1 may crash; symmetry of h2, h3 and of the blocks | `Agreement`, `CertifiedIsLocked`, `OneTwoTPlusOneBlock`, `NoDoubleSoftOrCertVote` |
| `vote_manager` | 1 worker and the PBFT thread, weights 2, 1, 1, 1 crash, eight votes of two rounds or seven of voters that vote two and three times in a step; beside it the consensus of 4 nodes without a valid block over 3 rounds with crashes | `MarksMatchQuorums`, `BundlesAreSaved`, `RewardVotesAreKept`, `ProofsAreRight`, `ProposerKnowsPreviousRound` |
| `period_data` | 2 nodes, 6 DAG blocks, 2 periods, 1 crash, gas limit 3, expiry limit 1; 3 transactions of one sender, 3 foreign and 1 own DAG block, 3 periods, 1 crash; 3 validators, 5 periods, pillar blocks in every second one, 1 crash | `OrderAgrees`, `FinalizedOnceWithParents`, `DatabaseMatchesDag`, `RestartKeepsDag`; `PeriodListsAgree`, `FinalizedOnceInNonceOrder`, `QueueIsRight`; `PillarBlocksAgree` |
| `threadpool` | 4 workers, 3 packets of 7 kinds, 2 peers | `PoolIsConsistent`, `DependenciesFirst`, `Processed` |
| `ledger` | 5 periods, 3 kinds of blocks, 2 crashes | `SortitionSurvivesRestart`, `LambdaSurvivesReplay`, `EligibilityKnown`, `OneBlockUndone`, `LedgerRefined`, `BlocksExecuted` |
| `chain` | syncing from 2 peers, the one with the longer chain faulty, 3 periods, 1 delayed request; five more components, see `MCChain` | `NeverBanned`, `QueuedBlocksFit`; `BlocksReadWhole`, `ChainGoesOn` |
| `progress` | syncing from one peer with 1 slow answer and 1 disconnection; 2 nodes that gossip votes over 2 rounds with 1 broken connection | `NodeCatchesUp`, `VotesArrive` |
| `node_table` | 2 nodes, 2 endpoints, 1 bucket of size 1, alpha 1, 1 stimulus | `TableAgrees`, `TableSettles` |
| `services` | 1 tracked and 1 other peer, ideal 1 and stretch 2, 1 failure; seven more components, see `MCServices` | `SessionsAgree`, `BootNodesKept`; `DeliveredWhole`, `LogsAndListedSessions`, `EncodingIsFaithful`, `FeesAreRight` |
| `cert_vote_crash` | as `pbft_consensus`, one round with 5 steps and one crash that loses knowledge | `CertifiedIsNextVoted` is violated: see section 6 |
| `bundle_overtaken` | 2 workers and the PBFT thread, soft quorums in two rounds | `CurrentBundlesAreSaved` is violated: see section 6 |
| `subscribers` | the WebSocket server of `services` | `SubscribersNotified` is violated: see section 6 |

Why the bounds are enough to be interesting, and where they are not:

* `pbft_consensus`: two rounds are the least in which a decision of round 1 can be
  contradicted. With one Byzantine vote of four, `Tolerated` is false as soon as a
  node loses knowledge, so `MaxAmnesia` is 0 here: `cert_vote_crash` and the
  theorems, which hold for every `MaxAmnesia`, cover those crashes. A crash in
  round 2 would restart in step 4, beyond `LastRoundStep`; crashes there, torn
  writes included, are left to the theorems. Honest nodes always place the vote
  they may place and only h1 learns bundles late; the theorems need neither.
* `vote_manager`: a null and a block next vote in one second finishing step, a
  round change, a soft and a cert quorum and a late cert vote; one crash hits every
  point, the middle of `replaceTwoTPlusOneVotes` included. Three votes of one voter in a
  step are the least for which the record of voters matters; an unrecorded one is
  possible for each thread that found the step empty. Three rounds and one Byzantine
  vote let a node skip round 2, whose bundle it never saves, and crash in round 3.
* `period_data`: a block with two paths from one ancestor and a side branch that
  expires; two transactions share a nonce, so that one of them must be dropped; the pool
  holds one transaction and the limit per account never binds. The stakes change between
  two pillar blocks.
* `threadpool`: four workers are the least number with which a queue can borrow a
  thread; three packets the least for one that is blocked by a processed one while
  a third arrives. The theorems are about all sizes.
* `ledger`: the frequency of distributions changes, the dynamic lambda starts and
  the threshold changes within the five periods; two crashes allow one during the
  recovery from another.
* `chain`: when syncing, peers do not disconnect and are not slow; `progress` has both,
  with one peer. Deep syncing starts at a distance of 1. The proposed blocks include one
  with a wrong order hash, one without an anchor and one that exceeds the gas limit.
* `services`: one failure of a session covers a restart of the remote node, a broken
  handshake, a ping timeout or packets read while the queue is over its limit, one at a
  time. A voter appears twice in one list of reward votes.
* `node_table`: a bucket of size 1 makes every second node compete for its place.

Deadlock is checked in `chain` only, for syncing, where the network goes on for ever; the
other components of that run may come to rest, and in the other instances a bounded
supply of rounds, packets or blocks really ends.

What the less obvious properties say:

* `BundlesAreSaved`: a saved bundle is a quorum, and the row of a quorum of the current
  round is not empty. That the row is of the current round is `CurrentBundlesAreSaved`,
  which the code breaks.
* `ProofsAreRight`: proofs of double voting name voters that voted twice, and at most one
  vote per thread and step escapes the record by which a second one is found.
* `FinalizedOnceWithParents`: a DAG block is finalized once, in no earlier period than its
  pivot and tips, and within its period after one of them. It is not after all of them.
* `LambdaSurvivesReplay`: a replay uses the lambda the block was pushed with, except for
  blocks whose push was torn between its two batches, where the lambda is lost.
* `OneBlockUndone`: the final chain is at most one block ahead of the state, and the
  counters of executed DAG blocks and transactions are right after that block is undone,
  as long as every block with DAG blocks has transactions and the reverse.
* `PillarBlocksAgree`: no validator signs two pillar blocks of a period; pushed blocks
  have the pillar votes they need; a restart fails only in the two cases of section 6.
* `DeliveredWhole`: a DAG block handled in the session it was sent in finds its
  transactions. One that outlives its session may not.
* `BlocksReadWhole`: an answer lacks a system transaction only when a request that does
  not check has read the list before the block was executed; requests that check never
  are the cause, but they do get the list from the cache.
* `LogsAndListedSessions`: queries return the logs of a scan, and possibly logs that are
  one topic short; open sessions that are in `sessions_` get each notification once. What
  the documentation promises is `SubscribersNotified`, which the code breaks.
* `ChainGoesOn`: a node votes for a block with a wrong order hash only beside one with
  the right hash and the same anchor; after a revert the state is at most one block behind
  or, when the revert was torn or the snapshot lacks its second half, empty; a rebuild that
  reports completion ends before the first period that the queue refused.
* `FeesAreRight`: fees are credited once; the ring of prices holds the last blocks once
  as many updates were handled, and before that when no block fell between the start of
  the fill and the subscription.

## 4. Fairness

* `PacketsThreadPool`: weak fairness of `Poll`, `Borrow`, `Wait` and `Finish`: the
  operating system runs every worker that is not blocked, the mutex is not held
  for ever and handlers return. Nothing is assumed of peers, of the sync queue or of
  `stopProcessing`. `Processed` leaves out PBFT blocks bundles: nobody notifies the
  workers when the queue of synced blocks drains, so such a bundle waits for the
  next packet.
* `Ledger`: the executor, the constructors and a push that has begun go on; nobody
  has to certify a block or to crash.
* `MCProgress`: dials are retried, status packets are periodic, a peer answers,
  timers fire, workers and the PBFT thread run. Strong fairness is assumed of the
  receipt of PBFT sync packets only, because a session that breaks and is made anew
  disables it for a while. Gossip of certified blocks is not assumed. For votes:
  a node votes, advances and rebroadcasts in a stalled round time and again, and
  every packet is handled unless its connection breaks; these steps disable
  themselves, so their fairness is written as "disabled infinitely often".
* `NodeTable`: packets arrive or are lost, the strand's timers fire, time passes.

## 5. Proofs

TLAPS checks the theorems for all values of the constants that satisfy the named
assumptions of the modules. Nothing is assumed besides them.
A step that needs arithmetic goes to the SMT solver, with the time limit that `USE SMTT`
sets for the module. A step of pure logic names Zenon: `tlapm` infers types before it
calls the SMT solver, gives up on that after 5 seconds, and gets slower with every such
step, so a long module checks reliably only when most of its steps avoid it.

| Theorem | States | Assumes |
|---|---|---|
| `TypeCorrect` | `Spec => []TypeOK` of `PbftConsensus` | `Byzantine` is part of the finite set `Validators`, null and the empty optional are no blocks, bounds are numbers |
| `Justified` | `Spec => [](TypeOK /\ VotesJustified)` | |
| `AgreementHolds`, `CertifiedIsLockedHolds`, `OneTwoTPlusOneBlockHolds`, `NoDoubleVoteHolds`, `ProposerKnowsHolds` | the four invariants of `pbft_consensus` and `ProposerKnowsPreviousRound` | |
| `LedgerInvariant` | `Spec => []LedgerInv` of `Ledger` | blocks are well formed, a frequency that drops to 1 does so right after a distribution, the configured numbers are positive |
| `AtMostOneBehindHolds`, `EligibilityKnownHolds` | the first half of `OneBlockUndone`, and `EligibilityKnown` | |
| `LedgerImplementsAbstract` | `Spec => LedgerRefined`, the refinement of `ExecutionLedger` | |
| `PoolInvariant` | `Spec => []PoolInv` of `PacketsThreadPool` | at least 3 workers, packets of known types |
| `PoolIsConsistentHolds` | `Spec => []PoolIsConsistent` | |
| `DependenciesFirstHolds` | `Spec => DependenciesFirst`, an action property | |
| `SyncInvariant` | `Spec => []SyncInv` of `PbftSync` | the named assumptions of `PbftSync` on its limits |
| `QueuedBlocksFitHolds`, `NeverBannedHolds` | `QueuedBlocksFit` and `NeverBanned` | |
| `DagInvariant` | `Spec => []DagInv` of `DagManager` | the named assumptions on the DAG and the limits |
| `DatabaseMatchesDagHolds` | `Spec => []DatabaseMatchesDag` | |
| `SessionsInvariant` | `Spec => []SessionsInv` of `PeerSessions` | the named assumptions on peers and limits |
| `SessionsAgreeHolds`, `BootNodesKeptHolds` | `SessionsAgree` and `BootNodesKept` | |

**Consensus.** `Agreement` alone is not inductive: that a second block cannot be
decided depends on why every vote was cast. `VotesJustified` says, for each kind of
vote, which bundles existed when an honest node cast it, that a node that is not
amnesiac keeps its cert-voted block in the finish steps, and that the node's memory
(`NodeRemembers`) is enough to keep this true after a restart.
`PbftConsensusProofs`: types; bundles only grow (`MoreVotes`), two bundles share a
vote that is neither Byzantine nor amnesiac (`BundlesIntersect`); every action keeps
the votes justified. `PbftAgreementProofs`: every action keeps the memory sufficient.
For agreement, take a block
certified in round *r* and the least round from *r* on in which another value has
2t+1 next votes. In round *r* a sound voter of both bundles kept its block unless the
other one was soft voted too, which `OneSoftVotedBlock` excludes; in a later round a
sound voter needs 2t+1 next votes for another value one round earlier, against the
choice of the least round.

**Ledger.** That at most one block is undone says nothing about where the queue of
the executor stands, and the refinement needs both. `LedgerInv` therefore ties
together, at every point at which a crash may come: which threads are busy in which
phase (`ThreadsAgree`); that the tasks of the executor are exactly the blocks between
the last executed and the last posted one (`QueueIsContiguous`); the three block
numbers (`DatabasesAgree`); and the statistics (`RewardsCarried`). The last one is
the delicate part: after a crash between the two commits of a block its row is
already in the statistics although the block is executed again, so the rows are the
unpaid periods or these and the next one, the latter only if that block waits for a
later distribution. `LedgerImplementsAbstract` then shows that `CommitBlock` is
`Decide`, `CommitState` is `Execute`, and every other step, crashes and restarts
included, leaves the abstract variables alone. `FrequencyAssumption` is needed:
with a frequency that drops to 1 inside a window the statistics of the window are
never paid. The configuration of the code does not check it.

**Thread pool.** `PoolIsConsistent` bounds the mask from above only (no entry without
a packet in processing); to show that packets are kept apart one needs the converse.
`MaskExact` says that the mask is exactly the union of the entries of the packets
that are handled; removing the entries of one packet keeps it so because ids are
unique (`BusyOK`), and for the DAG blocks, whose entries have no id, because no block
is processed twice at once (`OneAtATimeProcessed`), which in turn follows from
`MaskExact` when a packet is started. The counters follow from counting `busy`.
`DependenciesFirst` rests on `QueuesOK`: queues are sorted by id, transaction packets
share the queue of DAG blocks and are never blocked, so the first packet of the queue
that is not blocked has no transaction before it; those in processing are in the mask.

**Syncing.** That the queue is contiguous is not inductive: a worker checks a packet
against the end of the queue, releases the lock and pushes later, while the PBFT
thread empties the queue or gossip extends the chain. `QueueInv` says what of the
check survives: the block before the packet is in the chain, at the end of the queue
or in the hands of the PBFT thread (`PreviousKnown`), and a queue that is not behind
the chain ends just before the packet (`PacketFollows`). `PeersInv` is about the
requests: none is beyond what the peer has, since what the node knows of a peer is
what the peer told it (`WithinChain`), and at most one DAG sync is under way, which
the node remembers at least as long as the peer does (`OneDagSync`).
`PbftSyncInvariant` has the invariant and the lemmas on queues, `PbftSyncProofs` one
lemma per action.

**DAG.** `DatabaseMatchesDag` speaks of nodes that push no block, and a push is two
steps. `NodeOK` adds what holds between them, where a crash may come: the database
has already lost the blocks of the period that memory still has. Both sides then lose
the same blocks; what the search of `Dag` finds does not matter for it.

**Sessions.** `AtMostOneSession` counts the open sessions of a peer; the code compares
with the one entry of `m_sessions`. `ConnsOK` connects them: an open session is the
one `m_sessions` names. A stale entry may name a closed session, but no open session
is ever without its entry, so the duplicate check of `startPeerSession` finds it. `RecordsOK`
needs the types of the records: `isUseless` and the node table's drops spare
`Required` peers, and nothing turns a `Required` record into an `Optional` one.

Only model-checked, and why:

* liveness (`Processed`, `BlocksExecuted`, `NodeCatchesUp`, `VotesArrive`,
  `TableSettles`): fairness is out of the prover's reach;
* `SortitionSurvivesRestart`, `LambdaSurvivesReplay` and the counters of `OneBlockUndone`
  compare with folds over the chain, and `OrderAgrees`, `FinalizedOnceWithParents`,
  `FinalizedOnceInNonceOrder`
  and `EncodingIsFaithful` rest on recursive definitions: what they compute for every
  input needs induction over data;
* `RestartKeepsDag` compares two frontiers, each the result of such a search;
* the invariants of `VoteManager` are about sums of weights over sets of votes, and
  those sums are folds;
* `PeriodListsAgree`, `QueueIsRight`, `PillarBlocksAgree`, `TableAgrees` and the
  invariants of the small components of `chain` and `services` have no proof.

## 6. Where the code differs from what it says

`cert_vote_crash`: the cert vote is gossiped before the cert-voted block is saved;
after a crash in between the node next-votes something else, although the protocol
description says it next-votes what it certified. `findings` in `PROJECT.json` quotes
both sides. The theorems show what is left: agreement as long as such nodes and the
Byzantine ones together hold at most *t* votes.

`bundle_overtaken`: a worker compares the round of a completed bundle with the current one
and writes it later. If the round advances in between and the new round's bundle is saved
first, the old one replaces it, although the comment says that only bundles of the current
round are saved. A restart then loads a quorum of an earlier round.

`subscribers`: `doc/RPC.md` promises a notification for each matching event. A session that
is dropped from `sessions_` while it is in its handshake gets none, and the walk over the
subscriptions is not protected from changes, so that the process may die in it.

Further places met while modelling, which the models follow as the code is. Where a
property had to be stated more weakly than the code's own words, the row says so:

| Place | What the code does |
|---|---|
| `vote_manager.cpp:234` | the bundle that makes a node skip a round is not saved; after a crash the node next-votes null (`src/doc/pbft/latex/pbft.tex:77`) |
| `verified_votes.cpp:187` | the first vote of a step is not recorded for its voter, a second one is counted |
| `dag.cpp:159` | vertices are marked when pushed, so the order is not topological although the comment at `:129` says so: a block may come before its tip in its period. All nodes compute the same order; `FinalizedOnceWithParents` states what holds |
| `pbft_manager.cpp:1457` | clipping reads past the end of a ghost path of length 1 |
| `pbft_manager.cpp:2060`, `:2102` | block and lambda are committed in two batches; a crash in between loses the lambda of the block (`:2082`), and for the first block of the hardfork the node cannot start (`:73`) |
| `pbft_manager.cpp:115` | an `if` without braces guards only the log line; at a pillar period every restart runs `processPillarBlock` again (comment at `:114`) |
| `pillar_chain_manager.cpp:44`, `:177` | the finalized pillar block is saved before the batch with its votes; after a crash in between the assertion of the constructor ("There should always be pillar votes stored in period data for finalized pillar block") fails. The other restart that fails is at the first pillar period, with no current pillar block yet (`pbft_manager.cpp:115`) |
| `pillar_chain_manager.cpp:129`, `:321` | only one own pillar vote is saved; the fallback for verified votes returns those of the period whatever hash was asked for |
| `dag_manager.cpp:157`, `:381` | transactions and block are written in two batches; transactions of expired blocks are dropped |
| `transaction_manager.cpp:348`, `:397`, `:461` | a check without the lock; packing puts transactions back; the saved count can drift |
| `priority_queue.cpp:84` | the first pass of `pop` can take a thread that is reserved for an idle queue (`priority_queue.hpp:86`) |
| `tarcap_thread_pool.cpp:75` | a worker between its test of the stop flag and its wait misses the only notification |
| `pbft_sync_packet_handler.cpp:30` | the comment rules races out, but the syncing peer is also changed by other handlers and the timer, so that an honest peer's packet may be taken for a wrong one |
| `peers_state.cpp:36`, `taraxa_capability.cpp:84`, `:136` | a ready peer may outlive its session; the flag of a long queue stays set; a pending peer that sends anything but a status packet is disconnected, not just the packet dropped |
| `RLPxHandshake.cpp:352`, `Host.cpp:464` | cancelling the timer does not stop a handler that is already queued; failed attempts are counted before the attempt is known to fail and never reset |
| `NodeTable.cpp:288`, `:324` | the event of an eviction overwrites an earlier one of the node that the host has not seen; weak pointers of dead entries keep their place in a bucket |
| `Session.cpp:179`, `:344` | a payload of a multiple of the frame size ends with an empty frame, which the reader needs |
| `packet_handler.cpp:18` | a packet of a peer that is gone is dropped, one of a peer that is back is handled: a transaction packet may be lost and the DAG block packet sent after it handled, which then lacks the transaction and starts a DAG sync |
| `src/libraries/core_libs/network/rpc/eth/Eth.cpp:388`, `Debug.cpp:54` | these readers do not check whether the block is executed; `final_chain.cpp:438`, `:579` then cache a list of transactions without the system transaction, which later readers get as well |
| `final_chain.cpp:71`, `:217` | the counters are added to with DAG blocks and taken back with transactions, so they drift when a block with only one of the two is undone |
| `pbft_manager.cpp:1811` | a cached order makes a block valid whatever its order hash is |
| `final_chain.cpp:268`, `storage.cpp:356` | the two databases are snapshotted and reverted one after the other; a crash in between leaves a snapshot whose revert loses the state, and every block is executed again |
| `LogFilter.cpp:97`, `src/libraries/common/include/common/util.hpp:36` | the test for the number of topics of a log is off by one, so a log that is one topic short may be returned; `int_pow` squares, which is a power only up to exponent 2, the largest in use |
| `gas_pricer.cpp:39`, `app.cpp:183` | a block committed while the ring is filled counts twice; blocks replayed before the subscription are not priced. Until as many updates as the ring has places were handled the price is then not that of the last blocks, as `gas_pricer.hpp:19` says |
| `app.cpp:349`, `:207` | the size of the chain is read before the lock of the queue it is compared with, so the queue may refuse a period; the rebuild ends before it and logs completion |
| `block_stats.cpp:51` | a second vote of a voter is asserted not to happen, and ignored in a release build |

## 7. Not modelled

Cryptography (signatures, VRF, VDF), the EVM (a Go library behind the state API),
read-only queries, configuration, logging, metrics, migrations, the contents of DAG sync
answers beyond whether they pass, the request for missing periods that a vote far ahead
triggers (`ext_votes_packet_handler.cpp:99`), NAT and network interfaces; `PROJECT.json` has the reason for each.

Known places the models do not reach: the two reads of the null bundle in
`firstFinish_` that a worker may separate; what the restarted PBFT thread does in the
old round of a new period after a crash between the commit of a period and
`resetPbftConsensus`. A crash between the commit and `setDagBlockOrder` is modelled,
but `RestartKeepsDag` leaves it out: blocks that would have expired come back then.
`LambdaSurvivesReplay` leaves out the crash between the two batches of a push.
`VoteManager` is not composed with `PbftConsensus`: that the votes and bundles of one
are those of the other is an argument by reading.
