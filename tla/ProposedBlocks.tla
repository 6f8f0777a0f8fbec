--------------------------- MODULE ProposedBlocks ---------------------------
(***************************************************************************)
(* The PBFT blocks a node knows for the periods to come: packet workers    *)
(* insert them into proposed_blocks_ and into the database, the PBFT       *)
(* thread validates them when it picks a leader, votes or pushes, and the  *)
(* end of a period removes them.  Beside them live what a validated block  *)
(* needs when it is pushed, the DAG order of its anchor, and what a vote   *)
(* needs, the eligible wallets of the period; the head of the PBFT chain   *)
(* decides what the period is.                                             *)
(***************************************************************************)
EXTENDS Integers, Sequences, FiniteSets, TLC

CONSTANTS Blocks,           \* [id, period, prev, anchor, ordered, rewards, extra]; 0 is no anchor, no
                            \* block; ordered: the order hash is the one of the anchor's order;
                            \* rewards: "held" reward votes, or "late" ones not yet received
          Votes,            \* propose votes: [block, rank]; the rank is the lowest hash of the vote
          Workers,          \* packet workers
          HeavyAnchors,     \* anchors whose order exceeds the gas limit of a period
          delegation_delay,
          FicusHf,          \* first period with extra data
          PillarInterval,
          MaxCrashes

VARIABLES chain,            \* the pushed blocks, in the database
          head,             \* PbftChain: size_, non_empty_size_, last block and last anchor
          dbHead,           \* its row in the database: the first three
          executed,         \* last block of the final chain
          proposed_blocks_, \* the known blocks and whether they were validated
          dbProposed,       \* column proposed_pbft_blocks
          cache,            \* anchors in anchor_dag_block_order_cache_
          here,             \* anchors whose DAG blocks are all here, blocks whose late reward
                            \* votes are, period of the current pillar block
          votes,            \* propose votes in the vote manager
          handling,         \* the block each worker is about to insert
          wallets,          \* period of eligible_wallets_
          pc,               \* PBFT thread: voting, at the end of a period, or starting
          voted,            \* blocks the node voted for in the period
          crashes

chainVars == <<chain, head, dbHead, executed>>
blockVars == <<proposed_blocks_, dbProposed, cache, here, votes, handling>>
vars == <<chainVars, blockVars, wallets, pc, voted, crashes>>

Period == head.size_ + 1
Pushed == {chain[i] : i \in DOMAIN chain}

-----------------------------------------------------------------------------
(* The PBFT chain *)

NoHead == [size_ |-> 0, non_empty_size_ |-> 0, last |-> 0]

(* updatePbftChain, and getJsonStrForBlock for the row *)
HeadWith(h, b) ==
  [size_ |-> h.size_ + 1,
   non_empty_size_ |-> IF b.anchor = 0 THEN h.non_empty_size_ ELSE h.non_empty_size_ + 1,
   last |-> b.id]

updatePbftChain(h, b) == HeadWith(h, b) @@ [anchor |-> IF b.anchor = 0 THEN h.anchor ELSE b.anchor]

(* PbftChain's constructor walks back to the last block with an anchor. *)
HeadLoaded(row, blocks) ==
  LET anchored == {i \in DOMAIN blocks : blocks[i].anchor # 0}
  IN row @@ [anchor |-> IF anchored = {} THEN 0
                        ELSE blocks[CHOOSE i \in anchored : \A j \in anchored : j <= i].anchor]

checkPbftBlockValidation(b) == b.period = head.size_ + 1 /\ b.prev = head.last

-----------------------------------------------------------------------------
(* Validation *)

isFicusHardfork(p) == p >= FicusHf
isPbftWithPillarBlockPeriod(p) == p >= FicusHf /\ p % PillarInterval = 1

validatePbftBlockExtraData(b) ==
  b.extra = IF isPbftWithPillarBlockPeriod(b.period) THEN "pillar"
            ELSE IF isFicusHardfork(b.period) THEN "data" ELSE "none"

(* The block names the pillar block of the period before; the node's current *)
(* one is older when it could not create that one.                            *)
PillarBlockAgrees(b) == isPbftWithPillarBlockPeriod(b.period) => here.pillar = b.period - 1

checkRewardVotes(b) == b.period = 1 \/ b.rewards = "held" \/ b.id \in here.rewardVotes

(* The hash the block refers to is known once the block delegation_delay    *)
(* before it was executed.                                                   *)
validateFinalChainHash(b) == b.period <= executed + delegation_delay

(* Anchors the gas limit is applied to: not the next one of the ghost path,  *)
(* which moves with the DAG, and none before the first block.                *)
Limited == IF chain = <<>> THEN {{}} ELSE SUBSET HeavyAnchors

(* The DAG part: an order found in the cache is taken without a look at the *)
(* order hash; one that exceeds the limit is erased from it again.           *)
OrderKnown(b, limited) ==
  \/ b.anchor = 0
  \/ b.anchor \in cache
  \/ b.anchor \in here.anchors /\ b.ordered /\ b.anchor \notin limited

validatePbftBlock(b, limited) ==
  /\ checkPbftBlockValidation(b)
  /\ validateFinalChainHash(b)
  /\ checkRewardVotes(b)
  /\ validatePbftBlockExtraData(b) /\ PillarBlockAgrees(b)
  /\ OrderKnown(b, limited)

(* getValidPbftProposedBlock: the block is known, and valid unless it was   *)
(* found so before.                                                          *)
IsValid(b, limited) == b \in DOMAIN proposed_blocks_ /\ (proposed_blocks_[b] \/ validatePbftBlock(b, limited))

AnchorsOf(bs) == {b.anchor : b \in bs} \ {0}

(* Mutant: the order found by the validation is not kept. *)
MarkedWithoutOrder(bs) ==
  /\ proposed_blocks_' = [b \in DOMAIN proposed_blocks_ |-> proposed_blocks_[b] \/ b \in bs]
  /\ UNCHANGED cache

(* Blocks that were found valid are marked, their orders are cached. *)
markBlockAsValid(bs) ==
  /\ proposed_blocks_' = [b \in DOMAIN proposed_blocks_ |-> proposed_blocks_[b] \/ b \in bs]
  /\ cache' = cache \cup AnchorsOf({b \in bs : ~proposed_blocks_[b]})

-----------------------------------------------------------------------------
Loaded == [b \in dbProposed |-> FALSE]

Init ==
  /\ chain = <<>> /\ dbHead = NoHead /\ head = HeadLoaded(NoHead, <<>>) /\ executed = 0
  /\ proposed_blocks_ = <<>> /\ dbProposed = {} /\ cache = {} /\ votes = {}
  /\ here = [anchors |-> {}, rewardVotes |-> {}, pillar |-> 0]
  /\ handling = [w \in Workers |-> {}]
  /\ wallets = 0 /\ pc = "voting" /\ voted = {} /\ crashes = 0

(* pushProposedPbftBlock: saved and inserted, as not validated unless known. *)
Insert(b) ==
  /\ dbProposed' = dbProposed \cup {b}
  /\ proposed_blocks_' = proposed_blocks_ @@ (b :> FALSE)

(* A vote packet with its block: the vote is added first ... *)
ReceiveVote(w, v) ==
  /\ handling[w] = {} /\ v \notin votes
  /\ v.block.period >= Period
  /\ votes' = votes \cup {v}
  /\ handling' = [handling EXCEPT ![w] = {v.block}]
  /\ UNCHANGED <<chainVars, proposed_blocks_, dbProposed, cache, here, wallets, pc, voted, crashes>>

(* ... and processProposedBlock inserts the block unless it is known. *)
processProposedBlock(w) ==
  /\ \E b \in handling[w] :
       IF b \in DOMAIN proposed_blocks_ THEN UNCHANGED <<proposed_blocks_, dbProposed>> ELSE Insert(b)
  /\ handling' = [handling EXCEPT ![w] = {}]
  /\ UNCHANGED <<chainVars, cache, here, votes, wallets, pc, voted, crashes>>

(* A bundle of proposed blocks from the syncing peer: no votes. *)
ReceiveBlock(w, b) ==
  /\ handling[w] = {} /\ b \notin DOMAIN proposed_blocks_
  /\ b.period \in Period..Period + 5
  /\ handling' = [handling EXCEPT ![w] = {b}]
  /\ UNCHANGED <<chainVars, proposed_blocks_, dbProposed, cache, here, votes, wallets, pc, voted, crashes>>

(* The missing DAG blocks below an anchor arrive, or missing cert votes for *)
(* the last block.                                                           *)
DagBlocksArrive(a) ==
  /\ a \notin here.anchors
  /\ here' = [here EXCEPT !.anchors = @ \cup {a}]
  /\ UNCHANGED <<chainVars, proposed_blocks_, dbProposed, cache, votes, handling, wallets, pc, voted, crashes>>

RewardVotesArrive(b) ==
  /\ b.prev = head.last /\ ~checkRewardVotes(b)
  /\ here' = [here EXCEPT !.rewardVotes = @ \cup {b.id}]
  /\ UNCHANGED <<chainVars, proposed_blocks_, dbProposed, cache, votes, handling, wallets, pc, voted, crashes>>

(* The final chain executes the next pushed block. *)
Execute ==
  /\ executed < Len(chain)
  /\ executed' = executed + 1
  /\ UNCHANGED <<chain, head, dbHead, blockVars, wallets, pc, voted, crashes>>

(* generatePbftBlock: the node's own block is validated as a leader, added  *)
(* with its vote and saved.                                                  *)
proposeBlock_(v) ==
  /\ pc = "voting" /\ v \notin votes /\ v.block.ordered
  /\ \E limited \in Limited : validatePbftBlock(v.block, limited)
  /\ votes' = votes \cup {v}
  /\ Insert(v.block)
  /\ cache' = cache \cup AnchorsOf({v.block})
  /\ voted' = voted \cup {v.block}
  /\ UNCHANGED <<chainVars, here, handling, wallets, pc, crashes>>

(* identifyBlock_: the candidates are visited from the lowest rank up to    *)
(* the first valid one with an anchor; an empty block leads when there is    *)
(* no other.                                                                 *)
Candidates == {v \in votes : v.block.period = Period /\ v.block \notin Pushed}
Lowest(vs) == {v \in vs : \A u \in vs : v.rank <= u.rank}

identifyLeaderBlock(limited) ==
  LET valid == {v \in Candidates : IsValid(v.block, limited)}
      full == Lowest({v \in valid : v.block.anchor # 0})
      visited == {v \in valid : \A f \in full : v.rank <= f.rank}
      leader == IF full # {} THEN full ELSE Lowest(valid)
  IN /\ pc = "voting" /\ leader # {}
     /\ markBlockAsValid({v.block : v \in visited})
     /\ voted' = voted \cup {v.block : v \in leader}
     /\ UNCHANGED <<chainVars, dbProposed, here, votes, handling, wallets, pc, crashes>>

(* certifyBlock_ and the finishing steps vote for a block that got 2t+1     *)
(* votes, whatever the leader was.                                           *)
VoteForQuorum(b) ==
  /\ pc = "voting" /\ b.period = Period
  /\ \E limited \in Limited : IsValid(b, limited)
  /\ markBlockAsValid({b})
  /\ voted' = voted \cup {b}
  /\ UNCHANGED <<chainVars, dbProposed, here, votes, handling, wallets, pc, crashes>>

Push(b) ==
  /\ chain' = Append(chain, b)
  /\ dbHead' = HeadWith(dbHead, b)
  /\ head' = updatePbftChain(head, b)
  /\ pc' = "pushed"
  /\ UNCHANGED executed

(* tryPushCertVotesBlock and pushCertVotedPbftBlockIntoChain_, which needs  *)
(* the reward votes once more.                                               *)
tryPushCertVotesBlock(b) ==
  /\ pc = "voting" /\ b.period = Period
  /\ \E limited \in Limited : IsValid(b, limited)
  /\ checkRewardVotes(b)
  /\ markBlockAsValid({b})
  /\ Push(b)
  /\ UNCHANGED <<dbProposed, here, votes, handling, wallets, voted, crashes>>

(* A synced block fits the chain and brings its DAG blocks along. *)
pushSyncedPbftBlock(b) ==
  /\ pc = "voting" /\ checkPbftBlockValidation(b)
  /\ Push(b)
  /\ here' = [here EXCEPT !.anchors = @ \cup AnchorsOf({b})]
  /\ UNCHANGED <<proposed_blocks_, dbProposed, cache, votes, handling, wallets, voted, crashes>>

cleanupProposedPbftBlocksByPeriod(bs) == {b \in bs : b.period >= Period}

(* createPillarBlock for the pushed period makes its pillar block current,  *)
(* unless it fails.                                                          *)
processPillarBlock ==
  \/ UNCHANGED here
  \/ isPbftWithPillarBlockPeriod(Period) /\ here' = [here EXCEPT !.pillar = head.size_]

(* The rest of pushPbftBlock_: the order cache is cleared, and once the     *)
(* final chain is close enough advancePeriod updates the wallets and         *)
(* removes the votes and blocks of the period; the pillar block follows.     *)
advancePeriod ==
  /\ pc = "pushed"
  /\ head.size_ <= executed + delegation_delay
  /\ cache' = {}
  /\ wallets' = head.size_
  /\ votes' = {v \in votes : v.block.period >= Period}
  /\ dbProposed' = dbProposed \ (DOMAIN proposed_blocks_ \ cleanupProposedPbftBlocksByPeriod(DOMAIN proposed_blocks_))
  /\ proposed_blocks_' = [b \in cleanupProposedPbftBlocksByPeriod(DOMAIN proposed_blocks_) |-> proposed_blocks_[b]]
  /\ voted' = {}
  /\ processPillarBlock
  /\ pc' = "voting"
  /\ UNCHANGED <<chainVars, handling, crashes>>

(* The node dies and comes up: the head is read, the saved blocks are       *)
(* loaded as not validated, nothing else is left in memory; reward votes     *)
(* that were not saved are gone too.                                         *)
Crash ==
  /\ crashes < MaxCrashes
  /\ crashes' = crashes + 1
  /\ head' = HeadLoaded(dbHead, chain)
  /\ proposed_blocks_' = Loaded
  /\ cache' = {} /\ votes' = {}
  /\ handling' = [w \in Workers |-> {}]
  /\ voted' = {b \in voted : b.period = dbHead.size_ + 1}
  /\ pc' = "starting"
  /\ here' \in {here, [here EXCEPT !.rewardVotes = {}]}
  /\ UNCHANGED <<chain, dbHead, executed, dbProposed, wallets>>

(* The constructor waits for the final chain, sets the wallets and makes    *)
(* the pillar block.                                                         *)
Start ==
  /\ pc = "starting"
  /\ head.size_ <= executed + delegation_delay
  /\ wallets' = head.size_
  /\ processPillarBlock
  /\ pc' = "voting"
  /\ UNCHANGED <<chainVars, proposed_blocks_, dbProposed, cache, votes, handling, voted, crashes>>

Next ==
  \/ \E w \in Workers :
       \/ \E v \in Votes : ReceiveVote(w, v)
       \/ \E b \in Blocks : ReceiveBlock(w, b)
       \/ processProposedBlock(w)
  \/ \E a \in AnchorsOf(Blocks) : DagBlocksArrive(a)
  \/ Execute
  \/ \E v \in Votes : proposeBlock_(v)
  \/ \E limited \in Limited : identifyLeaderBlock(limited)
  \/ \E b \in DOMAIN proposed_blocks_ : VoteForQuorum(b) \/ tryPushCertVotesBlock(b)
  \/ \E b \in Blocks : pushSyncedPbftBlock(b) \/ RewardVotesArrive(b)
  \/ advancePeriod
  \/ Crash
  \/ Start

Spec == Init /\ [][Next]_vars

-----------------------------------------------------------------------------
(* Whenever the PBFT thread can vote or push: the order of every validated  *)
(* block of the period is cached, which pushCertVotedPbftBlockIntoChain_     *)
(* asserts before it uses the order, the wallets are those of the period,    *)
(* which getWallets asserts, and the blocks the node voted for are known     *)
(* and saved although workers, the end of periods and crashes interfere.     *)
ReadyToPush ==
  pc = "voting" =>
    /\ wallets = head.size_
    /\ \A b \in DOMAIN proposed_blocks_ :
         (b.period = Period /\ proposed_blocks_[b] /\ b.anchor # 0) => b.anchor \in cache
    /\ \A b \in voted : b \in DOMAIN proposed_blocks_ /\ b \in dbProposed

(* The node votes for a block with a wrong order hash only when it knows a  *)
(* block of the same period and anchor with the right one: validatePbftBlock *)
(* leaves the order hash out for an order it has cached.                      *)
WrongOrderNotAlone ==
  \A b \in voted : b.anchor # 0 /\ ~b.ordered =>
    \E c \in DOMAIN proposed_blocks_ : c.ordered /\ c.anchor = b.anchor /\ c.period = b.period

(* A restart at any point finds the chain head as it was in memory, the     *)
(* last anchor, which is not in the saved row, included.                     *)
HeadIsRestored == HeadLoaded(dbHead, chain) = head
=============================================================================
