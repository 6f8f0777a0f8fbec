----------------------------- MODULE PillarChain -----------------------------
(***************************************************************************)
(* The pillar chain of a set of nodes: every Interval periods each node    *)
(* creates a pillar block from the executed chain (processPillarBlock,     *)
(* createPillarBlock), signs pillar votes for it, and the next PBFT block  *)
(* carries its hash.  pushPbftBlock_ finalizes the pillar block before it  *)
(* commits that PBFT block, and stores the pillar votes with it.           *)
(*                                                                         *)
(* A push is several durable writes, and a node can crash between any two  *)
(* of them: savePillarBlock, the batch of the PBFT block, the new current  *)
(* pillar block, the own pillar vote.  Only what the database holds is     *)
(* left to the constructors, which run the pillar step of the last period  *)
(* once more.                                                              *)
(*                                                                         *)
(* The hash of a block is its place in the list of all blocks any node has *)
(* created.  The state root and the bridge fields of a block are fixed by  *)
(* the executed chain and its period.  Which PBFT block is decided is the  *)
(* matter of PbftConsensus.                                                *)
(***************************************************************************)
EXTENDS Integers, Sequences, FiniteSets, Functions, FiniteSetsExt

CONSTANTS
  Nodes, Validators,
  WalletsOf,        \* the validators whose keys a node holds (config wallets)
  Stakes,           \* Stakes[p]: the vote counts of the validators at period p
  FirstPillarPeriod,  \* firstPillarBlockPeriod()
  Interval,           \* pillar_blocks_interval
  DelegationDelay,    \* how far ahead of the last executed block DPOS answers
  MaxPeriod, MaxCrashes  \* bounds

VARIABLES
  blocks,     \* the different pillar blocks created so far, by hash
  decided,    \* pillar block anchored in the PBFT block of each decided period
  chain,      \* pbft_chain size: periods committed with their period data
  current,    \* current_pillar_block_, memory and database alike
  counts,     \* current_pillar_block_vote_counts_, saved with it
  finalized,  \* column pillar_block: the finalized pillar blocks in order
  stored,     \* the pillar votes in the saved period data
  own,        \* column current_pillar_block_own_vote: the one vote it holds
  votes,      \* pillar_votes_, in memory only
  placed,     \* last_placed_pillar_vote_period_, in memory only
  pc,         \* how far the PBFT thread is in pushPbftBlock_
  push,       \* the votes it will store with the block it pushes
  sent,       \* pillar votes given to the network
  crashes

vars == <<blocks, decided, chain, current, counts, finalized, stored, own, votes,
          placed, pc, push, sent, crashes>>
durable == <<blocks, decided, chain, current, counts, finalized, stored, own, sent>>

NoBlock == 0
getHash(b) == IF b \in Range(blocks)
                THEN CHOOSE h \in DOMAIN blocks : blocks[h] = b
                ELSE Len(blocks) + 1
PeriodOf(h) == IF h = NoBlock THEN 0 ELSE blocks[h].period
NoVote == [period |-> 0]

isPillarBlockPeriod(p) == p >= FirstPillarPeriod /\ p % Interval = 0
isPbftWithPillarBlockPeriod(p) == p >= FirstPillarPeriod /\ p % Interval = 1

\* The executed chain of a node answers questions about period p.
Known(n, p) == p <= chain[n] + DelegationDelay

\* Vote counts of sets of validators, and of votes of period p: they are those
\* of the pillar block, a period earlier.
StakeOf == [p \in DOMAIN Stakes |->
              [S \in SUBSET Validators |->
                 MapThenSumSet(LAMBDA w : Stakes[p][w], S)]]
TotalStake(p) == StakeOf[p][Validators]
VotesWeight(p, vs) == StakeOf[p - 1][{v.voter : v \in vs}]

\* Mutant: half of the stake is enough.
HalfOfStake(p) == TotalStake(p) \div 2

getPillarConsensusThreshold(p) == TotalStake(p) \div 2 + 1

\* Only the validators whose count differs are listed; one that is new counts
\* from nothing, one that left counts down to nothing.
getOrderedValidatorsVoteCountsChanges(new, old) ==
  LET changed == {w \in Validators : new[w] # old[w]}
  IN [w \in changed |-> new[w] - old[w]]

-----------------------------------------------------------------------------
(* Pillar votes in memory *)

VotesFor(vs, p, b) == {v \in vs : v.period = p /\ v.block = b}

isUniqueVote(n, v) ==
  \A u \in votes[n] : u.period = v.period /\ u.voter = v.voter => u = v

isRelevantPillarVote(n, v) ==
  /\ v \notin votes[n]
  /\ IF current[n] = NoBlock
       THEN v.period = FirstPillarPeriod + 1
       ELSE \/ v.period = PeriodOf(current[n]) + 1 /\ v.block = current[n]
            \/ v.period = PeriodOf(current[n]) + Interval + 1

validatePillarVote(n, v) ==
  /\ isUniqueVote(n, v)
  /\ Known(n, v.period - 1)
  /\ Stakes[v.period - 1][v.voter] > 0

\* A vote from the network is added, or dropped without blaming the peer.
processPillarVote(n, v) == isRelevantPillarVote(n, v) /\ validatePillarVote(n, v)

\* The votes among vs that addVerifiedPillarVote adds.
Addable(n, vs) ==
  {v \in vs : /\ Known(n, v.period - 1)
              /\ Stakes[v.period - 1][v.voter] > 0
              /\ isUniqueVote(n, v)}

\* The heaviest votes, as few as reach the threshold; votes of one weight come
\* in any order.
AboveThreshold(p, vs) ==
  LET threshold == getPillarConsensusThreshold(p - 1)
      weight(S) == VotesWeight(p, S)
  IN {S \in SUBSET vs :
        /\ weight(S) >= threshold
        /\ \E last \in S : /\ weight(S \ {last}) < threshold
                           /\ \A v \in S : weight({v}) >= weight({last})
        /\ \A v \in S, u \in vs \ S : weight({v}) >= weight({u})}

\* The possible answers: votes in memory or, when they are not enough, those
\* of the saved period.
getVerifiedPillarVotes(n, known, p, b) ==
  LET inMemory == AboveThreshold(p, VotesFor(known, p, b))
      inDb == {v \in stored[n] : v.period = p}
  IN IF inMemory # {} THEN inMemory ELSE {inDb} \ {{}}

LastFinalized(n) ==
  IF finalized[n] = <<>> THEN NoBlock ELSE finalized[n][Len(finalized[n])]

Up(n) == pc[n] \notin {"down", "dead"}

-----------------------------------------------------------------------------
Init ==
  /\ blocks = <<>>
  /\ decided = <<>>
  /\ chain = [n \in Nodes |-> 0]
  /\ current = [n \in Nodes |-> NoBlock]
  /\ counts = [n \in Nodes |-> [w \in Validators |-> 0]]
  /\ finalized = [n \in Nodes |-> <<>>]
  /\ stored = [n \in Nodes |-> {}]
  /\ own = [n \in Nodes |-> NoVote]
  /\ votes = [n \in Nodes |-> {}]
  /\ placed = [n \in Nodes |-> 0]
  /\ pc = [n \in Nodes |-> "voting"]
  /\ push = [n \in Nodes |-> {}]
  /\ sent = {}
  /\ crashes = 0

\* createPbftBlockExtraData on the proposer and validatePbftBlock on the
\* voters: n puts b into the block of period p, or accepts it there.
Anchors(n, p, b) ==
  /\ pc[n] = "voting" /\ chain[n] = p - 1
  /\ isPbftWithPillarBlockPeriod(p) => current[n] = b /\ PeriodOf(b) = p - 1

\* The consensus decides the block of the next period: 2t+1 votes accept what
\* it anchors.
DecidePbftBlock(b) ==
  LET p == Len(decided) + 1
      voters == UNION {WalletsOf[n] : n \in {m \in Nodes : Anchors(m, p, b)}}
  IN /\ p <= MaxPeriod
     /\ isPbftWithPillarBlockPeriod(p) <=> b # NoBlock
     /\ StakeOf[p][voters] >= (TotalStake(p) * 2) \div 3 + 1
     /\ decided' = Append(decided, b)
     /\ UNCHANGED <<blocks, chain, current, counts, finalized, stored, own,
                    votes, placed, pc, push, sent, crashes>>

-----------------------------------------------------------------------------
(* pushPbftBlock_ *)

\* finalizePillarBlock with the pillar votes known: save the block unless it
\* is the latest already, and forget the votes of earlier periods.
FinalizePillarBlock(n, b, known) ==
  /\ current[n] = b
  /\ \E vs \in getVerifiedPillarVotes(n, known, PeriodOf(b) + 1, b) :
       push' = [push EXCEPT ![n] = vs]
  /\ IF LastFinalized(n) = b
       THEN /\ votes' = [votes EXCEPT ![n] = known]
            /\ UNCHANGED finalized
       ELSE /\ votes' = [votes EXCEPT ![n] = {v \in known : v.period > PeriodOf(b)}]
            /\ finalized' = [finalized EXCEPT ![n] = Append(@, b)]

\* The batch of the block with its period data, then advancePeriod.
Commit(n, pillarVotes) ==
  /\ chain' = [chain EXCEPT ![n] = @ + 1]
  /\ stored' = [stored EXCEPT ![n] = @ \cup pillarVotes]
  /\ pc' = [pc EXCEPT ![n] = IF isPillarBlockPeriod(chain[n] + 1)
                               THEN "processing" ELSE "voting"]

\* Up to the first write: that of the pillar block if the block anchors one.
StartPush(n, p, known) ==
  /\ pc[n] = "voting"
  /\ IF isPbftWithPillarBlockPeriod(p)
       THEN /\ FinalizePillarBlock(n, decided[p], known)
            /\ pc' = [pc EXCEPT ![n] = "pushing"]
            /\ UNCHANGED <<chain, stored>>
       ELSE /\ Commit(n, {})
            /\ UNCHANGED <<push, finalized, votes>>
  /\ UNCHANGED <<blocks, decided, current, counts, own, placed, sent, crashes>>

\* tryPushCertVotesBlock: the block of the node's period has its cert votes.
PushCertVotedBlock(n) ==
  LET p == chain[n] + 1
  IN p <= Len(decided) /\ StartPush(n, p, votes[n])

\* validatePbftBlockPillarVotes: every vote of the synced period data is for
\* the current pillar block, each is added, and together they are enough.
SyncedVotesFit(n, p, vs) ==
  /\ vs # {} /\ current[n] # NoBlock /\ PeriodOf(current[n]) + 1 = p
  /\ \A v \in vs : /\ v.period = p /\ v.block = current[n]
                   /\ validatePillarVote(n, v)
  /\ VotesWeight(p, vs) >= getPillarConsensusThreshold(p - 1)

\* pushSyncedPbftBlocksIntoChain with the period data of peer m.
PushSyncedBlock(n, m) ==
  LET p == chain[n] + 1
      synced == {v \in stored[m] : v.period = p}
  IN /\ Up(m) /\ p <= chain[m]
     /\ isPbftWithPillarBlockPeriod(p) => SyncedVotesFit(n, p, synced)
     /\ StartPush(n, p, votes[n] \cup synced)

\* The peer that is asked for pillar votes: one with the longest chain.
requestPillarBlockVotesBundle(n, m) ==
  /\ m # n /\ Up(m)
  /\ \A k \in Nodes \ {n} : Up(k) => chain[k] <= chain[m]

\* Its answer: all the votes it has in memory, or those of the saved period.
BundleAnswer(m, p, b) ==
  LET inMemory == VotesFor(votes[m], p, b)
  IN IF inMemory # {} THEN inMemory ELSE {v \in stored[m] : v.period = p}

\* finalizePillarBlock found too few votes and asked for them: each vote of the
\* answer goes through processPillarVote.
PillarVotesBundle(n, m) ==
  LET p == chain[n] + 1
      b == decided[p]
      taken == {v \in BundleAnswer(m, p, b) : processPillarVote(n, v)}
  IN /\ pc[n] = "voting" /\ p <= Len(decided)
     /\ isPbftWithPillarBlockPeriod(p) /\ current[n] = b
     /\ getVerifiedPillarVotes(n, votes[n], p, b) = {}
     /\ requestPillarBlockVotesBundle(n, m)
     /\ taken # {}
     /\ votes' = [votes EXCEPT ![n] = @ \cup taken]
     /\ UNCHANGED <<blocks, decided, chain, current, counts, finalized, stored,
                    own, placed, pc, push, sent, crashes>>

\* The rest of the push of a block that anchors a pillar block.
CommitPbftBlock(n) ==
  /\ pc[n] = "pushing"
  /\ Commit(n, push[n])
  /\ push' = [push EXCEPT ![n] = {}]
  /\ UNCHANGED <<blocks, decided, current, counts, finalized, own, votes,
                 placed, sent, crashes>>

-----------------------------------------------------------------------------
(* processPillarBlock *)

NewPillarBlock(n, p) ==
  IF p = FirstPillarPeriod
    THEN [period |-> p, previous |-> NoBlock, changes |-> Stakes[p]]
    ELSE [period |-> p, previous |-> LastFinalized(n),
          changes |-> getOrderedValidatorsVoteCountsChanges(Stakes[p], counts[n])]

isValidPillarBlock(n, b) ==
  \/ b.period = FirstPillarPeriod
  \/ /\ b.period - Interval = PeriodOf(LastFinalized(n))
     /\ b.previous = LastFinalized(n)

\* createPillarBlock: a valid block becomes the current one, in the database
\* and in memory.
CreatePillarBlock(n) ==
  LET b == NewPillarBlock(n, chain[n]) IN
  /\ pc[n] = "processing"
  /\ IF isValidPillarBlock(n, b)
       THEN /\ blocks' = IF b \in Range(blocks) THEN blocks ELSE Append(blocks, b)
            /\ current' = [current EXCEPT ![n] = getHash(b)]
            /\ counts' = [counts EXCEPT ![n] = Stakes[chain[n]]]
            /\ pc' = [pc EXCEPT ![n] = "created"]
       ELSE /\ pc' = [pc EXCEPT ![n] = "voting"]
            /\ UNCHANGED <<blocks, current, counts>>
  /\ UNCHANGED <<decided, chain, finalized, stored, own, votes, placed, push,
                 sent, crashes>>

\* genAndPlacePillarVote with every eligible wallet: the column for the own
\* vote keeps the last one, the network may get them all.
PlaceVotes(n, p, b, broadcast) ==
  LET signed == {[period |-> p, block |-> b, voter |-> w] : w \in WalletsOf[n]}
      new == Addable(n, signed)
  IN /\ votes' = [votes EXCEPT ![n] = @ \cup new]
     /\ \E last \in IF new = {} THEN {own[n]} ELSE new :
          own' = [own EXCEPT ![n] = last]
     /\ placed' = [placed EXCEPT ![n] = IF new = {} THEN @ ELSE p]
     /\ sent' = IF broadcast THEN sent \cup new ELSE sent

\* Synced blocks wait in the queue only when a peer has more of them.
SyncQueueMayHaveBlocks(n) == \E m \in Nodes : chain[m] > chain[n]

\* Right after the block was created; not sent while synced blocks wait.
VoteForNewPillarBlock(n) ==
  /\ pc[n] = "created"
  /\ \E broadcast \in IF SyncQueueMayHaveBlocks(n) THEN BOOLEAN ELSE {TRUE} :
       PlaceVotes(n, chain[n] + 1, current[n], broadcast)
  /\ pc' = [pc EXCEPT ![n] = "voting"]
  /\ UNCHANGED <<blocks, decided, chain, current, counts, finalized, stored,
                 push, crashes>>

\* genAndPlaceVote: otherwise with the first PBFT vote of the next period.
VoteDuringPbftVoting(n) ==
  LET p == chain[n] + 1 IN
  /\ pc[n] = "voting"
  /\ isPbftWithPillarBlockPeriod(p) /\ placed[n] < p
  /\ PeriodOf(current[n]) = p - 1
  /\ PlaceVotes(n, p, current[n], TRUE)
  /\ UNCHANGED <<blocks, decided, chain, current, counts, finalized, stored,
                 pc, push, crashes>>

\* broadcastVotes in a stuck period sends the saved own vote again.
BroadcastOwnVote(n) ==
  /\ pc[n] = "voting" /\ own[n] # NoVote
  /\ sent' = sent \cup {own[n]}
  /\ UNCHANGED <<blocks, decided, chain, current, counts, finalized, stored,
                 own, votes, placed, pc, push, crashes>>

\* PillarVotePacketHandler: a packet worker, whatever the PBFT thread does.
ReceivePillarVote(n, v) ==
  /\ Up(n) /\ processPillarVote(n, v)
  /\ votes' = [votes EXCEPT ![n] = @ \cup {v}]
  /\ UNCHANGED <<blocks, decided, chain, current, counts, finalized, stored,
                 own, placed, pc, push, sent, crashes>>

-----------------------------------------------------------------------------
Crash(n) ==
  /\ Up(n) /\ crashes < MaxCrashes
  /\ crashes' = crashes + 1
  /\ votes' = [votes EXCEPT ![n] = {}]
  /\ placed' = [placed EXCEPT ![n] = 0]
  /\ push' = [push EXCEPT ![n] = {}]
  /\ pc' = [pc EXCEPT ![n] = "down"]
  /\ UNCHANGED durable

\* The pillar votes stored with the last finalized pillar block: none as long as the
\* batch of the PBFT block that anchors it is not committed.
LastFinalizedVotes(n) == {v \in stored[n] : v.period = PeriodOf(LastFinalized(n)) + 1}

VotesOfFinalizedStored(n) == LastFinalized(n) = NoBlock \/ LastFinalizedVotes(n) # {}

\* The votes the constructor of PillarChainManager loads: the own vote, then
\* those stored with the last finalized block.
LoadedVotes(n) == Addable(n, ({own[n]} \ {NoVote}) \cup LastFinalizedVotes(n))

\* The constructor of PillarChainManager asserts that the last finalized block has
\* stored votes: without them a build with assertions ends here, a release build goes
\* on.  At a pillar period the constructor of PbftManager then reads the period of the
\* current pillar block, a null pointer as long as there was none, and runs
\* processPillarBlock, whether or not it ran before the crash.
Restart(n) ==
  /\ pc[n] = "down"
  /\ votes' = [votes EXCEPT ![n] = LoadedVotes(n)]
  /\ \/ /\ ~VotesOfFinalizedStored(n)
        /\ pc' = [pc EXCEPT ![n] = "dead"]
     \/ pc' = [pc EXCEPT ![n] =
                 CASE ~isPillarBlockPeriod(chain[n]) -> "voting"
                   [] isPillarBlockPeriod(chain[n]) /\ current[n] = NoBlock -> "dead"
                   [] OTHER -> "processing"]
  /\ UNCHANGED <<durable, placed, push, crashes>>

-----------------------------------------------------------------------------
(* Properties *)

\* A validator never signs two pillar blocks of one period, whatever the
\* crashes (genAndPlacePillarVote, the own vote the constructor loads).
NoPillarEquivocation ==
  \A u, v \in sent \cup (Range(own) \ {NoVote}) :
    u.period = v.period /\ u.voter = v.voter => u = v

\* A node that has pushed the block after a pillar block holds that pillar
\* block as a finalized one, once and in its place of the hash-linked chain,
\* and has stored votes of more than half of the stake for it.
PushedHavePillarVotes ==
  \A n \in Nodes :
    LET pillars == {p \in 1..MaxPeriod : isPillarBlockPeriod(p) /\ p < chain[n]}
    IN \A p \in pillars :
         LET i == (p - FirstPillarPeriod) \div Interval + 1
             vs == {v \in stored[n] : v.period = p + 1}
         IN /\ i <= Len(finalized[n])
            /\ PeriodOf(finalized[n][i]) = p
            /\ blocks[finalized[n][i]].previous =
                 IF i = 1 THEN NoBlock ELSE finalized[n][i - 1]
            /\ \A v \in vs : v.block = finalized[n][i]
            /\ 2 * VotesWeight(p + 1, vs) > TotalStake(p)

\* The current pillar block of a period that is finalized is the finalized
\* one: createPillarBlock, which the constructor repeats, does not replace it.
CurrentIsFinalized ==
  \A n \in Nodes :
    \A i \in DOMAIN finalized[n] :
      PeriodOf(finalized[n][i]) = PeriodOf(current[n])
        => finalized[n][i] = current[n]

\* The assertion of the constructor, "There should always be pillar votes stored in
\* period data for finalized pillar block", does not always hold: savePillarBlock is a
\* write of its own, before the batch with the votes.  A restart fails in two cases
\* only: at the first pillar period before its pillar block was created, and between
\* savePillarBlock and the commit of the block that anchors it.  A node that is past
\* the commit comes back after every crash.
OnlyTornPushesKill ==
  \A n \in Nodes :
    pc[n] = "dead" =>
      \/ current[n] = NoBlock /\ chain[n] = FirstPillarPeriod
      \/ current[n] = LastFinalized(n) /\ PeriodOf(LastFinalized(n)) = chain[n]

-----------------------------------------------------------------------------
Next ==
  \/ \E b \in {NoBlock} \cup Range(current) : DecidePbftBlock(b)
  \/ \E n \in Nodes :
       \/ PushCertVotedBlock(n)
       \/ CommitPbftBlock(n)
       \/ CreatePillarBlock(n)
       \/ VoteForNewPillarBlock(n)
       \/ VoteDuringPbftVoting(n)
       \/ BroadcastOwnVote(n)
       \/ Crash(n)
       \/ Restart(n)
       \/ \E v \in sent : ReceivePillarVote(n, v)
       \/ \E m \in Nodes : PushSyncedBlock(n, m) \/ PillarVotesBundle(n, m)

Spec == Init /\ [][Next]_vars
=============================================================================
