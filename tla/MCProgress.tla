----------------------------- MODULE MCProgress -----------------------------
(***************************************************************************)
(* Small instances of two components whose purpose is progress: syncing    *)
(* with one peer that is ahead (PbftSync), and the gossip of next votes    *)
(* between two nodes that need each other's votes (VoteGossip).  A         *)
(* behaviour is one of a single component, the one that focus names, under *)
(* the fairness of that component; the other one stays as it began.        *)
(***************************************************************************)
EXTENDS PbftSync

CONSTANT p1

VARIABLES focus, round, votes, votesKnown, wire, reconnects

One == {p1}
TwoBlocks == [p \in Peers |-> 2]

Votes == INSTANCE VoteGossip WITH
  Nodes <- {"n1", "n2"}, TwoTPlusOne <- 2, VoteAcceptingRounds <- 1, MaxVotesInBundle <- 2,
  LastRound <- 2, MaxReconnects <- 1, known <- votesKnown

voteVars == <<round, votes, votesKnown, wire, reconnects>>
Syncs == focus = "sync"
Gossips == focus = "votes"

ProgressInit == focus \in {"sync", "votes"} /\ Init /\ Votes!Init

ProgressNext ==
  /\ UNCHANGED focus
  /\ \/ Syncs /\ Next /\ UNCHANGED voteVars
     \/ Gossips /\ Votes!Next /\ UNCHANGED vars

\* Connections are retried, statuses are periodic, a peer answers, and the threads of the
\* node run; nothing makes gossip deliver a block.
SyncFairness ==
  /\ \A p \in Peers :
       /\ WF_vars(Syncs /\ onConnect(p)) /\ WF_vars(Syncs /\ InitialStatus(p))
       /\ WF_vars(Syncs /\ ForgetMalicious(p))
       /\ WF_vars(Syncs /\ link[p] = "closing" /\ onDisconnect(p))
       /\ WF_vars(Syncs /\ StandardStatus(p)) /\ WF_vars(Syncs /\ Serve(p))
       /\ SF_vars(Syncs /\ ReceivePbftSync(p)) /\ WF_vars(Syncs /\ ReceiveDagSync(p))
  /\ WF_vars(Syncs /\ WorkerStep) /\ WF_vars(Syncs /\ RunSyncComplete)
  /\ \A counter \in 1..MaxDelays + 1 : WF_vars(Syncs /\ delayedPbftSync(counter))
  /\ WF_vars(Syncs /\ Inactive) /\ WF_vars(Syncs /\ PbftThread)

\* The PBFT thread goes on, in a stalled round it rebroadcasts time and again, and the
\* thread pool handles every packet: weak fairness of PlaceVote, AdvanceRound, of
\* stuckRoundBroadcastVotes(true) and of Handle.
VoteFairness ==
  /\ \A n \in {"n1", "n2"} :
       /\ []<>(Gossips => Votes!Placed(n)) /\ []<>(Gossips => Votes!Advanced(n))
       /\ []<>(Gossips => Votes!Rebroadcast(n))
  /\ \A l \in Votes!Links, p \in Votes!Packets : []<>(Gossips => p \notin wire[l])

ProgressSpec ==
  ProgressInit /\ [][ProgressNext]_<<focus, vars, voteVars>> /\ SyncFairness /\ VoteFairness

-----------------------------------------------------------------------------
\* Once no session breaks any more the node reaches the chain of its peer, without a
\* block certified by gossip (PbftSyncPacketHandler, pushSyncedPbftBlocksIntoChain).
NodeCatchesUp == Syncs => CatchesUp

\* Every node gets to the last round and holds every vote cast in it
\* (PbftManager::broadcastVotes, the votes bundle packet handlers).
VotesArrive == Gossips => Votes!VotesArrive
=============================================================================
