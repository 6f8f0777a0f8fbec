------------------------------ MODULE MCChain ------------------------------
(***************************************************************************)
(* Small instances of the components that get, keep, restore and read the  *)
(* chain of one node.  A behaviour is one of a single component, the one   *)
(* that focus names: syncing from peers (PbftSync), which has its own      *)
(* variables, or one of the others, which share the variables s1 to s14.   *)
(* Variables that the component in focus does not need stay as they are.   *)
(*                                                                         *)
(* Syncing is from an honest peer with two blocks and a faulty one with    *)
(* three.                                                                  *)
(***************************************************************************)
EXTENDS PbftSync

CONSTANTS p1, p2

VARIABLES focus, s1, s2, s3, s4, s5, s6, s7, s8, s9, s10, s11, s12, s13, s14

shared == <<s1, s2, s3, s4, s5, s6, s7, s8, s9, s10, s11, s12, s13, s14>>

Both == {p1, p2}
Longest == {p2}
Sizes == [p \in Peers |-> IF p = p1 THEN 2 ELSE 3]

(* A light node that keeps one period, six levels. *)
Store == INSTANCE ChainStore WITH
  kMaxLevelsPerPeriod <- 1, kDagExpiryLevelLimit <- 1, history_ <- 1,
  kPeriodsToKeepNonBlockData <- 0, MaxLevel <- 6, MaxPeriod <- 6, MaxLag <- 2, Sought <- {1},
  db <- s1, chain <- s2, cleaner <- s3, reader <- s4

(* Two RPC threads; caches of two blocks. *)
Views == INSTANCE FinalChainViews WITH
  Readers <- {"r1", "r2"}, Callers <- {"checked", "unchecked"}, SystemPeriods <- {1, 3}, kBlocksToKeep <- 2,
  MaxBlocks <- 3, db <- s1, memory <- s2, reader <- s3, early <- s4

(* Two snapshots at most, three deaths of the process. *)
Snaps == INSTANCE Snapshots WITH
  kDbSnapshotsEachNblock <- 1, kDbSnapshotsMaxCount <- 2, MaxBlock <- 5, MaxCrashes <- 3,
  disk <- s1, node <- s2

PbftBlock(id, period, prev, anchor, ordered, rewards, extra) ==
  [id |-> id, period |-> period, prev |-> prev, anchor |-> anchor, ordered |-> ordered,
   rewards |-> rewards, extra |-> extra]
block1 == PbftBlock(1, 1, 0, 1, TRUE, "held", "none")
wrong1 == PbftBlock(2, 1, 0, 1, FALSE, "held", "none")
block2 == PbftBlock(3, 2, 1, 2, TRUE, "late", "data")
empty2 == PbftBlock(4, 2, 1, 0, TRUE, "held", "data")
heavy3 == PbftBlock(5, 3, 3, 3, TRUE, "held", "pillar")

(* Two blocks for each of two periods, one of them with a wrong order hash, *)
(* one with votes that come late, and a block that may be too heavy.         *)
Proposals == INSTANCE ProposedBlocks WITH
  Blocks <- {block1, wrong1, block2, empty2, heavy3},
  Votes <- { [block |-> block1, rank |-> 2], [block |-> wrong1, rank |-> 1],
             [block |-> block2, rank |-> 3], [block |-> empty2, rank |-> 1] },
  Workers <- {"w1"}, HeavyAnchors <- {3}, delegation_delay <- 1, FicusHf <- 2, PillarInterval <- 2,
  MaxCrashes <- 1,
  chain <- s1, head <- s2, dbHead <- s3, executed <- s4, proposed_blocks_ <- s5, dbProposed <- s6,
  cache <- s7, here <- s8, votes <- s9, handling <- s10, wallets <- s11, pc <- s12, voted <- s13,
  crashes <- s14

CertVote(p, weight) ==
  [period |-> p, round |-> 1, type |-> "cert_vote", block |-> p, weight |-> weight]
CertVotes == [p \in 1..6 |-> <<CertVote(p, 2), CertVote(p, 1)>>]

(* Five periods; the bundle certifies the last one or the one that was never pushed. *)
Rebuilder == INSTANCE Rebuild WITH
  Last_ <- 5, rebuild_db_period <- 0, Certificate <- CertVotes, Bundles <- {CertVotes[5], CertVotes[6]},
  TwoTPlusOne <- 3, delegation_delay <- 1, Stride <- 3,
  bundle <- s1, reader <- s2, queue <- s3, pusher <- s4, stop_async <- s5, chain <- s6, executed <- s7,
  refused <- s8

-----------------------------------------------------------------------------
from9 == <<s9, s10, s11, s12, s13, s14>>
from5 == <<s5, s6, s7, s8, from9>>
from3 == <<s3, s4, from5>>

SharedInit ==
  \/ focus = "syncing"
     /\ s1 = 0 /\ s2 = 0 /\ s3 = 0 /\ s4 = 0 /\ s5 = 0 /\ s6 = 0 /\ s7 = 0 /\ s8 = 0 /\ s9 = 0
     /\ s10 = 0 /\ s11 = 0 /\ s12 = 0 /\ s13 = 0 /\ s14 = 0
  \/ focus = "store" /\ Store!Init
     /\ s5 = 0 /\ s6 = 0 /\ s7 = 0 /\ s8 = 0 /\ s9 = 0 /\ s10 = 0 /\ s11 = 0 /\ s12 = 0 /\ s13 = 0
     /\ s14 = 0
  \/ focus = "views" /\ Views!Init
     /\ s5 = 0 /\ s6 = 0 /\ s7 = 0 /\ s8 = 0 /\ s9 = 0 /\ s10 = 0 /\ s11 = 0 /\ s12 = 0 /\ s13 = 0
     /\ s14 = 0
  \/ focus = "snapshots" /\ Snaps!Init
     /\ s3 = 0 /\ s4 = 0 /\ s5 = 0 /\ s6 = 0 /\ s7 = 0 /\ s8 = 0 /\ s9 = 0 /\ s10 = 0 /\ s11 = 0
     /\ s12 = 0 /\ s13 = 0 /\ s14 = 0
  \/ focus = "proposals" /\ Proposals!Init
  \/ focus = "rebuild" /\ Rebuilder!Init
     /\ s9 = 0 /\ s10 = 0 /\ s11 = 0 /\ s12 = 0 /\ s13 = 0 /\ s14 = 0

(* The components other than syncing may come to rest. *)
SharedNext ==
  \/ focus = "store" /\ Store!Next /\ UNCHANGED from5
  \/ focus = "views" /\ Views!Next /\ UNCHANGED from5
  \/ focus = "snapshots" /\ Snaps!Next /\ UNCHANGED from3
  \/ focus = "proposals" /\ Proposals!Next
  \/ focus = "rebuild" /\ Rebuilder!Next /\ UNCHANGED from9
  \/ focus # "syncing" /\ UNCHANGED shared

ChainInit == SharedInit /\ Init

ChainNext ==
  /\ UNCHANGED focus
  /\ \/ focus = "syncing" /\ Next /\ UNCHANGED shared
     \/ SharedNext /\ UNCHANGED vars

ChainSpec == ChainInit /\ [][ChainNext]_<<focus, vars, shared>>

-----------------------------------------------------------------------------
(* Readers see whole blocks: a light node finds a block it must keep, also *)
(* while the cleanup thread deletes and recreates columns, and keeps what  *)
(* the validation of DAG blocks still needs (DbStorage::                   *)
(* clearPeriodDataHistory); an RPC thread finds a finalized header with    *)
(* its transactions.  The system transaction is missing only from a block  *)
(* that a request which does not check has read before it was executed     *)
(* (FinalChain::transactions).                                             *)
BlocksReadWhole ==
  /\ focus = "store" => Store!FoundWhileKept /\ Store!ProposalDataKept
  /\ focus = "views" => Views!BlocksReadWhole

(* A restart, a revert or a rebuild leaves a chain that can go on: a block  *)
(* the node voted for can be pushed, with a wrong order hash only beside a  *)
(* block with the right one, and the head is restored as it was             *)
(* (PbftManager::validatePbftBlock, pushCertVotedPbftBlockIntoChain_,       *)
(* PbftChain::PbftChain); the state database is at most a block behind the  *)
(* node's unless a revert was torn (DbStorage::recoverToPeriod); and a      *)
(* rebuild that reports completion has every certified block up to the      *)
(* first one that the queue refused (App::rebuildDb).                       *)
ChainGoesOn ==
  /\ focus = "proposals" => Proposals!ReadyToPush /\ Proposals!HeadIsRestored /\ Proposals!WrongOrderNotAlone
  /\ focus = "snapshots" => Snaps!StateFollows /\ Snaps!FewSnapshotsTorn
  /\ focus = "rebuild" => Rebuilder!RebuiltUpToRefusal
=============================================================================
