---------------------------- MODULE MCPeriodData ----------------------------
(***************************************************************************)
(* Small instances of the three components that decide what goes into the  *)
(* data of a period: the DAG (DagManager), the transactions (Transactions) *)
(* and the pillar chain (PillarChain).  A behaviour is one of a single     *)
(* component, the one that focus names; the last two share the variables   *)
(* p1 to p14, and what is not in focus stays as it began.                  *)
(*                                                                         *)
(* The DAG: two nodes, one of which certifies, and six blocks:             *)
(*                                                                         *)
(*   level 1: 1 and 4 on genesis       level 2: 3 on 1, 5 on 4 and 1       *)
(*   level 3: 2 on 1 and 3             level 4: 6 on 2                     *)
(*                                                                         *)
(* Block 2 has two paths from 1; 4 and 5 are a side branch that expires    *)
(* once an anchor of level 3 or more leaves it behind.                     *)
(***************************************************************************)
EXTENDS DagManager

CONSTANTS n1, n2

VARIABLES focus, p1, p2, p3, p4, p5, p6, p7, p8, p9, p10, p11, p12, p13, p14

shared == <<p1, p2, p3, p4, p5, p6, p7, p8, p9, p10, p11, p12, p13, p14>>

MCPivot == <<0, 1, 1, 0, 4, 2>>
MCTips == <<{}, {3}, {}, {}, {1}, {}>>
MCGas == <<1, 1, 1, 1, 1, 1>>

(* Two transactions of one sender with the same nonce, and one with the next *)
(* nonce.                                                                    *)
Three == {"cheap", "dear", "later"}
SenderOf == [t \in Three |-> "alice"]
NonceOf == [cheap |-> 0, dear |-> 0, later |-> 1]
PriceOf == [cheap |-> 1, dear |-> 2, later |-> 1]

RemoteBlock(level, trxs) == [level |-> level, trxs |-> trxs, own |-> 0]
Remote == {RemoteBlock(1, <<"later">>), RemoteBlock(2, <<"cheap", "later">>), RemoteBlock(3, <<"dear">>)}

Data == INSTANCE Transactions WITH
  Trxs <- Three, Sender <- SenderOf, Nonce <- NonceOf, GasPrice <- PriceOf, RemoteBlocks <- Remote,
  MaxSize <- 1, AccountLimit <- 2, NonProposableLimit <- 1, ExpiryPeriods <- 1, PurgeInterval <- 2,
  DelegationDelay <- 1, DagExpiryLimit <- 1, MaxPeriods <- 3, MaxOwn <- 1, MaxCrashes <- 1,
  pool <- p1, inDag <- p2, recent <- p3, dag <- p4, packing <- p5, adding <- p6, pc <- p7,
  expired <- p8, dbTrxs <- p9, dbDag <- p10, periods <- p11, executed <- p12, own <- p13,
  crashes <- p14

(* Three nodes with one wallet each.  At first a and b hold one vote each and *)
(* c none.  By the second pillar block a has two and c one: a and either      *)
(* other node decide.                                                         *)
Wallets == {"a", "b", "c"}
OneWallet == [n \in Wallets |-> {n}]
Changing ==
  [p \in 1..6 |-> IF p < 4 THEN [a |-> 1, b |-> 1, c |-> 0] ELSE [a |-> 2, b |-> 1, c |-> 1]]

Pillar == INSTANCE PillarChain WITH
  Nodes <- Wallets, Validators <- Wallets, WalletsOf <- OneWallet, Stakes <- Changing,
  FirstPillarPeriod <- 2, Interval <- 2, DelegationDelay <- 1, MaxPeriod <- 5, MaxCrashes <- 1,
  blocks <- p1, decided <- p2, chain <- p3, current <- p4, counts <- p5, finalized <- p6, stored <- p7,
  own <- p8, votes <- p9, placed <- p10, pc <- p11, push <- p12, sent <- p13, crashes <- p14

-----------------------------------------------------------------------------
DataInit ==
  /\ Init
  /\ \/ focus \in {"dag", "transactions"} /\ Data!Init
     \/ focus = "pillar" /\ Pillar!Init

DataNext ==
  /\ UNCHANGED focus
  /\ \/ focus = "dag" /\ Next /\ UNCHANGED shared
     \/ focus = "transactions" /\ Data!Next /\ UNCHANGED vars
     \/ focus = "pillar" /\ Pillar!Next /\ UNCHANGED vars

DataSpec == DataInit /\ [][DataNext]_<<focus, vars, shared>>

-----------------------------------------------------------------------------
(* Every node that has the blocks of a PBFT block finalizes the same         *)
(* transactions with it: a transaction of a non-finalized DAG block is in    *)
(* nonfinalized_transactions_in_dag_ exactly when no earlier period holds it *)
(* (TransactionManager::getNonfinalizedTrx).                                 *)
PeriodListsAgree == focus = "transactions" => Data!PeriodListsAgree

(* No transaction is finalized by two periods or twice by one, and a period  *)
(* keeps the nonce order of every sender (PbftManager::reorderTransactions,  *)
(* TransactionManager::updateFinalizedTransactionsStatus).                   *)
FinalizedOnceInNonceOrder == focus = "transactions" => Data!FinalizedOnceInNonceOrder

(* The queue offers each nonce once, and nothing that is in the DAG or       *)
(* finalized (TransactionQueue::insert, TransactionManager::packTrxs).       *)
QueueIsRight == focus = "transactions" => Data!NotOfferedAgain /\ Data!QueueMatchesAccounts

(* No validator signs two pillar votes for a period, a node that pushed the  *)
(* block after a pillar block holds that block finalized, hash-linked and    *)
(* with votes of more than half of the stake, a restart does not replace it, *)
(* and a restart fails in two cases only, before the first pillar block and  *)
(* between savePillarBlock and the commit of the votes (PillarChainManager,  *)
(* PbftManager's constructor).                                               *)
PillarBlocksAgree ==
  focus = "pillar" =>
    /\ Pillar!NoPillarEquivocation /\ Pillar!PushedHavePillarVotes
    /\ Pillar!CurrentIsFinalized /\ Pillar!OnlyTornPushesKill
=============================================================================
