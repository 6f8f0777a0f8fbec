---------------------------- MODULE Transactions ----------------------------
(***************************************************************************)
(* The transactions of one node: the pool of the TransactionQueue, the     *)
(* transactions of DAG blocks that no PBFT block has finalized yet, and    *)
(* the recently finalized ones.  A transaction moves between the three     *)
(* when the packet workers insert it or add a DAG block, when the proposer *)
(* packs it, when a PBFT block is pushed, when the executor finalizes a    *)
(* block and when the node restarts.                                       *)
(*                                                                         *)
(* Every node works out the transactions of a PBFT block for itself, from  *)
(* what it has not finalized (getNonfinalizedTrx).  Nodes agree on the     *)
(* executed chain only if that book-keeping is exact at every one of them, *)
(* whatever was evicted from a cache, expired or lost in a crash before.   *)
(*                                                                         *)
(* transactions_mutex_ is held by pushPbftBlock_ from the commit to the    *)
(* end of updateFinalizedTransactionsStatus, the DAG mutex as well; an     *)
(* addDagBlock holds the DAG mutex over its two writes.  The gas limits,   *)
(* the data size limit, trx_count_ and the edges of the DAG are left out:  *)
(* a DAG block here is its level and its transactions.                     *)
(***************************************************************************)
EXTENDS Integers, Sequences, FiniteSets, SequencesExt, FiniteSetsExt, Functions

CONSTANTS
  Trxs, Sender, Nonce, GasPrice,  \* transactions and their fields
  RemoteBlocks,         \* DAG blocks of other nodes: [level, trxs, own]
  MaxSize,              \* kMaxSize of the pool
  AccountLimit,         \* kMaxSingleAccountTransactionsSize
  NonProposableLimit,   \* kNonProposableTransactionsMaxSize
  ExpiryPeriods,        \* kNonProposableTransactionsPeriodExpiryLimit
  PurgeInterval,        \* transaction_purge_interval
  DelegationDelay,
  DagExpiryLimit,       \* dag_expiry_limit_
  MaxPeriods, MaxOwn, MaxCrashes  \* bounds

VARIABLES
  pool,      \* TransactionQueue: queue, accounts, nonProposable
  inDag,     \* nonfinalized_transactions_in_dag_
  recent,    \* periods whose transactions are in recently_finalized_transactions_
  dag,       \* non_finalized_blks_
  packing,   \* the proposer's packTrxs
  adding,    \* the block whose addDagBlock has saved its transactions
  pc,        \* how far pushPbftBlock_ is
  expired,   \* DAG blocks setDagBlockOrder has dropped
  dbTrxs,    \* column transactions
  dbDag,     \* column dag_blocks
  periods,   \* column period_data: blocks, trxs and anchor level
  executed,  \* the last block of the final chain
  own, crashes

vars == <<pool, inDag, recent, dag, packing, adding, pc, expired, dbTrxs, dbDag,
          periods, executed, own, crashes>>

\* kRecentlyFinalizedTransactionsFactor periods for each of the delegation delay.
RecentPeriods == 2 * DelegationDelay

NoBlock == [level |-> 0, trxs |-> <<>>, own |-> 0]
NoPack == [level |-> 0, invalid |-> {}, chosen |-> <<>>]
EmptyPool == [queue |-> {}, accounts |-> {}, nonProposable |-> << >>]

SameNonce(t, u) == Sender[t] = Sender[u] /\ Nonce[t] = Nonce[u]
Size == Len(periods)
TrxsOf(p) == Range(periods[p].trxs)
transactionFinalized(t) == \E p \in 1..Size : t \in TrxsOf(p)
RecentlyFinalized == UNION {TrxsOf(p) : p \in recent}

\* The nonce of an account after the executed blocks: a transaction with a
\* lower nonce fails and a higher one may skip nonces.
AccountNonce(a) ==
  Max({0} \cup {Nonce[t] + 1 : t \in {u \in UNION {TrxsOf(p) : p \in 1..executed} : Sender[u] = a}})

AnchorLevel(ps) == Max({0} \cup {p.level : p \in Range(ps)})
ExpiryLevel(ps) == Max({0, AnchorLevel(ps) - DagExpiryLimit})

-----------------------------------------------------------------------------
(* TransactionQueue.                                                       *)

AddNonProposable(q, t, number) ==
  [q EXCEPT !.nonProposable = [u \in DOMAIN @ \cup {t} |-> IF u \in DOMAIN @ THEN @[u] ELSE number]]

DropNonProposable(q, ts) == [q EXCEPT !.nonProposable = Restrict(@, DOMAIN @ \ ts)]

AddQueued(q, t) ==
  [q EXCEPT !.queue = @ \cup {t}, !.accounts = {u \in @ : ~SameNonce(u, t)} \cup {t}]

erase(q, t) ==
  IF t \in q.queue
    THEN [q EXCEPT !.queue = @ \ {t}, !.accounts = {u \in @ : ~SameNonce(u, t)}]
    ELSE DropNonProposable(q, {t})

\* The orders getOrderedTransactions may return: the dearest of the accounts'
\* next transactions each time, equal prices in either order.
OrderedTransactions(q) ==
  LET IsHead(t, rest) == \A u \in rest : Sender[u] = Sender[t] => Nonce[t] <= Nonce[u]
  IN {s \in SetToSeqs(q.accounts) : \A i \in DOMAIN s :
        LET rest == {s[j] : j \in i..Len(s)}
        IN /\ IsHead(s[i], rest)
           /\ \A u \in rest : IsHead(u, rest) => GasPrice[u] <= GasPrice[s[i]]}

\* Replace transaction if gas price higher; the other one stays available for
\* DAG blocks that hold it.
PlaceQueued(q, t, number) ==
  LET same == {u \in q.accounts : SameNonce(u, t)}
      old == CHOOSE u \in same : TRUE
  IN IF same = {} THEN AddQueued(q, t)
     ELSE IF GasPrice[t] > GasPrice[old]
       THEN AddQueued(AddNonProposable([q EXCEPT !.queue = @ \ {old}], old, number), t)
       ELSE AddNonProposable(q, t, number)

\* More than kMaxSize transactions: drop the last of the order, one percent of
\* the pool and at least one.
Shrunk(q) ==
  IF Cardinality(q.queue) <= MaxSize THEN {q}
  ELSE {erase(q, Last(s)) : s \in OrderedTransactions(q)}

Insert(q, t, proposable, number) ==
  IF t \in q.queue \cup DOMAIN q.nonProposable THEN {q}
  ELSE IF proposable
    THEN IF Cardinality({u \in q.accounts : Sender[u] = Sender[t]}) = AccountLimit
           THEN {q}
           ELSE Shrunk(PlaceQueued(q, t, number))
    ELSE IF Cardinality(DOMAIN q.nonProposable) <= NonProposableLimit
           THEN {AddNonProposable(q, t, number)}
           ELSE {q}

\* Non proposable transactions that no DAG block asked for are forgotten.
Expire(q, number) ==
  DropNonProposable(q, {t \in DOMAIN q.nonProposable : q.nonProposable[t] + ExpiryPeriods < number})

purge(q) ==
  LET low == {t \in q.accounts : Nonce[t] < AccountNonce(Sender[t])}
  IN [q EXCEPT !.queue = @ \ low, !.accounts = @ \ low]

-----------------------------------------------------------------------------
Init ==
  /\ pool = EmptyPool /\ inDag = {} /\ recent = {} /\ dag = {}
  /\ packing = NoPack /\ adding = NoBlock
  /\ pc = "idle" /\ expired = {}
  /\ dbTrxs = {} /\ dbDag = {} /\ periods = <<>>
  /\ executed = 0 /\ own = 0 /\ crashes = 0

TrxLockFree == pc = "idle"
DagLockFree == pc = "idle" /\ adding = NoBlock

\* Mutant: only the DAG is looked at, not what was finalized since.
InDagOnly(t) == t \in inDag

InDagOrFinalized(t) == t \in inDag \/ t \in RecentlyFinalized

\* A packet worker or, with insertNonProposable false, an RPC thread has a verified
\* transaction.  known_txs_ is asked before, without the lock, and forgets, so it
\* keeps no transaction out for certain.
insertValidatedTransaction(t, insertNonProposable) ==
  /\ TrxLockFree
  /\ \E affordable \in BOOLEAN :
       LET proposable == affordable /\ AccountNonce(Sender[t]) <= Nonce[t]
       IN IF InDagOrFinalized(t) \/ ~(proposable \/ insertNonProposable)
            THEN UNCHANGED pool
            ELSE pool' \in Insert(pool, t, proposable, executed)
  /\ UNCHANGED <<inDag, recent, dag, packing, adding, pc, expired, dbTrxs,
                 dbDag, periods, executed, own, crashes>>

-----------------------------------------------------------------------------
(* The DAG block proposer and addDagBlock.                                 *)

ProposeLevel == Max({AnchorLevel(periods)} \cup {b.level : b \in dag}) + 1

\* packTrxs copies the ordered transactions under a shared lock.  Those with an
\* invalid estimation are still to be taken out of the queue.
PackTrxs ==
  /\ packing = NoPack /\ own < MaxOwn /\ TrxLockFree
  /\ pool.queue # {}
  /\ \E s \in OrderedTransactions(pool), invalid \in SUBSET pool.queue :
       packing' = [level |-> ProposeLevel, invalid |-> invalid,
                   chosen |-> SelectSeq(s, LAMBDA t : t \notin invalid)]
  /\ UNCHANGED <<pool, inDag, recent, dag, adding, pc, expired, dbTrxs, dbDag,
                 periods, executed, own, crashes>>

\* The lock is taken again for each of them.
DemoteInvalid ==
  /\ TrxLockFree
  /\ \E t \in packing.invalid :
       /\ pool' \in Insert(erase(pool, t), t, FALSE, executed)
       /\ packing' = IF packing.chosen = <<>> /\ packing.invalid = {t} THEN NoPack
                     ELSE [packing EXCEPT !.invalid = @ \ {t}]
  /\ UNCHANGED <<inDag, recent, dag, adding, pc, expired, dbTrxs, dbDag,
                 periods, executed, own, crashes>>

\* The transactions saveTransactionsFromDagBlock passes over: checking the nonce
\* is cheaper than checking the database.
AlreadySaved(t) ==
  \/ InDagOrFinalized(t)
  \/ AccountNonce(Sender[t]) >= Nonce[t] /\ transactionFinalized(t)

saveTransactionsFromDagBlock(b) ==
  LET saved == {t \in Range(b.trxs) : ~AlreadySaved(t)}
  IN /\ inDag' = inDag \cup saved
     /\ dbTrxs' = dbTrxs \cup saved
     /\ pool' = FoldSet(LAMBDA t, q : erase(q, t), pool, saved)

dagBlockInDb(b) == b \in dbDag \/ \E p \in 1..Size : b \in periods[p].blocks

StartAddDagBlock(b) ==
  /\ DagLockFree
  /\ ~dagBlockInDb(b) /\ b.level >= ExpiryLevel(periods)
  /\ saveTransactionsFromDagBlock(b)
  /\ adding' = b
  /\ UNCHANGED <<recent, dag, pc, expired, dbDag, periods, executed, crashes>>

AddDagBlock(b) == StartAddDagBlock(b) /\ UNCHANGED <<packing, own>>

\* The proposed block, long after its transactions were packed: the VDF has been
\* computed in between.
ProposeDagBlock ==
  /\ packing # NoPack /\ packing.invalid = {}
  /\ packing' = NoPack
  /\ \/ /\ own' = own + 1
        /\ StartAddDagBlock([level |-> packing.level, trxs |-> packing.chosen, own |-> own'])
     \/ UNCHANGED <<pool, inDag, recent, dag, adding, pc, expired, dbTrxs, dbDag,
                    periods, executed, own, crashes>>

saveDagBlock ==
  /\ adding # NoBlock
  /\ dbDag' = dbDag \cup {adding}
  /\ dag' = dag \cup {adding}
  /\ adding' = NoBlock
  /\ UNCHANGED <<pool, inDag, recent, packing, pc, expired, dbTrxs, periods,
                 executed, own, crashes>>

-----------------------------------------------------------------------------
(* pushPbftBlock_.                                                         *)

\* Mutant: the order of the DAG is kept.
DagOrderKept(s) == s

\* DAG reordering can reorder transactions of one sender by nonce.  Those of such
\* a sender are sorted and placed where its last one is.
reorderTransactions(s) ==
  LET Mine(a) == SelectSeq(s, LAMBDA t : Sender[t] = a)
      Reversed(a) == \E i, j \in DOMAIN s : /\ i < j /\ Sender[s[i]] = a /\ Sender[s[j]] = a
                                            /\ Nonce[s[i]] > Nonce[s[j]]
      Sorted(a) == FlattenSeq([n \in 1..(Max(Range(Nonce)) + 1) |->
                                 SelectSeq(Mine(a), LAMBDA t : Nonce[t] = n - 1)])
      At(i) == LET a == Sender[s[i]] IN
               IF ~Reversed(a) THEN <<s[i]>>
               ELSE IF \E j \in DOMAIN s : j > i /\ Sender[s[j]] = a THEN <<>> ELSE Sorted(a)
  IN FlattenSeq([i \in DOMAIN s |-> At(i)])

Unique(s) == SelectSeq([i \in DOMAIN s |-> IF \E j \in 1..(i - 1) : s[j] = s[i] THEN "again" ELSE s[i]],
                       LAMBDA t : t # "again")

OrderTrxs(order) == Unique(FlattenSeq([i \in DOMAIN order |-> order[i].trxs]))

DagOrders(blocks) == {s \in SetToSeqs(blocks) :
                        \A i, j \in DOMAIN s : i < j => s[i].level <= s[j].level}

\* The last period has advanced: waitForPeriodFinalization.
CanPush == DagLockFree /\ Size < MaxPeriods /\ Size <= executed + DelegationDelay

Commit(blocks, trxs) ==
  /\ periods' = Append(periods, [blocks |-> blocks, trxs |-> reorderTransactions(trxs),
                                 level |-> Max({0} \cup {b.level : b \in blocks})])
  /\ dbDag' = dbDag \ blocks
  /\ dbTrxs' = dbTrxs \ Range(trxs)
  /\ pc' = "order"
  /\ UNCHANGED <<pool, inDag, recent, dag, packing, adding, expired, executed,
                 own, crashes>>

IsAnchorPast(blocks) == blocks # {} =>
  \E b \in blocks : b.level > AnchorLevel(periods) /\ \A c \in blocks \ {b} : c.level < b.level

\* A cert voted block, or the null anchor: its transactions are those this node
\* has not finalized.
PushCertVotedBlock ==
  /\ CanPush
  /\ \E blocks \in SUBSET dag :
       /\ IsAnchorPast(blocks)
       /\ \E order \in DagOrders(blocks) :
            Commit(blocks, SelectSeq(OrderTrxs(order), LAMBDA t : t \in inDag))

\* A synced block comes with the transactions the network finalized with it.
PushSyncedBlock ==
  /\ CanPush
  /\ \E blocks \in SUBSET (dag \cup {b \in RemoteBlocks : ~dagBlockInDb(b)}) :
       /\ ~(blocks \subseteq dag) /\ IsAnchorPast(blocks)
       /\ \E order \in DagOrders(blocks) :
            Commit(blocks, SelectSeq(OrderTrxs(order), LAMBDA t : ~transactionFinalized(t)))

\* The rest of the DAG is rebuilt; blocks below the expiry level are removed
\* from the database one by one.
setDagBlockOrder ==
  /\ pc = "order"
  /\ LET rest == dag \ periods[Size].blocks
         old == IF periods[Size].blocks = {} THEN {}
                ELSE {b \in rest : b.level < ExpiryLevel(periods)}
     IN /\ dag' = rest \ old
        /\ dbDag' = dbDag \ old
        /\ expired' = old
  /\ pc' = "expire"
  /\ UNCHANGED <<pool, inDag, recent, packing, adding, dbTrxs, periods,
                 executed, own, crashes>>

\* Mutant: transactions that another block of the DAG holds are removed as well.
ExpiredTrxsAll ==
  {t \in UNION {Range(b.trxs) : b \in expired} : ~transactionFinalized(t)}

\* Not yet finalized and not part of another valid DAG block.
ExpiredTrxs ==
  {t \in UNION {Range(b.trxs) : b \in expired} :
     ~transactionFinalized(t) /\ \A b \in dag : t \notin Range(b.trxs)}

handleExpiredDagBlocksTransactions ==
  /\ pc = "expire"
  /\ inDag' = inDag \ ExpiredTrxs
  /\ dbTrxs' = dbTrxs \ (ExpiredTrxs \cap inDag)
  /\ expired' = {}
  /\ pc' = "status"
  /\ UNCHANGED <<pool, recent, dag, packing, adding, dbDag, periods, executed,
                 own, crashes>>

updateFinalizedTransactionsStatus ==
  /\ pc = "status"
  /\ recent' = (recent \ {Size - RecentPeriods}) \cup {Size}
  /\ inDag' = inDag \ TrxsOf(Size)
  /\ LET erased == FoldSet(LAMBDA t, q : erase(q, t), pool, TrxsOf(Size))
     IN pool' = IF Size % PurgeInterval = 0 THEN purge(erased) ELSE erased
  /\ pc' = "idle"
  /\ UNCHANGED <<dag, packing, adding, expired, dbTrxs, dbDag, periods,
                 executed, own, crashes>>

-----------------------------------------------------------------------------
\* The executor gets a block when its push is over; blockFinalized subscribes to
\* block_finalized_.
Execute ==
  /\ TrxLockFree /\ executed < Size
  /\ executed' = executed + 1
  /\ pool' = Expire(pool, executed')
  /\ UNCHANGED <<inDag, recent, dag, packing, adding, pc, expired, dbTrxs,
                 dbDag, periods, own, crashes>>

\* initializeRecentlyFinalizedTransactions for the last periods.
RecentAtStart == Max({1, Size - RecentPeriods})..Size

\* recoverNonfinalizedTransactions.
NonfinalizedAtStart == {t \in dbTrxs : ~transactionFinalized(t)}

\* Only the database is left; the constructors execute what was not executed.
CrashAndRestart ==
  /\ crashes < MaxCrashes
  /\ crashes' = crashes + 1
  /\ pool' = EmptyPool /\ packing' = NoPack /\ adding' = NoBlock
  /\ pc' = "idle" /\ expired' = {}
  /\ dag' = dbDag
  /\ inDag' = NonfinalizedAtStart /\ dbTrxs' = NonfinalizedAtStart
  /\ recent' = RecentAtStart
  /\ executed' = Size
  /\ UNCHANGED <<dbDag, periods, own>>

Next ==
  \/ \E t \in Trxs, b \in BOOLEAN : insertValidatedTransaction(t, b)
  \/ PackTrxs
  \/ DemoteInvalid
  \/ ProposeDagBlock
  \/ \E b \in RemoteBlocks : AddDagBlock(b)
  \/ saveDagBlock
  \/ PushCertVotedBlock
  \/ PushSyncedBlock
  \/ setDagBlockOrder
  \/ handleExpiredDagBlocksTransactions
  \/ updateFinalizedTransactionsStatus
  \/ Execute
  \/ CrashAndRestart

Spec == Init /\ [][Next]_vars

-----------------------------------------------------------------------------
\* What getNonfinalizedTrx will answer for the blocks of the DAG is exact: a
\* transaction of a non-finalized block is in nonfinalized_transactions_in_dag_ if
\* and only if no earlier period holds it.  Every node that has the blocks of a
\* PBFT block therefore finalizes the same transactions with it.
PeriodListsAgree ==
  pc = "idle" => \A b \in dag : \A t \in Range(b.trxs) : (t \in inDag) = ~transactionFinalized(t)

\* No transaction is finalized by two periods or twice by one, and a period keeps
\* the nonce order of every sender.
FinalizedOnceInNonceOrder ==
  /\ \A p, q \in 1..Size : p # q => TrxsOf(p) \cap TrxsOf(q) = {}
  /\ \A p \in 1..Size : LET s == periods[p].trxs IN \A i, j \in DOMAIN s :
       i < j => s[i] # s[j] /\ (Sender[s[i]] = Sender[s[j]] => Nonce[s[i]] <= Nonce[s[j]])

\* The proposer is never offered a transaction that is in the DAG or finalized,
\* also when it arrives again after it left every cache.
NotOfferedAgain ==
  pc = "idle" => \A t \in pool.queue : t \notin inDag /\ ~transactionFinalized(t)

\* The queue by hash and the per-account map hold the same transactions, one for
\* each nonce: the assertions of TransactionQueue::erase and insert.
QueueMatchesAccounts ==
  /\ pool.queue = pool.accounts
  /\ \A t, u \in pool.accounts : SameNonce(t, u) => t = u
=============================================================================
