------------------------------- MODULE Ledger -------------------------------
(***************************************************************************)
(* One node's finalized chain: PbftManager::pushPbftBlock_ on the PBFT     *)
(* thread, FinalChain::finalize_ on the executor thread, two databases     *)
(* (the node's RocksDB and the EVM's state database), and the constructors *)
(* that bring them back together after a crash at any point.               *)
(*                                                                         *)
(* A push commits three times: the block with everything that must agree   *)
(* with it, then the lambda of the period, then the status flag.  A        *)
(* finalization commits twice, once per database, and then clears the      *)
(* reward statistics it distributed.  Every commit is a step of its own    *)
(* and a crash may come between any two.  That a block is valid and        *)
(* certified is the business of PbftConsensus, its DAG order of            *)
(* DagManager: here it is a record of what execution needs.                *)
(***************************************************************************)
EXTENDS SortitionParams, TLC

CONSTANTS
  PbftBlocks,           \* records: anchor, round, dags, listed, trxs
  DelegationDelay,      \* config dpos.delegation_delay
  RewardsFrequency,     \* config rewards_distribution_frequency: block -> frequency
  CactiBlock,           \* config cacti_hf.block_num
  LambdaMin, LambdaMax, LambdaDefault, LambdaChange, LambdaChangeInterval,
  LambdaMs,             \* config pbft.lambda_ms, before the hardfork
  SystemPeriods,        \* periods in which the bridge asks for a system transaction
  CounterModulus,       \* 2^64: the counters of executed blocks are uint64
  MaxPeriod,            \* bound on the length of the chain
  MaxCrashes            \* bound on the number of crashes

frequencyFrom(p) == {k \in DOMAIN RewardsFrequency : k <= p}

getRewardsDistributionFrequency(p) ==
  IF frequencyFrom(p) = {} THEN 1 ELSE RewardsFrequency[Max(frequencyFrom(p))]

Distributes(p) == p % getRewardsDistributionFrequency(p) = 0

isOnCactiHardfork(p) == p >= CactiBlock

ASSUME BlocksAssumption ==
  \A b \in PbftBlocks : /\ b.round \in Nat \ {0} /\ b.dags \in Nat /\ b.listed \in Nat
                        /\ b.trxs \in 0..b.listed
                        /\ b.anchor = NullAnchor <=> b.dags = 0

\* A frequency that drops to 1 does so right after a distribution: otherwise the
\* statistics of the open window are never distributed.  The configuration is
\* not checked for it.
ASSUME FrequencyAssumption ==
  /\ \A k \in DOMAIN RewardsFrequency : k \in Nat /\ RewardsFrequency[k] \in Nat \ {0}
  /\ \A p \in 1..MaxPeriod :
       getRewardsDistributionFrequency(p + 1) = 1 => Distributes(p)

ASSUME LedgerAssumption ==
  /\ DelegationDelay \in Nat \ {0} /\ CactiBlock \in Nat \ {0}
  /\ MaxPeriod \in Nat /\ MaxCrashes \in Nat /\ CounterModulus \in Nat \ {0}
  /\ LambdaMin <= LambdaMax /\ LambdaMin > 1
  /\ LambdaChange \in Nat \ {0} /\ LambdaChangeInterval \in Nat \ {0}

VARIABLES
  \* the node's database
  chain,        \* columns period_data and pbft_head
  changeRows,   \* column sortition_params_change
  lambdaRows,   \* column period_lambda
  lambdaField,  \* PbftMgrField::Lambda (1: no value) and rounds_count_dynamic_lambda
  statRows,     \* column block_rewards_stats: the periods
  lastNumber,   \* final_chain_meta LAST_NUMBER
  countRows,    \* ExecutedBlkCount and ExecutedTrxCount
  sysRows,      \* column period_system_transactions: the periods
  executedRow,  \* PbftMgrStatus::ExecutedBlock
  \* the state database
  evmBlock,     \* blk_num of the last committed state
  used,         \* the lambda behind blocks_per_year of every executed period
  paid,         \* the periods rewarded by every executed period
  \* the node's memory
  node,         \* "down", "replaying", "running" or "halted" (a failed assert)
  pc,           \* where the PBFT thread is in pushPbftBlock_
  executor,     \* where the executor thread is in finalize_
  queue,        \* tasks of the executor thread
  lastBlock,    \* last_block_number_
  stats,        \* Stats::blocks_stats_: the periods
  counts,       \* num_executed_dag_blk_ and num_executed_trx_
  lambda,       \* dynamic_lambda_ and rounds_count_dynamic_lambda_
  sortition,    \* the state of SortitionParamsManager
  executedFlag, \* executed_pbft_block_
  \* history
  lost,         \* periods whose lambda commit never happened
  crashes       \* number of crashes so far

pushDb == <<chain, changeRows, lambdaRows, lambdaField, executedRow>>
execDb == <<statRows, lastNumber, countRows, sysRows>>
evm == <<evmBlock, used, paid>>
execMem == <<lastBlock, stats, counts>>
pushMem == <<lambda, sortition, executedFlag>>
history == <<lost, crashes>>
vars == <<pushDb, execDb, evm, node, pc, executor, queue, execMem, pushMem, history>>

Size == Len(chain)

NonEmpty(blocks) == Len(SelectSeq(blocks, LAMBDA b : b.anchor # NullAnchor))

-----------------------------------------------------------------------------
(* Dynamic lambda.                                                         *)

getRoundLambda(l, round) == IF round = 1 THEN l.dynamic ELSE LambdaDefault

isDynamicLambdaChangeInterval(p) ==
  (p > CactiBlock /\ p % LambdaChangeInterval = 0) \/ LambdaChangeInterval = 1

adjustDynamicLambda(l, period, round) ==
  LET rounds == l.rounds + round
      change == isDynamicLambdaChangeInterval(period)
      lowered == IF change /\ rounds = LambdaChangeInterval /\ l.dynamic > LambdaMin
                 THEN Max({l.dynamic - LambdaChange, LambdaMin}) ELSE l.dynamic
      raised == IF round > 1 /\ lowered < LambdaMax
                THEN Min({lowered + LambdaChange, LambdaMax}) ELSE lowered
  IN  [dynamic |-> raised, rounds |-> IF change THEN 0 ELSE rounds]

\* The row of the period or of the closest period before it.
ClosestRows(p) == {q \in DOMAIN lambdaRows : q <= p}
getPeriodLambda(p) == lambdaRows[Max(ClosestRows(p))]

WithRow(p, block) ==
  [q \in DOMAIN lambdaRows \cup {p} |-> IF q = p THEN block ELSE lambdaRows[q]]

\* Mutant: the row of the period is saved after the adjustment.
RowAfterAdjusting(p, round) ==
  LET block == getRoundLambda(adjustDynamicLambda(lambda, p, round), round)
  IN  IF ClosestRows(p - 1) # {} /\ getPeriodLambda(p - 1) = block
      THEN lambdaRows ELSE WithRow(p, block)

\* A row is saved only when the lambda differs from the last one saved.
savePeriodLambda(p, round) ==
  LET block == getRoundLambda(lambda, round)
  IN  IF ClosestRows(p - 1) # {} /\ getPeriodLambda(p - 1) = block
      THEN lambdaRows ELSE WithRow(p, block)

InitialLambda == [dynamic |-> LambdaMax, rounds |-> 0]

-----------------------------------------------------------------------------
Init ==
  /\ chain = <<>> /\ changeRows = <<DefaultChange>>
  /\ lambdaRows = <<>> /\ lambdaField = [dynamic |-> 1, rounds |-> 0]
  /\ statRows = {} /\ lastNumber = 0 /\ countRows = [dags |-> 0, trxs |-> 0]
  /\ sysRows = {} /\ executedRow = FALSE
  /\ evmBlock = 0 /\ used = <<>> /\ paid = <<>>
  /\ node = "running" /\ pc = "idle" /\ executor = "idle" /\ queue = <<>>
  /\ lastBlock = 0 /\ stats = {} /\ counts = [dags |-> 0, trxs |-> 0]
  /\ lambda = InitialLambda /\ sortition = Restored(<<DefaultChange>>, <<>>)
  /\ executedFlag = FALSE /\ lost = {} /\ crashes = 0

\* finalChainHash(period) has a value.
FinalChainHashKnown(p) == p <= DelegationDelay \/ lastNumber >= p - DelegationDelay

\* pushPbftBlock_ up to the commit under the DAG and transactions mutexes: one
\* batch holds the block, the chain head and the change of the VRF threshold.
CommitBlock(b) ==
  LET period == Size + 1
      pushed == IF b.anchor = NullAnchor THEN sortition
                ELSE pbftBlockPushed(sortition, b, period, NonEmpty(chain) + 1)
      newest == pushed.changes[Len(pushed.changes)]
  IN  /\ node = "running" /\ pc = "idle" /\ Size < MaxPeriod
      /\ FinalChainHashKnown(period)
      /\ chain' = Append(chain, b)
      /\ sortition' = pushed
      /\ changeRows' = IF newest.period = period THEN Append(changeRows, newest) ELSE changeRows
      /\ pc' = "lambda"
      /\ UNCHANGED <<lambdaRows, lambdaField, executedRow, execDb, evm, node, executor, queue,
                     execMem, lambda, executedFlag, history>>

\* The second batch: the lambda of this period and the one of the next.
CommitLambda ==
  LET b == chain[Size]
      adjusted == adjustDynamicLambda(lambda, Size, b.round)
  IN  /\ node = "running" /\ pc = "lambda"
      /\ IF isOnCactiHardfork(Size)
         THEN /\ lambdaRows' = savePeriodLambda(Size, b.round)
              /\ lambda' = adjusted /\ lambdaField' = adjusted
         ELSE UNCHANGED <<lambdaRows, lambda, lambdaField>>
      /\ pc' = "finalize"
      /\ queue' = Append(queue, [period |-> Size,
                                 lambda |-> IF isOnCactiHardfork(Size)
                                            THEN getRoundLambda(lambda, b.round) ELSE LambdaMs])
      /\ UNCHANGED <<chain, changeRows, executedRow, execDb, evm, node, executor, execMem,
                     sortition, executedFlag, history>>

SaveExecutedStatus ==
  /\ node = "running" /\ pc = "finalize"
  /\ executedRow' = TRUE /\ executedFlag' = TRUE
  /\ pc' = "advance"
  /\ UNCHANGED <<chain, changeRows, lambdaRows, lambdaField, execDb, evm, node, executor, queue,
                 execMem, lambda, sortition, history>>

\* Mutant: the period advances without waiting for the executor.
NotWaiting == TRUE

waitForPeriodFinalization == Size <= lastBlock + DelegationDelay

\* resetPbftConsensus and updateWalletsEligibility.
AdvancePeriod ==
  /\ node = "running" /\ pc = "advance"
  /\ executedFlag => waitForPeriodFinalization
  /\ executedRow' = FALSE /\ executedFlag' = FALSE
  /\ pc' = "idle"
  /\ UNCHANGED <<chain, changeRows, lambdaRows, lambdaField, execDb, evm, node, executor, queue,
                 execMem, lambda, sortition, history>>

\* A round that starts after a restart clears the flag it found in the database.
AdvanceRound ==
  /\ node = "running" /\ pc = "idle"
  /\ executedFlag /\ waitForPeriodFinalization
  /\ executedRow' = FALSE /\ executedFlag' = FALSE
  /\ UNCHANGED <<chain, changeRows, lambdaRows, lambdaField, execDb, evm, node, pc, executor, queue,
                 execMem, lambda, sortition, history>>

-----------------------------------------------------------------------------
(* The executor thread: FinalChain::finalize_.                             *)

Task == Head(queue)
SystemTransactions(p) == IF p \in SystemPeriods THEN 1 ELSE 0
Executing(at) == node \in {"running", "replaying"} /\ queue # <<>> /\ executor = at

Counted(p) ==
  [dags |-> (counts.dags + chain[p].dags) % CounterModulus,
   trxs |-> (counts.trxs + chain[p].trxs + SystemTransactions(p)) % CounterModulus]

EveryBlock(p) == getRewardsDistributionFrequency(p) = 1

\* The number of the header that follows the last block.
appendBlock == lastBlock + 1

\* The rewards of a block are kept in memory and, between two distributions, in
\* the database; the counters are saved when the block has DAG blocks.
CommitFinalChain ==
  LET p == Task.period
  IN  /\ Executing("idle")
      /\ stats' = IF EveryBlock(p) THEN stats ELSE stats \cup {p}
      /\ statRows' = IF EveryBlock(p) \/ Distributes(p) THEN statRows ELSE statRows \cup {p}
      /\ lastNumber' = appendBlock
      /\ countRows' = IF chain[p].dags = 0 THEN countRows ELSE Counted(p)
      /\ sysRows' = sysRows \cup ({p} \cap SystemPeriods)
      /\ executor' = "committed"
      /\ UNCHANGED <<pushDb, evm, node, pc, queue, lastBlock, counts, pushMem, history>>

\* transition_state_commit: the state after the block, its rewards included.
CommitState ==
  LET p == Task.period
  IN  /\ Executing("committed")
      /\ evmBlock' = evmBlock + 1
      /\ used' = Append(used, Task.lambda)
      /\ paid' = Append(paid, CASE EveryBlock(p) -> {p}
                                [] Distributes(p) /\ ~EveryBlock(p) -> stats
                                [] OTHER -> {})
      /\ executor' = "stateCommitted"
      /\ UNCHANGED <<pushDb, execDb, node, pc, queue, execMem, pushMem, history>>

\* Whether Stats::clear empties the statistics at this period.
Clears(p) == ~EveryBlock(p) /\ Distributes(p)

\* Stats::clear and the rest of finalize_.
FinishBlock ==
  LET p == Task.period
  IN  /\ Executing("stateCommitted")
      /\ stats' = IF Clears(p) THEN {} ELSE stats
      /\ statRows' = IF Clears(p) THEN {} ELSE statRows
      /\ counts' = Counted(p)
      /\ lastBlock' = appendBlock
      /\ queue' = Tail(queue)
      /\ executor' = "idle"
      /\ UNCHANGED <<pushDb, lastNumber, countRows, sysRows, evm, node, pc, pushMem, history>>

-----------------------------------------------------------------------------
(* Crash and restart.                                                      *)

Crash ==
  /\ node \in {"running", "replaying"} /\ crashes < MaxCrashes
  /\ node' = "down" /\ crashes' = crashes + 1
  /\ lost' = IF pc = "lambda" /\ isOnCactiHardfork(Size) THEN lost \cup {Size} ELSE lost
  /\ pc' = "idle" /\ executor' = "idle" /\ queue' = <<>>
  /\ lastBlock' = 0 /\ stats' = {} /\ counts' = [dags |-> 0, trxs |-> 0]
  /\ lambda' = InitialLambda /\ sortition' = Restored(<<DefaultChange>>, <<>>)
  /\ executedFlag' = FALSE
  /\ UNCHANGED <<pushDb, execDb, evm>>

\* What the constructor takes off the counters for a block that is executed again.
Undone(p) ==
  [dags |-> IF chain[p].trxs = 0 THEN 0 ELSE chain[p].dags,
   trxs |-> chain[p].trxs + (IF p \in sysRows THEN 1 ELSE 0)]

\* Mutant: LAST_NUMBER stays ahead of the state database.
AheadOfState == lastNumber

\* FinalChain starts again from the last committed state.
RecoveredNumber == evmBlock

\* Mutant: the recovery leaves the distributed statistics in the database.
RowsKept == statRows

\* Stats::recoverFromDb
RecoveredRows == IF evmBlock > 0 /\ Clears(evmBlock) THEN {} ELSE statRows

\* Mutant: the counters keep the block that is executed again.
CountsKept == countRows

RecoveredCounts ==
  LET again == RecoveredNumber + 1..lastNumber
      sum(f) == FoldFunctionOnSet(LAMBDA x, y : x + y, 0, f, again)
  IN  [dags |-> (countRows.dags - sum([p \in again |-> Undone(p).dags])) % CounterModulus,
       trxs |-> (countRows.trxs - sum([p \in again |-> Undone(p).trxs])) % CounterModulus]

\* A period without a lambda row, or no saved dynamic lambda: an assert fails.
LambdaMissing ==
  \/ \E p \in RecoveredNumber + 1..Size : isOnCactiHardfork(p) /\ ClosestRows(p) = {}
  \/ Size >= 1 /\ isOnCactiHardfork(Size) /\ lambdaField.dynamic = 1

ReplayTask(p) ==
  [period |-> p, lambda |-> IF isOnCactiHardfork(p) THEN getPeriodLambda(p) ELSE LambdaMs]

\* Mutant: the loop stops before the last block.
ReplayButLast == [i \in 1..Size - RecoveredNumber - 1 |-> ReplayTask(RecoveredNumber + i)]

\* The tasks posted by the constructor of PbftManager.
Replay == [i \in 1..Size - RecoveredNumber |-> ReplayTask(RecoveredNumber + i)]

\* The constructors of FinalChain, SortitionParamsManager and PbftManager.
Restart ==
  /\ node = "down"
  /\ statRows' = RecoveredRows /\ stats' = RecoveredRows
  /\ lastNumber' = RecoveredNumber /\ lastBlock' = RecoveredNumber
  /\ countRows' = RecoveredCounts /\ counts' = RecoveredCounts
  /\ sortition' = Restored(changeRows, chain)
  /\ IF LambdaMissing THEN node' = "halted" /\ UNCHANGED queue
                      ELSE node' = "replaying" /\ queue' = Replay
  /\ UNCHANGED <<pushDb, sysRows, evm, pc, executor, lambda, executedFlag, history>>

\* The last replayed block is waited for; then initialState.
RestartDone ==
  /\ node = "replaying" /\ queue = <<>>
  /\ node' = "running"
  /\ lambda' = IF Size >= 1 /\ isOnCactiHardfork(Size) THEN lambdaField ELSE InitialLambda
  /\ executedFlag' = executedRow
  /\ UNCHANGED <<pushDb, execDb, evm, pc, executor, queue, execMem, sortition, history>>

-----------------------------------------------------------------------------
Push == \/ \E b \in PbftBlocks : CommitBlock(b)
        \/ CommitLambda \/ SaveExecutedStatus \/ AdvancePeriod \/ AdvanceRound
Finalize == CommitFinalChain \/ CommitState \/ FinishBlock
Recover == Restart \/ RestartDone

Next == Push \/ Finalize \/ Crash \/ Recover

Spec == Init /\ [][Next]_vars
\* The executor thread, the constructors and a push that has begun go on; nobody
\* has to certify a block or to crash.
FairSpec == Spec /\ WF_vars(Finalize) /\ WF_vars(Recover) /\ WF_vars(CommitLambda)

-----------------------------------------------------------------------------
Periods == 1..MaxPeriod

\* The variables have their types.
TypeOK ==
  /\ chain \in Seq(PbftBlocks) /\ Size <= MaxPeriod
  /\ DOMAIN lambdaRows \subseteq Periods
  /\ statRows \subseteq Periods /\ stats \subseteq Periods /\ sysRows \subseteq Periods
  /\ lastNumber \in 0..MaxPeriod /\ lastBlock \in 0..MaxPeriod /\ evmBlock \in 0..MaxPeriod
  /\ Len(used) = evmBlock /\ Len(paid) = evmBlock
  /\ node \in {"down", "replaying", "running", "halted"}
  /\ pc \in {"idle", "lambda", "finalize", "advance"}
  /\ executor \in {"idle", "committed", "stateCommitted"}
  /\ \A i \in 1..Len(queue) : queue[i].period \in Periods
  /\ executedRow \in BOOLEAN /\ executedFlag \in BOOLEAN
  /\ lost \subseteq Periods /\ crashes \in 0..MaxCrashes

\* The periods that were executed and not rewarded yet.
Unpaid == 1..evmBlock \ UNION {paid[i] : i \in 1..Len(paid)}

Abstract == INSTANCE ExecutionLedger WITH
  executed <- evmBlock, unpaid <- Unpaid,
  DistributionPeriods <- {p \in Nat : Distributes(p)}

\* Crashes and restarts are invisible in the ledger: the chain grows, its blocks
\* are executed once each and in order, and each is rewarded exactly once.
LedgerRefined == Abstract!Spec

\* The recovery gives the difficulty adjustment the very state that the running
\* node had: the nodes that restarted and those that did not demand the same
\* VRF threshold of DAG blocks.
SortitionSurvivesRestart ==
  node \in {"running", "replaying"} => sortition = Restored(changeRows, chain)

\* The lambda of every block of the chain, as the rounds that certified the
\* blocks determine it.
LambdaOfChain ==
  LET next(acc, i) ==
        IF isOnCactiHardfork(i)
        THEN [state |-> adjustDynamicLambda(acc.state, i, chain[i].round),
              used |-> Append(acc.used, getRoundLambda(acc.state, chain[i].round))]
        ELSE [acc EXCEPT !.used = Append(@, LambdaMs)]
      after[i \in 0..Size] ==
        IF i = 0 THEN [state |-> InitialLambda, used |-> <<>>] ELSE next(after[i - 1], i)
  IN  after[Size]

\* Unless a crash came between the commit of a block and the commit of its
\* lambda, the block is executed with the lambda of the round that certified it,
\* also when it is replayed from rows saved only on change: the yearly block
\* count behind the rewards is the same on every node.
LambdaSurvivesReplay ==
  \A p \in 1..evmBlock : lost \cap 1..p = {} => used[p] = LambdaOfChain.used[p]

\* A node that votes has executed every block that is more than DelegationDelay
\* behind: eligibility is never asked of a state that is not there.
EligibilityKnown == node = "running" /\ pc = "idle" => Size <= lastBlock + DelegationDelay

\* The state database is never ahead of the final chain and at most one block
\* behind it, so at most one block is undone and executed again.
AtMostOneBehind == lastNumber \in {evmBlock, evmBlock + 1}

\* The counters of the first n blocks of the chain.
CountsOf(n) ==
  LET sum(f) == FoldFunctionOnSet(LAMBDA x, y : x + y, 0, f, 1..n)
  IN  [dags |-> sum([p \in 1..n |-> chain[p].dags]) % CounterModulus,
       trxs |-> sum([p \in 1..n |-> chain[p].trxs + SystemTransactions(p)]) % CounterModulus]

\* The counters are saved with a block that has DAG blocks, but taken back with one that
\* has transactions: they drift by a block that has only one of the two.
CountedAsSaved(p) == (chain[p].dags > 0) = (chain[p].trxs > 0) /\ (p \in SystemPeriods => chain[p].dags > 0)

\* The counters of executed DAG blocks and transactions are those of the executed
\* blocks, also after a crash between the two commits of a block: the constructor takes
\* off what the block that is executed again had added (FinalChain::FinalChain,
\* FinalChain::finalize_).
CountsSurviveRestart ==
  node \in {"running", "replaying"} /\ (\A p \in 1..Size : CountedAsSaved(p)) =>
    counts = CountsOf(lastBlock)

\* The final chain is at most a block ahead of the state database, and its counters
\* are right whatever was undone.
OneBlockUndone == AtMostOneBehind /\ CountsSurviveRestart

\* Every block of the chain is executed once crashes stop, unless the node lost
\* the lambda of the first block of the hardfork and cannot start.
BlocksExecuted == \A p \in Periods : Size >= p ~> (evmBlock >= p \/ node = "halted")
=============================================================================
