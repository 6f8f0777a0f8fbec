----------------------------- MODULE ChainStore -----------------------------
(***************************************************************************)
(* The columns of DbStorage that hold DAG blocks and transactions, and the  *)
(* four threads that use them: the handlers that add DAG blocks, the PBFT   *)
(* thread that moves the blocks of a period into its period data, the       *)
(* execution thread that adds the row of the proposal period map, the light *)
(* node plugin that deletes the history, and a reader that looks a block up *)
(* one column after the other.  A DAG block stands for itself and for its   *)
(* transactions, which the same batches move between the columns            *)
(* transactions, trx_period and period_data; the DAG is a chain, so a block *)
(* is its level.                                                            *)
(***************************************************************************)
EXTENDS Naturals, FiniteSets, FiniteSetsExt, Functions, TLC

CONSTANTS
  kMaxLevelsPerPeriod,  \* how far above its anchor a period admits proposals
  kDagExpiryLevelLimit, \* how far below the anchor blocks stay valid
  history_,             \* periods the light node keeps
  kPeriodsToKeepNonBlockData, \* periods whose index a large first cleanup rebuilds
  MaxLevel,             \* bound: DAG blocks
  MaxPeriod,            \* bound: PBFT periods
  Sought,               \* the blocks the reader looks up
  MaxLag                \* the PBFT thread waits for the execution this far behind

VARIABLES
  db,       \* what RocksDB holds, column by column
  chain,    \* the memory of DagManager and FinalChain
  cleaner,  \* the cleanup thread of the light plugin
  reader    \* one lookup of a DAG block

vars == <<db, chain, cleaner, reader>>

None == 0

Init ==
  /\ db = [dag_blocks |-> {}, dag_block_period |-> << >>, period_data |-> << >>,
           dag_blocks_level |-> {},
           proposal_period_levels_map |-> (kMaxLevelsPerPeriod :> 0)]
  /\ chain = [period |-> 0, anchor |-> 0, expiry |-> 0, executed |-> 0, anchors |-> << >>]
  /\ cleaner = [pc |-> "idle", live |-> FALSE, period |-> 0,
                start |-> 0, end |-> 0, keep |-> 1, ended |-> 0]
  /\ reader = [pc |-> "idle", block |-> None, period |-> 0, stored |-> FALSE]

-----------------------------------------------------------------------------
(* The first row of the map at or above the level. *)
getProposalPeriodForDagLevel(level) ==
  LET rows == {l \in DOMAIN db.proposal_period_levels_map : l >= level}
  IN  IF rows = {} THEN {} ELSE {db.proposal_period_levels_map[Min(rows)]}

Known == db.dag_blocks \cup DOMAIN db.dag_block_period

(* A new DAG block on top of the DAG: its level has a proposal period. *)
saveDagBlock ==
  LET level == chain.anchor + Cardinality(db.dag_blocks) + 1
  IN  /\ level <= MaxLevel
      /\ getProposalPeriodForDagLevel(level) # {}
      /\ db' = [db EXCEPT !.dag_blocks = @ \cup {level}, !.dag_blocks_level = @ \cup {level}]
      /\ UNCHANGED <<chain, cleaner, reader>>

(* The batch that finalizes a period: its blocks leave the column of the    *)
(* blocks not finalized, their periods are indexed, the period is stored.   *)
savePeriodData(period, blocks) ==
  [db EXCEPT !.dag_blocks = @ \ blocks,
             !.dag_block_period = [b \in blocks |-> period] @@ @,
             !.period_data = (period :> blocks) @@ @]

(* pushPbftBlock_ with the anchor at a level, or with the null anchor, and  *)
(* setDagBlockOrder, under the lock of the DAG.                             *)
setDagBlockOrder(anchor) ==
  LET period == chain.period + 1
      blocks == {b \in db.dag_blocks : b <= anchor}
  IN  /\ period <= MaxPeriod
      /\ chain.period - chain.executed < MaxLag
      /\ db' = savePeriodData(period, blocks)
      /\ chain' = [chain EXCEPT
           !.period = period,
           !.anchors = (period :> anchor) @@ @,
           !.anchor = IF anchor = None THEN @ ELSE anchor,
           !.expiry = IF anchor > kDagExpiryLevelLimit THEN anchor - kDagExpiryLevelLimit ELSE @]
      /\ UNCHANGED <<cleaner, reader>>

(* The execution of the next period: the row of its anchor. *)
finalize_ ==
  LET n == chain.executed + 1
  IN  /\ n <= chain.period
      /\ chain' = [chain EXCEPT !.executed = n]
      /\ db' = IF chain.anchors[n] = None THEN db
               ELSE [db EXCEPT !.proposal_period_levels_map =
                       (chain.anchors[n] + kMaxLevelsPerPeriod :> n) @@ @]
      /\ UNCHANGED <<cleaner, reader>>

-----------------------------------------------------------------------------
(* clearLightNodeHistory reads the period and the expiry level of the DAG   *)
(* without a lock, one after the other.                                     *)
clearLightNodeHistory ==
  /\ cleaner.pc = "idle"
  /\ cleaner' = [cleaner EXCEPT !.pc = "period", !.period = chain.period]
  /\ UNCHANGED <<db, chain, reader>>

getCleanupPeriod(dag_period, proposal_period) ==
  Min({dag_period - history_, proposal_period})

(* The range to delete: up to the proposal period of the oldest block that  *)
(* is not expired, and not more than the history allows.                    *)
CleanupRange ==
  LET expiry == chain.expiry
      proposal == getProposalPeriodForDagLevel(expiry - kMaxLevelsPerPeriod - 1)
      stored == DOMAIN db.period_data
  IN  /\ cleaner.pc = "period"
      /\ cleaner' =
           IF \/ cleaner.period <= history_
              \/ expiry <= kMaxLevelsPerPeriod + 1
              \/ stored = {}
              \/ Min(stored) >= getCleanupPeriod(cleaner.period, Min(proposal))
           THEN [cleaner EXCEPT !.pc = "idle", !.live = TRUE]
           ELSE [cleaner EXCEPT !.pc = "index",
                                !.start = Min(stored),
                                !.end = getCleanupPeriod(cleaner.period, Min(proposal)),
                                !.keep = expiry - kMaxLevelsPerPeriod]
      /\ UNCHANGED <<db, chain, reader>>

Cleaned == cleaner.start .. cleaner.end - 1

BlocksOf(periods) == UNION {db.period_data[p] : p \in periods \cap DOMAIN db.period_data}

(* The index without the range; when the cleanup of a node that starts has  *)
(* a long range, the index of the last periods is written anew instead,     *)
(* with the end of the range that is about to be deleted.                   *)
recreateNonBlockData ==
  BlocksOf({p \in 1..chain.period : p + kPeriodsToKeepNonBlockData >= cleaner.end})

IndexKept ==
  IF ~cleaner.live /\ cleaner.end - cleaner.start > 2 * kPeriodsToKeepNonBlockData
  THEN recreateNonBlockData
  ELSE DOMAIN db.dag_block_period \ BlocksOf(Cleaned)

clearNonBlockData ==
  /\ cleaner.pc = "index"
  /\ db' = [db EXCEPT !.dag_block_period = Restrict(@, IndexKept)]
  /\ cleaner' = [cleaner EXCEPT !.pc = "data", !.ended = cleaner.end]
  /\ UNCHANGED <<chain, reader>>

DeletePeriodData ==
  /\ cleaner.pc = "data"
  /\ db' = [db EXCEPT !.period_data = Restrict(@, DOMAIN @ \ Cleaned)]
  /\ cleaner' = [cleaner EXCEPT !.pc = "levels"]
  /\ UNCHANGED <<chain, reader>>

DeleteLevels ==
  LET end == cleaner.keep - 1
  IN  /\ cleaner.pc = "levels"
      /\ db' = [db EXCEPT !.dag_blocks_level =
                  {l \in @ : ~(Min(db.dag_blocks_level) <= l /\ l < end)}]
      /\ cleaner' = [cleaner EXCEPT !.pc = "idle", !.live = TRUE]
      /\ UNCHANGED <<chain, reader>>

(* The process dies in the middle of a cleanup, and start() begins a new one. *)
CleanupCrash ==
  /\ cleaner.pc # "idle"
  /\ cleaner' = [cleaner EXCEPT !.pc = "idle", !.live = FALSE]
  /\ reader' = [reader EXCEPT !.pc = "idle"]
  /\ UNCHANGED <<db, chain>>

-----------------------------------------------------------------------------
(* getDagBlock, and getTransaction on its own columns: first the column of  *)
(* the blocks not finalized, then the index, then the period data.          *)
Lookup(b) ==
  /\ reader.pc = "idle"
  /\ reader' = [pc |-> "first", block |-> b, period |-> 0, stored |-> b \in Known]
  /\ UNCHANGED <<db, chain, cleaner>>

(* Mutant: the index first, as if a block could only move to it. *)
FirstInIndex(column) == column = "dag_block_period"

FirstIn(column) == column = "dag_blocks"

ReadColumn(column, then) ==
  CASE column = "dag_blocks" ->
         [reader EXCEPT !.pc = IF reader.block \in db.dag_blocks THEN "found" ELSE then]
    [] column = "dag_block_period" ->
         IF reader.block \in DOMAIN db.dag_block_period
         THEN [reader EXCEPT !.pc = "data", !.period = db.dag_block_period[reader.block]]
         ELSE [reader EXCEPT !.pc = then]

getDagBlock ==
  /\ \/ /\ reader.pc = "first"
        /\ \E c \in {"dag_blocks", "dag_block_period"} :
             FirstIn(c) /\ reader' = ReadColumn(c, "second")
     \/ /\ reader.pc = "second"
        /\ \E c \in {"dag_blocks", "dag_block_period"} :
             ~FirstIn(c) /\ reader' = ReadColumn(c, "missing")
     \/ /\ reader.pc = "data"
        /\ reader' = [reader EXCEPT
             !.pc = IF reader.period \in DOMAIN db.period_data THEN "found" ELSE "missing"]
  /\ UNCHANGED <<db, chain, cleaner>>

Answered ==
  /\ reader.pc \in {"found", "missing"}
  /\ reader' = [reader EXCEPT !.pc = "idle", !.block = None, !.period = 0, !.stored = FALSE]
  /\ UNCHANGED <<db, chain, cleaner>>

-----------------------------------------------------------------------------
Next ==
  \/ saveDagBlock
  \/ \E anchor \in db.dag_blocks \cup {None} : setDagBlockOrder(anchor)
  \/ finalize_
  \/ clearLightNodeHistory
  \/ CleanupRange
  \/ clearNonBlockData
  \/ DeletePeriodData
  \/ DeleteLevels
  \/ CleanupCrash
  \/ \E b \in Sought : Lookup(b)
  \/ getDagBlock
  \/ Answered

Spec == Init /\ [][Next]_vars

-----------------------------------------------------------------------------
(* A block that was in the database when its lookup began is found, unless  *)
(* the light node has meanwhile given its period up: getDagBlock misses no  *)
(* block that the PBFT thread moves between two of its reads.               *)
FoundWhileKept ==
  reader.pc = "missing" /\ reader.stored =>
    \E p \in DOMAIN chain.anchors : p < cleaner.ended /\ chain.anchors[p] >= reader.block

(* The cleanup leaves the data of the proposal period of every DAG block    *)
(* that is not expired, and leaves the row of its level, although the       *)
(* period, the expiry level and the map are read while they move on.        *)
ProposalDataKept ==
  \A level \in Max({1, chain.expiry}) .. chain.anchor + Cardinality(db.dag_blocks) :
    /\ level \in db.dag_blocks_level
    /\ \A p \in getProposalPeriodForDagLevel(level) : p > 0 => p \in DOMAIN db.period_data
=============================================================================
