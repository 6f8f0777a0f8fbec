----------------------------- MODULE BlockStats -----------------------------
(***************************************************************************)
(* The statistics of one executed PBFT block from which the rewards of the *)
(* validators are computed: the fee of each transaction goes to the author *)
(* of the DAG block that included it first, DAG blocks and certificate     *)
(* votes are counted for their authors.  Three versions of the rules exist *)
(* (before Magnolia, before Aspen part one, and after).  A step processes  *)
(* one DAG block or one vote, as the loops of processStats do.             *)
(***************************************************************************)
EXTENDS Integers, Sequences, FiniteSets, FiniteSetsExt, Functions

CONSTANTS Validators,
          Periods,         \* PeriodData: [dag_blocks, transactions, votes]
          GasPrice,        \* of a transaction
          kCommitteeSize, DposVoteCount

VARIABLES blk,             \* the PeriodData of the block
          fork,            \* "genesis", "magnolia", "aspen"
          gasUsed,         \* of each transaction, from the receipts
          fee_by_trx_hash_,
          validators_stats_,
          totals,          \* total_dag_blocks_count_, total_votes_weight_, max_votes_weight_
          dagAt, voteAt    \* the loops of processStats

vars == <<blk, fork, gasUsed, fee_by_trx_hash_, validators_stats_, totals, dagAt, voteAt>>

NoStats == [dag_blocks_count_ |-> 0, vote_weight_ |-> 0, fees_rewards_ |-> 0]

(* Stats::getBlockStats passes no gas before Magnolia. *)
Fee(f, gas, t) == IF f = "genesis" THEN 0 ELSE GasPrice[t] * gas[t]

initFeeByTrxHash(b, f, gas) == [t \in Range(b.transactions) |-> Fee(f, gas, t)]

Init ==
  /\ blk \in Periods /\ fork \in {"genesis", "magnolia", "aspen"}
  /\ gasUsed \in [Range(blk.transactions) -> 1..2]
  /\ fee_by_trx_hash_ = initFeeByTrxHash(blk, fork, gasUsed)
  /\ validators_stats_ = [v \in Validators |-> NoStats]
  /\ totals = [dag |-> 0, votes |-> 0,
               max |-> Min({kCommitteeSize, IF blk.votes = <<>> THEN kCommitteeSize ELSE DposVoteCount})]
  /\ dagAt = 1 /\ voteAt = 1

(* Mutant: the record of the fee stays. *)
FeesKept(hashes) == fee_by_trx_hash_

(* addTransaction erases the fee it has credited. *)
FeesLeft(hashes) == [t \in DOMAIN fee_by_trx_hash_ \ hashes |-> fee_by_trx_hash_[t]]

(* The transactions of a DAG block that addTransaction takes: those with a fee record, which      *)
(* transactions finalized in earlier periods never had.                                           *)
Unique(d) == Range(d.trxs) \cap DOMAIN fee_by_trx_hash_

min_difficulty == Min({d.difficulty : d \in Range(blk.dag_blocks)})

Counted(d) == IF fork = "aspen" THEN d.difficulty = min_difficulty ELSE Unique(d) # {}

(* processDagBlocks and processDagBlocksAspen *)
ProcessDagBlock ==
  LET d == blk.dag_blocks[dagAt]
      count == IF Counted(d) THEN 1 ELSE 0
  IN /\ dagAt <= Len(blk.dag_blocks)
     /\ validators_stats_' = [validators_stats_ EXCEPT
          ![d.sender].fees_rewards_ = @ + SumFunctionOnSet(fee_by_trx_hash_, Unique(d)),
          ![d.sender].dag_blocks_count_ = @ + count]
     /\ totals' = [totals EXCEPT !.dag = @ + count]
     /\ fee_by_trx_hash_' = FeesLeft(Unique(d))
     /\ dagAt' = dagAt + 1
     /\ UNCHANGED <<blk, fork, gasUsed, voteAt>>

(* A second vote of a validator is ignored; a debug build asserts that there *)
(* is none.                                                                  *)
addVote ==
  LET v == blk.votes[voteAt]
      first == validators_stats_[v.voter].vote_weight_ = 0
  IN /\ dagAt > Len(blk.dag_blocks) /\ voteAt <= Len(blk.votes)
     /\ validators_stats_' = IF first THEN [validators_stats_ EXCEPT ![v.voter].vote_weight_ = v.weight]
                             ELSE validators_stats_
     /\ totals' = IF first THEN [totals EXCEPT !.votes = @ + v.weight] ELSE totals
     /\ voteAt' = voteAt + 1
     /\ UNCHANGED <<blk, fork, gasUsed, fee_by_trx_hash_, dagAt>>

Next == ProcessDagBlock \/ addVote

Spec == Init /\ [][Next]_vars

-----------------------------------------------------------------------------
Done == dagAt > Len(blk.dag_blocks) /\ voteAt > Len(blk.votes)

(* The author of the DAG block that included t first. *)
FirstAuthor(t) ==
  LET i == Min({j \in DOMAIN blk.dag_blocks : t \in Range(blk.dag_blocks[j].trxs)})
  IN blk.dag_blocks[i].sender

(* Every fee of the block is credited exactly once, to the validator that  *)
(* included the transaction first, under each version of the rules and     *)
(* however often DAG blocks repeat a transaction (BlockStats::processStats); *)
(* the totals are the sums over the validators, and no vote weight is      *)
(* counted twice.                                                          *)
FeesCreditedOnce ==
  Done =>
    /\ \A v \in Validators :
         validators_stats_[v].fees_rewards_ =
           MapThenSumSet(LAMBDA t : Fee(fork, gasUsed, t), {t \in Range(blk.transactions) : FirstAuthor(t) = v})
    /\ totals.dag = MapThenSumSet(LAMBDA v : validators_stats_[v].dag_blocks_count_, Validators)
    /\ totals.votes = MapThenSumSet(LAMBDA v : validators_stats_[v].vote_weight_, Validators)
=============================================================================
