--------------------------- MODULE FinalChainViews ---------------------------
(***************************************************************************)
(* What the JSON-RPC threads read of the final chain while it grows.  The   *)
(* PBFT thread stores the data of a period; later the execution thread      *)
(* commits the block of that period, with its header, its receipts and its  *)
(* system transactions, in one batch, and then moves the caches and the     *)
(* last block number.  Readers go through the caches of FinalChain, which   *)
(* fill themselves from the database at the first miss.                     *)
(***************************************************************************)
EXTENDS Naturals, FiniteSetsExt, Functions, TLC

CONSTANTS
  Readers,        \* the RPC threads
  Callers,        \* the kinds of requests they serve
  SystemPeriods,  \* blocks to which the execution adds a system transaction
  kBlocksToKeep,  \* the size of a cache
  MaxBlocks       \* bound: blocks

VARIABLES
  db,      \* stored periods and committed blocks
  memory,  \* last block number, cached headers, cached transaction lists
  reader,  \* the request each RPC thread serves
  early    \* history: the requests whose list was read before their block was executed

vars == <<db, memory, reader, early>>

Idle == [pc |-> "idle", call |-> "none", n |-> 0, seen |-> {}]

Init ==
  /\ db = [period_data |-> 0, blk_by_number |-> 0]
  /\ memory = [last |-> 0, headers |-> {0}, transactions |-> << >>, finalizing |-> FALSE]
  /\ reader = [r \in Readers |-> Idle]
  /\ early = {}

-----------------------------------------------------------------------------
(* The transactions of a block: those of its period, then the system ones.  *)
AllTransactions(n) == {"user"} \cup (IF n \in SystemPeriods THEN {"system"} ELSE {})

(* append: the oldest block leaves a full cache. *)
append(cache, n, value) ==
  LET grown == cache @@ (n :> value)
  IN  IF Cardinality(DOMAIN grown) > kBlocksToKeep
      THEN Restrict(grown, DOMAIN grown \ {Min(DOMAIN grown)})
      ELSE grown

appendHeader(cache, n) ==
  LET grown == cache \cup {n}
  IN  IF Cardinality(grown) > kBlocksToKeep THEN grown \ {Min(grown)} ELSE grown

lastBlockNum(blocks) == Max(blocks \cup {0})

NotOld(blocks, n) ==
  lastBlockNum(blocks) < kBlocksToKeep \/ n + kBlocksToKeep >= lastBlockNum(blocks)

pushPbftBlock_ ==
  /\ db.period_data < MaxBlocks
  /\ db' = [db EXCEPT !.period_data = @ + 1]
  /\ UNCHANGED <<memory, reader, early>>

(* Mutant: the new block is announced before its batch is committed. *)
AnnouncedFirst(n) ==
  \/ /\ ~memory.finalizing
     /\ memory' = [memory EXCEPT !.finalizing = TRUE, !.last = n,
                                 !.headers = appendHeader(@, n)]
     /\ UNCHANGED db
  \/ /\ memory.finalizing
     /\ db' = [db EXCEPT !.blk_by_number = memory.last]
     /\ memory' = [memory EXCEPT !.finalizing = FALSE]

(* finalize_: the batch of the block is committed, then the header is       *)
(* cached and the last block number moves.                                  *)
Finalized(n) ==
  \/ /\ ~memory.finalizing
     /\ db' = [db EXCEPT !.blk_by_number = n]
     /\ memory' = [memory EXCEPT !.finalizing = TRUE]
  \/ /\ memory.finalizing
     /\ memory' = [memory EXCEPT !.finalizing = FALSE, !.last = db.blk_by_number,
                                 !.headers = appendHeader(@, db.blk_by_number)]
     /\ UNCHANGED db

finalize_ ==
  /\ memory.finalizing \/ db.blk_by_number < db.period_data
  /\ Finalized(db.blk_by_number + 1)
  /\ UNCHANGED <<reader, early>>

-----------------------------------------------------------------------------
Set(r, fields) == reader' = [reader EXCEPT ![r] = fields @@ @]

(* A request for the block n: get_block_by_number, eth_getBlockReceipts and *)
(* get_transaction_receipt make sure that the block is executed first;      *)
(* get_transaction(n, i) and Debug::get_transaction_with_state do not.      *)
Request(r, call, n) ==
  /\ reader[r].pc = "idle"
  /\ Set(r, [pc |-> IF call = "checked" THEN "header" ELSE "cached", call |-> call, n |-> n])
  /\ UNCHANGED <<db, memory, early>>

(* The database has a header of the block and the PBFT block it belongs to. *)
getBlockHeader(n) == n <= db.blk_by_number /\ n <= db.period_data

(* blockHeader(n), through its cache. *)
blockHeader(r) ==
  LET n == reader[r].n
  IN  /\ reader[r].pc = "header"
      /\ IF n \in memory.headers THEN Set(r, [pc |-> "cached"]) /\ UNCHANGED memory
         ELSE IF ~getBlockHeader(n) THEN Set(r, [pc |-> "absent"]) /\ UNCHANGED memory
         ELSE /\ Set(r, [pc |-> "cached"])
              /\ memory' = [memory EXCEPT !.headers =
                   IF NotOld(@, n) THEN appendHeader(@, n) ELSE @]
      /\ UNCHANGED <<db, early>>

(* transactions(n): the cache, ... *)
getFromCache(r) ==
  LET n == reader[r].n
  IN  /\ reader[r].pc = "cached"
      /\ Set(r, IF n \in DOMAIN memory.transactions
                THEN [pc |-> "answered", seen |-> memory.transactions[n]]
                ELSE [pc |-> "period_data"])
      /\ UNCHANGED <<db, memory, early>>

(* ... the transactions of the period, ... *)
getPeriodTransactions(r) ==
  /\ reader[r].pc = "period_data"
  /\ Set(r, IF reader[r].n <= db.period_data
            THEN [pc |-> "system", seen |-> {"user"}] ELSE [pc |-> "absent"])
  /\ UNCHANGED <<db, memory, early>>

(* ... its system transactions, which are there once it is executed, ... *)
getPeriodSystemTransactions(r) ==
  LET n == reader[r].n
  IN  /\ reader[r].pc = "system"
      /\ Set(r, [pc |-> "append",
                 seen |-> IF n <= db.blk_by_number THEN AllTransactions(n) ELSE {"user"}])
      /\ early' = IF n <= db.blk_by_number THEN early ELSE early \cup {[call |-> reader[r].call, n |-> n]}
      /\ UNCHANGED <<db, memory>>

(* ... and the list is kept. *)
Keep(r) ==
  LET n == reader[r].n
  IN  /\ reader[r].pc = "append"
      /\ memory' = [memory EXCEPT !.transactions =
           IF NotOld(DOMAIN @, n) THEN append(@, n, reader[r].seen) ELSE @]
      /\ Set(r, [pc |-> "answered"])
      /\ UNCHANGED <<db, early>>

Answer(r) ==
  /\ reader[r].pc \in {"answered", "absent"}
  /\ reader' = [reader EXCEPT ![r] = Idle]
  /\ UNCHANGED <<db, memory, early>>

Next ==
  \/ pushPbftBlock_
  \/ finalize_
  \/ \E r \in Readers :
       \/ \E call \in Callers, n \in 1..MaxBlocks : Request(r, call, n)
       \/ blockHeader(r)
       \/ getFromCache(r)
       \/ getPeriodTransactions(r)
       \/ getPeriodSystemTransactions(r)
       \/ Keep(r)
       \/ Answer(r)

Spec == Init /\ [][Next]_vars

-----------------------------------------------------------------------------
(* The header of the last block is never behind the last block number, and  *)
(* transactions() answers with all transactions of the block, whatever the  *)
(* other threads have cached, but for one cause: a request that does not    *)
(* check whether the block is executed has read the list before it was.     *)
(* That list, without the system transaction, stays in the cache and is     *)
(* what later requests get, those that check included.  A request that      *)
(* checks never is the cause.                                               *)
BlocksReadWhole ==
  /\ Max(memory.headers) >= memory.last
  /\ \A e \in early : e.call # "checked"
  /\ \A r \in Readers : reader[r].pc = "answered" =>
       \/ reader[r].seen = AllTransactions(reader[r].n)
       \/ reader[r].seen = {"user"} /\ \E e \in early : e.n = reader[r].n
=============================================================================
