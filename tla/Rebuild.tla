------------------------------ MODULE Rebuild ------------------------------
(***************************************************************************)
(* Rebuilding the database: App::rebuildDb reads the periods of the old    *)
(* database one by one and pushes them into the queue of synced blocks,    *)
(* while a second thread validates them and pushes them into the new chain *)
(* and the executor follows.  A block of the old chain is its period; its  *)
(* certificate is in the data of the next period, that of the last block   *)
(* in the certificate bundle of the old database.                          *)
(***************************************************************************)
EXTENDS Integers, Sequences, SequencesExt, FiniteSetsExt

CONSTANTS Last_,              \* last period of the old database
          rebuild_db_period,  \* config: where to stop; 0 for nowhere
          Certificate,        \* of each period: its cert votes, [period, round, type, block, weight]
          Bundles,            \* the cert votes that the old database may hold
          TwoTPlusOne,
          delegation_delay,
          Stride              \* 100: how often and how far the reader waits for the chain

VARIABLES bundle,     \* old database: votes of the last certificate
          reader,     \* rebuildDb: where it is, the period, the chain size it read
          queue,      \* PeriodDataQueue: queue_ (periods), period_, last_block_cert_votes_
          pusher,     \* pushSyncedPbftBlocksIntoChain: where it is, the popped block and its votes
          stop_async,
          chain,      \* size of the new PBFT chain
          executed,
          refused     \* periods that the queue did not take; rebuildDb ignores the result of the push

vars == <<bundle, reader, queue, pusher, stop_async, chain, executed, refused>>

EmptyQueue == [blocks |-> <<>>, period |-> 0, votes |-> <<>>]
Idle == [at |-> "idle", block |-> 0, votes |-> <<>>]

SizeOf(q) == IF q.votes # <<>> \/ q.blocks = <<>> THEN Len(q.blocks) ELSE Len(q.blocks) - 1

Init ==
  /\ bundle \in Bundles
  /\ reader = [at |-> "read", period |-> 1, size |-> 0]
  /\ queue = EmptyQueue /\ pusher = Idle /\ stop_async = FALSE
  /\ chain = 0 /\ executed = 0 /\ refused = {}

-----------------------------------------------------------------------------
(* The reader *)

(* The votes that go with period n: those in the data of the next period, or the bundle. *)
cert_votes(n) == IF n < Last_ THEN Certificate[n] ELSE bundle

(* The chain size is an argument of push: it is read before the lock of the queue is taken. *)
ReadPeriod ==
  /\ reader.at = "read"
  /\ reader' = IF reader.period > Last_ THEN [reader EXCEPT !.at = "stop"]
               ELSE [reader EXCEPT !.at = "push", !.size = chain]
  /\ UNCHANGED <<bundle, queue, pusher, stop_async, chain, executed, refused>>

(* PeriodDataQueue::push *)
Accepts(n, size) == n = Max({queue.period, size}) + 1 \/ queue.blocks # <<>> \/ n = size + 2

periodDataQueuePush ==
  LET n == reader.period  size == reader.size IN
  /\ reader.at = "push"
  /\ reader' = [reader EXCEPT !.at = "wait"]
  /\ queue' = IF ~Accepts(n, size) THEN queue
              ELSE [blocks |-> Append(IF size > queue.period THEN <<>> ELSE queue.blocks, n),
                    period |-> n, votes |-> cert_votes(n)]
  /\ refused' = IF Accepts(n, size) THEN refused ELSE refused \cup {n}
  /\ UNCHANGED <<bundle, pusher, stop_async, chain, executed>>

waitForPeriodFinalization == chain <= executed + delegation_delay

NextPeriod ==
  LET period == reader.period + 1 IN
  /\ reader.at = "wait" /\ waitForPeriodFinalization
  /\ period % Stride = 0 => period - chain <= Stride
  /\ reader' = [reader EXCEPT !.period = period,
                              !.at = IF period - 1 = rebuild_db_period THEN "stop" ELSE "read"]
  /\ UNCHANGED <<bundle, queue, pusher, stop_async, chain, executed, refused>>

StopAsync ==
  /\ reader.at = "stop"
  /\ reader' = [reader EXCEPT !.at = "join"] /\ stop_async' = TRUE
  /\ UNCHANGED <<bundle, queue, pusher, chain, executed, refused>>

(* The future is ready when the pusher is between two calls; the last call is the reader's. *)
Join ==
  /\ reader.at = "join" /\ pusher.at = "idle"
  /\ reader' = [reader EXCEPT !.at = "last"] /\ pusher' = [pusher EXCEPT !.at = "clean"]
  /\ UNCHANGED <<bundle, queue, stop_async, chain, executed, refused>>

Completed ==
  /\ reader.at = "last" /\ pusher.at = "idle"
  /\ reader' = [reader EXCEPT !.at = "done"]
  /\ UNCHANGED <<bundle, queue, pusher, stop_async, chain, executed, refused>>

-----------------------------------------------------------------------------
(* The pusher *)

Call ==
  /\ pusher.at = "idle" /\ ~stop_async
  /\ pusher' = [pusher EXCEPT !.at = "clean"]
  /\ UNCHANGED <<bundle, reader, queue, stop_async, chain, executed, refused>>

cleanOldData ==
  /\ pusher.at = "clean"
  /\ queue' = [queue EXCEPT !.blocks = SelectSeq(@, LAMBDA n : n > chain)]
  /\ pusher' = [pusher EXCEPT !.at = "loop"]
  /\ UNCHANGED <<bundle, reader, stop_async, chain, executed, refused>>

Return ==
  /\ pusher.at = "loop" /\ SizeOf(queue) = 0
  /\ pusher' = Idle
  /\ UNCHANGED <<bundle, reader, queue, stop_async, chain, executed, refused>>

pop ==
  /\ pusher.at = "loop" /\ SizeOf(queue) > 0
  /\ LET more == Len(queue.blocks) > 1 IN
     /\ pusher' = [at |-> "validate", block |-> queue.blocks[1],
                   votes |-> IF more THEN Certificate[queue.blocks[2] - 1] ELSE queue.votes]
     /\ queue' = IF more THEN [queue EXCEPT !.blocks = Tail(@)] ELSE EmptyQueue
  /\ UNCHANGED <<bundle, reader, stop_async, chain, executed, refused>>

(* Mutant: the votes are not compared with the block. *)
AnyCertificate(block, votes) == votes # <<>> /\ FoldSeq(LAMBDA v, w : v.weight + w, 0, votes) >= TwoTPlusOne

validatePbftBlockCertVotes(block, votes) ==
  /\ votes # <<>> /\ votes[1].period = block
  /\ \A i \in DOMAIN votes :
       /\ votes[i].period = votes[1].period /\ votes[i].round = votes[1].round
       /\ votes[i].type = "cert_vote" /\ votes[i].block = block
  /\ FoldSeq(LAMBDA v, w : v.weight + w, 0, votes) >= TwoTPlusOne

(* processPeriodData: a block that does not fit clears the queue; the state root of the block     *)
(* delegation_delay before it must have been computed.                                            *)
processPeriodData ==
  LET n == pusher.block  old == n <= chain IN
  /\ pusher.at = "validate"
  /\ n = chain + 1 => executed >= n - delegation_delay - 1
  /\ IF n = chain + 1 /\ validatePbftBlockCertVotes(n, pusher.votes)
     THEN pusher' = [pusher EXCEPT !.at = "push"] /\ UNCHANGED queue
     ELSE pusher' = [Idle EXCEPT !.at = "loop"] /\ queue' = IF old THEN queue ELSE EmptyQueue
  /\ UNCHANGED <<bundle, reader, stop_async, chain, executed, refused>>

pushPbftBlock_ ==
  /\ pusher.at = "push"
  /\ chain' = chain + 1 /\ pusher' = [Idle EXCEPT !.at = "advance"]
  /\ UNCHANGED <<bundle, reader, queue, stop_async, executed, refused>>

advancePeriod ==
  /\ pusher.at = "advance" /\ waitForPeriodFinalization
  /\ pusher' = [pusher EXCEPT !.at = "loop"]
  /\ UNCHANGED <<bundle, reader, queue, stop_async, chain, executed, refused>>

Execute ==
  /\ executed < chain /\ executed' = executed + 1
  /\ UNCHANGED <<bundle, reader, queue, pusher, stop_async, chain, refused>>

Next ==
  \/ ReadPeriod \/ periodDataQueuePush \/ NextPeriod \/ StopAsync \/ Join \/ Completed
  \/ Call \/ cleanOldData \/ Return \/ pop \/ processPeriodData \/ pushPbftBlock_ \/ advancePeriod
  \/ Execute

Spec == Init /\ [][Next]_vars

-----------------------------------------------------------------------------
Target == IF rebuild_db_period \in 1..Last_ THEN rebuild_db_period ELSE Last_

(* The last period the new chain can reach: the last one of the old database *)
(* only with votes that certify it.                                          *)
Reachable == IF Target = Last_ /\ bundle # Certificate[Last_] THEN Last_ - 1 ELSE Target

(* When rebuildDb logs "Rebuild completed" the new chain holds the periods   *)
(* up to the target, in order and each with its certificate, but ends before *)
(* the first period that the queue refused: push compares the period with a  *)
(* chain size that the pusher may have outdated meanwhile.  The completion   *)
(* is logged all the same.                                                   *)
RebuiltUpToRefusal ==
  /\ reader.at = "done" => chain = Min({Reachable} \cup {n - 1 : n \in refused})
  /\ chain = Last_ => bundle = Certificate[Last_]
=============================================================================
