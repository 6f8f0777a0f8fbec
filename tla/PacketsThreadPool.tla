------------------------- MODULE PacketsThreadPool -------------------------
(***************************************************************************)
(* The thread pool that processes the packets received from peers:         *)
(* PacketsThreadPool, its PriorityQueue of three PacketsQueues and the     *)
(* PacketsBlockingMask that keeps dependent packets apart.                 *)
(*                                                                         *)
(* Workers are interchangeable.  One that handles a packet is known by the *)
(* packet (busy); the others are counted: about to lock queue_mutex_       *)
(* (polling), inside pop with the mutex held (inPop), waiting on cond_var_ *)
(* (waiting).  The atomics act_total_workers_count_ and act_workers_count_ *)
(* change outside the mutex, so they may lag behind.                       *)
(***************************************************************************)
EXTENDS Integers, Sequences, FiniteSetsExt

CONSTANTS
    Workers,     \* workers_num_ and MAX_TOTAL_WORKERS_COUNT
    Kinds,       \* the packets that peers may send, without their id
    MaxPackets   \* bound: packets pushed in a behaviour

HighTypes == {"Vote", "GetNextVotesSync", "VotesBundle"}
MidTypes  == {"DagBlock", "DagSync", "Transaction"}
LowTypes  == {"Status", "GetPbftSync", "PbftSync", "GetDagSync", "PillarVote",
              "GetPillarVotesBundle", "PillarVotesBundle", "PbftBlocksBundle"}
Types == HighTypes \cup MidTypes \cup LowTypes

ASSUME WorkersAssumption == Workers \in Nat /\ Workers >= 3
ASSUME PacketsAssumption ==
    /\ MaxPackets \in Nat
    /\ \A k \in Kinds : k.type \in Types /\ k.level \in Nat

VARIABLES
    queues,       \* packets_ of packets_queues_, by priority
    packetsCount, \* packets_count_, the id of the next packet
    polling,      \* workers that will lock queue_mutex_ and pop
    inPop,        \* where the worker that holds queue_mutex_ is, "free" if none does
    waiting,      \* workers in cond_var_.wait
    busy,         \* packets taken by workers, with the progress made on each
    actTotal,     \* act_total_workers_count_
    act,          \* act_workers_count_ of every queue
    hardBlocked,  \* <<type, blocking packet id>>: hard_blocked_packet_types_
    orderBlocked, \* <<peer, blocking packet id>>: peer_order_blocked_packet_types_
    dagLevels,    \* <<level, packet id>>: processing_dag_levels_
    dagBlocks,    \* processing_dag_blocks_
    stop,         \* stopProcessing_, and whether stopProcessing has notified
    syncQueueEmpty \* pbft_mgr_->periodDataQueueEmpty()

mask == <<hardBlocked, orderBlocked, dagLevels, dagBlocks>>
vars == <<queues, packetsCount, polling, inPop, waiting, busy, actTotal, act, mask,
          stop, syncQueueEmpty>>

(***************************************************************************)
(* Priorities                                                              *)
(***************************************************************************)

High == 1
Mid  == 2
Low  == 3
Priorities == {High, Mid, Low}

Priority(type) ==
    CASE type \in HighTypes -> High
      [] type \in MidTypes  -> Mid
      [] type \in LowTypes  -> Low

\* kMaxWorkersCount_ of every queue: 40%, 40% and 30% of the workers.
MaxWorkersCount(q) == Max({1, (Workers * (IF q = Low THEN 3 ELSE 4)) \div 10})

MaxWorkersCountReached(q) == act[q] >= MaxWorkersCount(q)

\* Each queue that has no active worker keeps one thread in reserve.
CanBorrowThread == actTotal < Workers - Cardinality({q \in Priorities : act[q] = 0})

(***************************************************************************)
(* The blocking mask                                                       *)
(***************************************************************************)

IsPacketHardBlocked(p) == \E e \in hardBlocked : e[1] = p.type

\* Blocked by an earlier packet of the same peer that is being processed.
IsPacketPeerOrderBlocked(p) ==
    p.type = "DagBlock" /\ \E e \in orderBlocked : e[1] = p.from /\ p.id > e[2]

IsDagBlockPacketBlockedByLevel(p) == \E e \in dagLevels : p.level > e[1]

IsDagBlockPacketBlockedBySameDagBlock(p) == p.block \in dagBlocks

IsPacketBlocked(p) ==
    \/ IsPacketHardBlocked(p)
    \/ p.type = "DagBlock" /\ ( \/ IsDagBlockPacketBlockedByLevel(p)
                                \/ IsDagBlockPacketBlockedBySameDagBlock(p) )
    \/ p.type = "PbftBlocksBundle" /\ ~syncQueueEmpty
    \/ IsPacketPeerOrderBlocked(p)

NonBlocking == {"Vote", "GetNextVotesSync", "VotesBundle", "Status", "PillarVote"}

OneAtATime == {"PbftSync", "GetDagSync", "GetPbftSync", "GetPillarVotesBundle",
               "PillarVotesBundle", "PbftBlocksBundle", "DagSync"}

\* Mutant: the fall through from PbftSync to the other serialized types is a break.
HardBlocksNoFallthrough(p) ==
    IF p.type = "PbftSync" THEN {<<"PbftBlocksBundle", p.id>>}
    ELSE {<<t, p.id>> : t \in {p.type} \cap OneAtATime}

\* What updateBlockingDependencies adds to the mask for p, and later removes.
HardBlocks(p) ==
    {<<t, p.id>> : t \in ({p.type} \cap OneAtATime)
                         \cup (IF p.type = "PbftSync" THEN {"PbftBlocksBundle"} ELSE {})}

\* Mutant: only syncing keeps the later DAG blocks of the peer back.
OrderBlocksSyncOnly(p) == IF p.type = "DagSync" THEN {<<p.from, p.id>>} ELSE {}

OrderBlocks(p) == IF p.type \in {"DagSync", "Transaction"} THEN {<<p.from, p.id>>} ELSE {}

LevelBlocks(p) == IF p.type = "DagBlock" THEN {<<p.level, p.id>>} ELSE {}

BlockBlocks(p) == IF p.type = "DagBlock" THEN {p.block} ELSE {}

Block(p) ==
    /\ hardBlocked'  = hardBlocked \cup HardBlocks(p)
    /\ orderBlocked' = orderBlocked \cup OrderBlocks(p)
    /\ dagLevels'    = dagLevels \cup LevelBlocks(p)
    /\ dagBlocks'    = dagBlocks \cup BlockBlocks(p)

Unblock(p) ==
    /\ hardBlocked'  = hardBlocked \ HardBlocks(p)
    /\ orderBlocked' = orderBlocked \ OrderBlocks(p)
    /\ dagLevels'    = dagLevels \ LevelBlocks(p)
    /\ dagBlocks'    = dagBlocks \ BlockBlocks(p)

(***************************************************************************)
(* Taking a packet from the queues                                         *)
(***************************************************************************)

\* Mutant: a blocked packet at the head holds up its whole queue.
UnblockedHeadOnly(q) == {i \in DOMAIN queues[q] : i = 1 /\ ~IsPacketBlocked(queues[q][i])}

Unblocked(q) == {i \in DOMAIN queues[q] : ~IsPacketBlocked(queues[q][i])}

\* The first pass of pop over the queues respects their limits.
FirstPass ==
    {q \in Priorities : ~MaxWorkersCountReached(q) /\ Unblocked(q) # {}}

TryBorrowThread == \E q \in Priorities : queues[q] # <<>> /\ MaxWorkersCountReached(q)

\* PacketsQueue::pop takes a packet out of the middle of its list.
Erase(packets, i) == SubSeq(packets, 1, i - 1) \o SubSeq(packets, i + 1, Len(packets))

\* updateDependenciesStart for the packet at place i of a queue, which is removed.
Start(q, i) ==
    LET p == queues[q][i]
    IN  /\ queues' = [queues EXCEPT ![q] = Erase(@, i)]
        /\ busy' = [r \in DOMAIN busy \cup {p} |-> IF r = p THEN "handling" ELSE busy[r]]
        /\ actTotal' = actTotal + 1
        /\ act' = [act EXCEPT ![q] = @ + 1]
        /\ Block(p)

First(S) == {x \in S : \A y \in S : x <= y}

\* PacketsQueue::pop takes the oldest packet that is not blocked.
Take(q) == \E i \in First(Unblocked(q)) : Start(q, i)

(***************************************************************************)
(* Init and the actions                                                    *)
(***************************************************************************)
Init ==
    /\ queues = [q \in Priorities |-> <<>>]
    /\ packetsCount = 0
    /\ polling = Workers
    /\ inPop = "free"
    /\ waiting = 0
    /\ busy = <<>>
    /\ actTotal = 0
    /\ act = [q \in Priorities |-> 0]
    /\ hardBlocked = {} /\ orderBlocked = {} /\ dagLevels = {} /\ dagBlocks = {}
    /\ stop = "no"
    /\ syncQueueEmpty = TRUE

\* push: refused once stopped, otherwise appended and one waiting worker is notified.
Push(k) ==
    /\ stop = "no"
    /\ inPop = "free"
    /\ packetsCount < MaxPackets
    /\ LET p == [id |-> packetsCount, type |-> k.type, from |-> k.from,
                 level |-> k.level, block |-> k.block]
       IN  queues' = [queues EXCEPT ![Priority(k.type)] = Append(@, p)]
    /\ packetsCount' = packetsCount + 1
    /\ waiting' = Max({0, waiting - 1})
    /\ polling' = polling + waiting - waiting'
    /\ UNCHANGED <<inPop, busy, actTotal, act, mask, stop, syncQueueEmpty>>

\* pop returned nothing: the worker ends if it sees the stop flag, or is about to wait.
NothingPopped ==
    /\ inPop' = IF stop = "no" THEN "wait" ELSE "free"
    /\ UNCHANGED <<queues, busy, actTotal, act, mask>>

\* A worker locks the mutex and makes the first pass of pop.
Poll ==
    /\ polling > 0
    /\ inPop = "free"
    /\ polling' = polling - 1
    /\ \/ /\ actTotal < Workers
          /\ \E q \in First(FirstPass) : Take(q)
          /\ UNCHANGED inPop
       \/ /\ actTotal < Workers /\ TryBorrowThread /\ FirstPass = {}
          /\ inPop' = "borrow"
          /\ UNCHANGED <<queues, busy, actTotal, act, mask>>
       \/ /\ actTotal >= Workers \/ (~TryBorrowThread /\ FirstPass = {})
          /\ NothingPopped
    /\ UNCHANGED <<packetsCount, waiting, stop, syncQueueEmpty>>

\* The second pass of pop ignores the limits if a thread can be borrowed.
Borrow ==
    /\ inPop = "borrow"
    /\ \/ /\ CanBorrowThread
          /\ \E q \in First({r \in Priorities : Unblocked(r) # {}}) : Take(q)
          /\ inPop' = "free"
       \/ /\ ~CanBorrowThread \/ \A q \in Priorities : Unblocked(q) = {}
          /\ NothingPopped
    /\ UNCHANGED <<packetsCount, polling, waiting, stop, syncQueueEmpty>>

\* cond_var_.wait releases the mutex.
Wait ==
    /\ inPop = "wait"
    /\ inPop' = "free"
    /\ waiting' = waiting + 1
    /\ UNCHANGED <<queues, packetsCount, polling, busy, actTotal, act, mask, stop, syncQueueEmpty>>

\* updateDependenciesFinish of a blocking packet, whatever its handler did or threw.
UnblockDependencies(p) ==
    /\ busy[p] = "handling"
    /\ p.type \notin NonBlocking
    /\ inPop = "free"
    /\ Unblock(p)
    /\ polling' = polling + waiting
    /\ waiting' = 0
    /\ busy' = [busy EXCEPT ![p] = "unblocked"]
    /\ UNCHANGED <<queues, packetsCount, inPop, actTotal, act, stop, syncQueueEmpty>>

DecrementTotal(p) ==
    /\ busy[p] = "unblocked" \/ (busy[p] = "handling" /\ p.type \in NonBlocking)
    /\ actTotal' = actTotal - 1
    /\ busy' = [busy EXCEPT ![p] = "uncounted"]
    /\ UNCHANGED <<queues, packetsCount, polling, inPop, waiting, act, mask, stop, syncQueueEmpty>>

\* The worker is done with p and goes on with the next packet unless it has to stop.
FinishPacket(p) ==
    /\ busy[p] = "uncounted"
    /\ act' = [act EXCEPT ![Priority(p.type)] = @ - 1]
    /\ busy' = [r \in DOMAIN busy \ {p} |-> busy[r]]
    /\ polling' = IF stop = "no" THEN polling + 1 ELSE polling
    /\ UNCHANGED <<queues, packetsCount, inPop, waiting, actTotal, mask, stop, syncQueueEmpty>>

\* stopProcessing sets the flag and then notifies, without the mutex.
SetStop ==
    /\ stop = "no"
    /\ stop' = "set"
    /\ UNCHANGED <<queues, packetsCount, polling, inPop, waiting, busy, actTotal, act, mask,
                   syncQueueEmpty>>

NotifyStop ==
    /\ stop = "set"
    /\ stop' = "notified"
    /\ polling' = polling + waiting
    /\ waiting' = 0
    /\ UNCHANGED <<queues, packetsCount, inPop, busy, actTotal, act, mask, syncQueueEmpty>>

\* The handler of a PbftSync packet pushes blocks into the queue of synced blocks, which
\* the PBFT manager drains.
FillSyncQueue ==
    /\ \E p \in DOMAIN busy : p.type = "PbftSync" /\ busy[p] = "handling"
    /\ syncQueueEmpty' = FALSE
    /\ UNCHANGED <<queues, packetsCount, polling, inPop, waiting, busy, actTotal, act, mask, stop>>

DrainSyncQueue ==
    /\ syncQueueEmpty' = TRUE
    /\ UNCHANGED <<queues, packetsCount, polling, inPop, waiting, busy, actTotal, act, mask, stop>>

Finish == \E p \in DOMAIN busy : UnblockDependencies(p) \/ DecrementTotal(p) \/ FinishPacket(p)

Next ==
    \/ \E k \in Kinds : Push(k)
    \/ Poll
    \/ Borrow
    \/ Wait
    \/ Finish
    \/ SetStop
    \/ NotifyStop
    \/ FillSyncQueue
    \/ DrainSyncQueue

\* The scheduler runs every worker thread that is not waiting; handlers return.
Spec == Init /\ [][Next]_vars
             /\ WF_vars(Poll) /\ WF_vars(Borrow) /\ WF_vars(Wait) /\ WF_vars(Finish)

\* Who called stopProcessing also gets to notify the workers.
StopSpec == Spec /\ WF_vars(NotifyStop)

(***************************************************************************)
(* Properties                                                              *)
(***************************************************************************)

Queued == UNION {Range(queues[q]) : q \in Priorities}
Handling == {p \in DOMAIN busy : busy[p] = "handling"}

\* The type invariant: every worker is in one place, every packet in its queue, and the
\* mask only has entries of packets that are being processed.
TypeOK ==
    /\ \A q \in Priorities : \A p \in Range(queues[q]) : Priority(p.type) = q
    /\ polling + waiting + Cardinality(DOMAIN busy)
         + (IF inPop = "free" THEN 0 ELSE 1) \in 0..Workers
    /\ polling \in Nat /\ waiting \in Nat
    /\ inPop \in {"free", "borrow", "wait"}
    /\ \A p \in DOMAIN busy : busy[p] \in {"handling", "unblocked", "uncounted"}
    /\ {e[2] : e \in hardBlocked} \cup {e[2] : e \in orderBlocked} \cup {e[2] : e \in dagLevels}
         \subseteq {p.id : p \in Handling}
    /\ stop \in {"no", "set", "notified"}
    /\ syncQueueEmpty \in BOOLEAN

\* The counters never run out of range although they are changed outside the mutex:
\* the assertions of updateDependenciesStart, updateDependenciesFinish and
\* decrementActWorkersCount.
CountersMatch ==
    /\ actTotal = Cardinality({p \in DOMAIN busy : busy[p] # "uncounted"})
    /\ \A q \in Priorities :
         act[q] = Cardinality({p \in DOMAIN busy : Priority(p.type) = q})

\* Packets that must be processed one at a time are, and no DAG block is processed
\* twice at the same time (hard_blocking_deps and same_dag_blks_ordering tests).
OneAtATimeProcessed ==
    \A p, r \in Handling : p # r /\ p.type = r.type =>
        /\ p.type \notin OneAtATime
        /\ p.type = "DagBlock" => p.block # r.block

\* Whatever the workers do outside the mutex, the mask blocks what it must and the
\* counters stay right (PacketsBlockingMask, PriorityQueue::updateDependenciesFinish).
PoolIsConsistent == TypeOK /\ CountersMatch /\ OneAtATimeProcessed

Started == DOMAIN busy' \ DOMAIN busy

\* A DAG block is processed only when every transaction packet that the same peer had
\* sent before has been processed, even the ones that are still in a queue; proposed
\* blocks only when no synced block is being processed or queued.
DependenciesFirst ==
    [][\A p \in Started :
          /\ p.type = "DagBlock" =>
               \A t \in Queued \cup Handling : t.type = "Transaction" /\ t.from = p.from => t.id > p.id
          /\ p.type = "PbftBlocksBundle" =>
               syncQueueEmpty /\ \A r \in Handling : r.type # "PbftSync"]_vars

\* Unless the pool is stopped every packet is eventually taken by a worker, although
\* workers are notified before the counters are decremented.  PbftBlocksBundle may wait
\* for ever: no one notifies the workers when the queue of synced blocks drains.
Processed ==
    <>[](stop # "no" \/ \A p \in Queued : p.type = "PbftBlocksBundle")

=============================================================================
