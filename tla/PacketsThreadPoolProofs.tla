---------------------- MODULE PacketsThreadPoolProofs ----------------------
(***************************************************************************)
(* Proofs about PacketsThreadPool, for every number of workers, packets    *)
(* and peers: the counters that are changed outside of queue_mutex_ match  *)
(* the packets that are being processed, the blocking mask holds exactly   *)
(* the entries of those packets, and no packet is started before the ones  *)
(* it depends on.                                                          *)
(*                                                                         *)
(* CoreInv is about the packets: QueuesOK says where they are, MaskExact   *)
(* what the mask holds.  WorkersOK is about the threads.                   *)
(***************************************************************************)
EXTENDS PacketsThreadPool, FiniteSetTheorems, SequenceTheorems, TLAPS

\* The time the SMT solver is given for a step that names no prover.
USE SMTT(60)

Packets ==
  {[id |-> n, type |-> k.type, from |-> k.from, level |-> k.level, block |-> k.block] :
     n \in Nat, k \in Kinds}

\* A queue has the packets of its priority, in the order in which they were pushed.
QueuesOK ==
  /\ queues \in [Priorities -> Seq(Packets)]
  /\ packetsCount \in Nat
  /\ \A q \in Priorities : \A i \in 1..Len(queues[q]) :
       Priority(queues[q][i].type) = q /\ queues[q][i].id < packetsCount
  /\ \A q \in Priorities : \A i, j \in 1..Len(queues[q]) :
       i < j => queues[q][i].id < queues[q][j].id
  /\ \A q, r \in Priorities : \A i \in 1..Len(queues[q]), j \in 1..Len(queues[r]) :
       queues[q][i].id = queues[r][j].id => q = r

\* A packet that is being processed is in no queue and no other packet has its id.
BusyOK ==
  /\ IsFiniteSet(DOMAIN busy) /\ DOMAIN busy \subseteq Packets
  /\ busy \in [DOMAIN busy -> {"handling", "unblocked", "uncounted"}]
  /\ act \in [Priorities -> Int] /\ actTotal \in Int
  /\ \A p \in DOMAIN busy : p.id < packetsCount
  /\ \A p, r \in DOMAIN busy : p.id = r.id => p = r
  /\ \A p \in DOMAIN busy : \A q \in Priorities : \A i \in 1..Len(queues[q]) :
       queues[q][i].id # p.id

\* The mask has the entries of the packets that are being handled and no others.
MaskExact ==
  /\ hardBlocked = UNION {HardBlocks(p) : p \in Handling}
  /\ orderBlocked = UNION {OrderBlocks(p) : p \in Handling}
  /\ dagLevels = UNION {LevelBlocks(p) : p \in Handling}
  /\ dagBlocks = UNION {BlockBlocks(p) : p \in Handling}

CoreInv == QueuesOK /\ BusyOK /\ MaskExact /\ CountersMatch /\ OneAtATimeProcessed

WorkersOK ==
  /\ polling \in Nat /\ waiting \in Nat /\ inPop \in {"free", "borrow", "wait"}
  /\ polling + waiting + Cardinality(DOMAIN busy) + (IF inPop = "free" THEN 0 ELSE 1) <= Workers
  /\ stop \in {"no", "set", "notified"} /\ syncQueueEmpty \in BOOLEAN

PoolInv == CoreInv /\ WorkersOK

core == <<queues, packetsCount, busy, actTotal, act, mask>>

-----------------------------------------------------------------------------
(* Operators.                                                              *)

\* Taking out the i-th element shifts the later ones.
LEMMA EraseProperties ==
  ASSUME NEW S, NEW s \in Seq(S), NEW i \in 1..Len(s)
  PROVE  /\ Erase(s, i) \in Seq(S) /\ Len(Erase(s, i)) = Len(s) - 1
         /\ \A j \in 1..Len(s) - 1 : Erase(s, i)[j] = IF j < i THEN s[j] ELSE s[j + 1]
<1> DEFINE a == SubSeq(s, 1, i - 1)
           b == SubSeq(s, i + 1, Len(s))
<1>1. Len(s) \in Nat /\ s \in [1..Len(s) -> S]
  OBVIOUS
<1>2. a \in Seq(S) /\ Len(a) = i - 1 /\ \A j \in 1..i - 1 : a[j] = s[j]
  BY <1>1, SubSeqProperties
<1>3. b \in Seq(S) /\ Len(b) = Len(s) - i /\ \A j \in 1..Len(s) - i : b[j] = s[i + j]
  <2>1. \A j \in i + 1..Len(s) : s[j] \in S
    BY <1>1
  <2>2. /\ b \in Seq(S) /\ Len(b) = IF i + 1 <= Len(s) THEN Len(s) - (i + 1) + 1 ELSE 0
        /\ \A j \in 1..Len(s) - (i + 1) + 1 : b[j] = s[i + 1 + j - 1]
    BY <1>1, <2>1, SubSeqProperties
  <2> HIDE DEF b
  <2>3. Len(b) = Len(s) - i
    <3>1. i \in Int /\ i <= Len(s) /\ Len(s) \in Int
      BY <1>1
    <3>2. Len(b) = IF i + 1 <= Len(s) THEN Len(s) - (i + 1) + 1 ELSE 0
      BY <2>2, Zenon
    <3> QED
      BY <3>1, <3>2
  <2>4. ASSUME NEW j \in 1..Len(s) - i PROVE b[j] = s[i + j]
    <3>1. j \in 1..Len(s) - (i + 1) + 1 /\ i + 1 + j - 1 = i + j
      BY <1>1
    <3> QED
      BY <2>2, <3>1, Zenon
  <2> QED
    BY <2>2, <2>3, <2>4, Zenon
<1> HIDE DEF a, b
<1>4. /\ a \o b \in Seq(S) /\ Len(a \o b) = Len(a) + Len(b)
      /\ \A j \in 1..Len(a) + Len(b) : (a \o b)[j] = IF j <= Len(a) THEN a[j] ELSE b[j - Len(a)]
  BY <1>2, <1>3, ConcatProperties, Zenon
<1>5. ASSUME NEW j \in 1..Len(s) - 1 PROVE (a \o b)[j] = IF j < i THEN s[j] ELSE s[j + 1]
  <2>1. j \in 1..Len(a) + Len(b)
    BY <1>1, <1>2, <1>3
  <2>2. CASE j < i
    BY <1>1, <1>2, <1>4, <2>1, <2>2
  <2>3. CASE ~(j < i)
    <3>1. (a \o b)[j] = b[j - (i - 1)]
      BY <1>1, <1>2, <1>4, <2>1, <2>3
    <3>2. j - (i - 1) \in 1..Len(s) - i /\ i + (j - (i - 1)) = j + 1
      BY <1>1, <2>3
    <3> QED
      BY <1>3, <2>3, <3>1, <3>2, Zenon
  <2> QED
    BY <2>2, <2>3, Zenon
<1>6. Erase(s, i) = a \o b
  BY Zenon DEF Erase, a, b
<1>7. Len(a \o b) = Len(s) - 1
  BY <1>1, <1>2, <1>3, <1>4
<1> QED
  BY <1>4, <1>5, <1>6, <1>7, Zenon

LEMMA MaxOfTwo ==
  ASSUME NEW a \in Int, NEW b \in Int
  PROVE  Max({a, b}) = IF a >= b THEN a ELSE b
BY DEF Max

\* Every packet has a type and a priority.
LEMMA PacketTypes ==
  ASSUME NEW p \in Packets
  PROVE  p.type \in Types /\ p.id \in Nat /\ p.level \in Nat /\ Priority(p.type) \in Priorities
<1>1. PICK n \in Nat, k \in Kinds :
        p = [id |-> n, type |-> k.type, from |-> k.from, level |-> k.level, block |-> k.block]
  BY DEF Packets
<1>2. p.type \in Types /\ p.id \in Nat /\ p.level \in Nat
  BY <1>1, PacketsAssumption, Zenon
<1> QED
  BY <1>2, Zenon DEF Types, Priority, Priorities, HighTypes, MidTypes, LowTypes, High, Mid, Low

-----------------------------------------------------------------------------
(* Starting a packet.                                                      *)

\* Where the packets are after the i-th one of queue q was taken.
LEMMA TakenFromQueue ==
  ASSUME QueuesOK, NEW q \in Priorities, NEW i \in 1..Len(queues[q]),
         queues' = [queues EXCEPT ![q] = Erase(@, i)]
  PROVE  /\ queues' \in [Priorities -> Seq(Packets)]
         /\ \A r \in Priorities : \A j \in 1..Len(queues'[r]) :
              LET k == IF r = q /\ j >= i THEN j + 1 ELSE j
              IN  k \in 1..Len(queues[r]) /\ queues'[r][j] = queues[r][k]
<1>1. queues[q] \in Seq(Packets) /\ queues \in [Priorities -> Seq(Packets)] /\ Len(queues[q]) \in Nat
  BY DEF QueuesOK
<1>2. /\ queues'[q] \in Seq(Packets) /\ Len(queues'[q]) = Len(queues[q]) - 1
      /\ \A j \in 1..Len(queues[q]) - 1 :
           queues'[q][j] = IF j < i THEN queues[q][j] ELSE queues[q][j + 1]
  BY <1>1, EraseProperties, Zenon
<1>3. \A r \in Priorities : r # q => queues'[r] = queues[r]
  BY <1>1, Zenon
<1>4. ASSUME NEW r \in Priorities, NEW j \in 1..Len(queues'[r])
      PROVE  LET k == IF r = q /\ j >= i THEN j + 1 ELSE j
             IN  k \in 1..Len(queues[r]) /\ queues'[r][j] = queues[r][k]
  <2>1. CASE r = q
    BY <1>1, <1>2, <2>1
  <2>2. CASE r # q
    BY <1>3, <2>2, Zenon
  <2> QED
    BY <2>1, <2>2, Zenon
<1> QED
  BY <1>1, <1>2, <1>4, Zenon

\* Starting a packet that is not blocked keeps CoreInv.
LEMMA StartKeeps ==
  ASSUME CoreInv, NEW q \in Priorities, NEW i \in Unblocked(q), Start(q, i),
         packetsCount' = packetsCount
  PROVE  /\ CoreInv'
         /\ queues[q][i] \notin DOMAIN busy /\ DOMAIN busy' = DOMAIN busy \cup {queues[q][i]}
         /\ Cardinality(DOMAIN busy') = Cardinality(DOMAIN busy) + 1
<1> DEFINE p == queues[q][i]
<1>1. /\ queues[q] \in Seq(Packets) /\ i \in 1..Len(queues[q]) /\ ~IsPacketBlocked(p)
      /\ p \in Packets /\ Priority(p.type) = q /\ p.id < packetsCount /\ packetsCount \in Nat
  BY DEF Unblocked, CoreInv, QueuesOK
<1>2. /\ queues' = [queues EXCEPT ![q] = Erase(@, i)]
      /\ busy' = [r \in DOMAIN busy \cup {p} |-> IF r = p THEN "handling" ELSE busy[r]]
      /\ actTotal' = actTotal + 1 /\ act' = [act EXCEPT ![q] = @ + 1] /\ Block(p)
  BY Zenon DEF Start
<1>3. p \notin DOMAIN busy
  BY <1>1, Zenon DEF CoreInv, BusyOK
<1>4. /\ DOMAIN busy' = DOMAIN busy \cup {p} /\ busy'[p] = "handling"
      /\ \A r \in DOMAIN busy : busy'[r] = busy[r]
  <2> HIDE DEF p
  <2> QED
    BY <1>2, <1>3, Zenon
<1>5. IsFiniteSet(DOMAIN busy') /\ Cardinality(DOMAIN busy') = Cardinality(DOMAIN busy) + 1
  <2>1. IsFiniteSet(DOMAIN busy)
    BY Zenon DEF CoreInv, BusyOK
  <2> HIDE DEF p
  <2>2. /\ IsFiniteSet(DOMAIN busy \cup {p})
        /\ Cardinality(DOMAIN busy \cup {p}) = Cardinality(DOMAIN busy) + 1
    BY <1>3, <2>1, FS_AddElement, Zenon
  <2> QED
    BY <1>4, <2>2, Zenon
<1>6. Handling' = Handling \cup {p}
  BY <1>3, <1>4, Zenon DEF Handling
<1>7. QueuesOK'
  <2>1. /\ queues' \in [Priorities -> Seq(Packets)]
        /\ \A r \in Priorities : \A j \in 1..Len(queues'[r]) :
             LET k == IF r = q /\ j >= i THEN j + 1 ELSE j
             IN  k \in 1..Len(queues[r]) /\ queues'[r][j] = queues[r][k]
    BY <1>1, <1>2, TakenFromQueue, Zenon DEF CoreInv
  <2>2. ASSUME NEW r \in Priorities, NEW j \in 1..Len(queues'[r])
        PROVE  Priority(queues'[r][j].type) = r /\ queues'[r][j].id < packetsCount
    <3>1. PICK k \in 1..Len(queues[r]) : queues'[r][j] = queues[r][k]
      BY <2>1, Zenon
    <3> QED
      BY <3>1, Zenon DEF CoreInv, QueuesOK
  <2>3. ASSUME NEW r \in Priorities, NEW j \in 1..Len(queues'[r]), NEW m \in 1..Len(queues'[r]), j < m
        PROVE  queues'[r][j].id < queues'[r][m].id
    <3> DEFINE k(x) == IF r = q /\ x >= i THEN x + 1 ELSE x
    <3>1. /\ k(j) \in 1..Len(queues[r]) /\ queues'[r][j] = queues[r][k(j)]
          /\ k(m) \in 1..Len(queues[r]) /\ queues'[r][m] = queues[r][k(m)]
      BY <2>1, Zenon
    <3>2. k(j) < k(m)
      BY <1>1, <2>3
    <3> HIDE DEF k
    <3> QED
      BY <3>1, <3>2, Zenon DEF CoreInv, QueuesOK
  <2>4. ASSUME NEW r \in Priorities, NEW t \in Priorities, NEW j \in 1..Len(queues'[r]),
               NEW m \in 1..Len(queues'[t]), queues'[r][j].id = queues'[t][m].id
        PROVE  r = t
    <3>1. PICK k \in 1..Len(queues[r]) : queues'[r][j] = queues[r][k]
      BY <2>1, Zenon
    <3>2. PICK n \in 1..Len(queues[t]) : queues'[t][m] = queues[t][n]
      BY <2>1, Zenon
    <3> QED
      BY <2>4, <3>1, <3>2 DEF CoreInv, QueuesOK
  <2> QED
    BY <1>1, <2>1, <2>2, <2>3, <2>4, Zenon DEF QueuesOK
<1>8. BusyOK'
  <2>1. DOMAIN busy' \subseteq Packets /\ \A r \in DOMAIN busy' : r.id < packetsCount'
    BY <1>1, <1>4, Zenon DEF CoreInv, BusyOK
  <2>2. busy' \in [DOMAIN busy' -> {"handling", "unblocked", "uncounted"}]
    BY <1>2, <1>4, Zenon DEF CoreInv, BusyOK
  <2>3. ASSUME NEW r \in DOMAIN busy', NEW t \in DOMAIN busy', r.id = t.id PROVE r = t
    BY <1>1, <1>4, <2>3 DEF CoreInv, BusyOK
  <2>4. ASSUME NEW r \in DOMAIN busy', NEW t \in Priorities, NEW j \in 1..Len(queues'[t])
        PROVE  queues'[t][j].id # r.id
    <3> DEFINE n == IF t = q /\ j >= i THEN j + 1 ELSE j
    <3>0. n \in 1..Len(queues[t]) /\ queues'[t][j] = queues[t][n]
      BY <1>1, <1>2, TakenFromQueue, Zenon DEF CoreInv
    <3>1. PICK k \in 1..Len(queues[t]) : queues'[t][j] = queues[t][k] /\ (t = q => k # i)
      BY <1>1, <3>0
    <3>2. CASE r \in DOMAIN busy
      BY <3>1, <3>2, Zenon DEF CoreInv, BusyOK
    <3>3. CASE r = p
      <4>1. CASE t # q
        BY <1>1, <3>1, <3>3, <4>1, Zenon DEF CoreInv, QueuesOK
      <4>2. CASE t = q
        <5>1. k < i \/ i < k
          BY <1>1, <3>1, <4>2
        <5>2. p.id \in Nat /\ queues[q][k].id \in Nat /\ (k < i => queues[q][k].id < p.id)
              /\ (i < k => p.id < queues[q][k].id)
          BY <1>1, <3>1, <4>2, PacketTypes DEF CoreInv, QueuesOK
        <5> QED
          BY <3>1, <3>3, <4>2, <5>1, <5>2
      <4> QED
        BY <4>1, <4>2, Zenon
    <3> QED
      BY <1>4, <3>2, <3>3, Zenon
  <2>5. act' \in [Priorities -> Int] /\ actTotal' \in Int
    BY <1>2 DEF CoreInv, BusyOK
  <2> QED
    BY <1>5, <2>1, <2>2, <2>3, <2>4, <2>5 DEF BusyOK
<1>9. MaskExact'
  <2>1. \A r : HardBlocks(r)' = HardBlocks(r) /\ OrderBlocks(r)' = OrderBlocks(r)
               /\ LevelBlocks(r)' = LevelBlocks(r) /\ BlockBlocks(r)' = BlockBlocks(r)
    BY Zenon DEF HardBlocks, OrderBlocks, LevelBlocks, BlockBlocks
  <2>2. /\ hardBlocked' = hardBlocked \cup HardBlocks(p) /\ orderBlocked' = orderBlocked \cup OrderBlocks(p)
        /\ dagLevels' = dagLevels \cup LevelBlocks(p) /\ dagBlocks' = dagBlocks \cup BlockBlocks(p)
    BY <1>2, Zenon DEF Block
  <2> HIDE DEF p
  <2> QED
    BY <1>6, <2>1, <2>2, Zenon DEF CoreInv, MaskExact
<1>10. CountersMatch'
  <2>1. actTotal' = Cardinality({r \in DOMAIN busy' : busy'[r] # "uncounted"})
    <3> DEFINE S == {r \in DOMAIN busy : busy[r] # "uncounted"}
    <3>1. {r \in DOMAIN busy' : busy'[r] # "uncounted"} = S \cup {p} /\ p \notin S
      BY <1>3, <1>4, Zenon
    <3>2. IsFiniteSet(S)
      BY FS_Subset, Zenon DEF CoreInv, BusyOK
    <3>3. Cardinality(S \cup {p}) = Cardinality(S) + 1
      BY <3>1, <3>2, FS_AddElement, Zenon
    <3> QED
      BY <1>2, <3>1, <3>3, Zenon DEF CoreInv, CountersMatch
  <2>2. ASSUME NEW r \in Priorities
        PROVE  act'[r] = Cardinality({t \in DOMAIN busy' : Priority(t.type) = r})
    <3> DEFINE S == {t \in DOMAIN busy : Priority(t.type) = r}
    <3>1. act[r] = Cardinality(S) /\ act \in [Priorities -> Int]
      BY Zenon DEF CoreInv, BusyOK, CountersMatch
    <3>2. CASE r = q
      <4>1. {t \in DOMAIN busy' : Priority(t.type) = r} = S \cup {p} /\ p \notin S
        BY <1>1, <1>3, <1>4, <3>2, Zenon
      <4>2. Cardinality(S \cup {p}) = Cardinality(S) + 1
        BY <4>1, FS_Subset, FS_AddElement, Zenon DEF CoreInv, BusyOK
      <4> QED
        BY <1>2, <3>1, <3>2, <4>1, <4>2, Zenon
    <3>3. CASE r # q
      <4>1. {t \in DOMAIN busy' : Priority(t.type) = r} = S
        BY <1>1, <1>4, <3>3, Zenon
      <4> QED
        BY <1>2, <3>1, <3>3, <4>1, Zenon
    <3> QED
      BY <3>2, <3>3, Zenon
  <2> QED
    BY <2>1, <2>2, Zenon DEF CountersMatch
<1>11. OneAtATimeProcessed'
  <2>1. ASSUME NEW r \in Handling, p.type = r.type
        PROVE  p.type \notin OneAtATime /\ (p.type = "DagBlock" => p.block # r.block)
    <3>1. HardBlocks(r) \subseteq hardBlocked /\ BlockBlocks(r) \subseteq dagBlocks
      BY Zenon DEF CoreInv, MaskExact
    <3>2. p.type \in OneAtATime => <<p.type, r.id>> \in hardBlocked
      BY <2>1, <3>1, Zenon DEF HardBlocks
    <3>3. p.type = "DagBlock" => r.block \in dagBlocks
      BY <2>1, <3>1, Zenon DEF BlockBlocks
    <3> QED
      BY <1>1, <3>2, <3>3, Zenon
      DEF IsPacketBlocked, IsPacketHardBlocked, IsDagBlockPacketBlockedBySameDagBlock
  <2> QED
    BY <1>6, <2>1 DEF CoreInv, OneAtATimeProcessed
<1> QED
  BY <1>3, <1>4, <1>5, <1>7, <1>8, <1>9, <1>10, <1>11, Zenon DEF CoreInv

-----------------------------------------------------------------------------
(* The workers that take packets.                                          *)

\* A step that leaves the packets and the mask alone keeps CoreInv.
LEMMA CoreUnchanged ==
  ASSUME CoreInv, UNCHANGED core
  PROVE  CoreInv'
BY DEF CoreInv, core, mask, QueuesOK, BusyOK, MaskExact, CountersMatch, OneAtATimeProcessed,
       Handling, HardBlocks, OrderBlocks, LevelBlocks, BlockBlocks

LEMMA CardinalityOfBusy ==
  ASSUME CoreInv
  PROVE  Cardinality(DOMAIN busy) \in Nat
BY FS_CardinalityType, Zenon DEF CoreInv, BusyOK

LEMMA TakeKeeps ==
  ASSUME CoreInv, NEW q \in Priorities, Take(q), packetsCount' = packetsCount
  PROVE  CoreInv' /\ Cardinality(DOMAIN busy') = Cardinality(DOMAIN busy) + 1
<1>1. PICK i \in First(Unblocked(q)) : Start(q, i)
  BY Zenon DEF Take
<1>2. i \in Unblocked(q)
  BY Zenon DEF First
<1> QED
  BY <1>1, <1>2, StartKeeps, Zenon

LEMMA PollKeeps ==
  ASSUME PoolInv, Poll
  PROVE  PoolInv'
<1>1. polling > 0 /\ inPop = "free" /\ polling' = polling - 1 /\ Cardinality(DOMAIN busy) \in Nat
  BY CardinalityOfBusy, Zenon DEF Poll, PoolInv
<1>2. packetsCount' = packetsCount /\ waiting' = waiting /\ stop' = stop /\ syncQueueEmpty' = syncQueueEmpty
  BY Zenon DEF Poll
<1>3. CASE inPop' = inPop /\ \E q \in First(FirstPass) : Take(q)
  <2>1. PICK q \in Priorities : Take(q)
    BY <1>3, Zenon DEF First, FirstPass
  <2>2. CoreInv' /\ Cardinality(DOMAIN busy') = Cardinality(DOMAIN busy) + 1
    BY <1>2, <2>1, TakeKeeps, Zenon DEF PoolInv
  <2> QED
    BY <1>1, <1>2, <1>3, <2>2, WorkersAssumption DEF PoolInv, WorkersOK
<1>4. CASE inPop' \in {"borrow", "wait", "free"} /\ UNCHANGED <<queues, busy, actTotal, act, mask>>
  <2>1. CoreInv' /\ busy' = busy
    BY <1>2, <1>4, CoreUnchanged, Zenon DEF PoolInv, core
  <2> QED
    BY <1>1, <1>2, <1>4, <2>1, WorkersAssumption DEF PoolInv, WorkersOK
<1> QED
  BY <1>3, <1>4, Zenon DEF Poll, NothingPopped

LEMMA BorrowKeeps ==
  ASSUME PoolInv, Borrow
  PROVE  PoolInv'
<1>1. inPop = "borrow" /\ Cardinality(DOMAIN busy) \in Nat
  BY CardinalityOfBusy, Zenon DEF Borrow, PoolInv
<1>2. packetsCount' = packetsCount /\ polling' = polling /\ waiting' = waiting /\ stop' = stop
      /\ syncQueueEmpty' = syncQueueEmpty
  BY Zenon DEF Borrow
<1>3. CASE inPop' = "free" /\ \E q \in First({r \in Priorities : Unblocked(r) # {}}) : Take(q)
  <2>1. PICK q \in Priorities : Take(q)
    BY <1>3, Zenon DEF First
  <2>2. CoreInv' /\ Cardinality(DOMAIN busy') = Cardinality(DOMAIN busy) + 1
    BY <1>2, <2>1, TakeKeeps, Zenon DEF PoolInv
  <2> QED
    BY <1>1, <1>2, <1>3, <2>2, WorkersAssumption DEF PoolInv, WorkersOK
<1>4. CASE inPop' \in {"wait", "free"} /\ UNCHANGED <<queues, busy, actTotal, act, mask>>
  <2>1. CoreInv' /\ busy' = busy
    BY <1>2, <1>4, CoreUnchanged, Zenon DEF PoolInv, core
  <2> QED
    BY <1>1, <1>2, <1>4, <2>1, WorkersAssumption DEF PoolInv, WorkersOK
<1> QED
  BY <1>3, <1>4, Zenon DEF Borrow, NothingPopped

\* The steps that only move workers, set the stop flag or fill and drain the sync queue.
LEMMA WorkersOnlyKeeps ==
  ASSUME PoolInv, Wait \/ SetStop \/ NotifyStop \/ FillSyncQueue \/ DrainSyncQueue
  PROVE  PoolInv'
<1>1. UNCHANGED core
  BY Zenon DEF Wait, SetStop, NotifyStop, FillSyncQueue, DrainSyncQueue, core
<1>2. CoreInv' /\ busy' = busy /\ Cardinality(DOMAIN busy) \in Nat
  BY <1>1, CoreUnchanged, CardinalityOfBusy, Zenon DEF PoolInv, core
<1>3. WorkersOK'
  <2>1. syncQueueEmpty' \in BOOLEAN /\ stop' \in {"no", "set", "notified"}
    BY Zenon DEF PoolInv, WorkersOK, Wait, SetStop, NotifyStop, FillSyncQueue, DrainSyncQueue
  <2>2. /\ polling' \in Nat /\ waiting' \in Nat /\ inPop' \in {"free", "borrow", "wait"}
        /\ polling' + waiting' + Cardinality(DOMAIN busy) + (IF inPop' = "free" THEN 0 ELSE 1) <= Workers
    <3>1. CASE Wait
      BY <1>2, <3>1, WorkersAssumption DEF PoolInv, WorkersOK, Wait
    <3>2. CASE NotifyStop
      BY <1>2, <3>2, WorkersAssumption DEF PoolInv, WorkersOK, NotifyStop
    <3>3. CASE SetStop \/ FillSyncQueue \/ DrainSyncQueue
      <4>1. polling' = polling /\ waiting' = waiting /\ inPop' = inPop
        BY <3>3, Zenon DEF SetStop, FillSyncQueue, DrainSyncQueue
      <4> QED
        BY <1>2, <4>1, Zenon DEF PoolInv, WorkersOK
    <3> QED
      BY <3>1, <3>2, <3>3, Zenon
  <2> QED
    BY <1>2, <2>1, <2>2, Zenon DEF WorkersOK
<1> QED
  BY <1>2, <1>3, Zenon DEF PoolInv

-----------------------------------------------------------------------------
(* The push of a packet.                                                   *)

LEMMA PushKeepsCore ==
  ASSUME CoreInv, NEW k \in Kinds, Push(k)
  PROVE  CoreInv'
<1> DEFINE p == [id |-> packetsCount, type |-> k.type, from |-> k.from,
                 level |-> k.level, block |-> k.block]
           q == Priority(k.type)
<1>1. /\ queues' = [queues EXCEPT ![q] = Append(@, p)] /\ packetsCount' = packetsCount + 1
      /\ busy' = busy /\ actTotal' = actTotal /\ act' = act /\ UNCHANGED mask
  BY Zenon DEF Push
<1>2. p \in Packets /\ q \in Priorities /\ p.id = packetsCount /\ p.type = k.type /\ packetsCount \in Nat
  <2>1. packetsCount \in Nat
    BY Zenon DEF CoreInv, QueuesOK
  <2>2. p \in Packets
    BY <2>1 DEF Packets
  <2> QED
    BY <2>1, <2>2, PacketTypes, Zenon
<1> HIDE DEF p, q
<1>3. queues \in [Priorities -> Seq(Packets)]
  BY Zenon DEF CoreInv, QueuesOK
<1>4. queues' \in [Priorities -> Seq(Packets)]
  BY <1>1, <1>2, <1>3
<1>5. ASSUME NEW r \in Priorities, NEW j \in 1..Len(queues'[r])
      PROVE  \/ j \in 1..Len(queues[r]) /\ queues'[r][j] = queues[r][j]
             \/ r = q /\ j = Len(queues[r]) + 1 /\ queues'[r][j] = p
  <2>1. CASE r = q
    BY <1>1, <1>2, <1>3, <2>1
  <2>2. CASE r # q
    BY <1>1, <1>2, <1>3, <2>2, Zenon
  <2> QED
    BY <2>1, <2>2, Zenon
<1>6. \A r \in Priorities : \A j \in 1..Len(queues[r]) :
        queues[r][j].id \in Nat /\ queues[r][j].id < packetsCount /\ Priority(queues[r][j].type) = r
  <2> SUFFICES ASSUME NEW r \in Priorities, NEW j \in 1..Len(queues[r])
               PROVE  queues[r][j].id \in Nat /\ queues[r][j].id < packetsCount
                      /\ Priority(queues[r][j].type) = r
    BY Zenon
  <2>1. queues[r][j] \in Packets
    BY <1>3
  <2> QED
    BY <2>1, PacketTypes, Zenon DEF CoreInv, QueuesOK
<1>7. QueuesOK'
  <2>1. ASSUME NEW r \in Priorities, NEW j \in 1..Len(queues'[r])
        PROVE  Priority(queues'[r][j].type) = r /\ queues'[r][j].id < packetsCount'
    BY <1>1, <1>2, <1>5, <1>6 DEF q
  <2>2. ASSUME NEW r \in Priorities, NEW j \in 1..Len(queues'[r]), NEW m \in 1..Len(queues'[r]), j < m
        PROVE  queues'[r][j].id < queues'[r][m].id
    <3>1. Len(queues[r]) \in Nat
      BY <1>3
    <3>2. CASE m \in 1..Len(queues[r]) /\ queues'[r][m] = queues[r][m]
      <4>1. j \in 1..Len(queues[r]) /\ queues'[r][j] = queues[r][j]
        BY <1>5, <2>2, <3>1, <3>2
      <4> QED
        BY <2>2, <3>2, <4>1, Zenon DEF CoreInv, QueuesOK
    <3>3. CASE r = q /\ m = Len(queues[r]) + 1 /\ queues'[r][m] = p
      <4>1. j \in 1..Len(queues[r]) /\ queues'[r][j] = queues[r][j]
        BY <1>5, <2>2, <3>1, <3>3
      <4> QED
        BY <1>2, <1>6, <3>3, <4>1, Zenon
    <3> QED
      BY <1>5, <3>2, <3>3, Zenon
  <2>3. ASSUME NEW r \in Priorities, NEW t \in Priorities, NEW j \in 1..Len(queues'[r]),
               NEW m \in 1..Len(queues'[t]), queues'[r][j].id = queues'[t][m].id
        PROVE  r = t
    <3>1. CASE j \in 1..Len(queues[r]) /\ queues'[r][j] = queues[r][j]
               /\ m \in 1..Len(queues[t]) /\ queues'[t][m] = queues[t][m]
      BY <2>3, <3>1, Zenon DEF CoreInv, QueuesOK
    <3>2. CASE r = q /\ queues'[r][j] = p
      <4>1. ~(m \in 1..Len(queues[t]) /\ queues'[t][m] = queues[t][m])
        BY <1>2, <1>6, <2>3, <3>2
      <4> QED
        BY <1>5, <3>2, <4>1, Zenon
    <3>3. CASE t = q /\ queues'[t][m] = p
      <4>1. ~(j \in 1..Len(queues[r]) /\ queues'[r][j] = queues[r][j])
        BY <1>2, <1>6, <2>3, <3>3
      <4> QED
        BY <1>5, <3>3, <4>1, Zenon
    <3> QED
      BY <1>5, <3>1, <3>2, <3>3, Zenon
  <2>4. packetsCount' \in Nat
    BY <1>1, <1>2
  <2> QED
    BY <1>4, <2>1, <2>2, <2>3, <2>4, ZenonT(60) DEF QueuesOK
<1>8. BusyOK'
  <2>1. ASSUME NEW r \in DOMAIN busy PROVE r.id < packetsCount'
    <3>1. r.id \in Nat /\ r.id < packetsCount
      BY PacketTypes, Zenon DEF CoreInv, BusyOK
    <3> QED
      BY <1>1, <1>2, <3>1
  <2>2. ASSUME NEW r \in DOMAIN busy, NEW t \in Priorities, NEW j \in 1..Len(queues'[t])
        PROVE  queues'[t][j].id # r.id
    <3>1. r.id \in Nat /\ r.id < packetsCount
      BY PacketTypes, Zenon DEF CoreInv, BusyOK
    <3>2. CASE j \in 1..Len(queues[t]) /\ queues'[t][j] = queues[t][j]
      BY <3>2, Zenon DEF CoreInv, BusyOK
    <3>3. CASE queues'[t][j] = p
      BY <1>2, <3>1, <3>3
    <3> QED
      BY <1>5, <3>2, <3>3, Zenon
  <2> QED
    BY <1>1, <2>1, <2>2, Zenon DEF CoreInv, BusyOK
<1>9. MaskExact' /\ CountersMatch' /\ OneAtATimeProcessed'
  BY <1>1 DEF CoreInv, mask, MaskExact, CountersMatch, OneAtATimeProcessed, Handling,
              HardBlocks, OrderBlocks, LevelBlocks, BlockBlocks
<1> QED
  BY <1>7, <1>8, <1>9, Zenon DEF CoreInv

LEMMA PushKeeps ==
  ASSUME PoolInv, NEW k \in Kinds, Push(k)
  PROVE  PoolInv'
<1>1. CoreInv' /\ Cardinality(DOMAIN busy) \in Nat
  BY PushKeepsCore, CardinalityOfBusy, Zenon DEF PoolInv
<1>2. /\ waiting' = Max({0, waiting - 1}) /\ polling' = polling + waiting - waiting' /\ inPop = "free"
      /\ inPop' = inPop /\ busy' = busy /\ stop' = stop /\ syncQueueEmpty' = syncQueueEmpty
  BY Zenon DEF Push
<1>3. polling \in Nat /\ waiting \in Nat
  BY Zenon DEF PoolInv, WorkersOK
<1>4. waiting' = IF 0 >= waiting - 1 THEN 0 ELSE waiting - 1
  BY <1>2, <1>3, MaxOfTwo
<1>5. waiting' \in Nat /\ polling' \in Nat /\ polling' + waiting' = polling + waiting
  BY <1>2, <1>3, <1>4
<1> QED
  BY <1>1, <1>2, <1>5, Zenon DEF PoolInv, WorkersOK

-----------------------------------------------------------------------------
(* The end of a packet.                                                    *)

\* What a packet adds to the mask has its id, or is its DAG block.
LEMMA MaskEntries ==
  ASSUME NEW p, NEW r, p.id # r.id
  PROVE  /\ HardBlocks(p) \cap HardBlocks(r) = {} /\ OrderBlocks(p) \cap OrderBlocks(r) = {}
         /\ LevelBlocks(p) \cap LevelBlocks(r) = {}
BY DEF HardBlocks, OrderBlocks, LevelBlocks

\* A packet that blocks nothing leaves no entry in the mask.
LEMMA NonBlockingEntries ==
  ASSUME NEW p, p.type \in NonBlocking
  PROVE  HardBlocks(p) = {} /\ OrderBlocks(p) = {} /\ LevelBlocks(p) = {} /\ BlockBlocks(p) = {}
BY Zenon DEF HardBlocks, OrderBlocks, LevelBlocks, BlockBlocks, NonBlocking, OneAtATime

LEMMA UnblockKeeps ==
  ASSUME CoreInv, NEW p \in DOMAIN busy, UnblockDependencies(p)
  PROVE  CoreInv' /\ DOMAIN busy' = DOMAIN busy
<1>1. /\ busy[p] = "handling" /\ Unblock(p) /\ busy' = [busy EXCEPT ![p] = "unblocked"]
      /\ queues' = queues /\ packetsCount' = packetsCount /\ actTotal' = actTotal /\ act' = act
  BY Zenon DEF UnblockDependencies
<1>2. DOMAIN busy' = DOMAIN busy /\ busy'[p] = "unblocked" /\ \A r \in DOMAIN busy : r # p => busy'[r] = busy[r]
  BY <1>1, Zenon DEF CoreInv, BusyOK
<1>3. p \in Handling /\ Handling' = Handling \ {p}
  BY <1>1, <1>2, Zenon DEF Handling
<1>4. QueuesOK'
  BY <1>1, ZenonT(60) DEF CoreInv, QueuesOK
<1>5. BusyOK'
  <2>1. busy' \in [DOMAIN busy' -> {"handling", "unblocked", "uncounted"}]
    BY <1>1, <1>2, Zenon DEF CoreInv, BusyOK
  <2> QED
    BY <1>1, <1>2, <2>1 DEF CoreInv, BusyOK
<1>6. MaskExact'
  <2>1. \A r : HardBlocks(r)' = HardBlocks(r) /\ OrderBlocks(r)' = OrderBlocks(r)
               /\ LevelBlocks(r)' = LevelBlocks(r) /\ BlockBlocks(r)' = BlockBlocks(r)
    BY Zenon DEF HardBlocks, OrderBlocks, LevelBlocks, BlockBlocks
  <2>2. \A r \in Handling : r # p =>
          /\ HardBlocks(p) \cap HardBlocks(r) = {} /\ OrderBlocks(p) \cap OrderBlocks(r) = {}
          /\ LevelBlocks(p) \cap LevelBlocks(r) = {} /\ BlockBlocks(p) \cap BlockBlocks(r) = {}
    <3> SUFFICES ASSUME NEW r \in Handling, r # p
                 PROVE  /\ HardBlocks(p) \cap HardBlocks(r) = {} /\ OrderBlocks(p) \cap OrderBlocks(r) = {}
                        /\ LevelBlocks(p) \cap LevelBlocks(r) = {} /\ BlockBlocks(p) \cap BlockBlocks(r) = {}
      BY Zenon
    <3>1. p.id # r.id
      BY Zenon DEF CoreInv, BusyOK, Handling
    <3>2. BlockBlocks(p) \cap BlockBlocks(r) = {}
      BY <1>3, Zenon DEF CoreInv, OneAtATimeProcessed, BlockBlocks
    <3> QED
      BY <3>1, <3>2, MaskEntries, Zenon
  <2>3. /\ hardBlocked' = hardBlocked \ HardBlocks(p) /\ orderBlocked' = orderBlocked \ OrderBlocks(p)
        /\ dagLevels' = dagLevels \ LevelBlocks(p) /\ dagBlocks' = dagBlocks \ BlockBlocks(p)
    BY <1>1, Zenon DEF Unblock
  <2>4. hardBlocked' = UNION {HardBlocks(r) : r \in Handling'}
    BY <1>3, <2>2, <2>3 DEF CoreInv, MaskExact
  <2>5. orderBlocked' = UNION {OrderBlocks(r) : r \in Handling'}
    BY <1>3, <2>2, <2>3 DEF CoreInv, MaskExact
  <2>6. dagLevels' = UNION {LevelBlocks(r) : r \in Handling'}
    BY <1>3, <2>2, <2>3 DEF CoreInv, MaskExact
  <2>7. dagBlocks' = UNION {BlockBlocks(r) : r \in Handling'}
    BY <1>3, <2>2, <2>3 DEF CoreInv, MaskExact
  <2> QED
    BY <2>1, <2>4, <2>5, <2>6, <2>7, Zenon DEF MaskExact
<1>7. CountersMatch'
  <2>1. {r \in DOMAIN busy' : busy'[r] # "uncounted"} = {r \in DOMAIN busy : busy[r] # "uncounted"}
    BY <1>1, <1>2, Zenon
  <2> QED
    BY <1>1, <1>2, <2>1, Zenon DEF CoreInv, CountersMatch
<1>8. OneAtATimeProcessed'
  BY <1>3, Zenon DEF CoreInv, OneAtATimeProcessed
<1> QED
  BY <1>2, <1>4, <1>5, <1>6, <1>7, <1>8, Zenon DEF CoreInv

LEMMA DecrementKeeps ==
  ASSUME CoreInv, NEW p \in DOMAIN busy, DecrementTotal(p)
  PROVE  CoreInv' /\ DOMAIN busy' = DOMAIN busy
<1>1. /\ busy[p] = "unblocked" \/ (busy[p] = "handling" /\ p.type \in NonBlocking)
      /\ actTotal' = actTotal - 1 /\ busy' = [busy EXCEPT ![p] = "uncounted"]
      /\ queues' = queues /\ packetsCount' = packetsCount /\ act' = act /\ UNCHANGED mask
  BY Zenon DEF DecrementTotal
<1>2. DOMAIN busy' = DOMAIN busy /\ busy'[p] = "uncounted" /\ \A r \in DOMAIN busy : r # p => busy'[r] = busy[r]
  BY <1>1, Zenon DEF CoreInv, BusyOK
<1>3. Handling' = Handling \ {p} /\ (p \in Handling => p.type \in NonBlocking)
  BY <1>1, <1>2, Zenon DEF Handling
<1>4. QueuesOK'
  BY <1>1, ZenonT(60) DEF CoreInv, QueuesOK
<1>5. BusyOK'
  <2>1. busy' \in [DOMAIN busy' -> {"handling", "unblocked", "uncounted"}] /\ actTotal' \in Int
    BY <1>1, <1>2 DEF CoreInv, BusyOK
  <2> QED
    BY <1>1, <1>2, <2>1 DEF CoreInv, BusyOK
<1>6. MaskExact'
  <2>1. \A r : HardBlocks(r)' = HardBlocks(r) /\ OrderBlocks(r)' = OrderBlocks(r)
               /\ LevelBlocks(r)' = LevelBlocks(r) /\ BlockBlocks(r)' = BlockBlocks(r)
    BY Zenon DEF HardBlocks, OrderBlocks, LevelBlocks, BlockBlocks
  <2>2. p \in Handling =>
          HardBlocks(p) = {} /\ OrderBlocks(p) = {} /\ LevelBlocks(p) = {} /\ BlockBlocks(p) = {}
    BY <1>3, NonBlockingEntries, Zenon
  <2>3. /\ hardBlocked' = hardBlocked /\ orderBlocked' = orderBlocked
        /\ dagLevels' = dagLevels /\ dagBlocks' = dagBlocks
    BY <1>1, Zenon DEF mask
  <2>4. hardBlocked' = UNION {HardBlocks(r) : r \in Handling'}
    BY <1>3, <2>2, <2>3 DEF CoreInv, MaskExact
  <2>5. orderBlocked' = UNION {OrderBlocks(r) : r \in Handling'}
    BY <1>3, <2>2, <2>3, Zenon DEF CoreInv, MaskExact
  <2>6. dagLevels' = UNION {LevelBlocks(r) : r \in Handling'}
    BY <1>3, <2>2, <2>3, Zenon DEF CoreInv, MaskExact
  <2>7. dagBlocks' = UNION {BlockBlocks(r) : r \in Handling'}
    BY <1>3, <2>2, <2>3, Zenon DEF CoreInv, MaskExact
  <2> QED
    BY <2>1, <2>4, <2>5, <2>6, <2>7, Zenon DEF MaskExact
<1>7. CountersMatch'
  <2> DEFINE S == {r \in DOMAIN busy : busy[r] # "uncounted"}
  <2>1. {r \in DOMAIN busy' : busy'[r] # "uncounted"} = S \ {p} /\ p \in S
    BY <1>1, <1>2, Zenon
  <2>2. IsFiniteSet(S)
    BY FS_Subset, Zenon DEF CoreInv, BusyOK
  <2>3. Cardinality(S \ {p}) = Cardinality(S) - 1
    BY <2>1, <2>2, FS_RemoveElement, Zenon
  <2> QED
    BY <1>1, <1>2, <2>1, <2>3, Zenon DEF CoreInv, CountersMatch
<1>8. OneAtATimeProcessed'
  BY <1>3 DEF CoreInv, OneAtATimeProcessed
<1> QED
  BY <1>2, <1>4, <1>5, <1>6, <1>7, <1>8, Zenon DEF CoreInv

LEMMA FinishPacketKeeps ==
  ASSUME CoreInv, NEW p \in DOMAIN busy, FinishPacket(p)
  PROVE  /\ CoreInv' /\ DOMAIN busy' = DOMAIN busy \ {p}
         /\ Cardinality(DOMAIN busy') = Cardinality(DOMAIN busy) - 1
<1>1. /\ busy[p] = "uncounted" /\ act' = [act EXCEPT ![Priority(p.type)] = @ - 1]
      /\ busy' = [r \in DOMAIN busy \ {p} |-> busy[r]]
      /\ queues' = queues /\ packetsCount' = packetsCount /\ actTotal' = actTotal /\ UNCHANGED mask
  BY Zenon DEF FinishPacket
<1>2. DOMAIN busy' = DOMAIN busy \ {p} /\ \A r \in DOMAIN busy' : busy'[r] = busy[r]
  BY <1>1, Zenon
<1>3. Handling' = Handling
  BY <1>1, <1>2, Zenon DEF Handling
<1>4. IsFiniteSet(DOMAIN busy') /\ Cardinality(DOMAIN busy') = Cardinality(DOMAIN busy) - 1
  <2>1. IsFiniteSet(DOMAIN busy)
    BY Zenon DEF CoreInv, BusyOK
  <2>2. /\ IsFiniteSet(DOMAIN busy \ {p})
        /\ Cardinality(DOMAIN busy \ {p}) = Cardinality(DOMAIN busy) - 1
    BY <2>1, FS_RemoveElement, Zenon
  <2> QED
    BY <1>2, <2>2, Zenon
<1>5. p \in Packets /\ Priority(p.type) \in Priorities /\ act \in [Priorities -> Int]
  BY PacketTypes, Zenon DEF CoreInv, BusyOK
<1>6. QueuesOK'
  BY <1>1, ZenonT(60) DEF CoreInv, QueuesOK
<1>7. BusyOK'
  <2>1. busy' \in [DOMAIN busy' -> {"handling", "unblocked", "uncounted"}]
    BY <1>1, <1>2, Zenon DEF CoreInv, BusyOK
  <2>2. act' \in [Priorities -> Int]
    BY <1>1, <1>5
  <2> QED
    BY <1>1, <1>2, <1>4, <2>1, <2>2 DEF CoreInv, BusyOK
<1>8. MaskExact' /\ OneAtATimeProcessed'
  BY <1>1, <1>3, Zenon DEF CoreInv, mask, MaskExact, OneAtATimeProcessed,
                    HardBlocks, OrderBlocks, LevelBlocks, BlockBlocks
<1>9. CountersMatch'
  <2>1. {r \in DOMAIN busy' : busy'[r] # "uncounted"} = {r \in DOMAIN busy : busy[r] # "uncounted"}
    BY <1>1, <1>2, Zenon
  <2>2. ASSUME NEW q \in Priorities
        PROVE  act'[q] = Cardinality({r \in DOMAIN busy' : Priority(r.type) = q})
    <3> DEFINE S == {r \in DOMAIN busy : Priority(r.type) = q}
    <3>1. act[q] = Cardinality(S) /\ IsFiniteSet(S)
      BY FS_Subset, Zenon DEF CoreInv, BusyOK, CountersMatch
    <3>2. CASE q = Priority(p.type)
      <4>1. {r \in DOMAIN busy' : Priority(r.type) = q} = S \ {p} /\ p \in S
        BY <1>2, <3>2, Zenon
      <4>2. Cardinality(S \ {p}) = Cardinality(S) - 1
        BY <3>1, <4>1, FS_RemoveElement, Zenon
      <4> QED
        BY <1>1, <1>5, <3>1, <3>2, <4>1, <4>2, Zenon
    <3>3. CASE q # Priority(p.type)
      <4>1. {r \in DOMAIN busy' : Priority(r.type) = q} = S
        BY <1>2, <3>3, Zenon
      <4> QED
        BY <1>1, <1>5, <3>1, <3>3, <4>1, Zenon
    <3> QED
      BY <3>2, <3>3, Zenon
  <2> QED
    BY <1>1, <2>1, <2>2, Zenon DEF CoreInv, CountersMatch
<1> QED
  BY <1>2, <1>4, <1>6, <1>7, <1>8, <1>9, Zenon DEF CoreInv

LEMMA FinishKeeps ==
  ASSUME PoolInv, Finish
  PROVE  PoolInv' /\ DOMAIN busy' \subseteq DOMAIN busy
<1>1. PICK p \in DOMAIN busy : UnblockDependencies(p) \/ DecrementTotal(p) \/ FinishPacket(p)
  BY Zenon DEF Finish
<1>2. CoreInv /\ WorkersOK /\ Cardinality(DOMAIN busy) \in Nat
  BY CardinalityOfBusy, Zenon DEF PoolInv
<1>3. CASE UnblockDependencies(p)
  <2>1. CoreInv' /\ DOMAIN busy' = DOMAIN busy
    BY <1>2, <1>3, UnblockKeeps, Zenon
  <2>2. polling' = polling + waiting /\ waiting' = 0 /\ inPop' = inPop /\ stop' = stop
        /\ syncQueueEmpty' = syncQueueEmpty
    BY <1>3, Zenon DEF UnblockDependencies
  <2> QED
    BY <1>2, <2>1, <2>2, WorkersAssumption DEF PoolInv, WorkersOK
<1>4. CASE DecrementTotal(p)
  <2>1. CoreInv' /\ DOMAIN busy' = DOMAIN busy
    BY <1>2, <1>4, DecrementKeeps, Zenon
  <2>2. polling' = polling /\ waiting' = waiting /\ inPop' = inPop /\ stop' = stop
        /\ syncQueueEmpty' = syncQueueEmpty
    BY <1>4, Zenon DEF DecrementTotal
  <2> QED
    BY <1>2, <2>1, <2>2, Zenon DEF PoolInv, WorkersOK
<1>5. CASE FinishPacket(p)
  <2>1. CoreInv' /\ DOMAIN busy' = DOMAIN busy \ {p}
        /\ Cardinality(DOMAIN busy') = Cardinality(DOMAIN busy) - 1
    BY <1>2, <1>5, FinishPacketKeeps, Zenon
  <2>2. polling' = (IF stop = "no" THEN polling + 1 ELSE polling) /\ waiting' = waiting
        /\ inPop' = inPop /\ stop' = stop /\ syncQueueEmpty' = syncQueueEmpty
    BY <1>5, Zenon DEF FinishPacket
  <2>3. polling' \in Nat /\ polling' <= polling + 1
    BY <1>2, <2>2 DEF WorkersOK
  <2> QED
    BY <1>2, <2>1, <2>2, <2>3, WorkersAssumption DEF PoolInv, WorkersOK
<1> QED
  BY <1>1, <1>3, <1>4, <1>5, Zenon

-----------------------------------------------------------------------------
(* The invariant.                                                          *)

LEMMA PoolInit == Init => PoolInv
<1> SUFFICES ASSUME Init PROVE PoolInv
  BY Zenon
<1>1. DOMAIN busy = {} /\ Cardinality(DOMAIN busy) = 0 /\ IsFiniteSet(DOMAIN busy) /\ Handling = {}
  BY FS_EmptySet DEF Init, Handling
<1>2. QueuesOK
  <2>1. queues \in [Priorities -> Seq(Packets)] /\ packetsCount \in Nat
    BY DEF Init
  <2>2. \A q \in Priorities : Len(queues[q]) = 0
    BY Zenon DEF Init
  <2> QED
    BY <2>1, <2>2 DEF QueuesOK
<1>3. BusyOK
  <2>1. busy \in [DOMAIN busy -> {"handling", "unblocked", "uncounted"}]
    BY <1>1 DEF Init
  <2>2. act \in [Priorities -> Int] /\ actTotal \in Int
    BY DEF Init
  <2> QED
    BY <1>1, <2>1, <2>2, Zenon DEF BusyOK
<1>4. MaskExact
  BY <1>1, Zenon DEF Init, MaskExact
<1>5. CountersMatch
  <2>1. {p \in DOMAIN busy : busy[p] # "uncounted"} = {}
    BY <1>1, Zenon
  <2>2. ASSUME NEW q \in Priorities
        PROVE  act[q] = 0 /\ {p \in DOMAIN busy : Priority(p.type) = q} = {}
    BY <1>1, Zenon DEF Init
  <2>3. Cardinality({}) = 0
    BY FS_EmptySet, Zenon
  <2>4. actTotal = 0
    BY Zenon DEF Init
  <2> QED
    BY <2>1, <2>2, <2>3, <2>4, Zenon DEF CountersMatch
<1>6. OneAtATimeProcessed
  BY <1>1, Zenon DEF OneAtATimeProcessed
<1>7. WorkersOK
  <2>1. syncQueueEmpty \in BOOLEAN /\ stop \in {"no", "set", "notified"}
    BY Zenon DEF Init
  <2> QED
    BY <1>1, <2>1, WorkersAssumption DEF Init, WorkersOK
<1> QED
  BY <1>2, <1>3, <1>4, <1>5, <1>6, <1>7, Zenon DEF PoolInv, CoreInv

LEMMA PoolNext == PoolInv /\ [Next]_vars => PoolInv'
<1> SUFFICES ASSUME PoolInv, [Next]_vars PROVE PoolInv'
  BY Zenon
<1>1. CASE \E k \in Kinds : Push(k)
  BY <1>1, PushKeeps, Zenon
<1>2. CASE Poll
  BY <1>2, PollKeeps, Zenon
<1>3. CASE Borrow
  BY <1>3, BorrowKeeps, Zenon
<1>4. CASE Wait \/ SetStop \/ NotifyStop \/ FillSyncQueue \/ DrainSyncQueue
  BY <1>4, WorkersOnlyKeeps, Zenon
<1>5. CASE Finish
  BY <1>5, FinishKeeps, Zenon
<1>6. CASE UNCHANGED vars
  <2>1. UNCHANGED core /\ UNCHANGED <<polling, waiting, inPop, stop, syncQueueEmpty>>
    BY <1>6, Zenon DEF vars, core
  <2>2. CoreInv' /\ busy' = busy
    BY <2>1, CoreUnchanged, Zenon DEF PoolInv, core
  <2> QED
    BY <2>1, <2>2, Zenon DEF PoolInv, WorkersOK
<1> QED
  BY <1>1, <1>2, <1>3, <1>4, <1>5, <1>6, Zenon DEF Next

\* The mask has exactly the entries of the packets that are being handled, the counters
\* match the workers and the packets wait in the order in which they came, in every
\* interleaving of pushes, pops and the unlocked ends of packets.
THEOREM PoolInvariant == Spec => []PoolInv
BY PoolInit, PoolNext, PTL DEF Spec

LEMMA PoolInvImplies == PoolInv => PoolIsConsistent
<1> SUFFICES ASSUME PoolInv PROVE PoolIsConsistent
  BY Zenon
<1>1. ASSUME NEW q \in Priorities, NEW p \in Range(queues[q]) PROVE Priority(p.type) = q
  <2>1. queues[q] \in Seq(Packets)
    BY Zenon DEF PoolInv, CoreInv, QueuesOK
  <2>2. PICK i \in 1..Len(queues[q]) : p = queues[q][i]
    BY <2>1 DEF Range
  <2> QED
    BY <2>2, Zenon DEF PoolInv, CoreInv, QueuesOK
<1>2. \A p : /\ \A e \in HardBlocks(p) : e[2] = p.id
             /\ \A e \in OrderBlocks(p) : e[2] = p.id
             /\ \A e \in LevelBlocks(p) : e[2] = p.id
  BY DEF HardBlocks, OrderBlocks, LevelBlocks
<1>3. {e[2] : e \in hardBlocked} \cup {e[2] : e \in orderBlocked} \cup {e[2] : e \in dagLevels}
         \subseteq {p.id : p \in Handling}
  BY <1>2 DEF PoolInv, CoreInv, MaskExact
<1>4. polling + waiting + Cardinality(DOMAIN busy) + (IF inPop = "free" THEN 0 ELSE 1) \in 0..Workers
  BY CardinalityOfBusy, WorkersAssumption DEF PoolInv, WorkersOK
<1>5. \A p \in DOMAIN busy : busy[p] \in {"handling", "unblocked", "uncounted"}
  BY Zenon DEF PoolInv, CoreInv, BusyOK
<1>6. TypeOK
  BY <1>1, <1>3, <1>4, <1>5, Zenon DEF TypeOK, PoolInv, WorkersOK
<1> QED
  BY <1>6, Zenon DEF PoolIsConsistent, PoolInv, CoreInv

\* PacketsBlockingMask and PriorityQueue stay consistent: the worker counters match what
\* the workers do although they are decremented outside of queue_mutex_, and packets that
\* must be processed one at a time are.
THEOREM PoolIsConsistentHolds == Spec => []PoolIsConsistent
BY PoolInvariant, PoolInvImplies, PTL

-----------------------------------------------------------------------------
(* What a packet that is started leaves behind.                            *)

\* Transaction packets are never blocked.
LEMMA TransactionsUnblocked ==
  ASSUME MaskExact, NEW t, t.type = "Transaction"
  PROVE  ~IsPacketBlocked(t)
<1>1. \A e \in hardBlocked : e[1] # "Transaction"
  BY DEF MaskExact, HardBlocks, OneAtATime
<1> QED
  BY <1>1, Zenon DEF IsPacketBlocked, IsPacketHardBlocked, IsPacketPeerOrderBlocked

\* The packet that a worker takes depends on none that is queued or being handled.
LEMMA TakenInOrder ==
  ASSUME CoreInv, NEW q \in Priorities, Take(q), packetsCount' = packetsCount, NEW p \in Started
  PROVE  /\ p.type = "DagBlock" =>
               \A t \in Queued \cup Handling : t.type = "Transaction" /\ t.from = p.from => t.id > p.id
         /\ p.type = "PbftBlocksBundle" =>
               syncQueueEmpty /\ \A r \in Handling : r.type # "PbftSync"
<1>1. PICK i \in First(Unblocked(q)) : Start(q, i)
  BY Zenon DEF Take
<1>2. i \in Unblocked(q) /\ \A j \in Unblocked(q) : i <= j
  BY Zenon DEF First
<1>3. p = queues[q][i] /\ p \notin DOMAIN busy
  <2>1. queues[q][i] \notin DOMAIN busy /\ DOMAIN busy' = DOMAIN busy \cup {queues[q][i]}
    BY <1>1, <1>2, StartKeeps, Zenon
  <2>2. p \in DOMAIN busy' /\ p \notin DOMAIN busy
    BY Zenon DEF Started
  <2> QED
    BY <2>1, <2>2, Zenon
<1>4. /\ queues \in [Priorities -> Seq(Packets)] /\ i \in 1..Len(queues[q])
      /\ ~IsPacketBlocked(p) /\ p \in Packets /\ Priority(p.type) = q
  BY <1>2, <1>3 DEF Unblocked, CoreInv, QueuesOK
<1>5. p.id \in Nat
  BY <1>4, PacketTypes, Zenon
<1>6. ASSUME p.type = "DagBlock", NEW t \in Queued, t.type = "Transaction" PROVE t.id > p.id
  <2>1. PICK r \in Priorities : t \in Range(queues[r])
    BY Zenon DEF Queued
  <2>2. PICK j \in 1..Len(queues[r]) : t = queues[r][j]
    BY <1>4, <2>1 DEF Range
  <2>3. r = q
    BY <1>4, <1>6, <2>2, Zenon DEF CoreInv, QueuesOK, Priority, HighTypes, MidTypes, LowTypes, High, Mid, Low
  <2>4. j \in Unblocked(q)
    BY <1>4, <1>6, <2>2, <2>3, TransactionsUnblocked DEF Unblocked, CoreInv
  <2>5. i < j
    BY <1>2, <1>3, <1>4, <1>6, <2>2, <2>3, <2>4
  <2>6. t.id \in Nat /\ p.id < t.id
    BY <1>3, <1>4, <2>2, <2>3, <2>5, PacketTypes DEF CoreInv, QueuesOK
  <2> QED
    BY <1>5, <2>6, Zenon
<1>7. ASSUME p.type = "DagBlock", NEW t \in Handling, t.type = "Transaction", t.from = p.from
      PROVE  t.id > p.id
  <2>1. <<p.from, t.id>> \in orderBlocked
    BY <1>7, Zenon DEF CoreInv, MaskExact, OrderBlocks
  <2>2. ~(p.id > t.id)
    BY <1>4, <1>7, <2>1, Zenon DEF IsPacketBlocked, IsPacketPeerOrderBlocked
  <2>3. p.id # t.id
    BY <1>3, <1>4, <1>7 DEF CoreInv, BusyOK, Handling
  <2>4. t.id \in Nat
    BY PacketTypes, Zenon DEF CoreInv, BusyOK, Handling
  <2> QED
    BY <1>5, <2>2, <2>3, <2>4
<1>8. ASSUME p.type = "PbftBlocksBundle"
      PROVE  syncQueueEmpty /\ \A r \in Handling : r.type # "PbftSync"
  <2>1. ASSUME NEW r \in Handling, r.type = "PbftSync" PROVE FALSE
    <3>1. <<"PbftBlocksBundle", r.id>> \in HardBlocks(r)
      BY <2>1, Zenon DEF HardBlocks
    <3>2. <<"PbftBlocksBundle", r.id>> \in hardBlocked
      BY <3>1, Zenon DEF CoreInv, MaskExact
    <3> QED
      BY <1>4, <1>8, <3>2 DEF IsPacketBlocked, IsPacketHardBlocked
  <2> QED
    BY <1>4, <1>8, <2>1, Zenon DEF IsPacketBlocked
<1> QED
  BY <1>6, <1>7, <1>8, Zenon

\* No DAG block is processed before the transactions that its peer had sent earlier, and
\* no proposed block while synced blocks are processed or queued (isPacketBlocked and the
\* search of PacketsQueue::pop for the oldest packet that is not blocked).
THEOREM DependenciesFirstHolds == Spec => DependenciesFirst
<1> DEFINE InOrder ==
      \A p \in Started :
          /\ p.type = "DagBlock" =>
               \A t \in Queued \cup Handling : t.type = "Transaction" /\ t.from = p.from => t.id > p.id
          /\ p.type = "PbftBlocksBundle" =>
               syncQueueEmpty /\ \A r \in Handling : r.type # "PbftSync"
<1>1. PoolInv /\ [Next]_vars => [InOrder]_vars
  <2> SUFFICES ASSUME PoolInv, Next PROVE InOrder
    BY Zenon
  <2>1. CASE packetsCount' = packetsCount /\ \E q \in Priorities : Take(q)
    BY <2>1, TakenInOrder, Zenon DEF PoolInv
  <2>2. CASE DOMAIN busy' \subseteq DOMAIN busy
    BY <2>2, Zenon DEF Started
  <2>3. CASE Poll
    BY <2>1, <2>2, <2>3 DEF Poll, NothingPopped, First, FirstPass
  <2>4. CASE Borrow
    BY <2>1, <2>2, <2>4, Zenon DEF Borrow, NothingPopped, First
  <2>5. CASE Finish
    BY <2>2, <2>5, FinishKeeps, Zenon
  <2>6. CASE Wait \/ SetStop \/ NotifyStop \/ FillSyncQueue \/ DrainSyncQueue \/ \E k \in Kinds : Push(k)
    <3>1. busy' = busy
      BY <2>6, Zenon DEF Wait, SetStop, NotifyStop, FillSyncQueue, DrainSyncQueue, Push
    <3> QED
      BY <2>2, <3>1, Zenon
  <2> QED
    BY <2>3, <2>4, <2>5, <2>6 DEF Next
<1> QED
  BY <1>1, PoolInvariant, PTL DEF Spec, DependenciesFirst
=============================================================================
