------------------------- MODULE PbftSyncInvariant -------------------------
(***************************************************************************)
(* Proofs about PbftSync, for any peers, chains, limits and number of      *)
(* disconnects: the queue of synced blocks stays a run of consecutive      *)
(* periods from which the PBFT thread takes a block that fits the chain,   *)
(* and no peer is asked for what it would ban the node for.                *)
(*                                                                         *)
(* SyncInv has two halves that do not depend on each other but for the     *)
(* types of the packets:                                                   *)
(*   QueueInv  the queue, the chain, the block the PBFT thread took out    *)
(*             and the packet a worker has checked but not yet pushed,     *)
(*   PeersInv  per peer, what was asked, what is answered, and what the    *)
(*             node and the peer remember of it.                           *)
(***************************************************************************)
EXTENDS PbftSync, TLAPS

\* The time the SMT solver is given for a step that names no prover.
USE SMTT(60)

Blocks == [period : Nat \ {0}, from : Peers]
PbftAnswers == [type : {"PbftSync"}, period : Nat \ {0}, last : BOOLEAN, votes : BOOLEAN]
DagAnswers == [type : {"DagSync"}, request : Nat, response : Nat]
Answers == PbftAnswers \cup DagAnswers
Requests == [type : {"GetPbftSync"}, period : Nat \ {0}] \cup [type : {"GetDagSync"}, period : Nat]
DagStates == {"none", "syncing", "synced", "expired"}

-----------------------------------------------------------------------------
(* The queue.                                                              *)

Processing == pbft.pc = "processing"

QueueTypes ==
  /\ chain \in Nat
  /\ queue \in [blocks : Seq(Blocks), period : Nat, votes : BOOLEAN]
  /\ \/ worker = Idle
     \/ worker \in [pc : {"checking", "pushing", "requesting"}, from : Peers, packet : PbftAnswers]
  /\ \/ pbft \in [pc : {"idle", "draining", "pushed", "dereferencing"}]
     \/ pbft \in [pc : {"processing"}, block : Blocks, votes : BOOLEAN]

\* The queue is a run of periods that ends with period_.
Contiguous ==
  \A i \in 1..Len(queue.blocks) : queue.blocks[i].period = queue.period - Len(queue.blocks) + i

\* Its first block follows the chain at the latest, or the block that was just taken out.
HeadFits ==
  queue.blocks # <<>> => \/ queue.blocks[1].period <= chain + 1
                         \/ Processing /\ queue.blocks[1].period = pbft.block.period + 1

BlockFits ==
  Processing => pbft.block.period <= chain \/ (pbft.block.period = chain + 1 /\ pbft.votes)

\* The packet is beyond the queue from its arrival on, as only its worker pushes.
PacketIsNew == worker.pc \in {"checking", "pushing"} => queue.period < worker.packet.period

\* What the check established of the previous block holds until the push: it is in the
\* chain, at the end of the queue, or in the hands of the PBFT thread.
PreviousKnown ==
  worker.pc = "pushing" =>
    \/ worker.packet.period - 1 <= chain
    \/ queue.blocks # <<>> /\ queue.period = worker.packet.period - 1
    \/ Processing /\ pbft.block.period = worker.packet.period - 1

\* A queue that is not behind the chain ends just before the packet.
PacketFollows ==
  worker.pc = "pushing" /\ queue.blocks # <<>> /\ chain <= queue.period =>
    worker.packet.period = queue.period + 1

QueueInv ==
  /\ QueueTypes /\ Contiguous /\ HeadFits /\ BlockFits
  /\ PacketIsNew /\ PreviousKnown /\ PacketFollows

-----------------------------------------------------------------------------
(* One peer: pbft_chain_size_ k, DAG sync state d, requests in, answers    *)
(* out, its own mark s that it served a DAG sync, and its chain size z.    *)

DagRequests(in) == {i \in DOMAIN in : in[i].type = "GetDagSync"}
DagReplies(out) == {i \in DOMAIN out : out[i].type = "DagSync"}

\* No request asks for, and no answer tells of, more than the peer has.
WithinChain(k, in, out, z) ==
  /\ k <= z
  /\ \A i \in DOMAIN in : in[i].type = "GetPbftSync" => in[i].period <= z
  /\ \A i \in DOMAIN out : /\ out[i].type = "PbftSync" => out[i].period <= z
                           /\ out[i].type = "DagSync" => out[i].response <= z

\* At most one DAG sync is under way, and only then the state is "syncing"; a peer that
\* remembers one has answered it, and the node remembers it too.
OneDagSync(d, in, out, s) ==
  /\ \A i, j \in DagRequests(in) : i = j
  /\ \A i, j \in DagReplies(out) : i = j
  /\ DagRequests(in) # {} => d = "syncing" /\ ~s /\ DagReplies(out) = {}
  /\ \A i \in DagReplies(out) : d = "syncing" /\ (s => out[i].response = out[i].request)
  /\ s => d \in {"syncing", "synced"}

PeerOK(k, d, in, out, s, z) ==
  /\ z \in Nat \ {0} /\ k \in Nat /\ d \in DagStates /\ s \in BOOLEAN
  /\ in \in Seq(Requests) /\ out \in Seq(Answers)
  /\ WithinChain(k, in, out, z) /\ OneDagSync(d, in, out, s)

PeersInv ==
  /\ known \in [Peers -> Nat] /\ dag \in [Peers -> DagStates] /\ size \in [Peers -> Nat \ {0}]
  /\ inbox \in [Peers -> Seq(Requests)] /\ packets \in [Peers -> Seq(Answers)]
  /\ served \in [Peers -> BOOLEAN] /\ DOMAIN link = Peers
  /\ \A p \in Peers : PeerOK(known[p], dag[p], inbox[p], packets[p], served[p], size[p])

SyncInv == QueueInv /\ PeersInv

-----------------------------------------------------------------------------
(* Maxima, minima and sequences.                                           *)

LEMMA MaxOfTwo ==
  ASSUME NEW a \in Nat, NEW b \in Nat
  PROVE  Max({a, b}) = IF a >= b THEN a ELSE b
BY DEF Max

LEMMA MinOfTwo ==
  ASSUME NEW a \in Int, NEW b \in Int
  PROVE  Min({a, b}) = IF a <= b THEN a ELSE b
BY DEF Min

\* The period up to which the node has blocks, in the chain or in the queue.
LEMMA SyncingPeriod ==
  ASSUME QueueTypes
  PROVE  pbftSyncingPeriod = IF queue.period >= chain THEN queue.period ELSE chain
BY MaxOfTwo, Zenon DEF QueueTypes, pbftSyncingPeriod

-----------------------------------------------------------------------------
(* The queue, the worker and the PBFT thread.                              *)

LEMMA QueueFrame ==
  ASSUME QueueInv, UNCHANGED <<chain, queue, worker, pbft>>
  PROVE  QueueInv'
BY DEF QueueInv, QueueTypes, Contiguous, HeadFits, BlockFits, PacketIsNew, PreviousKnown,
       PacketFollows, Processing, Idle

LEMMA WorkerIdles ==
  ASSUME QueueInv, worker' = Idle, UNCHANGED <<chain, queue, pbft>>
  PROVE  QueueInv'
BY Zenon DEF QueueInv, QueueTypes, Contiguous, HeadFits, BlockFits, PacketIsNew, PreviousKnown,
       PacketFollows, Processing, Idle

\* A packet whose block the node lacks is the one after the queue.
LEMMA ReceiveKeepsQueue ==
  ASSUME QueueInv, NEW p \in Peers, packets[p] \in Seq(Answers), ReceivePbftSync(p)
  PROVE  QueueInv'
<1> DEFINE packet == Head(packets[p])
           at == IF packet.period <= chain THEN "requesting" ELSE "checking"
<1>1. packet \in PbftAnswers
  <2>1. packets[p] # <<>> /\ packet.type = "PbftSync"
    BY Zenon DEF ReceivePbftSync
  <2>2. packet \in Answers
    BY <2>1
  <2> QED
    BY <2>1, <2>2, Zenon DEF Answers, PbftAnswers, DagAnswers
<1>2. UNCHANGED <<chain, queue, pbft>>
  BY Zenon DEF ReceivePbftSync
<1>3. CASE worker' = Idle
  BY <1>2, <1>3, WorkerIdles, Zenon
<1>4. CASE worker' # Idle
  <2>1. /\ worker' = [pc |-> at, from |-> p, packet |-> packet]
        /\ ~(packet.period > chain /\ ~Expected(packet))
    BY <1>4, Zenon DEF ReceivePbftSync
  <2>2. packet.period > chain => queue.period < packet.period
    <3>1. pbftSyncingPeriod = IF queue.period >= chain THEN queue.period ELSE chain
      BY SyncingPeriod, Zenon DEF QueueInv
    <3> QED
      BY <1>1, <2>1, <3>1 DEF Expected, QueueInv, QueueTypes, PbftAnswers
  <2>3. /\ worker'.pc = at /\ worker'.packet = packet /\ worker'.pc # "pushing"
        /\ worker' \in [pc : {"checking", "pushing", "requesting"}, from : Peers, packet : PbftAnswers]
    BY <1>1, <2>1, Zenon
  <2>4. at = "checking" => packet.period > chain
    BY <1>1 DEF PbftAnswers, QueueInv, QueueTypes
  <2> HIDE DEF packet, at
  <2> QED
    BY <1>2, <2>2, <2>3, <2>4, Zenon
    DEF QueueInv, QueueTypes, Contiguous, HeadFits, BlockFits, PacketIsNew, PreviousKnown,
        PacketFollows, Processing
<1> QED
  BY <1>3, <1>4, Zenon

\* The check ties the packet to the end of the queue or of the chain.
LEMMA CheckKeepsQueue ==
  ASSUME QueueInv, CheckData
  PROVE  QueueInv'
<1>1. UNCHANGED <<chain, queue, pbft>> /\ worker.pc = "checking"
  BY Zenon DEF CheckData, Handling
<1>2. CASE worker' = Idle
  BY <1>1, <1>2, WorkerIdles, Zenon
<1>3. CASE VotesFit /\ Goes("pushing")
  <2> DEFINE P == worker.packet.period
  <2>1. /\ worker \in [pc : {"checking", "pushing", "requesting"}, from : Peers, packet : PbftAnswers]
        /\ P \in Nat \ {0}
    BY <1>1 DEF QueueInv, QueueTypes, Idle, PbftAnswers
  <2>2. /\ worker' \in [pc : {"checking", "pushing", "requesting"}, from : Peers, packet : PbftAnswers]
        /\ worker'.packet.period = P /\ worker'.pc = "pushing"
    BY <1>3, <2>1, Zenon DEF Goes
  <2>3. queue.period < P
    BY <1>1, Zenon DEF QueueInv, PacketIsNew
  <2>4. queue.blocks \in Seq(Blocks) /\ queue.period \in Nat /\ chain \in Nat
    BY Zenon DEF QueueInv, QueueTypes
  <2>5. queue.blocks # <<>> => queue.blocks[Len(queue.blocks)].period = queue.period /\ queue.period > 0
    <3> SUFFICES ASSUME queue.blocks # <<>>
                 PROVE  queue.blocks[Len(queue.blocks)].period = queue.period /\ queue.period > 0
      BY Zenon
    <3>1. Len(queue.blocks) \in 1..Len(queue.blocks)
      BY <2>4
    <3>2. queue.blocks[Len(queue.blocks)] \in Blocks
      BY <2>4, <3>1
    <3>3. queue.blocks[Len(queue.blocks)].period = queue.period
      BY <2>4, <3>1 DEF QueueInv, Contiguous
    <3> QED
      BY <2>4, <3>2, <3>3 DEF Blocks
  <2>6. P = 1 \/ P - 1 = IF queue.blocks # <<>> /\ queue.period > chain THEN queue.period ELSE chain
    BY <1>3, <2>1, <2>4, <2>5, Zenon DEF VotesFit, LastBlock, Packet
  <2>7. /\ \/ P - 1 <= chain
           \/ queue.blocks # <<>> /\ queue.period = P - 1
        /\ queue.blocks # <<>> /\ chain <= queue.period => P = queue.period + 1
    BY <2>1, <2>3, <2>4, <2>5, <2>6
  <2>8. PreviousKnown' /\ PacketFollows' /\ PacketIsNew'
    BY <1>1, <2>2, <2>3, <2>7, Zenon DEF PreviousKnown, PacketFollows, PacketIsNew, Processing
  <2> QED
    BY <1>1, <2>2, <2>8, Zenon
    DEF QueueInv, QueueTypes, Contiguous, HeadFits, BlockFits, Processing
<1> QED
  BY <1>2, <1>3, Zenon DEF CheckData

\* The block goes to the end of the queue, or starts it anew.
LEMMA PushKeepsQueue ==
  ASSUME QueueInv, PushPeriodData
  PROVE  QueueInv'
<1> DEFINE P == worker.packet.period
           block == [period |-> P, from |-> worker.from]
           old == IF chain > queue.period THEN <<>> ELSE queue.blocks
           n == Len(old)
<1>1. UNCHANGED <<chain, pbft>> /\ worker.pc = "pushing"
  BY Zenon DEF PushPeriodData, Handling
<1>2. /\ worker \in [pc : {"checking", "pushing", "requesting"}, from : Peers, packet : PbftAnswers]
      /\ P \in Nat \ {0} /\ worker.packet.votes \in BOOLEAN
  BY <1>1 DEF QueueInv, QueueTypes, Idle, PbftAnswers
<1>3. queue.blocks \in Seq(Blocks) /\ queue.period \in Nat /\ chain \in Nat
  BY Zenon DEF QueueInv, QueueTypes
<1>4. CASE worker' = Idle /\ UNCHANGED queue
  BY <1>1, <1>4, WorkerIdles, Zenon
<1>5. CASE /\ queue.blocks # <<>> \/ RewardVotesFound
           /\ queue' = Pushed(block, worker.packet.votes)
           /\ Goes("requesting")
  <2>1. /\ worker' \in [pc : {"checking", "pushing", "requesting"}, from : Peers, packet : PbftAnswers]
        /\ worker'.pc = "requesting"
    BY <1>2, <1>5, Zenon DEF Goes
  <2>2. PacketIsNew' /\ PreviousKnown' /\ PacketFollows'
    BY <2>1, Zenon DEF PacketIsNew, PreviousKnown, PacketFollows
  <2>3. CASE queue' = queue
    BY <1>1, <2>1, <2>2, <2>3, Zenon
    DEF QueueInv, QueueTypes, Contiguous, HeadFits, BlockFits, Processing
  <2>4. CASE queue' # queue
    <3>1. queue' = [blocks |-> Append(old, block), period |-> P, votes |-> worker.packet.votes]
      BY <1>5, <2>4, Zenon DEF Pushed
    <3>2. old \in Seq(Blocks) /\ block \in Blocks
      BY <1>2, <1>3 DEF Blocks
    <3>3. n \in Nat /\ (n > 0 => old = queue.blocks /\ old # <<>> /\ P = queue.period + 1)
      BY <1>1, <1>3, <3>2 DEF QueueInv, PacketFollows
    <3> HIDE DEF old, block
    <3>4. /\ Append(old, block) \in Seq(Blocks)
          /\ Len(Append(old, block)) = n + 1
          /\ \A i \in 1..n : Append(old, block)[i] = old[i]
          /\ Append(old, block)[n + 1] = block
      BY <3>2
    <3>5. /\ queue'.blocks = Append(old, block) /\ queue'.period = P
          /\ queue' \in [blocks : Seq(Blocks), period : Nat, votes : BOOLEAN]
      BY <1>2, <3>1, <3>4, Zenon
    <3>6. block.period = P
      BY Zenon DEF block
    <3>7. Contiguous'
      <4> SUFFICES ASSUME NEW i \in 1..n + 1
                   PROVE  Append(old, block)[i].period = P - (n + 1) + i
        BY <3>4, <3>5, Zenon DEF Contiguous
      <4>1. CASE i = n + 1
        BY <1>2, <3>3, <3>4, <3>6, <4>1
      <4>2. CASE i # n + 1
        <5>1. i \in 1..n /\ n > 0
          BY <3>3, <4>2
        <5>2. old[i].period = queue.period - n + i
          BY <3>3, <5>1, Zenon DEF QueueInv, Contiguous
        <5>3. Append(old, block)[i] = old[i]
          BY <3>4, <5>1, Zenon
        <5>4. P = queue.period + 1
          BY <3>3, <5>1, Zenon
        <5>5. P - (n + 1) + i = queue.period - n + i
          <6> HIDE DEF n, P
          <6> QED
            BY <1>3, <3>3, <5>1, <5>4
        <5> QED
          BY <5>2, <5>3, <5>5, Zenon
      <4> QED
        BY <4>1, <4>2, Zenon
    <3>8. HeadFits'
      <4>1. CASE n > 0
        <5>1. queue'.blocks[1] = queue.blocks[1] /\ queue.blocks # <<>>
          BY <3>3, <3>4, <3>5, <4>1
        <5> QED
          BY <1>1, <5>1, Zenon DEF QueueInv, HeadFits, Processing
      <4>2. CASE n = 0
        <5>1. queue'.blocks[1].period = P
          BY <3>4, <3>5, <3>6, <4>2
        <5>2. queue.blocks = <<>> => P <= chain + 1
          BY <1>2, <1>3, <1>5 DEF RewardVotesFound, Packet
        <5>3. queue.blocks # <<>> => chain > queue.period
          BY <1>3, <4>2 DEF old
        <5>4. \/ P <= chain + 1
              \/ Processing /\ pbft.block.period = P - 1
          BY <1>1, <1>2, <1>3, <5>2, <5>3 DEF QueueInv, PreviousKnown
        <5>5. P <= chain + 1 \/ (Processing /\ P = pbft.block.period + 1)
          BY <1>2, <5>4 DEF QueueInv, QueueTypes, Processing, Blocks
        <5> QED
          BY <1>1, <5>1, <5>5, Zenon DEF HeadFits, Processing
      <4> QED
        BY <3>3, <4>1, <4>2
    <3> QED
      BY <1>1, <2>1, <2>2, <3>5, <3>7, <3>8, Zenon DEF QueueInv, QueueTypes, BlockFits, Processing
  <2> QED
    BY <2>3, <2>4, Zenon
<1> QED
  BY <1>4, <1>5, Zenon DEF PushPeriodData, Packet

\* Gossip extends the chain under the queue.
LEMMA GossipKeepsQueue ==
  ASSUME QueueInv, PushCertVotedBlock
  PROVE  QueueInv'
<1>1. UNCHANGED <<queue, worker, pbft>> /\ ~Processing /\ chain' = chain + 1 /\ chain \in Nat
  BY Zenon DEF PushCertVotedBlock, Processing, QueueInv, QueueTypes
<1>2. queue.period \in Nat /\ queue.blocks \in Seq(Blocks)
  BY Zenon DEF QueueInv, QueueTypes
<1>3. QueueTypes' /\ Contiguous' /\ BlockFits' /\ PacketIsNew'
  BY <1>1 DEF QueueInv, QueueTypes, Contiguous, BlockFits, PacketIsNew, Processing, Idle
<1>4. HeadFits'
  <2>1. queue.blocks # <<>> => queue.blocks[1] \in Blocks
    BY <1>2
  <2> QED
    BY <1>1, <2>1 DEF QueueInv, HeadFits, Processing, Blocks
<1>5. worker.pc = "pushing" => worker.packet.period \in Nat
  BY DEF QueueInv, QueueTypes, Idle, PbftAnswers
<1>6. PreviousKnown' /\ PacketFollows'
  BY <1>1, <1>2, <1>5 DEF QueueInv, PreviousKnown, PacketFollows, Processing
<1> QED
  BY <1>3, <1>4, <1>6, Zenon DEF QueueInv

\* Where cleanOldData stops in a run of periods that starts at most one after the chain.
LEMMA Shifted ==
  ASSUME NEW q \in Nat, NEW c \in Nat, NEW n \in Nat \ {0}, q - n + 1 <= c + 1
  PROVE  c + 1 - q + n \in Nat \ {0}
OBVIOUS

LEMMA FirstKeptIs ==
  ASSUME QueueInv, ~Processing, queue.blocks # <<>>
  PROVE  LET n == Len(queue.blocks)
             k == chain + 1 - queue.period + n
         IN  /\ k \in Nat \ {0}
             /\ FirstKept(chain + 1) = IF k <= n THEN k ELSE n + 1
<1> DEFINE n == Len(queue.blocks)
           k == chain + 1 - queue.period + n
           m == IF k <= n THEN k ELSE n + 1
           S == {i \in 1..n : queue.blocks[i].period >= chain + 1} \cup {n + 1}
<1>1. queue.period \in Nat /\ chain \in Nat /\ n \in Nat \ {0}
  BY DEF QueueInv, QueueTypes
<1>2. \A i \in 1..n : queue.blocks[i].period = queue.period - n + i
  BY Zenon DEF QueueInv, Contiguous
<1>3. k \in Nat \ {0}
  <2>1. queue.blocks[1].period <= chain + 1
    BY Zenon DEF QueueInv, HeadFits
  <2>2. queue.blocks[1].period = queue.period - n + 1
    <3>1. 1 \in 1..n
      BY <1>1
    <3> QED
      BY <1>2, <3>1, Zenon
  <2>3. queue.period - n + 1 <= chain + 1
    BY <2>1, <2>2, Zenon
  <2> HIDE DEF n
  <2> QED
    BY <1>1, <2>3, Shifted, Zenon
<1>4. m \in S /\ \A j \in S : m <= j
  <2>1. \A i \in 1..n : queue.blocks[i].period >= chain + 1 <=> i >= k
    <3> SUFFICES ASSUME NEW i \in 1..n PROVE queue.blocks[i].period >= chain + 1 <=> i >= k
      BY Zenon
    <3> HIDE DEF n
    <3>1. queue.period - n + i >= chain + 1 <=> i >= k
      BY <1>1
    <3> QED
      BY <1>2, <3>1, Zenon
  <2>2. m \in 1..n + 1 /\ (m # n + 1 => m = k)
    <3> HIDE DEF n, k
    <3> QED
      BY <1>1, <1>3
  <2>3. m \in S
    <3> HIDE DEF n, k, m
    <3> QED
      BY <1>1, <1>3, <2>1, <2>2
  <2>4. \A j \in S : m <= j
    <3> HIDE DEF n, k
    <3> QED
      BY <1>1, <1>3, <2>1
  <2> QED
    BY <2>3, <2>4, Zenon
<1>5. S \subseteq Int
  BY <1>1
<1>6. Min(S) = m
  <2> HIDE DEF S, m
  <2>1. \A x \in S : (\A y \in S : x <= y) => x = m
    BY <1>4, <1>5
  <2> QED
    BY <1>4, <2>1, Zenon DEF Min
<1> QED
  BY <1>3, <1>6, Zenon DEF FirstKept

\* What cleanOldData leaves is a run again, and starts with the block after the chain.
LEMMA DrainingKeepsQueue ==
  ASSUME QueueInv, StartDraining
  PROVE  QueueInv'
<1> DEFINE b == queue.blocks
           n == Len(b)
           k == chain + 1 - queue.period + n
           m == IF k <= n THEN k ELSE n + 1
<1>1. /\ UNCHANGED <<chain, worker>> /\ ~Processing /\ b # <<>>
      /\ queue' = [queue EXCEPT !.blocks = SubSeq(b, FirstKept(chain + 1), n)]
      /\ pbft' = Idle \/ pbft' = [pc |-> "draining"]
  BY Zenon DEF StartDraining, CleanOldData, Processing
<1>2. k \in Nat \ {0} /\ FirstKept(chain + 1) = m
  BY <1>1, FirstKeptIs, Zenon
<1>3. /\ b \in Seq(Blocks) /\ queue.period \in Nat /\ chain \in Nat /\ n \in Nat \ {0}
      /\ queue \in [blocks : Seq(Blocks), period : Nat, votes : BOOLEAN]
  BY <1>1 DEF QueueInv, QueueTypes
<1>4. \A i \in 1..n : b[i].period = queue.period - n + i
  BY Zenon DEF QueueInv, Contiguous
<1>5. m \in 1..n + 1
  BY <1>2, <1>3
<1> DEFINE c == SubSeq(b, m, n)
<1>6. /\ c \in Seq(Blocks) /\ Len(c) = n - m + 1
      /\ \A i \in 1..n - m + 1 : c[i] = b[m + i - 1]
  <2> HIDE DEF b, n, m
  <2>1. \A i \in m..n : b[i] \in Blocks
    BY <1>3, <1>5 DEF n
  <2> QED
    BY <1>3, <1>5, <2>1
<1>7. /\ queue'.blocks = c /\ queue'.period = queue.period
      /\ queue' \in [blocks : Seq(Blocks), period : Nat, votes : BOOLEAN]
  BY <1>1, <1>2, <1>3, <1>6, Zenon
<1>8. \A i \in 1..Len(c) : c[i].period = queue.period - Len(c) + i
  <2> HIDE DEF c, b, k
  <2> SUFFICES ASSUME NEW i \in 1..n - m + 1
               PROVE  c[i].period = queue.period - (n - m + 1) + i
    BY <1>6, Zenon
  <2>1. m + i - 1 \in 1..n
    BY <1>3, <1>5
  <2>2. c[i].period = queue.period - n + (m + i - 1)
    BY <1>4, <1>6, <2>1, Zenon
  <2> QED
    BY <1>3, <1>5, <2>2
<1>9. QueueTypes' /\ Contiguous'
  <2> HIDE DEF c
  <2>1. pbft' \in [pc : {"idle", "draining", "pushed", "dereferencing"}]
    BY <1>1 DEF Idle
  <2> QED
    BY <1>1, <1>7, <1>8, <2>1, Zenon DEF QueueTypes, Contiguous, QueueInv, Idle
<1>10. HeadFits'
  <2> SUFFICES ASSUME c # <<>>
               PROVE  c[1].period <= chain + 1
    BY <1>1, <1>7, Zenon DEF HeadFits
  <2>1. Len(c) >= 1
    BY <1>6
  <2>2. m = k
    BY <1>2, <1>3, <1>6, <2>1
  <2>3. c[1].period = queue.period - (n - m + 1) + 1
    <3> HIDE DEF c, m, n
    <3> QED
      BY <1>6, <1>8, <2>1
  <2> QED
    BY <1>3, <2>2, <2>3
<1>11. ~Processing'
  BY <1>1 DEF Processing, Idle
<1>12. worker.pc = "pushing" => worker.packet.period \in Nat
  BY DEF QueueInv, QueueTypes, Idle, PbftAnswers
<1>13. c = <<>> => queue.period <= chain
  <2> SUFFICES ASSUME c = <<>>
               PROVE  queue.period <= chain
    BY Zenon
  <2>1. n - m + 1 = 0
    <3> HIDE DEF c, n, m
    <3> QED
      BY <1>6, Zenon
  <2>2. ~(k <= n)
    <3> HIDE DEF c, n, k
    <3> QED
      BY <1>2, <1>3, <2>1
  <2> QED
    <3> HIDE DEF n
    <3> QED
      BY <1>3, <2>2
<1>14. PreviousKnown' /\ PacketFollows' /\ PacketIsNew'
  <2> HIDE DEF c
  <2> QED
    BY <1>1, <1>3, <1>7, <1>11, <1>12, <1>13, Zenon
    DEF QueueInv, PreviousKnown, PacketFollows, PacketIsNew, b
<1> QED
  BY <1>9, <1>10, <1>11, <1>14, Zenon DEF QueueInv, BlockFits

\* The block that is taken out fits, and what is left follows it.
LEMMA PopKeepsQueue ==
  ASSUME QueueInv, PopBlock
  PROVE  QueueInv'
<1> DEFINE b == queue.blocks
           n == Len(b)
<1>1. UNCHANGED <<chain, worker>> /\ ~Processing
  BY Zenon DEF PopBlock, Processing
<1>2. /\ b \in Seq(Blocks) /\ queue.period \in Nat /\ chain \in Nat /\ n \in Nat
      /\ queue \in [blocks : Seq(Blocks), period : Nat, votes : BOOLEAN]
  BY DEF QueueInv, QueueTypes
<1>3. worker.pc \in {"checking", "pushing"} => worker.packet.period \in Nat \ {0}
  BY DEF QueueInv, QueueTypes, Idle, PbftAnswers
<1>4. CASE pbft' = Idle /\ UNCHANGED queue
  <2>1. ~Processing' /\ pbft' \in [pc : {"idle", "draining", "pushed", "dereferencing"}]
    BY <1>4, Zenon DEF Processing, Idle
  <2> QED
    BY <1>1, <1>4, <2>1, Zenon
    DEF QueueInv, QueueTypes, Contiguous, HeadFits, BlockFits, PacketIsNew, PreviousKnown,
        PacketFollows
<1>5. CASE /\ QueueSize > 0 /\ queue' = Popped
           /\ pbft' = [pc |-> "processing", block |-> Head(b), votes |-> PoppedVotes]
  <2>1. b # <<>> /\ n > 0 /\ (n = 1 => queue.votes)
    <3>1. IF queue.votes \/ b = <<>> THEN n > 0 ELSE n - 1 > 0
      BY <1>5, Zenon DEF QueueSize, SizeOf
    <3>2. b = <<>> => n = 0
      OBVIOUS
    <3> HIDE DEF n, b
    <3> QED
      BY <1>2, <3>1, <3>2
  <2>2. \A i \in 1..n : b[i].period = queue.period - n + i
    BY Zenon DEF QueueInv, Contiguous
  <2>3. Head(b) = b[1] /\ b[1] \in Blocks /\ b[1].period \in Nat \ {0}
    <3> HIDE DEF b
    <3>1. Head(b) = b[1] /\ b[1] \in Blocks
      BY <1>2, <2>1
    <3> QED
      BY <3>1, Zenon DEF Blocks
  <2>4. b[1].period <= chain + 1
    BY <1>1, <2>1, Zenon DEF QueueInv, HeadFits
  <2>5. PoppedVotes = TRUE
    <3>1. CASE n > 1
      <4>1. b[2].period = b[1].period + 1
        BY <1>2, <2>2, <3>1
      <4> QED
        BY <3>1, <4>1, Zenon DEF PoppedVotes
    <3>2. CASE n = 1
      BY <1>2, <2>1, <3>2 DEF PoppedVotes
    <3>3. n = 1 \/ n > 1
      <4> HIDE DEF n
      <4> QED
        BY <1>2, <2>1
    <3> QED
      BY <3>1, <3>2, <3>3, Zenon
  <2>6. /\ pbft' \in [pc : {"processing"}, block : Blocks, votes : BOOLEAN]
        /\ Processing' /\ pbft'.block = b[1] /\ pbft'.votes = TRUE
    BY <1>5, <2>3, <2>5, Zenon DEF Processing
  <2>7. BlockFits'
    BY <1>1, <1>2, <2>3, <2>4, <2>6 DEF BlockFits
  <2>8. CASE n > 1
    <3> DEFINE c == Tail(b)
    <3>1. /\ c \in Seq(Blocks) /\ Len(c) = n - 1 /\ c # <<>>
          /\ \A i \in 1..n - 1 : c[i] = b[i + 1]
      <4> HIDE DEF b
      <4>1. Tail(b) \in Seq(Blocks) /\ Len(Tail(b)) = n - 1
        BY <1>2, <2>1
      <4>2. \A i \in 1..n - 1 : Tail(b)[i] = b[i + 1]
        BY <1>2, <2>1
      <4>3. Tail(b) # <<>>
        <5>1. Len(<<>>) = 0
          BY Zenon
        <5> HIDE DEF n
        <5>2. n - 1 # 0
          BY <1>2, <2>8
        <5> QED
          BY <4>1, <5>1, <5>2, Zenon
      <4> QED
        BY <4>1, <4>2, <4>3, Zenon
    <3>2. /\ queue'.blocks = c /\ queue'.period = queue.period
          /\ queue' \in [blocks : Seq(Blocks), period : Nat, votes : BOOLEAN]
      BY <1>2, <1>5, <2>8, <3>1, Zenon DEF Popped
    <3> HIDE DEF c
    <3>3. Contiguous'
      <4> SUFFICES ASSUME NEW i \in 1..n - 1
                   PROVE  c[i].period = queue.period - (n - 1) + i
        BY <3>1, <3>2, Zenon DEF Contiguous
      <4> HIDE DEF n
      <4>1. i + 1 \in 1..n
        BY <1>2
      <4>2. b[i + 1].period = queue.period - n + (i + 1) /\ c[i] = b[i + 1]
        BY <2>2, <3>1, <4>1, Zenon
      <4> QED
        BY <1>2, <4>2
    <3>4. HeadFits'
      <4>1. c[1].period = b[1].period + 1
        <5> HIDE DEF n
        <5>1. 1 \in 1..n - 1 /\ 1 \in 1..n /\ 2 \in 1..n
          BY <1>2, <2>8
        <5>2. c[1] = b[1 + 1]
          BY <3>1, <5>1, Zenon
        <5>3. b[1].period = queue.period - n + 1 /\ b[2].period = queue.period - n + 2
          BY <2>2, <5>1, Zenon
        <5> QED
          BY <1>2, <5>2, <5>3
      <4> QED
        BY <2>6, <3>2, <4>1, Zenon DEF HeadFits
    <3>5. PacketIsNew' /\ PreviousKnown' /\ PacketFollows'
      BY <1>1, <2>1, <3>1, <3>2, Zenon DEF QueueInv, PacketIsNew, PreviousKnown, PacketFollows
    <3> QED
      BY <1>1, <2>6, <2>7, <3>2, <3>3, <3>4, <3>5, Zenon DEF QueueInv, QueueTypes, Idle
  <2>9. CASE n = 1
    <3>1. queue' = EmptyQueue
      BY <1>5, <2>9 DEF Popped
    <3>2. /\ queue'.blocks = <<>> /\ queue'.period = 0 /\ Len(queue'.blocks) = 0
          /\ queue' \in [blocks : Seq(Blocks), period : Nat, votes : BOOLEAN]
      BY <3>1 DEF EmptyQueue
    <3>3. Contiguous' /\ HeadFits' /\ PacketFollows'
      BY <3>2 DEF Contiguous, HeadFits, PacketFollows
    <3>4. PacketIsNew'
      BY <1>1, <1>3, <3>2 DEF PacketIsNew
    <3>5. b[1].period = queue.period
      BY <1>2, <2>2, <2>9
    <3>6. PreviousKnown'
      BY <1>1, <2>6, <3>5, Zenon DEF QueueInv, PreviousKnown
    <3> QED
      BY <1>1, <2>6, <2>7, <3>2, <3>3, <3>4, <3>6, Zenon DEF QueueInv, QueueTypes, Idle
  <2> HIDE DEF n
  <2> QED
    BY <1>2, <2>1, <2>8, <2>9
<1> QED
  BY <1>4, <1>5, Zenon DEF PopBlock

\* Every block that was taken out is skipped or pushed: the queue is never cleared.
LEMMA ProcessKeepsQueue ==
  ASSUME QueueInv, ProcessPeriodData
  PROVE  QueueInv' /\ UNCHANGED queue
<1> DEFINE b == pbft.block
<1>1. Processing /\ UNCHANGED worker /\ b.period \in Nat /\ chain \in Nat
  BY Zenon DEF ProcessPeriodData, Processing, QueueInv, QueueTypes, Blocks
<1>2. b.period <= chain \/ (b.period = chain + 1 /\ pbft.votes)
  BY <1>1, Zenon DEF QueueInv, BlockFits
<1>3. /\ UNCHANGED queue /\ pbft' \in [pc : {"draining", "pushed"}]
      /\ chain' \in Nat /\ chain <= chain' /\ b.period <= chain'
  BY <1>1, <1>2 DEF ProcessPeriodData
<1>4. ~Processing' /\ pbft' \in [pc : {"idle", "draining", "pushed", "dereferencing"}]
  BY <1>3, Zenon DEF Processing
<1>5. QueueTypes' /\ Contiguous' /\ BlockFits' /\ PacketIsNew'
  BY <1>1, <1>3, <1>4, Zenon DEF QueueInv, QueueTypes, Contiguous, BlockFits, PacketIsNew, Idle
<1>6. HeadFits'
  <2>1. queue.blocks # <<>> => queue.blocks[1] \in Blocks
    BY DEF QueueInv, QueueTypes
  <2> QED
    BY <1>1, <1>3, <2>1 DEF QueueInv, HeadFits, Blocks
<1>7. worker.pc = "pushing" => worker.packet.period \in Nat
  BY DEF QueueInv, QueueTypes, Idle, PbftAnswers
<1>8. PreviousKnown' /\ PacketFollows'
  BY <1>1, <1>3, <1>7 DEF QueueInv, QueueTypes, PreviousKnown, PacketFollows
<1> QED
  BY <1>3, <1>5, <1>6, <1>8, Zenon DEF QueueInv

\* The rest of the loop changes neither the chain nor the queue, unless the process dies.
LEMMA StatePeriodKeepsQueue ==
  ASSUME QueueInv, ReadSyncing \/ SetSyncStatePeriod
  PROVE  QueueInv'
<1>1. CASE /\ UNCHANGED <<chain, queue, worker>> /\ ~Processing
           /\ pbft' \in [pc : {"idle", "draining", "pushed", "dereferencing"}]
  <2>1. ~Processing'
    BY <1>1, Zenon DEF Processing
  <2> QED
    BY <1>1, <2>1, Zenon
    DEF QueueInv, QueueTypes, Contiguous, HeadFits, BlockFits, PacketIsNew, PreviousKnown,
        PacketFollows, Idle
<1>2. CASE /\ UNCHANGED chain
           /\ queue' = EmptyQueue /\ worker' = Idle /\ pbft' = Idle
  <2>1. /\ queue'.blocks = <<>> /\ Len(queue'.blocks) = 0
        /\ queue' \in [blocks : Seq(Blocks), period : Nat, votes : BOOLEAN]
    BY <1>2 DEF EmptyQueue
  <2>2. worker'.pc = "idle" /\ pbft'.pc = "idle"
        /\ pbft' \in [pc : {"idle", "draining", "pushed", "dereferencing"}]
    BY <1>2, Zenon DEF Idle
  <2> QED
    BY <1>2, <2>1, <2>2
    DEF QueueInv, QueueTypes, Contiguous, HeadFits, BlockFits, PacketIsNew, PreviousKnown,
        PacketFollows, Processing
<1>3. CASE ReadSyncing
  BY <1>1, <1>3, Zenon DEF ReadSyncing, Processing
<1>4. CASE SetSyncStatePeriod
  BY <1>1, <1>2, <1>4 DEF SetSyncStatePeriod, Restarted, Processing
<1> QED
  BY <1>3, <1>4, Zenon

-----------------------------------------------------------------------------
(* One peer: what each operation does to what is asked and answered.       *)

\* A new session knows nothing.
LEMMA PeerFresh ==
  ASSUME NEW z \in Nat \ {0}
  PROVE  PeerOK(1, "none", <<>>, <<>>, FALSE, z)
<1>1. <<>> \in Seq(Requests) /\ <<>> \in Seq(Answers) /\ DOMAIN <<>> = {}
  OBVIOUS
<1>2. WithinChain(1, <<>>, <<>>, z)
  BY <1>1 DEF WithinChain
<1>3. OneDagSync("none", <<>>, <<>>, FALSE)
  BY <1>1, Zenon DEF OneDagSync, DagRequests, DagReplies
<1> QED
  BY <1>1, <1>2, <1>3, Zenon DEF PeerOK, DagStates

LEMMA PeerGrows ==
  ASSUME NEW k, NEW d, NEW in, NEW out, NEW s, NEW z, PeerOK(k, d, in, out, s, z)
  PROVE  PeerOK(k, d, in, out, s, z + 1)
<1>1. \A i \in DOMAIN in : in[i] \in Requests
  BY DEF PeerOK
<1>2. \A i \in DOMAIN out : out[i] \in Answers
  BY DEF PeerOK
<1>3. WithinChain(k, in, out, z + 1)
  <2>1. z \in Nat /\ k \in Nat /\ WithinChain(k, in, out, z)
    BY Zenon DEF PeerOK
  <2>2. \A i \in DOMAIN in : in[i].period \in Nat
    BY <1>1, Zenon DEF Requests
  <2>3. \A i \in DOMAIN out : /\ out[i].type = "PbftSync" => out[i].period \in Nat
                              /\ out[i].type = "DagSync" => out[i].response \in Nat
    BY <1>2, Zenon DEF Answers, PbftAnswers, DagAnswers
  <2> QED
    BY <2>1, <2>2, <2>3 DEF WithinChain
<1> QED
  BY <1>3 DEF PeerOK

\* The node learns of a longer chain.
LEMMA PeerRaised ==
  ASSUME NEW k, NEW d, NEW in, NEW out, NEW s, NEW z, PeerOK(k, d, in, out, s, z),
         NEW m \in Nat, m <= z
  PROVE  PeerOK(m, d, in, out, s, z)
BY Zenon DEF PeerOK, WithinChain

\* kDagSyncingLimit passed.
LEMMA PeerForgets ==
  ASSUME NEW k, NEW in, NEW out, NEW s, NEW z, PeerOK(k, "expired", in, out, s, z)
  PROVE  PeerOK(k, "none", in, out, s, z)
BY Zenon DEF PeerOK, OneDagSync, DagStates

\* syncPeerPbft asks for what the peer is known to have.
LEMMA PeerAsked ==
  ASSUME NEW k, NEW d, NEW in, NEW out, NEW s, NEW z, PeerOK(k, d, in, out, s, z),
         NEW period \in Nat \ {0}, period <= k
  PROVE  PeerOK(k, d, Append(in, [type |-> "GetPbftSync", period |-> period]), out, s, z)
<1> DEFINE r == [type |-> "GetPbftSync", period |-> period]
           new == Append(in, r)
<1>1. in \in Seq(Requests) /\ r \in Requests /\ r.type # "GetDagSync" /\ r.period = period
  BY Zenon DEF PeerOK, Requests
<1>2. r.period <= z
  BY <1>1 DEF PeerOK, WithinChain
<1> HIDE DEF r
<1>3. /\ new \in Seq(Requests) /\ DOMAIN new = 1..Len(in) + 1 /\ DOMAIN in = 1..Len(in)
      /\ new[Len(in) + 1] = r /\ Len(in) \in Nat
      /\ \A i \in 1..Len(in) : new[i] = in[i]
  BY <1>1
<1> HIDE DEF new
<1>4. DagRequests(new) = DagRequests(in)
  BY <1>1, <1>3 DEF DagRequests
<1>5. WithinChain(k, new, out, z)
  BY <1>1, <1>2, <1>3 DEF PeerOK, WithinChain
<1>6. OneDagSync(d, new, out, s)
  BY <1>4, Zenon DEF PeerOK, OneDagSync
<1>7. PeerOK(k, d, new, out, s, z)
  BY <1>3, <1>5, <1>6, Zenon DEF PeerOK
<1> QED
  BY <1>7, Zenon DEF new, r

\* requestDagBlocks asks only a peer that no DAG sync is under way with.
LEMMA PeerAskedForDag ==
  ASSUME NEW k, NEW in, NEW out, NEW s, NEW z, PeerOK(k, "none", in, out, s, z),
         NEW period \in Nat
  PROVE  PeerOK(k, "syncing", Append(in, [type |-> "GetDagSync", period |-> period]), out, s, z)
<1> DEFINE r == [type |-> "GetDagSync", period |-> period]
           new == Append(in, r)
<1>1. in \in Seq(Requests) /\ r \in Requests /\ r.type = "GetDagSync"
  BY Zenon DEF PeerOK, Requests
<1> HIDE DEF r
<1>2. /\ new \in Seq(Requests) /\ DOMAIN new = 1..Len(in) + 1 /\ DOMAIN in = 1..Len(in)
      /\ new[Len(in) + 1] = r /\ Len(in) \in Nat
      /\ \A i \in 1..Len(in) : new[i] = in[i]
  BY <1>1
<1> HIDE DEF new
<1>3. DagRequests(in) = {} /\ DagReplies(out) = {} /\ ~s
  BY Zenon DEF PeerOK, OneDagSync
<1>4. DagRequests(new) = {Len(in) + 1}
  BY <1>1, <1>2, <1>3 DEF DagRequests
<1>5. WithinChain(k, new, out, z)
  BY <1>1, <1>2 DEF PeerOK, WithinChain
<1>6. OneDagSync("syncing", new, out, s)
  BY <1>3, <1>4, Zenon DEF OneDagSync
<1>7. PeerOK(k, "syncing", new, out, s, z)
  BY <1>2, <1>5, <1>6, Zenon DEF PeerOK, DagStates
<1> QED
  BY <1>7, Zenon DEF new, r

\* The indices of a tail and of a concatenation.
LEMMA TailIndices ==
  ASSUME NEW S, NEW q \in Seq(S), q # <<>>
  PROVE  /\ Tail(q) \in Seq(S) /\ Head(q) = q[1] /\ 1 \in DOMAIN q /\ Head(q) \in S
         /\ \A i \in DOMAIN Tail(q) : i \in Nat /\ i + 1 \in DOMAIN q /\ Tail(q)[i] = q[i + 1] /\ i + 1 # 1
<1>1. Tail(q) \in Seq(S) /\ Len(Tail(q)) = Len(q) - 1 /\ Len(q) \in Nat \ {0}
  OBVIOUS
<1>2. \A i \in 1..Len(q) - 1 : Tail(q)[i] = q[i + 1]
  OBVIOUS
<1>3. DOMAIN Tail(q) = 1..Len(q) - 1 /\ DOMAIN q = 1..Len(q)
  BY <1>1
<1> QED
  BY <1>1, <1>2, <1>3

\* A packet that came in leaves the rest as it was.
LEMMA AnswerTaken ==
  ASSUME NEW k, NEW d, NEW in, NEW out, NEW s, NEW z, PeerOK(k, d, in, out, s, z), out # <<>>
  PROVE  /\ PeerOK(k, d, in, Tail(out), s, z)
         /\ Head(out).type = "DagSync" =>
              /\ DagReplies(Tail(out)) = {} /\ DagRequests(in) = {}
              /\ d = "syncing" /\ (s => Head(out).response = Head(out).request)
<1> DEFINE new == Tail(out)
<1>1. out \in Seq(Answers)
  BY Zenon DEF PeerOK
<1>2. /\ new \in Seq(Answers) /\ Head(out) = out[1] /\ 1 \in DOMAIN out
      /\ \A i \in DOMAIN new : i \in Nat /\ i + 1 \in DOMAIN out /\ new[i] = out[i + 1] /\ i + 1 # 1
  BY <1>1, TailIndices, Zenon
<1> HIDE DEF new
<1>3. WithinChain(k, in, new, z)
  BY <1>2, Zenon DEF PeerOK, WithinChain
<1>4. \A i \in DagReplies(new) : i + 1 \in DagReplies(out) /\ new[i] = out[i + 1] /\ i \in Nat
  BY <1>2, Zenon DEF DagReplies
<1>5. OneDagSync(d, in, out, s)
  BY Zenon DEF PeerOK
<1>6. \A i, j \in DagReplies(new) : i = j
  <2> SUFFICES ASSUME NEW i \in DagReplies(new), NEW j \in DagReplies(new) PROVE i = j
    BY Zenon
  <2>1. i + 1 = j + 1
    BY <1>4, <1>5, Zenon DEF OneDagSync
  <2> QED
    BY <1>4, <2>1
<1>7. DagReplies(out) = {} => DagReplies(new) = {}
  BY <1>4, Zenon
<1>8. OneDagSync(d, in, new, s)
  BY <1>4, <1>5, <1>6, <1>7 DEF OneDagSync
<1>9. PeerOK(k, d, in, new, s, z)
  BY <1>2, <1>3, <1>8, Zenon DEF PeerOK
<1>10. ASSUME out[1].type = "DagSync"
       PROVE  /\ DagReplies(new) = {} /\ DagRequests(in) = {}
              /\ d = "syncing" /\ (s => out[1].response = out[1].request)
  <2>1. 1 \in DagReplies(out)
    BY <1>2, <1>10, Zenon DEF DagReplies
  <2>2. DagReplies(new) = {}
    <3> SUFFICES ASSUME NEW i \in DagReplies(new) PROVE FALSE
      BY Zenon
    <3>1. i + 1 = 1 /\ i \in Nat
      BY <1>4, <1>5, <2>1, Zenon DEF OneDagSync
    <3>2. i + 1 # 1
      BY <1>2, Zenon DEF DagReplies
    <3> QED
      BY <3>1, <3>2, Zenon
  <2> QED
    BY <1>5, <2>1, <2>2, Zenon DEF OneDagSync
<1> QED
  BY <1>2, <1>9, <1>10, Zenon DEF new

\* A DAG sync packet ends the DAG sync, one way or the other.
LEMMA DagAnswered ==
  ASSUME NEW k, NEW d, NEW in, NEW out, NEW s, NEW z, PeerOK(k, d, in, out, s, z),
         DagReplies(out) = {}, DagRequests(in) = {}
  PROVE  /\ PeerOK(k, "synced", in, out, s, z)
         /\ ~s => PeerOK(k, "none", in, out, s, z)
BY Zenon DEF PeerOK, OneDagSync, DagStates

\* The peer's memory of the DAG sync ends before the node's.
LEMMA ServedExpires ==
  ASSUME NEW k, NEW d, NEW in, NEW out, NEW s, NEW z, PeerOK(k, d, in, out, s, z)
  PROVE  PeerOK(k, IF d = "synced" THEN "expired" ELSE d, in, out, FALSE, z)
BY Zenon DEF PeerOK, OneDagSync, DagStates

\* GetPbftSyncPacketHandler sends blocks of the peer's chain only.
LEMMA ServesBlocks ==
  ASSUME NEW p \in Peers, size[p] \in Nat, NEW from \in Nat \ {0}, from <= size[p]
  PROVE  /\ SyncPackets(p, from) \in Seq(PbftAnswers)
         /\ \A i \in DOMAIN SyncPackets(p, from) : SyncPackets(p, from)[i].period <= size[p]
<1> DEFINE z == size[p]
           to == Min({z, from + SyncLevelSize - 1})
           packet(i) == [type |-> "PbftSync", period |-> from + i - 1, last |-> from + i - 1 = to,
                         votes |-> from + i - 1 = z]
           n == to - from + 1
<1>1. SyncLevelSize \in Nat \ {0}
  BY SyncAssumption, Zenon
<1>2. to = IF z <= from + SyncLevelSize - 1 THEN z ELSE from + SyncLevelSize - 1
  BY <1>1, MinOfTwo
<1>3. to \in Nat /\ n \in Nat \ {0} /\ to <= z
  BY <1>1, <1>2
<1>4. \A i \in 1..n : packet(i) \in PbftAnswers /\ packet(i).period = from + i - 1 /\ packet(i).period <= z
  <2> HIDE DEF to
  <2> SUFFICES ASSUME NEW i \in 1..n
               PROVE  packet(i) \in PbftAnswers /\ packet(i).period = from + i - 1 /\ packet(i).period <= z
    BY Zenon
  <2>1. from + i - 1 \in Nat \ {0} /\ from + i - 1 <= z
    BY <1>3
  <2> QED
    BY <2>1, Zenon DEF PbftAnswers
<1>5. SyncPackets(p, from) = [i \in 1..n |-> packet(i)]
  BY Zenon DEF SyncPackets
<1> HIDE DEF packet, n
<1> QED
  BY <1>3, <1>4, <1>5

LEMMA ConcatIndices ==
  ASSUME NEW a \in Seq(Answers), NEW b \in Seq(Answers)
  PROVE  /\ a \o b \in Seq(Answers)
         /\ \A i \in DOMAIN (a \o b) :
              \/ i \in DOMAIN a /\ (a \o b)[i] = a[i]
              \/ i - Len(a) \in DOMAIN b /\ (a \o b)[i] = b[i - Len(a)]
         /\ DOMAIN (a \o b) \subseteq Nat /\ Len(a) \in Nat
<1>1. a \o b \in Seq(Answers) /\ Len(a \o b) = Len(a) + Len(b) /\ Len(a) \in Nat /\ Len(b) \in Nat
  OBVIOUS
<1>2. \A i \in 1..Len(a) + Len(b) :
        (a \o b)[i] = IF i <= Len(a) THEN a[i] ELSE b[i - Len(a)]
  OBVIOUS
<1>3. DOMAIN (a \o b) = 1..Len(a) + Len(b) /\ DOMAIN a = 1..Len(a) /\ DOMAIN b = 1..Len(b)
  BY <1>1
<1> QED
  BY <1>1, <1>2, <1>3

\* A request that is taken leaves the others as they were.
LEMMA RequestTaken ==
  ASSUME NEW k, NEW d, NEW in, NEW out, NEW s, NEW z, PeerOK(k, d, in, out, s, z), in # <<>>
  PROVE  /\ PeerOK(k, d, Tail(in), out, s, z) /\ Head(in) \in Requests
         /\ Head(in).type = "GetPbftSync" => Head(in).period <= z
         /\ Head(in).type = "GetDagSync" =>
              DagRequests(Tail(in)) = {} /\ DagReplies(out) = {} /\ d = "syncing" /\ ~s
<1> DEFINE new == Tail(in)
<1>1. in \in Seq(Requests)
  BY Zenon DEF PeerOK
<1>2. /\ new \in Seq(Requests) /\ Head(in) = in[1] /\ 1 \in DOMAIN in /\ Head(in) \in Requests
      /\ \A i \in DOMAIN new : i \in Nat /\ i + 1 \in DOMAIN in /\ new[i] = in[i + 1] /\ i + 1 # 1
  BY <1>1, TailIndices, Zenon
<1> HIDE DEF new
<1>3. WithinChain(k, new, out, z) /\ (in[1].type = "GetPbftSync" => in[1].period <= z)
  BY <1>2, Zenon DEF PeerOK, WithinChain
<1>4. \A i \in DagRequests(new) : i + 1 \in DagRequests(in) /\ i \in Nat /\ i + 1 # 1
  BY <1>2, Zenon DEF DagRequests
<1>5. OneDagSync(d, in, out, s)
  BY Zenon DEF PeerOK
<1>6. \A i, j \in DagRequests(new) : i = j
  <2> SUFFICES ASSUME NEW i \in DagRequests(new), NEW j \in DagRequests(new) PROVE i = j
    BY Zenon
  <2>1. i + 1 = j + 1
    BY <1>4, <1>5, Zenon DEF OneDagSync
  <2> QED
    BY <1>4, <2>1
<1>7. DagRequests(new) # {} => DagRequests(in) # {}
  BY <1>4, Zenon
<1>8. OneDagSync(d, new, out, s)
  BY <1>5, <1>6, <1>7, Zenon DEF OneDagSync
<1>9. PeerOK(k, d, new, out, s, z)
  BY <1>2, <1>3, <1>8, Zenon DEF PeerOK
<1>10. ASSUME in[1].type = "GetDagSync"
       PROVE  DagRequests(new) = {} /\ DagReplies(out) = {} /\ d = "syncing" /\ ~s
  <2>1. 1 \in DagRequests(in)
    BY <1>2, <1>10, Zenon DEF DagRequests
  <2>2. DagRequests(new) = {}
    BY <1>4, <1>5, <2>1, Zenon DEF OneDagSync
  <2> QED
    BY <1>5, <2>1, <2>2, Zenon DEF OneDagSync
<1> QED
  BY <1>2, <1>3, <1>9, <1>10, Zenon DEF new

\* The answer to a PBFT sync request.
LEMMA PeerSendsBlocks ==
  ASSUME NEW k, NEW d, NEW in, NEW out, NEW s, NEW z, PeerOK(k, d, in, out, s, z),
         NEW more \in Seq(PbftAnswers), \A i \in DOMAIN more : more[i].period <= z
  PROVE  PeerOK(k, d, in, out \o more, s, z)
<1> DEFINE new == out \o more
<1>1. out \in Seq(Answers) /\ more \in Seq(Answers)
  BY DEF PeerOK, Answers
<1>2. \A i \in DOMAIN more : more[i].type = "PbftSync"
  <2>1. \A i \in DOMAIN more : more[i] \in PbftAnswers
    OBVIOUS
  <2> QED
    BY <2>1, Zenon DEF PbftAnswers
<1>3. /\ new \in Seq(Answers)
      /\ \A i \in DOMAIN new :
           \/ i \in DOMAIN out /\ new[i] = out[i]
           \/ i - Len(out) \in DOMAIN more /\ new[i] = more[i - Len(out)]
  BY <1>1, ConcatIndices, Zenon
<1> HIDE DEF new
<1>4. WithinChain(k, in, new, z)
  BY <1>2, <1>3, Zenon DEF PeerOK, WithinChain
<1>5. \A i \in DagReplies(new) : i \in DagReplies(out) /\ new[i] = out[i]
  BY <1>2, <1>3, Zenon DEF DagReplies
<1>6. DagReplies(out) = {} => DagReplies(new) = {}
  BY <1>5, Zenon
<1>7. OneDagSync(d, in, new, s)
  BY <1>5, <1>6, Zenon DEF PeerOK, OneDagSync
<1>8. PeerOK(k, d, in, new, s, z)
  BY <1>3, <1>4, <1>7, Zenon DEF PeerOK
<1> QED
  BY <1>8, Zenon DEF new

\* The answer to a DAG sync request; a peer that is asked at its own period remembers it.
LEMMA PeerSendsDag ==
  ASSUME NEW k, NEW in, NEW out, NEW s, NEW z, PeerOK(k, "syncing", in, out, s, z),
         DagRequests(in) = {}, DagReplies(out) = {}, ~s, NEW period \in Nat,
         NEW t \in BOOLEAN, t => period = z
  PROVE  PeerOK(k, "syncing", in,
                out \o <<[type |-> "DagSync", request |-> period, response |-> z]>>, t, z)
<1> DEFINE r == [type |-> "DagSync", request |-> period, response |-> z]
           more == <<r>>
           new == out \o more
<1>1. r \in Answers /\ r.type = "DagSync" /\ r.response = z /\ r.request = period /\ z \in Nat
  BY Zenon DEF PeerOK, Answers, DagAnswers
<1> HIDE DEF r
<1>2. /\ out \in Seq(Answers) /\ more \in Seq(Answers) /\ DOMAIN more = {1} /\ more[1] = r
  BY <1>1 DEF PeerOK
<1> HIDE DEF more
<1>3. /\ new \in Seq(Answers) /\ DOMAIN new \subseteq Nat /\ Len(out) \in Nat
      /\ \A i \in DOMAIN new :
           \/ i \in DOMAIN out /\ new[i] = out[i]
           \/ i - Len(out) \in DOMAIN more /\ new[i] = more[i - Len(out)]
  BY <1>2, ConcatIndices, Zenon
<1> HIDE DEF new
<1>4. \A i \in DOMAIN new : (i \in DOMAIN out /\ new[i] = out[i]) \/ (i = Len(out) + 1 /\ new[i] = r)
  BY <1>2, <1>3
<1>5. WithinChain(k, in, new, z)
  <2>1. z <= z
    BY <1>1
  <2> QED
    BY <1>1, <1>4, <2>1, Zenon DEF PeerOK, WithinChain
<1>6. \A i \in DagReplies(new) : i = Len(out) + 1 /\ new[i] = r
  BY <1>4, Zenon DEF DagReplies
<1>7. OneDagSync("syncing", in, new, t)
  BY <1>1, <1>6, Zenon DEF OneDagSync
<1>8. PeerOK(k, "syncing", in, new, t, z)
  BY <1>3, <1>5, <1>7, Zenon DEF PeerOK
<1> QED
  BY <1>8, Zenon DEF new, more, r
=============================================================================
