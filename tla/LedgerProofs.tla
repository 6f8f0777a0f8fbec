---------------------------- MODULE LedgerProofs ----------------------------
(***************************************************************************)
(* Proofs about Ledger, for every chain, every configuration of the        *)
(* reward distribution and any number of crashes: the final chain and the  *)
(* state database stay within one block of each other, a node that votes   *)
(* knows the eligibility of the voters, and the whole node implements      *)
(* ExecutionLedger, where blocks are executed and rewarded exactly once.   *)
(*                                                                         *)
(* LedgerInv says where the two threads and the two databases are in       *)
(* relation to each other at every point at which a crash may come:        *)
(*   ThreadsAgree     which threads are busy in which phase of the node,   *)
(*   QueueIsContiguous  the tasks of the executor are the blocks after the *)
(*                    last executed one, up to the last pushed one,        *)
(*   DatabasesAgree   the position of the three block numbers,             *)
(*   RewardsCarried   what the statistics hold is what was not paid.       *)
(***************************************************************************)
EXTENDS Ledger, TLAPS

\* The time the SMT solver is given for a step that names no prover.
USE SMTT(60)

Alive == node \in {"running", "replaying"}

\* Any sequence, whatever its elements.
IsSeq(s) == s \in Seq({s[i] : i \in DOMAIN s})

SequencesOK == IsSeq(queue) /\ IsSeq(used) /\ paid \in Seq(SUBSET Nat)

ThreadsAgree ==
  /\ node # "running" => pc = "idle"
  /\ ~Alive => executor = "idle" /\ queue = <<>>
  /\ executor # "idle" => queue # <<>>
  /\ pc = "advance" => executedFlag

\* The blocks whose execution was posted.
Posted == IF pc = "lambda" THEN Size - 1 ELSE Size

QueueIsContiguous ==
  /\ evmBlock <= Size
  /\ Alive => Len(queue) = Posted - lastBlock
  /\ \A i \in 1..Len(queue) : queue[i].period = lastBlock + i

DatabasesAgree ==
  /\ node = "down" => lastNumber \in {evmBlock, evmBlock + 1}
  /\ node = "halted" => lastNumber = evmBlock
  /\ Alive /\ executor = "idle" => lastNumber = evmBlock /\ lastBlock = evmBlock
  /\ Alive /\ executor = "committed" => lastNumber = evmBlock + 1 /\ lastBlock = evmBlock
  /\ Alive /\ executor = "stateCommitted" => lastNumber = evmBlock /\ lastBlock + 1 = evmBlock

\* The statistics of the block are kept for a later distribution.
Waits(p) == ~EveryBlock(p) /\ ~Distributes(p)

\* The statistics are those of the unpaid periods; after a crash between the two commits
\* of a block they may already hold the block that is executed again.
Carried(rows) ==
  \/ rows = Unpaid
  \/ Waits(evmBlock + 1) /\ rows = Unpaid \cup {evmBlock + 1}

RewardsCarried ==
  /\ \A i \in 1..Len(paid) : paid[i] \subseteq 1..i
  /\ evmBlock > 0 /\ Distributes(evmBlock) => Unpaid = {}
  /\ node = "down" => Carried(RecoveredRows)
  /\ Alive /\ executor = "idle" => Carried(stats) /\ Carried(statRows)
  /\ Alive /\ executor = "committed" =>
       /\ stats = IF EveryBlock(evmBlock + 1) THEN Unpaid ELSE Unpaid \cup {evmBlock + 1}
       /\ statRows = IF Waits(evmBlock + 1) THEN Unpaid \cup {evmBlock + 1} ELSE Unpaid
  /\ Alive /\ executor = "stateCommitted" /\ ~Clears(evmBlock) =>
       stats = Unpaid /\ statRows = Unpaid

LedgerInv ==
  /\ TypeOK /\ SequencesOK /\ ThreadsAgree /\ QueueIsContiguous /\ DatabasesAgree
  /\ EligibilityKnown /\ RewardsCarried

-----------------------------------------------------------------------------
\* A sequence over some set is a sequence over the set of its elements.
LEMMA SeqOfElements ==
  ASSUME NEW S, NEW t \in Seq(S)
  PROVE  IsSeq(t)
<1> DEFINE R == {t[i] : i \in DOMAIN t}
<1>1. Len(t) \in Nat /\ DOMAIN t = 1..Len(t) /\ t = [i \in 1..Len(t) |-> t[i]]
  OBVIOUS
<1>2. \A i \in 1..Len(t) : t[i] \in R
  BY <1>1, Zenon
<1> HIDE DEF R
<1>3. t \in [1..Len(t) -> R]
  BY <1>1, <1>2, Zenon
<1>4. t \in Seq(R)
  BY <1>1, <1>3
<1> QED
  BY <1>4, Zenon DEF IsSeq, R

\* Append keeps a sequence a sequence.
LEMMA AppendToAny ==
  ASSUME NEW s, IsSeq(s), NEW x
  PROVE  /\ IsSeq(Append(s, x)) /\ Len(Append(s, x)) = Len(s) + 1 /\ Len(s) \in Nat
         /\ \A i \in 1..Len(s) : Append(s, x)[i] = s[i]
         /\ Append(s, x)[Len(s) + 1] = x
<1> DEFINE S == {s[i] : i \in DOMAIN s}
           T == S \cup {x}
           t == Append(s, x)
<1>1. s \in Seq(S) /\ s \in Seq(T)
  BY DEF IsSeq
<1>2. t \in Seq(T) /\ Len(t) = Len(s) + 1 /\ Len(s) \in Nat
  BY <1>1
<1>3. (\A i \in 1..Len(s) : t[i] = s[i]) /\ t[Len(s) + 1] = x
  BY <1>1
<1>4. IsSeq(t)
  BY <1>2, SeqOfElements, Zenon
<1> QED
  BY <1>2, <1>3, <1>4, Zenon

\* So does Tail, which shifts the elements by one.
LEMMA TailOfAny ==
  ASSUME NEW s, IsSeq(s), s # <<>>
  PROVE  /\ IsSeq(Tail(s)) /\ Len(Tail(s)) = Len(s) - 1 /\ Len(s) \in Nat \ {0}
         /\ \A i \in 1..Len(s) - 1 : Tail(s)[i] = s[i + 1]
         /\ Head(s) = s[1]
<1> DEFINE S == {s[i] : i \in DOMAIN s}
           t == Tail(s)
<1>1. s \in Seq(S)
  BY Zenon DEF IsSeq
<1>2. t \in Seq(S) /\ Len(t) = Len(s) - 1 /\ Len(s) \in Nat \ {0} /\ Head(s) = s[1]
  BY <1>1
<1>3. \A i \in 1..Len(s) - 1 : t[i] = s[i + 1]
  BY <1>1
<1>4. IsSeq(t)
  BY <1>2, SeqOfElements, Zenon
<1> QED
  BY <1>2, <1>3, <1>4, Zenon

\* A block that is rewarded on its own is one of a distribution period.
LEMMA EveryBlockDistributes ==
  ASSUME NEW p \in Nat, EveryBlock(p)
  PROVE  Distributes(p)
BY DEF EveryBlock, Distributes

\* The statistics depend on the state database only.
LEMMA UnpaidUnchanged ==
  ASSUME evmBlock' = evmBlock, paid' = paid
  PROVE  Unpaid' = Unpaid /\ \A rows : Carried(rows)' <=> Carried(rows)
BY DEF Unpaid, Carried, Waits, EveryBlock, Distributes

-----------------------------------------------------------------------------
\* The executor works on the block after the last executed one, which is in the chain.
LEMMA TaskIsNext ==
  ASSUME LedgerInv, Alive, queue # <<>>
  PROVE  /\ Task.period = lastBlock + 1 /\ lastBlock + 1 <= Size
         /\ Size \in Nat /\ lastBlock \in Nat /\ evmBlock \in Nat /\ Size <= MaxPeriod
<1>1. Head(queue) = queue[1] /\ Len(queue) \in Nat \ {0}
  BY TailOfAny, Zenon DEF LedgerInv, SequencesOK
<1>2. Size \in Nat /\ lastBlock \in Nat /\ evmBlock \in Nat /\ Size <= MaxPeriod
  BY LedgerAssumption DEF LedgerInv, TypeOK, Size
<1> QED
  BY <1>1, <1>2 DEF LedgerInv, QueueIsContiguous, Task, Posted

\* After the state is committed, what is unpaid and what was paid is as ExecutionLedger
\* says: a distribution pays the block and everything that waited for it.
LEMMA RewardsOfBlock ==
  ASSUME LedgerInv, CommitState
  PROVE  LET p == evmBlock + 1
         IN  /\ Task.period = p /\ p <= Size
             /\ paid' = Append(paid, IF Distributes(p) THEN Unpaid \cup {p} ELSE {})
             /\ Unpaid' = IF Distributes(p) THEN {} ELSE Unpaid \cup {p}
             /\ EveryBlock(p) => Unpaid = {}
<1> DEFINE p == evmBlock + 1
           due == IF Distributes(p) THEN Unpaid \cup {p} ELSE {}
           all == UNION {paid[i] : i \in 1..Len(paid)}
<1>1. Alive /\ queue # <<>> /\ executor = "committed"
  BY Zenon DEF CommitState, Executing, Alive
<1>2. Task.period = p /\ p <= Size /\ evmBlock \in Nat /\ Size \in Nat /\ Size <= MaxPeriod
  BY <1>1, TaskIsNext, Zenon DEF LedgerInv, DatabasesAgree
<1>3. stats = (IF EveryBlock(p) THEN Unpaid ELSE Unpaid \cup {p})
  BY <1>1, Zenon DEF LedgerInv, RewardsCarried
<1>4. EveryBlock(p) => Unpaid = {} /\ Distributes(p)
  <2> SUFFICES ASSUME EveryBlock(p) PROVE Unpaid = {} /\ Distributes(p)
    BY Zenon
  <2>1. Distributes(p)
    BY <1>2, EveryBlockDistributes
  <2>2. CASE evmBlock = 0
    BY <2>1, <2>2 DEF Unpaid
  <2>3. CASE evmBlock \in 1..MaxPeriod
    <3>1. Distributes(evmBlock)
      BY <2>3, FrequencyAssumption, Zenon DEF EveryBlock
    <3> QED
      BY <2>1, <2>3, <3>1 DEF LedgerInv, RewardsCarried
  <2> QED
    BY <1>2, <2>2, <2>3, LedgerAssumption
<1>5. paid' = Append(paid, due)
  <2>1. CASE EveryBlock(p)
    BY <2>1, <1>2, <1>4, Zenon DEF CommitState
  <2>2. CASE ~EveryBlock(p) /\ Distributes(p)
    BY <2>2, <1>2, <1>3, Zenon DEF CommitState
  <2>3. CASE ~EveryBlock(p) /\ ~Distributes(p)
    BY <2>3, <1>2, Zenon DEF CommitState
  <2> QED
    BY <2>1, <2>2, <2>3, Zenon
<1>6. paid \in Seq(SUBSET Nat) /\ Len(paid) = evmBlock
  BY Zenon DEF LedgerInv, TypeOK, SequencesOK
<1>7. due \subseteq Nat /\ Unpaid = 1..evmBlock \ all
  BY <1>2 DEF Unpaid
<1>8. UNION {paid'[i] : i \in 1..Len(paid')} = all \cup due
  <2> HIDE DEF due
  <2>1. Len(paid') = Len(paid) + 1 /\ paid'[Len(paid) + 1] = due
        /\ \A i \in 1..Len(paid) : paid'[i] = paid[i]
    BY <1>5, <1>6, <1>7
  <2>2. 1..Len(paid') = 1..Len(paid) \cup {Len(paid) + 1}
    BY <2>1, <1>6, <1>2
  <2> QED
    BY <2>1, <2>2, Zenon
<1>9. Unpaid' = 1..p \ (all \cup due)
  BY <1>8, Zenon DEF Unpaid, CommitState
<1>10. Unpaid' = IF Distributes(p) THEN {} ELSE Unpaid \cup {p}
  <2>1. 1..p = 1..evmBlock \cup {p} /\ p \notin 1..evmBlock
    BY <1>2
  <2>2. p \notin all
    BY <1>2, <1>6 DEF LedgerInv, RewardsCarried
  <2> QED
    BY <1>7, <1>9, <2>1, <2>2, Zenon
<1> QED
  BY <1>2, <1>4, <1>5, <1>10, Zenon

-----------------------------------------------------------------------------
\* Init establishes the invariant.
LEMMA InitImpliesLedgerInv == Init => LedgerInv
<1> SUFFICES ASSUME Init PROVE LedgerInv
  BY Zenon
<1> USE DEF Init
<1>1. TypeOK
  <2>1. DOMAIN lambdaRows \subseteq Periods
    BY DEF Periods
  <2>2. chain \in Seq(PbftBlocks) /\ Len(chain) = 0 /\ Len(used) = 0 /\ Len(paid) = 0 /\ Len(queue) = 0
    OBVIOUS
  <2>3. executedRow \in BOOLEAN /\ executedFlag \in BOOLEAN
    BY Zenon
  <2>4. lastNumber \in 0..MaxPeriod /\ crashes \in 0..MaxCrashes /\ Size <= MaxPeriod
    BY <2>2, LedgerAssumption DEF Size
  <2>5. \A i \in 1..Len(queue) : queue[i].period \in Periods
    BY <2>2
  <2> QED
    BY <2>1, <2>2, <2>3, <2>4, <2>5, Zenon DEF TypeOK
<1>2. SequencesOK
  BY DEF SequencesOK, IsSeq
<1>3. ThreadsAgree /\ QueueIsContiguous /\ DatabasesAgree /\ EligibilityKnown
  BY LedgerAssumption DEF ThreadsAgree, QueueIsContiguous, DatabasesAgree, EligibilityKnown, Size, Posted, Alive
<1>4. Unpaid = {}
  BY DEF Unpaid
<1>5. RewardsCarried
  BY <1>4 DEF RewardsCarried, Carried
<1> QED
  BY <1>1, <1>2, <1>3, <1>5, Zenon DEF LedgerInv

-----------------------------------------------------------------------------
(* The PBFT thread: a push changes neither the statistics nor the state.   *)

\* What the statistics hold is about the executor and the two databases only.
LEMMA RewardsFrame ==
  ASSUME LedgerInv, UNCHANGED <<statRows, evmBlock, paid, node, executor, stats>>
  PROVE  RewardsCarried'
<1>1. Unpaid' = Unpaid /\ RecoveredRows' = RecoveredRows
  BY Zenon DEF Unpaid, RecoveredRows, Clears, EveryBlock, Distributes
<1> QED
  BY <1>1, Zenon DEF LedgerInv, RewardsCarried, Carried, Waits, Clears, EveryBlock, Distributes, Alive

LEMMA CommitBlockKeeps ==
  ASSUME LedgerInv, NEW b \in PbftBlocks, CommitBlock(b)
  PROVE  LedgerInv'
<1>1. chain \in Seq(PbftBlocks) /\ Size = Len(chain) /\ node = "running" /\ pc = "idle"
      /\ chain' = Append(chain, b) /\ pc' = "lambda" /\ Size < MaxPeriod
  BY Zenon DEF LedgerInv, TypeOK, CommitBlock, Size
<1>2. UNCHANGED <<lambdaRows, executedRow, statRows, lastNumber, sysRows, evmBlock, used, paid, node,
                  executor, queue, lastBlock, stats, executedFlag, lost, crashes>>
  BY Zenon DEF CommitBlock, execDb, evm, execMem, history
<1>3. chain' \in Seq(PbftBlocks) /\ Size' = Size + 1 /\ Size \in Nat
  BY <1>1 DEF Size
<1>4. TypeOK'
  <2>1. Size' <= MaxPeriod /\ pc' \in {"idle", "lambda", "finalize", "advance"}
    BY <1>1, <1>3, LedgerAssumption
  <2> QED
    BY <1>2, <1>3, <2>1, Zenon DEF LedgerInv, TypeOK, Periods
<1>5. SequencesOK'
  BY <1>2, Zenon DEF LedgerInv, SequencesOK, IsSeq
<1>6. ThreadsAgree' /\ EligibilityKnown' /\ DatabasesAgree'
  BY <1>1, <1>2, Zenon DEF LedgerInv, ThreadsAgree, DatabasesAgree, EligibilityKnown, Alive
<1>7. QueueIsContiguous'
  <2>1. evmBlock \in Nat /\ lastBlock \in Nat
    BY DEF LedgerInv, TypeOK
  <2> QED
    BY <1>1, <1>2, <1>3, <2>1 DEF LedgerInv, QueueIsContiguous, Posted, Alive
<1>8. RewardsCarried'
  BY <1>2, RewardsFrame, Zenon
<1> QED
  BY <1>4, <1>5, <1>6, <1>7, <1>8, Zenon DEF LedgerInv

LEMMA CommitLambdaKeeps ==
  ASSUME LedgerInv, CommitLambda
  PROVE  LedgerInv'
<1>1. node = "running" /\ pc = "lambda" /\ pc' = "finalize"
  BY Zenon DEF CommitLambda
<1>2. UNCHANGED <<chain, executedRow, statRows, lastNumber, sysRows, evmBlock, used, paid, node,
                  executor, lastBlock, stats, executedFlag, lost, crashes>>
  BY Zenon DEF CommitLambda, execDb, evm, execMem, history
<1>3. PICK l : queue' = Append(queue, [period |-> Size, lambda |-> l])
  BY Zenon DEF CommitLambda
<1>4. /\ IsSeq(queue') /\ Len(queue') = Len(queue) + 1 /\ Len(queue) \in Nat
      /\ \A i \in 1..Len(queue) : queue'[i] = queue[i]
      /\ queue'[Len(queue) + 1].period = Size
  <2>1. IsSeq(queue)
    BY Zenon DEF LedgerInv, SequencesOK
  <2> QED
    BY <1>3, <2>1, AppendToAny
<1>5. /\ Size \in Nat /\ Size <= MaxPeriod /\ Size' = Size /\ evmBlock \in Nat /\ lastBlock \in Nat
      /\ Len(queue) = Size - 1 - lastBlock
  BY <1>1, <1>2 DEF LedgerInv, TypeOK, Size, QueueIsContiguous, Posted, Alive
<1>6. QueueIsContiguous'
  <2>1. \A i \in 1..Len(queue') : queue'[i].period = lastBlock + i
    <3> SUFFICES ASSUME NEW i \in 1..Len(queue') PROVE queue'[i].period = lastBlock + i
      BY Zenon
    <3>1. CASE i \in 1..Len(queue)
      BY <3>1, <1>4, Zenon DEF LedgerInv, QueueIsContiguous
    <3>2. CASE i = Len(queue) + 1
      BY <3>2, <1>4, <1>5
    <3> QED
      BY <3>1, <3>2, <1>4
  <2> QED
    BY <1>1, <1>2, <1>4, <1>5, <2>1 DEF LedgerInv, QueueIsContiguous, Posted, Alive
<1>7. TypeOK'
  <2>1. DOMAIN lambdaRows' \subseteq Periods
    <3>1. \A x : DOMAIN WithRow(Size, x) = DOMAIN lambdaRows \cup {Size}
      BY Zenon DEF WithRow
    <3>2. Size \in Periods
      BY <1>4, <1>5, LedgerAssumption DEF Periods
    <3> QED
      BY <3>1, <3>2, Zenon DEF CommitLambda, savePeriodLambda, LedgerInv, TypeOK
  <2>2. \A i \in 1..Len(queue') : queue'[i].period \in Periods
    BY <1>2, <1>4, <1>5, <1>6, LedgerAssumption DEF QueueIsContiguous, Periods
  <2> QED
    BY <1>1, <1>2, <1>5, <2>1, <2>2, Zenon DEF LedgerInv, TypeOK, Periods
<1>8. SequencesOK'
  BY <1>2, <1>4, Zenon DEF LedgerInv, SequencesOK, IsSeq
<1>9. ThreadsAgree' /\ EligibilityKnown' /\ DatabasesAgree'
  <2>1. queue' # <<>>
    BY <1>4
  <2> QED
    BY <1>1, <1>2, <2>1, Zenon DEF LedgerInv, ThreadsAgree, DatabasesAgree, EligibilityKnown, Alive
<1>10. RewardsCarried'
  BY <1>2, RewardsFrame, Zenon
<1> QED
  BY <1>6, <1>7, <1>8, <1>9, <1>10, Zenon DEF LedgerInv

\* The steps of the PBFT thread that only move on and set the status flag.
LEMMA StatusKeeps ==
  ASSUME LedgerInv, SaveExecutedStatus \/ AdvancePeriod \/ AdvanceRound
  PROVE  LedgerInv'
<1>1. UNCHANGED <<chain, lambdaRows, statRows, lastNumber, sysRows, evmBlock, used, paid, node,
                  executor, queue, lastBlock, stats, lost, crashes>>
  BY Zenon DEF SaveExecutedStatus, AdvancePeriod, AdvanceRound, execDb, evm, execMem, history
<1>2. /\ node = "running" /\ pc # "lambda" /\ pc' \in {"idle", "advance"}
      /\ executedFlag' \in BOOLEAN /\ executedRow' \in BOOLEAN
      /\ pc' = "advance" => executedFlag'
  BY Zenon DEF SaveExecutedStatus, AdvancePeriod, AdvanceRound, LedgerInv, ThreadsAgree
<1>3. Size' = Size /\ Size \in Nat /\ lastBlock \in Nat /\ evmBlock \in Nat
  BY <1>1 DEF LedgerInv, TypeOK, Size
<1>4. TypeOK'
  BY <1>1, <1>2, <1>3, Zenon DEF LedgerInv, TypeOK, Periods
<1>5. SequencesOK' /\ ThreadsAgree' /\ DatabasesAgree'
  BY <1>1, <1>2, Zenon DEF LedgerInv, SequencesOK, IsSeq, ThreadsAgree, DatabasesAgree, Alive
<1>6. QueueIsContiguous'
  BY <1>1, <1>2, <1>3, Zenon DEF LedgerInv, QueueIsContiguous, Posted, Alive
<1>7. EligibilityKnown'
  <2>1. CASE SaveExecutedStatus
    BY <2>1, Zenon DEF SaveExecutedStatus, EligibilityKnown
  <2>2. CASE AdvancePeriod
    <3>1. waitForPeriodFinalization
      BY <2>2, Zenon DEF AdvancePeriod, LedgerInv, ThreadsAgree
    <3> QED
      BY <3>1, <1>1, <1>3, Zenon DEF EligibilityKnown, waitForPeriodFinalization
  <2>3. CASE AdvanceRound
    BY <2>3, <1>1, <1>3, Zenon DEF AdvanceRound, EligibilityKnown, waitForPeriodFinalization
  <2> QED
    BY <2>1, <2>2, <2>3, Zenon
<1>8. RewardsCarried'
  BY <1>1, RewardsFrame, Zenon
<1> QED
  BY <1>4, <1>5, <1>6, <1>7, <1>8, Zenon DEF LedgerInv

-----------------------------------------------------------------------------
(* The executor thread.                                                    *)

LEMMA CommitFinalChainKeeps ==
  ASSUME LedgerInv, CommitFinalChain
  PROVE  LedgerInv'
<1> DEFINE p == evmBlock + 1
<1>1. /\ Alive /\ queue # <<>> /\ executor = "idle" /\ executor' = "committed"
      /\ lastNumber' = lastBlock + 1
  BY Zenon DEF CommitFinalChain, Executing, Alive, appendBlock
<1>2. UNCHANGED <<chain, lambdaRows, evmBlock, used, paid, node, pc, queue, lastBlock, executedRow,
                  executedFlag, lost, crashes>>
  BY Zenon DEF CommitFinalChain, pushDb, evm, pushMem, history
<1>3. /\ Task.period = p /\ p <= Size /\ Size \in Nat /\ Size <= MaxPeriod
      /\ evmBlock \in Nat /\ lastBlock = evmBlock /\ lastNumber = evmBlock
  BY <1>1, TaskIsNext, Zenon DEF LedgerInv, DatabasesAgree
<1>4. p \in Periods
  BY <1>3, LedgerAssumption DEF Periods
<1>5. /\ stats' = (IF EveryBlock(p) THEN stats ELSE stats \cup {p})
      /\ statRows' = (IF EveryBlock(p) \/ Distributes(p) THEN statRows ELSE statRows \cup {p})
      /\ sysRows' = sysRows \cup ({p} \cap SystemPeriods)
  BY <1>3, Zenon DEF CommitFinalChain
<1>6. TypeOK'
  <2>1. stats' \subseteq Periods /\ statRows' \subseteq Periods /\ sysRows' \subseteq Periods
    BY <1>4, <1>5, Zenon DEF LedgerInv, TypeOK
  <2>2. lastNumber' \in 0..MaxPeriod
    BY <1>1, <1>3, LedgerAssumption
  <2>3. Size' = Size
    BY <1>2, Zenon DEF Size
  <2> QED
    BY <1>1, <1>2, <2>1, <2>2, <2>3, Zenon DEF LedgerInv, TypeOK, Periods
<1>7. SequencesOK' /\ ThreadsAgree' /\ EligibilityKnown'
  BY <1>1, <1>2, Zenon DEF LedgerInv, SequencesOK, IsSeq, ThreadsAgree, EligibilityKnown, Size, Alive
<1>8. QueueIsContiguous'
  BY <1>2, Zenon DEF LedgerInv, QueueIsContiguous, Posted, Alive, Size
<1>9. DatabasesAgree'
  BY <1>1, <1>2, <1>3 DEF DatabasesAgree, Alive
<1>10. RewardsCarried'
  <2>1. Unpaid' = Unpaid
    BY <1>2, UnpaidUnchanged, Zenon
  <2>2. Carried(stats) /\ Carried(statRows)
    BY <1>1, Zenon DEF LedgerInv, RewardsCarried
  <2>3. /\ stats' = IF EveryBlock(p) THEN Unpaid ELSE Unpaid \cup {p}
        /\ statRows' = IF Waits(p) THEN Unpaid \cup {p} ELSE Unpaid
    BY <1>5, <2>2, Zenon DEF Carried, Waits
  <2>4. node' # "down"
    BY <1>1, <1>2, Zenon DEF Alive
  <2> QED
    BY <1>1, <1>2, <2>1, <2>3, <2>4, Zenon DEF LedgerInv, RewardsCarried, Waits, EveryBlock, Distributes
<1> QED
  BY <1>6, <1>7, <1>8, <1>9, <1>10, Zenon DEF LedgerInv

LEMMA CommitStateKeeps ==
  ASSUME LedgerInv, CommitState
  PROVE  LedgerInv'
<1> DEFINE p == evmBlock + 1
<1>1. /\ Alive /\ queue # <<>> /\ executor = "committed" /\ executor' = "stateCommitted"
      /\ evmBlock' = p /\ used' = Append(used, Task.lambda)
  BY Zenon DEF CommitState, Executing, Alive
<1>2. UNCHANGED <<chain, lambdaRows, statRows, lastNumber, sysRows, node, pc, queue, lastBlock, stats,
                  executedRow, executedFlag, lost, crashes>>
  BY Zenon DEF CommitState, pushDb, execDb, execMem, pushMem, history
<1>3. /\ Task.period = p /\ p <= Size /\ Size \in Nat /\ Size <= MaxPeriod /\ Size' = Size
      /\ evmBlock \in Nat /\ lastBlock = evmBlock /\ lastNumber = evmBlock + 1
  BY <1>1, <1>2, TaskIsNext, Zenon DEF LedgerInv, DatabasesAgree, Size
<1> DEFINE due == IF Distributes(p) THEN Unpaid \cup {p} ELSE {}
<1>4. paid' = Append(paid, due) /\ Unpaid' = IF Distributes(p) THEN {} ELSE Unpaid \cup {p}
  BY RewardsOfBlock, Zenon
<1>5. due \subseteq 1..p /\ paid \in Seq(SUBSET Nat) /\ Len(paid) = evmBlock
  BY <1>3 DEF Unpaid, LedgerInv, TypeOK, SequencesOK
<1>6. /\ paid' \in Seq(SUBSET Nat) /\ Len(paid') = p /\ paid'[p] = due
      /\ \A i \in 1..Len(paid) : paid'[i] = paid[i]
  <2> HIDE DEF due
  <2> QED
    BY <1>3, <1>4, <1>5
<1>7. IsSeq(used') /\ Len(used') = p
  BY <1>1, AppendToAny, Zenon DEF LedgerInv, SequencesOK, TypeOK
<1>8. TypeOK'
  <2>1. evmBlock' \in 0..MaxPeriod
    BY <1>1, <1>3, LedgerAssumption
  <2> QED
    BY <1>1, <1>2, <1>3, <1>6, <1>7, <2>1, Zenon DEF LedgerInv, TypeOK, Periods
<1>9. SequencesOK' /\ ThreadsAgree' /\ EligibilityKnown'
  BY <1>1, <1>2, <1>6, <1>7, Zenon DEF LedgerInv, SequencesOK, IsSeq, ThreadsAgree, EligibilityKnown, Size, Alive
<1>10. QueueIsContiguous'
  BY <1>1, <1>2, <1>3, Zenon DEF LedgerInv, QueueIsContiguous, Posted, Alive
<1>11. DatabasesAgree'
  BY <1>1, <1>2, <1>3, Zenon DEF DatabasesAgree, Alive
<1>12. RewardsCarried'
  <2>1. \A i \in 1..Len(paid') : paid'[i] \subseteq 1..i
    <3> HIDE DEF due
    <3> SUFFICES ASSUME NEW i \in 1..Len(paid') PROVE paid'[i] \subseteq 1..i
      BY Zenon
    <3>1. CASE i = p
      BY <3>1, <1>5, <1>6, Zenon
    <3>2. CASE i \in 1..Len(paid)
      BY <3>2, <1>6, Zenon DEF LedgerInv, RewardsCarried
    <3> QED
      BY <3>1, <3>2, <1>3, <1>5, <1>6
  <2>2. /\ stats = IF EveryBlock(p) THEN Unpaid ELSE Unpaid \cup {p}
        /\ statRows = IF Waits(p) THEN Unpaid \cup {p} ELSE Unpaid
    BY <1>1, Zenon DEF LedgerInv, RewardsCarried
  <2>3. EveryBlock(p) => Distributes(p)
    BY <1>3, EveryBlockDistributes
  <2>4. ASSUME ~Clears(p) PROVE stats = Unpaid' /\ statRows = Unpaid'
    <3>1. CASE EveryBlock(p)
      <4>1. Unpaid = {}
        BY <3>1, RewardsOfBlock, Zenon
      <4> QED
        BY <3>1, <4>1, <2>2, <2>3, <1>4, Zenon DEF Waits
    <3>2. CASE ~EveryBlock(p)
      BY <3>2, <2>2, <2>4, <1>4, Zenon DEF Waits, Clears
    <3> QED
      BY <3>1, <3>2, Zenon
  <2>5. node' # "down" /\ executor' = "stateCommitted" /\ evmBlock' = p
    BY <1>1, <1>2, Zenon DEF Alive
  <2>6. Distributes(evmBlock') => Unpaid' = {}
    BY <1>4, <2>5, Zenon
  <2> QED
    BY <1>2, <2>1, <2>4, <2>5, <2>6, Zenon DEF RewardsCarried
<1> QED
  BY <1>8, <1>9, <1>10, <1>11, <1>12, Zenon DEF LedgerInv

LEMMA FinishBlockKeeps ==
  ASSUME LedgerInv, FinishBlock
  PROVE  LedgerInv'
<1>1. /\ Alive /\ queue # <<>> /\ executor = "stateCommitted" /\ executor' = "idle"
      /\ lastBlock' = lastBlock + 1 /\ queue' = Tail(queue)
  BY Zenon DEF FinishBlock, Executing, Alive, appendBlock
<1>2. UNCHANGED <<chain, lambdaRows, lastNumber, sysRows, evmBlock, used, paid, node, pc, executedRow,
                  executedFlag, lost, crashes>>
  BY Zenon DEF FinishBlock, pushDb, evm, pushMem, history
<1>3. /\ Task.period = evmBlock /\ evmBlock <= Size /\ Size \in Nat /\ Size <= MaxPeriod /\ Size' = Size
      /\ evmBlock \in Nat /\ lastBlock \in Nat /\ lastBlock + 1 = evmBlock /\ lastNumber = evmBlock
  BY <1>1, <1>2, TaskIsNext, Zenon DEF LedgerInv, DatabasesAgree, Size
<1>4. /\ stats' = (IF Clears(evmBlock) THEN {} ELSE stats)
      /\ statRows' = (IF Clears(evmBlock) THEN {} ELSE statRows)
  BY <1>3, Zenon DEF FinishBlock
<1>5. /\ IsSeq(queue') /\ Len(queue') = Len(queue) - 1 /\ Len(queue) \in Nat \ {0}
      /\ \A i \in 1..Len(queue) - 1 : queue'[i] = queue[i + 1]
  BY <1>1, TailOfAny DEF LedgerInv, SequencesOK
<1>6. QueueIsContiguous'
  <2>1. \A i \in 1..Len(queue') : queue'[i].period = lastBlock' + i
    BY <1>1, <1>3, <1>5 DEF LedgerInv, QueueIsContiguous
  <2> QED
    BY <1>1, <1>2, <1>3, <1>5, <2>1 DEF LedgerInv, QueueIsContiguous, Posted, Alive
<1>7. TypeOK'
  <2>1. stats' \subseteq Periods /\ statRows' \subseteq Periods
    BY <1>4, Zenon DEF LedgerInv, TypeOK
  <2>2. ASSUME NEW i \in 1..Len(queue') PROVE queue'[i].period \in Periods
    <3>1. queue'[i] = queue[i + 1] /\ i + 1 \in 1..Len(queue)
      BY <1>5
    <3> QED
      BY <3>1, Zenon DEF LedgerInv, TypeOK
  <2>3. lastBlock' \in 0..MaxPeriod
    BY <1>1, <1>3, LedgerAssumption
  <2> QED
    BY <1>1, <1>2, <1>3, <2>1, <2>2, <2>3, Zenon DEF LedgerInv, TypeOK, Periods
<1>8. SequencesOK' /\ ThreadsAgree'
  BY <1>1, <1>2, <1>5, Zenon DEF LedgerInv, SequencesOK, IsSeq, ThreadsAgree, Alive
<1>9. EligibilityKnown'
  BY <1>1, <1>2, <1>3, LedgerAssumption DEF LedgerInv, EligibilityKnown
<1>10. DatabasesAgree'
  BY <1>1, <1>2, <1>3 DEF DatabasesAgree, Alive
<1>11. RewardsCarried'
  <2>1. Unpaid' = Unpaid /\ (\A rows : Carried(rows)' <=> Carried(rows))
    BY <1>2, UnpaidUnchanged, Zenon
  <2>2. stats' = Unpaid /\ statRows' = Unpaid
    BY <1>1, <1>3, <1>4 DEF LedgerInv, RewardsCarried, Clears
  <2>3. Carried(stats)' /\ Carried(statRows)'
    BY <2>1, <2>2, Zenon DEF Carried
  <2>4. node' # "down" /\ executor' = "idle"
    BY <1>1, <1>2, Zenon DEF Alive
  <2> QED
    BY <1>2, <2>1, <2>3, <2>4 DEF LedgerInv, RewardsCarried
<1> QED
  BY <1>6, <1>7, <1>8, <1>9, <1>10, <1>11, Zenon DEF LedgerInv

-----------------------------------------------------------------------------
(* Crash and restart.                                                      *)

\* Whatever was being executed, the statistics that the constructor will restore are
\* those of the unpaid periods.
LEMMA CrashKeeps ==
  ASSUME LedgerInv, Crash
  PROVE  LedgerInv'
<1>1. /\ Alive /\ node' = "down" /\ pc' = "idle" /\ executor' = "idle" /\ queue' = <<>>
      /\ lastBlock' = 0 /\ stats' = {} /\ crashes' = crashes + 1 /\ crashes < MaxCrashes
      /\ executedFlag' = FALSE
      /\ lost' = (IF pc = "lambda" /\ isOnCactiHardfork(Size) THEN lost \cup {Size} ELSE lost)
  BY Zenon DEF Crash, Alive
<1>2. UNCHANGED <<chain, lambdaRows, executedRow, statRows, lastNumber, sysRows, evmBlock, used, paid>>
  BY Zenon DEF Crash, pushDb, execDb, evm
<1>3. Size' = Size /\ Size \in Nat /\ Size <= MaxPeriod /\ evmBlock \in Nat
  BY <1>2 DEF LedgerInv, TypeOK, Size
<1>4. TypeOK'
  <2>1. lost' \subseteq Periods
    <3>1. pc = "lambda" => Size \in Periods
      <4>1. Len(queue) \in Nat /\ lastBlock \in Nat
        BY AppendToAny DEF LedgerInv, SequencesOK, TypeOK
      <4> QED
        BY <1>1, <1>3, <4>1, LedgerAssumption DEF LedgerInv, QueueIsContiguous, Posted, Periods
    <3> QED
      BY <1>1, <3>1, Zenon DEF LedgerInv, TypeOK
  <2>2. crashes' \in 0..MaxCrashes /\ lastBlock' \in 0..MaxPeriod
    BY <1>1, LedgerAssumption DEF LedgerInv, TypeOK
  <2>3. \A i \in 1..Len(queue') : queue'[i].period \in Periods
    BY <1>1
  <2>4. executedFlag' \in BOOLEAN
    BY <1>1, Zenon
  <2> QED
    BY <1>1, <1>2, <1>3, <2>1, <2>2, <2>3, <2>4, Zenon DEF LedgerInv, TypeOK, Periods
<1>5. SequencesOK'
  <2>1. IsSeq(queue')
    BY <1>1 DEF IsSeq
  <2> QED
    BY <1>2, <2>1, Zenon DEF LedgerInv, SequencesOK, IsSeq
<1>6. ThreadsAgree' /\ EligibilityKnown'
  BY <1>1, Zenon DEF ThreadsAgree, EligibilityKnown, Alive
<1>7. QueueIsContiguous'
  BY <1>1, <1>2, <1>3 DEF LedgerInv, QueueIsContiguous, Alive
<1>8. DatabasesAgree'
  <2>1. executor \in {"idle", "committed", "stateCommitted"}
    BY Zenon DEF LedgerInv, TypeOK
  <2> QED
    BY <1>1, <1>2, <2>1, Zenon DEF LedgerInv, DatabasesAgree, Alive
<1>9. RewardsCarried'
  <2>1. Unpaid' = Unpaid /\ RecoveredRows' = RecoveredRows /\ (\A rows : Carried(rows)' <=> Carried(rows))
    BY <1>2, UnpaidUnchanged, Zenon DEF RecoveredRows, Clears, EveryBlock, Distributes
  <2>2. Carried(RecoveredRows)
    <3>1. CASE evmBlock > 0 /\ Clears(evmBlock)
      BY <3>1, Zenon DEF LedgerInv, RewardsCarried, RecoveredRows, Carried, Clears
    <3>2. CASE ~(evmBlock > 0 /\ Clears(evmBlock))
      <4>1. RecoveredRows = statRows
        BY <3>2, Zenon DEF RecoveredRows
      <4>2. CASE executor = "idle"
        BY <1>1, <4>1, <4>2 DEF LedgerInv, RewardsCarried
      <4>3. CASE executor = "committed"
        BY <1>1, <4>1, <4>3 DEF LedgerInv, RewardsCarried, Carried
      <4>4. CASE executor = "stateCommitted"
        <5>1. evmBlock > 0
          BY <1>1, <1>3, <4>4 DEF LedgerInv, DatabasesAgree, TypeOK
        <5> QED
          BY <1>1, <3>2, <4>1, <4>4, <5>1, Zenon DEF LedgerInv, RewardsCarried, Carried
      <4> QED
        BY <4>2, <4>3, <4>4, Zenon DEF LedgerInv, TypeOK
    <3> QED
      BY <3>1, <3>2, Zenon
  <2> QED
    BY <1>1, <1>2, <2>1, <2>2 DEF LedgerInv, RewardsCarried, Alive
<1> QED
  BY <1>4, <1>5, <1>6, <1>7, <1>8, <1>9, Zenon DEF LedgerInv

LEMMA RestartKeeps ==
  ASSUME LedgerInv, Restart
  PROVE  LedgerInv'
<1>1. /\ node = "down" /\ statRows' = RecoveredRows /\ stats' = RecoveredRows
      /\ lastNumber' = evmBlock /\ lastBlock' = evmBlock
      /\ \/ node' = "halted" /\ queue' = queue
         \/ node' = "replaying" /\ queue' = Replay
  BY Zenon DEF Restart, RecoveredNumber
<1>2. UNCHANGED <<chain, lambdaRows, executedRow, sysRows, evmBlock, used, paid, pc, executor,
                  executedFlag, lost, crashes>>
  BY Zenon DEF Restart, pushDb, evm, history
<1>3. pc = "idle" /\ executor = "idle" /\ queue = <<>>
  BY <1>1, Zenon DEF LedgerInv, ThreadsAgree, Alive
<1>4. Size' = Size /\ Size \in Nat /\ Size <= MaxPeriod /\ evmBlock \in Nat /\ evmBlock <= Size
  BY <1>2 DEF LedgerInv, TypeOK, Size, QueueIsContiguous
<1>5. /\ IsSeq(Replay) /\ Len(Replay) = Size - evmBlock
      /\ \A i \in 1..Size - evmBlock : Replay[i].period = evmBlock + i
  <2> DEFINE n == Size - evmBlock
  <2>1. n \in Nat /\ Replay = [i \in 1..n |-> ReplayTask(evmBlock + i)]
    BY <1>4 DEF Replay, RecoveredNumber
  <2> HIDE DEF n
  <2>2. Replay \in Seq({ReplayTask(evmBlock + i) : i \in 1..n}) /\ Len(Replay) = n
    BY <2>1
  <2>3. \A i \in 1..n : Replay[i].period = evmBlock + i
    BY <2>1, Zenon DEF ReplayTask
  <2> QED
    BY <2>2, <2>3, SeqOfElements, Zenon DEF n
<1>6. IsSeq(queue') /\ Len(queue') \in Nat /\ \A i \in 1..Len(queue') : queue'[i].period = evmBlock + i
  <2>1. CASE queue' = queue
    BY <1>3, <2>1 DEF IsSeq
  <2>2. CASE queue' = Replay
    BY <1>4, <1>5, <2>2
  <2> QED
    BY <1>1, <2>1, <2>2, Zenon
<1>7. Alive' => Len(queue') = Size - evmBlock
  BY <1>1, <1>5, Zenon DEF Alive
<1>8. RecoveredRows \subseteq Periods
  BY Zenon DEF LedgerInv, TypeOK, RecoveredRows
<1>9. TypeOK'
  <2>1. \A i \in 1..Len(queue') : queue'[i].period \in Periods
    <3>1. CASE queue' = queue
      BY <1>3, <3>1
    <3>2. CASE queue' = Replay
      BY <1>4, <1>5, <3>2, LedgerAssumption DEF Periods
    <3> QED
      BY <1>1, <3>1, <3>2, Zenon
  <2>2. node' \in {"down", "replaying", "running", "halted"}
    BY <1>1, Zenon
  <2> QED
    BY <1>1, <1>2, <1>4, <1>8, <2>1, <2>2, Zenon DEF LedgerInv, TypeOK, Periods
<1>10. SequencesOK' /\ EligibilityKnown'
  BY <1>1, <1>2, <1>6 DEF LedgerInv, SequencesOK, IsSeq, EligibilityKnown
<1>11. ThreadsAgree' /\ DatabasesAgree'
  BY <1>1, <1>2, <1>3 DEF LedgerInv, ThreadsAgree, DatabasesAgree, Alive
<1>12. QueueIsContiguous'
  BY <1>1, <1>2, <1>3, <1>4, <1>6, <1>7, Zenon DEF QueueIsContiguous, Posted
<1>13. RewardsCarried'
  <2>1. Unpaid' = Unpaid /\ (\A rows : Carried(rows)' <=> Carried(rows))
    BY <1>2, UnpaidUnchanged, Zenon
  <2>2. Carried(stats)' /\ Carried(statRows)'
    BY <1>1, <2>1, Zenon DEF LedgerInv, RewardsCarried
  <2> QED
    BY <1>1, <1>2, <1>3, <2>1, <2>2, Zenon DEF LedgerInv, RewardsCarried
<1> QED
  BY <1>9, <1>10, <1>11, <1>12, <1>13, Zenon DEF LedgerInv

LEMMA RestartDoneKeeps ==
  ASSUME LedgerInv, RestartDone
  PROVE  LedgerInv'
<1>1. node = "replaying" /\ queue = <<>> /\ node' = "running" /\ executedFlag' = executedRow
  BY Zenon DEF RestartDone
<1>2. UNCHANGED <<chain, lambdaRows, executedRow, statRows, lastNumber, sysRows, evmBlock, used, paid, pc,
                  executor, queue, lastBlock, stats, lost, crashes>>
  BY Zenon DEF RestartDone, pushDb, execDb, evm, execMem, history
<1>3. pc = "idle" /\ executor = "idle"
  BY <1>1 DEF LedgerInv, ThreadsAgree, TypeOK
<1>4. Size' = Size /\ Size \in Nat /\ lastBlock \in Nat
  <2>1. Size' = Size
    BY <1>2, Zenon DEF Size
  <2>2. Size \in Nat /\ lastBlock \in Nat
    BY DEF LedgerInv, TypeOK, Size
  <2> QED
    BY <2>1, <2>2, Zenon
<1>5. TypeOK'
  BY <1>1, <1>2, <1>4, Zenon DEF LedgerInv, TypeOK, Periods
<1>6. SequencesOK' /\ ThreadsAgree' /\ DatabasesAgree' /\ QueueIsContiguous'
  BY <1>1, <1>2, <1>3, <1>4, Zenon
  DEF LedgerInv, SequencesOK, IsSeq, ThreadsAgree, DatabasesAgree, QueueIsContiguous, Posted, Alive
<1>7. EligibilityKnown'
  <2>1. lastBlock = Size
    BY <1>1, <1>3, <1>4 DEF LedgerInv, QueueIsContiguous, Posted, Alive
  <2> QED
    BY <1>2, <1>4, <2>1, LedgerAssumption DEF EligibilityKnown
<1>8. RewardsCarried'
  <2>1. Unpaid' = Unpaid /\ (\A rows : Carried(rows)' <=> Carried(rows))
    BY <1>2, UnpaidUnchanged, Zenon
  <2>2. Carried(stats)' /\ Carried(statRows)'
    BY <1>1, <1>2, <1>3, <2>1 DEF LedgerInv, RewardsCarried, Alive
  <2> QED
    BY <1>1, <1>2, <1>3, <2>1, <2>2, Zenon DEF LedgerInv, RewardsCarried
<1> QED
  BY <1>5, <1>6, <1>7, <1>8, Zenon DEF LedgerInv

-----------------------------------------------------------------------------
LEMMA NextKeepsLedgerInv ==
  ASSUME LedgerInv, [Next]_vars
  PROVE  LedgerInv'
<1>1. CASE \E b \in PbftBlocks : CommitBlock(b)
  BY <1>1, CommitBlockKeeps, Zenon
<1>2. CASE CommitLambda
  BY <1>2, CommitLambdaKeeps, Zenon
<1>3. CASE SaveExecutedStatus \/ AdvancePeriod \/ AdvanceRound
  BY <1>3, StatusKeeps, Zenon
<1>4. CASE CommitFinalChain
  BY <1>4, CommitFinalChainKeeps, Zenon
<1>5. CASE CommitState
  BY <1>5, CommitStateKeeps, Zenon
<1>6. CASE FinishBlock
  BY <1>6, FinishBlockKeeps, Zenon
<1>7. CASE Crash
  BY <1>7, CrashKeeps, Zenon
<1>8. CASE Restart
  BY <1>8, RestartKeeps, Zenon
<1>9. CASE RestartDone
  BY <1>9, RestartDoneKeeps, Zenon
<1>10. CASE UNCHANGED vars
  <2>1. UNCHANGED <<chain, lambdaRows, executedRow, statRows, lastNumber, sysRows, evmBlock, used, paid,
                    node, pc, executor, queue, lastBlock, stats, executedFlag, lost, crashes>>
    BY <1>10, Zenon DEF vars, pushDb, execDb, evm, execMem, pushMem, history
  <2>2. Size' = Size
    BY <2>1, Zenon DEF Size
  <2>3. TypeOK'
    BY <2>1, <2>2, Zenon DEF LedgerInv, TypeOK, Periods
  <2>4. SequencesOK' /\ ThreadsAgree' /\ DatabasesAgree' /\ EligibilityKnown'
    BY <2>1, <2>2
    DEF LedgerInv, SequencesOK, IsSeq, ThreadsAgree, DatabasesAgree, EligibilityKnown, Alive
  <2>5. QueueIsContiguous'
    BY <2>1, <2>2, Zenon DEF LedgerInv, QueueIsContiguous, Posted, Alive
  <2>6. RewardsCarried'
    BY <2>1, RewardsFrame, Zenon
  <2> QED
    BY <2>3, <2>4, <2>5, <2>6, Zenon DEF LedgerInv
<1> QED
  BY <1>1, <1>2, <1>3, <1>4, <1>5, <1>6, <1>7, <1>8, <1>9, <1>10, Zenon
  DEF Next, Push, Finalize, Recover

\* Through every crash the two threads and the two databases of the node stay in the
\* relation that LedgerInv describes (pushPbftBlock_, finalize_ and the constructors).
THEOREM LedgerInvariant == Spec => []LedgerInv
BY InitImpliesLedgerInv, NextKeepsLedgerInv, PTL DEF Spec

\* The state database is never ahead of the final chain and at most one block behind
\* it, so that the constructor of FinalChain undoes at most one block.
THEOREM AtMostOneBehindHolds == Spec => []AtMostOneBehind
<1>1. LedgerInv => AtMostOneBehind
  BY Zenon DEF LedgerInv, DatabasesAgree, TypeOK, AtMostOneBehind, Alive
<1> QED
  BY <1>1, LedgerInvariant, PTL

\* A node that votes has executed every block that is more than DelegationDelay behind,
\* so that the eligibility of the voters is known (waitForPeriodFinalization).
THEOREM EligibilityKnownHolds == Spec => []EligibilityKnown
<1>1. LedgerInv => EligibilityKnown
  BY Zenon DEF LedgerInv
<1> QED
  BY <1>1, LedgerInvariant, PTL

-----------------------------------------------------------------------------
(* The refinement: CommitBlock decides, CommitState executes, and every    *)
(* other step, crash and restart included, leaves the ledger as it is.     *)

LEMMA InitRefined == Init => Abstract!Init
BY DEF Init, Abstract!Init, Unpaid

LEMMA StepRefined ==
  ASSUME LedgerInv, [Next]_vars
  PROVE  [Abstract!Next]_(Abstract!vars)
<1>1. ASSUME NEW b \in PbftBlocks, CommitBlock(b)
      PROVE  Abstract!Decide(b)
  <2>1. chain' = Append(chain, b) /\ UNCHANGED <<evmBlock, paid>>
    BY <1>1, Zenon DEF CommitBlock, evm
  <2> QED
    BY <2>1, UnpaidUnchanged, Zenon DEF Abstract!Decide
<1>2. ASSUME CommitState
      PROVE  Abstract!Execute
  <2> DEFINE p == evmBlock + 1
  <2>1. /\ p <= Size /\ paid' = Append(paid, IF Distributes(p) THEN Unpaid \cup {p} ELSE {})
        /\ Unpaid' = IF Distributes(p) THEN {} ELSE Unpaid \cup {p}
    BY <1>2, RewardsOfBlock, Zenon
  <2>2. evmBlock' = p /\ chain' = chain
    BY <1>2, Zenon DEF CommitState, pushDb
  <2>3. evmBlock \in Nat /\ Size \in Nat
    BY DEF LedgerInv, TypeOK, Size
  <2>4. p \in {q \in Nat : Distributes(q)} <=> Distributes(p)
    BY <2>3
  <2>5. evmBlock < Len(chain)
    BY <2>1, <2>3 DEF Size
  <2> QED
    BY <2>1, <2>2, <2>4, <2>5, Zenon DEF Abstract!Execute
<1>3. ASSUME UNCHANGED <<chain, evmBlock, paid>>
      PROVE  UNCHANGED Abstract!vars
  BY <1>3, UnpaidUnchanged, Zenon DEF Abstract!vars
<1>4. CASE CommitLambda \/ SaveExecutedStatus \/ AdvancePeriod \/ AdvanceRound
  BY <1>3, <1>4, Zenon DEF CommitLambda, SaveExecutedStatus, AdvancePeriod, AdvanceRound, evm
<1>5. CASE CommitFinalChain \/ FinishBlock
  BY <1>3, <1>5, Zenon DEF CommitFinalChain, FinishBlock, evm, pushDb
<1>6. CASE Crash \/ Restart \/ RestartDone
  BY <1>3, <1>6, Zenon DEF Crash, Restart, RestartDone, evm, pushDb
<1>7. CASE UNCHANGED vars
  BY <1>3, <1>7, Zenon DEF vars, evm, pushDb
<1> QED
  BY <1>1, <1>2, <1>4, <1>5, <1>6, <1>7, Zenon
  DEF Next, Push, Finalize, Recover, Abstract!Next

\* The node implements the ledger it promises: the chain grows, its blocks are executed
\* once each and in order, and the rewards of every block are paid exactly once in the
\* first distribution that follows it, whatever crashes come between the commits.
THEOREM LedgerImplementsAbstract == Spec => LedgerRefined
<1>1. Init => Abstract!Init
  BY InitRefined, Zenon
<1>2. LedgerInv /\ [Next]_vars => [Abstract!Next]_(Abstract!vars)
  BY StepRefined, Zenon
<1> QED
  BY <1>1, <1>2, LedgerInvariant, PTL DEF Spec, LedgerRefined, Abstract!Spec
=============================================================================
