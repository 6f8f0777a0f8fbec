-------------------------- MODULE DagManagerProofs --------------------------
(***************************************************************************)
(* Proofs about DagManager, for every DAG, chain, set of nodes and bounds: *)
(* the rows of column dag_blocks and the blocks that the DAG in memory has *)
(* not finalized are the same, whatever a crash interrupted.               *)
(*                                                                         *)
(* What the search of Dag computes is not needed: only that both sides     *)
(* lose the same blocks, in one step or in the two steps of a push.        *)
(***************************************************************************)
EXTENDS DagManager, TLAPS

\* The time the SMT solver is given for a step that names no prover.
USE SMTT(60)

\* The chain is a sequence, and an anchorless PBFT block finalizes nothing.
ChainOK ==
  /\ chain \in Seq(Range(chain))
  /\ \A k \in 1..Len(chain) : chain[k].anchor = NullAnchor => chain[k].order = <<>>

DagTypes ==
  /\ chainSize \in [Nodes -> Nat] /\ period \in [Nodes -> Int] /\ pushing \in [Nodes -> BOOLEAN]
  /\ DOMAIN dagBlocks = Nodes /\ DOMAIN nonFinalized = Nodes

\* Between its two steps a push has taken the blocks it finalizes out of the database,
\* but neither out of memory nor has it counted the period there.
NodeOK(n) ==
  /\ chainSize[n] <= Len(chain)
  /\ pushing[n] => chainSize[n] > 0
  /\ period[n] = IF pushing[n] THEN chainSize[n] - 1 ELSE chainSize[n]
  /\ dagBlocks[n] = IF pushing[n] THEN nonFinalized[n] \ ToSet(chain[chainSize[n]].order)
                                  ELSE nonFinalized[n]
  /\ dagBlocks[n] \cap Finalized(n) = {}

DagInv == ChainOK /\ DagTypes /\ \A n \in Nodes : NodeOK(n)

-----------------------------------------------------------------------------
\* The chain only grows, so that what is finalized stays so.
LEMMA FinalizedKept ==
  ASSUME ChainOK, NEW b, chain' = Append(chain, b), UNCHANGED chainSize,
         NEW n \in Nodes, chainSize[n] \in Nat, chainSize[n] <= Len(chain)
  PROVE  /\ Finalized(n)' = Finalized(n) /\ Len(chain') = Len(chain) + 1 /\ Len(chain) \in Nat
         /\ \A k \in 1..Len(chain) : chain'[k] = chain[k]
         /\ chain'[Len(chain) + 1] = b
<1>1. chain \in Seq(Range(chain) \cup {b})
  BY DEF ChainOK
<1>2. /\ Len(chain') = Len(chain) + 1 /\ Len(chain) \in Nat
      /\ \A k \in 1..Len(chain) : chain'[k] = chain[k]
      /\ chain'[Len(chain) + 1] = b
  BY <1>1
<1>3. \A k \in 1..chainSize[n] : chain'[k] = chain[k]
  BY <1>2
<1>4. {ToSet(chain'[k].order) : k \in 1..chainSize[n]} = {ToSet(chain[k].order) : k \in 1..chainSize[n]}
  BY <1>3
<1> QED
  BY <1>2, <1>4 DEF Finalized, OrderOf

LEMMA AddKeeps ==
  ASSUME DagInv, NEW n \in Nodes, NEW b \in Blocks, AddDagBlock(n, b)
  PROVE  DagInv'
<1>1. /\ ~pushing[n] /\ b \notin dagBlocks[n] \cup Finalized(n)
      /\ dagBlocks' = [dagBlocks EXCEPT ![n] = @ \cup {b}]
      /\ nonFinalized' = [nonFinalized EXCEPT ![n] = @ \cup {b}]
      /\ UNCHANGED <<chain, period, chainSize, pushing>>
  BY DEF AddDagBlock, DagBlockInDb
<1>2. ChainOK' /\ DagTypes'
  BY <1>1 DEF DagInv, ChainOK, DagTypes
<1>3. ASSUME NEW m \in Nodes PROVE NodeOK(m)'
  <2>1. Finalized(m)' = Finalized(m)
    BY <1>1, ZenonT(30) DEF Finalized, OrderOf
  <2>2. NodeOK(m) /\ DagTypes
    BY ZenonT(30) DEF DagInv
  <2>3. CASE m = n
    <3>1. dagBlocks'[m] = dagBlocks[m] \cup {b} /\ nonFinalized'[m] = nonFinalized[m] \cup {b}
      BY <1>1, <2>2, <2>3 DEF DagTypes
    <3> QED
      BY <1>1, <2>1, <2>2, <2>3, <3>1, ZenonT(30) DEF NodeOK
  <2>4. CASE m # n
    <3>1. dagBlocks'[m] = dagBlocks[m] /\ nonFinalized'[m] = nonFinalized[m]
      BY <1>1, <2>2, <2>4 DEF DagTypes
    <3> QED
      BY <1>1, <2>1, <2>2, <3>1, ZenonT(30) DEF NodeOK
  <2> QED
    BY <2>3, <2>4
<1> QED
  BY <1>2, <1>3 DEF DagInv

LEMMA CertifyKeeps ==
  ASSUME DagInv, NEW n \in Validators, Certify(n)
  PROVE  DagInv'
<1>1. PICK a : chain' = Append(chain, PbftBlock(n, a))
  BY ZenonT(30) DEF Certify
<1>2. UNCHANGED <<nonFinalized, period, dagBlocks, chainSize, pushing>>
  BY ZenonT(30) DEF Certify, dag
<1> DEFINE b == PbftBlock(n, a)
<1>3. b.anchor = NullAnchor => b.order = <<>>
  BY ZenonT(30) DEF PbftBlock
<1> HIDE DEF b
<1>4. chain' = Append(chain, b)
  BY <1>1, ZenonT(30) DEF b
<1>5. ChainOK /\ DagTypes
  BY ZenonT(30) DEF DagInv
<1>6. chain' \in Seq(Range(chain'))
  <2>1. chain \in Seq(Range(chain)) /\ chain \in Seq(Range(chain) \cup {b}) /\ Len(chain) \in Nat
    BY <1>5 DEF ChainOK
  <2>2. chain' \in Seq(Range(chain) \cup {b})
    BY <1>4, <2>1
  <2>3. \A k \in 1..Len(chain') : chain'[k] \in Range(chain')
    BY <2>2 DEF Range
  <2> QED
    BY <2>2, <2>3
<1>7. ASSUME NEW m \in Nodes PROVE NodeOK(m)'
  <2>1. NodeOK(m) /\ chainSize[m] \in Nat /\ chainSize[m] <= Len(chain) /\ pushing[m] \in BOOLEAN
    BY <1>5 DEF DagInv, NodeOK, DagTypes
  <2>2. /\ Finalized(m)' = Finalized(m) /\ Len(chain') = Len(chain) + 1 /\ Len(chain) \in Nat
        /\ \A k \in 1..Len(chain) : chain'[k] = chain[k]
    BY <1>2, <1>4, <1>5, <2>1, FinalizedKept
  <2>3. chainSize'[m] <= Len(chain')
    BY <1>2, <2>1, <2>2
  <2>4. pushing[m] => chain'[chainSize[m]] = chain[chainSize[m]]
    BY <2>1, <2>2 DEF NodeOK
  <2> QED
    BY <1>2, <2>1, <2>2, <2>3, <2>4, ZenonT(30) DEF NodeOK
<1>8. \A k \in 1..Len(chain') : chain'[k].anchor = NullAnchor => chain'[k].order = <<>>
  <2>1. chain \in Seq(Range(chain) \cup {b})
    BY <1>5 DEF ChainOK
  <2>2. /\ Len(chain') = Len(chain) + 1 /\ Len(chain) \in Nat
        /\ \A k \in 1..Len(chain) : chain'[k] = chain[k]
        /\ chain'[Len(chain) + 1] = b
    BY <1>4, <2>1
  <2> SUFFICES ASSUME NEW k \in 1..Len(chain'), chain'[k].anchor = NullAnchor
               PROVE  chain'[k].order = <<>>
    BY ZenonT(30)
  <2>3. k \in 1..Len(chain) \/ k = Len(chain) + 1
    BY <2>2
  <2> QED
    BY <1>3, <1>5, <2>2, <2>3 DEF ChainOK
<1>9. DagTypes'
  BY <1>2, <1>5, ZenonT(30) DEF DagTypes
<1> QED
  BY <1>6, <1>7, <1>8, <1>9 DEF DagInv, ChainOK

LEMMA CommitKeeps ==
  ASSUME DagInv, NEW n \in Nodes, CommitPeriodData(n)
  PROVE  DagInv'
<1> DEFINE s == chainSize[n]
<1>1. /\ ~pushing[n] /\ s < Len(chain)
      /\ chainSize' = [chainSize EXCEPT ![n] = @ + 1]
      /\ dagBlocks' = [dagBlocks EXCEPT ![n] = @ \ ToSet(chain[chainSize'[n]].order)]
      /\ pushing' = [pushing EXCEPT ![n] = TRUE]
      /\ UNCHANGED <<chain, nonFinalized, period>>
  BY ZenonT(30) DEF CommitPeriodData, dag
<1>2. ChainOK /\ DagTypes /\ Len(chain) \in Nat
  BY DEF DagInv, ChainOK
<1>3. ChainOK' /\ DagTypes'
  <2>1. ChainOK'
    BY <1>1, <1>2 DEF ChainOK
  <2>2. chainSize' \in [Nodes -> Nat] /\ pushing' \in [Nodes -> BOOLEAN] /\ DOMAIN dagBlocks' = Nodes
    BY <1>1, <1>2 DEF DagTypes
  <2> QED
    BY <1>1, <1>2, <2>1, <2>2 DEF DagTypes
<1>4. ASSUME NEW m \in Nodes PROVE NodeOK(m)'
  <2>1. NodeOK(m) /\ chainSize[m] \in Nat
    BY <1>2, ZenonT(30) DEF DagInv, DagTypes
  <2>2. CASE m = n
    <3>1. chainSize'[m] = s + 1 /\ pushing'[m] = TRUE /\ s \in Nat /\ s + 1 \in 1..Len(chain)
      BY <1>1, <1>2, <2>1, <2>2 DEF DagTypes
    <3>2. dagBlocks'[m] = dagBlocks[m] \ ToSet(chain[s + 1].order) /\ dagBlocks[m] = nonFinalized[m]
      BY <1>1, <1>2, <2>1, <2>2, <3>1 DEF DagTypes, NodeOK
    <3>3. Finalized(m)' = Finalized(m) \cup ToSet(chain[s + 1].order)
      <4>1. 1..s + 1 = (1..s) \cup {s + 1}
        BY <3>1
      <4> QED
        BY <1>1, <2>2, <3>1, <4>1 DEF Finalized, OrderOf
    <3>4. dagBlocks[m] \cap Finalized(m) = {} /\ period[m] = s
      BY <1>1, <2>1, <2>2 DEF NodeOK
    <3> HIDE DEF s
    <3>5. (s + 1) - 1 = s /\ s + 1 > 0 /\ s + 1 <= Len(chain)
      BY <3>1
    <3>6. dagBlocks'[m] \cap Finalized(m)' = {}
      BY <3>2, <3>3, <3>4, ZenonT(30)
    <3> QED
      BY <1>1, <3>1, <3>2, <3>4, <3>5, <3>6, ZenonT(30) DEF NodeOK
  <2>3. CASE m # n
    <3>1. /\ chainSize'[m] = chainSize[m] /\ pushing'[m] = pushing[m] /\ dagBlocks'[m] = dagBlocks[m]
          /\ nonFinalized'[m] = nonFinalized[m] /\ period'[m] = period[m] /\ chain' = chain
      BY <1>1, <1>2, <2>3 DEF DagTypes
    <3>2. Finalized(m)' = Finalized(m)
      BY <3>1 DEF Finalized, OrderOf
    <3> QED
      BY <2>1, <3>1, <3>2, ZenonT(30) DEF NodeOK
  <2> QED
    BY <2>2, <2>3, ZenonT(30)
<1> QED
  BY <1>3, <1>4 DEF DagInv

LEMMA OrderKeeps ==
  ASSUME DagInv, NEW n \in Nodes, SetDagBlockOrder(n)
  PROVE  DagInv'
<1> DEFINE new == chain[period[n] + 1]
           rest == nonFinalized[n] \ ToSet(new.order)
           expired == Expired(rest, ExpiryLevel(new.anchor, expiry[n]))
<1>1. /\ pushing[n]
      /\ \/ new.anchor = NullAnchor /\ UNCHANGED <<nonFinalized, dagBlocks>>
         \/ /\ nonFinalized' = [nonFinalized EXCEPT ![n] = rest \ expired]
            /\ dagBlocks' = [dagBlocks EXCEPT ![n] = @ \ expired]
      /\ period' = [period EXCEPT ![n] = @ + 1]
      /\ pushing' = [pushing EXCEPT ![n] = FALSE]
      /\ UNCHANGED <<chain, chainSize>>
  BY ZenonT(30) DEF SetDagBlockOrder
<1> HIDE DEF expired
<1>2. ChainOK /\ DagTypes /\ Len(chain) \in Nat
  BY DEF DagInv, ChainOK
<1>3. ChainOK' /\ DagTypes'
  BY <1>1, <1>2 DEF ChainOK, DagTypes
<1>4. ASSUME NEW m \in Nodes PROVE NodeOK(m)'
  <2>1. NodeOK(m) /\ chainSize[m] \in Nat
    BY <1>2, ZenonT(30) DEF DagInv, DagTypes
  <2>2. Finalized(m)' = Finalized(m) /\ chainSize'[m] = chainSize[m] /\ chain' = chain
    BY <1>1, ZenonT(30) DEF Finalized, OrderOf
  <2>3. CASE m = n
    <3>1. /\ period[m] = chainSize[m] - 1 /\ chainSize[m] > 0 /\ chainSize[m] <= Len(chain)
          /\ dagBlocks[m] = nonFinalized[m] \ ToSet(chain[chainSize[m]].order)
          /\ dagBlocks[m] \cap Finalized(m) = {}
      BY <1>1, <2>1, <2>3, ZenonT(30) DEF NodeOK
    <3>2. period[m] + 1 = chainSize[m] /\ new = chain[chainSize[m]] /\ chainSize[m] \in 1..Len(chain)
      BY <1>2, <2>1, <2>3, <3>1
    <3>3. period'[m] = chainSize[m] /\ pushing'[m] = FALSE
      BY <1>1, <1>2, <2>3, <3>2, ZenonT(30) DEF DagTypes
    <3>4. dagBlocks'[m] = nonFinalized'[m] /\ dagBlocks'[m] \subseteq dagBlocks[m]
      <4>1. CASE new.anchor = NullAnchor /\ UNCHANGED <<nonFinalized, dagBlocks>>
        <5>1. ToSet(chain[chainSize[m]].order) = {}
          BY <1>2, <3>2, <4>1 DEF ChainOK, ToSet
        <5> QED
          BY <3>1, <4>1, <5>1
      <4>2. CASE /\ nonFinalized' = [nonFinalized EXCEPT ![n] = rest \ expired]
                 /\ dagBlocks' = [dagBlocks EXCEPT ![n] = @ \ expired]
        <5>1. nonFinalized'[m] = rest \ expired /\ dagBlocks'[m] = dagBlocks[m] \ expired
          BY <1>2, <2>3, <4>2 DEF DagTypes
        <5> QED
          BY <2>3, <3>1, <3>2, <5>1
      <4> QED
        BY <1>1, <4>1, <4>2, ZenonT(30)
    <3> QED
      BY <2>2, <3>1, <3>3, <3>4, ZenonT(30) DEF NodeOK
  <2>4. CASE m # n
    <3>1. /\ pushing'[m] = pushing[m] /\ dagBlocks'[m] = dagBlocks[m]
          /\ nonFinalized'[m] = nonFinalized[m] /\ period'[m] = period[m]
      BY <1>1, <1>2, <2>4 DEF DagTypes
    <3> QED
      BY <2>1, <2>2, <3>1, ZenonT(30) DEF NodeOK
  <2> QED
    BY <2>3, <2>4, ZenonT(30)
<1> QED
  BY <1>3, <1>4, ZenonT(30) DEF DagInv

LEMMA RestartKeeps ==
  ASSUME DagInv, NEW n \in Nodes, Restart(n)
  PROVE  DagInv'
<1> DEFINE kept == dagBlocks[n] \ Unavailable(n)
<1>1. /\ period' = [period EXCEPT ![n] = chainSize[n]]
      /\ dagBlocks' = [dagBlocks EXCEPT ![n] = kept]
      /\ nonFinalized' = [nonFinalized EXCEPT ![n] = kept]
      /\ pushing' = [pushing EXCEPT ![n] = FALSE]
      /\ UNCHANGED <<chain, chainSize>>
  BY ZenonT(30) DEF Restart
<1>2. kept \subseteq dagBlocks[n]
  BY ZenonT(30)
<1> HIDE DEF kept
<1>3. ChainOK /\ DagTypes
  BY ZenonT(30) DEF DagInv
<1>4. ChainOK' /\ DagTypes'
  BY <1>1, <1>3 DEF ChainOK, DagTypes
<1>5. ASSUME NEW m \in Nodes PROVE NodeOK(m)'
  <2>1. NodeOK(m)
    BY ZenonT(30) DEF DagInv
  <2>2. Finalized(m)' = Finalized(m) /\ chainSize'[m] = chainSize[m] /\ chain' = chain
    BY <1>1, ZenonT(30) DEF Finalized, OrderOf
  <2>3. CASE m = n
    <3>1. /\ pushing'[m] = FALSE /\ dagBlocks'[m] = kept /\ nonFinalized'[m] = kept
          /\ period'[m] = chainSize[m]
      BY <1>1, <1>3, <2>3, ZenonT(30) DEF DagTypes
    <3> QED
      BY <1>2, <2>1, <2>2, <2>3, <3>1, ZenonT(30) DEF NodeOK
  <2>4. CASE m # n
    <3>1. /\ pushing'[m] = pushing[m] /\ dagBlocks'[m] = dagBlocks[m]
          /\ nonFinalized'[m] = nonFinalized[m] /\ period'[m] = period[m]
      BY <1>1, <1>3, <2>4 DEF DagTypes
    <3> QED
      BY <2>1, <2>2, <3>1, ZenonT(30) DEF NodeOK
  <2> QED
    BY <2>3, <2>4, ZenonT(30)
<1> QED
  BY <1>4, <1>5, ZenonT(30) DEF DagInv

-----------------------------------------------------------------------------
\* DagInv is inductive: it also says what the database and the DAG hold between the two
\* steps of pushPbftBlock_, where a crash may come.
THEOREM DagInvariant == Spec => []DagInv
<1>1. Init => DagInv
  <2> SUFFICES ASSUME Init PROVE DagInv
    BY ZenonT(30)
  <2>1. chain = <<>> /\ Len(chain) = 0 /\ chain \in Seq(Range(chain))
    BY DEF Init
  <2>2. ChainOK /\ DagTypes
    BY <2>1 DEF Init, ChainOK, DagTypes
  <2>3. ASSUME NEW n \in Nodes PROVE NodeOK(n)
    BY <2>1 DEF Init, NodeOK
  <2> QED
    BY <2>2, <2>3 DEF DagInv
<1>2. DagInv /\ [Next]_vars => DagInv'
  <2> SUFFICES ASSUME DagInv, [Next]_vars PROVE DagInv'
    BY ZenonT(30)
  <2>1. CASE Next
    BY <2>1, AddKeeps, CertifyKeeps, CommitKeeps, OrderKeeps, RestartKeeps, ZenonT(30) DEF Next
  <2>2. CASE UNCHANGED vars
    <3>1. UNCHANGED <<chain, nonFinalized, period, dagBlocks, chainSize, pushing>>
      BY <2>2, ZenonT(30) DEF vars, dag
    <3>2. ChainOK' /\ DagTypes'
      BY <3>1, ZenonT(30) DEF DagInv, ChainOK, DagTypes
    <3>3. ASSUME NEW n \in Nodes PROVE NodeOK(n)'
      <4>1. NodeOK(n)
        BY ZenonT(30) DEF DagInv
      <4> QED
        BY <3>1, <4>1 DEF NodeOK, Finalized, OrderOf
    <3> QED
      BY <3>2, <3>3 DEF DagInv
  <2> QED
    BY <2>1, <2>2
<1> QED
  BY <1>1, <1>2, PTL DEF Spec

\* Whenever no push is under way, and after every restart, column dag_blocks holds exactly
\* the blocks that the DAG in memory has not finalized, and none that a PBFT block
\* finalized (DagManager::setDagBlockOrder, recoverDag, PbftManager::pushPbftBlock_).
THEOREM DatabaseMatchesDagHolds == Spec => []DatabaseMatchesDag
<1>1. DagInv => DatabaseMatchesDag
  BY ZenonT(30) DEF DagInv, NodeOK, DatabaseMatchesDag
<1> QED
  BY <1>1, DagInvariant, PTL
=============================================================================
