----------------------------- MODULE DagManager -----------------------------
(***************************************************************************)
(* The DAG managers of several nodes that finalize one PBFT chain.         *)
(*                                                                         *)
(* DAG blocks reach the nodes in different orders.  A validator proposes   *)
(* an anchor from its GHOST path, the PBFT block fixes the order of the    *)
(* blocks the anchor reaches, and every node pushes the block: from its    *)
(* own DAG or, behind, from the period data of a peer.  A push commits the *)
(* finalized blocks to the database and then rebuilds the DAG in memory,   *)
(* dropping the blocks that expired.  Both happen under the DAG mutex; a   *)
(* crash may come between them.  A restart rebuilds the DAG from the       *)
(* database.                                                               *)
(*                                                                         *)
(* The agreement on the PBFT block itself is PbftConsensus; here a block   *)
(* that all validators find valid is appended to the chain.  Transactions, *)
(* VDF proofs and eligibility of the blocks are left out: every block of   *)
(* Blocks passes them.                                                     *)
(***************************************************************************)
EXTENDS Dag

CONSTANTS
  Nodes,             \* the nodes
  Validators,        \* the nodes whose validation certifies a PBFT block
  NullAnchor,        \* kNullBlockHash as an anchor
  Gas,               \* the gas estimation of every block
  PbftGasLimit,      \* the gas limit of a PBFT block
  DagBlocksSize,     \* config pbft.dag_blocks_size
  GhostPathMoveBack, \* config pbft.ghost_path_move_back
  DagExpiryLimit,    \* config dag_expiry_limit
  MaxPeriod,         \* bound on the length of the chain
  MaxCrashes         \* bound on the number of crashes

ASSUME NodesAssumption == Validators \subseteq Nodes /\ Validators # {}
ASSUME GasAssumption == Gas \in [Blocks -> Nat] /\ PbftGasLimit \in Nat
ASSUME ConfigAssumption ==
  /\ DagBlocksSize \in Nat \ {0} /\ GhostPathMoveBack \in Nat /\ DagExpiryLimit \in Nat
  /\ MaxPeriod \in Nat /\ MaxCrashes \in Nat /\ NullAnchor \notin Blocks

VARIABLES
  chain,        \* the PBFT blocks: anchor and order of the DAG blocks
  graph,        \* total_dag_ of every node; the pivot tree is a part of it
  nonFinalized, \* non_finalized_blks_
  anchor,       \* anchor_
  period,       \* period_
  expiry,       \* dag_expiry_level_
  frontier,     \* frontier_
  dagBlocks,    \* database: column dag_blocks
  chainSize,    \* database: the PBFT blocks whose batch is committed
  pushing,      \* between the commit and setDagBlockOrder
  crashes       \* number of crashes so far

dag == <<graph, nonFinalized, anchor, period, expiry, frontier>>
vars == <<chain, dag, dagBlocks, chainSize, pushing, crashes>>

OrderOf(S) == UNION {ToSet(chain[k].order) : k \in S}

\* The blocks that have an entry in column dag_block_period.
Finalized(n) == OrderOf(1..chainSize[n])

\* Mutant: the last PBFT block is taken to have an anchor.
AnchorOfLast(size) ==
  IF size = 0 \/ chain[size].anchor = NullAnchor THEN Genesis ELSE chain[size].anchor

\* The anchor of the last PBFT block that has one.
LastNonNullAnchor(size) ==
  LET with == {k \in 1..size : chain[k].anchor # NullAnchor}
  IN  IF with = {} THEN Genesis ELSE chain[Max(with)].anchor

\* Blocks of S, lower levels first, that satisfy P or have a parent that does.
Spreading(S, P(_)) ==
  LET spread(T) == T \cup {b \in S : P(b) \/ Parents(b) \cap T # {}}
  IN  Iterate(spread, {}, Depth)

GetFrontier(g, a) ==
  LET path == GetGhostPath(g, a)
  IN  [pivot |-> Last(path), tips |-> GetLeaves(g) \ {Last(path)}]

-----------------------------------------------------------------------------
Init ==
  /\ chain = <<>>
  /\ graph = [n \in Nodes |-> Graph({Genesis}, {})]
  /\ nonFinalized = [n \in Nodes |-> {}]
  /\ anchor = [n \in Nodes |-> Genesis]
  /\ period = [n \in Nodes |-> 0]
  /\ expiry = [n \in Nodes |-> 0]
  /\ frontier = [n \in Nodes |-> [pivot |-> Genesis, tips |-> {}]]
  /\ dagBlocks = [n \in Nodes |-> {}]
  /\ chainSize = [n \in Nodes |-> 0]
  /\ pushing = [n \in Nodes |-> FALSE]
  /\ crashes = 0

\* Mutant: finalized blocks are not looked up.
InDagBlocksColumn(n, b) == b \in dagBlocks[n]

DagBlockInDb(n, b) == b \in dagBlocks[n] \cup Finalized(n)

PivotAndTipsAvailable(n, b) == Parents(b) \subseteq {Genesis} \cup dagBlocks[n] \cup Finalized(n)

AddDagBlock(n, b) ==
  /\ ~pushing[n]
  /\ ~DagBlockInDb(n, b)
  /\ Level[b] >= expiry[n]
  /\ PivotAndTipsAvailable(n, b)
  /\ dagBlocks' = [dagBlocks EXCEPT ![n] = @ \cup {b}]
  /\ graph' = [graph EXCEPT ![n] = AddVEEs(@, {b})]
  /\ nonFinalized' = [nonFinalized EXCEPT ![n] = @ \cup {b}]
  /\ frontier' = [frontier EXCEPT ![n] = GetFrontier(graph'[n], anchor[n])]
  /\ UNCHANGED <<chain, anchor, period, expiry, chainSize, pushing, crashes>>

GetDagBlockOrder(n, a) ==
  IF a = anchor[n] THEN <<>> ELSE ComputeOrder(graph[n], a, nonFinalized[n])

-----------------------------------------------------------------------------
(* Proposal and validation of a PBFT block.                                *)

TotalGas(order) == FoldLeft(LAMBDA sum, b : sum + Gas[b], 0, order)

CheckBlockWeight(order) == TotalGas(order) <= PbftGasLimit

\* The number of DAG blocks that fit into the PBFT block.
Included(order) == Max({i \in 0..Len(order) : CheckBlockWeight(SubSeq(order, 1, i))})

\* The last block of the GHOST path among those that fit, or the first block
\* after the last anchor.  When the path is the last anchor alone the code reads
\* past the end of the vector: the outcome is any hash.
FindClosestAnchor(ghost, order, included) ==
  LET on == {i \in 1..included : order[i] \in ToSet(ghost)}
  IN  IF on # {} THEN {order[Max(on)]}
      ELSE IF Len(ghost) > 1 THEN {ghost[2]} ELSE Blocks \cup {NullAnchor}

\* The GHOST path, GhostPathMoveBack blocks back, but not the last anchor.
ChosenFromGhost(ghost, last) ==
  LET back == Max({1, Len(ghost) - GhostPathMoveBack})
      usable == {i \in back..Len(ghost) : ghost[i] # last}
  IN  IF Len(ghost) > DagBlocksSize THEN ghost[DagBlocksSize]
      ELSE ghost[IF usable = {} THEN Len(ghost) ELSE Min(usable)]

HighestNonFinalized(n) ==
  {b \in nonFinalized[n] : \A c \in nonFinalized[n] : Level[c] <= Level[b]}

\* The anchors from which the proposer starts; the highest level is an
\* unordered_set, any block of it may come first.
FirstAnchors(n, ghost, last) ==
  LET chosen == ChosenFromGhost(ghost, last)
  IN  IF ghost = <<>> \/ chosen = Genesis THEN {NullAnchor}
      ELSE IF chosen # last THEN {chosen}
      ELSE IF nonFinalized[n] = {} THEN {NullAnchor} ELSE HighestNonFinalized(n)

\* The GHOST path from a block; a null anchor has none.
GhostPathFrom(n, source) == IF source = NullAnchor THEN <<>> ELSE GetGhostPath(graph[n], source)

\* A first anchor whose order is too heavy gives way to a closer one.
ProposedAnchors(n) ==
  LET last == LastNonNullAnchor(chainSize[n])
      ghost == GhostPathFrom(n, last)
      closest(a) ==
        LET order == GetDagBlockOrder(n, a)
        IN  IF CheckBlockWeight(order) THEN {a} ELSE FindClosestAnchor(ghost, order, Included(order))
  IN  UNION {IF a = NullAnchor THEN {a} ELSE closest(a) : a \in FirstAnchors(n, ghost, last)}

PbftBlock(n, a) == [anchor |-> a, order |-> IF a = NullAnchor THEN <<>> ELSE GetDagBlockOrder(n, a)]

ValidatePbftBlock(n, block) ==
  LET previous == IF chainSize[n] = 0 THEN NullAnchor ELSE chain[chainSize[n]].anchor
      ghost == GhostPathFrom(n, previous)
  IN  block.anchor # NullAnchor =>
        /\ block.order # <<>>
        /\ GetDagBlockOrder(n, block.anchor) = block.order
        /\ Len(ghost) > 1 /\ block.anchor # ghost[2] => CheckBlockWeight(block.order)

Certify(n) ==
  /\ Len(chain) < MaxPeriod
  /\ \A v \in Validators : ~pushing[v] /\ chainSize[v] = Len(chain)
  /\ \E a \in ProposedAnchors(n) :
       LET block == PbftBlock(n, a) IN
       /\ \A v \in Validators : ValidatePbftBlock(v, block)
       /\ chain' = Append(chain, block)
  /\ UNCHANGED <<dag, dagBlocks, chainSize, pushing, crashes>>

-----------------------------------------------------------------------------
(* pushPbftBlock_: the batch, and then the DAG in memory.                  *)

\* Mutant: the finalized blocks stay in the column of the non-finalized ones.
CommitPeriodDataOnly(n) ==
  /\ ~pushing[n] /\ chainSize[n] < Len(chain)
  /\ chainSize' = [chainSize EXCEPT ![n] = @ + 1]
  /\ pushing' = [pushing EXCEPT ![n] = TRUE]
  /\ UNCHANGED <<chain, dag, dagBlocks, crashes>>

CommitPeriodData(n) ==
  /\ ~pushing[n] /\ chainSize[n] < Len(chain)
  /\ chainSize' = [chainSize EXCEPT ![n] = @ + 1]
  /\ dagBlocks' = [dagBlocks EXCEPT ![n] = @ \ ToSet(chain[chainSize'[n]].order)]
  /\ pushing' = [pushing EXCEPT ![n] = TRUE]
  /\ UNCHANGED <<chain, dag, crashes>>

ExpiryLevel(a, old) == IF Level[a] > DagExpiryLimit THEN Level[a] - DagExpiryLimit ELSE old

\* The blocks left out of the new DAG: too low, or on top of one left out.
Expired(S, level) == LET low(b) == Level[b] < level IN Spreading(S, low)

SetDagBlockOrder(n) ==
  LET new == chain[period[n] + 1]
      rest == nonFinalized[n] \ ToSet(new.order)
      level == ExpiryLevel(new.anchor, expiry[n])
      expired == Expired(rest, level)
  IN
  /\ pushing[n]
  /\ IF new.anchor = NullAnchor
       THEN UNCHANGED <<graph, nonFinalized, anchor, expiry, frontier, dagBlocks>>
       ELSE /\ expiry' = [expiry EXCEPT ![n] = level]
            /\ nonFinalized' = [nonFinalized EXCEPT ![n] = rest \ expired]
            /\ dagBlocks' = [dagBlocks EXCEPT ![n] = @ \ expired]
            /\ anchor' = [anchor EXCEPT ![n] = new.anchor]
            /\ graph' = [graph EXCEPT ![n] = AddVEEs(Graph({new.anchor}, {}), rest \ expired)]
            /\ frontier' = [frontier EXCEPT ![n] = GetFrontier(graph'[n], new.anchor)]
  /\ period' = [period EXCEPT ![n] = @ + 1]
  /\ pushing' = [pushing EXCEPT ![n] = FALSE]
  /\ UNCHANGED <<chain, chainSize, crashes>>

-----------------------------------------------------------------------------
(* Restart: recoverDag.  The genesis block stays in the graph.             *)

Unavailable(n) ==
  LET missing(b) == ~PivotAndTipsAvailable(n, b) IN Spreading(dagBlocks[n], missing)

Restart(n) ==
  LET a == LastNonNullAnchor(chainSize[n])
      kept == dagBlocks[n] \ Unavailable(n)
  IN
  /\ crashes < MaxCrashes
  /\ crashes' = crashes + 1
  /\ period' = [period EXCEPT ![n] = chainSize[n]]
  /\ anchor' = [anchor EXCEPT ![n] = a]
  /\ expiry' = [expiry EXCEPT ![n] = IF a = Genesis THEN 0 ELSE ExpiryLevel(a, 0)]
  /\ dagBlocks' = [dagBlocks EXCEPT ![n] = kept]
  /\ nonFinalized' = [nonFinalized EXCEPT ![n] = kept]
  /\ graph' = [graph EXCEPT ![n] = AddVEEs(Graph({Genesis, a}, {}), kept)]
  /\ frontier' = [frontier EXCEPT ![n] = GetFrontier(graph'[n], a)]
  /\ pushing' = [pushing EXCEPT ![n] = FALSE]
  /\ UNCHANGED <<chain, chainSize>>

Next ==
  \/ \E n \in Nodes, b \in Blocks : AddDagBlock(n, b)
  \/ \E n \in Validators : Certify(n)
  \/ \E n \in Nodes : CommitPeriodData(n)
  \/ \E n \in Nodes : SetDagBlockOrder(n)
  \/ \E n \in Nodes : Restart(n)

Spec == Init /\ [][Next]_vars

-----------------------------------------------------------------------------
(* Properties.                                                             *)

\* Every variable holds values of its kind and a node's graph has no other
\* vertices than its anchor, genesis and its non-finalized blocks.
TypeOK ==
  /\ \A k \in 1..Len(chain) : chain[k].anchor \in Blocks \cup {NullAnchor} /\ ToSet(chain[k].order) \subseteq Blocks
  /\ \A n \in Nodes :
       /\ graph[n].vertices \subseteq {Genesis, anchor[n]} \cup nonFinalized[n]
       /\ graph[n].edges \subseteq graph[n].vertices \X graph[n].vertices
       /\ nonFinalized[n] \subseteq Blocks /\ dagBlocks[n] \subseteq Blocks
       /\ chainSize[n] \in 0..Len(chain) /\ period[n] \in {chainSize[n], chainSize[n] - 1}
       /\ frontier[n].pivot \in graph[n].vertices

\* Whatever order blocks reached it in, however often it restarted: a node
\* that has the anchor of the next PBFT block computes the order that the
\* block carries.
OrderAgrees ==
  \A n \in Nodes :
    ~pushing[n] /\ chainSize[n] < Len(chain) /\ chain[chainSize[n] + 1].anchor \in graph[n].vertices =>
      GetDagBlockOrder(n, chain[chainSize[n] + 1].anchor) = chain[chainSize[n] + 1].order

\* No DAG block is finalized twice, in one period or in two.
FinalizedOnce ==
  \A i, j \in 1..Len(chain) :
    \A x \in 1..Len(chain[i].order), y \in 1..Len(chain[j].order) :
      chain[i].order[x] = chain[j].order[y] => i = j /\ x = y

\* The pivot and the tips of a finalized block are finalized in its period or in an
\* earlier one.
NoParentInLaterPeriod ==
  \A k \in 1..Len(chain) : \A b \in ToSet(chain[k].order) : Parents(b) \subseteq OrderOf(1..k) \cup {Genesis}

\* In the order of its period a block comes after one of its pivot and tips in that
\* period, the one from which the search went on to it.  The others may come after
\* the block: computeOrder marks a vertex when it pushes it, so the order is not the
\* topological one of its comment (anchor 2 of MCPeriodData has the order <<1, 2, 3>>,
\* and 3 is a tip of 2).
FollowsAParent ==
  \A k \in 1..Len(chain) :
    LET order == chain[k].order
    IN  \A y \in 1..Len(order) :
          Parents(order[y]) \cap ToSet(order) # {} => \E x \in 1..y - 1 : order[x] \in Parents(order[y])

\* The database holds exactly the non-finalized blocks of the DAG in memory,
\* and none of the finalized ones: a restart finds them all.
DatabaseMatchesDag ==
  \A n \in Nodes : ~pushing[n] => dagBlocks[n] = nonFinalized[n] /\ dagBlocks[n] \cap Finalized(n) = {}

\* A node that restarts while it pushes no block has the DAG it had: the same
\* blocks, anchor and pivot, and the same tips except for the genesis block.
RestartKeepsDag ==
  [][\A n \in Nodes :
       crashes' # crashes /\ ~pushing[n] =>
         /\ nonFinalized'[n] = nonFinalized[n] /\ anchor'[n] = anchor[n] /\ period'[n] = period[n]
         /\ frontier'[n].pivot = frontier[n].pivot
         /\ frontier'[n].tips \ {Genesis} = frontier[n].tips \ {Genesis}]_vars

\* A block is finalized once, in no earlier period than its pivot and tips, and within
\* its period after one of them, though not after all (Dag::computeOrder,
\* DagManager::setDagBlockOrder).
FinalizedOnceWithParents == TypeOK /\ FinalizedOnce /\ NoParentInLaterPeriod /\ FollowsAParent
=============================================================================
