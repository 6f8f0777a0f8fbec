-------------------------------- MODULE Dag --------------------------------
(***************************************************************************)
(* The block DAG: the graph of blocks that a node keeps, the GHOST path of *)
(* its pivot tree and the order in which a PBFT block finalizes the blocks *)
(* that its anchor reaches.                                                *)
(*                                                                         *)
(* A block is the number that stands for its hash, so that hashes compare  *)
(* as in std::map and std::sort.  A graph is its set of vertices and its   *)
(* edges, which point from a parent (pivot or tip) to the new block.       *)
(***************************************************************************)
EXTENDS Integers, FiniteSets, SequencesExt, FiniteSetsExt

CONSTANTS
  Blocks,   \* the DAG blocks that exist
  Genesis,  \* the genesis block, not one of them
  Pivot,    \* the pivot of every block
  Tips      \* the tips of every block

Parents(b) == {Pivot[b]} \cup Tips[b]

ASSUME BlocksAssumption ==
  /\ Blocks \subseteq Nat /\ Genesis \in Nat \ Blocks
  /\ Pivot \in [Blocks -> Blocks \cup {Genesis}]
  /\ Tips \in [Blocks -> SUBSET (Blocks \cup {Genesis})]
  /\ \A b \in Blocks : Pivot[b] \notin Tips[b]

\* f applied n times to x: a loop of the code with at most n iterations.
Iterate(f(_), x, n) == LET it[i \in 0..n] == IF i = 0 THEN x ELSE f(it[i - 1]) IN it[n]

\* The level of a block is one more than the greatest level of its parents.
\* pivotAndTipsAvailable lets no other block into the DAG.
Level ==
  LET raise(l) == [b \in Blocks |-> Max({IF p = Genesis THEN 1 ELSE l[p] + 1 : p \in Parents(b)})]
  IN  Iterate(raise, [b \in Blocks |-> 1], Cardinality(Blocks))

\* Every block has its level when the parents have theirs: no cycles.
ASSUME LevelAssumption == \A b \in Blocks : \A p \in Parents(b) \ {Genesis} : Level[p] < Level[b]

\* A path of the DAG has no more edges than this.
Depth == Max({Level[b] : b \in Blocks} \cup {0})

-----------------------------------------------------------------------------
Graph(vertices, edges) == [vertices |-> vertices, edges |-> edges]

\* addVEEs for the blocks of S, lower levels first: only parents that are in
\* the graph get an edge.
AddVEEs(g, S) ==
  LET vertices == g.vertices \cup S
  IN  Graph(vertices, g.edges \cup UNION {(Parents(b) \cap vertices) \X {b} : b \in S})

GetLeaves(g) == {v \in g.vertices : ~\E e \in g.edges : e[1] = v}

PivotEdges == {<<Pivot[b], b>> : b \in Blocks}

PivotTree(g) == Graph(g.vertices, PivotEdges \cap g.edges)

Children(g, v) == {e[2] : e \in {d \in g.edges : d[1] = v}}

\* The vertices from which target is reachable, and those reachable from source.
Reaching(g, target) ==
  LET back(S) == S \cup {e[1] : e \in {d \in g.edges : d[2] \in S}}
  IN  Iterate(back, {target}, Depth)

ReachableFrom(g, source) ==
  LET forth(S) == S \cup {e[2] : e \in {d \in g.edges : d[1] \in S}}
  IN  Iterate(forth, {source}, Depth)

\* The heaviest child, the one with the smaller hash among equals.  The weight
\* of a vertex of the tree is the size of its subtree.
Heaviest(tree, v) ==
  LET weight == [c \in Children(tree, v) |-> Cardinality(ReachableFrom(tree, c))]
      heaviest == {c \in DOMAIN weight : \A d \in DOMAIN weight : weight[c] >= weight[d]}
  IN  Min(heaviest)

GetGhostPath(g, source) ==
  LET tree == PivotTree(g)
      follow(path) == IF Children(tree, Last(path)) = {} THEN path ELSE Append(path, Heaviest(tree, Last(path)))
  IN  IF source \in g.vertices THEN Iterate(follow, <<source>>, Depth) ELSE <<>>

-----------------------------------------------------------------------------
(* computeOrder: the blocks of the epoch in the reverse of the order in    *)
(* which the depth first search leaves them.  A vertex is marked visited   *)
(* when it is pushed, not when it is taken.                                *)

\* Mutant: every non-finalized block belongs to the epoch.
EpochOfAll(g, anchor, nonFinalized) == {anchor} \cup nonFinalized

Epoch(g, anchor, nonFinalized) == {anchor} \cup (nonFinalized \cap Reaching(g, anchor))

Sorted(S) == SetToSortSeq(S, <)

\* One turn of the search.  With an empty stack the loop over the epoch goes
\* on to its next unvisited vertex.
Visit(g, epoch, st) ==
  IF st.stack = <<>>
  THEN LET rest == epoch \ st.visited
       IN  IF rest = {} THEN st
           ELSE [st EXCEPT !.stack = <<[v |-> Min(rest), left |-> FALSE]>>, !.visited = @ \cup {Min(rest)}]
  ELSE LET cur == Last(st.stack)
           neighbors == (Children(g, cur.v) \cap epoch) \ st.visited
           pushed == [i \in 1..Cardinality(neighbors) |-> [v |-> Sorted(neighbors)[i], left |-> FALSE]]
       IN  IF cur.left
           THEN [st EXCEPT !.stack = Front(@), !.out = Append(@, cur.v)]
           ELSE [st EXCEPT !.stack = Front(@) \o <<[cur EXCEPT !.left = TRUE]>> \o pushed,
                           !.visited = @ \cup neighbors]

ComputeOrder(g, anchor, nonFinalized) ==
  LET epoch == Epoch(g, anchor, nonFinalized)
      turn(st) == Visit(g, epoch, st)
      start == [stack |-> <<>>, visited |-> {}, out |-> <<>>]
  IN  IF anchor \in g.vertices
        THEN Reverse(Iterate(turn, start, 3 * Cardinality(epoch)).out)
        ELSE <<>>

=============================================================================
