----------------------------- MODULE NodeTable -----------------------------
(***************************************************************************)
(* Node discovery (libp2p/NodeTable): the table of all nodes, the buckets, *)
(* the endpoint proofs by ping and pong, eviction of the least recently    *)
(* seen node of a full bucket, the discovery rounds and the events the     *)
(* host learns of.                                                         *)
(*                                                                         *)
(* Buckets hold weak pointers to entries.  An entry is <<n, i>>, the i-th  *)
(* NodeEntry object of node n; it lives while m_allNodes or the            *)
(* replacement of a sent ping owns it.  A weak pointer whose entry died is *)
(* Dead.                                                                   *)
(*                                                                         *)
(* Time is kept as ages.  A ping is timed out, and the last pong of an     *)
(* entry no longer recent, from age Old on (m_requestTimeToLive); an entry *)
(* of age Expired has no valid endpoint proof (c_bondingTimeSeconds).      *)
(*                                                                         *)
(* All actions run on the strand of the table.  The socket stays open.     *)
(***************************************************************************)
EXTENDS Naturals, Sequences, FiniteSets, SequencesExt

CONSTANTS
  Nodes,       \* ids of the remote nodes
  Endpoints,   \* their UDP endpoints
  Bins,        \* the buckets
  BinOf,       \* the bucket of a node: its distance to the host
  BucketSize,  \* s_bucketSize
  Alpha,       \* s_alpha
  MaxStimuli   \* bound: packets the remote nodes send of their own accord, their moves

ASSUME ConstantsAssumption ==
  /\ BinOf \in [Nodes -> Bins]
  /\ {BucketSize, Alpha} \subseteq Nat \ {0}
  /\ MaxStimuli \in Nat

VARIABLES
  table,    \* m_allNodes, m_buckets, m_sentPings and the queued events
  posted,   \* pings <<n, e>> and invalidations <<n, None>> posted to the strand
  found,    \* nodes with a FindNode request less than c_reqTimeoutMs old
  tried,    \* nodes asked in the running discovery
  restore,  \* known nodes of the saved state still to be added
  told,     \* nodes the host has in m_peers because of an event
  loc,      \* where the remote nodes are
  stimuli   \* remote packets and moves so far

vars == <<table, posted, found, tried, restore, told, loc, stimuli>>
-----------------------------------------------------------------------------
Old == 2
Expired == 3
None == "none"
Dead == <<>>
Copies == 1 .. Cardinality(Endpoints) + 1
Entries == Nodes \X Copies
NoPing == [node |-> None, age |-> 0, repl |-> Dead]

TypeOK ==
  /\ table.all \in [Nodes -> {0} \cup Copies]
  /\ table.ent \in [Entries -> [ep : Endpoints, age : 0 .. Expired]]
  /\ \A b \in Bins : table.bucket[b] \in Seq(Entries \cup {Dead})
  /\ table.sent \in [Endpoints -> [node : Nodes \cup {None}, age : 0 .. Old,
                                   repl : Entries \cup {Dead}]]
  /\ table.event \in [Nodes -> {None, "added", "dropped", "evict"}]
  /\ posted \in SUBSET (Nodes \X (Endpoints \cup {None}))
  /\ restore \in SUBSET (Nodes \X Endpoints)
  /\ {found, tried, told} \subseteq SUBSET Nodes
  /\ loc \in [Nodes -> Endpoints \cup {None}]
  /\ stimuli \in 0 .. MaxStimuli
-----------------------------------------------------------------------------
(* Operators on the table t *)

nodeEntry(t, n) == <<n, t.all[n]>>
haveNode(t, n) == t.all[n] # 0
hasValidEndpointProof(t, x) == t.ent[x].age < Expired
Owned(t) == {x \in Entries : t.all[x[1]] = x[2]} \cup {t.sent[e].repl : e \in Endpoints}

\* shared_ptrs went out of scope: weak pointers to entries nobody owns expire, and
\* the fields of those entries hold no information.
Blank == [ep |-> CHOOSE e \in Endpoints : TRUE, age |-> Expired]

Released(t) ==
  LET owned == Owned(t) IN
  [t EXCEPT
     !.bucket = [b \in Bins |-> [i \in DOMAIN t.bucket[b] |->
                   IF t.bucket[b][i] \in owned THEN t.bucket[b][i] ELSE Dead]],
     !.ent = [x \in Entries |-> IF x \in owned THEN t.ent[x] ELSE Blank]]

\* A NodeEntry object of n that is not in use.
FreeCopy(t, n) == CHOOSE i \in Copies : <<n, i>> \notin Owned(t)

ping(t, n, e, repl) ==
  IF t.sent[e].node # None THEN t
  ELSE [t EXCEPT !.sent[e] = [node |-> n, age |-> 0, repl |-> repl]]

evict(t, x, repl) ==
  [ping(t, x[1], t.ent[x].ep, repl) EXCEPT !.event[x[1]] = "evict"]

\* The entry x enters its bucket as most recently seen; m_allNodes.insert keeps an
\* entry that is already there.
Inserted(t, x, nodes) ==
  [t EXCEPT !.bucket[BinOf[x[1]]] = Append(nodes, x),
            !.all[x[1]] = IF @ = 0 THEN x[2] ELSE @,
            !.event[x[1]] = "added"]

\* Mutant: a full bucket makes room at once.
ReplacesFront(t, x) ==
  LET nodes == t.bucket[BinOf[x[1]]] IN
  CASE ~hasValidEndpointProof(t, x) -> t
    [] Contains(nodes, x) ->
         [t EXCEPT !.bucket[BinOf[x[1]]] = Append(Remove(nodes, x), x)]
    [] Len(nodes) < BucketSize -> Inserted(t, x, nodes)
    [] OTHER -> Inserted(t, x, Tail(nodes))

noteActiveNode(t, x) ==
  LET nodes == t.bucket[BinOf[x[1]]] IN
  CASE ~hasValidEndpointProof(t, x) -> t
    [] Contains(nodes, x) ->
         [t EXCEPT !.bucket[BinOf[x[1]]] = Append(Remove(nodes, x), x)]
    [] ~Contains(nodes, x) /\ Len(nodes) < BucketSize -> Inserted(t, x, nodes)
    [] ~Contains(nodes, x) /\ Len(nodes) >= BucketSize /\ Head(nodes) = Dead ->
         Inserted(t, x, Tail(nodes))
    [] OTHER -> evict(t, Head(nodes), x)

dropNode(t, n) ==
  [t EXCEPT !.bucket[BinOf[n]] = SelectSeq(@, LAMBDA x : x # nodeEntry(t, n)),
            !.all[n] = 0,
            !.event[n] = "dropped"]

\* addNode pings unless the node is known there with a valid proof or ponged recently.
NeedToPing(t, n, e) ==
  \/ ~haveNode(t, n)
  \/ /\ t.ent[nodeEntry(t, n)].ep # e \/ ~hasValidEndpointProof(t, nodeEntry(t, n))
     /\ t.ent[nodeEntry(t, n)].age >= Old

addNode(t, n, e) == posted' = IF NeedToPing(t, n, e) THEN posted \cup {<<n, e>>} ELSE posted

\* handlePong: the entry of the sender, created or updated.
PongEntry(t, n, e) ==
  IF haveNode(t, n)
  THEN [t EXCEPT !.ent[nodeEntry(t, n)] = [ep |-> e, age |-> 0]]
  ELSE [t EXCEPT !.ent[<<n, FreeCopy(t, n)>>] = [ep |-> e, age |-> 0]]

handlePong(t, n, e) ==
  LET old == t.sent[e].node
      kept == IF old # n /\ haveNode(t, old) THEN dropNode(t, old) ELSE t
      x == IF haveNode(kept, n) THEN nodeEntry(kept, n) ELSE <<n, FreeCopy(kept, n)>>
      ponged == [PongEntry(kept, n, e) EXCEPT !.sent[e] = NoPing]
  IN noteActiveNode(ponged, x)

\* doHandleTimeouts: one timed out ping, at endpoint e.  A node that has not ponged
\* since is dropped if the ping went to its endpoint; the replacement is kept for
\* activation if the pinged node was in the table, dropped or not.
Late(t) == {e \in Endpoints : t.sent[e].node # None /\ t.sent[e].age = Old}

\* Mutant: the node is dropped when it did answer since the ping.
DropsTheLively(acc, e) ==
  LET t == acc.t
      n == t.sent[e].node
      x == nodeEntry(t, n)
      silent == haveNode(t, n) /\ t.ent[x].age < Old /\ t.ent[x].ep = e
      erased == [(IF silent THEN dropNode(t, n) ELSE t) EXCEPT !.sent[e] = NoPing]
  IN [t |-> erased,
      activate |-> IF haveNode(t, n) /\ t.sent[e].repl # Dead
                   THEN Append(acc.activate, t.sent[e].repl) ELSE acc.activate]

PingTimedOut(acc, e) ==
  LET t == acc.t
      n == t.sent[e].node
      x == nodeEntry(t, n)
      silent == haveNode(t, n) /\ t.ent[x].age >= Old /\ t.ent[x].ep = e
      erased == [(IF silent THEN dropNode(t, n) ELSE t) EXCEPT !.sent[e] = NoPing]
  IN [t |-> erased,
      activate |-> IF haveNode(t, n) /\ t.sent[e].repl # Dead
                   THEN Append(acc.activate, t.sent[e].repl) ELSE acc.activate]

HandledTimeouts(t, order) ==
  LET acc == FoldLeft(PingTimedOut, [t |-> t, activate |-> <<>>], order)
  IN FoldLeft(noteActiveNode, acc.t, acc.activate)

\* An interval in which half of m_requestTimeToLive passes.
Aged(t) ==
  [t EXCEPT
     !.sent = [e \in Endpoints |->
        IF t.sent[e].node # None /\ t.sent[e].age < Old
        THEN [t.sent[e] EXCEPT !.age = @ + 1] ELSE t.sent[e]],
     !.ent = [x \in Entries |->
        IF x \in Owned(t) /\ t.ent[x].age < Old THEN [t.ent[x] EXCEPT !.age = @ + 1]
        ELSE t.ent[x]]]
-----------------------------------------------------------------------------
Init ==
  /\ table = [all |-> [n \in Nodes |-> 0],
              ent |-> [x \in Entries |-> Blank],
              bucket |-> [b \in Bins |-> <<>>],
              sent |-> [e \in Endpoints |-> NoPing],
              event |-> [n \in Nodes |-> None]]
  /\ loc \in [Nodes -> Endpoints \cup {None}]
  /\ \A m, n \in Nodes : m # n /\ loc[m] # None => loc[m] # loc[n]
  /\ restore = {<<n, loc[n]>> : n \in {m \in Nodes : loc[m] # None}}
  /\ posted = {} /\ found = {} /\ tried = {} /\ told = {}
  /\ stimuli = 0

Becomes(new) == \E t \in {new} : table' = Released(t)

Running == restore = {}
Stimulus == Running /\ stimuli < MaxStimuli /\ stimuli' = stimuli + 1

\* addKnownNode for a node of the saved state, with a valid endpoint proof or not.
addKnownNode(n, e, valid) ==
  LET x == <<n, 1>> IN
  /\ <<n, e>> \in restore
  /\ restore' = restore \ {<<n, e>>}
  /\ \/ /\ valid
        /\ Becomes(noteActiveNode([table EXCEPT !.ent[x] = [ep |-> e, age |-> Old]], x))
        /\ UNCHANGED posted
     \/ /\ ~valid
        /\ posted' = posted \cup {<<n, e>>}
        /\ UNCHANGED table
  /\ UNCHANGED <<found, tried, told, loc, stimuli>>

PostedPing(n, e) ==
  /\ Running
  /\ <<n, e>> \in posted
  /\ posted' = posted \ {<<n, e>>}
  /\ table' = ping(table, n, e, Dead)
  /\ UNCHANGED <<found, tried, restore, told, loc, stimuli>>

\* The node at e answers the ping sent there.
Pong(n, e) ==
  /\ Running
  /\ loc[n] = e /\ table.sent[e].node # None
  /\ Becomes(handlePong(table, n, e))
  /\ UNCHANGED <<posted, found, tried, restore, told, loc, stimuli>>

\* handlePingNode; a node of another network or protocol version is dropped.
PingNode(n, compatible) ==
  /\ Stimulus
  /\ loc[n] # None
  /\ \/ /\ ~compatible
        /\ Becomes(IF haveNode(table, n) THEN dropNode(table, n) ELSE table)
        /\ UNCHANGED posted
     \/ /\ compatible
        /\ addNode(table, n, loc[n])
        /\ Becomes(IF haveNode(table, n) THEN noteActiveNode(table, nodeEntry(table, n))
                   ELSE table)
  /\ UNCHANGED <<found, tried, restore, told, loc>>

\* A packet of a node known at the endpoint it comes from.
FromKnown(n) == haveNode(table, n) /\ table.ent[nodeEntry(table, n)].ep = loc[n]

\* handleFindNode and handleENRRequest answer a known node with a valid proof,
\* handleENRResponse takes any known node; the node is noted as active.
Request(n) ==
  /\ Stimulus
  /\ FromKnown(n)
  /\ Becomes(noteActiveNode(table, nodeEntry(table, n)))
  /\ UNCHANGED <<posted, found, tried, restore, told, loc>>

\* handleNeighbours: the answer names a node m at an endpoint e, perhaps a stale one.
Neighbours(n, m, e) ==
  /\ Stimulus
  /\ FromKnown(n)
  /\ found' = found \ {n}
  /\ IF n \in found THEN addNode(table, m, e) ELSE UNCHANGED posted
  /\ Becomes(noteActiveNode(table, nodeEntry(table, n)))
  /\ UNCHANGED <<tried, restore, told, loc>>

\* Live entries in the buckets: what nearestNodeEntries returns, in an order that
\* depends on the random target.
Nearest(t) == {x \in Entries : Contains(t.bucket[BinOf[x[1]]], x)}

Pinged(t, x) == ping(t, x[1], t.ent[x].ep, Dead)

\* doDiscoveryRound: FindNode to at most Alpha nodes not tried yet, a ping to those
\* met before whose proof expired.  A round that asks nobody ends the discovery, as
\* does the last one.
DiscoveryRound(ask, renew, last) ==
  LET untried == {x \in Nearest(table) : x[1] \notin tried}
      valid == {x \in untried : hasValidEndpointProof(table, x)}
  IN
  /\ Running
  /\ ask \subseteq valid /\ renew \subseteq untried \ valid
  /\ Cardinality(ask) <= Alpha
  /\ Cardinality(ask) < Alpha => ask = valid /\ renew = untried \ valid
  /\ table' = FoldLeft(Pinged, table, SetToSeq(renew))
  /\ found' = found \cup {x[1] : x \in ask}
  /\ tried' = IF ask = {} \/ last THEN {} ELSE tried \cup {x[1] : x \in ask}
  /\ UNCHANGED <<posted, restore, told, loc, stimuli>>

doHandleTimeouts ==
  /\ Running
  /\ Late(table) # {}
  /\ \E order \in SetToSeqs(Late(table)) : Becomes(HandledTimeouts(table, order))
  /\ UNCHANGED <<posted, found, tried, restore, told, loc, stimuli>>

\* Time passes: requests get older, or the proof of a node expires.  FindNode requests
\* are answered long before pings time out.
Elapse ==
  /\ Running
  /\ Aged(table) # table
  /\ table' = Aged(table)
  /\ found' = {}
  /\ UNCHANGED <<posted, tried, restore, told, loc, stimuli>>

ProofExpires(n) ==
  /\ Running
  /\ haveNode(table, n) /\ table.ent[nodeEntry(table, n)].age = Old
  /\ table' = [table EXCEPT !.ent[nodeEntry(table, n)].age = Expired]
  /\ UNCHANGED <<posted, found, tried, restore, told, loc, stimuli>>

\* addBootNodes, every thirty seconds: a boot node that is not in the table is added
\* again; by the time its proof is invalidated it may be.
AddBootNode(n, e) ==
  /\ Stimulus
  /\ ~haveNode(table, n)
  /\ posted' = posted \cup {<<n, e>>, <<n, None>>}
  /\ UNCHANGED <<table, found, tried, restore, told, loc>>

invalidateNode(n) ==
  /\ <<n, None>> \in posted
  /\ posted' = posted \ {<<n, None>>}
  /\ table' = IF haveNode(table, n)
              THEN [table EXCEPT !.ent[nodeEntry(table, n)].age = Expired] ELSE table
  /\ UNCHANGED <<found, tried, restore, told, loc, stimuli>>

\* NodeTableEventHandler::processEvents with Host::onNodeTableEvent.
processEvents ==
  LET added == {n \in Nodes : table.event[n] = "added" /\ haveNode(table, n)}
      dropped == {n \in Nodes : table.event[n] = "dropped"}
  IN
  /\ \E n \in Nodes : table.event[n] # None
  /\ told' = (told \cup added) \ dropped
  /\ table' = [table EXCEPT !.event = [n \in Nodes |-> None]]
  /\ UNCHANGED <<posted, found, tried, restore, loc, stimuli>>

\* A node changes its endpoint, stops or starts.  No two nodes share one.
Move(n, e) ==
  /\ Stimulus
  /\ e # loc[n] /\ (e # None => \A m \in Nodes : loc[m] # e)
  /\ loc' = [loc EXCEPT ![n] = e]
  /\ UNCHANGED <<table, posted, found, tried, restore, told>>

Next ==
  \/ \E n \in Nodes, e \in Endpoints :
       \/ \E valid \in BOOLEAN : addKnownNode(n, e, valid)
       \/ PostedPing(n, e) \/ Pong(n, e) \/ AddBootNode(n, e)
       \/ \E m \in Nodes : Neighbours(m, n, e)
  \/ \E n \in Nodes :
       \/ \E ok \in BOOLEAN : PingNode(n, ok)
       \/ Request(n) \/ ProofExpires(n) \/ invalidateNode(n)
       \/ \E e \in Endpoints \cup {None} : Move(n, e)
  \/ \E ask \in SUBSET Nearest(table), renew \in SUBSET Nearest(table), last \in BOOLEAN :
       DiscoveryRound(ask, renew, last)
  \/ doHandleTimeouts \/ Elapse \/ processEvents

Spec == Init /\ [][Next]_vars

\* The timers and the strand run on, datagrams between live nodes get through in the
\* end, and time passes: weak fairness of each of these, with the condition under which
\* it can take a step spelled out.
NetworkStep ==
  \E n \in Nodes, e \in Endpoints :
    (\E valid \in BOOLEAN : addKnownNode(n, e, valid)) \/ PostedPing(n, e) \/ Pong(n, e)
NetworkReady ==
  \/ ~Running
  \/ \E w \in posted : w[2] # None
  \/ \E n \in Nodes : loc[n] # None /\ table.sent[loc[n]].node # None

ExpiryStep == \E n \in Nodes : invalidateNode(n) \/ ProofExpires(n)
ExpiryReady ==
  \/ \E w \in posted : w[2] = None
  \/ Running /\ \E n \in Nodes : haveNode(table, n) /\ table.ent[nodeEntry(table, n)].age = Old

RoundStep ==
  \E ask \in SUBSET Nearest(table), renew \in SUBSET Nearest(table), last \in BOOLEAN :
    DiscoveryRound(ask, renew, last)
RoundReady ==
  /\ Running
  /\ \/ tried # {}
     \/ \E x \in Nearest(table) :
          hasValidEndpointProof(table, x) \/ table.sent[table.ent[x].ep].node = None

Fairness ==
  /\ []<>(~NetworkReady) \/ []<><<NetworkStep>>_vars
  /\ []<>(~ExpiryReady) \/ []<><<ExpiryStep>>_vars
  /\ []<>(~RoundReady) \/ []<><<RoundStep>>_vars
  /\ []<>(~(Running /\ Late(table) # {})) \/ []<><<doHandleTimeouts>>_vars
  /\ []<>(~(Running /\ Aged(table) # table)) \/ []<><<Elapse>>_vars

FairSpec == Spec /\ Fairness
-----------------------------------------------------------------------------
\* Every node of m_allNodes is in its bucket: "all nodes that were added into node
\* table's buckets and have not been evicted yet" (NodeTable.h:350), whatever
\* replacements and endpoint changes did, and no bucket exceeds its size.
AllNodesInBuckets ==
  /\ \A n \in Nodes : haveNode(table, n) => Contains(table.bucket[BinOf[n]], nodeEntry(table, n))
  /\ \A b \in Bins : Len(table.bucket[b]) <= BucketSize

\* The host drops every node that left the table: while it still lists one, the
\* "dropped" event is on its way and no later event has overwritten it
\* (NodeTable.h:47-51).
HostForgetsDropped ==
  \A n \in told : haveNode(table, n) \/ table.event[n] = "dropped"

\* What the table, its buckets and the host hold agrees.
TableAgrees == AllNodesInBuckets /\ HostForgetsDropped

\* Once the remote nodes have settled, the table is left with nodes that answer at the
\* endpoint it has for them, however stale the restored state, the neighbours' reports
\* and the pings in flight were.
TableSettles ==
  <>[](\A n \in Nodes : haveNode(table, n) => table.ent[nodeEntry(table, n)].ep = loc[n])
=============================================================================
