------------------------------ MODULE Gossip -------------------------------
(***************************************************************************)
(* Gossip of transactions and DAG blocks (the transaction and DAG block    *)
(* packet handlers, TaraxaPeer, ExpirationBlockNumberCache): what a node   *)
(* believes its peers know, the transactions it sends from its pool, in    *)
(* full and as mere hashes, and the blocks it sends along with the         *)
(* transactions the peer seems not to know.                                *)
(*                                                                         *)
(* A channel <<n, p>> holds the packets n sent and p has not handled: those *)
(* on the wire, in order, and those in the thread pool of p, which handles *)
(* transaction packets in any order but no DAG block packet before an      *)
(* earlier transaction packet of the same peer (packets_blocking_mask).    *)
(* A session may break and another one be made.  What is on the wire, a    *)
(* suffix of the channel, is lost and both ends get new TaraxaPeer         *)
(* objects.  A packet that had reached the thread pool is dropped when its *)
(* turn comes between two sessions and handled otherwise, also in a later  *)
(* session than the one it was sent in.  Transactions are valid, the pools *)
(* do not overflow, no node is syncing or restarts.                        *)
(***************************************************************************)
EXTENDS Naturals, Sequences, FiniteSets, SequencesExt

CONSTANTS
  Nodes,
  Links,            \* pairs <<n, p>> of connected nodes, both ways
  Accounts,         \* sequences of transactions in nonce order, one per account
  MaxTransactions,  \* kMaxTransactionsInPacket
  MaxHashes,        \* kMaxHashesInPacket
  CacheSize,        \* kMaxSize of the caches of a peer
  DeleteStep,       \* kDeleteStep
  BlocksToKeep,     \* kBlocksToKeep
  MaxInFlight,      \* bound: packets of a channel
  MaxHeight,        \* bound: PBFT blocks during the run
  MaxBreaks         \* bound: sessions of a link that break

VARIABLES
  pool,     \* transactions of the pool, per node
  dag,      \* transactions of DAG blocks the node has
  blocks,   \* DAG blocks of the node, each the set of its transactions
  known,    \* known_transactions_ and known_dag_blocks_ of the TaraxaPeer of p at n
  channel,
  height,   \* pbft_chain_size_ of the peers
  session,  \* per link whether the peer is in peers_, and how many sessions broke
  missed    \* blocks that came without a transaction: link, sent in an earlier session

vars == <<pool, dag, blocks, known, channel, height, session, missed>>

Txs == UNION {ToSet(Accounts[a]) : a \in DOMAIN Accounts}
ConnectedPeers(n) == {p \in Nodes : <<n, p>> \in Links /\ session[<<n, p>>].up}
Held(n) == pool[n] \cup dag[n]
-----------------------------------------------------------------------------
(* ExpirationBlockNumberCache *)

Cache == [items |-> <<>>, last |-> 0]

contains(c, k) == \E i \in DOMAIN c.items : c.items[i].key = k

\* The entries at the front that are too old, when the block number grew.
Expired(c, h) ==
  IF h <= c.last THEN 0
  ELSE CHOOSE i \in 0 .. Len(c.items) :
         /\ \A j \in 1 .. i : h > BlocksToKeep /\ c.items[j].number < h - BlocksToKeep
         /\ i < Len(c.items) => ~(h > BlocksToKeep /\ c.items[i + 1].number < h - BlocksToKeep)

insert(c, k, h) ==
  LET kept == Append(SubSeq(c.items, Expired(c, h) + 1, Len(c.items)), [key |-> k, number |-> h])
      excess == IF Len(kept) > CacheSize THEN DeleteStep ELSE 0
  IN IF contains(c, k) THEN c
     ELSE [items |-> SubSeq(kept, excess + 1, Len(kept)),
           last |-> IF h > c.last THEN h ELSE c.last]

\* TaraxaPeer: the known transactions and blocks of one peer.
NewPeer == [txs |-> Cache, blocks |-> Cache]

isTransactionKnown(k, t) == contains(k.txs, t)
isDagBlockKnown(k, b) == contains(k.blocks, b)
markTransactionsAsKnown(k, txs) ==
  [k EXCEPT !.txs = FoldLeft(LAMBDA c, t : insert(c, t, height), @, txs)]
markDagBlockAsKnown(k, b) == [k EXCEPT !.blocks = insert(@, b, height)]
-----------------------------------------------------------------------------
(* Sending *)

UpTo(s, n) == SubSeq(s, 1, IF n < Len(s) THEN n ELSE Len(s))

\* transactionsToSendToPeer: the transactions the peer does not know, account after
\* account from index start on; past the limit only their hashes.  Also the account
\* the next peer starts with.
transactionsToSendToPeer(k, accounts, start) ==
  LET n == Len(accounts)
      from == [i \in 1 .. n |-> accounts[((start + i - 2) % n) + 1]]
      unknown == SelectSeq(FlattenSeq(from), LAMBDA t : ~isTransactionKnown(k, t))
      full == UpTo(unknown, MaxTransactions)
      ends == CHOOSE i \in 1 .. n :
                Len(full) = MaxTransactions => Contains(accounts[i], full[MaxTransactions])
  IN [txs |-> full,
      hashes |-> UpTo(SubSeq(unknown, Len(full) + 1, Len(unknown)), MaxHashes),
      next |-> IF Len(full) = MaxTransactions THEN (ends % n) + 1 ELSE (start % n) + 1]

\* Mutant: the hashes are marked as known for the peer as well.
SentWithHashes(s) == s.txs \o s.hashes

\* sendTransactions marks what it sent in full: "do not mark
\* packet.extra_transactions_hashes as known for peer".
Sent(s) == s.txs

\* periodicSendTransactions of node n to the peers in the given order.  acc holds the
\* TaraxaPeer objects and channels of n and the account index.
SendTo(acc, n, p, accounts) ==
  LET s == transactionsToSendToPeer(acc.known[<<n, p>>], accounts, acc.start)
      packet == [type |-> "transactions", txs |-> s.txs, hashes |-> s.hashes, block |-> {},
                 session |-> session[<<n, p>>].nr]
  IN IF s.txs = <<>> THEN [acc EXCEPT !.start = s.next]
     ELSE [known |-> [acc.known EXCEPT ![<<n, p>>] = markTransactionsAsKnown(@, Sent(s))],
           channel |-> [acc.channel EXCEPT ![<<n, p>>] = Append(@, packet)],
           start |-> s.next]

periodicSendTransactions(n, peers, accounts) ==
  LET acc == FoldLeft(LAMBDA a, p : SendTo(a, n, p, accounts),
                      [known |-> known, channel |-> channel, start |-> 1], peers)
  IN /\ accounts # <<>>
     /\ channel' = acc.channel /\ channel' # channel
     /\ known' = acc.known
     /\ UNCHANGED <<pool, dag, blocks, height, session, missed>>

\* sendBlockWithTransactions to a peer: only the block is marked as known.
sendBlockWithTransactions(l, k, b, txs) ==
  [known |-> markDagBlockAsKnown(k, b),
   sent |-> <<[type |-> "block", txs |-> txs, hashes |-> <<>>, block |-> b,
               session |-> session[l].nr]>>]

\* onNewBlockVerified: to each peer that does not know the block, with the transactions
\* it does not know.  k are the TaraxaPeer objects.
onNewBlockVerified(n, b, k) ==
  LET unknown(l) == SetToSeq({t \in b : ~isTransactionKnown(k[l], t)})
  IN [l \in Links |-> IF l[1] = n /\ session[l].up /\ ~isDagBlockKnown(k[l], b)
                      THEN sendBlockWithTransactions(l, k[l], b, unknown(l))
                      ELSE [known |-> k[l], sent |-> <<>>]]
-----------------------------------------------------------------------------
Init ==
  /\ pool = [n \in Nodes |-> {}]
  /\ dag = [n \in Nodes |-> {}]
  /\ blocks = [n \in Nodes |-> {}]
  /\ known = [l \in Links |-> NewPeer]
  /\ channel = [l \in Links |-> <<>>]
  /\ height = 0
  /\ session = [l \in Links |-> [up |-> TRUE, nr |-> 0]]
  /\ missed = {}

\* A transaction comes in through the RPC.
Submit(n, t) ==
  /\ \A m \in Nodes : t \notin Held(m)
  /\ pool' = [pool EXCEPT ![n] = @ \cup {t}]
  /\ UNCHANGED <<dag, blocks, known, channel, height, session, missed>>

\* sendTxs, every transaction_interval_ms, with getAllPoolTrxs in any order of accounts.
SendTransactions(n) ==
  LET mine == {SelectSeq(Accounts[a], LAMBDA t : t \in pool[n]) : a \in DOMAIN Accounts} \ {<<>>}
  IN /\ \A p \in ConnectedPeers(n) : Len(channel[<<n, p>>]) < MaxInFlight
     /\ \E peers \in SetToSeqs(ConnectedPeers(n)), accounts \in SetToSeqs(mine) :
          periodicSendTransactions(n, peers, accounts)

\* addDagBlock of a block of node n, gossip included.  k are the TaraxaPeer objects,
\* c the channels.
addDagBlock(n, b, k, c) ==
  LET g == onNewBlockVerified(n, b, k) IN
  /\ blocks' = [blocks EXCEPT ![n] = @ \cup {b}]
  /\ dag' = [dag EXCEPT ![n] = @ \cup b]
  /\ pool' = [pool EXCEPT ![n] = @ \ b]
  /\ known' = [l \in Links |-> g[l].known]
  /\ channel' = [l \in Links |-> c[l] \o g[l].sent]

\* The proposer packs the pool.
Propose(n) ==
  /\ pool[n] # {} /\ \A m \in Nodes : blocks[m] = {}
  /\ addDagBlock(n, pool[n], known, channel)
  /\ UNCHANGED <<height, session, missed>>

\* TransactionPacketHandler::process, at p.
HandleTransactions(p, n, packet, rest) ==
  /\ packet.type = "transactions"
  /\ known' = [known EXCEPT ![<<p, n>>] = markTransactionsAsKnown(@, packet.hashes \o packet.txs)]
  /\ pool' = [pool EXCEPT ![p] = @ \cup (ToSet(packet.txs) \ dag[p])]
  /\ channel' = rest
  /\ UNCHANGED <<dag, blocks, height, session, missed>>

\* onNewBlockReceived: a missing transaction leads to a DAG sync with the peer.
onNewBlockReceived(p, n, packet, k, rest) ==
  IF packet.block \subseteq ToSet(packet.txs) \cup Held(p)
  THEN addDagBlock(p, packet.block, k, rest) /\ UNCHANGED missed
  ELSE /\ missed' = missed \cup {[link |-> <<n, p>>, late |-> packet.session # session[<<p, n>>].nr]}
       /\ known' = k /\ channel' = rest
       /\ UNCHANGED <<pool, dag, blocks>>

\* DagBlockPacketHandler::process, at p.
HandleDagBlock(p, n, packet, rest) ==
  LET k == [known EXCEPT ![<<p, n>>] =
              markDagBlockAsKnown(markTransactionsAsKnown(@, packet.txs), packet.block)]
  IN
  /\ packet.type = "block"
  /\ IF packet.block \in blocks[p]
     THEN known' = k /\ channel' = rest /\ UNCHANGED <<pool, dag, blocks, missed>>
     ELSE onNewBlockReceived(p, n, packet, k, rest)
  /\ UNCHANGED <<height, session>>

\* The peer order block of DagBlockPackets by transaction packets being processed.
Blocked(queue, i) ==
  queue[i].type = "block" /\ \E j \in 1 .. i - 1 : queue[j].type = "transactions"

\* PacketHandler::processPacket: the packet of a peer that is not in peers_ is dropped.
\* The disconnection it asks for keeps a new session from being set up for now.
Handle(n, p) ==
  \E i \in DOMAIN channel[<<n, p>>] :
    LET packet == channel[<<n, p>>][i]
        rest == [channel EXCEPT ![<<n, p>>] = RemoveAt(@, i)]
    IN /\ ~Blocked(channel[<<n, p>>], i)
       /\ \/ /\ session[<<p, n>>].up
             /\ HandleTransactions(p, n, packet, rest) \/ HandleDagBlock(p, n, packet, rest)
          \/ /\ ~session[<<p, n>>].up
             /\ channel' = rest
             /\ UNCHANGED <<pool, dag, blocks, known, height, session, missed>>

Advance ==
  /\ height < MaxHeight
  /\ height' = height + 1
  /\ UNCHANGED <<pool, dag, blocks, known, channel, session, missed>>

Both(n, p) == {<<n, p>>, <<p, n>>}

\* A session breaks: both ends erase the peer, what is on the wire is lost.
Disconnect(n, p) ==
  /\ session[<<n, p>>].up /\ session[<<n, p>>].nr < MaxBreaks
  /\ session' = [l \in Links |-> IF l \in Both(n, p) THEN [up |-> FALSE, nr |-> session[l].nr + 1]
                                ELSE session[l]]
  /\ \E i \in 0 .. Len(channel[<<n, p>>]), j \in 0 .. Len(channel[<<p, n>>]) :
       channel' = [channel EXCEPT ![<<n, p>>] = UpTo(@, i), ![<<p, n>>] = UpTo(@, j)]
  /\ UNCHANGED <<pool, dag, blocks, known, height, missed>>

\* The next session, up to the initial status packets, with new TaraxaPeer objects.
Reconnect(n, p) ==
  /\ ~session[<<n, p>>].up
  /\ session' = [l \in Links |-> IF l \in Both(n, p) THEN [session[l] EXCEPT !.up = TRUE] ELSE session[l]]
  /\ known' = [l \in Links |-> IF l \in Both(n, p) THEN NewPeer ELSE known[l]]
  /\ UNCHANGED <<pool, dag, blocks, channel, height, missed>>

Next ==
  \/ \E n \in Nodes :
       \/ \E t \in Txs : Submit(n, t)
       \/ SendTransactions(n) \/ Propose(n)
  \/ \E l \in Links : Handle(l[1], l[2]) \/ Disconnect(l[1], l[2]) \/ Reconnect(l[1], l[2])
  \/ Advance

Spec == Init /\ [][Next]_vars
-----------------------------------------------------------------------------
\* A DAG block that is handled in the session it was sent in comes with the
\* transactions the receiver lacks, or finds them there.  It takes the sender's beliefs,
\* the limits of the transaction packets and the order of handling together.  A block
\* packet that outlives its session may come without: the transactions its sender
\* counted on were dropped between the sessions.
BlocksFindTheirTransactions == \A m \in missed : m.late
=============================================================================
