----------------------------- MODULE EthFilters -----------------------------
(***************************************************************************)
(* How the logs of executed blocks reach JSON-RPC clients: through          *)
(* eth_getLogs, which finds the blocks in the two-level index of log blooms *)
(* that FinalChain::appendBlock maintains, and through the watches of       *)
(* eth_newFilter, which note_block_executed feeds when the thread pool      *)
(* comes to the event of the block, in no order.                            *)
(* A block is the sequence of its receipts, a receipt the sequence of its   *)
(* logs, a bloom the set of bits of what was shifted into it.               *)
(***************************************************************************)
EXTENDS Integers, FiniteSets, Sequences, SequencesExt, FiniteSetsExt

CONSTANTS
  Blocks,             \* the blocks that may be executed
  Filters,            \* the filters of the clients
  Bits,               \* the three bits of an address or a topic in a bloom
  Author,             \* the author of the blocks, which the index blooms hold too
  c_bloomIndexSize, c_bloomIndexLevels,
  Stray,              \* what a read behind the topics of a log may find
  MaxBlocks,          \* bound: executed blocks
  MaxWatches          \* bound: watches ever installed

VARIABLES
  blocks,   \* the executed blocks, the genesis block first
  index,    \* the column final_chain_log_blooms_index
  events,   \* the numbers of blocks whose event the thread pool holds
  watches,  \* the installed log watches
  stray     \* the memory behind the topics

vars == <<blocks, index, events, watches, stray>>

LastBlockNumber == Len(blocks) - 1

Levels == 0 .. c_bloomIndexLevels - 1
Slots == 0 .. c_bloomIndexSize - 1
NoBlooms == [o \in Slots |-> {}]

-----------------------------------------------------------------------------
(* Blooms.                                                                  *)
LogBloom(e) == Bits[e.address] \cup UNION {Bits[e.topics[i]] : i \in DOMAIN e.topics}
ReceiptBloom(r) == UNION {LogBloom(r[i]) : i \in DOMAIN r}
HeaderBloom(b) == UNION {ReceiptBloom(b[i]) : i \in DOMAIN b}

(* Squared with every step: the power only up to n = 2, which two levels of *)
(* the index need.                                                          *)
int_pow(base, n) == IF n = 0 THEN 1 ELSE FoldSet(LAMBDA i, acc : acc * acc, base, 2..n)

blockBlooms(level, i) ==
  IF <<level, i>> \in DOMAIN index THEN index[<<level, i>>] ELSE NoBlooms

(* The chunks that the block n touches, one on each level, and the slot it  *)
(* has in each.                                                             *)
Chunk(level, n) == <<level, n \div int_pow(c_bloomIndexSize, level + 1)>>
Slot(level, n) == (n \div int_pow(c_bloomIndexSize, level)) % c_bloomIndexSize

(* appendBlock: the bloom of the block is added to its chunks. *)
IndexWith(n, bloom) ==
  LET touched == {Chunk(level, n) : level \in Levels}
  IN  [c \in DOMAIN index \cup touched |->
         IF c \in touched
         THEN [blockBlooms(c[1], c[2]) EXCEPT ![Slot(c[1], n)] = @ \cup bloom]
         ELSE index[c]]

(* Mutant: the last slot of a range is left out. *)
EndExclusive(to, course, fine, i) ==
  IF i = to \div course THEN (to \div fine) % c_bloomIndexSize ELSE c_bloomIndexSize

(* The end of the slots of chunk i to look at. *)
oend(to, course, fine, i) ==
  IF i = to \div course THEN ((to \div fine) % c_bloomIndexSize) + 1 ELSE c_bloomIndexSize

obegin(from, course, fine, i) ==
  IF i = from \div course THEN (from \div fine) % c_bloomIndexSize ELSE 0

(* withBlockBloom on one chunk: descend where the bloom may be. *)
RECURSIVE withBlockBloomAt(_, _, _, _, _)
withBlockBloomAt(b, from, to, level, i) ==
  LET course == int_pow(c_bloomIndexSize, level + 1)
      fine == int_pow(c_bloomIndexSize, level)
      hits == {o \in obegin(from, course, fine, i) .. oend(to, course, fine, i) - 1 :
                 b \subseteq blockBlooms(level, i)[o]}
  IN  IF level > 0
      THEN UNION {withBlockBloomAt(b, from, to, level - 1, o + i * c_bloomIndexSize) : o \in hits}
      ELSE {n \in {o + i * c_bloomIndexSize : o \in hits} : from <= n /\ n <= to}

withBlockBloom(b, from, to) ==
  LET u == int_pow(c_bloomIndexSize, c_bloomIndexLevels)
  IN  UNION {withBlockBloomAt(b, from, to, c_bloomIndexLevels - 1, i) :
               i \in from \div u .. (to + u - 1) \div u}

-----------------------------------------------------------------------------
(* LogFilter.                                                               *)
is_range_only_(f) == f.addresses = {} /\ \A i \in DOMAIN f.topics : f.topics[i] = {}

(* One bloom for every choice of an address and of a topic for every        *)
(* position that names some.                                                *)
bloomPossibilities(f) ==
  LET named == {i \in DOMAIN f.topics : f.topics[i] # {}}
      Picks == {c \in [named -> UNION Range(f.topics)] : \A i \in named : c[i] \in f.topics[i]}
      OfTopics == {UNION {Bits[c[i]] : i \in named} : c \in Picks}
      OfAddress == IF f.addresses = {} THEN {{}} ELSE {Bits[a] : a \in f.addresses}
  IN  {a \cup t : a \in OfAddress, t \in OfTopics}

matches(f, bloom) ==
  /\ f.addresses = {} \/ \E a \in f.addresses : Bits[a] \subseteq bloom
  /\ \A i \in DOMAIN f.topics :
       f.topics[i] = {} \/ \E t \in f.topics[i] : Bits[t] \subseteq bloom

(* The topic at position i; the test e.topics.size() < i lets the position  *)
(* behind the last topic through.                                           *)
TopicAt(e, i) == IF i <= Len(e.topics) THEN e.topics[i] ELSE stray

LogMatches(f, e) ==
  /\ f.addresses = {} \/ e.address \in f.addresses
  /\ \A i \in DOMAIN f.topics :
       f.topics[i] = {} \/ (Len(e.topics) + 1 >= i /\ TopicAt(e, i) \in f.topics[i])

blk_number_matches(f, n) == f.from <= n /\ (f.to = -1 \/ n <= f.to)

(* The logs of receipt i of block n that pass the filter. *)
match_one(f, n, i) ==
  LET r == blocks[n + 1][i]
  IN  IF ~blk_number_matches(f, n) THEN {}
      ELSE IF is_range_only_(f) THEN {<<n, i, k>> : k \in DOMAIN r}
      ELSE IF ~matches(f, ReceiptBloom(r)) THEN {}
      ELSE {<<n, i, k>> : k \in {k \in DOMAIN r : LogMatches(f, r[k])}}

MatchBlock(f, n) == UNION {match_one(f, n, i) : i \in DOMAIN blocks[n + 1]}

(* eth_getLogs. *)
match_all(f) ==
  LET to == IF f.to = -1 \/ f.to > LastBlockNumber THEN LastBlockNumber ELSE f.to
      chosen == IF is_range_only_(f) THEN f.from .. to
                ELSE UNION {withBlockBloom(b, f.from, to) : b \in bloomPossibilities(f)}
  IN  UNION {MatchBlock(f, n) : n \in chosen}

-----------------------------------------------------------------------------
Init ==
  /\ blocks = << << >> >>
  /\ index = [c \in {Chunk(level, 0) : level \in Levels} |->
                [NoBlooms EXCEPT ![0] = Bits[Author]]]
  /\ events = {}
  /\ watches = << >>
  /\ stray \in Stray

(* A block is executed: appended, indexed, announced. *)
appendBlock(b) ==
  /\ Len(blocks) <= MaxBlocks
  /\ blocks' = Append(blocks, b)
  /\ index' = IndexWith(Len(blocks), HeaderBloom(b) \cup Bits[Author])
  /\ events' = events \cup {Len(blocks)}
  /\ UNCHANGED <<watches, stray>>

Installed == {w \in DOMAIN watches : watches[w].installed}

(* eth_newFilter: the watch starts empty.  The node configures no limit.    *)
install_watch(f) ==
  /\ Len(watches) < MaxWatches
  /\ watches' = Append(watches, [filter |-> f, installed |-> TRUE, updates |-> << >>,
                                 polled |-> << >>, noted |-> {}])
  /\ UNCHANGED <<blocks, index, events, stray>>

(* eth_uninstallFilter, or the cleaner after the idle timeout. *)
uninstall_watch(w) ==
  /\ w \in Installed
  /\ watches' = [watches EXCEPT ![w].installed = FALSE]
  /\ UNCHANGED <<blocks, index, events, stray>>

ReceiptsNoted(n) == 1 .. Len(blocks[n + 1])

(* note_block_executed: every receipt of the block, for every watch. *)
note_block_executed(n) ==
  /\ n \in events
  /\ events' = events \ {n}
  /\ watches' = [w \in DOMAIN watches |->
       IF ~watches[w].installed THEN watches[w]
       ELSE [watches[w] EXCEPT
               !.updates = @ \o SetToSeq(UNION {match_one(watches[w].filter, n, i) :
                                                  i \in ReceiptsNoted(n)}),
               !.noted = @ \cup {n}]]
  /\ UNCHANGED <<blocks, index, stray>>

(* eth_getFilterChanges. *)
poll(w) ==
  /\ w \in Installed
  /\ watches[w].updates # << >>
  /\ watches' = [watches EXCEPT ![w].polled = @ \o watches[w].updates, ![w].updates = << >>]
  /\ UNCHANGED <<blocks, index, events, stray>>

Next ==
  \/ \E b \in Blocks : appendBlock(b)
  \/ \E f \in Filters : install_watch(f)
  \/ \E w \in DOMAIN watches : uninstall_watch(w) \/ poll(w)
  \/ \E n \in events : note_block_executed(n)

Spec == Init /\ [][Next]_vars

-----------------------------------------------------------------------------
(* What a filter asks for: the logs in its range with one of its addresses  *)
(* and, at every position that names topics, one of them.                   *)
Wanted(f, e) ==
  /\ f.addresses # {} => e.address \in f.addresses
  /\ \A i \in DOMAIN f.topics :
       f.topics[i] # {} => i <= Len(e.topics) /\ e.topics[i] \in f.topics[i]

LogsOf(n) == {<<n, i, k>> : i \in DOMAIN blocks[n + 1], k \in 1..3}
Log(l) == blocks[l[1] + 1][l[2]][l[3]]

(* The log has no topic at a position that names some, but the one before;  *)
(* LogFilter.cpp:97 compares what is behind the last topic then.             *)
OneTopicShort(f, e) == \E i \in DOMAIN f.topics : f.topics[i] # {} /\ Len(e.topics) + 1 = i

(* eth_getLogs misses no log: the index, the bloom possibilities and the    *)
(* bloom of the receipt let every wanted log of the range through.  A log    *)
(* that is not wanted comes in addition only when it is one topic short.     *)
LogsFound ==
  \A f \in Filters :
    LET range == {n \in f.from .. LastBlockNumber : f.to = -1 \/ n <= f.to}
        logs == {l \in UNION {LogsOf(n) : n \in range} : l[3] \in DOMAIN blocks[l[1] + 1][l[2]]}
    IN  /\ {l \in logs : Wanted(f, Log(l))} \subseteq match_all(f)
        /\ \A l \in match_all(f) : Wanted(f, Log(l)) \/ OneTopicShort(f, Log(l))

(* A client that polls its watch gets each log once, and the same logs that *)
(* eth_getLogs reports for the blocks its watch has seen.                   *)
ChangesAreTheLogs ==
  \A w \in DOMAIN watches :
    LET got == watches[w].polled \o watches[w].updates
    IN  /\ IsInjective(got)
        /\ Range(got) = {l \in match_all(watches[w].filter) : l[1] \in watches[w].noted}
=============================================================================
