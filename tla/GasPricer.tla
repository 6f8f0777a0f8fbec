----------------------------- MODULE GasPricer -----------------------------
(***************************************************************************)
(* The gas price a node suggests: a percentile of the lowest prices of the *)
(* last blocks.  The constructor starts a thread that fills the ring of    *)
(* prices from the database, while the executor of the final chain commits *)
(* blocks and, once the application has subscribed, posts an update for    *)
(* each of them to a pool of one thread.  An entry of the ring is          *)
(* represented by the block it was taken from.                             *)
(***************************************************************************)
EXTENDS Integers, Sequences, FiniteSets, SequencesExt

CONSTANTS blocks,         \* config gas_price.blocks, the capacity of the ring
          kPercentile, kMinimumPrice,
          Lowest,         \* lowest gas prices of a block; NoTrxs when it is empty
          NoTrxs,
          FirstKept,      \* first period that a light node still has
          MaxBlocks

VARIABLES chain,          \* the lowest price of each executed block
          emitting,       \* the executor has committed a block and not yet emitted it
          subscribed,     \* App::start has subscribed the updater
          updates,        \* blocks whose update waits in subscription_pool_
          init,           \* the init thread: where it is and the block it starts from
          price_list_,
          latest_price_,
          first           \* history: first block whose event the updater gets; 0 before it subscribes

vars == <<chain, emitting, subscribed, updates, init, price_list_, latest_price_, first>>

Priced(n) == chain[n] \notin {NoTrxs, 0}

(* The sorted prices are indexed from zero. *)
NewPrice(list) ==
  LET prices == SortSeq([i \in DOMAIN list |-> chain[list[i]]], <)
  IN prices[((Len(prices) - 1) * kPercentile) \div 100 + 1]

(* boost::circular_buffer::push_back *)
push_back(list, n) == Append(IF Len(list) = blocks THEN Tail(list) ELSE list, n)

bid == IF latest_price_ > kMinimumPrice THEN latest_price_ ELSE kMinimumPrice

-----------------------------------------------------------------------------
Init == /\ chain \in UNION {[1..k -> Lowest] : k \in 0..(MaxBlocks - 2)}
        /\ emitting = FALSE /\ subscribed = FALSE /\ updates = <<>>
        /\ init = [at |-> "start", block_num |-> 0]
        /\ price_list_ = <<>> /\ latest_price_ = kMinimumPrice /\ first = 0

(* init reads the number of the last block before it takes the lock. *)
ReadLastNumber ==
  /\ init.at = "start"
  /\ init' = [at |-> IF chain = <<>> THEN "done" ELSE "fill", block_num |-> Len(chain)]
  /\ UNCHANGED <<chain, emitting, subscribed, updates, price_list_, latest_price_, first>>

(* Mutant: the older block goes behind the newer ones. *)
FilledBehind(list, older) == list \o Reverse(older)

(* Each older block is pushed to the front. *)
Filled(list, older) == older \o list

(* The blocks init takes: the newest priced ones that fit, among those that the node still has. *)
Older ==
  LET priced == SelectSeq([i \in 1..init.block_num |-> i], LAMBDA n : Priced(n) /\ n >= FirstKept)
      free == blocks - Len(price_list_)
  IN IF Len(priced) <= free THEN priced ELSE SubSeq(priced, Len(priced) - free + 1, Len(priced))

FillFromDb ==
  /\ init.at = "fill"
  /\ init' = [init EXCEPT !.at = "done"]
  /\ price_list_' = Filled(price_list_, Older)
  /\ latest_price_' = IF price_list_' = <<>> THEN latest_price_ ELSE NewPrice(price_list_')
  /\ UNCHANGED <<chain, emitting, subscribed, updates, first>>

(* The batch of a block is committed, LAST_NUMBER with it; the event follows. *)
Commit(price) ==
  /\ Len(chain) < MaxBlocks /\ ~emitting
  /\ chain' = Append(chain, price) /\ emitting' = TRUE
  /\ UNCHANGED <<subscribed, updates, init, price_list_, latest_price_, first>>

Emit ==
  /\ emitting /\ emitting' = FALSE
  /\ updates' = IF subscribed THEN Append(updates, Len(chain)) ELSE updates
  /\ UNCHANGED <<chain, subscribed, init, price_list_, latest_price_, first>>

Subscribe ==
  /\ ~subscribed /\ subscribed' = TRUE
  /\ first' = IF emitting THEN Len(chain) ELSE Len(chain) + 1
  /\ UNCHANGED <<chain, emitting, updates, init, price_list_, latest_price_>>

update ==
  /\ updates # <<>>
  /\ updates' = Tail(updates)
  /\ price_list_' = IF Priced(updates[1]) THEN push_back(price_list_, updates[1]) ELSE price_list_
  /\ latest_price_' = IF Priced(updates[1]) THEN NewPrice(price_list_') ELSE latest_price_
  /\ UNCHANGED <<chain, emitting, subscribed, init, first>>

Next == ReadLastNumber \/ FillFromDb \/ (\E p \in Lowest : Commit(p)) \/ Emit \/ Subscribe \/ update

Spec == Init /\ [][Next]_vars

-----------------------------------------------------------------------------
(* The blocks whose events have been handled are those up to upto. *)
upto == Len(chain) - Len(updates) - (IF emitting THEN 1 ELSE 0)

LastPriced(from) ==
  LET priced == SelectSeq([i \in 1..upto |-> i], LAMBDA n : Priced(n) /\ n >= from)
      excess == Len(priced) - blocks
  IN IF excess > 0 THEN SubSeq(priced, excess + 1, Len(priced)) ELSE priced

Updated == {n \in first..upto : first # 0 /\ Priced(n)}

(* The price is based "on the lowest price in last number_of_blocks blocks"  *)
(* (gas_pricer.hpp) from the time on when number_of_blocks updates were       *)
(* handled, whatever the init thread and the first updates did to the ring.   *)
(* Before that it is so when the updates begin with the block after the one   *)
(* that init starts from; otherwise blocks between the two may be missing, or *)
(* the last one be in the ring twice.  The bid is always that of the ring.    *)
PricesAreRecent ==
  /\ Cardinality(Updated) >= blocks => price_list_ = LastPriced(first)
  /\ init.at = "done" /\ first = init.block_num + 1 =>
       price_list_ = LastPriced(IF FirstKept < first THEN FirstKept ELSE first)
  /\ bid = IF price_list_ = <<>> THEN kMinimumPrice ELSE Max({kMinimumPrice, NewPrice(price_list_)})
=============================================================================
