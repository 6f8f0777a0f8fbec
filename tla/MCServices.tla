----------------------------- MODULE MCServices -----------------------------
(***************************************************************************)
(* Small instances of the components that serve peers and clients.  A      *)
(* behaviour is one of a single component, the one that focus names: the   *)
(* sessions (PeerSessions), which have their own variables, or one of the  *)
(* others, which share the variables s1 to s14.  Variables that the        *)
(* component in focus does not need stay as they are.                      *)
(*                                                                         *)
(* The sessions are those with one peer, which is a boot node or not, and  *)
(* one other peer, with one failure.                                       *)
(***************************************************************************)
EXTENDS PeerSessions, Integers, Sequences

VARIABLES focus, s1, s2, s3, s4, s5, s6, s7, s8, s9, s10, s11, s12, s13, s14

shared == <<s1, s2, s3, s4, s5, s6, s7, s8, s9, s10, s11, s12, s13, s14>>

-----------------------------------------------------------------------------
(* Packets of two sizes around the limit of a frame, some compressed. *)
Frames == INSTANCE SessionFrames WITH
  MaxPacketSize <- 4, MinCompression <- 3, Sizes <- {2, 3, 4, 8},
  MaxPackets <- [e \in {"initiator", "recipient"} |-> IF e = "initiator" THEN 2 ELSE 1],
  end <- s1

(* Two nodes, one account with two transactions. *)
Gossips == INSTANCE Gossip WITH
  Nodes <- {"n1", "n2"}, Links <- {<<"n1", "n2">>, <<"n2", "n1">>}, Accounts <- << <<"t1", "t2">> >>,
  MaxTransactions <- 1, MaxHashes <- 1, CacheSize <- 2, DeleteStep <- 1, BlocksToKeep <- 0,
  MaxInFlight <- 2, MaxHeight <- 1, MaxBreaks <- 1,
  pool <- s1, dag <- s2, blocks <- s3, known <- s4, channel <- s5, height <- s6, session <- s7,
  missed <- s8

Log(address, topics) == [address |-> address, topics |-> topics]
logA == Log("a", <<"t">>)
logB == Log("b", <<"t", "u">>)
Filter(from, to, addresses, topics) ==
  [from |-> from, to |-> to, addresses |-> addresses, topics |-> topics]

(* Four blocks with the logs of two contracts; blooms whose bits collide. *)
LogFilters == INSTANCE EthFilters WITH
  Blocks <- { << <<logA>> >>, << <<logA>>, <<logB>> >> },
  Filters <- { Filter(0, -1, {}, << {}, {} >>), Filter(2, 3, {"a", "b"}, << {}, {"u"} >>),
               Filter(1, -1, {"b"}, << {"t", "u"}, {} >>) },
  Bits <- [a |-> {1}, b |-> {2}, t |-> {3}, u |-> {1, 3}, author |-> {2}], Author <- "author",
  c_bloomIndexSize <- 2, c_bloomIndexLevels <- 2, Stray <- {"u"}, MaxBlocks <- 4, MaxWatches <- 1,
  blocks <- s1, index <- s2, events <- s3, watches <- s4, stray <- s5

(* Two clients, one of which subscribes twice. *)
Ws == INSTANCE WsSessions WITH
  Clients <- {"c1", "c2"}, Events <- { <<"HEADS", "PBFT_BLOCK_EXECUTED">> }, Forms <- {TRUE},
  MaxRequests <- [c1 |-> 2, c2 |-> 0], MaxEvents <- 1, None <- "none",
  running <- s1, sessions_ <- s2, accepting <- s3, ws <- s4, jobs <- s5, casts <- s6

Texts == { <<>>, <<0>>, <<8, 1>>, [i \in 1..17 |-> 9] }
Type(kind, of) == [kind |-> kind, of |-> of]
IntType == Type("int", <<>>)
ObjectType ==
  Type("tuple", <<IntType, Type("sequence", <<Type("optional", <<Type("tuple", <<IntType>>)>>)>>),
                  Type("bytes", <<>>)>>)
Value(n, bytes, elements) == [n |-> n, bytes |-> bytes, elements |-> elements]
Number(n) == Value(n, <<>>, <<>>)
Compound(elements) == Value(0, <<>>, elements)
Options == { Compound(<<>>), Compound(<<Compound(<<Number(0)>>)>>), Compound(<<Compound(<<Number(-40)>>)>>) }

Written ==
  { [type |-> ObjectType,
     value |-> Compound(<<Number(n), Compound([i \in 1..k |-> o]), Value(0, b, <<>>)>>)] :
    n \in {-300, -1, 0, 9, 20}, k \in 0..3, o \in Options, b \in Texts }

(* Bytes of base 12, so that every form of a header is met with short data. *)
Codec == INSTANCE Rlp WITH
  Radix <- 12, c_rlpDataImmLenStart <- 4, c_rlpListStart <- 8, c_rlpMaxLengthBytes <- 2,
  Strings <- Texts, Ints <- {0, 3, 300}, Objects <- Written,
  MaxItems <- 3, MaxAppends <- 5, MaxReceived <- 4,
  stream <- s1, doc <- s2, calls <- s3, object <- s4, rlp <- s5, asked <- s6

(* A ring of two prices, four blocks, of which a light node lost the first. *)
Pricer == INSTANCE GasPricer WITH
  blocks <- 2, kPercentile <- 60, kMinimumPrice <- 1, Lowest <- {0, 2, 3, 9}, NoTrxs <- 9,
  FirstKept <- 2, MaxBlocks <- 4,
  chain <- s1, emitting <- s2, subscribed <- s3, updates <- s4, init <- s5, price_list_ <- s6,
  latest_price_ <- s7, first <- s8

DagBlocks == [sender : {"v1", "v2"}, trxs : { <<>>, <<"t1">>, <<"t2">>, <<"t2", "t1">>, <<"old", "t1">> },
              difficulty : 1..2]
Trxs(dags) == UNION { {dags[i].trxs[j] : j \in DOMAIN dags[i].trxs} : i \in DOMAIN dags } \ {"old"}

(* Up to two DAG blocks of two validators, with repeated and with finalized transactions. *)
Rewards == INSTANCE BlockStats WITH
  Validators <- {"v1", "v2"},
  Periods <- { [dag_blocks |-> dags, transactions |-> SelectSeq(<<"t1", "t2">>, LAMBDA t : t \in Trxs(dags)),
                votes |-> votes] :
               dags \in { <<>> } \cup { <<d>> : d \in DagBlocks } \cup (DagBlocks \X DagBlocks),
               votes \in { <<>>, <<[voter |-> "v1", weight |-> 2], [voter |-> "v2", weight |-> 1]>>,
                           <<[voter |-> "v1", weight |-> 2], [voter |-> "v1", weight |-> 1]>> } },
  GasPrice <- [t1 |-> 1, t2 |-> 3], kCommitteeSize <- 4, DposVoteCount <- 3,
  blk <- s1, fork <- s2, gasUsed <- s3, fee_by_trx_hash_ <- s4, validators_stats_ <- s5, totals <- s6,
  dagAt <- s7, voteAt <- s8

-----------------------------------------------------------------------------
from9 == <<s9, s10, s11, s12, s13, s14>>
from7 == <<s7, s8, from9>>
from6 == <<s6, from7>>
from2 == <<s2, s3, s4, s5, from6>>

SharedInit ==
  \/ focus = "sessions"
     /\ s1 = 0 /\ s2 = 0 /\ s3 = 0 /\ s4 = 0 /\ s5 = 0 /\ s6 = 0 /\ s7 = 0 /\ s8 = 0 /\ s9 = 0
     /\ s10 = 0 /\ s11 = 0 /\ s12 = 0 /\ s13 = 0 /\ s14 = 0
  \/ focus = "frames" /\ Frames!Init
     /\ s2 = 0 /\ s3 = 0 /\ s4 = 0 /\ s5 = 0 /\ s6 = 0 /\ s7 = 0 /\ s8 = 0 /\ s9 = 0 /\ s10 = 0
     /\ s11 = 0 /\ s12 = 0 /\ s13 = 0 /\ s14 = 0
  \/ focus = "gossip" /\ Gossips!Init
     /\ s9 = 0 /\ s10 = 0 /\ s11 = 0 /\ s12 = 0 /\ s13 = 0 /\ s14 = 0
  \/ focus = "filters" /\ LogFilters!Init
     /\ s6 = 0 /\ s7 = 0 /\ s8 = 0 /\ s9 = 0 /\ s10 = 0 /\ s11 = 0 /\ s12 = 0 /\ s13 = 0
     /\ s14 = 0
  \/ focus = "websocket" /\ Ws!Init
     /\ s7 = 0 /\ s8 = 0 /\ s9 = 0 /\ s10 = 0 /\ s11 = 0 /\ s12 = 0 /\ s13 = 0 /\ s14 = 0
  \/ focus = "rlp" /\ Codec!Init
     /\ s7 = 0 /\ s8 = 0 /\ s9 = 0 /\ s10 = 0 /\ s11 = 0 /\ s12 = 0 /\ s13 = 0 /\ s14 = 0
  \/ focus = "gas price" /\ Pricer!Init
     /\ s9 = 0 /\ s10 = 0 /\ s11 = 0 /\ s12 = 0 /\ s13 = 0 /\ s14 = 0
  \/ focus = "rewards" /\ Rewards!Init
     /\ s9 = 0 /\ s10 = 0 /\ s11 = 0 /\ s12 = 0 /\ s13 = 0 /\ s14 = 0

SharedNext ==
  \/ focus = "frames" /\ Frames!Next /\ UNCHANGED from2
  \/ focus = "gossip" /\ Gossips!Next /\ UNCHANGED from9
  \/ focus = "filters" /\ LogFilters!Next /\ UNCHANGED from6
  \/ focus = "websocket" /\ Ws!Next /\ UNCHANGED from7
  \/ focus = "rlp" /\ Codec!Next /\ UNCHANGED from7
  \/ focus = "gas price" /\ Pricer!Next /\ UNCHANGED from9
  \/ focus = "rewards" /\ Rewards!Next /\ UNCHANGED from9

ServicesInit == SharedInit /\ Init /\ (focus # "sessions" => boot = {})

ServicesNext ==
  /\ UNCHANGED focus
  /\ \/ focus = "sessions" /\ Next /\ UNCHANGED shared
     \/ SharedNext /\ UNCHANGED vars

ServicesSpec == ServicesInit /\ [][ServicesNext]_<<focus, vars, shared>>

(* The WebSocket server alone. *)
WebSocketSpec == (focus = "websocket" /\ ServicesInit) /\ [][ServicesNext]_<<focus, vars, shared>>

-----------------------------------------------------------------------------
(* What arrives is whole: a packet that a session hands to a capability is *)
(* one that the other end sent, in order, whatever the frames it was split *)
(* into (Session::writeFrames, Session::doRead).  A DAG block that is      *)
(* handled in the session it was sent in arrives after the transactions it *)
(* contains, because the sender leaves out only what the peer knows        *)
(* (DagBlockPacketHandler::sendBlockWithTransactions).                     *)
DeliveredWhole ==
  /\ focus = "frames" => Frames!PacketsArriveWhole
  /\ focus = "gossip" => Gossips!BlocksFindTheirTransactions

(* A query over the bloom index returns the logs that a scan of all        *)
(* blocks would, with at most logs one topic short in addition, a watch    *)
(* reports each of them once (LogFilter::match_all,                        *)
(* WatchGroup::process_update), and as long as the server runs every open  *)
(* session in sessions_ gets one notification for each event it subscribed *)
(* to (WsServer::newEthBlock, Subscriptions::process).                     *)
LogsAndListedSessions ==
  /\ focus = "filters" => LogFilters!LogsFound /\ LogFilters!ChangesAreTheLogs
  /\ focus = "websocket" => Ws!ListedAreNotified

(* doc/RPC.md:45, "For each event that matches the subscription, a          *)
(* notification with relevant data is sent together with the subscription   *)
(* ID": violated by a session dropped in its handshake and by the walk over *)
(* the subscriptions without their lock (ws_server.cpp, subscriptions.cpp). *)
SubscribersNotified == Ws!SubscribersNotified

(* What RLPStream wrote and what the typed encoders wrote is what RLP and  *)
(* the typed decoders read, and no other bytes decode to the same item.    *)
EncodingIsFaithful ==
  focus = "rlp" => Codec!WrittenIsRead /\ Codec!ObjectsComeBack /\ Codec!EncodingIsUnique

(* Every fee of a block is credited once (BlockStats::processStats), and    *)
(* the suggested gas price comes from the last number_of_blocks blocks once *)
(* as many updates have been handled, before that when no block fell        *)
(* between the reading of the old ones and the first update                 *)
(* (GasPricer::update).                                                     *)
FeesAreRight ==
  /\ focus = "rewards" => Rewards!FeesCreditedOnce
  /\ focus = "gas price" => Pricer!PricesAreRecent
=============================================================================
