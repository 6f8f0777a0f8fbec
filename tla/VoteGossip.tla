---------------------------- MODULE VoteGossip -----------------------------
(***************************************************************************)
(* Gossip of next votes (the vote, votes bundle and next votes bundle      *)
(* packet handlers, PbftManager::broadcastVotes): what keeps the nodes of  *)
(* a period in step although a node drops the votes that are too far ahead *)
(* of its round, while the sender notes them as known, and although        *)
(* packets are lost with a connection.                                     *)
(*                                                                         *)
(* Every node casts one next vote per round, for the null block, and moves *)
(* on with the votes of TwoTPlusOne nodes.  A vote is <<voter, round>>.    *)
(* Packets of a channel are handled in any order, by any thread; sending   *)
(* again what is in the channel already changes nothing.                   *)
(***************************************************************************)
EXTENDS Naturals, FiniteSets, FiniteSetsExt

CONSTANTS
  Nodes,
  TwoTPlusOne,           \* votes that let a node leave a round
  VoteAcceptingRounds,   \* ddos_protection.vote_accepting_rounds
  MaxVotesInBundle,      \* kMaxVotesInBundleRlp
  LastRound,             \* bound: the round the nodes stay in
  MaxReconnects          \* bound: connections that break

VARIABLES
  round,       \* PbftManager::round_, per node
  votes,       \* the verified next votes of a node
  known,       \* known_votes_ of the TaraxaPeer of p at n, per link <<n, p>>
  wire,        \* packets sent by n and not handled by p
  reconnects

vars == <<round, votes, known, wire, reconnects>>

Links == {l \in Nodes \X Nodes : l[1] # l[2]}
VotePacket(v) == [type |-> "vote", votes |-> {v}, round |-> 0]
VotesBundle(vs) == [type |-> "bundle", votes |-> vs, round |-> 0]
GetNextVotesBundle(r) == [type |-> "get", votes |-> {}, round |-> r]

NextVotes(n, r) == {v \in votes[n] : v[2] = r}

\* getTwoTPlusOneVotedBlockVotes for NextVotedNullBlock: empty below 2t+1.
TwoTPlusOneNextVotes(n, r) ==
  IF Cardinality(NextVotes(n, r)) >= TwoTPlusOne THEN NextVotes(n, r) ELSE {}

\* getOwnVerifiedVotes; resetPbftConsensus clears those of earlier rounds.
OwnVotes(n) == {v \in votes[n] : v = <<n, round[n]>>}
-----------------------------------------------------------------------------
(* Sending.  A gossip state g has the fields known and wire; packets are   *)
(* given per link.                                                         *)

Now == [known |-> known, wire |-> wire]
Nothing == [l \in Links |-> {}]

\* sealAndSend, then markPbftVoteAsKnown.
sealAndSend(g, packets) ==
  [known |-> [l \in Links |-> g.known[l] \cup UNION {p.votes : p \in packets[l]}],
   wire |-> [l \in Links |-> g.wire[l] \cup packets[l]]]

\* Mutant: a rebroadcast leaves out the votes that were sent before, too.
SentUnlessKnown(k, vs, rebroadcast) == vs \ k

\* The votes of vs that go to a peer with known votes k.
ToSend(k, vs, rebroadcast) == IF rebroadcast THEN vs ELSE vs \ k

onNewPbftVote(g, n, vs, rebroadcast) ==
  sealAndSend(g, [l \in Links |->
    IF l[1] = n THEN {VotePacket(v) : v \in ToSend(g.known[l], vs, rebroadcast)} ELSE {}])

\* sendPbftVotesBundle: packets of MaxVotesInBundle votes and one with the rest.
Bundles(vs) ==
  LET parts == CHOOSE P \in SUBSET (SUBSET vs \ {{}}) :
        /\ UNION P = vs
        /\ \A s \in P, t \in P : s # t => s \cap t = {}
        /\ \A s \in P : Cardinality(s) <= MaxVotesInBundle
        /\ Cardinality({s \in P : Cardinality(s) < MaxVotesInBundle}) <= 1
  IN {VotesBundle(s) : s \in parts}

onNewPbftVotesBundle(g, n, vs, rebroadcast, exclude) ==
  sealAndSend(g, [l \in Links |->
    IF l[1] = n /\ l[2] \notin exclude THEN Bundles(ToSend(g.known[l], vs, rebroadcast)) ELSE {}])

Gossiped(g) == known' = g.known /\ wire' = g.wire
-----------------------------------------------------------------------------
(* Handling *)

\* isPbftRelevantVote and the lower bound of validateVotePeriodRoundStep.
isPbftRelevantVote(n, v) == v[2] + 1 >= round[n]

TooBig(n, v) == v[2] >= round[n] + VoteAcceptingRounds

\* processVote at p.  A vote too far ahead is dropped; when it comes from the voter the
\* next votes are asked for, unless that was done within kSyncRequestInterval.
processVote(n, p, v, g) ==
  \/ /\ TooBig(p, v)
     /\ \/ Gossiped(g)
        \/ v[1] = n /\ Gossiped(sealAndSend(g,
             [Nothing EXCEPT ![<<p, n>>] = {GetNextVotesBundle(round[p])}]))
     /\ UNCHANGED votes
  \/ /\ ~TooBig(p, v)
     /\ votes' = [votes EXCEPT ![p] = @ \cup {v}]
     /\ Gossiped(onNewPbftVote([g EXCEPT !.known[<<p, n>>] = @ \cup {v}], p, {v}, FALSE))

\* VotePacketHandler::process at p.
HandleVote(n, p, v, g) ==
  \/ /\ ~isPbftRelevantVote(p, v) \/ v \in votes[p]
     /\ Gossiped(g) /\ UNCHANGED votes
  \/ /\ isPbftRelevantVote(p, v) /\ v \notin votes[p]
     /\ processVote(n, p, v, g)

\* VotesBundlePacketHandler::process at p: next votes of any later round.
HandleBundle(n, p, vs, g) ==
  IF \E v \in vs : ~isPbftRelevantVote(p, v)
  THEN Gossiped(g) /\ UNCHANGED votes
  ELSE /\ votes' = [votes EXCEPT ![p] = @ \cup vs]
       /\ Gossiped(onNewPbftVotesBundle([g EXCEPT !.known[<<p, n>>] = @ \cup vs], p, vs, FALSE, {n}))

\* GetNextVotesBundlePacketHandler::process at p.
HandleGet(n, p, r, g) ==
  /\ UNCHANGED votes
  /\ IF round[p] = 1 \/ round[p] < r \/ TwoTPlusOneNextVotes(p, round[p] - 1) = {}
     THEN Gossiped(g)
     ELSE Gossiped(sealAndSend(g, [Nothing EXCEPT ![<<p, n>>] =
            Bundles(TwoTPlusOneNextVotes(p, round[p] - 1))]))

Handle(l, packet) ==
  LET g == [Now EXCEPT !.wire[l] = @ \ {packet}] IN
  /\ packet \in wire[l]
  /\ \/ packet.type = "vote" /\ \E v \in packet.votes : HandleVote(l[1], l[2], v, g)
     \/ packet.type = "bundle" /\ HandleBundle(l[1], l[2], packet.votes, g)
     \/ packet.type = "get" /\ HandleGet(l[1], l[2], packet.round, g)
  /\ UNCHANGED <<round, reconnects>>
-----------------------------------------------------------------------------
Init ==
  /\ round = [n \in Nodes |-> 1]
  /\ votes = [n \in Nodes |-> {}]
  /\ known = [l \in Links |-> {}]
  /\ wire = [l \in Links |-> {}]
  /\ reconnects = 0

\* firstFinish_ or secondFinish_: genAndPlaceVote, gossipNewOwnVote.
PlaceVote(n) ==
  LET v == <<n, round[n]>> IN
  /\ v \notin votes[n]
  /\ votes' = [votes EXCEPT ![n] = @ \cup {v}]
  /\ Gossiped(onNewPbftVote(Now, n, {v}, FALSE))
  /\ UNCHANGED <<round, reconnects>>

\* determineNewRound: past the last round with 2t+1 next votes.
NewRound(n) == Max({1} \cup {r + 1 : r \in {v[2] : v \in {u \in votes[n] :
                                        TwoTPlusOneNextVotes(n, u[2]) # {}}}})

AdvanceRound(n) ==
  /\ Min({NewRound(n), LastRound}) > round[n]
  /\ round' = [round EXCEPT ![n] = Min({NewRound(n), LastRound})]
  /\ UNCHANGED <<votes, known, wire, reconnects>>

\* stuckPeriodBroadcastVotes: the own votes one by one.
StuckPeriod(n, rebroadcast) == onNewPbftVote(Now, n, OwnVotes(n), rebroadcast)

\* stuckRoundBroadcastVotes: these and, as a bundle, the next votes of the previous round.
StuckRound(n, rebroadcast) ==
  LET own == StuckPeriod(n, rebroadcast)
      next == TwoTPlusOneNextVotes(n, round[n] - 1)
  IN IF round[n] > 1 /\ next # {}
     THEN onNewPbftVotesBundle(own, n, next, rebroadcast, {}) ELSE own

\* The period or the round has lasted for some multiple of the broadcast times.
broadcastVotes(n, rebroadcast) ==
  /\ \E g \in {StuckPeriod(n, rebroadcast), StuckRound(n, rebroadcast)} : Gossiped(g)
  /\ wire' # wire
  /\ UNCHANGED <<round, votes, reconnects>>

\* The connection of n and p breaks and is made anew; packets in either direction may be lost.
Reconnect(l) ==
  LET back == <<l[2], l[1]>> IN
  /\ reconnects < MaxReconnects
  /\ reconnects' = reconnects + 1
  /\ \E a \in SUBSET wire[l], b \in SUBSET wire[back] :
       wire' = [wire EXCEPT ![l] = a, ![back] = b]
  /\ known' = [known EXCEPT ![l] = {}, ![back] = {}]
  /\ UNCHANGED <<round, votes>>

Next ==
  \/ \E n \in Nodes : PlaceVote(n) \/ AdvanceRound(n)
                      \/ \E again \in BOOLEAN : broadcastVotes(n, again)
  \/ \E l \in Links : Reconnect(l) \/ \E packet \in wire[l] : Handle(l, packet)

Spec == Init /\ [][Next]_vars

Packets ==
  {VotePacket(v) : v \in Nodes \X (1 .. LastRound)}
    \cup {VotesBundle(S \X {r}) : S \in SUBSET Nodes \ {{}}, r \in 1 .. LastRound - 1}
    \cup {GetNextVotesBundle(r) : r \in 1 .. LastRound}

\* Nothing left to do for PlaceVote, AdvanceRound and stuckRoundBroadcastVotes(true): each of
\* these steps disables itself, so that it is fair exactly if it is disabled time and again.
Placed(n) == <<n, round[n]>> \in votes[n]
Advanced(n) == Min({NewRound(n), LastRound}) <= round[n]
Rebroadcast(n) == StuckRound(n, TRUE).wire = wire
-----------------------------------------------------------------------------
\* Every node gets to the last round and holds every vote cast in it, although votes were
\* lost with connections, or dropped as too far ahead after the sender had noted them as
\* known.
VotesArrive ==
  <>[](\A n \in Nodes : round[n] = LastRound /\ NextVotes(n, LastRound) = Nodes \X {LastRound})
=============================================================================
