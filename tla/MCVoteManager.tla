---- MODULE MCVoteManager ----
(***************************************************************************)
(* Instances of VoteManager: three validators with weights 2, 1 and 1, so  *)
(* that 2t+1 is 3 and t+1 is 2; the first one is this node's.  A behaviour *)
(* is one of the votes in cast.                                            *)
(*                                                                         *)
(* When cast is empty, the behaviour is one of four nodes, one of them     *)
(* Byzantine, that find no valid block in three rounds (PbftConsensus):    *)
(* what becomes of the 2t+1 next votes that take a node over a round.      *)
(***************************************************************************)
EXTENDS VoteManager

CONSTANTS v1, v2, v3, A, B

VARIABLES
  cast,
  nextVotes, proposals, round, step, certVoted, nextVoted, prevNext, prevNextDb, decided, amnesiac

MCVoters == {v1, v2, v3}
MCWeight == [v \in MCVoters |-> IF v = v1 THEN 2 ELSE 1]

Ballots(voters, period, nr, nrStep, hash) ==
  [voter : voters, period : {period}, round : {nr}, step : {nrStep}, hash : {hash}]

\* Two rounds of period 1 and a block that is certified in the second one.
\* The node casts both votes in the second finishing step of round 1; the third
\* cert vote may come late and be an extra reward vote of period 2.
Certifying ==
  Ballots({v1, v2}, 1, 1, 5, Null) \cup Ballots({v1}, 1, 1, 5, A)
    \cup Ballots({v1, v2}, 1, 2, 2, A)
    \cup Ballots({v1, v2, v3}, 1, 2, 3, A)

\* A validator that votes three times in a second finishing step, and one that
\* cert votes twice.
DoubleVoting ==
  Ballots({v1, v2}, 1, 1, 5, Null) \cup Ballots({v2}, 1, 1, 5, A) \cup Ballots({v2}, 1, 1, 5, B)
    \cup Ballots({v3}, 1, 1, 3, A) \cup Ballots({v3}, 1, 1, 3, B)

MCVotes == Certifying \cup DoubleVoting

\* 2t+1 soft votes in two rounds of period 1.
MCOvertaking ==
  Ballots({v1, v2}, 1, 1, 2, A) \cup Ballots({v1, v2}, 1, 1, 4, Null) \cup Ballots({v1, v2}, 1, 2, 2, A)

Skipping == INSTANCE PbftConsensus WITH
  Validators <- {"h1", "h2", "h3", "byz"}, Byzantine <- {"byz"}, Blocks <- {}, kNullBlockHash <- Null,
  NoBlock <- A, MaxRound <- 3, MaxStep <- 5, LastRoundStep <- 4, MaxAmnesia <- 1,
  Unreliable <- {"h1"}, Abstaining <- {}, TornWrites <- TRUE, votes <- nextVotes

skippingVars ==
  <<nextVotes, proposals, round, step, certVoted, nextVoted, prevNext, prevNextDb, decided, amnesiac>>

MCInit == cast \in {Certifying, DoubleVoting, {}} /\ Init /\ Skipping!Init
OvertakingInit == cast = MCOvertaking /\ Init /\ Skipping!Init

MCNext ==
  /\ UNCHANGED cast
  /\ \/ /\ cast # {} /\ Next /\ UNCHANGED skippingVars
        /\ \A t \in Threads : job'[t].vote \in cast \cup {<<>>}
        /\ \A p \in proofs' : p[1] \in cast
     \/ cast = {} /\ Skipping!Next /\ UNCHANGED vars

MCSpec == MCInit /\ [][MCNext]_<<vars, cast, skippingVars>>
OvertakingSpec == OvertakingInit /\ [][MCNext]_<<vars, cast, skippingVars>>

-----------------------------------------------------------------------------
\* The assertion at the end of proposeBlock_: whoever proposes in a round above 1
\* knows 2t+1 next votes of the round before, also when it jumped over a round, so
\* that the bundle was never saved, and crashed there (PbftManager::initialState).
ProposerKnowsPreviousRound == Skipping!ProposerKnowsPreviousRound
====
