---------------------------- MODULE VoteManager ----------------------------
(***************************************************************************)
(* The votes one node knows, and what of them survives a crash.            *)
(*                                                                         *)
(* VerifiedVotes holds the verified votes of every (period, round, step),  *)
(* the voters seen there, the blocks that have 2t+1 votes and the greatest *)
(* step with t+1 next votes.  VoteManager::addVerifiedVote fills it from   *)
(* the packet workers and from the PBFT thread at the same time: every     *)
(* call into VerifiedVotes takes its lock once, nothing holds it across    *)
(* two calls, so an insertion is a sequence of steps that interleave.      *)
(* Meanwhile the PBFT thread moves to other rounds and periods, saves the  *)
(* 2t+1 bundles of the round it enters, replaces the reward votes when it  *)
(* pushes a block and drops the votes of old periods.                      *)
(*                                                                         *)
(* Weights are the sortition weights of the voters, with a committee as    *)
(* large as the total; the final chain is never behind the votes, so the   *)
(* 2t+1 threshold is always available.                                     *)
(***************************************************************************)
EXTENDS Integers, FiniteSets, SequencesExt, FiniteSetsExt

CONSTANTS
  Workers,          \* packet workers that process vote packets
  Pbft,             \* the PBFT thread
  Voters,           \* validators
  Weight,           \* vote weight of each validator
  Votes,            \* the votes that exist: see Vote below
  Own,              \* the validator of this node
  Null,             \* kNullBlockHash
  MaxPeriod,        \* periods of the model
  MaxRound,         \* rounds of the model
  MaxStep,          \* steps of the model
  MaxCrashes,       \* crashes of the node
  AcceptingPeriods, \* ddos_protection.vote_accepting_periods, 0: unlimited
  AcceptingRounds,  \* ddos_protection.vote_accepting_rounds, 0: unlimited
  AcceptingSteps    \* ddos_protection.vote_accepting_steps, 0: unlimited

ASSUME ThreadsAssumption == Pbft \notin Workers
ASSUME WeightAssumption == Weight \in [Voters -> Nat \ {0}]
ASSUME VotesAssumption ==
  \A v \in Votes :
    /\ v.voter \in Voters /\ v.step \in Nat \ {0}
    /\ v.period \in 1..MaxPeriod /\ v.round \in 1..MaxRound
    /\ DOMAIN v = {"voter", "period", "round", "step", "hash"}
ASSUME BoundsAssumption ==
  /\ MaxPeriod \in Nat /\ MaxRound \in Nat /\ MaxStep \in Nat /\ MaxCrashes \in Nat
  /\ AcceptingPeriods \in Nat /\ AcceptingRounds \in Nat /\ AcceptingSteps \in Nat

VARIABLES
  verified,         \* VerifiedVotes: the votes of every step
  weight,           \* VerifiedVotes: the weight counter of every voted value
  uniqueVoters,     \* VerifiedVotes: the votes recorded for a voter in a step
  votedBlocks,      \* VerifiedVotes: two_t_plus_one_voted_blocks_ of every round
  tPlusOneStep,     \* VerifiedVotes: network_t_plus_one_step of every round
  currentPeriod,    \* VoteManager::current_pbft_period_
  currentRound,     \* VoteManager::current_pbft_round_
  validated,        \* already_validated_votes_
  rewardInfo,       \* reward_votes_period_, _round_ and _block_hash_
  extraRewardVotes, \* extra_reward_votes_
  ownVotes,         \* own_verified_votes_
  pbftRound,        \* PbftManager::round_
  chainSize,        \* PbftChain: the period is chainSize + 1
  proofs,           \* double voting proofs submitted by the SlashingManager
  db,               \* what the database holds
  pc,               \* where each thread is
  job,              \* the local variables of each thread
  crashes           \* number of crashes so far

memory == <<verified, weight, uniqueVoters, votedBlocks, tPlusOneStep>>
manager == <<currentPeriod, currentRound, validated, rewardInfo, extraRewardVotes, ownVotes>>
chain == <<pbftRound, chainSize>>
history == <<proofs, crashes>>
vars == <<memory, manager, chain, db, pc, job, history>>

Threads == Workers \cup {Pbft}
Periods == 1..MaxPeriod
Rounds == 1..MaxRound
BundleTypes == {"Soft", "Cert", "Next", "NextNull"}

Round(v) == <<v.period, v.round>>
Step(v) == <<v.period, v.round, v.step>>
Value(v) == <<v.period, v.round, v.step, v.hash>>

Type(v) ==
  CASE v.step = 1 -> "propose"
    [] v.step = 2 -> "soft"
    [] v.step = 3 -> "cert"
    [] OTHER      -> "next"

BundleType(v) ==
  CASE Type(v) = "soft" -> "Soft"
    [] Type(v) = "cert" -> "Cert"
    [] Type(v) = "next" -> IF v.hash = Null THEN "NextNull" ELSE "Next"
    [] OTHER            -> "None"

VotedBlocks == {[type |-> BundleType(v), round |-> Round(v), step |-> v.step, hash |-> v.hash] : v \in Votes}

WeightOf(S) == MapThenSumSet(LAMBDA v : Weight[v.voter], S)
TotalWeight == MapThenSumSet(LAMBDA n : Weight[n], Voters)

TwoTPlusOne == ((TotalWeight * 2) \div 3) + 1
TPlusOne == (TwoTPlusOne - 1) \div 2 + 1

VotesFor(S, value) == {v \in S : Value(v) = value}
HasRound(r) == \E v \in verified : Round(v) = r
Voted(type, r) == {b \in votedBlocks : b.type = type /\ b.round = r}

NoReward == [period |-> 0, round |-> 0, hash |-> Null]

NoJob == [vote |-> <<>>, reward |-> FALSE, total |-> 0, bundle |-> {}, raise |-> FALSE, mark |-> FALSE, todo |-> {}, cleanup |-> FALSE]

-----------------------------------------------------------------------------
(* What a packet worker checks before it adds a vote.                      *)

IsPbftRelevantVote(v) ==
  \/ v.period >= chainSize + 1 /\ v.round >= pbftRound
  \/ v.period = chainSize + 1 /\ v.round = pbftRound - 1 /\ Type(v) = "next"
  \/ v.period = chainSize /\ Type(v) = "cert"

ValidateVotePeriodRoundStep(v, checkMax, pbftStep) ==
  LET period == chainSize + 1
      round == IF v.period # period THEN 1 ELSE pbftRound
      step == IF v.period # period \/ v.round # pbftRound THEN 1 ELSE pbftStep
  IN  /\ v.period >= period \/ (v.period = period - 1 /\ Type(v) = "cert")
      /\ AcceptingPeriods # 0 => v.period - 1 <= period + AcceptingPeriods
      /\ v.round >= round \/ (v.round = round - 1 /\ Type(v) = "next")
      /\ checkMax /\ AcceptingRounds # 0 => v.round < round + AcceptingRounds
      /\ checkMax /\ AcceptingSteps # 0 => v.step < step + AcceptingSteps

IsSecondFinishVote(v) == Type(v) = "next" /\ v.step % 2 = 1

\* Mutant: the second vote of a second finishing step is a double vote.
AcceptsOnlyOne(recorded, v) == recorded = <<>> \/ v \in ToSet(recorded)

\* One vote of a voter per step; in a second finishing step one for the null
\* block and one for another block.
Accepts(recorded, v) ==
  \/ recorded = <<>>
  \/ v \in ToSet(recorded)
  \/ IsSecondFinishVote(v) /\ Len(recorded) = 1 /\ ((recorded[1].hash = Null) # (v.hash = Null))

IsUniqueVote(v) == Accepts(uniqueVoters[Step(v), v.voter], v)

ExistingVote(v) == Last(uniqueVoters[Step(v), v.voter])

IsValidRewardVote(v) ==
  /\ Type(v) = "cert"
  /\ v.hash = rewardInfo.hash
  /\ v.period = rewardInfo.period
  /\ v.round <= rewardInfo.round + 100

-----------------------------------------------------------------------------
Init ==
  /\ verified = {} /\ votedBlocks = {}
  /\ weight = [x \in {Value(v) : v \in Votes} |-> 0]
  /\ uniqueVoters = [x \in {Step(v) : v \in Votes} \X Voters |-> <<>>]
  /\ tPlusOneStep = [r \in Periods \X Rounds |-> 0]
  /\ currentPeriod = 1 /\ currentRound = 1
  /\ validated = {} /\ rewardInfo = NoReward /\ extraRewardVotes = {} /\ ownVotes = {}
  /\ pbftRound = 1 /\ chainSize = 0
  /\ db = [bundle |-> [t \in BundleTypes |-> {}], own |-> {}, extra |-> {}, round |-> 1, chain |-> 0]
  /\ pc = [t \in Threads |-> "idle"]
  /\ job = [t \in Threads |-> NoJob]
  /\ proofs = {} /\ crashes = 0

Goto(t, where) == pc' = [pc EXCEPT ![t] = where]
Leave(t) == Goto(t, "idle") /\ job' = [job EXCEPT ![t] = NoJob]

\* addVerifiedVote returns true: the PBFT thread then saves its own vote.
Added(t) ==
  IF t = Pbft THEN Goto(t, "own") /\ UNCHANGED job ELSE Leave(t)

-----------------------------------------------------------------------------
(* A vote packet, or a vote of a votes bundle packet, reaches a worker.    *)
(* Its checks read what only the PBFT thread changes, in one step.  The    *)
(* node's own votes come back only while the verified map holds them.      *)

SubmitDoubleVotingProof(v, other) == proofs' = proofs \cup {<<v, other>>}

\* Whether the vote came alone, and the step of the node, with which it passes
\* the limits; the limits do not bind the cert and next votes of a bundle.
AcceptedAs(v) ==
  {x \in [inBundle : BOOLEAN, pbftStep : 1..MaxStep] :
     /\ x.inBundle => Type(v) # "propose"
     /\ ValidateVotePeriodRoundStep(v, ~x.inBundle \/ Type(v) \notin {"cert", "next"}, x.pbftStep)}

\* The votes of the model have stake, signature and weight.  One that is too far
\* ahead of the executed chain is not marked, nothing changes and it may come again.
ValidateVote(v) == validated' = validated \cup {v}

ProcessVote(w, v) ==
  /\ pc[w] = "idle"
  /\ v.voter # Own
  /\ IsPbftRelevantVote(v)
  /\ v \notin validated
  /\ v \notin verified
  /\ AcceptedAs(v) # {}
  /\ IF IsUniqueVote(v)
       THEN /\ ValidateVote(v)
            /\ Goto(w, "add")
            /\ job' = [job EXCEPT ![w] = [NoJob EXCEPT !.vote = v]]
            /\ UNCHANGED proofs
       ELSE SubmitDoubleVotingProof(v, ExistingVote(v)) /\ UNCHANGED <<validated, pc, job>>
  /\ UNCHANGED <<memory, currentPeriod, currentRound, rewardInfo, extraRewardVotes, ownVotes, chain, db, crashes>>

-----------------------------------------------------------------------------
(* VoteManager::addVerifiedVote, by a worker or by the PBFT thread.        *)

\* insertUniqueVoter, then the check for old votes: nothing is recorded for
\* the first vote of a step, whose entry does not exist yet.
InsertUniqueVoter(t) ==
  LET v == job[t].vote
      known == \E u \in verified : Step(u) = Step(v)
      old == v.period < currentPeriod
  IN
  /\ pc[t] = "add"
  /\ IF known /\ ~IsUniqueVote(v)
       THEN SubmitDoubleVotingProof(v, ExistingVote(v)) /\ Leave(t) /\ UNCHANGED uniqueVoters
       ELSE /\ uniqueVoters' = IF known /\ v \notin ToSet(uniqueVoters[Step(v), v.voter])
                                 THEN [uniqueVoters EXCEPT ![Step(v), v.voter] = Append(@, v)]
                                 ELSE uniqueVoters
            /\ IF old /\ ~IsValidRewardVote(v)
                 THEN Leave(t)
                 ELSE Goto(t, "fresh") /\ job' = [job EXCEPT ![t].reward = old]
            /\ UNCHANGED proofs
  /\ UNCHANGED <<verified, weight, votedBlocks, tPlusOneStep, manager, chain, db, crashes>>

CountVote(t, v) ==
  /\ verified' = verified \cup {v}
  /\ weight' = [weight EXCEPT ![Value(v)] = @ + Weight[v.voter]]
  /\ Goto(t, IF job[t].reward THEN "reward" ELSE "counted")

\* Mutant: the total weight is read before the vote is added to it.
InsertVotedValueStaleTotal(t) ==
  LET v == job[t].vote IN
  /\ pc[t] = "fresh"
  /\ IF v \in verified
       THEN Leave(t) /\ UNCHANGED <<verified, weight>>
       ELSE /\ CountVote(t, v)
            /\ job' = [job EXCEPT ![t].total = weight[Value(v)], ![t].bundle = VotesFor(verified', Value(v))]
  /\ UNCHANGED <<uniqueVoters, votedBlocks, tPlusOneStep, manager, chain, db, history>>

InsertVotedValue(t) ==
  LET v == job[t].vote IN
  /\ pc[t] = "fresh"
  /\ IF v \in verified
       THEN Leave(t) /\ UNCHANGED <<verified, weight>>
       ELSE /\ CountVote(t, v)
            /\ job' = [job EXCEPT ![t].total = weight'[Value(v)], ![t].bundle = VotesFor(verified', Value(v))]
  /\ UNCHANGED <<uniqueVoters, votedBlocks, tPlusOneStep, manager, chain, db, history>>

SaveExtraRewardVote(t) ==
  /\ pc[t] = "reward"
  /\ extraRewardVotes' = extraRewardVotes \cup {job[t].vote}
  /\ db' = [db EXCEPT !.extra = @ \cup {job[t].vote}]
  /\ Goto(t, "counted")
  /\ UNCHANGED <<memory, currentPeriod, currentRound, validated, rewardInfo, ownVotes, chain, job, history>>

\* The snapshot of the round: what the rest of addVerifiedVote decides on.
GetRoundVotes(t) ==
  LET v == job[t].vote
      mark == job[t].total >= TwoTPlusOne /\ BundleType(v) # "None" /\ Voted(BundleType(v), Round(v)) = {}
      raise == Type(v) = "next" /\ job[t].total >= TPlusOne /\ v.step > tPlusOneStep[Round(v)]
  IN
  /\ pc[t] = "counted"
  /\ IF HasRound(Round(v)) /\ (raise \/ mark)
       THEN Goto(t, "mark") /\ job' = [job EXCEPT ![t].raise = raise, ![t].mark = mark]
       ELSE Added(t)
  /\ UNCHANGED <<memory, manager, chain, db, history>>

SetNetworkTPlusOneStep(v) ==
  tPlusOneStep' = IF HasRound(Round(v)) THEN [tPlusOneStep EXCEPT ![Round(v)] = v.step] ELSE tPlusOneStep

InsertTwoTPlusOneVotedBlock(v) ==
  votedBlocks' = IF HasRound(Round(v)) /\ Voted(BundleType(v), Round(v)) = {}
                   THEN votedBlocks \cup {[type |-> BundleType(v), round |-> Round(v), step |-> v.step, hash |-> v.hash]}
                   ELSE votedBlocks

MarkVotedBlock(t) ==
  LET v == job[t].vote IN
  /\ pc[t] = "mark"
  /\ IF job[t].raise THEN SetNetworkTPlusOneStep(v) ELSE UNCHANGED tPlusOneStep
  /\ IF job[t].mark THEN InsertTwoTPlusOneVotedBlock(v) ELSE UNCHANGED votedBlocks
  /\ IF job[t].mark /\ Type(v) # "cert" THEN Goto(t, "marked") /\ UNCHANGED job ELSE Added(t)
  /\ UNCHANGED <<verified, weight, uniqueVoters, manager, chain, db, history>>

\* Only the bundles of the current period and round are saved.  The save,
\* replaceTwoTPlusOneVotes, removes the old bundle and then writes the new one.
RemoveTwoTPlusOneVotes(t) ==
  LET v == job[t].vote IN
  /\ pc[t] = "marked"
  /\ IF Round(v) = <<currentPeriod, currentRound>>
       THEN db' = [db EXCEPT !.bundle[BundleType(v)] = {}] /\ Goto(t, "removed") /\ UNCHANGED job
       ELSE Added(t) /\ UNCHANGED db
  /\ UNCHANGED <<memory, manager, chain, history>>

InsertTwoTPlusOneVotes(t) ==
  LET v == job[t].vote IN
  /\ pc[t] = "removed"
  /\ db' = [db EXCEPT !.bundle[BundleType(v)] = job[t].bundle]
  /\ Added(t)
  /\ UNCHANGED <<memory, manager, chain, history>>

-----------------------------------------------------------------------------
(* The PBFT thread.                                                        *)

\* Only a wallet with stake whose sortition gives it a weight votes.
GenerateVoteWithWeight(v) == v.voter = Own /\ Weight[v.voter] > 0

\* genAndPlaceVote: a vote of the current round; the step only grows in it.
GenAndPlaceVote(v) ==
  /\ pc[Pbft] = "idle"
  /\ GenerateVoteWithWeight(v) /\ Round(v) = <<chainSize + 1, pbftRound>>
  /\ v \notin ownVotes /\ \A u \in ownVotes : u.step <= v.step
  /\ Goto(Pbft, "add")
  /\ job' = [job EXCEPT ![Pbft] = [NoJob EXCEPT !.vote = v]]
  /\ UNCHANGED <<memory, manager, chain, db, history>>

SaveOwnVerifiedVote ==
  /\ pc[Pbft] = "own"
  /\ ownVotes' = ownVotes \cup {job[Pbft].vote}
  /\ db' = [db EXCEPT !.own = @ \cup {job[Pbft].vote}]
  /\ Leave(Pbft)
  /\ UNCHANGED <<memory, currentPeriod, currentRound, validated, rewardInfo, extraRewardVotes, chain, history>>

ResetPbftConsensus(round, cleanup) ==
  /\ pbftRound' = round
  /\ db' = [db EXCEPT !.round = round, !.own = @ \ ownVotes]
  /\ ownVotes' = {}
  /\ Goto(Pbft, "reset")
  /\ job' = [job EXCEPT ![Pbft] = [NoJob EXCEPT !.cleanup = cleanup]]

NextVotedRounds ==
  {r \in pbftRound..MaxRound : Voted("Next", <<chainSize + 1, r>>) \cup Voted("NextNull", <<chainSize + 1, r>>) # {}}

AdvanceRound ==
  /\ pc[Pbft] = "idle"
  /\ NextVotedRounds # {} /\ Max(NextVotedRounds) < MaxRound
  /\ ResetPbftConsensus(Max(NextVotedRounds) + 1, FALSE)
  /\ UNCHANGED <<memory, currentPeriod, currentRound, validated, rewardInfo, extraRewardVotes, chainSize, history>>

\* pushPbftBlock_ up to the commit: resetRewardVotes changes the reward votes
\* in memory and puts the bundle of cert votes into the batch.
ResetRewardVotes ==
  /\ pc[Pbft] = "idle" /\ chainSize + 1 < MaxPeriod
  /\ \E b \in Voted("Cert", <<chainSize + 1, pbftRound>>) :
       /\ rewardInfo' = [period |-> chainSize + 1, round |-> pbftRound, hash |-> b.hash]
       /\ job' = [job EXCEPT ![Pbft] = [NoJob EXCEPT !.bundle = VotesFor(verified, <<chainSize + 1, pbftRound, b.step, b.hash>>), !.todo = extraRewardVotes]]
  /\ extraRewardVotes' = {}
  /\ Goto(Pbft, "push")
  /\ UNCHANGED <<memory, currentPeriod, currentRound, validated, ownVotes, chain, db, history>>

CommitPushedBlock ==
  /\ pc[Pbft] = "push"
  /\ db' = [db EXCEPT !.bundle["Cert"] = job[Pbft].bundle, !.extra = @ \ job[Pbft].todo, !.chain = chainSize + 1]
  /\ chainSize' = chainSize + 1
  /\ Goto(Pbft, "advance")
  /\ UNCHANGED <<memory, manager, pbftRound, job, history>>

AdvancePeriod ==
  /\ pc[Pbft] = "advance"
  /\ ResetPbftConsensus(1, TRUE)
  /\ UNCHANGED <<memory, currentPeriod, currentRound, validated, rewardInfo, extraRewardVotes, chainSize, history>>

\* setCurrentPbftPeriodAndRound: two separate stores, then the bundles.
SetCurrentPeriod ==
  /\ pc[Pbft] = "reset"
  /\ currentPeriod' = chainSize + 1
  /\ Goto(Pbft, "period")
  /\ UNCHANGED <<memory, currentRound, validated, rewardInfo, extraRewardVotes, ownVotes, chain, db, job, history>>

SetCurrentRound ==
  /\ pc[Pbft] = "period"
  /\ currentRound' = pbftRound
  /\ Goto(Pbft, "round")
  /\ UNCHANGED <<memory, currentPeriod, validated, rewardInfo, extraRewardVotes, ownVotes, chain, db, job, history>>

SavedDone == IF job[Pbft].cleanup THEN Goto(Pbft, "cleanup") /\ UNCHANGED job ELSE Leave(Pbft)

\* Mutant: only the next votes of the entered round are looked for.
BundlesOfRoundNextOnly ==
  {b \in votedBlocks : b.type \in {"Next", "NextNull"} /\ b.round = <<currentPeriod, currentRound>>}

BundlesOfRound ==
  {b \in votedBlocks : b.type # "Cert" /\ b.round = <<currentPeriod, currentRound>>}

FindBundles ==
  /\ pc[Pbft] = "round"
  /\ IF BundlesOfRound = {}
       THEN SavedDone
       ELSE /\ Goto(Pbft, "saving")
            /\ job' = [job EXCEPT ![Pbft].todo = {<<b.type, VotesFor(verified, <<currentPeriod, currentRound, b.step, b.hash>>)>> : b \in BundlesOfRound}]
  /\ UNCHANGED <<memory, manager, chain, db, history>>

RemoveBundle ==
  /\ pc[Pbft] = "saving"
  /\ \E x \in job[Pbft].todo :
       /\ db' = [db EXCEPT !.bundle[x[1]] = {}]
       /\ job' = [job EXCEPT ![Pbft].bundle = x]
  /\ Goto(Pbft, "replacing")
  /\ UNCHANGED <<memory, manager, chain, history>>

InsertBundle ==
  LET x == job[Pbft].bundle
      rest == job[Pbft].todo \ {x}
  IN
  /\ pc[Pbft] = "replacing"
  /\ db' = [db EXCEPT !.bundle[x[1]] = x[2]]
  /\ IF rest = {} THEN SavedDone ELSE Goto(Pbft, "saving") /\ job' = [job EXCEPT ![Pbft].todo = rest]
  /\ UNCHANGED <<memory, manager, chain, history>>

\* Mutant: the votes of the last pushed period are cleaned up too.
FirstKeptPeriodNext == chainSize + 1

\* The votes of the last pushed period stay: they are the reward votes.
FirstKeptPeriod == chainSize

CleanupVotesByPeriod ==
  /\ pc[Pbft] = "cleanup"
  /\ verified' = {v \in verified : v.period >= FirstKeptPeriod}
  /\ weight' = [x \in DOMAIN weight |-> IF x[1] >= FirstKeptPeriod THEN weight[x] ELSE 0]
  /\ uniqueVoters' = [x \in DOMAIN uniqueVoters |-> IF x[1][1] >= FirstKeptPeriod THEN uniqueVoters[x] ELSE <<>>]
  /\ votedBlocks' = {b \in votedBlocks : b.round[1] >= FirstKeptPeriod}
  /\ tPlusOneStep' = [r \in DOMAIN tPlusOneStep |-> IF r[1] >= FirstKeptPeriod THEN tPlusOneStep[r] ELSE 0]
  /\ Leave(Pbft)
  /\ UNCHANGED <<manager, chain, db, history>>

-----------------------------------------------------------------------------
(* Restart: the constructor adds the votes of the database one by one.     *)

GetAllVotes == UNION {db.bundle[t] : t \in BundleTypes} \cup db.own \cup db.extra

\* The blocks that reach 2t+1 and the steps that reach t+1 with the votes of S.
Quorums(S) ==
  {b \in VotedBlocks : b.type # "None" /\ WeightOf(VotesFor(S, Append(Append(b.round, b.step), b.hash))) >= TwoTPlusOne}

TPlusOneSteps(S, r) ==
  {v.step : v \in {u \in S : Type(u) = "next" /\ Round(u) = r /\ WeightOf(VotesFor(S, Value(u))) >= TPlusOne}}

\* The first vote of a step finds no entry for the step, so its voter is not
\* recorded; which one is first depends on the hashes, the model fixes one.
RecordedVoters(S) ==
  LET first == {CHOOSE v \in S : Step(v) = s : s \in {Step(v) : v \in S}}
  IN  [x \in DOMAIN uniqueVoters |-> SetToSeq({v \in S \ first : Step(v) = x[1] /\ v.voter = x[2]})]

Restart ==
  /\ crashes < MaxCrashes
  /\ crashes' = crashes + 1
  /\ verified' = GetAllVotes
  /\ weight' = [x \in DOMAIN weight |-> WeightOf(VotesFor(verified', x))]
  /\ uniqueVoters' = RecordedVoters(verified')
  /\ LET quorums == Quorums(verified')
     IN  votedBlocks' = {b \in quorums : \A c \in quorums : c.type = b.type /\ c.round = b.round => b.step <= c.step}
  /\ tPlusOneStep' = [r \in DOMAIN tPlusOneStep |-> Max(TPlusOneSteps(verified', r) \cup {0})]
  /\ rewardInfo' = IF db.bundle["Cert"] = {} THEN NoReward
                   ELSE LET v == CHOOSE u \in db.bundle["Cert"] : TRUE
                        IN  [period |-> v.period, round |-> v.round, hash |-> v.hash]
  /\ ownVotes' = db.own /\ extraRewardVotes' = db.extra
  /\ validated' = {} /\ currentPeriod' = 0 /\ currentRound' = 0
  /\ pbftRound' = db.round /\ chainSize' = db.chain
  /\ pc' = [t \in Threads |-> IF t = Pbft THEN "reset" ELSE "idle"]
  /\ job' = [t \in Threads |-> NoJob]
  /\ UNCHANGED <<db, proofs>>

-----------------------------------------------------------------------------
AddVerifiedVote(t) ==
  \/ InsertUniqueVoter(t)
  \/ InsertVotedValue(t)
  \/ SaveExtraRewardVote(t)
  \/ GetRoundVotes(t)
  \/ MarkVotedBlock(t)
  \/ RemoveTwoTPlusOneVotes(t)
  \/ InsertTwoTPlusOneVotes(t)

Next ==
  \/ \E w \in Workers, v \in Votes : ProcessVote(w, v)
  \/ \E t \in Threads : AddVerifiedVote(t)
  \/ \E v \in Votes : GenAndPlaceVote(v)
  \/ SaveOwnVerifiedVote
  \/ AdvanceRound
  \/ ResetRewardVotes
  \/ CommitPushedBlock
  \/ AdvancePeriod
  \/ SetCurrentPeriod
  \/ SetCurrentRound
  \/ FindBundles
  \/ RemoveBundle
  \/ InsertBundle
  \/ CleanupVotesByPeriod
  \/ Restart

Spec == Init /\ [][Next]_vars

-----------------------------------------------------------------------------
(* Properties.                                                             *)

\* The votes, their counters and the local variables of the threads keep
\* their types; the database holds votes that exist.
TypeOK ==
  /\ verified \subseteq Votes /\ validated \subseteq Votes
  /\ ownVotes \subseteq Votes /\ extraRewardVotes \subseteq Votes
  /\ \A x \in DOMAIN weight : weight[x] \in 0..TotalWeight
  /\ \A x \in DOMAIN uniqueVoters : Len(uniqueVoters[x]) <= 2
  /\ votedBlocks \subseteq VotedBlocks
  /\ chainSize \in 0..MaxPeriod /\ pbftRound \in Rounds
  /\ db.own \subseteq Votes /\ db.extra \subseteq Votes
  /\ \A t \in BundleTypes : db.bundle[t] \subseteq Votes

\* A period that the node still uses: the last pushed one and the later ones.
Kept(period) == period >= chainSize

\* More than two thirds of the weight.
Quorum(S) == 3 * MapThenSumSet(LAMBDA n : Weight[n], {v.voter : v \in S}) > 2 * TotalWeight

\* A block is taken for 2t+1 voted only when distinct voters with more than two
\* thirds of the weight voted for it in one step, however the threads that add
\* votes interleave, and after a restart from the saved votes.
VotedBlocksHaveQuorum ==
  \A b \in votedBlocks :
    Kept(b.round[1]) => Quorum(VotesFor(verified, Append(Append(b.round, b.step), b.hash)))

\* No quorum is missed: once no thread is between counting a vote and marking
\* its block, every block with 2t+1 of the votes of a step is known as voted.
QuorumsAreMarked ==
  (\A t \in Threads : pc[t] \notin {"reward", "counted", "mark"}) =>
    \A v \in verified :
      Kept(v.period) /\ BundleType(v) # "None" /\ weight[Value(v)] >= TwoTPlusOne =>
        \E b \in Voted(BundleType(v), Round(v)) : b.hash = v.hash

Quiet == \A t \in Threads : pc[t] \in {"idle", "add", "fresh"}

\* The 2t+1 voted blocks whose votes belong into the database.
CurrentVotedBlocks ==
  {b \in votedBlocks : b.type # "Cert" /\ b.round = <<currentPeriod, currentRound>>}

\* What addVerifiedVote says it saves, "only current pbft period & round 2t+1 votes
\* bundles": once no thread is on its way to a save, the row of every 2t+1 voted
\* block of the current round holds votes of that round.  The code breaks it: a worker
\* checks the round, the PBFT thread advances, the new bundle is saved, and the worker
\* then writes the bundle of the old round over it.
CurrentBundlesAreSaved ==
  Quiet =>
    \A b \in CurrentVotedBlocks :
      /\ db.bundle[b.type] # {}
      /\ \A v \in db.bundle[b.type] : Round(v) = b.round

\* What is left of it: the worker that completes a bundle and the PBFT thread that
\* enters its round never both leave the save to the other, so the row is not empty;
\* it may be of an earlier round of the period or of an earlier period.
CurrentRowsAreFilled ==
  Quiet => \A b \in CurrentVotedBlocks : db.bundle[b.type] # {}

\* A bundle in the database is a quorum: votes of one step for one block with
\* more than two thirds of the weight, or nothing at all while it is replaced.
SavedBundlesAreQuorums ==
  \A t \in BundleTypes :
    db.bundle[t] # {} =>
      /\ \A u, v \in db.bundle[t] : Value(u) = Value(v)
      /\ \A v \in db.bundle[t] : BundleType(v) = t
      /\ Quorum(db.bundle[t])

\* The votes a proposer puts into its block.
GetRewardVotes ==
  UNION {VotesFor(verified, Append(Append(b.round, b.step), b.hash)) :
           b \in Voted("Cert", <<rewardInfo.period, rewardInfo.round>>)}

\* The reward votes are always at hand: whenever no block is being pushed,
\* getRewardVotes gives cert votes for the last block of the chain, and for
\* no other block, with more than two thirds of the weight, after every
\* cleanup of old periods and after every restart.
RewardVotesAreKept ==
  pc[Pbft] # "push" /\ chainSize > 0 =>
    /\ rewardInfo.period = chainSize
    /\ \A v \in GetRewardVotes : v.hash = rewardInfo.hash
    /\ Quorum(GetRewardVotes)

\* Two votes of one voter that a correct validator never casts together.
DoubleVote(u, v) ==
  /\ Step(u) = Step(v) /\ u.voter = v.voter /\ u # v
  /\ ~(IsSecondFinishVote(v) /\ ((u.hash = Null) # (v.hash = Null)))

\* A double voting proof names two votes of one voter in one step, and a voter that
\* did vote twice there.
ProofsNameDoubleVoters ==
  \A p \in proofs :
    /\ p[1] # p[2] /\ Step(p[1]) = Step(p[2]) /\ p[1].voter = p[2].voter
    /\ \E u \in Votes : DoubleVote(p[1], u)

\* The votes of a step that insertUniqueVoter did not record.
Unrecorded(step) ==
  {v \in verified : Step(v) = step /\ v \notin ToSet(uniqueVoters[step, v.voter])}

\* The record of voters is skipped while a step has no counted vote, and the vote is
\* counted under another lock: a double vote escapes only behind the votes that were
\* added at that moment, at most one per thread.
FewVotesEscape == \A v \in verified : Cardinality(Unrecorded(Step(v))) <= Cardinality(Threads)

\* Double votes (VoteManager::isUniqueVote, VerifiedVotes::insertUniqueVoter): proofs
\* are submitted only against voters that voted twice, and all but a few votes of a
\* step are recorded, so that a second vote of their voters is seen.
ProofsAreRight == ProofsNameDoubleVoters /\ FewVotesEscape

\* What the nodes act on: marked blocks are those with 2t+1 of the votes, in both
\* directions (VerifiedVotes::insertVotedValue, VoteManager::addVerifiedVote).
MarksMatchQuorums == TypeOK /\ VotedBlocksHaveQuorum /\ QuorumsAreMarked

\* What a restart finds in the rows of the bundles: quorums only, and no row that a
\* 2t+1 voted block of the current round should have filled is empty
\* (VoteManager::addVerifiedVote, setCurrentPbftPeriodAndRound).
BundlesAreSaved == CurrentRowsAreFilled /\ SavedBundlesAreQuorums
=============================================================================
