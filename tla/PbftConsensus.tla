--------------------------- MODULE PbftConsensus ---------------------------
(***************************************************************************)
(* The PBFT consensus of one period, as PbftManager, VoteManager and the   *)
(* votes kept by DbStorage run it on every validator of the network.       *)
(*                                                                         *)
(* A validator of vote weight w is w members of Validators: the code only  *)
(* ever compares sums of weights with 2t+1.  Gossip is a shared set of     *)
(* votes; a node acts on a 2t+1 bundle at any time after the bundle exists *)
(* or never, which covers votes that are lost, late, repeated, reordered.  *)
(* Byzantine validators may be counted in every bundle.                    *)
(*                                                                         *)
(* A node writes to its database piece by piece and may crash between any  *)
(* two writes.  The variable amnesiac records (it is not in the code) the  *)
(* nodes that came back knowing less than they had already voted upon.     *)
(***************************************************************************)
EXTENDS Integers, FiniteSets

CONSTANTS
    Validators,      \* unit votes of the DPOS validators of the period
    Byzantine,       \* validators that do not follow the protocol
    Blocks,          \* hashes of the valid PBFT blocks of the period
    kNullBlockHash,  \* the next-voted value that stands for "no block"
    NoBlock,         \* an empty std::optional
    MaxRound,        \* bound: no node goes beyond this round
    MaxStep,         \* bound: no node goes beyond this step
    LastRoundStep,   \* bound: the same for the last round
    MaxAmnesia,      \* bound: how many nodes may lose knowledge in a crash
    Unreliable,      \* bound: the honest nodes that may crash, or complete a bundle late
    Abstaining,      \* bound: the honest nodes that may fail to place a vote
    TornWrites       \* bound: whether a crash may split replaceTwoTPlusOneVotes

ASSUME ValidatorsAssumption ==
    /\ IsFiniteSet(Validators)
    /\ Byzantine \subseteq Validators

ASSUME ValuesAssumption ==
    /\ kNullBlockHash \notin Blocks
    /\ NoBlock \notin Blocks \cup {kNullBlockHash}

ASSUME BoundsAssumption ==
    /\ MaxRound \in Nat \ {0}
    /\ MaxStep \in Nat /\ MaxStep >= 4
    /\ LastRoundStep \in 1..MaxStep
    /\ MaxAmnesia \in Nat
    /\ TornWrites \in BOOLEAN

VARIABLES
    votes,       \* the honest voters of every round, step and value
    proposals,   \* <<round, block>> of every propose vote
    round,       \* round_ and PbftMgrField::Round
    step,        \* step_ and PbftMgrField::Step; state_ is a function of it
    certVoted,   \* cert_voted_block_for_round_, in memory and in the database
    nextVoted,   \* already_next_voted_value_ / _null_block_hash_ flags that are set
    prevNext,    \* values known to have 2t+1 next votes in the previous round
    prevNextDb,  \* the part of prevNext whose votes are in the database
    decided,     \* the block pushed into the chain, the node then leaves the period
    amnesiac     \* nodes that lost knowledge in a crash

vars == <<votes, proposals, round, step, certVoted, nextVoted, prevNext,
          prevNextDb, decided, amnesiac>>

Honest == Validators \ Byzantine
Values == Blocks \cup {kNullBlockHash}
Rounds == 1..MaxRound
Steps  == 1..MaxStep

(***************************************************************************)
(* Counting votes                                                          *)
(***************************************************************************)

\* Mutant: 2t+1 without the 1.
TwoTPlusOneTooLow == (Cardinality(Validators) * 2) \div 3

\* getPbftTwoTPlusOne, with the sortition threshold at the whole vote count.
TwoTPlusOne == (Cardinality(Validators) * 2) \div 3 + 1

\* verified_votes_[period][r].step_votes[s].votes[v], the weight being the number of
\* voters.  Byzantine votes can always be counted.
TwoTPlusOneVoted(r, s, v) ==
    Cardinality(Byzantine \cup votes[r][s][v]) >= TwoTPlusOne

SoftVoted(r, b) == TwoTPlusOneVoted(r, 2, b)
CertVoted(r, b) == TwoTPlusOneVoted(r, 3, b)
NextVoted(r, v) == \E s \in 4..MaxStep : TwoTPlusOneVoted(r, s, v)

(***************************************************************************)
(* What a node may vote in its current step                                *)
(***************************************************************************)

IsFirstFinish(s)  == s >= 4 /\ s % 2 = 0
IsSecondFinish(s) == s >= 5 /\ s % 2 = 1

\* A new block is proposed in round 1 or after 2t+1 next votes for null.
FreshRound(n) == round[n] = 1 \/ kNullBlockHash \in prevNext[n]

\* Mutant: the leader block is soft voted in every round.
SoftVoteLeaderAlways(n) == {b \in Blocks : <<round[n], b>> \in proposals}

\* identifyBlock_: the leader block, which differs with the proposals a node
\* has received, or the next voted block of the previous round.
SoftVoteChoices(n) ==
    IF FreshRound(n) THEN {b \in Blocks : <<round[n], b>> \in proposals}
                     ELSE prevNext[n] \ {kNullBlockHash}

\* certifyBlock_: the 2t+1 soft voted block, once per round.
CertVoteChoices(n) ==
    {b \in Blocks : certVoted[n] = NoBlock /\ SoftVoted(round[n], b)}

\* Mutant: the cert voted block is forgotten in the finish steps.
FirstFinishForgetsCertVote(n) ==
    IF kNullBlockHash \in prevNext[n] \/ prevNext[n] = {} THEN {kNullBlockHash} ELSE prevNext[n]

\* firstFinish_: the cert voted block, else null, else the starting value.
FirstFinishChoices(n) ==
    CASE certVoted[n] # NoBlock -> {certVoted[n]}
      [] /\ certVoted[n] = NoBlock
         /\ kNullBlockHash \in prevNext[n] \/ prevNext[n] = {} -> {kNullBlockHash}
      [] OTHER -> prevNext[n]

\* secondFinish_: the 2t+1 soft voted block, and null unless cert voted.
SecondFinishChoices(n) ==
    {b \in Blocks : "value" \notin nextVoted[n] /\ SoftVoted(round[n], b)}
    \cup
    {v \in {kNullBlockHash} : /\ certVoted[n] = NoBlock
                              /\ "null" \notin nextVoted[n]
                              /\ round[n] >= 2
                              /\ v \in prevNext[n]}

\* genAndPlaceVote for one of the choices.  No vote: not selected by sortition,
\* block missing or not valid here, or vote not unique.
AtMostOne(n, choices) ==
    {{v} : v \in choices} \cup {V \in {{}} : choices = {} \/ n \in Abstaining}

\* The sets of values one run of the node's current handler may vote for.
Placeable(n) ==
    CASE step[n] = 2 -> AtMostOne(n, SoftVoteChoices(n))
      [] step[n] = 3 -> AtMostOne(n, CertVoteChoices(n))
      [] IsFirstFinish(step[n]) -> AtMostOne(n, FirstFinishChoices(n))
      [] IsSecondFinish(step[n]) ->
           {V \in SUBSET SecondFinishChoices(n) :
               \A kind \in {Blocks, {kNullBlockHash}} :
                   V \cap kind \in AtMostOne(n, SecondFinishChoices(n) \cap kind)}
      [] OTHER -> {{}}

\* genAndPlaceVote, the vote type following from the step: 2 soft, 3 cert, above next.
PlaceVotes(n, V) ==
    votes' = [votes EXCEPT ![round[n]][step[n]] =
                 [v \in Values |-> IF v \in V THEN @[v] \cup {n} ELSE @[v]]]

Running(n) == decided[n] = NoBlock

(***************************************************************************)
(* Init: every node starts the period in round 1, step 1.                  *)
(***************************************************************************)
Init ==
    /\ votes = [r \in Rounds |-> [s \in Steps |-> [v \in Values |-> {}]]]
    /\ proposals = IF Byzantine = {} THEN {} ELSE Rounds \X Blocks
    /\ round = [n \in Honest |-> 1]
    /\ step = [n \in Honest |-> 1]
    /\ certVoted = [n \in Honest |-> NoBlock]
    /\ nextVoted = [n \in Honest |-> {}]
    /\ prevNext = [n \in Honest |-> {}]
    /\ prevNextDb = [n \in Honest |-> {}]
    /\ decided = [n \in Honest |-> NoBlock]
    /\ amnesiac = {}

(***************************************************************************)
(* The handlers of the PBFT states, each with the state change after it    *)
(***************************************************************************)

\* setPbftStep, within the bound.
SetStep(n, s) ==
    /\ s <= IF round[n] = MaxRound THEN LastRoundStep ELSE MaxStep
    /\ step' = [step EXCEPT ![n] = s]

ProposeBlock(n) ==
    /\ Running(n)
    /\ step[n] = 1
    /\ \/ \E b \in IF FreshRound(n) THEN Blocks ELSE prevNext[n] :
            proposals' = proposals \cup {<<round[n], b>>}
       \/ UNCHANGED proposals
    /\ SetStep(n, 2)
    /\ UNCHANGED <<votes, round, certVoted, nextVoted, prevNext, prevNextDb, decided, amnesiac>>

IdentifyBlock(n) ==
    /\ Running(n)
    /\ step[n] = 2
    /\ \E V \in Placeable(n) : PlaceVotes(n, V)
    /\ SetStep(n, 3)
    /\ UNCHANGED <<proposals, round, certVoted, nextVoted, prevNext, prevNextDb, decided, amnesiac>>

\* Step 3 polls until its deadline, then goes to the first finish step.
CertifyBlock(n) ==
    /\ Running(n)
    /\ step[n] = 3
    /\ \/ /\ SetStep(n, 4)
          /\ UNCHANGED <<votes, certVoted>>
       \/ /\ \E V \in Placeable(n) : \E b \in V :
               /\ PlaceVotes(n, V)
               /\ certVoted' = [certVoted EXCEPT ![n] = b]
          /\ UNCHANGED step
    /\ UNCHANGED <<proposals, round, nextVoted, prevNext, prevNextDb, decided, amnesiac>>

FirstFinish(n) ==
    /\ Running(n)
    /\ IsFirstFinish(step[n])
    /\ \E V \in Placeable(n) : PlaceVotes(n, V)
    /\ SetStep(n, step[n] + 1)
    /\ nextVoted' = [nextVoted EXCEPT ![n] = {}]
    /\ UNCHANGED <<proposals, round, certVoted, prevNext, prevNextDb, decided, amnesiac>>

\* The flags that record the next votes placed in a second finish step.
Flags(V) == {IF v = kNullBlockHash THEN "null" ELSE "value" : v \in V}

SecondFinish(n) ==
    /\ Running(n)
    /\ IsSecondFinish(step[n])
    /\ \E V \in Placeable(n) :
         /\ PlaceVotes(n, V)
         /\ \/ /\ nextVoted' = [nextVoted EXCEPT ![n] = @ \cup Flags(V)]
               /\ UNCHANGED step
            \/ /\ nextVoted' = [nextVoted EXCEPT ![n] = {}]    \* loopBackFinishState_
               /\ SetStep(n, step[n] + 1)
    /\ UNCHANGED <<proposals, round, certVoted, prevNext, prevNextDb, decided, amnesiac>>

(***************************************************************************)
(* What stateOperations_ does before every handler                         *)
(***************************************************************************)

\* A node keeps the first block of a round that reaches 2t+1 next votes, and null.
AtMostOneBlock(V) == \A v, w \in V \ {kNullBlockHash} : v = w

\* determineNewRound and resetPbftConsensus.  The bundle that takes the node to
\* round r + 1 is in the database only if it was complete while the node was in r.
AdvanceRound(n) ==
    /\ Running(n)
    /\ \E r \in round[n]..(MaxRound - 1) :
         \E known \in SUBSET {v \in Values : NextVoted(r, v)} :
            /\ known # {}
            /\ AtMostOneBlock(known)
            /\ round' = [round EXCEPT ![n] = r + 1]
            /\ prevNext' = [prevNext EXCEPT ![n] = known]
            /\ prevNextDb' = [prevNextDb EXCEPT ![n] = IF r = round[n] THEN known ELSE {}]
    /\ step' = [step EXCEPT ![n] = 1]
    /\ certVoted' = [certVoted EXCEPT ![n] = NoBlock]
    /\ nextVoted' = [nextVoted EXCEPT ![n] = {}]
    /\ UNCHANGED <<votes, proposals, decided, amnesiac>>

\* addVerifiedVote completes a bundle of the previous round: kept in memory only.
LearnPrevNext(n) ==
    /\ Running(n)
    /\ n \in Unreliable
    /\ \E v \in Values \ prevNext[n] :
         /\ round[n] >= 2
         /\ NextVoted(round[n] - 1, v)
         /\ AtMostOneBlock(prevNext[n] \cup {v})
         /\ prevNext' = [prevNext EXCEPT ![n] = @ \cup {v}]
    /\ UNCHANGED <<votes, proposals, round, step, certVoted, nextVoted, prevNextDb, decided, amnesiac>>

\* pushPbftBlock_ and advancePeriod: the round state is reset for the next period.
PushPbftBlock(n, b) ==
    /\ decided' = [decided EXCEPT ![n] = b]
    /\ round' = [round EXCEPT ![n] = 1]
    /\ step' = [step EXCEPT ![n] = 1]
    /\ certVoted' = [certVoted EXCEPT ![n] = NoBlock]
    /\ nextVoted' = [nextVoted EXCEPT ![n] = {}]
    /\ prevNext' = [prevNext EXCEPT ![n] = {}]
    /\ prevNextDb' = [prevNextDb EXCEPT ![n] = {}]
    /\ UNCHANGED <<votes, proposals, amnesiac>>

\* tryPushCertVotesBlock: 2t+1 cert votes of the node's own round.
TryPushCertVotesBlock(n) ==
    /\ Running(n)
    /\ \E b \in Blocks : CertVoted(round[n], b) /\ PushPbftBlock(n, b)

\* pushSyncedPbftBlocksIntoChain: a block that a peer sent with its 2t+1 cert votes.
PushSyncedPbftBlock(n) ==
    /\ Running(n)
    /\ \E r \in Rounds, b \in Blocks : CertVoted(r, b) /\ PushPbftBlock(n, b)

(***************************************************************************)
(* Crash and restart                                                       *)
(***************************************************************************)

\* Mutant: the restarted node repeats the step it crashed in.
RestartRepeatsStep(n) == step[n]

\* initialState: steps 2 and 3 are never repeated, step 1 only in round 1.
RestartStep(n) ==
    CASE round[n] = 1 /\ step[n] = 1 -> 1
      [] ~(round[n] = 1 /\ step[n] = 1) /\ step[n] < 4 -> 4
      [] OTHER -> step[n]

\* replaceTwoTPlusOneVotes removes a bundle and then writes the new one of the same
\* type: a crash in between loses the previous round's bundle.
HalfReplaced(n) ==
    {lost \in SUBSET prevNextDb[n] :
        \A v \in lost : /\ TornWrites
                        /\ \E w \in Values : /\ (w = kNullBlockHash) <=> (v = kNullBlockHash)
                                            /\ NextVoted(round[n], w)}

\* The process dies after the handler gossiped some of its votes and before it wrote
\* anything else, and starts again from the database (constructor, initialState).
CrashAndRestart(n) ==
    /\ Running(n)
    /\ n \in Unreliable
    /\ \E V \in Placeable(n) \cup {{}}, lost \in HalfReplaced(n) :
         /\ PlaceVotes(n, V)
         /\ prevNextDb' = [prevNextDb EXCEPT ![n] = @ \ lost]
         /\ prevNext' = [prevNext EXCEPT ![n] = prevNextDb'[n]]
         /\ amnesiac' = IF prevNext'[n] # prevNext[n] \/ (step[n] = 3 /\ V # {})
                        THEN amnesiac \cup {n} ELSE amnesiac
    /\ SetStep(n, RestartStep(n))
    /\ Cardinality(amnesiac') <= MaxAmnesia
    /\ UNCHANGED <<proposals, round, certVoted, nextVoted, decided>>

Next ==
    \E n \in Honest :
        \/ ProposeBlock(n)
        \/ IdentifyBlock(n)
        \/ CertifyBlock(n)
        \/ FirstFinish(n)
        \/ SecondFinish(n)
        \/ AdvanceRound(n)
        \/ LearnPrevNext(n)
        \/ TryPushCertVotesBlock(n)
        \/ PushSyncedPbftBlock(n)
        \/ CrashAndRestart(n)

Spec == Init /\ [][Next]_vars

(***************************************************************************)
(* Properties                                                              *)
(***************************************************************************)

\* The type invariant of the nodes' consensus state and of the gossiped votes.
TypeOK ==
    /\ votes \in [Rounds -> [Steps -> [Values -> SUBSET Honest]]]
    /\ proposals \subseteq Rounds \X Blocks
    /\ round \in [Honest -> Rounds]
    /\ step \in [Honest -> Steps]
    /\ certVoted \in [Honest -> Blocks \cup {NoBlock}]
    /\ nextVoted \in [Honest -> SUBSET {"value", "null"}]
    /\ prevNext \in [Honest -> SUBSET Values]
    /\ prevNextDb \in [Honest -> SUBSET Values]
    /\ decided \in [Honest -> Blocks \cup {NoBlock}]
    /\ amnesiac \subseteq Honest

\* At most t of the 3t+1 votes are faulty: Byzantine or amnesiac.
Tolerated ==
    Cardinality(Byzantine \cup amnesiac) <= (Cardinality(Validators) - 1) \div 3

\* No two nodes push different blocks for the period, by cert votes of any round
\* or by syncing, however they crash (pushPbftBlock_ takes the first one it gets).
Agreement ==
    Tolerated => \A n, m \in Honest :
        decided[n] # NoBlock /\ decided[m] # NoBlock => decided[n] = decided[m]

\* Once a block has 2t+1 cert votes in a round, nothing else, null included, gets
\* 2t+1 next votes in that round or a later one: no round is entered that could
\* drop the block, whichever order the cert and the next votes are cast in.
CertifiedIsLocked ==
    Tolerated => \A r \in Rounds : \A b \in Blocks : CertVoted(r, b) =>
        \A q \in r..MaxRound : \A v \in Values : NextVoted(q, v) => v = b

\* The assertions of addVerifiedVote: per round and type one block reaches 2t+1
\* (soft, cert, and next votes for a block, over all finish steps together).
OneTwoTPlusOneBlock ==
    Tolerated => \A r \in Rounds : \A b, c \in Blocks : b # c =>
        /\ ~(SoftVoted(r, b) /\ SoftVoted(r, c))
        /\ ~(CertVoted(r, b) /\ CertVoted(r, c))
        /\ ~(NextVoted(r, b) /\ NextVoted(r, c))

\* No crash makes an honest node cast two soft or two cert votes in a round, which
\* peers would report as double voting.
NoDoubleSoftOrCertVote ==
    \A r \in Rounds : \A s \in {2, 3} : \A v, w \in Values :
        v # w => votes[r][s][v] \cap votes[r][s][w] = {}

\* The assertion at the end of proposeBlock_: whoever proposes in a round above 1
\* knows 2t+1 next votes of the round before.
ProposerKnowsPreviousRound ==
    \A n \in Honest : step[n] = 1 /\ round[n] > 1 => prevNext[n] # {}

\* The protocol's first finish rule: who has cert voted a block in the round next
\* votes that block in every first finish step of the round.
CertifiedIsNextVoted ==
    \A r \in Rounds : \A s \in {q \in Steps : IsFirstFinish(q)} : \A v, w \in Values :
        v # w => votes[r][3][v] \cap votes[r][s][w] = {}

(***************************************************************************)
(* The inductive invariant behind Agreement                                *)
(***************************************************************************)

Voted(n, r, s, v) == n \in votes[r][s][v]

\* What the honest votes of one node say about the bundles they rest on.
SoftVotesJustified ==
    \A n \in Honest, r \in Rounds, v \in Values : Voted(n, r, 2, v) =>
        /\ v \in Blocks
        /\ r >= 2 => NextVoted(r - 1, kNullBlockHash) \/ NextVoted(r - 1, v)

CertVotesJustified ==
    \A n \in Honest, r \in Rounds, v \in Values :
        Voted(n, r, 3, v) => v \in Blocks /\ SoftVoted(r, v)

NextVotesJustified ==
    \A n \in Honest, r \in Rounds, s \in 4..MaxStep, v \in Values : Voted(n, r, s, v) =>
        /\ v \in Blocks => SoftVoted(r, v) \/ (r >= 2 /\ NextVoted(r - 1, v))
        /\ v = kNullBlockHash /\ n \notin amnesiac /\ r >= 2 => NextVoted(r - 1, kNullBlockHash)

\* Who cert voted a block next votes it, or another one only after 2t+1 soft votes.
CertVoterKeepsBlock ==
    \A n \in Honest \ amnesiac, r \in Rounds, s \in 4..MaxStep, v, w \in Values :
        Voted(n, r, 3, v) /\ Voted(n, r, s, w) => w = v \/ (w \in Blocks /\ SoftVoted(r, w))

SoftVoterKeepsBlock ==
    \A n \in Honest \ amnesiac, r \in Rounds, s \in 4..MaxStep, v \in Values, w \in Blocks :
        Voted(n, r, 2, v) /\ Voted(n, r, s, w) => w = v \/ SoftVoted(r, w)

\* What a running node's local state remembers of its own votes and of the bundles.
VotesAreInThePast(n) ==
    \A r \in Rounds, s \in Steps, v \in Values : Voted(n, r, s, v) =>
        \/ r < round[n]
        \/ r = round[n] /\ s <= step[n] /\ (s = 2 => step[n] >= 3)

CertVoteRemembered(n) ==
    /\ certVoted[n] # NoBlock => SoftVoted(round[n], certVoted[n])
    /\ \A v \in Values : Voted(n, round[n], 3, v) /\ (step[n] = 3 \/ n \notin amnesiac)
                            => certVoted[n] = v

PreviousRoundKnown(n) ==
    /\ prevNextDb[n] \subseteq prevNext[n]
    /\ AtMostOneBlock(prevNext[n])
    /\ \A v \in prevNext[n] : round[n] >= 2 /\ NextVoted(round[n] - 1, v)
    /\ round[n] >= 2 /\ (n \notin amnesiac \/ step[n] <= 3) => prevNext[n] # {}
    /\ round[n] >= 2 /\ n \notin amnesiac =>
         \A v \in Values : Voted(n, round[n], 2, v) => prevNext[n] \cap {kNullBlockHash, v} # {}

NodeRemembers ==
    \A n \in Honest : IF Running(n)
        THEN VotesAreInThePast(n) /\ CertVoteRemembered(n) /\ PreviousRoundKnown(n)
        ELSE round[n] = 1 /\ \E r \in Rounds : CertVoted(r, decided[n])

\* The votes of every node are justified by bundles that existed when it cast them, and
\* what it still remembers after any crash is enough to keep that true.
VotesJustified ==
    /\ NoDoubleSoftOrCertVote
    /\ SoftVotesJustified
    /\ CertVotesJustified
    /\ NextVotesJustified
    /\ CertVoterKeepsBlock
    /\ SoftVoterKeepsBlock
    /\ NodeRemembers
=============================================================================
