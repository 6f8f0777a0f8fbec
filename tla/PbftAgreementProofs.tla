------------------------ MODULE PbftAgreementProofs ------------------------
(***************************************************************************)
(* The second half of VotesJustified, what a node still remembers after a  *)
(* step, a crash included; the inductive invariant as a whole; and the     *)
(* proof of Agreement from it. Locking and uniqueness hold in every state  *)
(* that satisfies it with at most t faulty votes, by looking at the least  *)
(* round that would violate them.                                          *)
(***************************************************************************)
EXTENDS PbftConsensusProofs

\* The time the SMT solver is given for a step that names no prover.
USE SMTT(60)

USE ValuesAssumption, BoundsAssumption

(***************************************************************************)
(* VotesJustified, part by part: what the nodes remember                   *)
(***************************************************************************)

Remembers(n) ==
    IF Running(n)
    THEN VotesAreInThePast(n) /\ CertVoteRemembered(n) /\ PreviousRoundKnown(n)
    ELSE round[n] = 1 /\ \E r \in Rounds : CertVoted(r, decided[n])

\* A step of one node leaves the local state of the others alone.
LEMMA OthersUnchanged ==
    ASSUME TypeOK, NEW n \in Honest, Step(n), NEW m \in Honest, m # n
    PROVE  /\ round'[m] = round[m] /\ step'[m] = step[m] /\ certVoted'[m] = certVoted[m]
           /\ prevNext'[m] = prevNext[m] /\ prevNextDb'[m] = prevNextDb[m]
           /\ decided'[m] = decided[m]
           /\ m \in amnesiac' <=> m \in amnesiac
<1>1. CASE ProposeBlock(n)
  BY <1>1, Zenon DEF ProposeBlock, SetStep, TypeOK
<1>2. CASE IdentifyBlock(n)
  BY <1>2, Zenon DEF IdentifyBlock, SetStep, TypeOK
<1>3. CASE CertifyBlock(n)
  BY <1>3, Zenon DEF CertifyBlock, SetStep, TypeOK
<1>4. CASE FirstFinish(n)
  BY <1>4, Zenon DEF FirstFinish, SetStep, TypeOK
<1>5. CASE SecondFinish(n)
  BY <1>5, Zenon DEF SecondFinish, SetStep, TypeOK
<1>6. CASE AdvanceRound(n)
  BY <1>6 DEF AdvanceRound, SetStep, TypeOK
<1>7. CASE LearnPrevNext(n)
  BY <1>7, Zenon DEF LearnPrevNext, SetStep, TypeOK
<1>8. CASE CrashAndRestart(n)
  BY <1>8, Zenon DEF CrashAndRestart, SetStep, TypeOK
<1>9. ASSUME NEW b, PushPbftBlock(n, b)
      PROVE  /\ round'[m] = round[m] /\ step'[m] = step[m] /\ certVoted'[m] = certVoted[m]
             /\ prevNext'[m] = prevNext[m] /\ prevNextDb'[m] = prevNextDb[m]
             /\ decided'[m] = decided[m] /\ UNCHANGED amnesiac
  BY <1>9, Zenon DEF PushPbftBlock, TypeOK
<1> QED
  BY <1>1, <1>2, <1>3, <1>4, <1>5, <1>6, <1>7, <1>8, <1>9, Zenon
  DEF Step, TryPushCertVotesBlock, PushSyncedPbftBlock

\* What a node remembers stays true when others vote.
LEMMA OthersRemember ==
    ASSUME TypeOK, TypeOK', VotesJustified, NEW n \in Honest, Step(n), NEW V, Casts(n, V),
           NEW m \in Honest, m # n
    PROVE  Remembers(m)'
<1>0. Remembers(m)
  BY Zenon DEF VotesJustified, NodeRemembers, Remembers
<1>1. \A r \in Rounds, s \in Steps, v \in Values : Voted(m, r, s, v)' => Voted(m, r, s, v)
  BY NewVote, Zenon
<1>2. round[m] \in Rounds /\ (decided[m] # NoBlock => decided[m] \in Values)
      /\ (certVoted[m] # NoBlock => certVoted[m] \in Values) /\ prevNext[m] \subseteq Values
  BY Zenon DEF TypeOK, Values
<1>3. CASE Running(m)
  <2>1. VotesAreInThePast(m)'
    BY <1>0, <1>1, <1>3, OthersUnchanged DEF Remembers, VotesAreInThePast
  <2>2. CertVoteRemembered(m)'
    BY <1>0, <1>1, <1>2, <1>3, OthersUnchanged, BundlesLast, StepNumbers
    DEF Remembers, CertVoteRemembered
  <2>3. PreviousRoundKnown(m)'
    BY <1>0, <1>1, <1>2, <1>3, OthersUnchanged, BundlesLast, StepNumbers
    DEF Remembers, PreviousRoundKnown, AtMostOneBlock
  <2> QED
    BY <1>3, <2>1, <2>2, <2>3, OthersUnchanged, Zenon DEF Remembers, Running
<1>4. CASE ~Running(m)
  BY <1>0, <1>2, <1>4, OthersUnchanged, BundlesLast, Zenon DEF Remembers, Running
<1> QED
  BY <1>3, <1>4, Zenon

\* The node only moves to a later step of its round, voting or not, and what it forgets
\* of the previous round or of its cert vote makes it amnesiac.
MovesOn(n, V) ==
    /\ Casts(n, V)
    /\ step'[n] >= step[n] /\ (step[n] = 2 => step'[n] >= 3)
    /\ round'[n] = round[n] /\ decided'[n] = decided[n] /\ amnesiac \subseteq amnesiac'
    /\ \/ certVoted'[n] = certVoted[n] /\ (step[n] = 3 /\ V # {} => n \in amnesiac' /\ step'[n] # 3)
       \/ certVoted'[n] \in V /\ step[n] = 3
    /\ prevNextDb'[n] \subseteq prevNext'[n] /\ prevNext'[n] \subseteq prevNext[n]
    /\ n \notin amnesiac' \/ step'[n] <= 3 => prevNext'[n] = prevNext[n]

LEMMA LaterStepRemembers ==
    ASSUME TypeOK, TypeOK', NEW n \in Honest, Remembers(n), NEW V, MovesOn(n, V)
    PROVE  Remembers(n)'
<1> USE DEF MovesOn
<1>0. /\ VotesAreInThePast(n) /\ CertVoteRemembered(n) /\ PreviousRoundKnown(n)
      /\ Running(n) /\ Running(n)'
  BY Zenon DEF Remembers, Casts, Running
<1>1. /\ round[n] \in Rounds /\ round[n] \in Nat /\ step[n] \in Steps
      /\ step[n] \in Nat /\ step'[n] \in Nat
      /\ certVoted[n] # NoBlock => certVoted[n] \in Values
      /\ prevNext[n] \subseteq Values /\ NoBlock \notin Values
      /\ \A r \in Rounds : r \in Nat
      /\ \A s \in Steps : s \in Nat
  BY DEF TypeOK, Values, Rounds, Steps
<1>2. VotesAreInThePast(n)'
  <2> SUFFICES ASSUME NEW r \in Rounds, NEW s \in Steps, NEW v \in Values, Voted(n, r, s, v)'
               PROVE  r < round[n] \/ (r = round[n] /\ s <= step'[n] /\ (s = 2 => step'[n] >= 3))
    BY Zenon DEF VotesAreInThePast
  <2>1. CASE Voted(n, r, s, v)
    BY <1>0, <1>1, <2>1 DEF VotesAreInThePast
  <2>2. CASE r = round[n] /\ s = step[n]
    BY <1>1, <2>2, Zenon
  <2> QED
    BY <2>1, <2>2, NewVote
<1>3. CertVoteRemembered(n)'
  <2>1. ASSUME NEW b, b = certVoted'[n], b # NoBlock
        PROVE  SoftVoted(round[n], b)'
    <3>1. b \in Values /\ SoftVoted(round[n], b)
      <4>1. CASE b = certVoted[n]
        BY <1>0, <1>1, <2>1, <4>1, Zenon DEF CertVoteRemembered
      <4>2. CASE b \in V /\ step[n] = 3
        BY <4>2 DEF Casts, MayVote
      <4> QED
        BY <2>1, <4>1, <4>2, Zenon
    <3> QED
      BY <1>1, <3>1, BundlesLast, Zenon
  <2>2. ASSUME NEW v \in Values, Voted(n, round[n], 3, v)', step'[n] = 3 \/ n \notin amnesiac'
        PROVE  certVoted'[n] = v
    <3>1. CASE Voted(n, round[n], 3, v)
      <4>1. step[n] >= 3
        BY <1>0, <1>1, <3>1, StepNumbers DEF VotesAreInThePast
      <4>2. certVoted[n] = v
        BY <1>0, <1>1, <2>2, <3>1, <4>1 DEF CertVoteRemembered
      <4>3. ~(step[n] = 3 /\ V # {})
        BY <1>1, <4>2 DEF Casts, MayVote
      <4> QED
        BY <4>2, <4>3, Zenon
    <3>2. CASE step[n] = 3 /\ v \in V
      BY <2>2, <3>2, Zenon DEF Casts
    <3> QED
      BY <1>1, <2>2, <3>1, <3>2, NewVote, StepNumbers, Zenon
  <2> QED
    BY <2>1, <2>2, Zenon DEF CertVoteRemembered
<1>4. PreviousRoundKnown(n)'
  <2>1. \A v \in prevNext'[n] : round[n] >= 2 /\ NextVoted(round[n] - 1, v)'
    BY <1>0, <1>1, BundlesLast, StepNumbers, Zenon DEF PreviousRoundKnown
  <2>2. round[n] >= 2 /\ (n \notin amnesiac' \/ step'[n] <= 3) => prevNext'[n] # {}
    <3>1. n \notin amnesiac' \/ step'[n] <= 3 => n \notin amnesiac \/ step[n] <= 3
      BY <1>1
    <3>2. round[n] >= 2 /\ (n \notin amnesiac \/ step[n] <= 3) => prevNext[n] # {}
      BY <1>0, Zenon DEF PreviousRoundKnown
    <3> QED
      BY <3>1, <3>2, Zenon
  <2>3. ASSUME round[n] >= 2, n \notin amnesiac', NEW v \in Values, Voted(n, round[n], 2, v)'
        PROVE  prevNext'[n] \cap {kNullBlockHash, v} # {}
    <3>1. CASE Voted(n, round[n], 2, v)
      BY <1>0, <2>3, <3>1, Zenon DEF PreviousRoundKnown
    <3>2. CASE step[n] = 2 /\ MayVote(n, v)
      BY <1>1, <2>3, <3>2 DEF MayVote
    <3> QED
      BY <1>1, <2>3, <3>1, <3>2, NewVote, StepNumbers
  <2>4. AtMostOneBlock(prevNext'[n])
    BY <1>0, Zenon DEF PreviousRoundKnown, AtMostOneBlock
  <2> QED
    BY <2>1, <2>2, <2>3, <2>4, Zenon DEF PreviousRoundKnown, AtMostOneBlock
<1> QED
  BY <1>0, <1>2, <1>3, <1>4, Zenon DEF Remembers

LEMMA HandlerRemembers ==
    ASSUME TypeOK, TypeOK', NEW n \in Honest, Remembers(n),
           \/ ProposeBlock(n) \/ IdentifyBlock(n) \/ CertifyBlock(n)
           \/ FirstFinish(n) \/ SecondFinish(n)
    PROVE  Remembers(n)'
<1>0. step[n] \in Nat /\ Running(n)
  <2>1. step[n] \in Nat
    BY DEF TypeOK, Steps
  <2>2. Running(n)
    BY Zenon DEF ProposeBlock, IdentifyBlock, CertifyBlock, FirstFinish, SecondFinish
  <2> QED
    BY <2>1, <2>2, Zenon
<1>a. prevNextDb[n] \subseteq prevNext[n]
  BY <1>0, Zenon DEF Remembers, PreviousRoundKnown
<1>1. ASSUME UNCHANGED votes PROVE Casts(n, {})
  BY <1>0, <1>1, Zenon DEF Casts, OnlyAdds
<1>2. CASE ProposeBlock(n)
  <2>1. Casts(n, {}) /\ step'[n] = 2 /\ step[n] = 1
    BY <1>1, <1>2, Zenon DEF ProposeBlock, SetStep, TypeOK
  <2>2. UNCHANGED <<round, certVoted, prevNext, prevNextDb, decided, amnesiac>>
    BY <1>2, Zenon DEF ProposeBlock
  <2>3. MovesOn(n, {})
    BY <1>a, <2>1, <2>2 DEF MovesOn
  <2> QED
    BY <2>3, LaterStepRemembers, Zenon
<1>3. CASE IdentifyBlock(n)
  <2>1. PICK V \in Placeable(n) : PlaceVotes(n, V)
    BY <1>3, Zenon DEF IdentifyBlock
  <2>2. Casts(n, V) /\ step'[n] = 3 /\ step[n] = 2
    BY <1>0, <1>3, <2>1, PlacingCasts, Zenon DEF IdentifyBlock, SetStep, TypeOK
  <2>3. UNCHANGED <<round, certVoted, prevNext, prevNextDb, decided, amnesiac>>
    BY <1>3, Zenon DEF IdentifyBlock
  <2>4. MovesOn(n, V)
    BY <1>a, <2>2, <2>3 DEF MovesOn
  <2> QED
    BY <2>4, LaterStepRemembers, Zenon
<1>4. CASE CertifyBlock(n)
  <2>0. step[n] = 3 /\ UNCHANGED <<round, prevNext, prevNextDb, decided, amnesiac>>
    BY <1>4, Zenon DEF CertifyBlock
  <2>1. CASE SetStep(n, 4) /\ UNCHANGED <<votes, certVoted>>
    <3>1. Casts(n, {}) /\ step'[n] = 4
      BY <1>1, <2>1, Zenon DEF SetStep, TypeOK
    <3>2. MovesOn(n, {})
      BY <1>a, <2>0, <2>1, <3>1 DEF MovesOn
    <3> QED
      BY <3>2, LaterStepRemembers, Zenon
  <2>2. ASSUME NEW V \in Placeable(n), NEW b \in V, PlaceVotes(n, V), UNCHANGED step,
               certVoted' = [certVoted EXCEPT ![n] = b]
        PROVE  Remembers(n)'
    <3>1. Casts(n, V)
      BY <1>0, <2>2, PlacingCasts, Zenon
    <3>2. certVoted'[n] \in V
      BY <2>2, Zenon DEF TypeOK
    <3>3. MovesOn(n, V)
      BY <1>a, <2>0, <2>2, <3>1, <3>2 DEF MovesOn
    <3> QED
      BY <3>3, LaterStepRemembers, Zenon
  <2> QED
    BY <1>4, <2>1, <2>2, Zenon DEF CertifyBlock
<1>5. CASE FirstFinish(n)
  <2>1. PICK V \in Placeable(n) : PlaceVotes(n, V)
    BY <1>5, Zenon DEF FirstFinish
  <2>2. Casts(n, V) /\ step'[n] = step[n] + 1 /\ step[n] >= 4
    BY <1>0, <1>5, <2>1, PlacingCasts, Zenon DEF FirstFinish, IsFirstFinish, SetStep, TypeOK
  <2>3. UNCHANGED <<round, certVoted, prevNext, prevNextDb, decided, amnesiac>>
    BY <1>5, Zenon DEF FirstFinish
  <2>4. MovesOn(n, V)
    BY <1>0, <1>a, <2>2, <2>3 DEF MovesOn
  <2> QED
    BY <2>4, LaterStepRemembers, Zenon
<1>6. CASE SecondFinish(n)
  <2>1. PICK V \in Placeable(n) : PlaceVotes(n, V)
    BY <1>6, Zenon DEF SecondFinish
  <2>2. step'[n] \in {step[n], step[n] + 1}
    BY <1>0, <1>6, Zenon DEF SecondFinish, SetStep, TypeOK
  <2>3. Casts(n, V) /\ step[n] >= 5
    BY <1>0, <1>6, <2>1, PlacingCasts, Zenon DEF SecondFinish, IsSecondFinish
  <2>4. UNCHANGED <<round, certVoted, prevNext, prevNextDb, decided, amnesiac>>
    BY <1>6, Zenon DEF SecondFinish
  <2>5. MovesOn(n, V)
    BY <1>0, <1>a, <2>2, <2>3, <2>4 DEF MovesOn
  <2> QED
    BY <2>5, LaterStepRemembers, Zenon
<1> QED
  BY <1>2, <1>3, <1>4, <1>5, <1>6, Zenon

LEMMA CrashRemembers ==
    ASSUME TypeOK, TypeOK', NEW n \in Honest, Remembers(n), CrashAndRestart(n)
    PROVE  Remembers(n)'
<1>0. Running(n) /\ PreviousRoundKnown(n)
  BY Zenon DEF Remembers, CrashAndRestart
<1>1. /\ step[n] \in Nat /\ step[n] >= 1 /\ round[n] \in Nat /\ round[n] >= 1 /\ step'[n] \in Nat
  BY DEF TypeOK, Steps, Rounds
<1>2. PICK V \in Placeable(n) \cup {{}}, lost \in HalfReplaced(n) :
        /\ PlaceVotes(n, V)
        /\ prevNextDb' = [prevNextDb EXCEPT ![n] = @ \ lost]
        /\ prevNext' = [prevNext EXCEPT ![n] = prevNextDb'[n]]
        /\ amnesiac' = IF prevNext'[n] # prevNext[n] \/ (step[n] = 3 /\ V # {})
                       THEN amnesiac \cup {n} ELSE amnesiac
  BY Zenon DEF CrashAndRestart
<1>3. Casts(n, V)
  BY <1>0, <1>2, PlacingCasts, Zenon
<1>4. step'[n] = RestartStep(n)
  BY Zenon DEF CrashAndRestart, SetStep, TypeOK
<1>5. /\ step'[n] >= step[n] /\ (step[n] \in {2, 3} => step'[n] = 4)
      /\ step'[n] <= 3 => round[n] = 1
  BY <1>1, <1>4 DEF RestartStep
<1>6. prevNextDb'[n] \subseteq prevNext'[n] /\ prevNext'[n] \subseteq prevNext[n]
  <2>1. prevNext'[n] = prevNextDb'[n] /\ prevNextDb'[n] \subseteq prevNextDb[n]
    BY <1>2, Zenon DEF TypeOK
  <2> QED
    BY <1>0, <2>1, Zenon DEF PreviousRoundKnown
<1>7. prevNext'[n] # prevNext[n] => n \in amnesiac' /\ step'[n] > 3
  <2>1. round[n] = 1 => prevNext[n] = {}
    BY <1>0 DEF PreviousRoundKnown
  <2>2. prevNext'[n] # prevNext[n] => n \in amnesiac'
    BY <1>2, Zenon
  <2>3. step'[n] <= 3 => prevNext'[n] = prevNext[n]
    BY <1>5, <1>6, <2>1, Zenon
  <2> QED
    BY <1>1, <2>2, <2>3
<1>8. /\ step[n] = 3 /\ V # {} => n \in amnesiac' /\ step'[n] # 3
      /\ amnesiac \subseteq amnesiac'
  BY <1>2, <1>5
<1>9. UNCHANGED <<round, decided, certVoted>>
  BY Zenon DEF CrashAndRestart
<1>10. MovesOn(n, V)
  <2>1. step'[n] >= step[n] /\ (step[n] = 2 => step'[n] >= 3)
    BY <1>1, <1>5
  <2>2. n \notin amnesiac' \/ step'[n] <= 3 => prevNext'[n] = prevNext[n]
    BY <1>1, <1>7
  <2> QED
    BY <1>3, <1>6, <1>8, <1>9, <2>1, <2>2, Zenon DEF MovesOn
<1> QED
  BY <1>10, LaterStepRemembers, Zenon

LEMMA LearnRemembers ==
    ASSUME TypeOK, TypeOK', NEW n \in Honest, Remembers(n), LearnPrevNext(n)
    PROVE  Remembers(n)'
<1>0. VotesAreInThePast(n) /\ CertVoteRemembered(n) /\ PreviousRoundKnown(n) /\ Running(n)
  BY Zenon DEF Remembers, LearnPrevNext
<1>1. PICK v \in Values \ prevNext[n] :
        /\ round[n] >= 2 /\ NextVoted(round[n] - 1, v)
        /\ AtMostOneBlock(prevNext[n] \cup {v})
        /\ prevNext' = [prevNext EXCEPT ![n] = @ \cup {v}]
  BY Zenon DEF LearnPrevNext
<1>2. prevNext'[n] = prevNext[n] \cup {v}
  BY <1>1, Zenon DEF TypeOK
<1>3. UNCHANGED <<votes, round, step, certVoted, prevNextDb, decided, amnesiac>>
  BY Zenon DEF LearnPrevNext
<1>4. VotesAreInThePast(n)' /\ CertVoteRemembered(n)' /\ Running(n)'
  BY <1>0, <1>3, Zenon DEF VotesAreInThePast, CertVoteRemembered, Voted, SoftVoted, TwoTPlusOneVoted, Running
<1>5. PreviousRoundKnown(n)'
  BY <1>0, <1>1, <1>2, <1>3, Zenon
  DEF PreviousRoundKnown, AtMostOneBlock, NextVoted, TwoTPlusOneVoted, Voted
<1> QED
  BY <1>4, <1>5, Zenon DEF Remembers

LEMMA AdvanceRemembers ==
    ASSUME TypeOK, TypeOK', NEW n \in Honest, Remembers(n), AdvanceRound(n)
    PROVE  Remembers(n)'
<1>0. VotesAreInThePast(n) /\ Running(n) /\ round[n] \in Nat /\ round[n] >= 1
      /\ \A r \in Rounds : r \in Nat
  BY DEF Remembers, AdvanceRound, TypeOK, Rounds
<1>1. PICK r \in round[n]..(MaxRound - 1), known \in SUBSET Values :
        /\ known # {} /\ AtMostOneBlock(known) /\ \A v \in known : NextVoted(r, v)
        /\ round' = [round EXCEPT ![n] = r + 1]
        /\ prevNext' = [prevNext EXCEPT ![n] = known]
        /\ prevNextDb' = [prevNextDb EXCEPT ![n] = IF r = round[n] THEN known ELSE {}]
  BY Zenon DEF AdvanceRound
<1>2. /\ round'[n] = r + 1 /\ round'[n] > round[n] /\ round'[n] - 1 = r /\ round'[n] >= 2
      /\ prevNext'[n] = known /\ prevNextDb'[n] \subseteq known /\ certVoted'[n] = NoBlock
      /\ UNCHANGED <<votes, decided, amnesiac>>
  <2>1. round'[n] = r + 1 /\ r \in Nat /\ r >= round[n]
    BY <1>0, <1>1 DEF TypeOK
  <2>2. prevNext'[n] = known /\ prevNextDb'[n] \subseteq known
    BY <1>1, Zenon DEF TypeOK
  <2>3. certVoted'[n] = NoBlock /\ UNCHANGED <<votes, decided, amnesiac>>
    BY Zenon DEF AdvanceRound, TypeOK
  <2> QED
    BY <1>0, <2>1, <2>2, <2>3
<1>3. VotesAreInThePast(n)' /\ Running(n)'
  BY <1>0, <1>2 DEF VotesAreInThePast, Voted, Running
<1>4. \A s \in Steps, v \in Values : ~Voted(n, round[n], s, v)'
  <2>1. round'[n] \in Rounds
    BY Zenon DEF TypeOK
  <2> QED
    BY <1>0, <1>2, <2>1 DEF VotesAreInThePast, Voted
<1>5. CertVoteRemembered(n)'
  BY <1>2, <1>4, StepNumbers, Zenon DEF CertVoteRemembered
<1>6. PreviousRoundKnown(n)'
  BY <1>1, <1>2, <1>4, StepNumbers, Zenon
  DEF PreviousRoundKnown, AtMostOneBlock, NextVoted, TwoTPlusOneVoted
<1> QED
  BY <1>3, <1>5, <1>6, Zenon DEF Remembers

LEMMA PushRemembers ==
    ASSUME TypeOK, TypeOK', NEW n \in Honest, NEW b \in Blocks, NEW r \in Rounds,
           CertVoted(r, b), PushPbftBlock(n, b)
    PROVE  Remembers(n)'
<1>1. decided'[n] = b /\ b # NoBlock /\ round'[n] = 1 /\ UNCHANGED votes
  BY Zenon DEF PushPbftBlock, TypeOK
<1> QED
  BY <1>1, Zenon DEF Remembers, Running, CertVoted, TwoTPlusOneVoted

LEMMA NodesStep ==
    ASSUME TypeOK, TypeOK', VotesJustified, NEW n \in Honest, Step(n)
    PROVE  NodeRemembers'
<1>1. Remembers(n) /\ round[n] \in Rounds
  BY Zenon DEF VotesJustified, NodeRemembers, Remembers, TypeOK
<1>2. Remembers(n)'
  BY <1>1, HandlerRemembers, CrashRemembers, LearnRemembers, AdvanceRemembers, PushRemembers, Zenon
  DEF Step, TryPushCertVotesBlock, PushSyncedPbftBlock
<1>3. \A m \in Honest \ {n} : Remembers(m)'
  BY StepCasts, OthersRemember, Zenon
<1> QED
  BY <1>2, <1>3, Zenon DEF NodeRemembers, Remembers

(***************************************************************************)
(* The inductive invariant                                                 *)
(***************************************************************************)

LEMMA JustifiedInit == Init => VotesJustified
<1> SUFFICES ASSUME Init PROVE VotesJustified
  BY Zenon
<1>1. \A n \in Honest, r \in Rounds, s \in Steps, v \in Values : ~Voted(n, r, s, v)
  BY Zenon DEF Init, Voted
<1>2. NodeRemembers
  BY <1>1, StepNumbers DEF Init, NodeRemembers, Running, VotesAreInThePast,
     CertVoteRemembered, PreviousRoundKnown, AtMostOneBlock, Rounds
<1>3. NoDoubleSoftOrCertVote
  BY StepNumbers, Zenon DEF Init, NoDoubleSoftOrCertVote
<1> QED
  BY <1>1, <1>2, <1>3, StepNumbers, Zenon
  DEF VotesJustified, SoftVotesJustified, CertVotesJustified, NextVotesJustified,
      CertVoterKeepsBlock, SoftVoterKeepsBlock

LEMMA JustifiedStep == TypeOK /\ VotesJustified /\ [Next]_vars => VotesJustified'
<1> SUFFICES ASSUME TypeOK, VotesJustified, [Next]_vars PROVE VotesJustified'
  BY Zenon
<1>1. ASSUME NEW n \in Honest, Step(n) PROVE VotesJustified'
  <2>1. TypeOK' /\ amnesiac \subseteq amnesiac'
    BY <1>1, TypeStep, AmnesiaLasts, Zenon DEF Step
  <2>2. PICK V : Casts(n, V)
    BY <1>1, StepCasts, Zenon
  <2> QED
    BY <1>1, <2>1, <2>2, OneVoteStep, SoftVotesStep, CertVotesStep, NextVotesStep,
       CertVoterStep, SoftVoterStep, NodesStep, Zenon DEF VotesJustified
<1>2. CASE UNCHANGED vars
  <2>1. NoDoubleSoftOrCertVote' /\ SoftVotesJustified' /\ CertVotesJustified'
    BY <1>2, Zenon DEF vars, VotesJustified, NoDoubleSoftOrCertVote, SoftVotesJustified,
       CertVotesJustified, Voted, SoftVoted, NextVoted, TwoTPlusOneVoted
  <2>2. NextVotesJustified'
    BY <1>2, ZenonT(30) DEF vars, VotesJustified, NextVotesJustified, Voted, SoftVoted, NextVoted, TwoTPlusOneVoted
  <2>3. CertVoterKeepsBlock' /\ SoftVoterKeepsBlock'
    BY <1>2, ZenonT(30) DEF vars, VotesJustified, CertVoterKeepsBlock, SoftVoterKeepsBlock,
       Voted, SoftVoted, TwoTPlusOneVoted
  <2>4. NodeRemembers'
    <3>1. \A n \in Honest : VotesAreInThePast(n) => VotesAreInThePast(n)'
      BY <1>2, Zenon DEF vars, VotesAreInThePast, Voted
    <3>2. \A n \in Honest : CertVoteRemembered(n) => CertVoteRemembered(n)'
      BY <1>2, Zenon DEF vars, CertVoteRemembered, Voted, SoftVoted, TwoTPlusOneVoted
    <3>3. \A n \in Honest : PreviousRoundKnown(n) => PreviousRoundKnown(n)'
      BY <1>2, Zenon DEF vars, PreviousRoundKnown, Voted, NextVoted, TwoTPlusOneVoted
    <3>4. \A r \in Rounds : \A b : CertVoted(r, b) => CertVoted(r, b)'
      BY <1>2, Zenon DEF vars, CertVoted, TwoTPlusOneVoted
    <3> QED
      BY <1>2, <3>1, <3>2, <3>3, <3>4, Zenon DEF vars, VotesJustified, NodeRemembers, Running
  <2> QED
    BY <2>1, <2>2, <2>3, <2>4, Zenon DEF VotesJustified
<1> QED
  BY <1>1, <1>2, Zenon DEF Next, Step

\* Every vote of an honest node, whenever it crashed, rests on bundles of 2t+1 votes,
\* and the node remembers enough of them: the invariant from which safety follows.
THEOREM Justified == Spec => [](TypeOK /\ VotesJustified)
<1>1. TypeOK /\ VotesJustified /\ [Next]_vars => (TypeOK /\ VotesJustified)'
  <2>1. ASSUME TypeOK, UNCHANGED vars PROVE TypeOK'
    BY <2>1, Zenon DEF vars, TypeOK
  <2> QED
    BY <2>1, TypeStep, JustifiedStep, Zenon DEF Next
<1> QED
  BY <1>1, TypeInit, JustifiedInit, PTL DEF Spec

(***************************************************************************)
(* What follows in a state with at most t faulty votes                     *)
(***************************************************************************)

LEMMA CommonVoter ==
    ASSUME TypeOK, Tolerated, NEW r \in Rounds, NEW q \in Steps, NEW s \in Steps,
           NEW v \in Values, NEW w \in Values,
           TwoTPlusOneVoted(r, q, v), TwoTPlusOneVoted(r, s, w)
    PROVE  \E n \in Honest \ amnesiac : Voted(n, r, q, v) /\ Voted(n, r, s, w)
<1>1. votes[r][q][v] \in SUBSET Honest /\ votes[r][s][w] \in SUBSET Honest
  BY DEF TypeOK
<1> QED
  BY <1>1, BundlesIntersect, Zenon DEF TwoTPlusOneVoted, Voted, TypeOK

LEMMA OneSoftVotedBlock ==
    ASSUME TypeOK, VotesJustified, Tolerated, NEW r \in Rounds, NEW b \in Values, NEW c \in Values,
           SoftVoted(r, b), SoftVoted(r, c)
    PROVE  b = c
<1>1. PICK n \in Honest : Voted(n, r, 2, b) /\ Voted(n, r, 2, c)
  BY CommonVoter, StepNumbers, Zenon DEF SoftVoted
<1> QED
  BY <1>1, Zenon DEF VotesJustified, NoDoubleSoftOrCertVote, Voted

LEMMA CertifiedIsSoftVoted ==
    ASSUME TypeOK, VotesJustified, Tolerated, NEW r \in Rounds, NEW b \in Values, CertVoted(r, b)
    PROVE  SoftVoted(r, b)
<1>1. PICK n \in Honest : Voted(n, r, 3, b)
  BY CommonVoter, StepNumbers, Zenon DEF CertVoted
<1> QED
  BY <1>1, Zenon DEF VotesJustified, CertVotesJustified

LEMMA SoftVotedIsNextVotedBefore ==
    ASSUME TypeOK, VotesJustified, Tolerated, NEW r \in Rounds, r >= 2, NEW b \in Values,
           SoftVoted(r, b)
    PROVE  NextVoted(r - 1, kNullBlockHash) \/ NextVoted(r - 1, b)
<1>1. PICK n \in Honest : Voted(n, r, 2, b)
  BY CommonVoter, StepNumbers, Zenon DEF SoftVoted
<1> QED
  BY <1>1, Zenon DEF VotesJustified, SoftVotesJustified

\* In a round, or in all rounds up to it, two different blocks are not next voted.
LEMMA OneNextVotedBlock ==
    ASSUME TypeOK, VotesJustified, Tolerated
    PROVE  \A r \in Rounds : \A b, c \in Blocks : NextVoted(r, b) /\ NextVoted(r, c) => b = c
<1> DEFINE Bad == {r \in Rounds : \E b, c \in Blocks : b # c /\ NextVoted(r, b) /\ NextVoted(r, c)}
<1> SUFFICES ASSUME Bad # {} PROVE FALSE
  BY Zenon
<1>1. Bad \subseteq Nat
  BY StepNumbers, Zenon
<1>2. PICK r \in Bad : \A q \in Bad : r <= q
  BY <1>1, LeastElement, Zenon
<1>3. r \in Rounds /\ r \in Nat
  BY <1>2, StepNumbers, Zenon
<1>4. PICK b \in Blocks, c \in Blocks : b # c /\ NextVoted(r, b) /\ NextVoted(r, c)
  BY <1>2, Zenon
<1>5. \A d \in Blocks : NextVoted(r, d) => SoftVoted(r, d) \/ (r >= 2 /\ NextVoted(r - 1, d))
  <2> SUFFICES ASSUME NEW d \in Blocks, NextVoted(r, d)
               PROVE  SoftVoted(r, d) \/ (r >= 2 /\ NextVoted(r - 1, d))
    BY Zenon
  <2>1. PICK s \in 4..MaxStep : TwoTPlusOneVoted(r, s, d)
    BY Zenon DEF NextVoted
  <2>2. PICK n \in Honest : Voted(n, r, s, d)
    BY <1>3, <2>1, CommonVoter, StepNumbers, Zenon
  <2> QED
    BY <1>3, <2>2, StepNumbers, Zenon DEF VotesJustified, NextVotesJustified
<1>6. \A d, e \in Blocks : SoftVoted(r, d) /\ NextVoted(r, e) => SoftVoted(r, e) \/ e = d
  <2> SUFFICES ASSUME NEW d \in Blocks, NEW e \in Blocks, SoftVoted(r, d), NextVoted(r, e)
               PROVE  SoftVoted(r, e) \/ e = d
    BY Zenon
  <2>1. PICK s \in 4..MaxStep : TwoTPlusOneVoted(r, s, e)
    BY Zenon DEF NextVoted
  <2>2. PICK n \in Honest \ amnesiac : Voted(n, r, 2, d) /\ Voted(n, r, s, e)
    BY <1>3, <2>1, CommonVoter, StepNumbers, Zenon DEF SoftVoted
  <2> QED
    BY <1>3, <2>2, StepNumbers, Zenon DEF VotesJustified, SoftVoterKeepsBlock
<1>7. ~(r >= 2 /\ NextVoted(r - 1, b) /\ NextVoted(r - 1, c))
  <2> SUFFICES ASSUME r >= 2, NextVoted(r - 1, b), NextVoted(r - 1, c) PROVE FALSE
    BY Zenon
  <2>1. r - 1 \in Bad
    BY <1>3, <1>4, StepNumbers, Zenon
  <2> QED
    BY <1>2, <1>3, <2>1
<1>8. ~(SoftVoted(r, b) /\ SoftVoted(r, c))
  BY <1>3, <1>4, OneSoftVotedBlock, StepNumbers, Zenon
<1> QED
  BY <1>4, <1>5, <1>6, <1>7, <1>8, Zenon

LEMMA Locked ==
    ASSUME TypeOK, VotesJustified, Tolerated, NEW r \in Rounds, NEW b \in Blocks, CertVoted(r, b)
    PROVE  \A q \in r..MaxRound : \A v \in Values : NextVoted(q, v) => v = b
<1> DEFINE Bad == {q \in r..MaxRound : \E v \in Values : v # b /\ NextVoted(q, v)}
<1> SUFFICES ASSUME Bad # {} PROVE FALSE
  BY Zenon
<1>0. r \in Nat /\ r >= 1 /\ b \in Values /\ b # kNullBlockHash /\ SoftVoted(r, b)
  BY CertifiedIsSoftVoted, StepNumbers DEF Rounds
<1>1. Bad \subseteq Nat
  BY <1>0
<1>2. PICK q \in Bad : \A p \in Bad : q <= p
  BY <1>1, LeastElement, Zenon
<1>3. q \in Rounds /\ q \in Nat /\ q >= r
  BY <1>0, <1>2 DEF Rounds
<1>4. PICK v \in Values, s \in 4..MaxStep : v # b /\ TwoTPlusOneVoted(q, s, v)
  BY <1>2, Zenon DEF NextVoted
<1>5. q # r
  <2> SUFFICES ASSUME q = r PROVE FALSE
    BY Zenon
  <2>1. PICK n \in Honest \ amnesiac : Voted(n, r, 3, b) /\ Voted(n, r, s, v)
    BY <1>0, <1>4, CommonVoter, StepNumbers, Zenon DEF CertVoted
  <2>2. SoftVoted(r, v)
    BY <1>0, <1>4, <2>1, Zenon DEF VotesJustified, CertVoterKeepsBlock
  <2> QED
    BY <1>0, <1>4, <2>2, OneSoftVotedBlock, Zenon
<1>6. q >= 2 /\ q - 1 >= r /\ q - 1 \in r..MaxRound
  BY <1>0, <1>3, <1>5 DEF Rounds
<1>7. \A w \in Values : NextVoted(q - 1, w) => w = b
  <2>1. q - 1 \notin Bad
    BY <1>2, <1>3
  <2> QED
    BY <1>6, <2>1, Zenon
<1>8. PICK n \in Honest \ amnesiac : Voted(n, q, s, v)
  BY <1>3, <1>4, CommonVoter, StepNumbers, Zenon
<1>9. CASE v = kNullBlockHash
  <2>1. NextVoted(q - 1, kNullBlockHash)
    BY <1>3, <1>6, <1>8, <1>9, Zenon DEF VotesJustified, NextVotesJustified
  <2> QED
    BY <1>0, <1>7, <2>1, StepNumbers, Zenon
<1>10. CASE v \in Blocks
  <2>1. SoftVoted(q, v) \/ NextVoted(q - 1, v)
    BY <1>3, <1>8, <1>10, Zenon DEF VotesJustified, NextVotesJustified
  <2>2. NextVoted(q - 1, v) \/ NextVoted(q - 1, kNullBlockHash)
    BY <1>3, <1>6, <2>1, SoftVotedIsNextVotedBefore, Zenon
  <2> QED
    BY <1>0, <1>4, <1>7, <2>2, StepNumbers, Zenon
<1> QED
  BY <1>9, <1>10, Zenon DEF Values

LEMMA OneCertifiedBlock ==
    ASSUME TypeOK, VotesJustified, Tolerated, NEW r \in Rounds, NEW q \in Rounds, r <= q,
           NEW b \in Blocks, NEW c \in Blocks, CertVoted(r, b), CertVoted(q, c)
    PROVE  b = c
<1>0. b \in Values /\ c \in Values /\ b # kNullBlockHash /\ SoftVoted(r, b) /\ SoftVoted(q, c)
  BY CertifiedIsSoftVoted, StepNumbers, Zenon
<1>1. CASE r = q
  BY <1>0, <1>1, OneSoftVotedBlock, Zenon
<1>2. CASE r # q
  <2>1. q >= 2 /\ q - 1 \in r..MaxRound
    BY <1>2 DEF Rounds
  <2>2. NextVoted(q - 1, kNullBlockHash) \/ NextVoted(q - 1, c)
    BY <1>0, <2>1, SoftVotedIsNextVotedBefore, Zenon
  <2> QED
    BY <1>0, <2>1, <2>2, Locked, StepNumbers
<1> QED
  BY <1>1, <1>2, Zenon

(***************************************************************************)
(* The theorems                                                            *)
(***************************************************************************)

\* No two honest nodes push different blocks for a period, in whatever rounds their
\* blocks were certified and whether they certified or synced them.
THEOREM AgreementHolds == Spec => []Agreement
<1>1. TypeOK /\ VotesJustified => Agreement
  <2> SUFFICES ASSUME TypeOK, VotesJustified, Tolerated, NEW n \in Honest, NEW m \in Honest,
                      decided[n] # NoBlock, decided[m] # NoBlock
               PROVE  decided[n] = decided[m]
    BY Zenon DEF Agreement
  <2>1. decided[n] \in Blocks /\ decided[m] \in Blocks
    BY Zenon DEF TypeOK
  <2>2. PICK r \in Rounds : CertVoted(r, decided[n])
    BY Zenon DEF VotesJustified, NodeRemembers, Running
  <2>3. PICK q \in Rounds : CertVoted(q, decided[m])
    BY Zenon DEF VotesJustified, NodeRemembers, Running
  <2>4. r <= q \/ q <= r
    BY DEF Rounds
  <2> QED
    BY <2>1, <2>2, <2>3, <2>4, OneCertifiedBlock, Zenon
<1> QED
  BY <1>1, Justified, PTL

\* A certified block cannot be dropped: no other value, null included, is next voted
\* in its round or later.
THEOREM CertifiedIsLockedHolds == Spec => []CertifiedIsLocked
<1>1. TypeOK /\ VotesJustified => CertifiedIsLocked
  BY Locked, Zenon DEF CertifiedIsLocked
<1> QED
  BY <1>1, Justified, PTL

\* The assertions of addVerifiedVote hold: no round has two 2t+1 voted blocks of a type.
THEOREM OneTwoTPlusOneBlockHolds == Spec => []OneTwoTPlusOneBlock
<1>1. TypeOK /\ VotesJustified => OneTwoTPlusOneBlock
  <2> SUFFICES ASSUME TypeOK, VotesJustified, Tolerated, NEW r \in Rounds, NEW b \in Blocks,
                      NEW c \in Blocks, b # c
               PROVE  /\ ~(SoftVoted(r, b) /\ SoftVoted(r, c))
                      /\ ~(CertVoted(r, b) /\ CertVoted(r, c))
                      /\ ~(NextVoted(r, b) /\ NextVoted(r, c))
    BY Zenon DEF OneTwoTPlusOneBlock
  <2>1. ~(SoftVoted(r, b) /\ SoftVoted(r, c))
    BY OneSoftVotedBlock, StepNumbers, Zenon
  <2>2. ~(CertVoted(r, b) /\ CertVoted(r, c))
    BY <2>1, CertifiedIsSoftVoted, StepNumbers, Zenon
  <2> QED
    BY <2>1, <2>2, OneNextVotedBlock, Zenon
<1> QED
  BY <1>1, Justified, PTL

\* No crash makes an honest node a double voter in the soft or the cert step.
THEOREM NoDoubleVoteHolds == Spec => []NoDoubleSoftOrCertVote
<1>1. VotesJustified => NoDoubleSoftOrCertVote
  BY Zenon DEF VotesJustified
<1> QED
  BY <1>1, Justified, PTL

\* The final assertion of proposeBlock_ holds, after any crash.
THEOREM ProposerKnowsHolds == Spec => []ProposerKnowsPreviousRound
<1>1. TypeOK /\ VotesJustified => ProposerKnowsPreviousRound
  <2> SUFFICES ASSUME TypeOK, VotesJustified, NEW n \in Honest, step[n] = 1, round[n] > 1
               PROVE  prevNext[n] # {}
    BY Zenon DEF ProposerKnowsPreviousRound
  <2>1. round[n] >= 2 /\ round[n] # 1
    BY DEF TypeOK, Rounds
  <2>2. PreviousRoundKnown(n)
    BY <2>1, Zenon DEF VotesJustified, NodeRemembers
  <2> QED
    BY <2>1, <2>2 DEF PreviousRoundKnown
<1> QED
  BY <1>1, Justified, PTL
=============================================================================
