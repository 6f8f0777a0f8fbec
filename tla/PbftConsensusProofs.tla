------------------------ MODULE PbftConsensusProofs ------------------------
(***************************************************************************)
(* Proofs about PbftConsensus, for every set of validators, of blocks and  *)
(* every value of the bounds: type correctness, and the first half of      *)
(* VotesJustified: every step casts votes that its handler may vote        *)
(* (MayVote), and such votes rest on bundles that only grow.               *)
(***************************************************************************)
EXTENDS PbftConsensus, TLAPS, FiniteSetTheorems, WellFoundedInduction

\* The time the SMT solver is given for a step that names no prover.
USE SMTT(60)

USE ValuesAssumption, BoundsAssumption

(***************************************************************************)
(* Counting votes                                                          *)
(***************************************************************************)

\* Two bundles of 2t+1 votes share a voter that is honest and not amnesiac.
LEMMA BundlesIntersect ==
    ASSUME NEW A \in SUBSET Honest, NEW B \in SUBSET Honest,
           amnesiac \subseteq Honest, Tolerated,
           Cardinality(Byzantine \cup A) >= TwoTPlusOne,
           Cardinality(Byzantine \cup B) >= TwoTPlusOne
    PROVE  \E n \in A \cap B : n \notin amnesiac
<1> DEFINE U == Byzantine \cup A
           W == Byzantine \cup B
           F == Byzantine \cup amnesiac
           N == Cardinality(Validators)
<1>1. /\ U \subseteq Validators /\ W \subseteq Validators /\ F \subseteq Validators
      /\ U \cup W \subseteq Validators /\ U \cap W \subseteq Validators
  BY ValidatorsAssumption, Zenon DEF Honest
<1>2. /\ IsFiniteSet(U) /\ IsFiniteSet(W) /\ IsFiniteSet(F)
      /\ IsFiniteSet(U \cup W) /\ IsFiniteSet(U \cap W)
      /\ Cardinality(U \cup W) <= N
  BY <1>1, ValidatorsAssumption, FS_Subset, Zenon
<1>3. /\ Cardinality(U) \in Nat /\ Cardinality(W) \in Nat /\ Cardinality(F) \in Nat
      /\ Cardinality(U \cup W) \in Nat /\ Cardinality(U \cap W) \in Nat /\ N \in Nat
  BY <1>2, ValidatorsAssumption, FS_CardinalityType, Zenon
<1>4. Cardinality(U \cup W) = Cardinality(U) + Cardinality(W) - Cardinality(U \cap W)
  BY <1>2, FS_Union, Zenon
<1>5. Cardinality(U \cap W) > Cardinality(F)
  <2> HIDE DEF U, W, F, N
  <2>1. Cardinality(U) >= (N * 2) \div 3 + 1 /\ Cardinality(W) >= (N * 2) \div 3 + 1
    BY Zenon DEF TwoTPlusOne, U, W, N
  <2>2. Cardinality(F) <= (N - 1) \div 3
    BY Zenon DEF Tolerated, F, N
  <2> QED
    BY <2>1, <2>2, <1>2, <1>3, <1>4
<1>6. ~(U \cap W \subseteq F)
  <2> SUFFICES ASSUME U \cap W \subseteq F PROVE FALSE
    BY Zenon
  <2>1. Cardinality(U \cap W) <= Cardinality(F)
    BY <1>2, FS_Subset, Zenon
  <2> HIDE DEF U, W, F
  <2> QED
    BY <2>1, <1>3, <1>5
<1> QED
  BY <1>6, Zenon

\* More votes never undo a bundle.
LEMMA MoreVotes ==
    ASSUME TypeOK, TypeOK', NEW r \in Rounds, NEW s \in Steps, NEW v \in Values,
           votes[r][s][v] \subseteq votes'[r][s][v], TwoTPlusOneVoted(r, s, v)
    PROVE  TwoTPlusOneVoted(r, s, v)'
<1> DEFINE A == Byzantine \cup votes[r][s][v]
           B == Byzantine \cup votes'[r][s][v]
<1>1. A \subseteq B /\ B \subseteq Validators
  BY ValidatorsAssumption DEF TypeOK, Honest
<1>2. IsFiniteSet(B) /\ IsFiniteSet(A)
  BY <1>1, ValidatorsAssumption, FS_Subset, Zenon
<1>3. Cardinality(A) <= Cardinality(B) /\ Cardinality(A) \in Nat /\ Cardinality(B) \in Nat
  BY <1>1, <1>2, FS_Subset, FS_CardinalityType, Zenon
<1>4. TwoTPlusOne \in Int
  BY ValidatorsAssumption, FS_CardinalityType DEF TwoTPlusOne
<1> QED
  BY <1>3, <1>4 DEF TwoTPlusOneVoted, A, B

\* A non-empty set of naturals has a least element.
LEMMA LeastElement ==
    ASSUME NEW T, T \subseteq Nat, T # {}
    PROVE  \E x \in T : \A y \in T : x <= y
<1>1. \E x \in T : \A y \in T : ~ (<<y, x>> \in OpToRel(<, Nat))
  BY NatLessThanWellFounded, WFMin, Zenon
<1>2. PICK x \in T : \A y \in T : ~ (<<y, x>> \in OpToRel(<, Nat))
  BY <1>1, Zenon
<1>3. \A y \in T : ~ (y < x)
  BY <1>2, Zenon DEF OpToRel
<1> QED
  BY <1>3

(***************************************************************************)
(* What a step may vote                                                    *)
(***************************************************************************)

\* The values a node's handler may vote for, and what it knows when it does.
MayVote(n, v) ==
    \/ /\ step[n] = 2
       /\ v \in Blocks
       /\ round[n] = 1 \/ kNullBlockHash \in prevNext[n] \/ v \in prevNext[n]
    \/ /\ step[n] = 3
       /\ v \in Blocks
       /\ certVoted[n] = NoBlock
       /\ SoftVoted(round[n], v)
    \/ /\ step[n] >= 4
       /\ \/ certVoted[n] # NoBlock /\ v = certVoted[n]
          \/ /\ certVoted[n] = NoBlock
             /\ v = kNullBlockHash
             /\ kNullBlockHash \in prevNext[n] \/ prevNext[n] = {}
          \/ /\ certVoted[n] = NoBlock
             /\ v \in prevNext[n] /\ v # kNullBlockHash
             /\ kNullBlockHash \notin prevNext[n]
          \/ v \in Blocks /\ SoftVoted(round[n], v)

\* The handlers vote for nothing else.
LEMMA HandlersVote ==
    ASSUME TypeOK, NEW n \in Honest, NEW V \in Placeable(n) \cup {{}}, NEW v \in V
    PROVE  v \in Values /\ MayVote(n, v)
<1>0. step[n] \in Nat /\ round[n] \in Nat
  BY DEF TypeOK, Steps, Rounds
<1>1. CASE step[n] = 2
  <2>1. Placeable(n) = AtMostOne(n, SoftVoteChoices(n))
    BY <1>0, <1>1 DEF Placeable, IsFirstFinish, IsSecondFinish
  <2>2. v \in SoftVoteChoices(n)
    BY <2>1 DEF AtMostOne
  <2> QED
    BY <1>0, <1>1, <2>2, Zenon DEF SoftVoteChoices, FreshRound, MayVote, Values, TypeOK
<1>2. CASE step[n] = 3
  <2>1. Placeable(n) = AtMostOne(n, CertVoteChoices(n))
    BY <1>0, <1>2 DEF Placeable, IsFirstFinish, IsSecondFinish
  <2>2. v \in CertVoteChoices(n)
    BY <2>1 DEF AtMostOne
  <2> QED
    BY <1>0, <1>2, <2>2, Zenon DEF CertVoteChoices, MayVote, Values
<1>3. CASE IsFirstFinish(step[n])
  <2>1. Placeable(n) = AtMostOne(n, FirstFinishChoices(n))
    BY <1>0, <1>3 DEF Placeable, IsFirstFinish, IsSecondFinish
  <2>2. v \in FirstFinishChoices(n)
    BY <2>1 DEF AtMostOne
  <2> QED
    BY <1>0, <1>3, <2>2 DEF FirstFinishChoices, MayVote, Values, TypeOK, IsFirstFinish
<1>4. CASE IsSecondFinish(step[n])
  <2>1. v \in SecondFinishChoices(n)
    BY <1>0, <1>4 DEF Placeable, IsSecondFinish, IsFirstFinish
  <2> QED
    BY <1>0, <1>4, <2>1 DEF SecondFinishChoices, MayVote, Values, IsSecondFinish
<1>5. CASE ~(step[n] = 2 \/ step[n] = 3 \/ IsFirstFinish(step[n]) \/ IsSecondFinish(step[n]))
  BY <1>5, Zenon DEF Placeable
<1> QED
  BY <1>1, <1>2, <1>3, <1>4, <1>5, Zenon

\* The only votes that appear are votes of n, in its round and step, for values of V.
OnlyAdds(n, V) ==
    \A r \in Rounds, s \in Steps, v \in Values :
        /\ votes[r][s][v] \subseteq votes'[r][s][v]
        /\ \A m \in votes'[r][s][v] :
              m \in votes[r][s][v] \/ (m = n /\ r = round[n] /\ s = step[n] /\ v \in V)

LEMMA PlacedVotes ==
    ASSUME TypeOK, NEW n \in Honest, NEW V \in SUBSET Values, PlaceVotes(n, V)
    PROVE  /\ votes' \in [Rounds -> [Steps -> [Values -> SUBSET Honest]]]
           /\ OnlyAdds(n, V)
<1> DEFINE new == [v \in Values |-> IF v \in V THEN votes[round[n]][step[n]][v] \cup {n}
                                               ELSE votes[round[n]][step[n]][v]]
<1>1. votes' = [votes EXCEPT ![round[n]][step[n]] = new]
  BY Zenon DEF PlaceVotes
<1>2. round[n] \in Rounds /\ step[n] \in Steps
  BY Zenon DEF TypeOK
<1>3. new \in [Values -> SUBSET Honest]
  BY <1>2 DEF TypeOK
<1>4. \A r \in Rounds, s \in Steps :
        votes'[r][s] = IF r = round[n] /\ s = step[n] THEN new ELSE votes[r][s]
  <2> HIDE DEF new
  <2> QED
    BY <1>1, <1>2, Zenon DEF TypeOK
<1>5. votes' \in [Rounds -> [Steps -> [Values -> SUBSET Honest]]]
  <2> HIDE DEF new
  <2> QED
    BY <1>1, <1>2, <1>3, Zenon DEF TypeOK
<1>6. ASSUME NEW r \in Rounds, NEW s \in Steps, NEW v \in Values
      PROVE  /\ votes[r][s][v] \subseteq votes'[r][s][v]
             /\ \A m \in votes'[r][s][v] :
                  m \in votes[r][s][v] \/ (m = n /\ r = round[n] /\ s = step[n] /\ v \in V)
  <2>1. CASE r = round[n] /\ s = step[n]
    <3>1. votes'[r][s][v] = IF v \in V THEN votes[r][s][v] \cup {n} ELSE votes[r][s][v]
      <4>1. votes'[r][s] = new
        BY <1>4, <1>6, <2>1, Zenon
      <4> QED
        BY <1>6, <2>1, <4>1, Zenon
    <3> QED
      BY <2>1, <3>1, Zenon
  <2>2. CASE ~(r = round[n] /\ s = step[n])
    BY <1>4, <1>6, <2>2, Zenon
  <2> QED
    BY <2>1, <2>2, Zenon
<1> QED
  BY <1>5, <1>6, Zenon DEF OnlyAdds

(***************************************************************************)
(* Type correctness                                                        *)
(***************************************************************************)

LEMMA TypeStep ==
    ASSUME TypeOK, NEW n \in Honest,
           \/ ProposeBlock(n) \/ IdentifyBlock(n) \/ CertifyBlock(n)
           \/ FirstFinish(n) \/ SecondFinish(n) \/ AdvanceRound(n) \/ LearnPrevNext(n)
           \/ TryPushCertVotesBlock(n) \/ PushSyncedPbftBlock(n) \/ CrashAndRestart(n)
    PROVE  TypeOK'
<1>0. /\ round[n] \in Rounds /\ step[n] \in Steps
      /\ \A V \in Placeable(n) \cup {{}} : V \in SUBSET Values
  BY HandlersVote, Zenon DEF TypeOK
<1>1. \A s \in Nat \ {0} : SetStep(n, s) => step' \in [Honest -> Steps]
  BY DEF TypeOK, SetStep, Steps
<1>2. CASE ProposeBlock(n)
  <2>1. step' \in [Honest -> Steps]
    BY <1>1, <1>2 DEF ProposeBlock
  <2>2. FreshRound(n) \/ prevNext[n] \subseteq Blocks
    BY DEF FreshRound, TypeOK, Values
  <2>3. proposals' \subseteq Rounds \X Blocks
    BY <1>0, <1>2, <2>2 DEF ProposeBlock, TypeOK
  <2> QED
    BY <1>2, <2>1, <2>3, Zenon DEF ProposeBlock, TypeOK
<1>3. CASE IdentifyBlock(n)
  <2>1. step' \in [Honest -> Steps]
    BY <1>1, <1>3 DEF IdentifyBlock
  <2>2. votes' \in [Rounds -> [Steps -> [Values -> SUBSET Honest]]]
    BY <1>0, <1>3, PlacedVotes, Zenon DEF IdentifyBlock
  <2> QED
    BY <1>3, <2>1, <2>2, Zenon DEF IdentifyBlock, TypeOK
<1>4. CASE CertifyBlock(n)
  <2>1. CASE SetStep(n, 4) /\ UNCHANGED <<votes, certVoted>>
    BY <1>1, <1>4, <2>1 DEF CertifyBlock, TypeOK
  <2>2. ASSUME NEW V \in Placeable(n), NEW b \in V, PlaceVotes(n, V), UNCHANGED step,
               certVoted' = [certVoted EXCEPT ![n] = b]
        PROVE  TypeOK'
    <3>1. b \in Blocks
      <4>1. step[n] = 3 /\ MayVote(n, b)
        BY <1>4, <2>2, HandlersVote, Zenon DEF CertifyBlock
      <4> QED
        BY <4>1 DEF MayVote
    <3>2. votes' \in [Rounds -> [Steps -> [Values -> SUBSET Honest]]]
      BY <1>0, <2>2, PlacedVotes, Zenon
    <3> QED
      BY <1>4, <2>2, <3>1, <3>2, Zenon DEF CertifyBlock, TypeOK
  <2> QED
    BY <1>4, <2>1, <2>2, Zenon DEF CertifyBlock
<1>5. CASE FirstFinish(n)
  <2>1. step' \in [Honest -> Steps]
    BY <1>0, <1>1, <1>5 DEF FirstFinish, Steps
  <2>2. votes' \in [Rounds -> [Steps -> [Values -> SUBSET Honest]]]
    BY <1>0, <1>5, PlacedVotes, Zenon DEF FirstFinish
  <2> QED
    BY <1>5, <2>1, <2>2, Zenon DEF FirstFinish, TypeOK
<1>6. CASE SecondFinish(n)
  <2>1. step' \in [Honest -> Steps]
    BY <1>0, <1>1, <1>6 DEF SecondFinish, Steps, TypeOK
  <2>2. votes' \in [Rounds -> [Steps -> [Values -> SUBSET Honest]]]
    BY <1>0, <1>6, PlacedVotes, Zenon DEF SecondFinish
  <2>3. nextVoted' \in [Honest -> SUBSET {"value", "null"}]
    <3>1. \A V : Flags(V) \subseteq {"value", "null"}
      BY Zenon DEF Flags
    <3>2. PICK V : nextVoted' = [nextVoted EXCEPT ![n] = nextVoted[n] \cup Flags(V)]
                   \/ nextVoted' = [nextVoted EXCEPT ![n] = {}]
      BY <1>6, Zenon DEF SecondFinish
    <3>3. nextVoted \in [Honest -> SUBSET {"value", "null"}]
      BY Zenon DEF TypeOK
    <3> QED
      BY <3>1, <3>2, <3>3, Zenon
  <2> QED
    BY <1>6, <2>1, <2>2, <2>3, Zenon DEF SecondFinish, TypeOK
<1>7. CASE AdvanceRound(n)
  <2>1. round' \in [Honest -> Rounds] /\ step' \in [Honest -> Steps]
    BY <1>0, <1>7 DEF AdvanceRound, TypeOK, Rounds, Steps
  <2>2. /\ prevNext' \in [Honest -> SUBSET Values]
        /\ prevNextDb' \in [Honest -> SUBSET Values]
    BY <1>7 DEF AdvanceRound, TypeOK
  <2> QED
    BY <1>7, <2>1, <2>2, Zenon DEF AdvanceRound, TypeOK
<1>8. CASE LearnPrevNext(n)
  BY <1>8 DEF LearnPrevNext, TypeOK
<1>9. ASSUME NEW b \in Blocks, PushPbftBlock(n, b)
      PROVE  TypeOK'
  BY <1>9 DEF PushPbftBlock, TypeOK, Rounds, Steps
<1>10. CASE CrashAndRestart(n)
  <2>1. RestartStep(n) \in Nat \ {0}
    BY <1>0 DEF RestartStep, Steps
  <2>2. step' \in [Honest -> Steps]
    BY <1>1, <1>10, <2>1, Zenon DEF CrashAndRestart
  <2>3. PICK V \in Placeable(n) \cup {{}}, lost \in HalfReplaced(n) :
          /\ PlaceVotes(n, V)
          /\ prevNextDb' = [prevNextDb EXCEPT ![n] = @ \ lost]
          /\ prevNext' = [prevNext EXCEPT ![n] = prevNextDb'[n]]
          /\ amnesiac' = IF prevNext'[n] # prevNext[n] \/ (step[n] = 3 /\ V # {})
                         THEN amnesiac \cup {n} ELSE amnesiac
    BY <1>10, Zenon DEF CrashAndRestart
  <2>4. votes' \in [Rounds -> [Steps -> [Values -> SUBSET Honest]]]
    BY <1>0, <2>3, PlacedVotes, Zenon
  <2>5. /\ prevNextDb' \in [Honest -> SUBSET Values]
        /\ prevNext' \in [Honest -> SUBSET Values]
        /\ amnesiac' \subseteq Honest
    BY <2>3, Zenon DEF TypeOK
  <2> QED
    BY <1>10, <2>2, <2>4, <2>5, Zenon DEF CrashAndRestart, TypeOK
<1> QED
  BY <1>2, <1>3, <1>4, <1>5, <1>6, <1>7, <1>8, <1>9, <1>10, Zenon
  DEF TryPushCertVotesBlock, PushSyncedPbftBlock

LEMMA TypeInit == Init => TypeOK
<1> SUFFICES ASSUME Init PROVE TypeOK
  BY Zenon
<1>1. votes \in [Rounds -> [Steps -> [Values -> SUBSET Honest]]]
  BY Zenon DEF Init
<1> QED
  BY <1>1 DEF Init, TypeOK, Rounds, Steps

\* The nodes' consensus state and the votes they gossip keep their types: in particular
\* a cert voted block is never the null hash and a step never runs past its bound.
THEOREM TypeCorrect == Spec => []TypeOK
<1>1. TypeOK /\ [Next]_vars => TypeOK'
  <2>1. ASSUME TypeOK, UNCHANGED vars PROVE TypeOK'
    BY <2>1, Zenon DEF vars, TypeOK
  <2> QED
    BY <2>1, TypeStep, Zenon DEF Next
<1> QED
  BY <1>1, TypeInit, PTL DEF Spec

(***************************************************************************)
(* Every step as a casting of votes                                        *)
(***************************************************************************)

Step(n) ==
    \/ ProposeBlock(n) \/ IdentifyBlock(n) \/ CertifyBlock(n)
    \/ FirstFinish(n) \/ SecondFinish(n) \/ AdvanceRound(n) \/ LearnPrevNext(n)
    \/ TryPushCertVotesBlock(n) \/ PushSyncedPbftBlock(n) \/ CrashAndRestart(n)

\* Node n casts votes for the values of V, and nothing else is voted.
Casts(n, V) ==
    /\ Running(n)
    /\ V \in SUBSET Values
    /\ \A v \in V : MayVote(n, v)
    /\ step[n] \in {2, 3} => \A v, w \in V : v = w
    /\ OnlyAdds(n, V)

LEMMA PlacingCasts ==
    ASSUME TypeOK, NEW n \in Honest, Running(n),
           NEW V \in Placeable(n) \cup {{}}, PlaceVotes(n, V)
    PROVE  Casts(n, V)
<1>1. V \in SUBSET Values /\ \A v \in V : MayVote(n, v)
  BY HandlersVote, Zenon
<1>2. step[n] \in {2, 3} => \A v, w \in V : v = w
  BY DEF Placeable, AtMostOne, IsFirstFinish, IsSecondFinish
<1> QED
  BY <1>1, <1>2, PlacedVotes, Zenon DEF Casts

LEMMA StepCasts ==
    ASSUME TypeOK, NEW n \in Honest, Step(n)
    PROVE  \E V : Casts(n, V)
<1>1. ASSUME Running(n), UNCHANGED votes
      PROVE  Casts(n, {})
  BY <1>1, Zenon DEF Casts, OnlyAdds
<1>2. CASE ProposeBlock(n) \/ AdvanceRound(n) \/ LearnPrevNext(n)
           \/ TryPushCertVotesBlock(n) \/ PushSyncedPbftBlock(n)
  BY <1>1, <1>2, Zenon DEF ProposeBlock, AdvanceRound, LearnPrevNext, TryPushCertVotesBlock,
                    PushSyncedPbftBlock, PushPbftBlock
<1>3. CASE IdentifyBlock(n)
  BY <1>3, PlacingCasts, Zenon DEF IdentifyBlock
<1>4. CASE CertifyBlock(n)
  BY <1>1, <1>4, PlacingCasts, Zenon DEF CertifyBlock
<1>5. CASE FirstFinish(n)
  BY <1>5, PlacingCasts, Zenon DEF FirstFinish
<1>6. CASE SecondFinish(n)
  BY <1>6, PlacingCasts, Zenon DEF SecondFinish
<1>7. CASE CrashAndRestart(n)
  BY <1>7, PlacingCasts, Zenon DEF CrashAndRestart
<1> QED
  BY <1>2, <1>3, <1>4, <1>5, <1>6, <1>7, Zenon DEF Step

LEMMA AmnesiaLasts ==
    ASSUME NEW n \in Honest, Step(n)
    PROVE  amnesiac \subseteq amnesiac'
BY Zenon DEF Step, ProposeBlock, IdentifyBlock, CertifyBlock, FirstFinish, SecondFinish,
       AdvanceRound, LearnPrevNext, TryPushCertVotesBlock, PushSyncedPbftBlock,
       PushPbftBlock, CrashAndRestart

\* Bundles only grow.
LEMMA BundlesLast ==
    ASSUME TypeOK, TypeOK', NEW n \in Honest, NEW V, Casts(n, V)
    PROVE  \A r \in Rounds, v \in Values :
              /\ SoftVoted(r, v) => SoftVoted(r, v)'
              /\ CertVoted(r, v) => CertVoted(r, v)'
              /\ NextVoted(r, v) => NextVoted(r, v)'
<1>1. \A r \in Rounds, s \in Steps, v \in Values :
         TwoTPlusOneVoted(r, s, v) => TwoTPlusOneVoted(r, s, v)'
  BY MoreVotes, Zenon DEF Casts, OnlyAdds
<1>2. 2 \in Steps /\ 3 \in Steps /\ \A s \in 4..MaxStep : s \in Steps
  BY DEF Steps
<1> QED
  BY <1>1, <1>2, Zenon DEF SoftVoted, CertVoted, NextVoted

(***************************************************************************)
(* VotesJustified, part by part: the votes                                 *)
(***************************************************************************)

\* A vote that is counted after the step was counted before or is one of V.
LEMMA NewVote ==
    ASSUME NEW n \in Honest, NEW V, Casts(n, V), NEW m \in Honest,
           NEW r \in Rounds, NEW s \in Steps, NEW v \in Values, Voted(m, r, s, v)'
    PROVE  \/ Voted(m, r, s, v)
           \/ m = n /\ r = round[n] /\ s = step[n] /\ v \in V /\ MayVote(n, v)
BY DEF Casts, OnlyAdds, Voted

LEMMA StepNumbers ==
    /\ 2 \in Steps /\ 3 \in Steps
    /\ \A s \in 4..MaxStep : s \in Steps /\ s \in Nat /\ s >= 4
    /\ \A r \in Rounds : r \in Nat /\ (r >= 2 => r - 1 \in Rounds)
    /\ \A b \in Blocks : b \in Values /\ b # kNullBlockHash /\ b # NoBlock
    /\ kNullBlockHash \in Values
BY DEF Steps, Rounds, Values

LEMMA SoftVotesStep ==
    ASSUME TypeOK, TypeOK', VotesJustified, NEW n \in Honest, NEW V, Casts(n, V)
    PROVE  SoftVotesJustified'
<1> SUFFICES ASSUME NEW m \in Honest, NEW r \in Rounds, NEW v \in Values, Voted(m, r, 2, v)'
             PROVE  /\ v \in Blocks
                    /\ r >= 2 => NextVoted(r - 1, kNullBlockHash)' \/ NextVoted(r - 1, v)'
  BY Zenon DEF SoftVotesJustified
<1>1. /\ v \in Blocks
      /\ r >= 2 => NextVoted(r - 1, kNullBlockHash) \/ NextVoted(r - 1, v)
  <2>1. CASE Voted(m, r, 2, v)
    BY <2>1, Zenon DEF VotesJustified, SoftVotesJustified
  <2>2. CASE r = round[n] /\ step[n] = 2 /\ MayVote(n, v)
    <3>1. \A w \in prevNext[n] : NextVoted(round[n] - 1, w)
      BY Zenon DEF VotesJustified, NodeRemembers, PreviousRoundKnown, Casts
    <3> QED
      BY <2>2, <3>1, StepNumbers DEF MayVote
  <2> QED
    BY <2>1, <2>2, NewVote, StepNumbers
<1> QED
  BY <1>1, BundlesLast, StepNumbers, Zenon

LEMMA CertVotesStep ==
    ASSUME TypeOK, TypeOK', VotesJustified, NEW n \in Honest, NEW V, Casts(n, V)
    PROVE  CertVotesJustified'
<1> SUFFICES ASSUME NEW m \in Honest, NEW r \in Rounds, NEW v \in Values, Voted(m, r, 3, v)'
             PROVE  v \in Blocks /\ SoftVoted(r, v)'
  BY Zenon DEF CertVotesJustified
<1>1. v \in Blocks /\ SoftVoted(r, v)
  <2>1. CASE Voted(m, r, 3, v)
    BY <2>1, Zenon DEF VotesJustified, CertVotesJustified
  <2>2. CASE r = round[n] /\ step[n] = 3 /\ MayVote(n, v)
    BY <2>2 DEF MayVote
  <2> QED
    BY <2>1, <2>2, NewVote, StepNumbers
<1> QED
  BY <1>1, BundlesLast, Zenon

LEMMA NextVotesStep ==
    ASSUME TypeOK, TypeOK', VotesJustified, NEW n \in Honest, NEW V, Casts(n, V),
           amnesiac \subseteq amnesiac'
    PROVE  NextVotesJustified'
<1> SUFFICES ASSUME NEW m \in Honest, NEW r \in Rounds, NEW s \in 4..MaxStep, NEW v \in Values,
                    Voted(m, r, s, v)'
             PROVE  /\ v \in Blocks => SoftVoted(r, v)' \/ (r >= 2 /\ NextVoted(r - 1, v)')
                    /\ v = kNullBlockHash /\ m \notin amnesiac' /\ r >= 2
                         => NextVoted(r - 1, kNullBlockHash)'
  BY Zenon DEF NextVotesJustified
<1>1. /\ v \in Blocks => SoftVoted(r, v) \/ (r >= 2 /\ NextVoted(r - 1, v))
      /\ v = kNullBlockHash /\ m \notin amnesiac /\ r >= 2 => NextVoted(r - 1, kNullBlockHash)
  <2>1. CASE Voted(m, r, s, v)
    BY <2>1, Zenon DEF VotesJustified, NextVotesJustified
  <2>2. CASE m = n /\ r = round[n] /\ s = step[n] /\ MayVote(n, v)
    <3>1. /\ \A w \in prevNext[n] : round[n] >= 2 /\ NextVoted(round[n] - 1, w)
          /\ round[n] >= 2 /\ n \notin amnesiac => prevNext[n] # {}
          /\ certVoted[n] # NoBlock => SoftVoted(round[n], certVoted[n])
      BY Zenon DEF VotesJustified, NodeRemembers, PreviousRoundKnown, CertVoteRemembered, Casts
    <3>2. certVoted[n] # kNullBlockHash
      BY Zenon DEF TypeOK
    <3> QED
      BY <2>2, <3>1, <3>2, StepNumbers DEF MayVote
  <2> QED
    BY <2>1, <2>2, NewVote, StepNumbers
<1> QED
  BY <1>1, BundlesLast, StepNumbers, Zenon

LEMMA OneVoteStep ==
    ASSUME TypeOK, TypeOK', VotesJustified, NEW n \in Honest, NEW V, Casts(n, V)
    PROVE  NoDoubleSoftOrCertVote'
<1> SUFFICES ASSUME NEW r \in Rounds, NEW s \in {2, 3}, NEW v \in Values, NEW w \in Values,
                    v # w, NEW m \in Honest, Voted(m, r, s, v)', Voted(m, r, s, w)'
             PROVE  FALSE
  BY StepNumbers DEF NoDoubleSoftOrCertVote, Voted, TypeOK
<1>1. s \in Steps
  BY StepNumbers, Zenon
<1>2. ~(Voted(m, r, s, v) /\ Voted(m, r, s, w))
  BY Zenon DEF VotesJustified, NoDoubleSoftOrCertVote, Voted
<1>3. ASSUME Voted(n, round[n], step[n], v) \/ Voted(n, round[n], step[n], w),
             step[n] \in {2, 3}
      PROVE  step[n] = 3 /\ certVoted[n] # NoBlock
  <2>1. VotesAreInThePast(n) /\ CertVoteRemembered(n)
    BY Zenon DEF VotesJustified, NodeRemembers, Casts
  <2>2. round[n] \in Rounds /\ step[n] \in Steps /\ round[n] \in Int
    BY DEF TypeOK, Rounds
  <2>3. step[n] = 3
    BY <1>3, <2>1, <2>2, StepNumbers DEF VotesAreInThePast
  <2>4. certVoted[n] \in {v, w}
    BY <1>3, <2>1, <2>3, Zenon DEF CertVoteRemembered
  <2>5. NoBlock \notin Values
    BY Zenon DEF Values
  <2> QED
    BY <2>3, <2>4, <2>5, Zenon
<1>4. ASSUME m = n, r = round[n], s = step[n], NEW x \in V, MayVote(n, x),
             Voted(m, r, s, v) \/ Voted(m, r, s, w)
      PROVE  FALSE
  BY <1>3, <1>4 DEF MayVote
<1>5. \/ Voted(m, r, s, v)
      \/ m = n /\ r = round[n] /\ s = step[n] /\ v \in V /\ MayVote(n, v)
  BY <1>1, NewVote, Zenon
<1>6. \/ Voted(m, r, s, w)
      \/ m = n /\ r = round[n] /\ s = step[n] /\ w \in V /\ MayVote(n, w)
  BY <1>1, NewVote, Zenon
<1> QED
  BY <1>2, <1>4, <1>5, <1>6, Zenon DEF Casts

LEMMA CertVoterStep ==
    ASSUME TypeOK, TypeOK', VotesJustified, NEW n \in Honest, NEW V, Casts(n, V),
           amnesiac \subseteq amnesiac'
    PROVE  CertVoterKeepsBlock'
<1> SUFFICES ASSUME NEW m \in Honest, m \notin amnesiac', NEW r \in Rounds, NEW s \in 4..MaxStep,
                    NEW v \in Values, NEW w \in Values, Voted(m, r, 3, v)', Voted(m, r, s, w)'
             PROVE  w = v \/ (w \in Blocks /\ SoftVoted(r, w)')
  BY Zenon DEF CertVoterKeepsBlock
<1>0. s \in Steps /\ s \in Nat /\ s >= 4 /\ 3 \in Steps /\ round[n] \in Nat /\ step[n] \in Nat
  <2>1. s \in Steps /\ s \in Nat /\ s >= 4 /\ 3 \in Steps
    BY StepNumbers, Zenon DEF Steps
  <2>2. round[n] \in Rounds /\ step[n] \in Steps
    BY Zenon DEF TypeOK
  <2> QED
    BY <2>1, <2>2 DEF Rounds, Steps
<1>1. w = v \/ (w \in Blocks /\ SoftVoted(r, w))
  <2>1. CASE Voted(m, r, 3, v) /\ Voted(m, r, s, w)
    BY <2>1, Zenon DEF VotesJustified, CertVoterKeepsBlock
  <2>2. CASE ~Voted(m, r, 3, v)
    <3>1. m = n /\ r = round[n] /\ step[n] = 3
      BY <1>0, <2>2, NewVote
    <3>2. Voted(n, r, s, w)
      BY <1>0, <3>1, NewVote
    <3>3. VotesAreInThePast(n)
      BY Zenon DEF VotesJustified, NodeRemembers, Casts
    <3> QED
      BY <1>0, <3>1, <3>2, <3>3 DEF VotesAreInThePast
  <2>3. CASE Voted(m, r, 3, v) /\ ~Voted(m, r, s, w)
    <3>1. m = n /\ r = round[n] /\ s = step[n] /\ MayVote(n, w)
      BY <1>0, <2>3, NewVote, Zenon
    <3>2. certVoted[n] = v
      BY <2>3, <3>1, Zenon DEF VotesJustified, NodeRemembers, CertVoteRemembered, Casts
    <3>3. v \in Blocks /\ v # NoBlock
      BY <2>3, StepNumbers, Zenon DEF VotesJustified, CertVotesJustified
    <3>4. w \in prevNext[n] /\ w # kNullBlockHash => w \in Blocks
      BY Zenon DEF Values
    <3> QED
      BY <1>0, <3>1, <3>2, <3>3, <3>4 DEF MayVote
  <2> QED
    BY <2>1, <2>2, <2>3, Zenon
<1> QED
  BY <1>1, BundlesLast, Zenon

LEMMA SoftVoterStep ==
    ASSUME TypeOK, TypeOK', VotesJustified, NEW n \in Honest, NEW V, Casts(n, V),
           amnesiac \subseteq amnesiac'
    PROVE  SoftVoterKeepsBlock'
<1> SUFFICES ASSUME NEW m \in Honest, m \notin amnesiac', NEW r \in Rounds, NEW s \in 4..MaxStep,
                    NEW v \in Values, NEW w \in Blocks, Voted(m, r, 2, v)', Voted(m, r, s, w)'
             PROVE  w = v \/ SoftVoted(r, w)'
  BY Zenon DEF SoftVoterKeepsBlock
<1>0. /\ s \in Steps /\ s \in Nat /\ s >= 4 /\ 2 \in Steps /\ round[n] \in Nat /\ step[n] \in Nat
      /\ w \in Values /\ w # kNullBlockHash
  <2>1. s \in Steps /\ s \in Nat /\ s >= 4 /\ 2 \in Steps
    BY StepNumbers, Zenon DEF Steps
  <2>2. round[n] \in Rounds /\ step[n] \in Steps
    BY Zenon DEF TypeOK
  <2>3. w \in Values /\ w # kNullBlockHash
    BY StepNumbers, Zenon
  <2> QED
    BY <2>1, <2>2, <2>3 DEF Rounds, Steps
<1>1. w = v \/ SoftVoted(r, w)
  <2>1. CASE Voted(m, r, 2, v) /\ Voted(m, r, s, w)
    BY <2>1, Zenon DEF VotesJustified, SoftVoterKeepsBlock
  <2>2. CASE ~Voted(m, r, 2, v)
    <3>1. m = n /\ r = round[n] /\ step[n] = 2
      BY <1>0, <2>2, NewVote
    <3>2. Voted(n, r, s, w)
      BY <1>0, <3>1, NewVote
    <3>3. VotesAreInThePast(n)
      BY Zenon DEF VotesJustified, NodeRemembers, Casts
    <3> QED
      BY <1>0, <3>1, <3>2, <3>3 DEF VotesAreInThePast
  <2>3. CASE Voted(m, r, 2, v) /\ ~Voted(m, r, s, w)
    <3>1. m = n /\ r = round[n] /\ s = step[n] /\ MayVote(n, w)
      BY <1>0, <2>3, NewVote, Zenon
    <3>2. /\ PreviousRoundKnown(n)
          /\ certVoted[n] # NoBlock => SoftVoted(round[n], certVoted[n])
      BY Zenon DEF VotesJustified, NodeRemembers, CertVoteRemembered, Casts
    <3>3. v # kNullBlockHash
      BY <2>3, Zenon DEF VotesJustified, SoftVotesJustified
    <3>4. CASE w \in prevNext[n] /\ kNullBlockHash \notin prevNext[n]
      <4>1. round[n] >= 2 /\ n \notin amnesiac
        BY <3>1, <3>2, <3>4, Zenon DEF PreviousRoundKnown
      <4>2. v \in prevNext[n]
        BY <2>3, <3>1, <3>2, <3>4, <4>1, Zenon DEF PreviousRoundKnown
      <4> QED
        BY <1>0, <3>2, <3>3, <3>4, <4>2, Zenon DEF PreviousRoundKnown, AtMostOneBlock
    <3> QED
      BY <1>0, <3>1, <3>2, <3>4 DEF MayVote
  <2> QED
    BY <2>1, <2>2, <2>3, Zenon
<1> QED
  BY <1>0, <1>1, BundlesLast, Zenon
=============================================================================
