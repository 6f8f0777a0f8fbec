-------------------------- MODULE MCPbftConsensus --------------------------
(* Instances of PbftConsensus for TLC. *)
EXTENDS PbftConsensus, TLC

CONSTANTS h1, h2, h3, byz, blockA, blockB

MCHonest3 == {h1, h2, h3}
MCFour == MCHonest3 \cup {byz}
MCByzantine == {byz}
MCNone == {}
MCUnreliable == {h1}
MCBlocks == {blockA, blockB}

\* Honest validators are interchangeable, and so are blocks.
MCSymmetry == Permutations(MCHonest3 \ MCUnreliable) \cup Permutations(MCBlocks)
=============================================================================
