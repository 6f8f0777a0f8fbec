SPECIFICATION Spec
CONSTANTS
    h1 = h1
    h2 = h2
    h3 = h3
    byz = byz
    blockA = blockA
    blockB = blockB
    kNullBlockHash = null
    NoBlock = NoBlock
    Validators <- MCFour
    Byzantine <- MCByzantine
    Blocks <- MCBlocks
    MaxRound = 1
    MaxStep = 5
    LastRoundStep = 5
    MaxAmnesia = 1
    Unreliable <- MCUnreliable
    Abstaining <- MCNone
    TornWrites = TRUE
CHECK_DEADLOCK FALSE
INVARIANT
    CertifiedIsNextVoted
