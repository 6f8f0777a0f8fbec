SPECIFICATION Spec
CONSTANTS
    h1 = h1
    h2 = h2
    h3 = h3
    byz = byz
    blockA = blockA
    blockB = blockB
    kNullBlockHash = null
    NoBlock = NoBlock
    Validators <- MCFour
    Byzantine <- MCByzantine
    Blocks <- MCBlocks
    MaxRound = 2
    MaxStep = 5
    LastRoundStep = 3
    MaxAmnesia = 0
    Unreliable <- MCUnreliable
    Abstaining <- MCNone
    TornWrites = TRUE
SYMMETRY MCSymmetry
CHECK_DEADLOCK FALSE
INVARIANTS
    Agreement
    CertifiedIsLocked
    OneTwoTPlusOneBlock
    NoDoubleSoftOrCertVote
