SPECIFICATION Spec
CONSTANTS
    Workers = 4
    MaxPackets = 3
    Kinds <- MCKinds
INVARIANTS
    PoolIsConsistent
PROPERTIES
    DependenciesFirst
    Processed
CHECK_DEADLOCK FALSE
