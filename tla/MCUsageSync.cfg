SPECIFICATION Spec
SYMMETRY Symmetry
CONSTANTS
    Org = o1
    Orgs = {o1}
    Amounts <- MCAmounts
    Keys = {k1, k2}
    Syncs = {s1, s2}
    Unit = 3
    MaxUse = 2
    MaxSyncs = 2
    MaxFaults = 1
INVARIANTS
    TypeOK
    UsageIsBilledOnce
    CheckpointIsAccounted
PROPERTIES
    CheckpointAdvances
    TrialsAreFree
CHECK_DEADLOCK FALSE
