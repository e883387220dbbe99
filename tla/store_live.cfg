\* What an interrupted publication leaves is recovered, and every operation on the cache ends.
SPECIFICATION StoreLiveSpec
CONSTANTS
    root = root
    sub1 = sub1
    sub2 = sub2
    NoFile = NoFile
    TornFile = TornFile
    Foreign = Foreign
    NoName = NoName
    p1 = p1
    p2 = p2
    n1 = n1
    M = 2
    Gens <- TwoGens
    NoDir = NoDir
    ForeignTree = ForeignTree
    Envs <- AloneOrNot
INVARIANTS NeverPartial
PROPERTIES ReleasesPreviewed  RecoveryCompletes OperationsEnd
