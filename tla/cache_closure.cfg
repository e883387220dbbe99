\* Closures of two objects, one of them a tree, used, kept and removed;
\* namespaces of compilers, prepared, used and cleared.
SPECIFICATION CachesSpec
CONSTANTS
    p1 = p1
    p2 = p2
    n1 = n1
    NoName = NoName
    Process <- TwoProcesses
    Objects = 2
    Tree <- OneTree
    Name <- OneName
    Ops <- NoRelease
    MaxVersion = 3
    MaxTokens = 1
    Faults = TRUE
SYMMETRY Symmetric
INVARIANTS RetainedIntact LeasedUnchanged
PROPERTIES RemovesPreviewed ReceiptsAccurate CompilerCacheSafe
