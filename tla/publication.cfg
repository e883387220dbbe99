\* Two concurrent deployments of a tree, and one file under both policies, with failing calls,
\* deaths, power losses and somebody else at the same names;
\* graphs of three targets.
SPECIFICATION PublicationSpec
CONSTANTS
    root = root
    p1 = p1
    p2 = p2
    Proc <- TwoProc
    NoTree = NoTree
    Stranger = Stranger
    MaxCalls = 2
    MaxVersion = 3
    MaxMoves = 1
    Env = {"fault", "reread", "crash", "powerloss"}
    NoFile = NoFile
    Foreign = Foreign
    Torn = Torn
SYMMETRY AnyOrder
CHECK_DEADLOCK FALSE
INVARIANTS DestinationWhole GraphsExact
PROPERTIES RemovesOwn  FileOutcome
