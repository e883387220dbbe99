\* Concurrent commands of the fetch engine, and concurrent callers of the direct cache.
SPECIFICATION FetchRunSpec
CONSTANTS
    a = a
    b = b
    c = c
    Procs = {"p", "q"}
    Keys = {"a.tar.gz", "p.patch", "p.patch.zip"}
    Retries = 2
    MaxCrashes = 1
    MaxEdits = 1
    Scenes <- TwoCommands
INVARIANTS ReceiptTellsTruth ReturnsDeclared
PROPERTIES EditsKept FetchesEnd
