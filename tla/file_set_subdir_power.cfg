\* Power losses, with the targets in other directories than the journal.
SPECIFICATION Spec
CONSTANTS
    root = root
    sub1 = sub1
    sub2 = sub2
    N = 2
    Dir <- SubDirs
    JournalDir = root
    DirOf <- SubDirectories
    NoFile = NoFile
    Foreign = Foreign
    Torn = Torn
    Env = {"crash", "powerloss"}
    MaxTxn = 1
INVARIANTS NothingLost
