\* Another program writes to targets and siblings.
SPECIFICATION Spec
CONSTANTS
    root = root
    sub1 = sub1
    sub2 = sub2
    N = 2
    Dir <- SubDirs
    JournalDir = root
    DirOf <- SubDirectories
    NoFile = NoFile
    Foreign = Foreign
    Torn = Torn
    Env = {"fault", "reread", "crash", "foreign"}
    MaxTxn = 1
PROPERTIES ForeignKept OriginalKept
