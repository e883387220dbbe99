\* Failing calls, deaths of processes and power losses, with every file in the directory of the journal.
SPECIFICATION PowerSpec
CONSTANTS
    root = root
    sub1 = sub1
    sub2 = sub2
    N = 2
    Dir <- OneDir
    JournalDir = root
    DirOf <- OneDirectory
    NoFile = NoFile
    Foreign = Foreign
    Torn = Torn
    Env = {"fault", "crash", "powerloss"}
    MaxTxn = 2
INVARIANTS Recoverable OutcomeIsTrue OutcomeIsDurable MarkerLast
PROPERTIES Atomic
