\* One command that dies, with an archive that nobody declares.
SPECIFICATION FetchRunSpec
CONSTANTS
    a = a
    b = b
    c = c
    Procs = {"p"}
    Keys = {"a.tar.gz"}
    Retries = 2
    MaxCrashes = 1
    MaxEdits = 0
    Scenes <- Undeclared
INVARIANT RejectedStaysOut
