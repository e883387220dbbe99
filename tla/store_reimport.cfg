\* What was removed is imported again.
SPECIFICATION StoreSpec
CONSTANTS
    Imports = {"i"}
    Release <- ReleaseOf
    Projects = {"p"}
    Releases = {"r1", "r2"}
    Scenes <- ImportedAgain
\* Every command ends.
CHECK_DEADLOCK FALSE
INVARIANT JournalsOfTheStopped
