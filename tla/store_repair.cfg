\* A selection that stops between its two files, and another one.
SPECIFICATION StoreSpec
CONSTANTS
    Imports = {"i"}
    Release <- ReleaseOf
    Projects = {"p"}
    Releases = {"r1", "r2"}
    Scenes <- TwoSelections
\* Every command ends.
CHECK_DEADLOCK FALSE
PROPERTY SelectRepairs
