\* Two nodes for three cards, an image of two buffers, volumes inside of one another.
SPECIFICATION DeliverySpec
CONSTANTS
    Disks = {"a", "twin", "b"}
    Nodes = {"n1", "n2"}
    NoDisk = "nodisk"
    Identity <- Reported
    TooSmall = {"b"}
    Points = {1, 2}
    Chunks = 2
    Scenes <- SomeScenes
\* Every command ends.
CHECK_DEADLOCK FALSE
INVARIANTS CanonicalArchives LeasedWhole 
PROPERTIES TouchesSelected ReportIsTrue   RemovesUnused
