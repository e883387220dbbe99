\* Calls with and without a deadline, and captured streams of every length; one claim.
SPECIFICATION ProcessSpec
CONSTANTS
    Capacity = 1
    Calls <- SomeCalls
    Limits <- SmallLimits
    MaxRead = 7
    MaxTotal = 30
INVARIANTS SignalsOwnGroup NobodyLeft OutcomeOfChild KeepsBothEnds ClaimFollowsHandle
PROPERTIES CallsReturn
