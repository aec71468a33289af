CONSTANTS
    N = 3
    Threshold = 2
    Ballots = 2
    MaxTallies = 2
    MaxFaults = 1
SPECIFICATION FairSpec
INVARIANTS
    QualifiedKeyIsShared
    CountsAreTrue
PROPERTIES
    CeremonyCompletes
    BatchIsCounted
    RunsKeepBallots
CHECK_DEADLOCK FALSE
