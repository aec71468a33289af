SPECIFICATION FairSpec
CONSTANTS
    r1 = r1
    r2 = r2
    None = None
    Depth = 2
    MaxVotes = 2
    Key <- Key2
    Runs = {r1, r2}
    Kinds <- KindsBatch
    Threshold = 2
    MaxFaults = 1
    MaxRequests = 1
INVARIANTS ConfirmedIsAnchored RowsMirrorChain DenseProofsVerify SparseTreeIsCanonical TreeCoversConfirmed BundlesAreSound
PROPERTIES SmtForgetsNothing EveryBallotIsAnchored ImplementsAnchorLog
CHECK_DEADLOCK FALSE
