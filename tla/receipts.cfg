SPECIFICATION ReceiptsSpec
CONSTANTS
    w1 = w1
    a1 = a1
    None = None
    MaxVotes = 2
    Web = {w1}
    App = {a1}
    MaxBatches = 1
INVARIANTS ReceiptsAreBacked StoredBallotsAreCountable IncludedIsOnChain
PROPERTIES IncludedNeverPending
CHECK_DEADLOCK FALSE
