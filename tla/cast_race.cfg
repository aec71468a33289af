\* One person sends three overlapping requests (first try, retries, two devices) while
\* the election is opened, the key comes and goes, and every call may fail.
SPECIFICATION Spec
CONSTANTS
    Elections = {e1}
    Voters = {v1}
    Casts = {c1, c2, c3}
    Seeded = {}
    Patches = {p1}
    NoRequest = NoRequest
    NoSession = NoSession
    SerialAdmin = FALSE
    TamperDemo = TRUE
SYMMETRY Symmetry
INVARIANTS TypeOK HasVotedIffRecorded OneBallotPerVoter NullifierImpliesBallot
    AcceptedIsRecorded NoPhantomConflict BallotsFollowSetup
