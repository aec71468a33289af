\* Two refreshes of one token.
SPECIFICATION Spec
CONSTANTS
    Holders = {h1}
    Devices = {d1}
    SessionIds = {s1, s2, s3}
    Requests = {r1, r2, r3}
    Never = Never
    None = None
    TTL = 1
    MaxTime = 1
    SerialClient = FALSE
INVARIANTS OneSuccessorPerToken
CHECK_DEADLOCK FALSE
