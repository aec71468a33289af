\* Two people, two devices, clients that refresh a token once at a time, and a clock that
\* outruns the window.
SPECIFICATION Spec
CONSTANTS
    Holders = {h1, h2}
    Devices = {d1, d2}
    SessionIds = {s1, s2, s3}
    Requests = {r1, r2, r3}
    Never = Never
    None = None
    TTL = 2
    MaxTime = 3
    SerialClient = TRUE
SYMMETRY SessionSymmetry
INVARIANTS TypeOK IdleSessionsExpire OneSuccessorPerToken
PROPERTIES EverywhereMeansEverywhere
CHECK_DEADLOCK FALSE
