\* One person on two devices: a sign-in or two, then overlapping refreshes, uses and
\* sign-outs, with every call failing anywhere.
SPECIFICATION Spec
CONSTANTS
    Holders = {h1}
    Devices = {d1, d2}
    SessionIds = {s1, s2, s3}
    Requests = {r1, r2, r3, r4}
    Never = Never
    None = None
    TTL = 2
    MaxTime = 1
    SerialClient = FALSE
SYMMETRY SessionSymmetry
INVARIANTS RotationRetiresParent AckedSignOutRevokes
PROPERTIES RevocationIsFinal SignOutIsFinal
CHECK_DEADLOCK FALSE
