\* Two requests against a window that is opened and closed by administrators who wait
\* for their answers.
SPECIFICATION Spec
CONSTANTS
    Elections = {e1}
    Voters = {v1}
    Casts = {c1, c2}
    Seeded = {}
    Patches = {p1, p2}
    NoRequest = NoRequest
    NoSession = NoSession
    SerialAdmin = TRUE
    TamperDemo = FALSE
SYMMETRY Symmetry
INVARIANTS EventLogEndsAtStatus
PROPERTIES DrainedWindowFreezesBallots StatusMovesForward
