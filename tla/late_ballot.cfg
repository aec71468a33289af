\* A request admitted just before the window closes.
SPECIFICATION Spec
CONSTANTS
    Elections = {e1}
    Voters = {v1}
    Casts = {c1}
    Seeded = {}
    Patches = {p1, p2}
    NoRequest = NoRequest
    NoSession = NoSession
    SerialAdmin = TRUE
    TamperDemo = FALSE
PROPERTIES BallotsOnlyWhileOpen
