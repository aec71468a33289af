\* Polling day in two elections: two requests of one person, with the sessions of either
\* election or the bare nid.
SPECIFICATION OpenSpec
CONSTANTS
    Elections = {e1, e2}
    Voters = {v1}
    Casts = {c1, c2}
    Seeded = {}
    Patches = {}
    NoRequest = NoRequest
    NoSession = NoSession
    SerialAdmin = TRUE
    TamperDemo = TRUE
PROPERTIES CastingKeepsItsPromise EveryCastEnds
