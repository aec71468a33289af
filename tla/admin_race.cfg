\* Four PATCH requests for a created election and for the seeded one, free to overlap,
\* and every failure of the four calls each handler makes.
SPECIFICATION LifecycleSpec
CONSTANTS
    Elections = {e1, seed}
    Seeded = {seed}
    Patches = {p1, p2, p3, p4}
    NoRequest = NoRequest
    SerialAdmin = FALSE
SYMMETRY AdminSymmetry
INVARIANTS AckedTransitionIsLogged StatusIsExplained
CHECK_DEADLOCK FALSE
