\* Two administrators open the same election, a third closes it.
SPECIFICATION LifecycleSpec
CONSTANTS
    Elections = {e1}
    Seeded = {}
    Patches = {p1, p2, p3}
    NoRequest = NoRequest
    SerialAdmin = FALSE
PROPERTIES StatusMovesForward
CHECK_DEADLOCK FALSE
