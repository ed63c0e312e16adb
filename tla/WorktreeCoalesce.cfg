CONSTANTS
    c1 = c1
    c2 = c2
    Calls = {c1, c2}
    None = None
    Outsider = Outsider
    Attempts = 2
    GitFails = {}
    Externals = {}
SPECIFICATION CalmSpec
INVARIANTS Coalesced
CHECK_DEADLOCK FALSE
