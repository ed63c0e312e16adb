CONSTANTS
    c1 = c1
    c2 = c2
    c3 = c3
    Calls = {c1, c2, c3}
    None = None
    Outsider = Outsider
    Attempts = 1
    GitFails = {c1}
    Externals = {"branch taken", "path taken", "path exchanged", "removed", "committed"}
SPECIFICATION FairSpec
INVARIANTS OneWorkspace NothingForeignAdopted InterruptedIsAdopted
PROPERTIES CleanupSticky OpensSettle
CHECK_DEADLOCK FALSE
