\* A second daemon starts on the database of a live one.
SPECIFICATION Spec
CONSTANTS
    Daemons = {d1, d2}
    Ops = {o1}
    Inputs = {i1}
    Calls = {c1}
    None = None
    MaxCrashes = 0
    MaxFaults = 0
PROPERTIES OnlyInterruptedReconciled
CHECK_DEADLOCK FALSE
