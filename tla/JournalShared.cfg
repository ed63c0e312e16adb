\* Two daemons on one database, one id, two inputs, three calls.
SPECIFICATION FairSpec
CONSTANTS
    Daemons = {d1, d2}
    Ops = {o1}
    Inputs = {i1, i2}
    Calls = {c1, c2, c3}
    None = None
    MaxCrashes = 1
    MaxFaults = 1
INVARIANTS AtMostOnce CommittedMeansDone AnswersAgree InFlightHasOwner
PROPERTIES ImplementsOneShot CallsSettle InFlightResolves
CHECK_DEADLOCK FALSE
