\* Two daemons and other programs change one file; a crash or a power failure.
SPECIFICATION FairSpec
CONSTANTS
    s1 = s1
    s2 = s2
    k1 = k1
    k2 = k2
    f1 = f1
    v1 = v1
    v2 = v2
    Requests <- MCRequests
    Calls = {w1, w2}
    Services = {s1, s2}
    Keys = {k1, k2}
    ServiceOf <- TwoServicesOf
    Files = {f1}
    FileOf <- SameFileOf
    Contents = {v1, v2}
    None = None
    Absent = Absent
    Special = Special
    Partial = Partial
    Unconditional = Unconditional
    MaxFaults = 1
INVARIANTS PreconditionAtCommit NeverPartial DurableSurvives RefusedLeavesTarget
PROPERTIES TakesTurns MutationsSettle
CHECK_DEADLOCK FALSE
