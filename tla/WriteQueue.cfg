\* Four calls over two targets, each of a service of its own.
SPECIFICATION FairSpec
CONSTANTS
    s1 = s1
    s2 = s2
    k1 = k1
    k2 = k2
    Calls = {w1, w2, w3, w4}
    Services = {s1, s2}
    Keys = {k1, k2}
    ServiceOf <- MCServiceOf
    None = None
INVARIANTS MutualExclusion FirstComeFirstServed MapDrains
PROPERTIES EveryCallReleased
CHECK_DEADLOCK FALSE
