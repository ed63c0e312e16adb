\* Two starts meet at the stale socket of a daemon that died.
SPECIFICATION Spec
CONSTANTS
    Daemons = {d1, d2, d3}
    Clients = {c1}
    Nothing = Nothing
    PlainFile = PlainFile
    Mortal = {d1}
INVARIANTS NeverStolen
CHECK_DEADLOCK FALSE
