\* Two calls, each an edit or an unconditional write, and one death.
SPECIFICATION FairSpec
CONSTANTS
    a1 = a1  a2 = a2
    edit = edit  other = other
    Calls = {a1, a2}
    Tasks = {edit, other}
    Signalled = {a1}
    Original = Original
    Unconditional = Unconditional
    Expected <- EditGuarded
    MaxDeaths = 1
    MaxOverwrites = 1
INVARIANTS AnswersAreTrue RepeatNeedsRewrite
PROPERTIES EveryCallSettles
CHECK_DEADLOCK FALSE
