CONSTANTS
    Openers = {o1, o2}
    Readers = {r1, r2}
    Paths = {p1}
    Directories = {d1, d2}
    o1 = o1
    o2 = o2
    r1 = r1
    r2 = r2
    p1 = p1
    d1 = d1
    d2 = d2
    this = this
    that = that
    huge = huge
    elsewhere = elsewhere
    project = project
    home = home
    NoCall = NoCall
    MaxMoves = 2
    Scopes <- MCScopes
    Filenames <- MCFilenames
    Contents = {this, that, huge, elsewhere}
    Blocks <- MCBlocks
    MaxBlocks = 2
    MaxTotal = 3
    Undecodable = {huge}
    Irregular = {elsewhere}
    Attempts = 2
    ScopesOf <- MCScopesOf
    InitialInodes <- MCInitialInodes
    InitialFiles <- MCInitialFiles
    MaxWrites = 2
    Sources <- MCSources
    Names = {1, 2}
    InitialSkills <- MCInitialSkills
    MaxSkillChanges = 2
    MaxChanges = 2
    Requests <- MCRequests
SYMMETRY Symmetry
SPECIFICATION Spec
INVARIANTS InvalidNeverHidesValid
CHECK_DEADLOCK FALSE
