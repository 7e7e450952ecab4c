SPECIFICATION Spec
CONSTANTS
    Null = Null
    Absent = Absent
    Games = {1, 2, 3}
    Numbers = {1, 2}
    MaxTime = 1
    Seeded <- MCSeeded
    Authored = {1}
    Ranks = {0, 1, 2}
    FirstRank <- MCFirstRank
    DefaultGameLimit = 1
    MaxGameLimit = 2
    MaxGameSearchOffset = 1
    MaxWrites = 4
INVARIANTS
    TypeOK
    ResolvedIsComplete
    RangesAreInOrder
    StillWalksAreExact
PROPERTIES
    ImplementsScan
