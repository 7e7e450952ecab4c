SPECIFICATION FairSpec
CONSTANTS
    Categories = {c1, c2}
    Materials = {m1, m2}
    Requests = {r1, r2}
    SeededLinks = {c1, m1}
INVARIANTS
    TypeOK
    FlaggedGamesHaveNoMaterials
PROPERTIES
    ListedMaterialsStay
    ReplaceAloneIsExact
    EditsEnd
