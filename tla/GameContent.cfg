SPECIFICATION Spec
CONSTANTS
    None = None
    b1 = b1
    b2 = b2
    BlockIds = {b1, b2, b3}
    Requests = {r1, r2}
    SeededList <- TwoBlocks
    Spellings = {"canonical"}
    MaxLength = 2
SYMMETRY Symmetric
INVARIANTS
    TypeOK
    PositionsAreUnique
PROPERTIES
    EditShowsItself
    EditAloneIsWhole
