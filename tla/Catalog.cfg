SPECIFICATION Spec
CONSTANTS
    None = None
    Games = {g1, g2, g3}
    Parts = {"blocks", "description"}
    Requests = {r1, r2, r3}
SYMMETRY Symmetric
INVARIANTS
    TypeOK
    OriginalsArePublished
    IInv
PROPERTIES
    ImplementsShelf
