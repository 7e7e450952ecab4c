SPECIFICATION Spec
CONSTANTS
    None = None
    Games = {g1, g2}
    Parts = {"blocks", "categories", "description"}
    Requests = {r1, r2}
SYMMETRY Symmetric
PROPERTIES
    PublishesOnlyComplete
