SPECIFICATION Spec
CONSTANTS
    Request = {r1, r2}
    Version = {1, 2}
    Generation = {1, 2}
    Key <- Points
    Keys <- PointKeys
    ByCount = TRUE
    MaxCompany = 1
    None = None
SYMMETRY Symmetry
INVARIANTS TypeOK NeverEmptied
PROPERTIES WorkIsExact OtherVersionsKept
