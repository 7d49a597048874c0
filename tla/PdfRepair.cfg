SPECIFICATION Spec
CONSTANTS
    Request = {r1}
    Inode = {i1, i2, i3}
    None = None
    Blocks = 2
    MaxRetries = 1
    MaxJobs = 3
    Damage = {"lose", "corrupt"}
    StagesFollow = TRUE
SYMMETRY Symmetry
PROPERTY TruthfulResult
