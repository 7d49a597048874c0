SPECIFICATION Spec
CONSTANTS
    Request = {r1, r2}
    Inode = {i1, i2, i3, i4}
    None = None
    Blocks = 2
    MaxRetries = 1
    MaxJobs = 3
    Damage = {"lose"}
    StagesFollow = FALSE
SYMMETRY Symmetry
INVARIANTS TypeOK FinalNeverPartial RecordedIsComplete
PROPERTY TruthfulResult
