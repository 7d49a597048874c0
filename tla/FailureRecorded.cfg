SPECIFICATION Spec
CONSTANTS
    Request = {r1}
    JobId = {j1, j2}
    Op = {"INGEST", "PARSE", "CHUNK"}
    None = None
SYMMETRY Symmetry
PROPERTY FailureIsRecorded
