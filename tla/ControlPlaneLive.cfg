SPECIFICATION FairSpec
CONSTANTS
    Request = {r1, r2}
    JobId = {j1, j2}
    Op = {"INGEST", "PARSE"}
    None = None
PROPERTY EveryRequestEnds
