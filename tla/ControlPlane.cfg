SPECIFICATION Spec
CONSTANTS
    Request = {r1, r2}
    JobId = {j1, j2}
    Op = {"INGEST", "PARSE", "CHUNK", "VECTOR_INDEX", "EXTRACT_GRAPH", "GRAPH_INDEX"}
    None = None
SYMMETRY Symmetry
INVARIANTS TypeOK OneActiveJob ActiveJobRemains LostRaceFindsWinner
PROPERTIES FailedIsFinal ImplementsLedger
