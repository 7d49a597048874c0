SPECIFICATION Spec
CONSTANTS
    Request = {r1, r2}
    Config = {1, 2}
    Settings <- OneChanged
    Variant = {1, 2}
    Pdf = Pdf
    None = None
    Torn = Torn
    Relationship <- Relationships
    Ids <- RelationshipIds
    MaxDisturbances = 2
SYMMETRY Symmetry
INVARIANTS TypeOK ProvenanceExact LoneAnswerIsCurrent
PROPERTIES ImplementsLineage
