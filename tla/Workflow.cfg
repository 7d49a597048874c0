SPECIFICATION Spec
CONSTANTS
    t1 = t1
    t2 = t2
    g1 = g1
    None = None
    Item <- MCItem
    Text <- MCText
    MaxRounds <- MCMaxRounds
    Room <- MCRoom
\* A question ends.
CHECK_DEADLOCK FALSE
INVARIANTS
    TypeOK
    RetrievalsBounded
    RefinementIsFresh
    AnsweredIsGrounded
    AnswerHasCoverage
    SuccessIsAnswered
PROPERTIES
    GivenUpIsFinal
    EveryQuestionEnds
