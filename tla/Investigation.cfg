SPECIFICATION Spec
CONSTANTS
    wanted = wanted
    saramin = saramin
    d1 = d1
    d2 = d2
    s1 = s1
    s2 = s2
    Sites = {wanted, saramin}
    Offered = {wanted, saramin}
    Docs = {d1, d2}
    StepIds = {s1, s2}
    Keys = {k}
    QuestionIds = {q, occupation_query}
    OccupationQuestion = occupation_query
    MaxQuestions = 2
    MaxRequirements = 1
    MaxNeed = 1
    MaxOthers = 1
    NoBatch = NoBatch
SYMMETRY Symmetry
INVARIANTS
    TypeOK
    AnsweredOnce
    CompletedIsBacked
    WebAnswerIsCollected
    GivesUpLast
PROPERTIES
    EveryNodeAdvances
CHECK_DEADLOCK FALSE
