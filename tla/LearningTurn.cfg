SPECIFICATION Spec
CONSTANTS
    t1 = t1
    t2 = t2
    Turns = {t1, t2}
    Nobody = Nobody
    Top = 2
    LastDay = 1
    ResolveAfter = 3
    Starts <- MCStarts
    Labels <- MCLabels
    RawQuestions <- MCRawQuestions
    Responses <- MCResponses
    Qualities = {2, 4}
INVARIANTS
    NoAttemptLost
    DecayIsInvisible
PROPERTIES
    ReviewsSpreadOut
CHECK_DEADLOCK FALSE
SYMMETRY Alike
