SPECIFICATION MCSpec
CONSTANTS
    alpha = alpha
    beta = beta
    Concepts = {alpha, beta}
    None = None
    Levels = {10, 70, 90}
    MaxInteractions = 5
    MaxAttempts = 3
    FailureLimit = 2
    MaxActivations = 2
    HintsPerQuestion = 1
INVARIANTS
    NoTargetDropped
    AttemptsBounded
    AwaitingIsServable
    GradedOnce
    AnswersLimited
    FrustrationEnds
PROPERTIES
    GoesOnWithinLimits
    AnsweringEnds
CHECK_DEADLOCK FALSE
