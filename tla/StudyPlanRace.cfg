SPECIFICATION MCSpec
CONSTANTS
    a = a
    b = b
    g = g
    h = h
    Concepts = {a, b}
    Prerequisites <- MCPrerequisites
    Rank <- MCRank
    PerDay = 2
    Horizon = 3
    NoDate = NoDate
    Goals = {g, h}
    GoalChoices <- MCGoalChoices
    NoGoal = NoGoal
    Sessions <- MCSessions
    Reviews = {1}
    Moves = {1}
    MaxDay = 2
    MaxRequests = 3
    Nobody = Nobody
    PatchesRace = TRUE
INVARIANTS
    TodaysActionsKept
CHECK_DEADLOCK FALSE
