SPECIFICATION Spec
CONSTANTS
    x = x
    y = y
    z = z
    d1 = d1
    d2 = d2
    Docs = {d1, d2}
    Keys = {x, y, z}
    Batches <- MCBatches
    Findings <- MCFindings
    Answers <- MCAnswers
    MaxConcepts = 2
    MaxTries <- MCTries
    Nobody = Nobody
INVARIANTS
    NoPrerequisiteCycle
    FactsStoredOnce
    NewNamesOnce
    LeftOutForAReason
CHECK_DEADLOCK FALSE
