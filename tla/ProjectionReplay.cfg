SPECIFICATION ProjectionSpec
CONSTANTS
    p1 = p1
    k1 = k1
    k2 = k2
    q1 = q1
    q2 = q2
    Texts <- OneText
    Calls <- OneCall
    Asks <- TwoAsks
    MaxLog = 4
    MaxPrompts = 2
    MaxGeneration = 2
    MaxLoads = 2
SYMMETRY Symmetry
CHECK_DEADLOCK FALSE
INVARIANTS TranscriptIsTrue QuestionsAreKept
PROPERTIES Withdrawn
