CONSTANTS
    Plans <- MCPlans
    Answers <- MCAnswers
    MaxBody = 2
    Depth = 2
    Ahead = 2
SPECIFICATION Spec
INVARIANT Synchronized
PROPERTY AllAnswered
CHECK_DEADLOCK FALSE
