SPECIFICATION Spec
CONSTANTS
    Questions = {q1, q2}
    MaxRepairs = 2
    MaxTries = 3
    PromptTokens = 10
    ReplyTokens = 2
    ErrorTokens = 1
    None = None
SYMMETRY Symmetry
INVARIANTS IInv AnswerMatchesCode PromptIsComplete TimeoutIsFinal FailureIsTrue CostIsTrue NothingLeftRunning
CHECK_DEADLOCK FALSE
