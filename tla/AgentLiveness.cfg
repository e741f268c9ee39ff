SPECIFICATION FairSpec
CONSTANTS
    Questions = {q1, q2}
    MaxRepairs = 1
    MaxTries = 2
    PromptTokens = 10
    ReplyTokens = 2
    ErrorTokens = 1
    None = None
PROPERTIES EveryQuestionEnds
CHECK_DEADLOCK FALSE
