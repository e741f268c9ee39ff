SPECIFICATION Spec
CONSTANTS
    orders = orders
    churn = churn
    copy = copy
    own = own
    Started <- MCStarted
    Files <- MCFiles
    Stem <- MCStem
    Recordings <- MCRecordings
    Texts <- MCTexts
    Spoken <- MCSpoken
    FewShot <- MCFewShot
    HistoryTurns = 1
    MaxRepairs = 1
    MaxAsks = 3
    None = None
INVARIANTS SentAlternates OwnRecording RunsOnItsDataset NoConfusion LivePageCanCall
CHECK_DEADLOCK FALSE
