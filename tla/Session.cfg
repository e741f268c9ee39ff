SPECIFICATION FairSpec
CONSTANTS
    a1 = a1
    a2 = a2
    b = b
    s = s
    Uploads <- MCUploads
    Broken <- MCBroken
    Samples <- MCSamples
    NameOf <- MCNameOf
    Questions = {q1, q2}
    HistoryTurns = 1
    DemoMode = TRUE
    MaxClicks = 5
    None = None
INVARIANTS IInv HistoryShown TurnRecorded ContextOfDataset
PROPERTIES RunsSettle
CHECK_DEADLOCK FALSE
