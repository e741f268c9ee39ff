SPECIFICATION Spec
CONSTANTS
    a1 = a1
    a2 = a2
    b = b
    s = s
    Uploads <- MCUploads
    Broken <- MCBroken
    Samples <- MCSamples
    NameOf <- MCNameOf
    Questions = {q1, q2}
    HistoryTurns = 1
    DemoMode = FALSE
    MaxClicks = 4
    None = None
INVARIANTS SampleStays
CHECK_DEADLOCK FALSE
