SPECIFICATION Spec
CONSTANTS
    MaxCodeChars = 2
    MaxJobs = 2
    MaxStdout = 1
    Codes <- CodesDef
    None = None
INVARIANTS ThemeHolds
CHECK_DEADLOCK FALSE
