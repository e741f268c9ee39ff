SPECIFICATION Spec
CONSTANTS
    Tasks <- MCTasks
    Specs <- MCSpecs
    MaxAttempts = 2
    None = None
INVARIANTS FixtureVerified FirstOwns TablesAgree ExitTruthful
CHECK_DEADLOCK FALSE
