SPECIFICATION Spec
CONSTANTS
    Letters = {"a", "b"}
    Headers <- MCHeaders
    MaxMb = 2
    MaxRows = 2
    MaxListed = 2
    None = None
INVARIANTS ColumnsFaithful ToldTruly
CHECK_DEADLOCK FALSE
