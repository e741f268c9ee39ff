SPECIFICATION Spec
CONSTANTS
    Letters = {"a", "b"}
    Headers <- MCHeaders
    MaxMb = 2
    MaxRows = 2
    MaxListed = 2
    None = None
INVARIANTS UniqueColumns
CHECK_DEADLOCK FALSE
