SPECIFICATION FairSpec
CONSTANTS
    c1 = c1
    c2 = c2
    Calls = {c1, c2}
    Closers = {s1}
    Workers = {w1, w2}
    None = None
    Inputs <- MCInputs
INVARIANTS RInv OneWorker OwnAnswer NoRunaway QuiescentClean TruthfulErrors ShutdownComplete
PROPERTIES HandleKept EveryCallReturns OrphanExits ImplementsService
CHECK_DEADLOCK FALSE
