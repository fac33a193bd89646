SPECIFICATION Spec
CONSTANTS
    Calls <- MCCalls
    Runs <- MCRuns
    RunOf <- MCRunOf
    Services <- MCServices
    c1 = c1
    c2 = c2
    r1 = r1
    r2 = r2
    Keys = {k1, k2}
    Length = 2
    Answers = {"good", "shape", "http_403", "http_500"}
    Ttl = 1
    MaxEntries = 1
    MaxAttempts = 2
    MaxConcurrency = 1
    FailureThreshold = 2
    RecoveryTime = 1
    RunBudget = 2
    MaxAsks = 2
    MaxTime = 1
    None = None
CHECK_DEADLOCK FALSE
INVARIANT BudgetIsOwn
