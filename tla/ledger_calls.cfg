SPECIFICATION Spec
CONSTANTS
    Limit <- MCLimit
    MaxSteps = 3
    MaxToolCalls = 2
    MaxProviderAttempts = 3
    MaxModelCalls = 1
    MaxModelAttempts = 2
    MaxModelSize = 2
    MaxRepairs = 1
    MaxInterrupts = 1
    MaxWrites = 2
    StepReserve = 1
    MaxEvents = 14
    TraceReserve = 3
    MaxRepeats = 2
    MaxTries = 2
    Tools = {t1, t2}
    Model = model
    Sizes = {1, 2}
    Prints = {f1}
    NodeKinds = {"parse", "tools", "critic", "final"}
SYMMETRY Symmetry
CHECK_DEADLOCK FALSE
INVARIANTS WithinBudget UsageMatchesTrace
