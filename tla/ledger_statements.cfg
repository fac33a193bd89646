SPECIFICATION Spec
CONSTANTS
    Limit <- MCLimit
    MaxSteps = 4
    MaxToolCalls = 2
    MaxProviderAttempts = 3
    MaxModelCalls = 2
    MaxModelAttempts = 3
    MaxModelSize = 3
    MaxRepairs = 0
    MaxInterrupts = 1
    MaxWrites = 1
    StepReserve = 1
    MaxEvents = 14
    TraceReserve = 3
    MaxRepeats = 2
    MaxTries = 2
    Tools = {t1, t2}
    Model = model
    Sizes = {1, 2}
    Prints = {f1}
    NodeKinds = {"plain", "repair", "await", "tools", "final"}
CHECK_DEADLOCK FALSE
INVARIANT ChecksComeFirst
