SPECIFICATION LiveSpec
CONSTANTS
    Limit <- MCLimit
    MaxSteps = 3
    MaxToolCalls = 1
    MaxProviderAttempts = 1
    MaxModelCalls = 1
    MaxModelAttempts = 2
    MaxModelSize = 1
    MaxRepairs = 1
    MaxInterrupts = 1
    MaxWrites = 1
    StepReserve = 1
    MaxEvents = 7
    TraceReserve = 3
    MaxRepeats = 1
    MaxTries = 2
    Tools = {t1}
    Model = model
    Sizes = {1}
    Prints = {f1}
    NodeKinds = {"guard", "plan", "repair", "await", "tools", "final"}
CHECK_DEADLOCK FALSE
INVARIANT EndRecorded
PROPERTY RunEnds
