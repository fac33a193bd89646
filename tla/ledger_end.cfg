SPECIFICATION Spec
CONSTANTS
    Limit <- MCLimit
    MaxSteps = 8
    MaxToolCalls = 2
    MaxProviderAttempts = 3
    MaxModelCalls = 2
    MaxModelAttempts = 3
    MaxModelSize = 3
    MaxRepairs = 1
    MaxInterrupts = 1
    MaxWrites = 4
    StepReserve = 1
    MaxEvents = 8
    TraceReserve = 2
    MaxRepeats = 2
    MaxTries = 2
    Tools = {t1}
    Model = model
    Sizes = {1, 2}
    Prints = {f1}
    NodeKinds = {"plain", "final"}
CHECK_DEADLOCK FALSE
INVARIANTS EndRecorded
