SPECIFICATION Spec
CONSTANTS
    Category <- MCCategory
    Place <- MCPlace
    Says <- MCSays
    Terms <- MCTerms
    Size <- MCSize
    AskedTrip <- MCTrip
    Backends = {"postgres"}
    Processes = {p1, p2}
    Calls = {c1, c2}
    Users = {u1}
    Requests = {r1}
    Values = {"relaxed", "intensive", "dislikes", "walks", "rests"}
    Temporary = {"relaxed"}
    MaxCharacters = 4
    MaxTokens = 1
    MaxCalls = 3
    MaxMemories = 3
    MaxProposals = 1
    MaxFaults = 0
    None = None
    Drafts = {{}, {"interests"}}
SYMMETRY Symmetry
CHECK_DEADLOCK FALSE
INVARIANT ConfirmIsIdempotent
