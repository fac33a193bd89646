SPECIFICATION Spec
CONSTANTS
    Category <- MCCategory
    Place <- MCPlace
    Says <- MCSays
    Terms <- MCTerms
    Size <- MCSize
    AskedTrip <- MCTrip
    Backends = {"postgres", "sqlite", "memory"}
    Processes = {p1, p2}
    Calls = {c1, c2}
    Users = {u1, u2}
    Requests = {r1}
    Values = {"relaxed", "relaxed_here", "intensive", "dislikes"}
    Temporary = {"relaxed"}
    MaxCharacters = 4
    MaxTokens = 1
    MaxCalls = 3
    MaxMemories = 3
    MaxProposals = 1
    MaxFaults = 1
    None = None
    Drafts = {{}, {"pace", "avoid"}}
SYMMETRY Symmetry
CHECK_DEADLOCK FALSE
INVARIANTS StoreFits AnswersWhatWasAskedLocally RequestWins ContextAgrees
PROPERTIES NoLostWrite ErasedStaysErased
