SPECIFICATION FairSpec
CONSTANTS
  Runs = {r1, r2}
  Commands = {}
  Keys = {k1}
  Workers = {w1, w2}
  Api = Api
  Nobody = Nobody
  Clients = {c1, c2}
  Streams = {s1}
  UseQueue = TRUE
  MaxEvents = 2
  PageSize = 1
INVARIANTS SingleOwner
PROPERTIES TerminalIsFinal HandOversKeepRuns RunsEnd StreamsEnd
CHECK_DEADLOCK FALSE
