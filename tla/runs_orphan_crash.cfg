SPECIFICATION Spec
CONSTANTS
  Runs = {r1}
  Commands = {}
  Keys = {k1}
  Workers = {w1}
  Api = Api
  Nobody = Nobody
  Clients = {}
  Streams = {}
  UseQueue = TRUE
  MaxEvents = 3
  PageSize = 2
INVARIANT NoOrphan
CHECK_DEADLOCK FALSE
