SPECIFICATION FaultFreeSpec
CONSTANTS
  Runs = {r1}
  Commands = {}
  Keys = {k1}
  Workers = {}
  Api = Api
  Nobody = Nobody
  Clients = {}
  Streams = {}
  UseQueue = FALSE
  MaxEvents = 3
  PageSize = 2
INVARIANT NoOrphan
CHECK_DEADLOCK FALSE
