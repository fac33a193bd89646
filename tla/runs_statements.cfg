SPECIFICATION FaultFreeSpec
CONSTANTS
  Runs = {r1, r2}
  Commands = {m1, m2}
  Keys = {k1}
  Workers = {w1}
  Api = Api
  Nobody = Nobody
  Clients = {}
  Streams = {s1}
  UseQueue = TRUE
  MaxEvents = 3
  PageSize = 2
CHECK_DEADLOCK FALSE
INVARIANT OneRunPerKey
