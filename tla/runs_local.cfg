SPECIFICATION Spec
CONSTANTS
  Runs = {r1}
  Commands = {m1}
  Keys = {k1}
  Workers = {}
  Api = Api
  Nobody = Nobody
  Clients = {}
  Streams = {s1}
  UseQueue = FALSE
  MaxEvents = 3
  PageSize = 2
INVARIANT LateStreamsComplete
CHECK_DEADLOCK FALSE
