SPECIFICATION Spec
CONSTANTS
  Procs = {p1, p2}
  Requests = {r1, r2, r3}
  NoId = NoId
  Items <- MCItems
  Days <- OneDay
  DayOf <- OneDayOf
  Places <- OneDayPlaces
  Absent = Absent
  NoLock = NoLock
  Candidates <- MCCandidates
  EditPatches <- OnePatch
  ClientKinds = {"select", "refresh"}
  Forecasts = {"calm", "storm"}
  Normal = "calm"
  NoEvent = NoEvent
  NoForecast = NoForecast
  MaxVersions = 2
  MaxAffectedDays = 2
  MaxClarifications = 0
  MaxRevision = 3
SYMMETRY BothSymmetry
INVARIANTS OnePreviewPerEvent
CHECK_DEADLOCK FALSE
