SPECIFICATION Spec
CONSTANTS
  Procs = {p1, p2}
  Requests = {r1, r2}
  NoId = NoId
  Items <- MCItems
  Days <- OneDay
  DayOf <- OneDayOf
  Places <- OneDayPlaces
  Absent = Absent
  NoLock = NoLock
  Candidates <- MCCandidates
  EditPatches <- OnePatch
  ClientKinds = {"select", "edit"}
  Forecasts = {"calm", "storm"}
  Normal = "calm"
  NoEvent = NoEvent
  NoForecast = NoForecast
  MaxVersions = 2
  MaxAffectedDays = 2
  MaxClarifications = 0
  MaxRevision = 3
SYMMETRY BothSymmetry
PROPERTIES ReceiptsAreFinal
CHECK_DEADLOCK FALSE
