SPECIFICATION FairSpec
CONSTANTS
  Procs = {p1}
  Requests = {r1, r2, r3, r4}
  NoId = NoId
  Items <- OneItem
  Days <- OneDay
  DayOf <- OneDayOf
  Places <- OneDayPlaces
  Absent = Absent
  NoLock = NoLock
  Candidates <- OneItemCandidates
  EditPatches <- SomePatches
  ClientKinds = {"select", "lock", "unlock", "edit", "clarify", "approve", "reject", "refresh", "dismiss"}
  Forecasts = {"calm", "storm"}
  Normal = "calm"
  NoEvent = NoEvent
  NoForecast = NoForecast
  MaxVersions = 3
  MaxAffectedDays = 2
  MaxClarifications = 1
  MaxRevision = 4
INVARIANT WeatherAgrees
PROPERTY ResumeEnds
CHECK_DEADLOCK FALSE
