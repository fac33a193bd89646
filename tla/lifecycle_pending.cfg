SPECIFICATION Spec
CONSTANTS
  Procs = {p1}
  Requests = {r1, r2, r3, r4}
  NoId = NoId
  Items <- MCItems
  Days <- MCDays
  DayOf <- MCDayOf
  Places <- MCPlaces
  Absent = Absent
  NoLock = NoLock
  Candidates <- MCCandidates
  EditPatches <- MCPatches
  ClientKinds = {"select", "edit", "refresh", "dismiss"}
  Forecasts = {"calm", "storm"}
  Normal = "calm"
  NoEvent = NoEvent
  NoForecast = NoForecast
  MaxVersions = 2
  MaxAffectedDays = 2
  MaxClarifications = 1
  MaxRevision = 4
SYMMETRY RequestSymmetry
INVARIANTS PendingIsOpen
CHECK_DEADLOCK FALSE
