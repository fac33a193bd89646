SPECIFICATION CrashFreeSpec
CONSTANTS
  Procs = {p1}
  Requests = {r1, r2, r3, r4, r5}
  NoId = NoId
  Items <- MCItems
  Days <- MCDays
  DayOf <- MCDayOf
  Places <- MCPlaces
  Absent = Absent
  NoLock = NoLock
  Candidates <- MCCandidates
  EditPatches <- MCPatches
  ClientKinds = {"select", "lock", "unlock", "edit", "clarify", "approve", "reject", "refresh", "dismiss"}
  Forecasts = {"calm", "storm"}
  Normal = "calm"
  NoEvent = NoEvent
  NoForecast = NoForecast
  MaxVersions = 2
  MaxAffectedDays = 2
  MaxClarifications = 1
  MaxRevision = 2
SYMMETRY RequestSymmetry
INVARIANTS ActiveIsResumable
CHECK_DEADLOCK FALSE
