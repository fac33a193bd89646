SPECIFICATION Spec
CONSTANTS
  Styles = {s1, s2}
  Prints <- MCPrints
  Errors <- MCErrors
  EmptyPlans = {"one"}
  Clean = "clean"
  Actions = {a1, a2}
  NoAction = NoAction
  NoId = NoId
  Scores <- MCScores
  Threshold = 70
  MinGain = 5
  MaxRounds = 2
  MaxSoftRounds = 1
  MaxAttempts = 2
  CriticEnabled = TRUE
  StepBudgets = {100}
  StepReserve = 2
  RepairBudgets = {1, 4}
SYMMETRY Symmetry
PROPERTY LevelIsKept
