SPECIFICATION Spec
CONSTANTS
  Styles = {s1, s2}
  Prints <- MCPrints
  Errors <- MCErrors
  EmptyPlans = {"one"}
  Clean = "clean"
  Actions = {a1, a2}
  NoAction = NoAction
  NoId = NoId
  Scores <- MCScores
  Threshold = 70
  MinGain = 5
  MaxRounds = 0
  MaxSoftRounds = 1
  MaxAttempts = 2
  CriticEnabled = TRUE
  StepBudgets <- FewSteps
  StepReserve = 1
  RepairBudgets = {4}
SYMMETRY Symmetry
INVARIANTS TerminalNodesFit
