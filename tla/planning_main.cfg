SPECIFICATION Spec
CONSTANTS
  Styles = {s1, s2, s3}
  Prints <- MorePrints
  Errors <- MoreErrors
  EmptyPlans = {"one"}
  Clean = "clean"
  Actions = {a1, a2, a3}
  NoAction = NoAction
  NoId = NoId
  Scores <- MCScores
  Threshold = 70
  MinGain = 5
  MaxRounds = 3
  MaxSoftRounds = 1
  MaxAttempts = 2
  CriticEnabled = TRUE
  StepBudgets <- SomeSteps
  StepReserve = 2
  RepairBudgets = {1, 4}
SYMMETRY Symmetry
INVARIANTS TerminalNodesFit ContextAgrees OutcomeIsTrue RepairsDiffer ScoresAreGrounded
PROPERTY LegalIsKept
