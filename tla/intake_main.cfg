CONSTANTS
  q1 = q1
  q2 = q2
  q3 = q3
  q4 = q4
  a1 = a1
  a2 = a2
  None = None
  Drafts <- MCDrafts
  Patches <- MCPatches
  Requests <- MCRequests
  Answers <- MCAnswers
  MaxRounds = 3

SPECIFICATION FairSpec

INVARIANTS TypeOK SessionTells AssemblesUnlessHalfWindow
PROPERTIES OnlyAskedFieldsChange EveryTurnEnds

\* An ended or exhausted session takes no further call.
CHECK_DEADLOCK FALSE
