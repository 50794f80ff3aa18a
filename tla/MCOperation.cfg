SPECIFICATION Spec
CONSTANTS
  CommandCount = 4
  MaxRuns = 2
  MaxLate = 1
  MaxAttempts = 2
  c1 = c1
  c2 = c2
  Records = {c1, c2}
  NoRecord = NoRecord
  Inputs <- MCInputs
  Outcomes <- MCOutcomes
  ResumeFacts = 1
  MaxPlans = 1
  Environments <- MCEnvironments
  MaxLost = 1
INVARIANTS TypeOK RecoveryBounds NoRowTwice WriteStepsOnce CompletedMeansWritten AnswersHold StatusHasAudit
PROPERTIES ScriptEnds
