SPECIFICATION Spec
CONSTANTS
  CommandCount = 4
  MaxRuns = 2
  MaxLate = 1
  MaxAttempts = 2
  c1 = c1
  Records = {c1}
  NoRecord = NoRecord
  Inputs <- MCInputs
  Outcomes <- MCOutcomes
  ResumeFacts = 1
  MaxPlans = 2
  Environments <- MCEnvironments
  MaxLost = 0
PROPERTIES DecisionIsFinal
