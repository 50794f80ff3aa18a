SPECIFICATION FairSpec
CONSTANT MaxFacts = 10
INVARIANTS
  TypeOK
  FinalStatusMatchesWrites
  FailureLeavesNoWrites
  AuditPrecedesStatus
  ResultAgreesWithRuns
PROPERTIES
  ImplementsLifecycle
  Returns
CHECK_DEADLOCK FALSE
