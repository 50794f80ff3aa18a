SPECIFICATION Spec
CONSTANTS
  MaxItems = 2
  Queries = {q1}
  MaxSubmitted = 3
  MaxTime = 1
  Absent = Absent
  Torn = Torn
  NoBound = NoBound
  None = None
INVARIANTS
  TypeOK
  NewestFirst
  ProcessedIsShown
PROPERTIES
  QueueKeeps
  FinishedStays
  AnswerMatchesFile
