SPECIFICATION Spec
CONSTANTS
  Servers = {s1}
  ReadLimit = 1
  Default = Default
  Asked = {Default}
  MaxEdits = 2
  MaxDay = 1
  MaxRows = 2
  MaxLate = 1
INVARIANTS ReportOfOneMoment NonceSpentByAudit OneReportPerServer ReportHasAudit AnswerTruthful
CHECK_DEADLOCK FALSE
