SPECIFICATION FairSpec
CONSTANTS
  Cands = {ann}
  Links = {l1, l2, l3}
  Servers = {server}
  Scripts = {}
  Deciders = {boss}
  DataVersions = {d1}
  DemoCand = ann
  Ops = {"decision"}
  HandSet = {}
  InitialStatus = {"interview_kit_ready", "decision_pending"}
  MaxLate = 0
  MaxPipelineRuns = 0
  Unissued = Unissued
  Expired = Expired
  NoLink = NoLink
INVARIANTS
  TypeOK
  DecisionConsistent
  FailureReportTruthful
PROPERTIES
  SuccessMeansWritten
  ImplementsLifecycle
  RunEnds
CHECK_DEADLOCK FALSE
