SPECIFICATION Spec
CONSTANTS
  Cands = {ann}
  Links = {l1}
  Servers = {server}
  Scripts = {}
  Deciders = {boss}
  DataVersions = {d1, d2}
  DemoCand = ann
  Ops = {"decision", "writes"}
  HandSet = {}
  InitialStatus = {"decision_pending"}
  MaxLate = 0
  MaxPipelineRuns = 2
  Unissued = Unissued
  Expired = Expired
  NoLink = NoLink
INVARIANT
  MismatchMeansChanged
CHECK_DEADLOCK FALSE
