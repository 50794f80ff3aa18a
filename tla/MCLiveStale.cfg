SPECIFICATION Spec
CONSTANTS
  Cands = {ann}
  Links = {l1}
  Servers = {server}
  Scripts = {}
  Deciders = {boss}
  DataVersions = {d1, d2}
  DemoCand = ann
  Ops = {"decision"}
  HandSet = {}
  InitialStatus = {"decision_pending"}
  MaxLate = 0
  MaxPipelineRuns = 0
  Unissued = Unissued
  Expired = Expired
  NoLink = NoLink
INVARIANT
  DecidedOnAnsweredData
CHECK_DEADLOCK FALSE
