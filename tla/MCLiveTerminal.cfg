SPECIFICATION FairSpec
CONSTANTS
  Cands = {ann}
  Links = {l1}
  Servers = {server}
  Scripts = {script}
  Deciders = {boss}
  DataVersions = {d1}
  DemoCand = ann
  Ops = {"decision"}
  HandSet = {}
  InitialStatus = {"decision_pending"}
  MaxLate = 0
  MaxPipelineRuns = 1
  Unissued = Unissued
  Expired = Expired
  NoLink = NoLink
PROPERTY
  FinalStatusIsTerminal
CHECK_DEADLOCK FALSE
