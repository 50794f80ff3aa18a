SPECIFICATION Spec
CONSTANTS
  Cands = {ann}
  Links = {l1, l2}
  Servers = {server}
  Scripts = {script}
  Deciders = {boss}
  DataVersions = {d1}
  DemoCand = ann
  Ops = {"decision", "writes"}
  HandSet = {"decision_pending"}
  InitialStatus = {"decision_pending"}
  MaxLate = 1
  MaxPipelineRuns = 1
  Unissued = Unissued
  Expired = Expired
  NoLink = NoLink
INVARIANTS
  AnsweredOnly
  OutcomeWasAnswered
SYMMETRY LinkSymmetry
CHECK_DEADLOCK FALSE
