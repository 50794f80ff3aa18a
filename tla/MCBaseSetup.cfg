SPECIFICATION Spec
CONSTANTS
  TableOrder <- MCTableOrder
  ImportRows <- MCImportRows
  Keys = {c1, demoJob, demoCandidate}
  Contents = {f1, f2}
  NoContent = none
  c1 = c1
  f1 = f1
  f2 = f2
  DemoJob = demoJob
  DemoCandidate = demoCandidate
  JobTable = "jobs"
  CandidateTable = "candidates"
  Terminals = {t1}
  MaxIds = 3
  MaxLate = 1
  MaxScripts = 2
  ReadLimit = 2
CONSTRAINT OneNameTwice
INVARIANT OneRowPerKey
PROPERTIES
  SeedFindsSetup
  FactsKept
