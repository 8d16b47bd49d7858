SPECIFICATION Spec
CONSTANTS
  c1 = c1
  c2 = c2
  k1 = k1
  Contents = {c1, c2}
  NoContent = NoContent
  MaxJobs = 2
  MaxUploads = 1
  MaxRuns = 1
  Appliers = {p1}
  Secrets = {k1}
  NoSecret = NoSecret
  Needs <- MCNeeds
  Packages = {c1}
  Promoted = {}
  History <- MCHistory
  Keeps = {0, 1}
  MaxFaults = 0
INVARIANTS
  DeployedArtifactKept
CHECK_DEADLOCK FALSE
