SPECIFICATION Spec
CONSTANTS
  c1 = c1
  c2 = c2
  k1 = k1
  Contents = {c1, c2}
  NoContent = NoContent
  MaxJobs = 2
  MaxUploads = 1
  MaxRuns = 1
  Appliers = {p1, p2}
  Secrets = {k1}
  NoSecret = NoSecret
  Needs <- MCNeeds
  Packages = {c1, c2}
  Promoted = {c2}
  History <- MCHistory
  Keeps = {0, 1}
  MaxFaults = 1
SYMMETRY Symmetry
INVARIANTS
  ArtifactKept
  SourceKept
  SecretsBound
  AppliedComplete
CHECK_DEADLOCK FALSE
