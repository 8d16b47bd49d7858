SPECIFICATION Spec
CONSTANTS
  c1 = c1
  c2 = c2
  Deployments = {d1, d2}
  Workers = {w1, w2}
  Contents = {c1, c2}
  Promotion <- MCPromotion
  MaxFaults = 1
  NoDeployment = NoDeployment
  NoWorker = NoWorker
  NoContent = NoContent
SYMMETRY Symmetry
INVARIANTS
  ActivationAtomic
  StepsAgree
  FenceIsClaim
PROPERTIES
  CancellationWins
  ImplementsLedger
CHECK_DEADLOCK FALSE
