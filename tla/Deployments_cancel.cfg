SPECIFICATION FairSpec
CONSTANTS
  c1 = c1
  c2 = c2
  Deployments = {d1}
  Workers = {w1, w2}
  Contents = {c2}
  Promotion <- MCPromotion
  MaxFaults = 0
  NoDeployment = NoDeployment
  NoWorker = NoWorker
  NoContent = NoContent
PROPERTIES
  CancellationCompletes
CHECK_DEADLOCK FALSE
