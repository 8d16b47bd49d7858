SPECIFICATION FairSpec
CONSTANTS
  a1 = a1
  v1 = v1
  v2 = v2
  Runs = {r1, r2}
  Workers = {w1, w2}
  Automations = {a1}
  Revisions = {v1, v2}
  Keys = {k1}
  AutomationOf <- MCAutomationOf
  Limit <- MCLimit
  Forbid = {v1}
  Stateful = {v1}
  MaxFaults = 2
  AttemptBound = 5
  NoRun = NoRun
  NoWorker = NoWorker
  NoKey = NoKey
  NoRevision = NoRevision
INVARIANTS
  TypeOK
  NoLostUpdate
  FenceIsAttempt
  EffectsOfSuccess
  RetryBudget
PROPERTIES
  SettledByLatestAttempt
  ImplementsLedger
  EventuallySettled
CHECK_DEADLOCK FALSE
