SPECIFICATION Spec
CONSTANTS
  a1 = a1
  v1 = v1
  v2 = v2
  Runs = {r1, r2}
  Workers = {w1, w2}
  Automations = {a1}
  Revisions = {v1}
  Keys = {k1}
  AutomationOf <- MCAutomationOf1
  Limit <- MCLimit1
  Forbid = {v1}
  Stateful = {v1}
  MaxFaults = 0
  AttemptBound = 5
  NoRun = NoRun
  NoWorker = NoWorker
  NoKey = NoKey
  NoRevision = NoRevision
INVARIANTS
  ForbidSerialized
CHECK_DEADLOCK FALSE
