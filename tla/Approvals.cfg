SPECIFICATION FairSpec
CONSTANTS
  Runs = {r1}
  Revisions = {v1, v2}
  Keys = {k1, k2}
  Sessions = {s1, s2}
  NoRevision = NoRevision
  NoKey = NoKey
  NoRun = NoRun
INVARIANTS
  TypeOK
  DecidedOnce
  GuardHolds
PROPERTIES
  DecisionFinal
  TransactionsEnd
