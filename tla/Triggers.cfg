SPECIFICATION FairSpec
CONSTANTS
  v1 = v1
  v2 = v2
  k1 = k1
  k2 = k2
  b1 = b1
  Revisions = {v1, v2}
  NoRevision = NoRevision
  TypeOf <- MCTypeOf
  Triggers <- MCTriggers
  Enables <- MCEnables
  Period <- MCPeriod
  Deliveries <- MCDeliveries
  NoKey = NoKey
  Senders = {s1}
  ManualKeys = {k1}
  Messages = 1
  Horizon = 2
  MaxRequests = 2
  MaxFaults = 1
INVARIANTS
  OneRunPerEvent
  RunFitsRevision
  ScheduleAccounted
PROPERTIES
  EventsArrive
