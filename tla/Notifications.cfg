SPECIFICATION FairSpec
CONSTANTS
  Events = {e1}
  Destinations = {x1, x2}
  Workers = {w1, w2}
  MaxAttempts = 2
  MaxFaults = 1
  NoEvent = NoEvent
  NoWorker = NoWorker
  NoDestination = NoDestination
INVARIANTS
  TypeOK
  AcceptedAccounted
  AttemptBudget
  FenceIsAttempt
PROPERTIES
  RoutesSnapshot
  EventuallyDelivered
