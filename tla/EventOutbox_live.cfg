CONSTANTS
  p1 = p1
  p2 = p2
  Relays = {p1, p2}
  MaxEvents = 3
  Unpublishable = {2}
  Batch = 2
  MaxFaults = 2
SPECIFICATION OutboxLiveSpec
INVARIANTS
  MarkedIsOnBus
  CopiesAreFaults
PROPERTIES
  DeliversOnlyCommitted
  EventsLeaveTheOutbox
CHECK_DEADLOCK FALSE
