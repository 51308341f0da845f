CONSTANTS
  p1 = p1
  Relays = {p1}
  MaxEvents = 2
  Unpublishable = {}
  Batch = 2
  MaxFaults = 1
  QueueSize = 1
  SeenLimit = 1
SPECIFICATION LiveSpec
INVARIANTS
  NothingElseMissed
  SentOnce
PROPERTIES
  EventsArrive
CHECK_DEADLOCK FALSE
