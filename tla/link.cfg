CONSTANTS
  Session = {s1, s2}
  Starter = starter
  EventThread = ev
  None = None
  Ops = {"makecall", "answer"}
  MaxEvents = 2
SPECIFICATION FairSpec
INVARIANTS LinkTypeOK EventsAccounted QueueNotShared LinkInductive
PROPERTIES IsEventFeed MisusesAccounted EventsHandled CallsReturn LossNoticed
CHECK_DEADLOCK FALSE
