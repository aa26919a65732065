CONSTANTS
  Session = {s1, s2}
  Starter = starter
  EventThread = ev
  None = None
  Ops = {"makecall", "answer", "hangup"}
  MaxEvents = 1
SPECIFICATION FairSpec
PROPERTY EndpointCommands
CHECK_DEADLOCK FALSE
