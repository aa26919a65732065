CONSTANTS
  Session = {s1, s2}
  Starter = starter
  EventThread = ev
  None = None
  Ops = {"makecall"}
  MaxEvents = 1
SPECIFICATION Spec
SYMMETRY Symmetry
INVARIANT RepliesLive
CHECK_DEADLOCK FALSE
