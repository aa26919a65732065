CONSTANTS
  Session = {s1, s2}
  Client = {d1}
  Dn = {d1, d0}
  Empty = d0
  None = None
  Ops = {"login", "logout", "ready", "notReady", "leave", "makecall"}
SPECIFICATION RestSpec
INVARIANT NamelessRefused
CHECK_DEADLOCK FALSE
