CONSTANTS
  Session = {s1}
  Caller = {c1, c2}
  Listener = ev
  Node = {n1, n2}
  Dn = {d1, d2}
  Channel = {}
  None = None
  Begin = Begin
  Dangling = Dangling
  Ops = {"login", "notReady"}
SPECIFICATION FairSpec
PROPERTY CallerServed
CHECK_DEADLOCK FALSE
