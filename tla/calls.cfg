CONSTANTS
  Session = {s1, s2}
  Caller = {}
  Listener = ev
  Node = {n1, n2}
  Dn = {d1, d2}
  Channel = {k1}
  None = None
  Begin = Begin
  Dangling = Dangling
  Ops = {"login", "leave", "makecall"}
SPECIFICATION Spec
SYMMETRY Symmetry
PROPERTY IsDirectory
CHECK_DEADLOCK FALSE
