CONSTANTS
  Session = {s1, s2}
  Caller = {}
  Listener = ev
  Node = {n1, n2, n3}
  Dn = {d1, d2}
  Channel = {}
  None = None
  Begin = Begin
  Dangling = Dangling
  Ops = {"login", "logout", "ready", "leave"}
SPECIFICATION Spec
SYMMETRY Symmetry
INVARIANTS UniqueDn UniqueDnInductive
PROPERTY IsDirectory
CHECK_DEADLOCK FALSE
