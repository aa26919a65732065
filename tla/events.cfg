CONSTANTS
  Session = {s1}
  Caller = {}
  Listener = ev
  Node = {n1, n2}
  Dn = {d1, d2}
  Channel = {k1, k2}
  None = None
  Begin = Begin
  Dangling = Dangling
  Ops = {"login", "logout", "leave", "makecall"}
SPECIFICATION Spec
SYMMETRY Symmetry
INVARIANTS UuidIsLive EventInductive
PROPERTY UuidKept
CHECK_DEADLOCK FALSE
