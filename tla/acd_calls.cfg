CONSTANTS
  Session = {s1}
  Caller = {c1}
  Listener = ev
  Node = {n1, n2}
  Dn = {d1, d2}
  Channel = {k1}
  None = None
  Begin = Begin
  Dangling = Dangling
  Ops = {"login", "logout", "notReady"}
SPECIFICATION Spec
SYMMETRY Symmetry
INVARIANT TypeOK
PROPERTIES NoAgentMissed ClaimIsDue TurnsComeBack
CHECK_DEADLOCK FALSE
