CONSTANTS
  Session = {s1, s2}
  Client = {d1}
  Dn = {d1, d0}
  Empty = d0
  None = None
  Ops = {"login", "logout", "leave", "makecall"}
SPECIFICATION RestFairSpec
INVARIANTS RestTypeOK LastAnswerHolds UnknownOnlyAfterGivingUp RestInductive
PROPERTY EveryRequestEnds
CHECK_DEADLOCK FALSE
