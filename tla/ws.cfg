CONSTANTS
  Session = {s1}
  Conn = {k1, k2}
  MaxMessages = 2
SPECIFICATION FairSpec
INVARIANTS WsTypeOK WsInductive
PROPERTIES BroadcastReaches Accepted MessagesRead
CHECK_DEADLOCK FALSE
