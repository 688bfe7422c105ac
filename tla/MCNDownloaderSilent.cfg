CONSTANTS
  c1 = c1
  e1 = e1
  e2 = e2
  Clients = {c1}
  Entries = {e1, e2}
  Requests <- MCRequests
  Replies <- MCReplies
  MaxHandle = 1
  MaxInits = 2
SPECIFICATION Spec
INVARIANT SomethingWasReceived
CHECK_DEADLOCK FALSE
