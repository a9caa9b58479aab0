CONSTANTS
  MessageRequests = {m1, m2}
  SyncRequests = {s1}
  Mentions = {m2}
  None = None
  Torn = Torn
  MaxOthers = 1
SPECIFICATION Spec
INVARIANTS AnsweredAtMostOnce RequestsHandled SyncsAreAskedFor
CHECK_DEADLOCK FALSE
