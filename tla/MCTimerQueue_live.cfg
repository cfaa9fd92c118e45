CONSTANTS
  once = once
  again = again
  other = other
  c1 = c1
  c2 = c2
  Items = {once, again}
  Kick = Kick
  None = None
  Clients = {c1, c2}
  Dispatch = Dispatch
  kWaitCount = 3
  Interval <- MCInterval
  Dues <- MCDues
  MaxLag = 1
  CallbackOps = {"queue", "other", "self"}
SPECIFICATION FairSpec
PROPERTIES
  DueTimerRuns
  DisarmTerminates
  DestructorReturns
