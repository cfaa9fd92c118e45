CONSTANTS
  once = once
  again = again
  other = other
  c1 = c1
  c2 = c2
  Items = {once, again, other}
  Kick = Kick
  None = None
  Clients = {c1, c2}
  Dispatch = Dispatch
  kWaitCount = 2
  Interval <- MCInterval
  Dues <- MCDues
  MaxLag = 1
  CallbackOps = {"self", "selfAgain", "other"}
SYMMETRY MCSymmetry
SPECIFICATION Spec
CHECK_DEADLOCK FALSE
INVARIANTS
  TypeOK
  NoCallbackAfterDisarm
  ItemsAreTracked
PROPERTIES
  PromiseSpec
