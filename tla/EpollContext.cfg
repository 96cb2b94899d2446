SPECIFICATION Spec
CONSTANTS
  Ops = {o1, o2}
  Fds = {f1}
  FdOf <- OneFd
  KindOf <- BothWays
  Users = {u1}
  Poller = poller
  Waiters = {u1}
  CtlFails = TRUE
  PollFails = TRUE
  DestroysOthers = TRUE
  None = None
INVARIANTS RegistryExact
PROPERTIES CompletesOnce
CHECK_DEADLOCK FALSE
