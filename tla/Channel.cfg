\* Two senders and a try_send meet a receiver and a control thread on a
\* channel of capacity one: the smallest instance in which a buffered value, a
\* waiting sender, a stop callback and close() or request_stop() compete.
SPECIFICATION FairSpec
CONSTANTS
  Sends = {s1, s2}
  Recvs = {r1}
  Cancellable = {s2, r1}
  Ctl = {k1}
  TryValues = {v1}
  Capacity = 1
  MaxCalls = 1
  AllocFails = TRUE
  None = None
INVARIANTS OwnersExact
PROPERTIES  StopCompletes
CHECK_DEADLOCK FALSE
