SPECIFICATION Spec
CONSTANTS
  Workers = {w1, w2}
  Tasks = {t1, t2, t3}
  Ops = {o1, o2}
  Runners = {r1, r2}
  Ctl = {k1}
  Nodes = {n1, n2}
  Waiters = {x1}
  None = None
PROPERTIES PoolDrains StrandIsSerial ScopeIsBarrier TimersSettle EpollSettles LoopExecutes
CHECK_DEADLOCK FALSE
