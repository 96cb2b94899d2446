\* Three handles: spawned and associated work in every mixture.
SPECIFICATION SpawnFairSpec
CONSTANTS
  Assocs = {a1, a2, a3}
  Joiners = {j1, j2}
  Limit = 2
INVARIANTS IndInv 
PROPERTIES JoinEnds
CHECK_DEADLOCK FALSE
