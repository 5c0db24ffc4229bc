\* A thread constructs an object of its own beside the miners.
SPECIFICATION Spec
CONSTANTS
  t1 = t1
  t2 = t2
  t3 = t3
  minerPool = minerPool
  Threads = {t1, t2, t3}
  Pools = {minerPool}
  NoPool = NoPool
  PoolOf <- OneDirect
  FastMayFail = TRUE
  BasicMayFail = TRUE
INVARIANTS
  HashFnIsSet
