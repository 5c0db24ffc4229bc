\* All objects come from one pool.
SPECIFICATION Spec
CONSTANTS
  t1 = t1
  t2 = t2
  t3 = t3
  minerPool = minerPool
  Threads = {t1, t2, t3}
  Pools = {minerPool}
  NoPool = NoPool
  PoolOf <- AllMine
  FastMayFail = TRUE
  BasicMayFail = TRUE
INVARIANTS
  TypeOK
  HashFnIsSet
