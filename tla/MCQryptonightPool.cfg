\* Three holders, as many instances as they can use; no push fails.
SPECIFICATION FairSpec
CONSTANTS
  Holders = {h1, h2, h3}
  Instances = {i1, i2, i3}
  NoInstance = NoInstance
  FactoryMayThrow = TRUE
  MaxFailures = 0
INVARIANTS
  TypeOK
  OneUser
  DeletedIsUnreachable
  NoneLost
  PoolOutlivesCalls
PROPERTIES
  PromiseKept
  AcquireReturns
