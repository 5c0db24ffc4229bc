\* At most two pushes of a release run out of memory.
SPECIFICATION FairSpec
CONSTANTS
  Holders = {h1, h2}
  Instances = {i1, i2}
  NoInstance = NoInstance
  FactoryMayThrow = FALSE
  MaxFailures = 2
PROPERTY ReleaseReturns
