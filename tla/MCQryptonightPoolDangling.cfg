\* A push that runs out of memory once.
SPECIFICATION Spec
CONSTANTS
  Holders = {h1, h2}
  Instances = {i1, i2}
  NoInstance = NoInstance
  FactoryMayThrow = FALSE
  MaxFailures = 1
INVARIANT DeletedIsUnreachable
