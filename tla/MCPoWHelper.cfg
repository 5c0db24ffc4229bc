\* Every difficulty and every hash of three digits.
SPECIFICATION Spec
CONSTANTS
  Bytes = 3
  Radix = 4
  Parameters <- MCParameters
  Measurements = {0, 1, 2, 3, 4, 5, 9}
INVARIANTS
  TypeOK
  VerdictMatchesDifficulty
PROPERTY RetargetsTowardsSetPoint
