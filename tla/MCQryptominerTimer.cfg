\* One work item, with or without a solution: two workers share four nonces out, of
\* which only the last one passes, the second of its worker, or none; the timer, the end.
SPECIFICATION FairSpec
CONSTANTS
  j1 = j1
  j2 = j2
  j3 = j3
  Jobs = {j2, j3}
  NoJob = NoJob
  NonceMod = 4
  MaxThreads = 2
  ThreadCounts = {2}
  HardwareConcurrency = 1
  SpawnCanFail = TRUE
  UsesTimer = TRUE
  UsesWait = FALSE
  MaxSeq = 1
  Winning <- MCWinning
INVARIANTS
  NotifiedOnce
  DeadlineReadIsArmed
PROPERTIES
  DeadlineStopsWorkers
  DestructorReturns
  SearchEnds
