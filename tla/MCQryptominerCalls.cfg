\* Cancellation and notification, by client and handler, one worker.
SPECIFICATION FairSpec
CONSTANTS
  j1 = j1
  j2 = j2
  j3 = j3
  Jobs = {j1, j3}
  NoJob = NoJob
  NonceMod = 2
  MaxThreads = 1
  ThreadCounts = {1}
  HardwareConcurrency = 1
  SpawnCanFail = FALSE
  UsesTimer = FALSE
  UsesWait = TRUE
  MaxSeq = 2
  Winning <- MCWinning
PROPERTIES
  CancelReturns
  SolutionIsNotified
