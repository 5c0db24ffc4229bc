\* waitForAnswer() against the handler.
SPECIFICATION Spec
CONSTANTS
  j1 = j1
  j2 = j2
  j3 = j3
  Jobs = {j1}
  NoJob = NoJob
  NonceMod = 2
  MaxThreads = 2
  ThreadCounts = {1}
  HardwareConcurrency = 1
  SpawnCanFail = FALSE
  UsesTimer = FALSE
  UsesWait = TRUE
  MaxSeq = 1
  Winning <- MCWinning
INVARIANT AnswerImpliesHandled
