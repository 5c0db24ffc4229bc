\* Two workers that both find a solution; restarts by the client and the handler.
SPECIFICATION Spec
CONSTANTS
  j1 = j1
  j2 = j2
  j3 = j3
  Jobs = {j1, j2}
  NoJob = NoJob
  NonceMod = 2
  MaxThreads = 2
  ThreadCounts = {0, 2}
  HardwareConcurrency = 1
  SpawnCanFail = FALSE
  UsesTimer = FALSE
  UsesWait = FALSE
  MaxSeq = 2
  Winning <- MCWinning
INVARIANTS
  TypeOK
  WorkersMineCurrentWork
  SolutionSolvesCurrentWork
  SolutionEventMatchesSolution
  StoppedMeansNotRunning
  DestroyedIsQuiet
  NobodyWaitsInVain
  NewWorkIsNotStopped
PROPERTIES
  HandlerNotSuperseded
  SessionKept
