CONSTANTS
  SeqMod = 1
  JobSteps = 1
  WorkerMayTrap = TRUE
  PollLimit = 1
  AckSpins = 2
  StaleSpins = 1
  Commands = {"RUN_JOB", "STOP", "PANIC"}
  MaxLines = 2
  ResetHook = TRUE
  CoreInReset = TRUE
  ReleaseMayFail = TRUE
  KernelMayTrap = TRUE
  BootCodeStarts8051 = FALSE
SPECIFICATION FairSpec
INVARIANTS TypeOK OnlineMeansBooted WorkerStateHonest TransientFlagsClear EndIsRecorded
PROPERTIES Supervised DownWorkerReplaced JobNeverStuck KernelNeverStuck
CHECK_DEADLOCK FALSE
