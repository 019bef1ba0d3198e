CONSTANTS
  SeqMod = 2
  JobSteps = 1
  WorkerMayTrap = FALSE
  PollLimit = 1
  AckSpins = 2
  StaleSpins = 1
  Commands = {"RUN_JOB"}
  MaxLines = 2
  ResetHook = TRUE
  CoreInReset = TRUE
  ReleaseMayFail = FALSE
  KernelMayTrap = FALSE
  BootCodeStarts8051 = FALSE
SPECIFICATION Spec
CHECK_DEADLOCK FALSE
PROPERTY RetiresOnlySeen
