CONSTANTS
  SeqMod = 1
  JobSteps = 1
  WorkerMayTrap = FALSE
  PollLimit = 1
  AckSpins = 1
  StaleSpins = 0
  Commands = {"RUN_JOB", "PANIC"}
  MaxLines = 1
  ResetHook = TRUE
  CoreInReset = TRUE
  ReleaseMayFail = FALSE
  KernelMayTrap = FALSE
  BootCodeStarts8051 = TRUE
SPECIFICATION Spec
INVARIANTS TypeOK ResetOnlyOnWatchdog
CHECK_DEADLOCK FALSE
