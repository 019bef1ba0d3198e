CONSTANTS
  SeqMod = 1
  BootMod = 3
  LoaderClears = TRUE
  MayTrap = FALSE
  RunStages = {7}
  RunReasons = {"NO_ACK"}
  RunFlags = {{"KERNEL_ACTIVE"}}
  MaxResets = 1
SPECIFICATION Spec
INVARIANT PreviousRunShown
CHECK_DEADLOCK FALSE
