CONSTANTS
  SeqMod = 1
  BootMod = 3
  LoaderClears = FALSE
  MayTrap = TRUE
  RunStages = {7}
  RunReasons = {"NO_ACK"}
  RunFlags = {{"KERNEL_ACTIVE"}}
  MaxResets = 3
SPECIFICATION Spec
INVARIANTS TypeOK PreviousRunShown RunsNumbered HandoffAsAssumed
CHECK_DEADLOCK FALSE
