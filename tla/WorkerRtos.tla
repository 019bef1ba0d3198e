----------------------------- MODULE WorkerRtos -----------------------------
(***************************************************************************)
(* worker_rtos/main.c on the second C906: boot acknowledgement, command    *)
(* loop, the demo job, and the trap handler (shared/trap.c) as it runs on  *)
(* this core.  The worker shares the page with the kernel and takes no     *)
(* lock, so every access the kernel can race with is a step of its own.    *)
(***************************************************************************)
EXTENDS SharedCtrl

CONSTANTS JobSteps,      \* iterations of run_demo_job, 50000 in the code
          WorkerMayTrap  \* may an exception hit the worker core?

ASSUME WorkerAssumption == JobSteps \in Nat \ {0} /\ WorkerMayTrap \in BOOLEAN

VARIABLE w               \* the worker core's own state

(* pc    where the core stands; "off" is held in reset or never enabled     *)
(* next  where WorkerAck returns to                                         *)
(* seen  the last worker_cmd value the core read                            *)
(* reg   system_flags between the load and the store of the trap handler    *)
(* step  loop counter of run_demo_job                                       *)
(* acked history: has the core, since it last left reset, written its boot  *)
(*       acknowledgement?                                                   *)
RunningPcs == {"start", "idle", "loop", "boot", "job_begin", "job", "fault", "stop",
               "ack", "clear"}
TrapPcs    == {"trap_flags", "trap_store", "trap_state", "trap_stage"}
WorkerPcs  == {"off", "stopped", "dead"} \cup RunningPcs \cup TrapPcs
ReturnPcs  == {"loop", "clear", "job", "stopped"}
WorkerType == [ pc : WorkerPcs, next : ReturnPcs, seen : Cmds,
                reg : SUBSET SysFlags, step : 0 .. JobSteps, acked : BOOLEAN ]

HeldWorker    == [ pc |-> "off", next |-> "loop", seen |-> "NONE", reg |-> {}, step |-> 0,
                   acked |-> FALSE ]
StartedWorker == [ HeldWorker EXCEPT !.pc = "start" ]

(* A core that executes nothing more until it is reset.                     *)
Down == w.pc \in {"stopped", "dead"}

-----------------------------------------------------------------------------
(* worker_main up to its loop: acknowledge the boot, report idle, take over *)
(* the current command sequence number.                                     *)
WorkerStart ==
  /\ w.pc = "start"
  /\ ctl' = [ctl EXCEPT !.worker_boot_ack = TRUE]
  /\ w' = [w EXCEPT !.pc = "idle", !.acked = TRUE]

WorkerIdle ==
  /\ w.pc = "idle"
  /\ ctl' = [ctl EXCEPT !.worker_state = "IDLE"]
  /\ w' = [w EXCEPT !.pc = "ack", !.next = "loop"]

(* Every handler acknowledges the sequence number that is current when it   *)
(* gets there, not the one its command came with.                           *)
WorkerAck ==
  /\ w.pc = "ack"
  /\ ctl' = [ctl EXCEPT !.worker_cmd_ack = ctl.kernel_cmd_seq]
  /\ w' = [w EXCEPT !.pc = w.next]

(* One turn of the loop: heartbeat, then the switch on worker_cmd.          *)
Handler(cmd) == CASE cmd = "NONE"    -> "loop"
                  [] cmd = "BOOT"    -> "boot"
                  [] cmd = "RUN_JOB" -> "job_begin"
                  [] cmd = "STOP"    -> "stop"
                  [] OTHER           -> "fault"

WorkerDispatch ==
  /\ w.pc = "loop"
  /\ ctl' = [ctl EXCEPT !.worker_heartbeat = Readers]
  /\ w' = [w EXCEPT !.pc = Handler(ctl.worker_cmd), !.seen = ctl.worker_cmd]

(* CMD_BOOT: idle, acknowledge, retire the command.                         *)
WorkerBoot ==
  /\ w.pc = "boot"
  /\ ctl' = [ctl EXCEPT !.worker_state = "IDLE"]
  /\ w' = [w EXCEPT !.pc = "ack", !.next = "clear"]

WorkerClear ==
  /\ w.pc = "clear"
  /\ ctl' = [ctl EXCEPT !.worker_cmd = "NONE"]
  /\ w' = [w EXCEPT !.pc = "loop"]

(* CMD_RUN_JOB: run_demo_job polls worker_cmd every iteration and treats    *)
(* CMD_STOP like CMD_CANCEL.                                                *)
WorkerJobBegin ==
  /\ w.pc = "job_begin"
  /\ ctl' = [ctl EXCEPT !.worker_state = "RUNNING"]
  /\ w' = [w EXCEPT !.pc = "job", !.step = 0]

WorkerJobStep ==
  /\ w.pc = "job"
  /\ w.step < JobSteps
  /\ ctl.worker_cmd # "STOP"
  /\ ctl' = [ctl EXCEPT !.worker_heartbeat = Readers]
  /\ w' = [w EXCEPT !.pc = "ack", !.next = "job", !.step = @ + 1, !.seen = ctl.worker_cmd]

WorkerJobCancel ==
  /\ w.pc = "job"
  /\ w.step < JobSteps
  /\ ctl.worker_cmd = "STOP"
  /\ ctl' = [ctl EXCEPT !.worker_state = "IDLE"]
  /\ w' = [w EXCEPT !.pc = "ack", !.next = "clear", !.seen = "STOP"]

WorkerJobDoneKept ==   \* variant: keeps the command
  /\ w.pc = "job"
  /\ w.step = JobSteps
  /\ ctl' = [ctl EXCEPT !.worker_state = "IDLE"]
  /\ w' = [w EXCEPT !.pc = "ack", !.next = "loop"]

WorkerJobDone ==
  /\ w.pc = "job"
  /\ w.step = JobSteps
  /\ ctl' = [ctl EXCEPT !.worker_state = "IDLE"]
  /\ w' = [w EXCEPT !.pc = "ack", !.next = "clear"]

(* CMD_PANIC and unknown commands: report the fault; the command stays, so  *)
(* the next turn of the loop reports it again.                              *)
WorkerFault ==
  /\ w.pc = "fault"
  /\ ctl' = [ctl EXCEPT !.worker_state = "FAULT"]
  /\ w' = [w EXCEPT !.pc = "ack", !.next = "loop"]

WorkerStopQuietly ==   \* variant: does not report CORE_OFFLINE
  /\ w.pc = "stop"
  /\ w' = [w EXCEPT !.pc = "ack", !.next = "stopped"]
  /\ UNCHANGED ctl

(* CMD_STOP: go offline, acknowledge, spin for ever.                        *)
WorkerStop ==
  /\ w.pc = "stop"
  /\ ctl' = [ctl EXCEPT !.worker_state = "OFFLINE"]
  /\ w' = [w EXCEPT !.pc = "ack", !.next = "stopped"]

(* kraken_trap_panic on this core: reason, system_flags |= RISCV_TRAP (a    *)
(* load and a store), CORE_FAULT, STAGE_PANIC, then the LED loop.           *)
WorkerTrap ==
  /\ WorkerMayTrap
  /\ w.pc \in RunningPcs
  /\ ctl' = [ctl EXCEPT !.reset_reason = "TRAP"]
  /\ w' = [w EXCEPT !.pc = "trap_flags"]

WorkerTrapFlags ==
  /\ w.pc = "trap_flags"
  /\ w' = [w EXCEPT !.pc = "trap_store", !.reg = ctl.system_flags \cup {"RISCV_TRAP"}]
  /\ UNCHANGED ctl

WorkerTrapStore ==
  /\ w.pc = "trap_store"
  /\ ctl' = [ctl EXCEPT !.system_flags = w.reg]
  /\ w' = [w EXCEPT !.pc = "trap_state"]

WorkerTrapState ==
  /\ w.pc = "trap_state"
  /\ ctl' = [ctl EXCEPT !.worker_state = "FAULT"]
  /\ w' = [w EXCEPT !.pc = "trap_stage"]

WorkerTrapStage ==
  /\ w.pc = "trap_stage"
  /\ ctl' = [ctl EXCEPT !.system_stage = STAGE_PANIC]
  /\ w' = [w EXCEPT !.pc = "dead"]

WorkerStep ==
  \/ WorkerStart    \/ WorkerIdle    \/ WorkerAck       \/ WorkerDispatch
  \/ WorkerBoot     \/ WorkerClear   \/ WorkerJobBegin  \/ WorkerJobStep
  \/ WorkerJobCancel \/ WorkerJobDone \/ WorkerFault    \/ WorkerStop
  \/ WorkerTrapFlags \/ WorkerTrapStore \/ WorkerTrapState \/ WorkerTrapStage

=============================================================================
