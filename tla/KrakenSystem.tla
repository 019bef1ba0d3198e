---------------------------- MODULE KrakenSystem ----------------------------
(***************************************************************************)
(* The running system: kernel, worker and 8051 watchdog around the shared  *)
(* control page, from the bootloader's jump to the kernel to the end of    *)
(* the boot (a panic loop or a watchdog reset).  One step is one step of   *)
(* one processor; nothing orders the three.                                *)
(***************************************************************************)
EXTENDS Kernel

(* The kernel releases the 8051 in ensure_watchdog_started; watchdog.c also *)
(* allows for "AP-side boot code" that has done so before the kernel runs.  *)
CONSTANT BootCodeStarts8051

ASSUME SystemAssumption == BootCodeStarts8051 \in BOOLEAN

vars == <<ctl, k, w, d, image, core>>

Init ==
  /\ image \in ImageType
  /\ ctl = CtlHandoff(image = "present")
  /\ k = KernelAtEntry
  /\ w = HeldWorker
  /\ d = WatchdogAt(IF BootCodeStarts8051 THEN "boot" ELSE "off")
  /\ core = [enabled |-> FALSE, in_reset |-> CoreInReset]

WorkerRuns   == WorkerStep   /\ UNCHANGED <<k, d, image, core>>
WorkerTraps  == WorkerTrap   /\ UNCHANGED <<k, d, image, core>>
WatchdogRuns == WatchdogStep /\ UNCHANGED <<k, w, image, core>>

Next == KernelStep \/ KernelTrap \/ WorkerRuns \/ WorkerTraps \/ WatchdogRuns

Spec == Init /\ [][Next]_vars

(* Each processor executes its next instruction eventually; nothing makes   *)
(* an exception happen.                                                     *)
Fairness == WF_vars(KernelStep) /\ WF_vars(WorkerRuns) /\ WF_vars(WatchdogRuns)

FairSpec == Spec /\ Fairness

-----------------------------------------------------------------------------
TypeOK == /\ ctl \in CtlType     /\ k \in KernelType   /\ w \in WorkerType
          /\ d \in WatchdogType  /\ image \in ImageType /\ core \in CoreType

(* Between wait_for_worker_ack's success and the next boot_worker the       *)
(* kernel treats the worker as online.  (In restart_worker that ends where  *)
(* boot_worker clears the acknowledgement.)                                 *)
Online == \/ Loc \in SupervisorPcs \cup {"watchdog", "restart_stale"}
          \/ Loc \in {"prep", "announce"} /\ k.restart

KernelEnded == k.pc \in FinalPcs

(* The kernel never supervises a worker that has not booted: while it is    *)
(* online, the acknowledgement it accepted was written by the worker core   *)
(* that is running now, not by the one before the reset pulse.              *)
OnlineMeansBooted == Online => ctl.worker_boot_ack /\ w.acked

(* worker_state tells the truth about the worker core: RUNNING while the    *)
(* job loop runs, FAULT once the trap handler has reported, OFFLINE once    *)
(* CMD_STOP has been obeyed.                                                *)
HonestState ==
  /\ w.pc = "job" \/ (w.pc = "ack" /\ w.next = "job") => ctl.worker_state = "RUNNING"
  /\ w.pc \in {"trap_stage", "dead"} => ctl.worker_state = "FAULT"
  /\ w.pc = "stopped" \/ (w.pc = "ack" /\ w.next = "stopped") => ctl.worker_state = "OFFLINE"

(* The supervisor and the 8051 act on worker_state, which the kernel also   *)
(* writes (CORE_BOOTING) while the old worker core is still running: at     *)
(* every point of the supervisor loop it tells the truth.                   *)
WorkerStateHonest == Loc \in SupervisorPcs => HonestState

(* Three processors rewrite system_flags without a lock, yet none of the    *)
(* lost or resurrected bits ever forges SYSF_WATCHDOG_TIMEOUT: the kernel   *)
(* only asks for a watchdog reset after the 8051 has signalled.             *)
ResetOnlyOnWatchdog ==
  "WATCHDOG_TIMEOUT" \in ctl.system_flags \/ k.pc = "reset" => d.pc = "spin"

(* "Clear transient restart/stale flags so the supervisor loop does not act *)
(* on stale flag state" (wait_for_worker_ack): in the supervisor loop the   *)
(* two flags are clear, unless a processor that died in the meantime (the   *)
(* worker in its trap handler, the 8051 after its signal) stored back the   *)
(* word it had loaded before.                                               *)
TransientFlagsClear ==
  /\ k.pc \in SupervisorPcs
  /\ {"WORKER_RESTARTING", "WORKER_STALE"} \cap ctl.system_flags # {}
  => w.pc \in {"trap_state", "trap_stage", "dead"} \/ d.pc = "spin"

(* A kernel that has given up has left its record on the page for the next  *)
(* boot's summary: STAGE_PANIC, and a reset_reason.                         *)
EndIsRecorded ==
  KernelEnded => ctl.system_stage = STAGE_PANIC /\ ctl.reset_reason # "NO_REASON"

(* The promise of SupervisedWorker, where a worker counts as booted when    *)
(* the page says so and the core that runs has really said it.              *)
Phase == IF Loc \in PanicPcs THEN "halted" ELSE IF Online THEN "online" ELSE "booting"

Abstract == INSTANCE SupervisedWorker
              WITH phase <- Phase, booted <- ctl.worker_boot_ack /\ w.acked

Supervised == Abstract!Spec

-----------------------------------------------------------------------------
(* Liveness, under FairSpec.                                                *)

(* A worker core that runs no more (CMD_STOP, a trap) does not stay so: the *)
(* supervisor resets it or, failing that, panics.                           *)
DownWorkerReplaced == Down ~> ~Down \/ KernelEnded

(* A console "run" is not left pending for ever.                            *)
JobNeverStuck == ctl.worker_cmd = "RUN_JOB" ~> ctl.worker_cmd # "RUN_JOB" \/ KernelEnded

(* No wait of the kernel's is unbounded: it always comes back to the top of *)
(* the supervisor loop, or ends.                                            *)
KernelNeverStuck == []<>(k.pc = "loop" \/ KernelEnded)

(* The worker retires a command by overwriting worker_cmd with CMD_NONE:    *)
(* it never retires one it has not read.                                    *)
RetiresOnlySeen ==
  [][ctl'.worker_cmd = "NONE" => ctl.worker_cmd \in {"NONE", w.seen}]_vars
=============================================================================
