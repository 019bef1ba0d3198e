------------------------------- MODULE Kernel -------------------------------
(***************************************************************************)
(* kernel/main.c on the first C906, from kernel_main to the supervisor     *)
(* loop, with the calls it makes into shared/worker_release.c,             *)
(* shared/worker_reset_sg200x.c, shared/platform.c and shared/trap.c.      *)
(* The kernel starts and resets the other two processors, so its actions   *)
(* also change the worker core (w), the 8051 (d) and the reset and enable  *)
(* lines of the worker core (core).                                        *)
(***************************************************************************)
EXTENDS WorkerRtos, Watchdog8051

CONSTANTS
  AckSpins,        \* WORKER_ACK_SPINS: polls of the boot acknowledgement
  StaleSpins,      \* WORKER_STALE_SPINS: quiet heartbeat samples tolerated
  Commands,        \* console lines that reach the worker: run, panic, stop
  MaxLines,        \* bound on the console lines that arrive in a behaviour
  ResetHook,       \* KRAKEN_ENABLE_WORKER_RESET_HOOK
  CoreInReset,     \* is the worker's CPUSYS2 reset asserted at power-on?
  ReleaseMayFail,  \* may a register write of the release path not latch?
  KernelMayTrap    \* may an exception hit the kernel's core?

ASSUME KernelAssumption ==
  /\ AckSpins \in Nat \ {0} /\ StaleSpins \in Nat /\ MaxLines \in Nat
  /\ Commands \subseteq {"RUN_JOB", "PANIC", "STOP"}
  /\ {ResetHook, CoreInReset, ReleaseMayFail, KernelMayTrap} \subseteq BOOLEAN

VARIABLES
  k,      \* the kernel's own state
  image,  \* the worker image: "present" at WORKER_LOAD_ADDR, "staged", "absent"
  core    \* the worker core's clock enable (C906L_CTRL_EN) and reset lines

(* pc       where the kernel stands                                         *)
(* next     where a read-modify-write of system_flags continues             *)
(* reg      its operand at "or_load", its loaded value at "store"           *)
(* spins    polls made by wait_for_worker_ack                               *)
(* stale    stale in kernel_main                                            *)
(* lines    console lines consumed                                          *)
(* restart  is boot_worker running inside restart_worker?                   *)
BootPcs       == {"entry", "active", "prep", "announce", "cmd_boot", "cmd_seq", "enable",
                  "assert_reset", "deassert_reset", "wait", "watchdog"}
SupervisorPcs == {"loop", "console", "console_seq", "sample", "judge"}
FinalPcs      == {"halted", "reset"}
PanicPcs      == {"panic_stage", "reset_stage"} \cup FinalPcs
RmwPcs        == {"or_load", "store"}
PlainPcs      == {"restart_stale"} \cup BootPcs \cup SupervisorPcs \cup PanicPcs
KernelType ==
  [ pc : RmwPcs \cup PlainPcs, next : PlainPcs, reg : SUBSET SysFlags, spins : 0 .. AckSpins,
    stale : 0 .. StaleSpins + 1, lines : 0 .. MaxLines, restart : BOOLEAN ]
ImageType == {"present", "staged", "absent"}
CoreType  == [ enabled : BOOLEAN, in_reset : BOOLEAN ]

kernelVars == <<ctl, k, w, d, image, core>>

KernelAtEntry == [ pc |-> "entry", next |-> "entry", reg |-> {}, spins |-> 0,
                   stale |-> 0, lines |-> 0, restart |-> FALSE ]

(* The program point the kernel is at, a read-modify-write of system_flags  *)
(* in progress counting as the point it leads to.                           *)
Loc == IF k.pc \in RmwPcs THEN k.next ELSE k.pc

-----------------------------------------------------------------------------
(* system_flags is shared with the 8051 and the worker, and |= and &= ~ are *)
(* a load and a store with no lock: Modify is the load.                     *)
Modify(flags, next) == k' = [k EXCEPT !.pc = "store", !.reg = flags, !.next = next]

KernelOrLoad ==
  /\ k.pc = "or_load"
  /\ k' = [k EXCEPT !.pc = "store", !.reg = ctl.system_flags \cup k.reg]
  /\ UNCHANGED <<ctl, w, d, image, core>>

KernelStore ==
  /\ k.pc = "store"
  /\ ctl' = [ctl EXCEPT !.system_flags = k.reg]
  /\ k' = [k EXCEPT !.pc = k.next, !.reg = {}, !.next = "entry"]
  /\ UNCHANGED <<w, d, image, core>>

(* kernel_panic: reset_reason, system_flags |= flags, STAGE_PANIC, then a   *)
(* watchdog reset for SYSF_WATCHDOG_TIMEOUT and the LED loop otherwise.     *)
Panic(page, reason, flag) ==
  /\ ctl' = [page EXCEPT !.reset_reason = reason]
  /\ k' = [k EXCEPT !.pc = "or_load", !.reg = {flag},
                    !.next = IF flag = "WATCHDOG_TIMEOUT" THEN "reset_stage" ELSE "panic_stage"]

KernelPanicSilently ==    \* variant: ends without the stage
  /\ k.pc \in {"panic_stage", "reset_stage"}
  /\ k' = [k EXCEPT !.pc = IF k.pc = "reset_stage" THEN "reset" ELSE "halted"]
  /\ UNCHANGED <<ctl, w, d, image, core>>

KernelPanicStage ==
  /\ k.pc \in {"panic_stage", "reset_stage"}
  /\ ctl' = [ctl EXCEPT !.system_stage = STAGE_PANIC]
  /\ k' = [k EXCEPT !.pc = IF k.pc = "reset_stage" THEN "reset" ELSE "halted"]
  /\ UNCHANGED <<w, d, image, core>>

(* kraken_trap_panic on this core.                                          *)
KernelTrap ==
  /\ KernelMayTrap
  /\ Loc \notin PanicPcs
  /\ ctl' = [ctl EXCEPT !.reset_reason = "TRAP"]
  /\ k' = [k EXCEPT !.pc = "or_load", !.reg = {"RISCV_TRAP"}, !.next = "panic_stage"]
  /\ UNCHANGED <<w, d, image, core>>

-----------------------------------------------------------------------------
(* boot_worker                                                              *)

KernelEntry ==
  /\ k.pc = "entry"
  /\ Modify(ctl.system_flags \ {"BOOTLOADER_ACTIVE"}, "active")
  /\ UNCHANGED <<ctl, w, d, image, core>>

KernelActive ==
  /\ k.pc = "active"
  /\ k' = [k EXCEPT !.pc = "or_load", !.reg = {"KERNEL_ACTIVE"}, !.next = "prep"]
  /\ UNCHANGED <<ctl, w, d, image, core>>

(* maybe_stage_worker and the check of the image it leaves.                 *)
KernelImagePresent ==
  /\ k.pc = "prep"
  /\ image = "present"
  /\ ctl' = [ctl EXCEPT !.system_stage = STAGE_WORKER_PREP]
  /\ k' = [k EXCEPT !.pc = "announce"]
  /\ UNCHANGED <<w, d, image, core>>

KernelStageImage ==
  /\ k.pc = "prep"
  /\ image = "staged"
  /\ image' = "present"
  /\ ctl' = [ctl EXCEPT !.system_stage = STAGE_WORKER_PREP]
  /\ Modify(ctl.system_flags \ {"WORKER_IMAGE_MISSING"}, "announce")
  /\ UNCHANGED <<w, d, core>>

KernelNoImage ==
  /\ k.pc = "prep"
  /\ image = "absent"
  /\ Panic([ctl EXCEPT !.system_stage = STAGE_WORKER_PREP,
                       !.platform_errors = @ \cup {"STAGING_INVALID"}],
           "IMAGE_MISSING", "WORKER_IMAGE_MISSING")
  /\ UNCHANGED <<w, d, image, core>>

KernelAnnounceKeepingAck ==   \* variant: leaves the old acknowledgement
  /\ k.pc = "announce"
  /\ ctl' = [ctl EXCEPT !.worker_state = "BOOTING"]
  /\ k' = [k EXCEPT !.pc = "cmd_boot"]
  /\ UNCHANGED <<w, d, image, core>>

KernelAnnounce ==
  /\ k.pc = "announce"
  /\ ctl' = [ctl EXCEPT !.worker_state = "BOOTING", !.worker_boot_ack = FALSE]
  /\ k' = [k EXCEPT !.pc = "cmd_boot"]
  /\ UNCHANGED <<w, d, image, core>>

(* send_worker_cmd: the command word, then the sequence number.             *)
KernelCmdBoot ==
  /\ k.pc = "cmd_boot"
  /\ ctl' = [ctl EXCEPT !.worker_cmd = "BOOT"]
  /\ k' = [k EXCEPT !.pc = "cmd_seq"]
  /\ UNCHANGED <<w, d, image, core>>

KernelCmdSeq ==
  /\ k.pc = "cmd_seq"
  /\ ctl' = [ctl EXCEPT !.kernel_cmd_seq = NextSeq(@), !.system_stage = STAGE_WORKER_RELEASE]
  /\ k' = [k EXCEPT !.pc = "enable"]
  /\ UNCHANGED <<w, d, image, core>>

(* The worker core runs from its entry point once it is enabled and out of  *)
(* reset, and stands still in reset.                                        *)
Power(enabled, inReset) ==
  /\ core' = [enabled |-> enabled, in_reset |-> inReset]
  /\ w' = CASE inReset                                      -> HeldWorker
            [] enabled /\ ~inReset /\ w.pc = "off"          -> StartedWorker
            [] OTHER                                        -> w

Released ==
  /\ ctl' = [ctl EXCEPT !.platform_errors = @ \ {"RELEASE_FAILED"},
                        !.system_stage = STAGE_WORKER_WAIT_ACK]
  /\ k' = [k EXCEPT !.pc = "wait", !.spins = 0]

(* sg2002_release_worker_core: the enable bit, then the hook's reset pulse. *)
KernelEnable ==
  /\ k.pc = "enable"
  /\ Power(TRUE, core.in_reset)
  /\ IF ResetHook THEN k' = [k EXCEPT !.pc = "assert_reset"] /\ UNCHANGED ctl
                  ELSE Released
  /\ UNCHANGED <<d, image>>

KernelAssertReset ==
  /\ k.pc = "assert_reset"
  /\ Power(core.enabled, TRUE)
  /\ k' = [k EXCEPT !.pc = "deassert_reset"]
  /\ UNCHANGED <<ctl, d, image>>

KernelDeassertReset ==
  /\ k.pc = "deassert_reset"
  /\ Power(core.enabled, FALSE)
  /\ Released
  /\ UNCHANGED <<d, image>>

(* Each write is read back; one that did not latch ends in kernel_panic.    *)
KernelReleaseFails ==
  /\ ReleaseMayFail
  /\ k.pc \in {"enable", "assert_reset", "deassert_reset"}
  /\ Panic([ctl EXCEPT !.platform_errors = @ \cup {"RELEASE_FAILED"}],
           "RELEASE", "WORKER_RELEASE_FAIL")
  /\ UNCHANGED <<w, d, image, core>>

-----------------------------------------------------------------------------
(* wait_for_worker_ack                                                      *)

WorkerOnline == ctl.worker_boot_ack /\ ctl.worker_state \in {"IDLE", "RUNNING"}

KernelAckMissingOneMore ==  \* variant: one poll too many
  /\ k.pc = "wait"
  /\ k.spins <= AckSpins
  /\ ~WorkerOnline
  /\ k' = [k EXCEPT !.spins = @ + 1]
  /\ UNCHANGED <<ctl, w, d, image, core>>

KernelAckMissingForever ==  \* variant: polls without counting
  /\ k.pc = "wait"
  /\ k.spins < AckSpins
  /\ ~WorkerOnline
  /\ UNCHANGED kernelVars

KernelAckMissing ==
  /\ k.pc = "wait"
  /\ k.spins < AckSpins
  /\ ~WorkerOnline
  /\ k' = [k EXCEPT !.spins = @ + 1]
  /\ UNCHANGED <<ctl, w, d, image, core>>

KernelAckSeenStillStale ==  \* variant: clears one of the two flags
  /\ k.pc = "wait"
  /\ k.spins < AckSpins
  /\ WorkerOnline
  /\ ctl' = [ctl EXCEPT !.platform_errors = @ \ {"ACK_TIMEOUT"}]
  /\ k' = [k EXCEPT !.pc = "store", !.next = IF k.restart THEN "loop" ELSE "watchdog",
                    !.reg = ctl.system_flags \ {"WORKER_RESTARTING"},
                    !.spins = 0, !.stale = 0, !.restart = FALSE]
  /\ UNCHANGED <<w, d, image, core>>

KernelAckSeen ==
  /\ k.pc = "wait"
  /\ k.spins < AckSpins
  /\ WorkerOnline
  /\ ctl' = [ctl EXCEPT !.platform_errors = @ \ {"ACK_TIMEOUT"}]
  /\ k' = [k EXCEPT !.pc = "store", !.next = IF k.restart THEN "loop" ELSE "watchdog",
                    !.reg = ctl.system_flags \ {"WORKER_RESTARTING", "WORKER_STALE"},
                    !.spins = 0, !.stale = 0, !.restart = FALSE]
  /\ UNCHANGED <<w, d, image, core>>

KernelAckTimeout ==
  /\ k.pc = "wait"
  /\ k.spins = AckSpins
  /\ Panic([ctl EXCEPT !.platform_errors = @ \cup {"ACK_TIMEOUT"}], "NO_ACK", "WORKER_STALE")
  /\ UNCHANGED <<w, d, image, core>>

(* ensure_watchdog_started, which does nothing from STAGE_WATCHDOG_BOOT on, *)
(* and the step to STAGE_OS_RUNNING.                                        *)
EnsureWatchdogStarted ==
  d' = IF ctl.system_stage >= STAGE_WATCHDOG_BOOT THEN d ELSE WatchdogAt("boot")

KernelStartWatchdog ==
  /\ k.pc = "watchdog"
  /\ EnsureWatchdogStarted
  /\ ctl' = [ctl EXCEPT !.system_stage = STAGE_OS_RUNNING]
  /\ k' = [k EXCEPT !.pc = "loop"]
  /\ UNCHANGED <<w, image, core>>

-----------------------------------------------------------------------------
(* The supervisor loop                                                      *)

KernelWatchdogTimeoutByReason ==   \* variant: goes by the reason, not by the flag
  /\ k.pc = "loop"
  /\ ctl.reset_reason \in WatchdogReasons
  /\ Panic(ctl, ctl.reset_reason, "WATCHDOG_TIMEOUT")
  /\ UNCHANGED <<w, d, image, core>>

KernelWatchdogTimeout ==
  /\ k.pc = "loop"
  /\ "WATCHDOG_TIMEOUT" \in ctl.system_flags
  /\ Panic(ctl, IF ctl.reset_reason # "NO_REASON" THEN ctl.reset_reason ELSE "UNEXPLAINED",
           "WATCHDOG_TIMEOUT")
  /\ UNCHANGED <<w, d, image, core>>

KernelPet ==
  /\ k.pc = "loop"
  /\ "WATCHDOG_TIMEOUT" \notin ctl.system_flags
  /\ ctl' = [ctl EXCEPT !.kernel_pet_seq = {"wdog"}]
  /\ k' = [k EXCEPT !.pc = "console"]
  /\ UNCHANGED <<w, d, image, core>>

(* handle_console: any number of lines may have arrived.                    *)
KernelConsoleLine ==
  /\ k.pc = "console"
  /\ k.lines < MaxLines
  /\ \E cmd \in Commands : ctl' = [ctl EXCEPT !.worker_cmd = cmd]
  /\ k' = [k EXCEPT !.pc = "console_seq", !.lines = @ + 1]
  /\ UNCHANGED <<w, d, image, core>>

KernelConsoleSeq ==
  /\ k.pc = "console_seq"
  /\ ctl' = [ctl EXCEPT !.kernel_cmd_seq = NextSeq(@)]
  /\ k' = [k EXCEPT !.pc = "console"]
  /\ UNCHANGED <<w, d, image, core>>

KernelConsoleDone ==
  /\ k.pc = "console"
  /\ k' = [k EXCEPT !.pc = "sample"]
  /\ UNCHANGED <<ctl, w, d, image, core>>

KernelSampleForgetful ==   \* variant: forgets the quiet turns it has counted
  /\ k.pc = "sample"
  /\ ctl' = [ctl EXCEPT !.worker_heartbeat = @ \ {"kernel"}]
  /\ k' = [k EXCEPT !.pc = "judge", !.stale = 0]
  /\ UNCHANGED <<w, d, image, core>>

(* stale counts the turns of the loop whose sample of the heartbeat equals  *)
(* the one before.                                                          *)
KernelSample ==
  /\ k.pc = "sample"
  /\ ctl' = [ctl EXCEPT !.worker_heartbeat = @ \ {"kernel"}]
  /\ k' = [k EXCEPT !.pc = "judge",
                    !.stale = IF "kernel" \in ctl.worker_heartbeat THEN 0 ELSE @ + 1]
  /\ UNCHANGED <<w, d, image, core>>

(* restart_worker as far as its read-modify-write of system_flags.          *)
Restart(reason) ==
  /\ ctl' = [ctl EXCEPT !.reset_reason = reason]
  /\ k' = [k EXCEPT !.pc = "or_load", !.reg = {"WORKER_RESTARTING"}, !.next = "prep",
                    !.restart = TRUE]

KernelJudgeFault ==
  /\ k.pc = "judge"
  /\ ctl.worker_state = "FAULT"
  /\ Restart("WORKER_FAULT")
  /\ UNCHANGED <<w, d, image, core>>

KernelJudgeStale ==
  /\ k.pc = "judge"
  /\ ctl.worker_state # "FAULT"
  /\ k.stale > StaleSpins
  /\ ctl' = [ctl EXCEPT !.platform_errors = @ \cup {"STALE"}]
  /\ Modify(ctl.system_flags \cup {"WORKER_STALE"}, "restart_stale")
  /\ UNCHANGED <<w, d, image, core>>

KernelRestartStale ==
  /\ k.pc = "restart_stale"
  /\ Restart("WORKER_STALL")
  /\ UNCHANGED <<w, d, image, core>>

KernelJudgeHealthy ==
  /\ k.pc = "judge"
  /\ ctl.worker_state # "FAULT"
  /\ k.stale <= StaleSpins
  /\ ctl' = IF k.stale = 0 THEN [ctl EXCEPT !.platform_errors = @ \ {"STALE"}] ELSE ctl
  /\ k' = [k EXCEPT !.pc = "loop"]
  /\ UNCHANGED <<w, d, image, core>>

KernelBoots ==
  \/ KernelEntry     \/ KernelActive
  \/ KernelImagePresent \/ KernelStageImage \/ KernelNoImage
  \/ KernelAnnounce  \/ KernelCmdBoot      \/ KernelCmdSeq      \/ KernelEnable
  \/ KernelAssertReset \/ KernelDeassertReset \/ KernelReleaseFails
  \/ KernelAckMissing  \/ KernelAckSeen    \/ KernelAckTimeout  \/ KernelStartWatchdog

KernelSupervises ==
  \/ KernelWatchdogTimeout \/ KernelPet        \/ KernelConsoleLine  \/ KernelConsoleSeq
  \/ KernelConsoleDone     \/ KernelSample     \/ KernelJudgeFault   \/ KernelJudgeStale
  \/ KernelRestartStale    \/ KernelJudgeHealthy

KernelStep ==
  \/ KernelOrLoad \/ KernelStore \/ KernelPanicStage \/ KernelBoots \/ KernelSupervises

=============================================================================
