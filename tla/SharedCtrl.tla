----------------------------- MODULE SharedCtrl -----------------------------
(***************************************************************************)
(* The shared control page (shared_ctrl_t) through which the kernel on the *)
(* main C906, the worker on the second C906 and the 8051 watchdog interact.*)
(* The page is one record, ctl; its fields keep the names of the C struct. *)
(*                                                                         *)
(* Data the control flow never looks at is left out (log rings, USB rings, *)
(* identity words, restart and trap counters).  A free-running 32-bit      *)
(* counter that is only ever compared with a reader's last sample (the     *)
(* heartbeat, the pet sequence) is represented by the set of readers that  *)
(* would find it changed: ++ puts every reader in, a sample takes its      *)
(* reader out.  Flag and error words are sets of bit names.                *)
(***************************************************************************)
EXTENDS Naturals

CONSTANT SeqMod    \* 2^32 in the code: kernel_cmd_seq is a uint32_t that wraps

ASSUME SeqModAssumption == SeqMod \in Nat \ {0}

VARIABLE ctl       \* the page at SHARED_CTRL_ADDR

-----------------------------------------------------------------------------
(* enum system_stage: the numeric order matters to ensure_watchdog_started. *)
STAGE_COLD_RESET      == 0
STAGE_BOOTLOADER      == 1
STAGE_WATCHDOG_BOOT   == 2
STAGE_KERNEL_ENTRY    == 3
STAGE_WORKER_PREP     == 4
STAGE_WORKER_RELEASE  == 5
STAGE_WORKER_WAIT_ACK == 6
STAGE_OS_RUNNING      == 7
STAGE_PANIC           == 8

Stages     == 0 .. 8
CoreStates == {"OFFLINE", "BOOTING", "IDLE", "RUNNING", "FAULT"}
Cmds       == {"NONE", "BOOT", "RUN_JOB", "PANIC", "STOP"}
SysFlags   == {"BOOTLOADER_ACTIVE", "KERNEL_ACTIVE", "WORKER_IMAGE_MISSING",
               "WORKER_STALE", "WORKER_RESTARTING", "RISCV_TRAP",
               "WORKER_RELEASE_FAIL", "WATCHDOG_TIMEOUT", "KERNEL_IMAGE_MISSING"}
PlatErrors == {"STAGING_INVALID", "ACK_TIMEOUT", "STALE", "RELEASE_FAILED"}

(* The words written to reset_reason: 0xB0070001 by the bootloader,         *)
(* 0xC0DE000x by the kernel, 0x8051000x by the 8051, KRAKEN_TRAP_REASON by  *)
(* a trap handler, 0x8051ffff by the kernel when the 8051 signalled without *)
(* a reason.                                                                *)
WatchdogReasons == {"KERNEL_SILENT", "WORKER_SILENT"}
Reasons == {"NO_REASON", "KERNEL_MISSING", "IMAGE_MISSING", "NO_ACK", "WORKER_FAULT",
            "WORKER_STALL", "RELEASE", "TRAP", "UNEXPLAINED"} \cup WatchdogReasons

Readers == {"kernel", "wdog"}

NextSeq(n) == (n + 1) % SeqMod

CtlType ==
  [ system_stage     : Stages,
    system_flags     : SUBSET SysFlags,
    reset_reason     : Reasons,
    worker_state     : CoreStates,
    worker_boot_ack  : BOOLEAN,          \* worker_boot_ack = KRAKEN_MAGIC
    worker_cmd       : Cmds,
    kernel_cmd_seq   : 0 .. SeqMod - 1,
    worker_cmd_ack   : 0 .. SeqMod - 1,
    worker_heartbeat : SUBSET Readers,
    kernel_pet_seq   : SUBSET {"wdog"},
    platform_errors  : SUBSET PlatErrors ]

(* The page after the memset of ctl_init_defaults.                          *)
CtlZero ==
  [ system_stage     |-> STAGE_COLD_RESET,
    system_flags     |-> {},
    reset_reason     |-> "NO_REASON",
    worker_state     |-> "OFFLINE",
    worker_boot_ack  |-> FALSE,
    worker_cmd       |-> "NONE",
    kernel_cmd_seq   |-> 0,
    worker_cmd_ack   |-> 0,
    worker_heartbeat |-> {},
    kernel_pet_seq   |-> {},
    platform_errors  |-> {} ]

(* What bootloader_main leaves for kernel_main.                             *)
CtlHandoff(workerPresent) ==
  [CtlZero EXCEPT !.system_stage = STAGE_KERNEL_ENTRY,
                  !.system_flags = {"BOOTLOADER_ACTIVE"} \cup
                    (IF workerPresent THEN {} ELSE {"WORKER_IMAGE_MISSING"})]

=============================================================================
