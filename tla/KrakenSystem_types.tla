------------------------- MODULE KrakenSystem_types -------------------------
(***************************************************************************)
(* Type correctness of KrakenSystem, for every value of its constants: one *)
(* lemma per processor and one step per action.                            *)
(***************************************************************************)
EXTENDS KrakenSystem, TLAPS

(* The range of stale is not inductive alone: only the judge, which         *)
(* restarts the worker once stale passes the limit, keeps it in bounds.     *)
StaleBounded ==
  Loc \in {"watchdog", "loop", "console", "console_seq", "sample"} => k.stale <= StaleSpins

TypeInv == TypeOK /\ StaleBounded

(* The state the bootloader hands over is well typed.                       *)
LEMMA TypeInit == Init => TypeInv
<1>1. CtlZero \in CtlType
  BY SeqModAssumption
  DEF CtlZero, CtlType, Stages, STAGE_COLD_RESET, CoreStates, Cmds, Reasons
<1>2. \A b \in BOOLEAN : CtlHandoff(b) \in CtlType
  <2> SUFFICES ASSUME NEW b \in BOOLEAN  PROVE CtlHandoff(b) \in CtlType
    OBVIOUS
  <2>1. {"BOOTLOADER_ACTIVE"} \cup (IF b THEN {} ELSE {"WORKER_IMAGE_MISSING"})
          \in SUBSET SysFlags
    BY DEF SysFlags
  <2>2. STAGE_KERNEL_ENTRY \in Stages
    BY DEF Stages, STAGE_KERNEL_ENTRY
  <2>3. QED  BY <1>1, <2>1, <2>2 DEF CtlHandoff, CtlType
<1>3. SUFFICES ASSUME Init  PROVE TypeInv
  OBVIOUS
<1>4. ctl \in CtlType
  <2>1. (image = "present") \in BOOLEAN   OBVIOUS
  <2>2. QED  BY <1>2, <1>3, <2>1 DEF Init
<1>a. /\ image \in ImageType
      /\ k = KernelAtEntry
      /\ w = HeldWorker
      /\ d = WatchdogAt(IF BootCodeStarts8051 THEN "boot" ELSE "off")
      /\ core = [enabled |-> FALSE, in_reset |-> CoreInReset]
  BY <1>3, Zenon DEF Init
<1>5. k \in KernelType /\ StaleBounded
  BY <1>a, SeqModAssumption, KernelAssumption
  DEF StaleBounded, KernelType, KernelAtEntry, Loc, RmwPcs, PlainPcs, BootPcs,
      SupervisorPcs, PanicPcs, FinalPcs
<1>6. w \in WorkerType
  BY <1>a, WorkerAssumption
  DEF Cmds, WorkerType, HeldWorker, WorkerPcs, RunningPcs, TrapPcs, ReturnPcs
<1>7. d \in WatchdogType
  <2>1. 0 \in 0 .. PollLimit + 1
    BY PollLimitAssumption
  <2>2. \A p \in WatchdogPcs : WatchdogAt(p) \in WatchdogType
    BY <2>1 DEF WatchdogType, WatchdogAt
  <2>3. (IF BootCodeStarts8051 THEN "boot" ELSE "off") \in WatchdogPcs
    BY DEF WatchdogPcs
  <2>4. QED  BY <1>a, <2>2, <2>3
<1>8. image \in ImageType /\ core \in CoreType
  BY <1>a, KernelAssumption DEF ImageType, CoreType
<1>9. QED  BY <1>4, <1>5, <1>6, <1>7, <1>8 DEF TypeInv, TypeOK

(* Every step of the worker, traps included, keeps the page and the core    *)
(* well typed.                                                              *)
LEMMA WorkerTypes ==
  ASSUME ctl \in CtlType, w \in WorkerType, WorkerStep \/ WorkerTrap
  PROVE  ctl' \in CtlType /\ w' \in WorkerType
<1> USE DEF CtlType, WorkerType, WorkerPcs, RunningPcs, TrapPcs, ReturnPcs
<1>1. CASE WorkerStart       BY <1>1 DEF WorkerStart
<1>2. CASE WorkerIdle        BY <1>2 DEF WorkerIdle, CoreStates
<1>3. CASE WorkerAck         BY <1>3 DEF WorkerAck
<1>4. CASE WorkerDispatch
  <2>1. Handler(ctl.worker_cmd) \in RunningPcs   BY DEF Handler
  <2>2. QED  BY <1>4, <2>1 DEF WorkerDispatch, Readers
<1>5. CASE WorkerBoot        BY <1>5 DEF WorkerBoot, CoreStates
<1>6. CASE WorkerClear       BY <1>6 DEF WorkerClear, Cmds
<1>7. CASE WorkerJobBegin
  <2>1. 0 \in 0 .. JobSteps                      BY WorkerAssumption
  <2>2. QED  BY <1>7, <2>1 DEF WorkerJobBegin, CoreStates
<1>8. CASE WorkerJobStep
  <2>1. w.step + 1 \in 0 .. JobSteps             BY <1>8, WorkerAssumption DEF WorkerJobStep
  <2>2. QED  BY <1>8, <2>1 DEF WorkerJobStep, Readers
<1>9. CASE WorkerJobCancel   BY <1>9 DEF WorkerJobCancel, CoreStates, Cmds
<1>10. CASE WorkerJobDone    BY <1>10 DEF WorkerJobDone, CoreStates
<1>11. CASE WorkerFault      BY <1>11 DEF WorkerFault, CoreStates
<1>12. CASE WorkerStop       BY <1>12 DEF WorkerStop, CoreStates
<1>13. CASE WorkerTrapFlags  BY <1>13 DEF WorkerTrapFlags, SysFlags
<1>14. CASE WorkerTrapStore  BY <1>14 DEF WorkerTrapStore
<1>15. CASE WorkerTrapState  BY <1>15 DEF WorkerTrapState, CoreStates
<1>16. CASE WorkerTrapStage  BY <1>16 DEF WorkerTrapStage, Stages, STAGE_PANIC
<1>17. CASE WorkerTrap       BY <1>17 DEF WorkerTrap, Reasons
<1>18. QED
  BY <1>1, <1>2, <1>3, <1>4, <1>5, <1>6, <1>7, <1>8, <1>9, <1>10, <1>11, <1>12, <1>13,
     <1>14, <1>15, <1>16, <1>17 DEF WorkerStep

(* Every step of the 8051 keeps the page and its counters well typed: both  *)
(* poll counters stop at PollLimit + 1, so the uint16_t never wraps.        *)
LEMMA WatchdogTypes ==
  ASSUME ctl \in CtlType, d \in WatchdogType, WatchdogStep
  PROVE  ctl' \in CtlType /\ d' \in WatchdogType
<1>a. d.kernel_timeout \in 0 .. PollLimit + 1 /\ d.worker_timeout \in 0 .. PollLimit + 1
  BY DEF WatchdogType
<1> USE DEF WatchdogType, WatchdogPcs, CtlType
<1>0. 0 \in 0 .. PollLimit + 1     BY PollLimitAssumption
<1>1. CASE WatchdogMain           BY <1>0, <1>1 DEF WatchdogMain, WatchdogAt, Readers
<1>2. CASE WatchdogKernelAlive    BY <1>0, <1>2 DEF WatchdogKernelAlive
<1>3. CASE WatchdogKernelQuiet
  <2>1. d.kernel_timeout < PollLimit            BY <1>3 DEF WatchdogKernelQuiet
  <2>2. d.kernel_timeout + 1 \in 0 .. PollLimit + 1   BY <1>a, <2>1, PollLimitAssumption
  <2>3. QED  BY <1>3, <2>2 DEF WatchdogKernelQuiet
<1>4. CASE WatchdogKernelTimeout
  <2>1. d.kernel_timeout = PollLimit            BY <1>4 DEF WatchdogKernelTimeout
  <2>2. d.kernel_timeout + 1 \in 0 .. PollLimit + 1   BY <2>1, PollLimitAssumption
  <2>3. QED  BY <1>4, <2>2 DEF WatchdogKernelTimeout, Reasons, WatchdogReasons
<1>5. CASE WatchdogWorkerAlive    BY <1>0, <1>5 DEF WatchdogWorkerAlive
<1>6. CASE WatchdogWorkerQuiet
  <2>1. CASE ctl.worker_state = "RUNNING"
    <3>1. d.worker_timeout < PollLimit          BY <1>6, <2>1 DEF WatchdogWorkerQuiet
    <3>2. d.worker_timeout + 1 \in 0 .. PollLimit + 1   BY <1>a, <3>1, PollLimitAssumption
    <3>3. QED  BY <1>6, <2>1, <3>2 DEF WatchdogWorkerQuiet
  <2>2. CASE ctl.worker_state # "RUNNING"
    BY <1>6, <2>2 DEF WatchdogWorkerQuiet
  <2>3. QED  BY <2>1, <2>2
<1>7. CASE WatchdogWorkerTimeout
  <2>1. d.worker_timeout = PollLimit            BY <1>7 DEF WatchdogWorkerTimeout
  <2>2. d.worker_timeout + 1 \in 0 .. PollLimit + 1   BY <2>1, PollLimitAssumption
  <2>3. QED  BY <1>7, <2>2 DEF WatchdogWorkerTimeout, Reasons, WatchdogReasons
<1>8. CASE WatchdogSignal         BY <1>8 DEF WatchdogSignal, SysFlags
<1>9. CASE WatchdogSignalStore    BY <1>9 DEF WatchdogSignalStore
<1>10. QED
  BY <1>1, <1>2, <1>3, <1>4, <1>5, <1>6, <1>7, <1>8, <1>9 DEF WatchdogStep
(* The wrapped successor of a command sequence number is one.               *)
LEMMA NextSeqType == ASSUME NEW n \in 0 .. SeqMod - 1 PROVE NextSeq(n) \in 0 .. SeqMod - 1
  BY SeqModAssumption DEF NextSeq

(* Switching the core's enable and reset lines leaves a well-typed core.     *)
LEMMA PowerTypes ==
  ASSUME w \in WorkerType, NEW e \in BOOLEAN, NEW r \in BOOLEAN, Power(e, r)
  PROVE  w' \in WorkerType /\ core' \in CoreType
<1>1. 0 \in 0 .. JobSteps                        BY WorkerAssumption
<1>2. HeldWorker \in WorkerType /\ StartedWorker \in WorkerType
  BY <1>1
  DEF HeldWorker, StartedWorker, WorkerType, WorkerPcs, RunningPcs, TrapPcs, ReturnPcs, Cmds
<1>3. QED  BY <1>2 DEF Power, CoreType

(* kernel_panic leaves a well-typed page and kernel.                        *)
LEMMA PanicTypes ==
  ASSUME k \in KernelType, NEW page \in CtlType, NEW reason \in Reasons, NEW flag \in
      SysFlags,
         Panic(page, reason, flag)
  PROVE  ctl' \in CtlType /\ k' \in KernelType
<1>1. ctl' \in CtlType                           BY DEF Panic, CtlType
<1>2. k' \in KernelType
  BY DEF Panic, KernelType, RmwPcs, PlainPcs, PanicPcs
<1>3. QED  BY <1>1, <1>2

(* The stages the kernel enters are stages.                                 *)
LEMMA StageTypes ==
  {STAGE_WORKER_PREP, STAGE_WORKER_RELEASE, STAGE_WORKER_WAIT_ACK, STAGE_OS_RUNNING,
      STAGE_PANIC}
  \subseteq Stages
  BY DEF Stages, STAGE_WORKER_PREP, STAGE_WORKER_RELEASE, STAGE_WORKER_WAIT_ACK,
         STAGE_OS_RUNNING, STAGE_PANIC

(* The end of boot_worker leaves a well-typed page and kernel.              *)
LEMMA ReleasedTypes ==
  ASSUME ctl \in CtlType, k \in KernelType, Released
  PROVE  ctl' \in CtlType /\ k' \in KernelType
<1>1. 0 \in 0 .. AckSpins                        BY KernelAssumption
<1>2. ctl' \in CtlType                           BY StageTypes DEF Released, CtlType
<1>3. k' \in KernelType
  BY <1>1 DEF Released, KernelType, RmwPcs, PlainPcs, BootPcs
<1>4. QED  BY <1>2, <1>3

(* The steps from kernel_main to STAGE_OS_RUNNING, and those of             *)
(* boot_worker and wait_for_worker_ack in a restart, preserve the types.    *)
LEMMA KernelBootTypes ==
  ASSUME TypeOK, StaleBounded, KernelBoots
  PROVE  TypeOK'
<1> USE DEF TypeOK, RmwPcs, PlainPcs, BootPcs, SupervisorPcs, PanicPcs, FinalPcs
<1>0. CASE KernelEntry       BY <1>0 DEF KernelEntry, Modify, KernelType, CtlType, SysFlags
<1>1. CASE KernelActive      BY <1>1 DEF KernelActive, KernelType, SysFlags
<1>2. CASE KernelImagePresent
  BY <1>2, StageTypes DEF KernelImagePresent, KernelType, CtlType
<1>3. CASE KernelStageImage
  BY <1>3, StageTypes DEF KernelStageImage, Modify, KernelType, CtlType, ImageType
<1>4. CASE KernelNoImage
  <2>1. [ctl EXCEPT !.system_stage = STAGE_WORKER_PREP,
                    !.platform_errors = @ \cup {"STAGING_INVALID"}] \in CtlType
    BY StageTypes DEF CtlType, PlatErrors
  <2>2. "IMAGE_MISSING" \in Reasons /\ "WORKER_IMAGE_MISSING" \in SysFlags
    BY DEF Reasons, SysFlags
  <2>3. QED  BY <1>4, <2>1, <2>2, PanicTypes DEF KernelNoImage
<1>5. CASE KernelAnnounce    BY <1>5 DEF KernelAnnounce, KernelType, CtlType, CoreStates
<1>6. CASE KernelCmdBoot     BY <1>6 DEF KernelCmdBoot, KernelType, CtlType, Cmds
<1>7. CASE KernelCmdSeq
  <2>1. NextSeq(ctl.kernel_cmd_seq) \in 0 .. SeqMod - 1   BY NextSeqType DEF CtlType
  <2>2. QED
    BY <1>7, <2>1, StageTypes DEF KernelCmdSeq, KernelType, CtlType
<1>8. CASE KernelEnable
  <2>1. core.in_reset \in BOOLEAN                BY DEF CoreType
  <2>2. w' \in WorkerType /\ core' \in CoreType  BY <1>8, <2>1, PowerTypes DEF KernelEnable
  <2>3. CASE ResetHook
    BY <1>8, <2>2, <2>3 DEF KernelEnable, KernelType
  <2>4. CASE ~ResetHook
    BY <1>8, <2>2, <2>4, ReleasedTypes DEF KernelEnable
  <2>5. QED  BY <2>3, <2>4
<1>9. CASE KernelAssertReset
  <2>1. core.enabled \in BOOLEAN                 BY DEF CoreType
  <2>2. w' \in WorkerType /\ core' \in CoreType  BY <1>9, <2>1, PowerTypes
      DEF KernelAssertReset
  <2>3. QED  BY <1>9, <2>2 DEF KernelAssertReset, KernelType
<1>10. CASE KernelDeassertReset
  <2>1. core.enabled \in BOOLEAN                 BY DEF CoreType
  <2>2. w' \in WorkerType /\ core' \in CoreType
    BY <1>10, <2>1, PowerTypes DEF KernelDeassertReset
  <2>3. QED  BY <1>10, <2>2, ReleasedTypes DEF KernelDeassertReset
<1>11. CASE KernelReleaseFails
  <2>1. [ctl EXCEPT !.platform_errors = @ \cup {"RELEASE_FAILED"}] \in CtlType
    BY DEF CtlType, PlatErrors
  <2>2. QED  BY <1>11, <2>1, PanicTypes DEF KernelReleaseFails, Reasons, SysFlags
<1>12. CASE KernelAckMissing
  <2>1. k.spins \in 0 .. AckSpins /\ k.spins < AckSpins
    BY <1>12 DEF KernelAckMissing, KernelType
  <2>2. k.spins + 1 \in 0 .. AckSpins            BY <2>1, KernelAssumption
  <2>3. QED  BY <1>12, <2>2 DEF KernelAckMissing, KernelType
<1>13. CASE KernelAckSeen
  <2>1. 0 \in 0 .. AckSpins /\ 0 \in 0 .. StaleSpins + 1   BY KernelAssumption
  <2>2. QED  BY <1>13, <2>1 DEF KernelAckSeen, KernelType, CtlType, PlatErrors
<1>14. CASE KernelAckTimeout
  <2>1. [ctl EXCEPT !.platform_errors = @ \cup {"ACK_TIMEOUT"}] \in CtlType
    BY DEF CtlType, PlatErrors
  <2>2. QED  BY <1>14, <2>1, PanicTypes DEF KernelAckTimeout, Reasons, SysFlags
<1>15. CASE KernelStartWatchdog
  <2>1. 0 \in 0 .. PollLimit + 1                 BY PollLimitAssumption
  <2>2. WatchdogAt("boot") \in WatchdogType      BY <2>1
      DEF WatchdogAt, WatchdogType, WatchdogPcs
  <2>3. d' \in WatchdogType   BY <1>15, <2>2 DEF KernelStartWatchdog, EnsureWatchdogStarted
  <2>4. QED
    BY <1>15, <2>3, StageTypes DEF KernelStartWatchdog, KernelType, CtlType
<1>16. QED
  BY <1>0, <1>1, <1>2, <1>3, <1>4, <1>5, <1>6, <1>7, <1>8, <1>9, <1>10, <1>11, <1>12, <1>13,
     <1>14, <1>15 DEF KernelBoots

(* The steps of the supervisor loop preserve the types; stale fits its      *)
(* range because the judge never lets it pass the limit twice.              *)
LEMMA KernelSupervisorTypes ==
  ASSUME TypeOK, StaleBounded, KernelSupervises
  PROVE  TypeOK'
<1> USE DEF TypeOK, RmwPcs, PlainPcs, BootPcs, SupervisorPcs, PanicPcs, FinalPcs
<1>1. CASE KernelWatchdogTimeout
  <2>1. "UNEXPLAINED" \in Reasons /\ "WATCHDOG_TIMEOUT" \in SysFlags /\ ctl.reset_reason \in
          Reasons
    BY DEF Reasons, SysFlags, CtlType
  <2>2. QED  BY <1>1, <2>1, PanicTypes DEF KernelWatchdogTimeout
<1>2. CASE KernelPet         BY <1>2 DEF KernelPet, KernelType, CtlType
<1>3. CASE KernelConsoleLine
  <2>1. k.lines \in 0 .. MaxLines /\ k.lines < MaxLines
    BY <1>3 DEF KernelConsoleLine, KernelType
  <2>2. k.lines + 1 \in 0 .. MaxLines           BY <2>1, KernelAssumption
  <2>3. Commands \subseteq Cmds                 BY KernelAssumption DEF Cmds
  <2>4. QED  BY <1>3, <2>2, <2>3 DEF KernelConsoleLine, KernelType, CtlType
<1>4. CASE KernelConsoleSeq
  <2>1. NextSeq(ctl.kernel_cmd_seq) \in 0 .. SeqMod - 1   BY NextSeqType DEF CtlType
  <2>2. QED  BY <1>4, <2>1 DEF KernelConsoleSeq, KernelType, CtlType
<1>5. CASE KernelConsoleDone  BY <1>5 DEF KernelConsoleDone, KernelType
<1>6. CASE KernelSample
  <2>1. k.stale \in 0 .. StaleSpins + 1         BY DEF KernelType
  <2>2. k.stale <= StaleSpins                   BY <1>6 DEF KernelSample, StaleBounded, Loc
  <2>3. k.stale + 1 \in 0 .. StaleSpins + 1 /\ 0 \in 0 .. StaleSpins + 1
    BY <2>1, <2>2, KernelAssumption
  <2>4. QED  BY <1>6, <2>3 DEF KernelSample, KernelType, CtlType
<1>7. ASSUME NEW reason \in Reasons, Restart(reason)
      PROVE  ctl' \in CtlType /\ k' \in KernelType
  BY <1>7 DEF Restart, KernelType, CtlType, SysFlags
<1>8. CASE KernelJudgeFault
  <2>1. "WORKER_FAULT" \in Reasons              BY DEF Reasons
  <2>2. QED  BY <1>7, <1>8, <2>1 DEF KernelJudgeFault
<1>9. CASE KernelJudgeStale
  BY <1>9 DEF KernelJudgeStale, Modify, KernelType, CtlType, PlatErrors, SysFlags
<1>10. CASE KernelRestartStale
  <2>1. "WORKER_STALL" \in Reasons              BY DEF Reasons
  <2>2. QED  BY <1>7, <1>10, <2>1 DEF KernelRestartStale
<1>11. CASE KernelJudgeHealthy
  <2>1. [ctl EXCEPT !.platform_errors = @ \ {"STALE"}] \in CtlType   BY DEF CtlType
  <2>2. QED  BY <1>11, <2>1 DEF KernelJudgeHealthy, KernelType
<1>12. QED
  BY <1>1, <1>2, <1>3, <1>4, <1>5, <1>6, <1>8, <1>9, <1>10, <1>11 DEF KernelSupervises

(* The load and store of system_flags, the end of kernel_panic and the trap *)
(* handler preserve the types.                                              *)
LEMMA KernelRmwTypes ==
  ASSUME TypeOK, KernelOrLoad \/ KernelStore \/ KernelPanicStage \/ KernelTrap
  PROVE  TypeOK'
<1> USE DEF TypeOK, RmwPcs, PlainPcs, BootPcs, SupervisorPcs, PanicPcs, FinalPcs
<1>1. CASE KernelOrLoad      BY <1>1 DEF KernelOrLoad, KernelType, CtlType
<1>2. CASE KernelStore       BY <1>2 DEF KernelStore, KernelType, CtlType
<1>3. CASE KernelPanicStage  BY <1>3, StageTypes DEF KernelPanicStage, KernelType, CtlType
<1>4. CASE KernelTrap        BY <1>4 DEF KernelTrap, KernelType, CtlType, SysFlags, Reasons
<1>5. QED  BY <1>1, <1>2, <1>3, <1>4

(* Every step keeps stale within the limit outside the judge.               *)
LEMMA StaleStep ==
  ASSUME TypeOK, StaleBounded, Next
  PROVE  StaleBounded'
<1> USE DEF TypeOK, StaleBounded, Loc, KernelType, RmwPcs, PlainPcs, BootPcs, SupervisorPcs,
            PanicPcs, FinalPcs
<1>1. ASSUME UNCHANGED k  PROVE StaleBounded'
  BY <1>1
<1>2. CASE WorkerRuns \/ WorkerTraps \/ WatchdogRuns
  BY <1>1, <1>2 DEF WorkerRuns, WorkerTraps, WatchdogRuns
<1>3. CASE KernelOrLoad \/ KernelStore \/ KernelPanicStage \/ KernelTrap
  BY <1>3 DEF KernelOrLoad, KernelStore, KernelPanicStage, KernelTrap
<1>4. CASE KernelBoots
  <2>1. 0 <= StaleSpins  BY KernelAssumption
  <2>2. QED
  BY <1>4, <2>1
  DEF KernelBoots, KernelEntry, KernelActive, KernelImagePresent, KernelStageImage, KernelNoImage,
     KernelAnnounce, KernelCmdBoot, KernelCmdSeq, KernelEnable, KernelAssertReset,
     KernelDeassertReset, KernelReleaseFails, KernelAckMissing, KernelAckSeen,
     KernelAckTimeout, KernelStartWatchdog, Modify, Panic, Released
<1>5. CASE KernelSupervises
  <2>1. 0 <= StaleSpins  BY KernelAssumption
  <2>2. QED
  BY <1>5, <2>1 DEF KernelSupervises, KernelWatchdogTimeout, KernelPet, KernelConsoleLine,
     KernelConsoleSeq, KernelConsoleDone, KernelSample, KernelJudgeFault, KernelJudgeStale,
     KernelRestartStale, KernelJudgeHealthy, Modify, Panic, Restart
<1>6. QED  BY <1>2, <1>3, <1>4, <1>5 DEF Next, KernelStep

(* Every step of the system preserves the strengthened type invariant.      *)
LEMMA TypeStep == TypeInv /\ [Next]_vars => TypeInv'
<1> SUFFICES ASSUME TypeOK, StaleBounded, [Next]_vars  PROVE TypeOK' /\ StaleBounded'
  BY DEF TypeInv
<1>1. CASE UNCHANGED vars
  BY <1>1 DEF vars, TypeOK, StaleBounded, Loc
<1>2. CASE Next
  <2>1. StaleBounded'  BY <1>2, StaleStep
  <2>2. CASE WorkerRuns \/ WorkerTraps
    BY <2>1, <2>2, WorkerTypes DEF TypeOK, WorkerRuns, WorkerTraps
  <2>3. CASE WatchdogRuns
    BY <2>1, <2>3, WatchdogTypes DEF TypeOK, WatchdogRuns
  <2>4. CASE KernelStep \/ KernelTrap
    BY <2>1, <2>4, KernelRmwTypes, KernelBootTypes, KernelSupervisorTypes DEF KernelStep
  <2>5. QED  BY <1>2, <2>1, <2>2, <2>3, <2>4 DEF Next
<1>3. QED  BY <1>1, <1>2

(* Type correctness: no reachable state leaves the ranges of TypeOK, and    *)
(* no counter of the code (stale, spins, the 8051's poll counters) passes   *)
(* the limit its loop states.                                               *)
THEOREM TypeCorrect == Spec => []TypeInv
<1>1. QED  BY TypeInit, TypeStep, PTL DEF Spec

THEOREM TypeOKHolds == Spec => []TypeOK
<1>1. TypeInv => TypeOK  BY DEF TypeInv
<1>2. QED  BY <1>1, TypeCorrect, PTL
=============================================================================
