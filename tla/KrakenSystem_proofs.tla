------------------------- MODULE KrakenSystem_proofs ------------------------
(***************************************************************************)
(* The safety properties of KrakenSystem and its refinement of             *)
(* SupervisedWorker, for every value of the constants.  Each property has  *)
(* an inductive strengthening, and each strengthening one step per action. *)
(***************************************************************************)
EXTENDS KrakenSystem_types

(* What KernelEnable does to the worker core: it keeps running, stays held  *)
(* in reset, or starts when it was off and out of reset.                    *)
LEMMA EnableFacts ==
  ASSUME TypeOK, KernelEnable
  PROVE  /\ k.pc = "enable" /\ core'.enabled /\ core'.in_reset = core.in_reset
         /\ \/ w' = w /\ (w.pc = "off" => core.in_reset)
            \/ w' = HeldWorker /\ core.in_reset
            \/ w' = StartedWorker /\ w.pc = "off" /\ ~core.in_reset
         /\ HeldWorker.pc = "off" /\ HeldWorker.reg = {} /\ ~HeldWorker.acked
         /\ StartedWorker.pc = "start" /\ StartedWorker.reg = {} /\ ~StartedWorker.acked
         /\ ctl'.worker_boot_ack = ctl.worker_boot_ack
         /\ ctl'.worker_state = ctl.worker_state
         /\ ctl'.system_flags = ctl.system_flags
         /\ ctl'.reset_reason = ctl.reset_reason
         /\ ctl'.system_stage \in {ctl.system_stage, STAGE_WORKER_WAIT_ACK}
         /\ k'.restart = k.restart /\ k'.reg = k.reg /\ k'.next = k.next
         /\ k'.pc = (IF ResetHook THEN "assert_reset" ELSE "wait") /\ d' = d
<1>1. core.in_reset \in BOOLEAN /\ ctl \in CtlType /\ k \in KernelType /\ w \in WorkerType
  BY DEF TypeOK, CoreType
<1>2. /\ HeldWorker.pc = "off" /\ HeldWorker.reg = {} /\ ~HeldWorker.acked
      /\ StartedWorker.pc = "start" /\ StartedWorker.reg = {} /\ ~StartedWorker.acked
  BY DEF HeldWorker, StartedWorker
<1>3. /\ core'.enabled /\ core'.in_reset = core.in_reset
      /\ \/ w' = w /\ (w.pc = "off" => core.in_reset)
         \/ w' = HeldWorker /\ core.in_reset
         \/ w' = StartedWorker /\ w.pc = "off" /\ ~core.in_reset
  BY <1>1 DEF KernelEnable, Power
<1>4. CASE ResetHook
  BY <1>1, <1>2, <1>3, <1>4 DEF KernelEnable, KernelType
<1>5. CASE ~ResetHook
  BY <1>1, <1>2, <1>3, <1>5 DEF KernelEnable, Released, CtlType, KernelType
<1>6. QED  BY <1>4, <1>5

-----------------------------------------------------------------------------
(* The boot handshake.  The acknowledgement on the page belongs to the core *)
(* that is running: boot_worker clears it before the reset pulse, while the *)
(* old core is past the point where it would write it again, and the new    *)
(* core starts only when the pulse is over.                                 *)
BootingPcs == {"cmd_boot", "cmd_seq", "enable", "assert_reset", "deassert_reset"}

HandshakeInv ==
  /\ w.pc \in {"off", "start"} => ~w.acked
  /\ ctl.worker_boot_ack => w.acked
  /\ Loc \in {"entry", "active"} => ~k.restart
  /\ Loc \in {"entry", "active", "prep", "announce"} /\ ~k.restart => w.pc = "off"
  /\ Loc \in BootingPcs => ~ctl.worker_boot_ack /\ w.pc # "start"
  /\ Loc \in {"assert_reset", "deassert_reset"} => core.enabled
  /\ ResetHook /\ w.pc = "off" => core.in_reset
  /\ OnlineMeansBooted

(* The hand-off state satisfies it when a board that has the reset hook     *)
(* powers up with the worker core in reset.                                 *)
LEMMA HandshakeInit ==
  ASSUME ResetHook => CoreInReset, Init
  PROVE  HandshakeInv
  BY DEF Init, HandshakeInv, HeldWorker, KernelAtEntry, Loc, CtlHandoff, CtlZero, BootingPcs, RmwPcs,
         OnlineMeansBooted, Online, SupervisorPcs

(* Every step preserves it.                                                 *)
LEMMA HandshakeStep ==
  ASSUME TypeOK, HandshakeInv, Next
  PROVE  HandshakeInv'
<1>0. TypeOK /\ ctl \in CtlType /\ k \in KernelType /\ w \in WorkerType
      /\ d \in WatchdogType /\ core \in CoreType
  BY DEF TypeOK
<1>1. CASE WorkerRuns
  <2> USE <1>0
      DEF HandshakeInv, CtlType, Loc, OnlineMeansBooted, Online, BootingPcs, RmwPcs,
          SupervisorPcs, PanicPcs, FinalPcs, PlainPcs, BootPcs, WorkerType, ReturnPcs,
          WorkerRuns
  <2>1. CASE WorkerStart  BY <1>1, <2>1 DEF WorkerStart
  <2>2. CASE WorkerIdle  BY <1>1, <2>2 DEF WorkerIdle
  <2>3. CASE WorkerAck  BY <1>1, <2>3 DEF WorkerAck
  <2>4. CASE WorkerDispatch  BY <1>1, <2>4 DEF WorkerDispatch, Handler
  <2>5. CASE WorkerBoot  BY <1>1, <2>5 DEF WorkerBoot
  <2>6. CASE WorkerClear  BY <1>1, <2>6 DEF WorkerClear
  <2>7. CASE WorkerJobBegin  BY <1>1, <2>7 DEF WorkerJobBegin
  <2>8. CASE WorkerJobStep  BY <1>1, <2>8 DEF WorkerJobStep
  <2>9. CASE WorkerJobCancel  BY <1>1, <2>9 DEF WorkerJobCancel
  <2>10. CASE WorkerJobDone  BY <1>1, <2>10 DEF WorkerJobDone
  <2>11. CASE WorkerFault  BY <1>1, <2>11 DEF WorkerFault
  <2>12. CASE WorkerStop  BY <1>1, <2>12 DEF WorkerStop
  <2>13. CASE WorkerTrapFlags  BY <1>1, <2>13 DEF WorkerTrapFlags
  <2>14. CASE WorkerTrapStore  BY <1>1, <2>14 DEF WorkerTrapStore
  <2>15. CASE WorkerTrapState  BY <1>1, <2>15 DEF WorkerTrapState
  <2>16. CASE WorkerTrapStage  BY <1>1, <2>16 DEF WorkerTrapStage
  <2>17. QED
    BY <1>1, <2>1, <2>2, <2>3, <2>4, <2>5, <2>6, <2>7, <2>8, <2>9, <2>10, <2>11, <2>12,
        <2>13, <2>14, <2>15, <2>16
    DEF WorkerRuns, WorkerStep
<1>2. CASE WorkerTraps
  BY <1>0, <1>2
  DEF WorkerTraps, WorkerTrap, RunningPcs, HandshakeInv, CtlType, Loc, OnlineMeansBooted,
      Online, BootingPcs, RmwPcs, SupervisorPcs, PanicPcs, FinalPcs, PlainPcs, BootPcs,
      WorkerType, ReturnPcs
<1>3. CASE WatchdogRuns
  BY <1>0, <1>3
  DEF WatchdogRuns, WatchdogStep, WatchdogMain, WatchdogAt, WatchdogKernelAlive,
      WatchdogKernelQuiet, WatchdogKernelTimeout, WatchdogWorkerAlive, WatchdogWorkerQuiet,
      WatchdogWorkerTimeout, WatchdogSignal, WatchdogSignalStore, HandshakeInv, CtlType,
      Loc, OnlineMeansBooted, Online, BootingPcs, RmwPcs, SupervisorPcs, PanicPcs, FinalPcs,
      PlainPcs, BootPcs, WatchdogType
<1>4. CASE KernelOrLoad \/ KernelStore \/ KernelPanicStage \/ KernelTrap
  <2> USE <1>0
      DEF HandshakeInv, CtlType, Loc, OnlineMeansBooted, Online, BootingPcs, RmwPcs,
          SupervisorPcs, PanicPcs, FinalPcs, PlainPcs, BootPcs, KernelType, WorkerType,
          CoreType
  <2>1. CASE KernelOrLoad  BY <1>4, <2>1 DEF KernelOrLoad
  <2>2. CASE KernelStore  BY <1>4, <2>2 DEF KernelStore
  <2>3. CASE KernelPanicStage  BY <1>4, <2>3 DEF KernelPanicStage
  <2>4. CASE KernelTrap  BY <1>4, <2>4 DEF KernelTrap
  <2>5. QED  BY <1>4, <2>1, <2>2, <2>3, <2>4
<1>5. CASE KernelBoots
  <2> USE <1>0
      DEF HandshakeInv, CtlType, Loc, OnlineMeansBooted, Online, BootingPcs, RmwPcs,
          SupervisorPcs, PanicPcs, FinalPcs, PlainPcs, BootPcs, KernelType, WorkerType,
          CoreType
  <2>0. CASE KernelEntry  BY <1>5, <2>0 DEF KernelEntry, Modify
  <2>1. CASE KernelActive  BY <1>5, <2>1 DEF KernelActive
  <2>2. CASE KernelImagePresent  BY <1>5, <2>2 DEF KernelImagePresent
  <2>3. CASE KernelStageImage  BY <1>5, <2>3 DEF KernelStageImage, Modify
  <2>4. CASE KernelNoImage  BY <1>5, <2>4 DEF KernelNoImage, Panic
  <2>5. CASE KernelAnnounce  BY <1>5, <2>5 DEF KernelAnnounce
  <2>6. CASE KernelCmdBoot  BY <1>5, <2>6 DEF KernelCmdBoot
  <2>7. CASE KernelCmdSeq  BY <1>5, <2>7 DEF KernelCmdSeq
  <2>8. CASE KernelEnable  BY <1>5, <2>8, EnableFacts
  <2>9. CASE KernelAssertReset
    BY <1>5, <2>9
    DEF KernelAssertReset, Power, HeldWorker, StartedWorker
  <2>10. CASE KernelDeassertReset
    BY <1>5, <2>10
    DEF KernelDeassertReset, Power, Released, HeldWorker, StartedWorker
  <2>11. CASE KernelReleaseFails  BY <1>5, <2>11 DEF KernelReleaseFails, Panic
  <2>12. CASE KernelAckMissing  BY <1>5, <2>12 DEF KernelAckMissing
  <2>13. CASE KernelAckSeen  BY <1>5, <2>13 DEF KernelAckSeen, WorkerOnline
  <2>14. CASE KernelAckTimeout  BY <1>5, <2>14 DEF KernelAckTimeout, Panic
  <2>15. CASE KernelStartWatchdog
    BY <1>5, <2>15
    DEF KernelStartWatchdog, EnsureWatchdogStarted, WatchdogAt
  <2>16. QED
    BY <1>5, <2>0, <2>1, <2>2, <2>3, <2>4, <2>5, <2>6, <2>7, <2>8, <2>9, <2>10, <2>11, <2>12,
        <2>13, <2>14, <2>15
    DEF KernelBoots
<1>6. CASE KernelSupervises
  <2> USE <1>0
      DEF HandshakeInv, CtlType, Loc, OnlineMeansBooted, Online, BootingPcs, RmwPcs,
          SupervisorPcs, PanicPcs, FinalPcs, PlainPcs, BootPcs, KernelType, WorkerType,
          CoreType
  <2>1. CASE KernelWatchdogTimeout  BY <1>6, <2>1 DEF KernelWatchdogTimeout, Panic
  <2>2. CASE KernelPet  BY <1>6, <2>2 DEF KernelPet
  <2>3. CASE KernelConsoleLine  BY <1>6, <2>3 DEF KernelConsoleLine
  <2>4. CASE KernelConsoleSeq  BY <1>6, <2>4 DEF KernelConsoleSeq
  <2>5. CASE KernelConsoleDone  BY <1>6, <2>5 DEF KernelConsoleDone
  <2>6. CASE KernelSample  BY <1>6, <2>6 DEF KernelSample
  <2>7. CASE KernelJudgeFault  BY <1>6, <2>7 DEF KernelJudgeFault, Restart
  <2>8. CASE KernelJudgeStale  BY <1>6, <2>8 DEF KernelJudgeStale, Modify
  <2>9. CASE KernelRestartStale  BY <1>6, <2>9 DEF KernelRestartStale, Restart
  <2>10. CASE KernelJudgeHealthy  BY <1>6, <2>10 DEF KernelJudgeHealthy
  <2>11. QED
    BY <1>6, <2>1, <2>2, <2>3, <2>4, <2>5, <2>6, <2>7, <2>8, <2>9, <2>10
    DEF KernelSupervises
<1>7. QED  BY <1>1, <1>2, <1>3, <1>4, <1>5, <1>6 DEF Next, KernelStep

(* The kernel supervises only a worker core that has itself acknowledged    *)
(* its boot (main.c, wait_for_worker_ack), on boards whose reset hook finds *)
(* the core in reset at power-on, and on boards without the hook.           *)
THEOREM OnlineMeansBootedHolds ==
  ASSUME ResetHook => CoreInReset
  PROVE  Spec => []OnlineMeansBooted
<1>1. Init => HandshakeInv  BY HandshakeInit
<1>2. TypeInv /\ HandshakeInv /\ [Next]_vars => HandshakeInv'
  <2>1. TypeInv /\ HandshakeInv /\ Next => HandshakeInv'  BY HandshakeStep DEF TypeInv
  <2>2. HandshakeInv /\ UNCHANGED vars => HandshakeInv'
    BY DEF vars, HandshakeInv, OnlineMeansBooted, Online, Loc
  <2>3. QED  BY <2>1, <2>2
<1>3. HandshakeInv => OnlineMeansBooted  BY DEF HandshakeInv
<1>4. QED  BY <1>1, <1>2, <1>3, TypeCorrect, PTL DEF Spec

-----------------------------------------------------------------------------
(* The kernel and the worker core implement SupervisedWorker: every step    *)
(* maps to a step of it or to a stutter.                                    *)
LEMMA SupervisedStep ==
  ASSUME TypeOK, HandshakeInv, Next
  PROVE  [Abstract!Next]_(Abstract!vars)
<1>0. TypeOK /\ ctl \in CtlType /\ k \in KernelType /\ w \in WorkerType
      /\ d \in WatchdogType /\ core \in CoreType
  BY DEF TypeOK
<1> USE DEF Abstract!Next, Abstract!vars, Abstract!WorkerBoots, Abstract!Accept,
            Abstract!Restart, Abstract!Halt
<1>1. CASE WorkerRuns
  <2> USE <1>0
      DEF HandshakeInv, CtlType, Loc, Phase, Online, BootingPcs, RmwPcs, SupervisorPcs,
          PanicPcs, FinalPcs, PlainPcs, BootPcs, WorkerType, ReturnPcs, WorkerRuns
  <2>1. CASE WorkerStart  BY <1>1, <2>1 DEF WorkerStart
  <2>2. CASE WorkerIdle  BY <1>1, <2>2 DEF WorkerIdle
  <2>3. CASE WorkerAck  BY <1>1, <2>3 DEF WorkerAck
  <2>4. CASE WorkerDispatch  BY <1>1, <2>4 DEF WorkerDispatch, Handler
  <2>5. CASE WorkerBoot  BY <1>1, <2>5 DEF WorkerBoot
  <2>6. CASE WorkerClear  BY <1>1, <2>6 DEF WorkerClear
  <2>7. CASE WorkerJobBegin  BY <1>1, <2>7 DEF WorkerJobBegin
  <2>8. CASE WorkerJobStep  BY <1>1, <2>8 DEF WorkerJobStep
  <2>9. CASE WorkerJobCancel  BY <1>1, <2>9 DEF WorkerJobCancel
  <2>10. CASE WorkerJobDone  BY <1>1, <2>10 DEF WorkerJobDone
  <2>11. CASE WorkerFault  BY <1>1, <2>11 DEF WorkerFault
  <2>12. CASE WorkerStop  BY <1>1, <2>12 DEF WorkerStop
  <2>13. CASE WorkerTrapFlags  BY <1>1, <2>13 DEF WorkerTrapFlags
  <2>14. CASE WorkerTrapStore  BY <1>1, <2>14 DEF WorkerTrapStore
  <2>15. CASE WorkerTrapState  BY <1>1, <2>15 DEF WorkerTrapState
  <2>16. CASE WorkerTrapStage  BY <1>1, <2>16 DEF WorkerTrapStage
  <2>17. QED
    BY <1>1, <2>1, <2>2, <2>3, <2>4, <2>5, <2>6, <2>7, <2>8, <2>9, <2>10, <2>11, <2>12,
        <2>13, <2>14, <2>15, <2>16
    DEF WorkerRuns, WorkerStep
<1>2. CASE WorkerTraps
  BY <1>0, <1>2
  DEF WorkerTraps, WorkerTrap, RunningPcs, HandshakeInv, CtlType, Loc, Phase, Online,
      BootingPcs, RmwPcs, SupervisorPcs, PanicPcs, FinalPcs, PlainPcs, BootPcs, WorkerType,
      ReturnPcs
<1>3. CASE WatchdogRuns
  BY <1>0, <1>3
  DEF WatchdogRuns, WatchdogStep, WatchdogMain, WatchdogAt, WatchdogKernelAlive,
      WatchdogKernelQuiet, WatchdogKernelTimeout, WatchdogWorkerAlive, WatchdogWorkerQuiet,
      WatchdogWorkerTimeout, WatchdogSignal, WatchdogSignalStore, HandshakeInv, CtlType,
      Loc, Phase, Online, BootingPcs, RmwPcs, SupervisorPcs, PanicPcs, FinalPcs, PlainPcs,
      BootPcs, WatchdogType
<1>4. CASE KernelOrLoad \/ KernelStore \/ KernelPanicStage \/ KernelTrap
  <2> USE <1>0
      DEF HandshakeInv, CtlType, Loc, Phase, Online, BootingPcs, RmwPcs, SupervisorPcs,
          PanicPcs, FinalPcs, PlainPcs, BootPcs, KernelType, WorkerType, CoreType
  <2>1. CASE KernelOrLoad  BY <1>4, <2>1 DEF KernelOrLoad
  <2>2. CASE KernelStore  BY <1>4, <2>2 DEF KernelStore
  <2>3. CASE KernelPanicStage  BY <1>4, <2>3 DEF KernelPanicStage
  <2>4. CASE KernelTrap  BY <1>4, <2>4 DEF KernelTrap
  <2>5. QED  BY <1>4, <2>1, <2>2, <2>3, <2>4
<1>5. CASE KernelBoots
  <2> USE <1>0
      DEF HandshakeInv, CtlType, Loc, Phase, Online, BootingPcs, RmwPcs, SupervisorPcs,
          PanicPcs, FinalPcs, PlainPcs, BootPcs, KernelType, WorkerType, CoreType
  <2>0. CASE KernelEntry  BY <1>5, <2>0 DEF KernelEntry, Modify
  <2>1. CASE KernelActive  BY <1>5, <2>1 DEF KernelActive
  <2>2. CASE KernelImagePresent  BY <1>5, <2>2 DEF KernelImagePresent
  <2>3. CASE KernelStageImage  BY <1>5, <2>3 DEF KernelStageImage, Modify
  <2>4. CASE KernelNoImage  BY <1>5, <2>4 DEF KernelNoImage, Panic
  <2>5. CASE KernelAnnounce  BY <1>5, <2>5 DEF KernelAnnounce
  <2>6. CASE KernelCmdBoot  BY <1>5, <2>6 DEF KernelCmdBoot
  <2>7. CASE KernelCmdSeq  BY <1>5, <2>7 DEF KernelCmdSeq
  <2>8. CASE KernelEnable  BY <1>5, <2>8, EnableFacts
  <2>9. CASE KernelAssertReset
    BY <1>5, <2>9
    DEF KernelAssertReset, Power, HeldWorker, StartedWorker
  <2>10. CASE KernelDeassertReset
    BY <1>5, <2>10
    DEF KernelDeassertReset, Power, Released, HeldWorker, StartedWorker
  <2>11. CASE KernelReleaseFails  BY <1>5, <2>11 DEF KernelReleaseFails, Panic
  <2>12. CASE KernelAckMissing  BY <1>5, <2>12 DEF KernelAckMissing
  <2>13. CASE KernelAckSeen  BY <1>5, <2>13 DEF KernelAckSeen, WorkerOnline
  <2>14. CASE KernelAckTimeout  BY <1>5, <2>14 DEF KernelAckTimeout, Panic
  <2>15. CASE KernelStartWatchdog
    BY <1>5, <2>15
    DEF KernelStartWatchdog, EnsureWatchdogStarted, WatchdogAt
  <2>16. QED
    BY <1>5, <2>0, <2>1, <2>2, <2>3, <2>4, <2>5, <2>6, <2>7, <2>8, <2>9, <2>10, <2>11, <2>12,
        <2>13, <2>14, <2>15
    DEF KernelBoots
<1>6. CASE KernelSupervises
  <2> USE <1>0
      DEF HandshakeInv, CtlType, Loc, Phase, Online, BootingPcs, RmwPcs, SupervisorPcs,
          PanicPcs, FinalPcs, PlainPcs, BootPcs, KernelType, WorkerType, CoreType
  <2>1. CASE KernelWatchdogTimeout  BY <1>6, <2>1 DEF KernelWatchdogTimeout, Panic
  <2>2. CASE KernelPet  BY <1>6, <2>2 DEF KernelPet
  <2>3. CASE KernelConsoleLine  BY <1>6, <2>3 DEF KernelConsoleLine
  <2>4. CASE KernelConsoleSeq  BY <1>6, <2>4 DEF KernelConsoleSeq
  <2>5. CASE KernelConsoleDone  BY <1>6, <2>5 DEF KernelConsoleDone
  <2>6. CASE KernelSample  BY <1>6, <2>6 DEF KernelSample
  <2>7. CASE KernelJudgeFault  BY <1>6, <2>7 DEF KernelJudgeFault, Restart
  <2>8. CASE KernelJudgeStale  BY <1>6, <2>8 DEF KernelJudgeStale, Modify
  <2>9. CASE KernelRestartStale  BY <1>6, <2>9 DEF KernelRestartStale, Restart
  <2>10. CASE KernelJudgeHealthy  BY <1>6, <2>10 DEF KernelJudgeHealthy
  <2>11. QED
    BY <1>6, <2>1, <2>2, <2>3, <2>4, <2>5, <2>6, <2>7, <2>8, <2>9, <2>10
    DEF KernelSupervises
<1>7. QED  BY <1>1, <1>2, <1>3, <1>4, <1>5, <1>6 DEF Next, KernelStep

(* The boot handshake and the supervisor loop keep the promise of           *)
(* SupervisedWorker, under the same assumption on the reset line.           *)
THEOREM SupervisedHolds ==
  ASSUME ResetHook => CoreInReset
  PROVE  Spec => Supervised
<1>1. Init => Abstract!Init
  BY
  DEF Init, Abstract!Init, Phase, Online, Loc, KernelAtEntry, HeldWorker, CtlHandoff, CtlZero,
      RmwPcs,
         SupervisorPcs, PanicPcs, FinalPcs
<1>2. Init => HandshakeInv  BY HandshakeInit
<1>3. TypeInv /\ HandshakeInv /\ [Next]_vars => HandshakeInv' /\
        [Abstract!Next]_(Abstract!vars)
  <2>1. TypeInv /\ HandshakeInv /\ Next => HandshakeInv' /\ [Abstract!Next]_(Abstract!vars)
    BY HandshakeStep, SupervisedStep DEF TypeInv
  <2>2. HandshakeInv /\ UNCHANGED vars => HandshakeInv'
    BY DEF vars, HandshakeInv, OnlineMeansBooted, Online, Loc
  <2>3. UNCHANGED vars => UNCHANGED Abstract!vars
    BY DEF vars, Abstract!vars, Phase, Online, Loc
  <2>4. QED  BY <2>1, <2>2, <2>3
<1>4. QED  BY <1>1, <1>2, <1>3, TypeCorrect, PTL DEF Spec, Supervised, Abstract!Spec

-----------------------------------------------------------------------------
(* The truth of worker_state.  Only boot_worker overwrites what the worker  *)
(* has written; until the pulse is over the page may lie, and afterwards it *)
(* lies only if no acknowledgement can follow, so the supervisor never      *)
(* sees it.                                                                 *)
HonestInv ==
  /\ Loc \in SupervisorPcs \cup {"watchdog", "restart_stale", "entry", "active", "prep",
                               "announce"}
     => HonestState
  /\ Loc = "wait" => HonestState \/ (~ctl.worker_boot_ack /\ w.pc \notin {"off", "start"})

(* Every step preserves it.                                                 *)
LEMMA HonestStep ==
  ASSUME TypeOK, HonestInv, HandshakeInv, Next
  PROVE  HonestInv'
<1>0. TypeOK /\ ctl \in CtlType /\ k \in KernelType /\ w \in WorkerType
      /\ d \in WatchdogType /\ core \in CoreType
  BY DEF TypeOK
<1>1. CASE WorkerRuns
  <2> USE <1>0
      DEF HonestInv, CtlType, Loc, HonestState, HandshakeInv, BootingPcs, RmwPcs,
          SupervisorPcs, PanicPcs, FinalPcs, PlainPcs, BootPcs, WorkerType, ReturnPcs,
          WorkerRuns
  <2>1. CASE WorkerStart  BY <1>1, <2>1 DEF WorkerStart
  <2>2. CASE WorkerIdle  BY <1>1, <2>2 DEF WorkerIdle
  <2>3. CASE WorkerAck  BY <1>1, <2>3 DEF WorkerAck
  <2>4. CASE WorkerDispatch  BY <1>1, <2>4 DEF WorkerDispatch, Handler
  <2>5. CASE WorkerBoot  BY <1>1, <2>5 DEF WorkerBoot
  <2>6. CASE WorkerClear  BY <1>1, <2>6 DEF WorkerClear
  <2>7. CASE WorkerJobBegin  BY <1>1, <2>7 DEF WorkerJobBegin
  <2>8. CASE WorkerJobStep  BY <1>1, <2>8 DEF WorkerJobStep
  <2>9. CASE WorkerJobCancel  BY <1>1, <2>9 DEF WorkerJobCancel
  <2>10. CASE WorkerJobDone  BY <1>1, <2>10 DEF WorkerJobDone
  <2>11. CASE WorkerFault  BY <1>1, <2>11 DEF WorkerFault
  <2>12. CASE WorkerStop  BY <1>1, <2>12 DEF WorkerStop
  <2>13. CASE WorkerTrapFlags  BY <1>1, <2>13 DEF WorkerTrapFlags
  <2>14. CASE WorkerTrapStore  BY <1>1, <2>14 DEF WorkerTrapStore
  <2>15. CASE WorkerTrapState  BY <1>1, <2>15 DEF WorkerTrapState
  <2>16. CASE WorkerTrapStage  BY <1>1, <2>16 DEF WorkerTrapStage
  <2>17. QED
    BY <1>1, <2>1, <2>2, <2>3, <2>4, <2>5, <2>6, <2>7, <2>8, <2>9, <2>10, <2>11, <2>12,
        <2>13, <2>14, <2>15, <2>16
    DEF WorkerRuns, WorkerStep
<1>2. CASE WorkerTraps
  BY <1>0, <1>2
  DEF WorkerTraps, WorkerTrap, RunningPcs, HonestInv, CtlType, Loc, HonestState,
      HandshakeInv, BootingPcs, RmwPcs, SupervisorPcs, PanicPcs, FinalPcs, PlainPcs,
      BootPcs, WorkerType, ReturnPcs
<1>3. CASE WatchdogRuns
  BY <1>0, <1>3
  DEF WatchdogRuns, WatchdogStep, WatchdogMain, WatchdogAt, WatchdogKernelAlive,
      WatchdogKernelQuiet, WatchdogKernelTimeout, WatchdogWorkerAlive, WatchdogWorkerQuiet,
      WatchdogWorkerTimeout, WatchdogSignal, WatchdogSignalStore, HonestInv, CtlType, Loc,
      HonestState, HandshakeInv, BootingPcs, RmwPcs, SupervisorPcs, PanicPcs, FinalPcs,
      PlainPcs, BootPcs, WatchdogType
<1>4. CASE KernelOrLoad \/ KernelStore \/ KernelPanicStage \/ KernelTrap
  <2> USE <1>0
      DEF HonestInv, CtlType, Loc, HonestState, HandshakeInv, BootingPcs, RmwPcs,
          SupervisorPcs, PanicPcs, FinalPcs, PlainPcs, BootPcs, KernelType, WorkerType,
          CoreType
  <2>1. CASE KernelOrLoad  BY <1>4, <2>1 DEF KernelOrLoad
  <2>2. CASE KernelStore  BY <1>4, <2>2 DEF KernelStore
  <2>3. CASE KernelPanicStage  BY <1>4, <2>3 DEF KernelPanicStage
  <2>4. CASE KernelTrap  BY <1>4, <2>4 DEF KernelTrap
  <2>5. QED  BY <1>4, <2>1, <2>2, <2>3, <2>4
<1>5. CASE KernelBoots
  <2> USE <1>0
      DEF HonestInv, CtlType, Loc, HonestState, HandshakeInv, BootingPcs, RmwPcs,
          SupervisorPcs, PanicPcs, FinalPcs, PlainPcs, BootPcs, KernelType, WorkerType,
          CoreType
  <2>0. CASE KernelEntry  BY <1>5, <2>0 DEF KernelEntry, Modify
  <2>1. CASE KernelActive  BY <1>5, <2>1 DEF KernelActive
  <2>2. CASE KernelImagePresent  BY <1>5, <2>2 DEF KernelImagePresent
  <2>3. CASE KernelStageImage  BY <1>5, <2>3 DEF KernelStageImage, Modify
  <2>4. CASE KernelNoImage  BY <1>5, <2>4 DEF KernelNoImage, Panic
  <2>5. CASE KernelAnnounce  BY <1>5, <2>5 DEF KernelAnnounce
  <2>6. CASE KernelCmdBoot  BY <1>5, <2>6 DEF KernelCmdBoot
  <2>7. CASE KernelCmdSeq  BY <1>5, <2>7 DEF KernelCmdSeq
  <2>8. CASE KernelEnable  BY <1>5, <2>8, EnableFacts
  <2>9. CASE KernelAssertReset
    BY <1>5, <2>9
    DEF KernelAssertReset, Power, HeldWorker, StartedWorker
  <2>10. CASE KernelDeassertReset
    BY <1>5, <2>10
    DEF KernelDeassertReset, Power, Released, HeldWorker, StartedWorker
  <2>11. CASE KernelReleaseFails  BY <1>5, <2>11 DEF KernelReleaseFails, Panic
  <2>12. CASE KernelAckMissing  BY <1>5, <2>12 DEF KernelAckMissing
  <2>13. CASE KernelAckSeen  BY <1>5, <2>13 DEF KernelAckSeen, WorkerOnline
  <2>14. CASE KernelAckTimeout  BY <1>5, <2>14 DEF KernelAckTimeout, Panic
  <2>15. CASE KernelStartWatchdog
    BY <1>5, <2>15
    DEF KernelStartWatchdog, EnsureWatchdogStarted, WatchdogAt
  <2>16. QED
    BY <1>5, <2>0, <2>1, <2>2, <2>3, <2>4, <2>5, <2>6, <2>7, <2>8, <2>9, <2>10, <2>11, <2>12,
        <2>13, <2>14, <2>15
    DEF KernelBoots
<1>6. CASE KernelSupervises
  <2> USE <1>0
      DEF HonestInv, CtlType, Loc, HonestState, HandshakeInv, BootingPcs, RmwPcs,
          SupervisorPcs, PanicPcs, FinalPcs, PlainPcs, BootPcs, KernelType, WorkerType,
          CoreType
  <2>1. CASE KernelWatchdogTimeout  BY <1>6, <2>1 DEF KernelWatchdogTimeout, Panic
  <2>2. CASE KernelPet  BY <1>6, <2>2 DEF KernelPet
  <2>3. CASE KernelConsoleLine  BY <1>6, <2>3 DEF KernelConsoleLine
  <2>4. CASE KernelConsoleSeq  BY <1>6, <2>4 DEF KernelConsoleSeq
  <2>5. CASE KernelConsoleDone  BY <1>6, <2>5 DEF KernelConsoleDone
  <2>6. CASE KernelSample  BY <1>6, <2>6 DEF KernelSample
  <2>7. CASE KernelJudgeFault  BY <1>6, <2>7 DEF KernelJudgeFault, Restart
  <2>8. CASE KernelJudgeStale  BY <1>6, <2>8 DEF KernelJudgeStale, Modify
  <2>9. CASE KernelRestartStale  BY <1>6, <2>9 DEF KernelRestartStale, Restart
  <2>10. CASE KernelJudgeHealthy  BY <1>6, <2>10 DEF KernelJudgeHealthy
  <2>11. QED
    BY <1>6, <2>1, <2>2, <2>3, <2>4, <2>5, <2>6, <2>7, <2>8, <2>9, <2>10
    DEF KernelSupervises
<1>7. QED  BY <1>1, <1>2, <1>3, <1>4, <1>5, <1>6 DEF Next, KernelStep

(* At every point of the supervisor loop worker_state tells the truth about *)
(* the worker core: the page never hides a dead or stopped worker from the  *)
(* supervisor, nor shows the 8051 a job that is not running.                *)
THEOREM WorkerStateHonestHolds ==
  ASSUME ResetHook => CoreInReset
  PROVE  Spec => []WorkerStateHonest
<1>1. Init => HandshakeInv /\ HonestInv
  BY HandshakeInit
  DEF Init, HonestInv, HonestState, Loc, KernelAtEntry, HeldWorker, CtlHandoff, CtlZero,
     RmwPcs, SupervisorPcs
<1>2. TypeInv /\ HandshakeInv /\ HonestInv /\ [Next]_vars => HandshakeInv' /\ HonestInv'
  <2>1. TypeInv /\ HandshakeInv /\ HonestInv /\ Next => HandshakeInv' /\ HonestInv'
    BY HandshakeStep, HonestStep DEF TypeInv
  <2>2. HandshakeInv /\ UNCHANGED vars => HandshakeInv'
    BY DEF vars, HandshakeInv, OnlineMeansBooted, Online, Loc
  <2>3. HonestInv /\ UNCHANGED vars => HonestInv'
    BY DEF vars, HonestInv, HonestState, Loc
  <2>4. QED  BY <2>1, <2>2, <2>3
<1>3. HonestInv => WorkerStateHonest  BY DEF HonestInv, WorkerStateHonest
<1>4. QED  BY <1>1, <1>2, <1>3, TypeCorrect, PTL DEF Spec

-----------------------------------------------------------------------------
(* The watchdog's signal.  Every copy of system_flags in flight counts: the *)
(* page, and the words the kernel and the worker have loaded and not yet    *)
(* stored.  No stage is ever below STAGE_WATCHDOG_BOOT, so                  *)
(* ensure_watchdog_started restarts nothing.                                *)
SignalInv ==
  /\ ctl.system_stage >= STAGE_WATCHDOG_BOOT
  /\ "WATCHDOG_TIMEOUT" \in ctl.system_flags => d.pc = "spin"
  /\ "WATCHDOG_TIMEOUT" \in k.reg => d.pc = "spin"
  /\ "WATCHDOG_TIMEOUT" \in w.reg => d.pc = "spin"
  /\ Loc \in {"reset_stage", "reset"} => d.pc = "spin"
  /\ ~BootCodeStarts8051 => d.pc = "off"

(* The hand-off page carries no signal.                                     *)
LEMMA SignalInit == Init => SignalInv
  BY DEF Init, SignalInv, HeldWorker, KernelAtEntry, CtlHandoff, CtlZero, Loc, RmwPcs, WatchdogAt,
         STAGE_WATCHDOG_BOOT, STAGE_KERNEL_ENTRY

(* Every step preserves it.                                                 *)
LEMMA SignalStep ==
  ASSUME TypeOK, SignalInv, Next
  PROVE  SignalInv'
<1>0. TypeOK /\ ctl \in CtlType /\ k \in KernelType /\ w \in WorkerType
      /\ d \in WatchdogType /\ core \in CoreType
  BY DEF TypeOK
<1> USE
    DEF STAGE_WATCHDOG_BOOT, STAGE_WORKER_PREP, STAGE_WORKER_RELEASE, STAGE_WORKER_WAIT_ACK,
            STAGE_OS_RUNNING, STAGE_PANIC
<1>1. CASE WorkerRuns
  <2> USE <1>0
      DEF SignalInv, CtlType, Loc, RmwPcs, SupervisorPcs, PanicPcs, FinalPcs, PlainPcs,
          BootPcs, WorkerType, ReturnPcs, WorkerRuns
  <2>1. CASE WorkerStart  BY <1>1, <2>1 DEF WorkerStart
  <2>2. CASE WorkerIdle  BY <1>1, <2>2 DEF WorkerIdle
  <2>3. CASE WorkerAck  BY <1>1, <2>3 DEF WorkerAck
  <2>4. CASE WorkerDispatch  BY <1>1, <2>4 DEF WorkerDispatch, Handler
  <2>5. CASE WorkerBoot  BY <1>1, <2>5 DEF WorkerBoot
  <2>6. CASE WorkerClear  BY <1>1, <2>6 DEF WorkerClear
  <2>7. CASE WorkerJobBegin  BY <1>1, <2>7 DEF WorkerJobBegin
  <2>8. CASE WorkerJobStep  BY <1>1, <2>8 DEF WorkerJobStep
  <2>9. CASE WorkerJobCancel  BY <1>1, <2>9 DEF WorkerJobCancel
  <2>10. CASE WorkerJobDone  BY <1>1, <2>10 DEF WorkerJobDone
  <2>11. CASE WorkerFault  BY <1>1, <2>11 DEF WorkerFault
  <2>12. CASE WorkerStop  BY <1>1, <2>12 DEF WorkerStop
  <2>13. CASE WorkerTrapFlags  BY <1>1, <2>13 DEF WorkerTrapFlags
  <2>14. CASE WorkerTrapStore  BY <1>1, <2>14 DEF WorkerTrapStore
  <2>15. CASE WorkerTrapState  BY <1>1, <2>15 DEF WorkerTrapState
  <2>16. CASE WorkerTrapStage  BY <1>1, <2>16 DEF WorkerTrapStage
  <2>17. QED
    BY <1>1, <2>1, <2>2, <2>3, <2>4, <2>5, <2>6, <2>7, <2>8, <2>9, <2>10, <2>11, <2>12,
        <2>13, <2>14, <2>15, <2>16
    DEF WorkerRuns, WorkerStep
<1>2. CASE WorkerTraps
  BY <1>0, <1>2
  DEF WorkerTraps, WorkerTrap, SignalInv, CtlType, Loc, RmwPcs, SupervisorPcs, PanicPcs,
      FinalPcs, PlainPcs, BootPcs, WorkerType, ReturnPcs
<1>3. CASE WatchdogRuns
  <2> USE <1>0
      DEF SignalInv, CtlType, Loc, RmwPcs, SupervisorPcs, PanicPcs, FinalPcs, PlainPcs,
          BootPcs, WatchdogType, WatchdogRuns
  <2>1. CASE WatchdogMain  BY <1>3, <2>1 DEF WatchdogMain, WatchdogAt
  <2>2. CASE WatchdogKernelAlive  BY <1>3, <2>2 DEF WatchdogKernelAlive
  <2>3. CASE WatchdogKernelQuiet  BY <1>3, <2>3 DEF WatchdogKernelQuiet
  <2>4. CASE WatchdogKernelTimeout  BY <1>3, <2>4 DEF WatchdogKernelTimeout
  <2>5. CASE WatchdogWorkerAlive  BY <1>3, <2>5 DEF WatchdogWorkerAlive
  <2>6. CASE WatchdogWorkerQuiet  BY <1>3, <2>6 DEF WatchdogWorkerQuiet
  <2>7. CASE WatchdogWorkerTimeout  BY <1>3, <2>7 DEF WatchdogWorkerTimeout
  <2>8. CASE WatchdogSignal  BY <1>3, <2>8 DEF WatchdogSignal
  <2>9. CASE WatchdogSignalStore  BY <1>3, <2>9 DEF WatchdogSignalStore
  <2>10. QED
    BY <1>3, <2>1, <2>2, <2>3, <2>4, <2>5, <2>6, <2>7, <2>8, <2>9
    DEF WatchdogRuns, WatchdogStep
<1>4. CASE KernelOrLoad \/ KernelStore \/ KernelPanicStage \/ KernelTrap
  <2> USE <1>0
      DEF SignalInv, CtlType, Loc, RmwPcs, SupervisorPcs, PanicPcs, FinalPcs, PlainPcs,
          BootPcs, KernelType, WorkerType, CoreType
  <2>1. CASE KernelOrLoad  BY <1>4, <2>1 DEF KernelOrLoad
  <2>2. CASE KernelStore  BY <1>4, <2>2 DEF KernelStore
  <2>3. CASE KernelPanicStage  BY <1>4, <2>3 DEF KernelPanicStage
  <2>4. CASE KernelTrap  BY <1>4, <2>4 DEF KernelTrap
  <2>5. QED  BY <1>4, <2>1, <2>2, <2>3, <2>4
<1>5. CASE KernelBoots
  <2> USE <1>0
      DEF SignalInv, CtlType, Loc, RmwPcs, SupervisorPcs, PanicPcs, FinalPcs, PlainPcs,
          BootPcs, KernelType, WorkerType, CoreType
  <2>0. CASE KernelEntry  BY <1>5, <2>0 DEF KernelEntry, Modify
  <2>1. CASE KernelActive  BY <1>5, <2>1 DEF KernelActive
  <2>2. CASE KernelImagePresent  BY <1>5, <2>2 DEF KernelImagePresent
  <2>3. CASE KernelStageImage  BY <1>5, <2>3 DEF KernelStageImage, Modify
  <2>4. CASE KernelNoImage  BY <1>5, <2>4 DEF KernelNoImage, Panic
  <2>5. CASE KernelAnnounce  BY <1>5, <2>5 DEF KernelAnnounce
  <2>6. CASE KernelCmdBoot  BY <1>5, <2>6 DEF KernelCmdBoot
  <2>7. CASE KernelCmdSeq  BY <1>5, <2>7 DEF KernelCmdSeq
  <2>8. CASE KernelEnable  BY <1>5, <2>8, EnableFacts
  <2>9. CASE KernelAssertReset
    BY <1>5, <2>9
    DEF KernelAssertReset, Power, HeldWorker, StartedWorker
  <2>10. CASE KernelDeassertReset
    BY <1>5, <2>10
    DEF KernelDeassertReset, Power, Released, HeldWorker, StartedWorker
  <2>11. CASE KernelReleaseFails  BY <1>5, <2>11 DEF KernelReleaseFails, Panic
  <2>12. CASE KernelAckMissing  BY <1>5, <2>12 DEF KernelAckMissing
  <2>13. CASE KernelAckSeen  BY <1>5, <2>13 DEF KernelAckSeen, WorkerOnline
  <2>14. CASE KernelAckTimeout  BY <1>5, <2>14 DEF KernelAckTimeout, Panic
  <2>15. CASE KernelStartWatchdog
    BY <1>5, <2>15
    DEF KernelStartWatchdog, EnsureWatchdogStarted, WatchdogAt
  <2>16. QED
    BY <1>5, <2>0, <2>1, <2>2, <2>3, <2>4, <2>5, <2>6, <2>7, <2>8, <2>9, <2>10, <2>11, <2>12,
        <2>13, <2>14, <2>15
    DEF KernelBoots
<1>6. CASE KernelSupervises
  <2> USE <1>0
      DEF SignalInv, CtlType, Loc, RmwPcs, SupervisorPcs, PanicPcs, FinalPcs, PlainPcs,
          BootPcs, KernelType, WorkerType, CoreType
  <2>1. CASE KernelWatchdogTimeout  BY <1>6, <2>1 DEF KernelWatchdogTimeout, Panic
  <2>2. CASE KernelPet  BY <1>6, <2>2 DEF KernelPet
  <2>3. CASE KernelConsoleLine  BY <1>6, <2>3 DEF KernelConsoleLine
  <2>4. CASE KernelConsoleSeq  BY <1>6, <2>4 DEF KernelConsoleSeq
  <2>5. CASE KernelConsoleDone  BY <1>6, <2>5 DEF KernelConsoleDone
  <2>6. CASE KernelSample  BY <1>6, <2>6 DEF KernelSample
  <2>7. CASE KernelJudgeFault  BY <1>6, <2>7 DEF KernelJudgeFault, Restart
  <2>8. CASE KernelJudgeStale  BY <1>6, <2>8 DEF KernelJudgeStale, Modify
  <2>9. CASE KernelRestartStale  BY <1>6, <2>9 DEF KernelRestartStale, Restart
  <2>10. CASE KernelJudgeHealthy  BY <1>6, <2>10 DEF KernelJudgeHealthy
  <2>11. QED
    BY <1>6, <2>1, <2>2, <2>3, <2>4, <2>5, <2>6, <2>7, <2>8, <2>9, <2>10
    DEF KernelSupervises
<1>7. QED  BY <1>1, <1>2, <1>3, <1>4, <1>5, <1>6 DEF Next, KernelStep

(* The strengthened invariant holds of every behaviour.                     *)
LEMMA SignalHolds == Spec => []SignalInv
<1>1. TypeInv /\ SignalInv /\ [Next]_vars => SignalInv'
  <2>1. TypeInv /\ SignalInv /\ Next => SignalInv'  BY SignalStep DEF TypeInv
  <2>2. SignalInv /\ UNCHANGED vars => SignalInv'  BY DEF vars, SignalInv, Loc
  <2>3. QED  BY <2>1, <2>2
<1>2. QED  BY <1>1, SignalInit, TypeCorrect, PTL DEF Spec

(* However the three unlocked read-modify-writes of system_flags interleave,*)
(* the kernel requests a watchdog reset only after the 8051 has signalled.  *)
THEOREM ResetOnlyOnWatchdogHolds == Spec => []ResetOnlyOnWatchdog
<1>1. SignalInv => ResetOnlyOnWatchdog  BY DEF SignalInv, ResetOnlyOnWatchdog, Loc, RmwPcs
<1>2. QED  BY <1>1, SignalHolds, PTL

(* ensure_watchdog_started (main.c:389) never starts the 8051: unless other *)
(* boot code has released it, it stays in reset whatever the system does.   *)
THEOREM WatchdogNeverStarted ==
  ASSUME ~BootCodeStarts8051
  PROVE  Spec => [](d.pc = "off")
<1>1. SignalInv => d.pc = "off"  BY DEF SignalInv
<1>2. QED  BY <1>1, SignalHolds, PTL

-----------------------------------------------------------------------------
(* The transient flags.  wait_for_worker_ack stores a word without them,    *)
(* and what a live processor stores afterwards was loaded afterwards.       *)
TransientFlags == {"WORKER_RESTARTING", "WORKER_STALE"}

TransientInv ==
  /\ k.pc = "or_load" => k.next \in PanicPcs \cup {"prep"}
  /\ k.pc = "store" /\ k.next \in SupervisorPcs \cup {"watchdog"}
     => TransientFlags \cap k.reg = {}
  /\ k.pc \in SupervisorPcs \cup {"watchdog"} /\ TransientFlags \cap ctl.system_flags # {}
     => w.pc \in {"trap_state", "trap_stage", "dead"} \/ d.pc = "spin"

(* Every step preserves it.                                                 *)
LEMMA TransientStep ==
  ASSUME TypeOK, TransientInv, SignalInv, Next
  PROVE  TransientInv'
<1>0. TypeOK /\ ctl \in CtlType /\ k \in KernelType /\ w \in WorkerType
      /\ d \in WatchdogType /\ core \in CoreType
  BY DEF TypeOK
<1>1. CASE WorkerRuns
  BY <1>0, <1>1
  DEF WorkerRuns, WorkerStep, WorkerStart, WorkerIdle, WorkerAck, WorkerDispatch, Handler,
      WorkerBoot, WorkerClear, WorkerJobBegin, WorkerJobStep, WorkerJobCancel,
      WorkerJobDone, WorkerFault, WorkerStop, WorkerTrapFlags, WorkerTrapStore,
      WorkerTrapState, WorkerTrapStage, TransientInv, CtlType, Loc, RmwPcs, SupervisorPcs,
      PanicPcs, FinalPcs, PlainPcs, BootPcs, TransientFlags, SignalInv, WorkerType,
      ReturnPcs
<1>2. CASE WorkerTraps
  BY <1>0, <1>2
  DEF WorkerTraps, WorkerTrap, RunningPcs, TransientInv, CtlType, Loc, RmwPcs,
      SupervisorPcs, PanicPcs, FinalPcs, PlainPcs, BootPcs, TransientFlags, SignalInv,
      WorkerType, ReturnPcs
<1>3. CASE WatchdogRuns
  BY <1>0, <1>3
  DEF WatchdogRuns, WatchdogStep, WatchdogMain, WatchdogAt, WatchdogKernelAlive,
      WatchdogKernelQuiet, WatchdogKernelTimeout, WatchdogWorkerAlive, WatchdogWorkerQuiet,
      WatchdogWorkerTimeout, WatchdogSignal, WatchdogSignalStore, TransientInv, CtlType,
      Loc, RmwPcs, SupervisorPcs, PanicPcs, FinalPcs, PlainPcs, BootPcs, TransientFlags,
      SignalInv, WatchdogType
<1>4. CASE KernelOrLoad \/ KernelStore \/ KernelPanicStage \/ KernelTrap
  <2> USE <1>0
      DEF TransientInv, CtlType, Loc, RmwPcs, SupervisorPcs, PanicPcs, FinalPcs, PlainPcs,
          BootPcs, TransientFlags, SignalInv, KernelType, WorkerType, CoreType
  <2>1. CASE KernelOrLoad  BY <1>4, <2>1 DEF KernelOrLoad
  <2>2. CASE KernelStore  BY <1>4, <2>2 DEF KernelStore
  <2>3. CASE KernelPanicStage  BY <1>4, <2>3 DEF KernelPanicStage
  <2>4. CASE KernelTrap  BY <1>4, <2>4 DEF KernelTrap
  <2>5. QED  BY <1>4, <2>1, <2>2, <2>3, <2>4
<1>5. CASE KernelBoots
  <2> USE <1>0
      DEF TransientInv, CtlType, Loc, RmwPcs, SupervisorPcs, PanicPcs, FinalPcs, PlainPcs,
          BootPcs, TransientFlags, SignalInv, KernelType, WorkerType, CoreType
  <2>0. CASE KernelEntry  BY <1>5, <2>0 DEF KernelEntry, Modify
  <2>1. CASE KernelActive  BY <1>5, <2>1 DEF KernelActive
  <2>2. CASE KernelImagePresent  BY <1>5, <2>2 DEF KernelImagePresent
  <2>3. CASE KernelStageImage  BY <1>5, <2>3 DEF KernelStageImage, Modify
  <2>4. CASE KernelNoImage  BY <1>5, <2>4 DEF KernelNoImage, Panic
  <2>5. CASE KernelAnnounce  BY <1>5, <2>5 DEF KernelAnnounce
  <2>6. CASE KernelCmdBoot  BY <1>5, <2>6 DEF KernelCmdBoot
  <2>7. CASE KernelCmdSeq  BY <1>5, <2>7 DEF KernelCmdSeq
  <2>8. CASE KernelEnable  BY <1>5, <2>8, EnableFacts
  <2>9. CASE KernelAssertReset
    BY <1>5, <2>9
    DEF KernelAssertReset, Power, HeldWorker, StartedWorker
  <2>10. CASE KernelDeassertReset
    BY <1>5, <2>10
    DEF KernelDeassertReset, Power, Released, HeldWorker, StartedWorker
  <2>11. CASE KernelReleaseFails  BY <1>5, <2>11 DEF KernelReleaseFails, Panic
  <2>12. CASE KernelAckMissing  BY <1>5, <2>12 DEF KernelAckMissing
  <2>13. CASE KernelAckSeen  BY <1>5, <2>13 DEF KernelAckSeen, WorkerOnline
  <2>14. CASE KernelAckTimeout  BY <1>5, <2>14 DEF KernelAckTimeout, Panic
  <2>15. CASE KernelStartWatchdog
    BY <1>5, <2>15
    DEF KernelStartWatchdog, EnsureWatchdogStarted, WatchdogAt
  <2>16. QED
    BY <1>5, <2>0, <2>1, <2>2, <2>3, <2>4, <2>5, <2>6, <2>7, <2>8, <2>9, <2>10, <2>11, <2>12,
        <2>13, <2>14, <2>15
    DEF KernelBoots
<1>6. CASE KernelSupervises
  <2> USE <1>0
      DEF TransientInv, CtlType, Loc, RmwPcs, SupervisorPcs, PanicPcs, FinalPcs, PlainPcs,
          BootPcs, TransientFlags, SignalInv, KernelType, WorkerType, CoreType
  <2>1. CASE KernelWatchdogTimeout  BY <1>6, <2>1 DEF KernelWatchdogTimeout, Panic
  <2>2. CASE KernelPet  BY <1>6, <2>2 DEF KernelPet
  <2>3. CASE KernelConsoleLine  BY <1>6, <2>3 DEF KernelConsoleLine
  <2>4. CASE KernelConsoleSeq  BY <1>6, <2>4 DEF KernelConsoleSeq
  <2>5. CASE KernelConsoleDone  BY <1>6, <2>5 DEF KernelConsoleDone
  <2>6. CASE KernelSample  BY <1>6, <2>6 DEF KernelSample
  <2>7. CASE KernelJudgeFault  BY <1>6, <2>7 DEF KernelJudgeFault, Restart
  <2>8. CASE KernelJudgeStale  BY <1>6, <2>8 DEF KernelJudgeStale, Modify
  <2>9. CASE KernelRestartStale  BY <1>6, <2>9 DEF KernelRestartStale, Restart
  <2>10. CASE KernelJudgeHealthy  BY <1>6, <2>10 DEF KernelJudgeHealthy
  <2>11. QED
    BY <1>6, <2>1, <2>2, <2>3, <2>4, <2>5, <2>6, <2>7, <2>8, <2>9, <2>10
    DEF KernelSupervises
<1>7. QED  BY <1>1, <1>2, <1>3, <1>4, <1>5, <1>6 DEF Next, KernelStep

(* The comment at main.c:103: in the supervisor loop the restart and stale  *)
(* flags are clear unless a processor that has died since brought them back.*)
THEOREM TransientFlagsClearHolds == Spec => []TransientFlagsClear
<1>1. Init => TransientInv
  BY DEF Init, TransientInv, KernelAtEntry, SupervisorPcs
<1>2. TypeInv /\ SignalInv /\ TransientInv /\ [Next]_vars => TransientInv'
  <2>1. TypeInv /\ SignalInv /\ TransientInv /\ Next => TransientInv'
    BY TransientStep DEF TypeInv
  <2>2. TransientInv /\ UNCHANGED vars => TransientInv'  BY DEF vars, TransientInv
  <2>3. QED  BY <2>1, <2>2
<1>3. TransientInv => TransientFlagsClear
  BY DEF TransientInv, TransientFlagsClear, TransientFlags
<1>4. QED  BY <1>1, <1>2, <1>3, SignalHolds, TypeCorrect, PTL DEF Spec

-----------------------------------------------------------------------------
(* The record a kernel leaves when it gives up.                             *)
EndInv ==
  /\ k.pc \in RmwPcs => k.next \notin FinalPcs
  /\ Loc \in PanicPcs => ctl.reset_reason # "NO_REASON"
  /\ KernelEnded => ctl.system_stage = STAGE_PANIC

(* Every step preserves it.                                                 *)
LEMMA EndStep ==
  ASSUME TypeOK, EndInv, Next
  PROVE  EndInv'
<1>0. TypeOK /\ ctl \in CtlType /\ k \in KernelType /\ w \in WorkerType
      /\ d \in WatchdogType /\ core \in CoreType
  BY DEF TypeOK
<1>1. CASE WorkerRuns
  BY <1>0, <1>1
  DEF WorkerRuns, WorkerStep, WorkerStart, WorkerIdle, WorkerAck, WorkerDispatch, Handler,
      WorkerBoot, WorkerClear, WorkerJobBegin, WorkerJobStep, WorkerJobCancel,
      WorkerJobDone, WorkerFault, WorkerStop, WorkerTrapFlags, WorkerTrapStore,
      WorkerTrapState, WorkerTrapStage, EndInv, CtlType, Loc, KernelEnded, RmwPcs,
      SupervisorPcs, PanicPcs, FinalPcs, PlainPcs, BootPcs, WorkerType, ReturnPcs
<1>2. CASE WorkerTraps
  BY <1>0, <1>2
  DEF WorkerTraps, WorkerTrap, EndInv, CtlType, Loc, KernelEnded, RmwPcs, SupervisorPcs,
      PanicPcs, FinalPcs, PlainPcs, BootPcs, WorkerType, ReturnPcs
<1>3. CASE WatchdogRuns
  BY <1>0, <1>3
  DEF WatchdogRuns, WatchdogStep, WatchdogMain, WatchdogAt, WatchdogKernelAlive,
      WatchdogKernelQuiet, WatchdogKernelTimeout, WatchdogWorkerAlive, WatchdogWorkerQuiet,
      WatchdogWorkerTimeout, WatchdogSignal, WatchdogSignalStore, EndInv, CtlType, Loc,
      KernelEnded, RmwPcs, SupervisorPcs, PanicPcs, FinalPcs, PlainPcs, BootPcs,
      WatchdogType
<1>4. CASE KernelOrLoad \/ KernelStore \/ KernelPanicStage \/ KernelTrap
  <2> USE <1>0
      DEF EndInv, CtlType, Loc, KernelEnded, RmwPcs, SupervisorPcs, PanicPcs, FinalPcs,
          PlainPcs, BootPcs, KernelType, WorkerType, CoreType
  <2>1. CASE KernelOrLoad  BY <1>4, <2>1 DEF KernelOrLoad
  <2>2. CASE KernelStore  BY <1>4, <2>2 DEF KernelStore
  <2>3. CASE KernelPanicStage  BY <1>4, <2>3 DEF KernelPanicStage
  <2>4. CASE KernelTrap  BY <1>4, <2>4 DEF KernelTrap
  <2>5. QED  BY <1>4, <2>1, <2>2, <2>3, <2>4
<1>5. CASE KernelBoots
  <2> USE <1>0
      DEF EndInv, CtlType, Loc, KernelEnded, RmwPcs, SupervisorPcs, PanicPcs, FinalPcs,
          PlainPcs, BootPcs, KernelType, WorkerType, CoreType
  <2>0. CASE KernelEntry  BY <1>5, <2>0 DEF KernelEntry, Modify
  <2>1. CASE KernelActive  BY <1>5, <2>1 DEF KernelActive
  <2>2. CASE KernelImagePresent  BY <1>5, <2>2 DEF KernelImagePresent
  <2>3. CASE KernelStageImage  BY <1>5, <2>3 DEF KernelStageImage, Modify
  <2>4. CASE KernelNoImage  BY <1>5, <2>4 DEF KernelNoImage, Panic
  <2>5. CASE KernelAnnounce  BY <1>5, <2>5 DEF KernelAnnounce
  <2>6. CASE KernelCmdBoot  BY <1>5, <2>6 DEF KernelCmdBoot
  <2>7. CASE KernelCmdSeq  BY <1>5, <2>7 DEF KernelCmdSeq
  <2>8. CASE KernelEnable  BY <1>5, <2>8, EnableFacts
  <2>9. CASE KernelAssertReset
    BY <1>5, <2>9
    DEF KernelAssertReset, Power, HeldWorker, StartedWorker
  <2>10. CASE KernelDeassertReset
    BY <1>5, <2>10
    DEF KernelDeassertReset, Power, Released, HeldWorker, StartedWorker
  <2>11. CASE KernelReleaseFails  BY <1>5, <2>11 DEF KernelReleaseFails, Panic
  <2>12. CASE KernelAckMissing  BY <1>5, <2>12 DEF KernelAckMissing
  <2>13. CASE KernelAckSeen  BY <1>5, <2>13 DEF KernelAckSeen, WorkerOnline
  <2>14. CASE KernelAckTimeout  BY <1>5, <2>14 DEF KernelAckTimeout, Panic
  <2>15. CASE KernelStartWatchdog
    BY <1>5, <2>15
    DEF KernelStartWatchdog, EnsureWatchdogStarted, WatchdogAt
  <2>16. QED
    BY <1>5, <2>0, <2>1, <2>2, <2>3, <2>4, <2>5, <2>6, <2>7, <2>8, <2>9, <2>10, <2>11, <2>12,
        <2>13, <2>14, <2>15
    DEF KernelBoots
<1>6. CASE KernelSupervises
  <2> USE <1>0
      DEF EndInv, CtlType, Loc, KernelEnded, RmwPcs, SupervisorPcs, PanicPcs, FinalPcs,
          PlainPcs, BootPcs, KernelType, WorkerType, CoreType
  <2>1. CASE KernelWatchdogTimeout  BY <1>6, <2>1 DEF KernelWatchdogTimeout, Panic
  <2>2. CASE KernelPet  BY <1>6, <2>2 DEF KernelPet
  <2>3. CASE KernelConsoleLine  BY <1>6, <2>3 DEF KernelConsoleLine
  <2>4. CASE KernelConsoleSeq  BY <1>6, <2>4 DEF KernelConsoleSeq
  <2>5. CASE KernelConsoleDone  BY <1>6, <2>5 DEF KernelConsoleDone
  <2>6. CASE KernelSample  BY <1>6, <2>6 DEF KernelSample
  <2>7. CASE KernelJudgeFault  BY <1>6, <2>7 DEF KernelJudgeFault, Restart
  <2>8. CASE KernelJudgeStale  BY <1>6, <2>8 DEF KernelJudgeStale, Modify
  <2>9. CASE KernelRestartStale  BY <1>6, <2>9 DEF KernelRestartStale, Restart
  <2>10. CASE KernelJudgeHealthy  BY <1>6, <2>10 DEF KernelJudgeHealthy
  <2>11. QED
    BY <1>6, <2>1, <2>2, <2>3, <2>4, <2>5, <2>6, <2>7, <2>8, <2>9, <2>10
    DEF KernelSupervises
<1>7. QED  BY <1>1, <1>2, <1>3, <1>4, <1>5, <1>6 DEF Next, KernelStep

(* A kernel that has ended in the panic loop or the watchdog reset has left *)
(* STAGE_PANIC and a reset_reason for the next boot's summary, and no other *)
(* processor takes them away again.                                         *)
THEOREM EndIsRecordedHolds == Spec => []EndIsRecorded
<1>1. Init => EndInv
  BY DEF Init, EndInv, KernelAtEntry, Loc, KernelEnded, PanicPcs, FinalPcs, RmwPcs
<1>2. TypeInv /\ EndInv /\ [Next]_vars => EndInv'
  <2>1. TypeInv /\ EndInv /\ Next => EndInv'  BY EndStep DEF TypeInv
  <2>2. EndInv /\ UNCHANGED vars => EndInv'  BY DEF vars, EndInv, Loc, KernelEnded
  <2>3. QED  BY <2>1, <2>2
<1>3. EndInv => EndIsRecorded
  BY DEF EndInv, EndIsRecorded, KernelEnded, Loc, PanicPcs, FinalPcs, RmwPcs
<1>4. QED  BY <1>1, <1>2, <1>3, TypeCorrect, PTL DEF Spec
=============================================================================
