---------------------------- MODULE Watchdog8051 ----------------------------
(***************************************************************************)
(* watch8051/watchdog.c: the 8051 polls the kernel's pet sequence and the  *)
(* worker's heartbeat and, when one stays unchanged for too many polls,    *)
(* writes a reason and sets SYSF_WATCHDOG_TIMEOUT, once, then spins.       *)
(***************************************************************************)
EXTENDS SharedCtrl

CONSTANT PollLimit      \* 60000 in the firmware

(* ++timeout > PollLimit is computed in a uint16_t: 65535 must be reachable.*)
ASSUME PollLimitAssumption == PollLimit \in 1 .. 65534

VARIABLE d              \* the 8051's own state

(* pc              "off": in reset; "boot": released, main not yet entered  *)
(* kernel_timeout, worker_timeout   the two poll counters                   *)
(* reg             system_flags between the load and the store of the |=    *)
WatchdogPcs  == {"off", "boot", "poll_kernel", "poll_worker", "signal", "signal_store",
                 "spin"}
WatchdogType == [ pc : WatchdogPcs, kernel_timeout : 0 .. PollLimit + 1,
                  worker_timeout : 0 .. PollLimit + 1, reg : SUBSET SysFlags ]

WatchdogAt(pc) == [ pc |-> pc, kernel_timeout |-> 0, worker_timeout |-> 0, reg |-> {} ]

-----------------------------------------------------------------------------
WatchdogMain ==
  /\ d.pc = "boot"
  /\ ctl' = [ctl EXCEPT !.kernel_pet_seq = @ \ {"wdog"}, !.worker_heartbeat = @ \ {"wdog"}]
  /\ d' = WatchdogAt("poll_kernel")

(* kernel_pet_seq != last_pet: remember it and restart the count.           *)
WatchdogKernelAlive ==
  /\ d.pc = "poll_kernel"
  /\ "wdog" \in ctl.kernel_pet_seq
  /\ ctl' = [ctl EXCEPT !.kernel_pet_seq = @ \ {"wdog"}]
  /\ d' = [d EXCEPT !.pc = "poll_worker", !.kernel_timeout = 0]

WatchdogKernelQuiet ==
  /\ d.pc = "poll_kernel"
  /\ "wdog" \notin ctl.kernel_pet_seq
  /\ d.kernel_timeout < PollLimit
  /\ d' = [d EXCEPT !.pc = "poll_worker", !.kernel_timeout = @ + 1]
  /\ UNCHANGED ctl

WatchdogKernelTimeout ==
  /\ d.pc = "poll_kernel"
  /\ "wdog" \notin ctl.kernel_pet_seq
  /\ d.kernel_timeout = PollLimit
  /\ ctl' = [ctl EXCEPT !.reset_reason = "KERNEL_SILENT"]
  /\ d' = [d EXCEPT !.pc = "signal", !.kernel_timeout = @ + 1]

WatchdogWorkerAlive ==
  /\ d.pc = "poll_worker"
  /\ "wdog" \in ctl.worker_heartbeat
  /\ ctl' = [ctl EXCEPT !.worker_heartbeat = @ \ {"wdog"}]
  /\ d' = [d EXCEPT !.pc = "poll_kernel", !.worker_timeout = 0]

WatchdogWorkerQuietUnbounded ==   \* variant: counts past the limit
  /\ d.pc = "poll_worker"
  /\ "wdog" \notin ctl.worker_heartbeat
  /\ d' = [d EXCEPT !.pc = "poll_kernel",
                    !.worker_timeout = IF ctl.worker_state = "RUNNING" THEN @ + 1 ELSE @]
  /\ UNCHANGED ctl

(* An unchanged heartbeat only counts against a worker in CORE_RUNNING; the *)
(* count is kept while the worker is in another state.                      *)
WatchdogWorkerQuiet ==
  /\ d.pc = "poll_worker"
  /\ "wdog" \notin ctl.worker_heartbeat
  /\ ctl.worker_state = "RUNNING" => d.worker_timeout < PollLimit
  /\ d' = [d EXCEPT !.pc = "poll_kernel",
                    !.worker_timeout = IF ctl.worker_state = "RUNNING" THEN @ + 1 ELSE @]
  /\ UNCHANGED ctl

WatchdogWorkerTimeout ==
  /\ d.pc = "poll_worker"
  /\ "wdog" \notin ctl.worker_heartbeat
  /\ ctl.worker_state = "RUNNING"
  /\ d.worker_timeout = PollLimit
  /\ ctl' = [ctl EXCEPT !.reset_reason = "WORKER_SILENT"]
  /\ d' = [d EXCEPT !.pc = "signal", !.worker_timeout = @ + 1]

(* do_signal_reset: system_flags |= SYSF_WATCHDOG_TIMEOUT, a load and a     *)
(* store, then pet_hw for ever.                                             *)
WatchdogSignal ==
  /\ d.pc = "signal"
  /\ d' = [d EXCEPT !.pc = "signal_store", !.reg = ctl.system_flags \cup {"WATCHDOG_TIMEOUT"}]
  /\ UNCHANGED ctl

WatchdogSignalStore ==
  /\ d.pc = "signal_store"
  /\ ctl' = [ctl EXCEPT !.system_flags = d.reg]
  /\ d' = [d EXCEPT !.pc = "spin"]

WatchdogStep ==
  \/ WatchdogMain
  \/ WatchdogKernelAlive \/ WatchdogKernelQuiet \/ WatchdogKernelTimeout
  \/ WatchdogWorkerAlive \/ WatchdogWorkerQuiet \/ WatchdogWorkerTimeout
  \/ WatchdogSignal      \/ WatchdogSignalStore

=============================================================================
