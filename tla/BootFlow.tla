------------------------------ MODULE BootFlow ------------------------------
(***************************************************************************)
(* One boot after another, on the first core: the bootloader, which takes  *)
(* over the page the last run has left, keeps a summary of that run in the *)
(* persistent ring, formats the page, shows the summary and hands over to  *)
(* the kernel; then the run itself.  A warm reset may come between any two *)
(* stores and leaves both the page and the ring as they are; an exception  *)
(* ends the bootloader in kraken_trap_panic, which may run                 *)
(* ctl_init_defaults once more.                                            *)
(*                                                                         *)
(* Of the ring only the header's magic and last_* words are here: the      *)
(* records are PersistLog's.  ctl_set_stage, ctl_trace_log and             *)
(* ctl_fault_log append to the ring; on a formatted one that touches       *)
(* neither, and the bootloader's first append has formatted it.            *)
(***************************************************************************)
EXTENDS SharedCtrl, Sequences

CONSTANTS
  BootMod,       \* 2^32: boot_count is a uint32_t
  LoaderClears,  \* does U-Boot zero the page on its way (clear_shared)?
  MayTrap,       \* do exceptions hit the bootloader?
  RunStages, RunReasons, RunFlags,   \* what a run puts on the page
  MaxResets      \* bound on the resets in a behaviour

ASSUME BootModAssumption   == BootMod \in Nat /\ BootMod > 1
ASSUME BootFlowAssumption ==
  /\ {LoaderClears, MayTrap} \subseteq BOOLEAN
  /\ RunStages \subseteq Stages /\ RunReasons \subseteq Reasons
  /\ RunFlags \subseteq SUBSET SysFlags
  /\ MaxResets \in Nat

VARIABLES
  head,    \* words of the page that only this module looks at
  plog,    \* the ring's header
  b,       \* the core: its step, and the locals of ctl_init_defaults
  shown,   \* what print_previous_boot_summary has shown in this boot
  last,    \* history: the summary of the page that the last reset found
  resets

vars == <<ctl, head, plog, b, shown, last, resets>>

(* Trace and fault words are pairs (source, code); the pairs are named.     *)
Traces == {"none", "entry", "images_ready", "handoff", "trap", "run"}
Faults == {"none", "boot", "trap", "run"}

HeadType == [ magic : BOOLEAN, boot_count : 0 .. BootMod - 1, trace : Traces, fault : Faults ]
HeadZero == [ magic |-> FALSE, boot_count |-> 0, trace |-> "none", fault |-> "none" ]

(* persist_note_previous_boot copies these words, in this order.            *)
SnapFields == << "boot_count", "reset_reason", "system_stage", "system_flags",
                 "trace", "fault" >>

SummaryType == [ boot_count : 0 .. BootMod - 1, reset_reason : Reasons,
                 system_stage : Stages, system_flags : SUBSET SysFlags,
                 trace : Traces, fault : Faults ]
Nothing == [ boot_count |-> 0, reset_reason |-> "NO_REASON", system_stage |-> STAGE_COLD_RESET,
             system_flags |-> {}, trace |-> "none", fault |-> "none" ]
Summary == [ boot_count |-> head.boot_count, reset_reason |-> ctl.reset_reason,
             system_stage |-> ctl.system_stage, system_flags |-> ctl.system_flags,
             trace |-> head.trace, fault |-> head.fault ]

LogType  == [ magic : BOOLEAN, last : SummaryType ]
EmptyLog == [ magic |-> TRUE, last |-> Nothing ]

InitPcs == {"check", "snap", "wipe", "wipe_rest", "magic", "count", "append"}
BootPcs == {"show", "active", "stage", "trace", "kernel_image", "worker_image",
            "images_ready", "kernel_stage", "handoff"}
EndPcs  == {"panic_fault", "panic_reason", "panic_flags", "panic_stage",
            "trap_check", "trap_trace", "trap_fault", "trap_reason", "trap_flags", "trap_stage"}
CoreType == [ pc : InitPcs \cup BootPcs \cup EndPcs \cup {"jump", "run", "halt"},
              i : 1 .. 6, boot_count : 0 .. BootMod - 1, caller : {"show", "trap_trace"} ]
Entry    == [ pc |-> "check", i |-> 1, boot_count |-> 0, caller |-> "show" ]

TypeOK == /\ ctl \in CtlType  /\ head \in HeadType  /\ plog \in LogType
          /\ b \in CoreType   /\ shown \in SummaryType
          /\ last \in SummaryType /\ resets \in 0 .. MaxResets

(* Power on: neither magic word is in memory; what else is, nothing reads.  *)
Init == /\ ctl = CtlZero /\ head = HeadZero /\ plog = [magic |-> FALSE, last |-> Nothing]
        /\ b = Entry /\ shown = Nothing /\ last = Nothing /\ resets = 0

-----------------------------------------------------------------------------
Step(from, to) == b.pc = from /\ b' = [b EXCEPT !.pc = to]
PageStays == UNCHANGED <<ctl, head>>
LogStays  == UNCHANGED <<plog, shown>>

(* persist_ensure                                                           *)
Ensured == IF plog.magic THEN plog ELSE EmptyLog

(* The last boot numbered its page: it got as far as ctl_init_defaults's    *)
(* last store.                                                              *)
Numbered == head.magic /\ head.boot_count # 0

(* ctl_init_defaults: whose is the page, and persist_note_previous_boot.    *)
CheckForgetful ==    \* variant: formats the page without a look at it
  /\ Step("check", "wipe")
  /\ PageStays /\ LogStays

Check ==
  /\ b.pc = "check"
  /\ b' = [b EXCEPT !.boot_count = IF head.magic THEN head.boot_count ELSE 0,
                    !.i = 1, !.pc = IF Numbered THEN "snap" ELSE "wipe"]
  /\ PageStays /\ LogStays

Snap ==
  /\ b.pc = "snap"
  /\ plog' = [Ensured EXCEPT !.last[SnapFields[b.i]] = Summary[SnapFields[b.i]]]
  /\ b' = IF b.i < Len(SnapFields) THEN [b EXCEPT !.i = b.i + 1] ELSE [b EXCEPT !.pc = "wipe"]
  /\ PageStays /\ UNCHANGED shown

(* sg2002_memset clears upwards, so it begins with the magic word.          *)
Wipe ==
  /\ Step("wipe", "wipe_rest")
  /\ head' = [head EXCEPT !.magic = FALSE]
  /\ UNCHANGED ctl /\ LogStays

WipeLeavesFlags ==   \* variant: assigns the fields one by one and misses some
  /\ Step("wipe_rest", "magic")
  /\ ctl' = [CtlZero EXCEPT !.system_flags = ctl.system_flags] /\ head' = HeadZero
  /\ LogStays

WipeRest ==
  /\ Step("wipe_rest", "magic")
  /\ ctl' = CtlZero /\ head' = HeadZero
  /\ LogStays

StoreMagic ==
  /\ Step("magic", "count")
  /\ head' = [head EXCEPT !.magic = TRUE]
  /\ UNCHANGED ctl /\ LogStays

(* boot_count + 1u, and 1 where that has wrapped to 0.                      *)
NextCount(n) == IF n + 1 = BootMod THEN 1 ELSE n + 1

StoreCountWide ==    \* variant: a wider word, that does not wrap
  /\ Step("count", "append")
  /\ head' = [head EXCEPT !.boot_count = b.boot_count + 1]
  /\ UNCHANGED ctl /\ LogStays

StoreCountWraps ==   \* variant: 0 after the wrap
  /\ Step("count", "append")
  /\ head' = [head EXCEPT !.boot_count = (b.boot_count + 1) % BootMod]
  /\ UNCHANGED ctl /\ LogStays

StoreCount ==
  /\ Step("count", "append")
  /\ head' = [head EXCEPT !.boot_count = NextCount(b.boot_count)]
  /\ UNCHANGED ctl /\ LogStays

(* The first append of the boot, which formats the ring where it must.      *)
FirstAppend ==
  /\ Step("append", b.caller)
  /\ plog' = Ensured
  /\ PageStays /\ UNCHANGED shown

(* print_previous_boot_summary                                              *)
Kept == IF plog.magic /\ plog.last.boot_count # 0 THEN plog.last ELSE Nothing

Show ==
  /\ Step("show", "active")
  /\ shown' = Kept
  /\ PageStays /\ UNCHANGED plog

-----------------------------------------------------------------------------
(* The rest of bootloader_main: one store of a word of the page per step.   *)
(* Either image may be there or not.                                        *)
SetStage(s)   == ctl' = [ctl EXCEPT !.system_stage = s] /\ UNCHANGED head /\ LogStays
AddFlags(f)   == ctl' = [ctl EXCEPT !.system_flags = @ \cup f] /\ UNCHANGED head /\ LogStays
SetReason(r)  == ctl' = [ctl EXCEPT !.reset_reason = r] /\ UNCHANGED head /\ LogStays
TraceLog(t)   == head' = [head EXCEPT !.trace = t] /\ UNCHANGED ctl /\ LogStays
FaultLog(f)   == head' = [head EXCEPT !.fault = f] /\ UNCHANGED ctl /\ LogStays

Active        == Step("active", "stage") /\ AddFlags({"BOOTLOADER_ACTIVE"})
BootStage     == Step("stage", "trace") /\ SetStage(STAGE_BOOTLOADER)
TraceEntry    == Step("trace", "kernel_image") /\ TraceLog("entry")
KernelPresent == Step("kernel_image", "worker_image") /\ PageStays /\ LogStays
KernelMissing == Step("kernel_image", "panic_fault") /\ PageStays /\ LogStays
WorkerPresent == Step("worker_image", "images_ready") /\ PageStays /\ LogStays
WorkerMissing == Step("worker_image", "images_ready") /\ AddFlags({"WORKER_IMAGE_MISSING"})
ImagesReady   == Step("images_ready", "kernel_stage") /\ TraceLog("images_ready")
KernelStage   == Step("kernel_stage", "handoff") /\ SetStage(STAGE_KERNEL_ENTRY)
TraceHandoff  == Step("handoff", "jump") /\ TraceLog("handoff")
Jump          == Step("jump", "run") /\ PageStays /\ LogStays

(* boot_panic; the core then blinks its LED for ever.                       *)
PanicFault  == Step("panic_fault", "panic_reason") /\ FaultLog("boot")
PanicReason == Step("panic_reason", "panic_flags") /\ SetReason("KERNEL_MISSING")
PanicFlags  == Step("panic_flags", "panic_stage") /\ AddFlags({"KERNEL_IMAGE_MISSING"})
PanicStage  == Step("panic_stage", "halt") /\ SetStage(STAGE_PANIC)

(* An exception in the bootloader, and kraken_trap_panic: a page without    *)
(* magic is formatted first.  An exception in the handler is not modelled.  *)
Trap ==
  /\ MayTrap
  /\ b.pc \in InitPcs \cup BootPcs \cup {"panic_fault", "panic_reason", "panic_flags",
                                        "panic_stage", "jump"}
  /\ b.caller = "show"
  /\ b' = [b EXCEPT !.pc = "trap_check"]
  /\ PageStays /\ LogStays

TrapCheck ==
  /\ b.pc = "trap_check"
  /\ b' = IF head.magic THEN [b EXCEPT !.pc = "trap_trace"]
                        ELSE [b EXCEPT !.pc = "check", !.caller = "trap_trace"]
  /\ PageStays /\ LogStays

TrapTrace  == Step("trap_trace", "trap_fault") /\ TraceLog("trap")
TrapFault  == Step("trap_fault", "trap_reason") /\ FaultLog("trap")
TrapReason == Step("trap_reason", "trap_flags") /\ SetReason("TRAP")
TrapFlags  == Step("trap_flags", "trap_stage") /\ AddFlags({"RISCV_TRAP"})
TrapStage  == Step("trap_stage", "halt") /\ SetStage(STAGE_PANIC)

(* The run: whatever kernel and worker store in the page, one word at a     *)
(* time, and the console's persist-clear.  (KrakenSystem has what they do.) *)
Run ==
  /\ b.pc = "run" /\ UNCHANGED b
  /\ \/ \E s \in RunStages : SetStage(s)
     \/ \E f \in RunFlags  : ctl' = [ctl EXCEPT !.system_flags = f] /\ UNCHANGED head /\ LogStays
     \/ \E r \in RunReasons : SetReason(r)
     \/ TraceLog("run")
     \/ FaultLog("run")
     \/ plog' = EmptyLog /\ PageStays /\ UNCHANGED shown

-----------------------------------------------------------------------------
Restarted ==
  /\ resets < MaxResets /\ resets' = resets + 1
  /\ b' = Entry /\ shown' = Nothing

(* A reset by watchdog or button: memory stays, and U-Boot runs again.      *)
WarmReset ==
  /\ Restarted
  /\ last' = IF Numbered THEN Summary ELSE last
  /\ IF LoaderClears THEN ctl' = CtlZero /\ head' = HeadZero ELSE PageStays
  /\ UNCHANGED plog

PowerLoss ==
  /\ Restarted
  /\ last' = Nothing
  /\ head' = [head EXCEPT !.magic = FALSE] /\ plog' = [plog EXCEPT !.magic = FALSE]
  /\ UNCHANGED ctl

InitDefaults == Check \/ Snap \/ Wipe \/ WipeRest \/ StoreMagic \/ StoreCount \/ FirstAppend
Bootloader   == \/ Show          \/ Active        \/ BootStage   \/ TraceEntry
                \/ KernelPresent \/ KernelMissing \/ WorkerPresent \/ WorkerMissing
                \/ ImagesReady   \/ KernelStage   \/ TraceHandoff  \/ Jump
BootPanic    == PanicFault \/ PanicReason \/ PanicFlags \/ PanicStage
TrapPanic    == TrapCheck \/ TrapTrace \/ TrapFault \/ TrapReason \/ TrapFlags \/ TrapStage

CoreSteps == InitDefaults \/ Bootloader \/ BootPanic \/ Trap \/ TrapPanic \/ Run

Next == (CoreSteps /\ UNCHANGED <<last, resets>>) \/ WarmReset \/ PowerLoss

Spec == Init /\ [][Next]_vars

-----------------------------------------------------------------------------
(* Bootloader steps after the summary has been shown.                       *)
Shown == b.pc \in (BootPcs \ {"show"}) \cup {"jump", "run"}

(* "It survives warm resets long enough for the next boot to snapshot the   *)
(* previous run": what a boot shows is the page as the last reset found it, *)
(* in all its words, though resets may have cut short any number of boots   *)
(* in between, inside the snapshot or inside the formatting of the page.    *)
PreviousRunShown == Shown => shown = last

(* A gap in the numbers a reader sees is never a run that was lost: a boot  *)
(* has the number after the one it shows, or numbering has begun anew.      *)
RunsNumbered ==
  Shown => head.boot_count \in {1, NextCount(shown.boot_count)}

(* Whatever the page held, however it was formatted, the kernel finds the   *)
(* state that KrakenSystem begins with.                                     *)
HandoffAsAssumed ==
  b.pc = "jump" => Numbered /\ \E present \in BOOLEAN : ctl = CtlHandoff(present)
=============================================================================
