--------------------------- MODULE BootFlow_proofs ---------------------------
(***************************************************************************)
(* Proofs about BootFlow, for every value of its constants.                *)
(***************************************************************************)
EXTENDS BootFlow, TLAPS

(* What the snapshot has copied so far.                                     *)
CopiedUpTo(n) == \A j \in 1 .. n : plog.last[SnapFields[j]] = Summary[SnapFields[j]]

LEMMA FieldNames ==
  /\ Len(SnapFields) = 6
  /\ SnapFields[1] = "boot_count"   /\ SnapFields[2] = "reset_reason"
  /\ SnapFields[3] = "system_stage" /\ SnapFields[4] = "system_flags"
  /\ SnapFields[5] = "trace"        /\ SnapFields[6] = "fault"
  BY DEF SnapFields

(* The page before it is formatted, the page while it is, and the ring.     *)
LEMMA ConstantTypes ==
  /\ CtlZero \in CtlType /\ HeadZero \in HeadType
  /\ Nothing \in SummaryType /\ EmptyLog \in LogType
  /\ Entry \in CoreType
<1>1. CtlZero \in CtlType
  BY SeqModAssumption
  DEF CtlZero, CtlType, Stages, STAGE_COLD_RESET, CoreStates, Cmds, Reasons
<1>2. HeadZero \in HeadType
  BY BootModAssumption DEF HeadZero, HeadType, Traces, Faults
<1>3. Nothing \in SummaryType
  BY BootModAssumption
  DEF Nothing, SummaryType, Stages, STAGE_COLD_RESET, Reasons, Traces, Faults
<1>4. EmptyLog \in LogType
  BY <1>3 DEF EmptyLog, LogType
<1>5. Entry \in CoreType
  BY BootModAssumption DEF Entry, CoreType, InitPcs
<1>6. QED  BY <1>1, <1>2, <1>3, <1>4, <1>5

LEMMA SummaryTyped == TypeOK => Summary \in SummaryType
  BY DEF TypeOK, Summary, SummaryType, CtlType, HeadType

(* One copy of persist_note_previous_boot adds one word to those copied.    *)
LEMMA SnapStep ==
  ASSUME TypeOK, Snap, b.i > 1 => plog.magic, CopiedUpTo(b.i - 1)
  PROVE  /\ plog' \in LogType /\ plog'.magic
         /\ \A j \in 1 .. b.i : plog'.last[SnapFields[j]] = Summary[SnapFields[j]]
<1> DEFINE S == SnapFields[b.i]
<1>1. b.i \in 1 .. 6
  BY DEF TypeOK, CoreType
<1>2. S \in {"boot_count", "reset_reason", "system_stage", "system_flags", "trace", "fault"}
  BY <1>1, FieldNames
<1>3. Ensured \in LogType /\ Ensured.magic
  BY ConstantTypes DEF TypeOK, Ensured, LogType, EmptyLog
<1>4. plog' = [Ensured EXCEPT !.last[S] = Summary[S]]
  BY DEF Snap
<1>5. Ensured.last \in SummaryType /\ Summary \in SummaryType
  BY <1>3, SummaryTyped DEF LogType
<1>6. [Ensured.last EXCEPT ![S] = Summary[S]] \in SummaryType
  BY <1>2, <1>5 DEF SummaryType
<1>7. plog' \in LogType /\ plog'.magic /\ plog'.last = [Ensured.last EXCEPT ![S] = Summary[S]]
  BY <1>3, <1>4, <1>6 DEF LogType
<1>8. ASSUME NEW j \in 1 .. b.i
      PROVE  plog'.last[SnapFields[j]] = Summary[SnapFields[j]]
  <2>1. CASE j = b.i
    BY <1>2, <1>5, <1>7, <2>1 DEF SummaryType
  <2>2. CASE j # b.i
    <3>1. j \in 1 .. b.i - 1 /\ b.i > 1 /\ j \in 1 .. 6
      BY <1>1, <2>2
    <3>2. Ensured.last = plog.last
      BY <3>1 DEF Ensured
    <3>3. plog.last[SnapFields[j]] = Summary[SnapFields[j]]
      BY <3>1 DEF CopiedUpTo
    <3>4. SnapFields[j] # S
      BY <1>1, <3>1, <2>2, FieldNames
    <3>5. SnapFields[j] \in {"boot_count", "reset_reason", "system_stage",
                             "system_flags", "trace", "fault"}
      BY <3>1, FieldNames
    <3>6. QED  BY <1>5, <1>7, <3>2, <3>3, <3>4, <3>5 DEF SummaryType
  <2>3. QED  BY <2>1, <2>2
<1>9. QED  BY <1>7, <1>8

(* After the last copy the summary in the ring is the page's.               *)
LEMMA SnapEnds ==
  ASSUME NEW s \in SummaryType, NEW t \in SummaryType,
         \A j \in 1 .. 6 : s[SnapFields[j]] = t[SnapFields[j]]
  PROVE  s = t
<1>1. /\ s.boot_count = t.boot_count     /\ s.reset_reason = t.reset_reason
      /\ s.system_stage = t.system_stage /\ s.system_flags = t.system_flags
      /\ s.trace = t.trace               /\ s.fault = t.fault
  BY FieldNames
<1>2. QED  BY <1>1 DEF SummaryType

-----------------------------------------------------------------------------
(* Type correctness.                                                        *)

LEMMA BootInitType == Init => TypeOK
  BY ConstantTypes, BootModAssumption, BootFlowAssumption
  DEF Init, TypeOK, LogType, HeadType, HeadZero

LEMMA CheckType ==
  ASSUME b \in CoreType, head \in HeadType, Check
  PROVE  b' \in CoreType
<1> DEFINE n == IF head.magic THEN head.boot_count ELSE 0
           p == IF Numbered THEN "snap" ELSE "wipe"
<1>1. n \in 0 .. BootMod - 1
  BY BootModAssumption DEF HeadType
<1>2. p \in InitPcs
  BY DEF InitPcs
<1>3. b' = [b EXCEPT !.boot_count = n, !.i = 1, !.pc = p]
  BY DEF Check
<1>4. 1 \in 1 .. 6
  OBVIOUS
<1>5. QED
  <2> HIDE DEF n, p
  <2>1. QED  BY <1>1, <1>2, <1>3, <1>4 DEF CoreType

LEMMA BootStepType ==
  ASSUME TypeOK, Next
  PROVE  TypeOK'
<1> USE DEF TypeOK
<1>1. CASE CoreSteps /\ UNCHANGED <<last, resets>>
  <2> USE <1>1
  <2>1. CASE Check
    BY <2>1, CheckType DEF Check, PageStays, LogStays
  <2>2. CASE Snap
    <3>1. plog' \in LogType
      <4>1. Ensured \in LogType
        BY ConstantTypes DEF Ensured
      <4>2. b.i \in 1 .. 6
        BY DEF CoreType
      <4>3. SnapFields[b.i] \in {"boot_count", "reset_reason", "system_stage",
                                 "system_flags", "trace", "fault"}
        BY <4>2, FieldNames
      <4>4. Summary \in SummaryType
        BY SummaryTyped
      <4>5. plog' = [Ensured EXCEPT !.last[SnapFields[b.i]] = Summary[SnapFields[b.i]]]
        BY <2>2 DEF Snap
      <4>6. [Ensured.last EXCEPT ![SnapFields[b.i]] = Summary[SnapFields[b.i]]] \in SummaryType
        BY <4>1, <4>3, <4>4 DEF LogType, SummaryType
      <4>7. QED  BY <4>1, <4>5, <4>6 DEF LogType
    <3>2. b' \in CoreType
      <4>1. CASE b.i < 6
        <5>1. b' = [b EXCEPT !.i = b.i + 1] /\ b.i + 1 \in 1 .. 6
          BY <2>2, <4>1, FieldNames DEF Snap, CoreType
        <5>2. QED  BY <5>1 DEF CoreType
      <4>2. CASE ~(b.i < 6)
        <5>1. b' = [b EXCEPT !.pc = "wipe"]
          BY <2>2, <4>2, FieldNames DEF Snap
        <5>2. QED  BY <5>1 DEF CoreType, InitPcs
      <4>3. QED  BY <4>1, <4>2
    <3>3. QED  BY <2>2, <3>1, <3>2 DEF Snap, PageStays
  <2>3. CASE Wipe
    BY <2>3 DEF Wipe, Step, LogStays, HeadType, CoreType, InitPcs
  <2>4. CASE WipeRest
    BY <2>4, ConstantTypes DEF WipeRest, Step, LogStays, CoreType, InitPcs
  <2>5. CASE StoreMagic
    BY <2>5 DEF StoreMagic, Step, LogStays, HeadType, CoreType, InitPcs
  <2>6. CASE StoreCount
    <3>1. NextCount(b.boot_count) \in 0 .. BootMod - 1
      BY BootModAssumption DEF NextCount, CoreType
    <3>2. QED  BY <2>6, <3>1 DEF StoreCount, Step, LogStays, HeadType, CoreType, InitPcs
  <2>7. CASE FirstAppend
    <3>1. Ensured \in LogType
      BY ConstantTypes DEF Ensured
    <3>2. QED  BY <2>7, <3>1 DEF FirstAppend, Step, PageStays, CoreType, BootPcs, EndPcs
  <2>8. CASE Show
    <3>1. Kept \in SummaryType
      BY ConstantTypes DEF Kept, LogType
    <3>2. QED  BY <2>8, <3>1 DEF Show, Step, PageStays, CoreType, BootPcs
  <2>9. CASE Bootloader /\ ~Show
    BY <2>9
    DEF Bootloader, Active, BootStage, TraceEntry, KernelPresent, KernelMissing, WorkerPresent,
        WorkerMissing, ImagesReady, KernelStage, TraceHandoff, Jump, Step, PageStays, LogStays,
        SetStage, AddFlags, TraceLog, CoreType, CtlType, HeadType, BootPcs, EndPcs, Stages,
        SysFlags, Traces, STAGE_BOOTLOADER, STAGE_KERNEL_ENTRY
  <2>10. CASE BootPanic
    BY <2>10
    DEF BootPanic, PanicFault, PanicReason, PanicFlags, PanicStage, Step, LogStays, SetStage,
        SetReason, AddFlags, FaultLog, CoreType, CtlType, HeadType, EndPcs, Stages, SysFlags,
        Reasons, Faults, STAGE_PANIC
  <2>11. CASE Trap
    BY <2>11 DEF Trap, CoreType, EndPcs, PageStays, LogStays
  <2>12. CASE TrapCheck
    BY <2>12 DEF TrapCheck, PageStays, LogStays, CoreType, InitPcs, EndPcs
  <2>13. CASE TrapPanic /\ ~TrapCheck
    BY <2>13
    DEF TrapPanic, TrapTrace, TrapFault, TrapReason, TrapFlags, TrapStage, Step,
        PageStays, LogStays, SetStage, SetReason, AddFlags, FaultLog, TraceLog, CoreType,
        CtlType, HeadType, EndPcs, Stages, SysFlags, Reasons, Faults, Traces, STAGE_PANIC
  <2>14. CASE Run
    BY <2>14, ConstantTypes, BootFlowAssumption
    DEF Run, PageStays, LogStays, SetStage, SetReason, TraceLog, FaultLog, CtlType, HeadType,
        Faults, Traces
  <2>15. QED
    BY <2>1, <2>2, <2>3, <2>4, <2>5, <2>6, <2>7, <2>8, <2>9, <2>10, <2>11, <2>12, <2>13,
       <2>14
    DEF CoreSteps, InitDefaults
<1>2. CASE WarmReset \/ PowerLoss
  <2>1. resets' \in 0 .. MaxResets
    BY <1>2, BootFlowAssumption DEF WarmReset, PowerLoss, Restarted
  <2>2. b' \in CoreType /\ shown' \in SummaryType
    BY <1>2, ConstantTypes DEF WarmReset, PowerLoss, Restarted
  <2>3. CASE WarmReset
    BY <2>1, <2>2, <2>3, ConstantTypes, SummaryTyped DEF WarmReset, PageStays
  <2>4. CASE PowerLoss
    BY <2>1, <2>2, <2>4, ConstantTypes DEF PowerLoss, HeadType, LogType
  <2>5. QED  BY <1>2, <2>3, <2>4
<1>3. QED  BY <1>1, <1>2 DEF Next

(* Every word of the page, the ring's header and the bootloader's locals    *)
(* keeps its range: boot_count wraps within its word and is never copied    *)
(* out of range.                                                            *)
THEOREM BootTypesHold == Spec => []TypeOK
<1>1. TypeOK /\ UNCHANGED vars => TypeOK'
  BY DEF TypeOK, vars
<1>2. QED  BY BootInitType, BootStepType, <1>1, PTL DEF Spec

-----------------------------------------------------------------------------
(* The inductive invariant.                                                 *)

(* While the bootloader is at these steps the page has its number.          *)
NumberedPcs == {"append"} \cup BootPcs
                 \cup {"panic_fault", "panic_reason", "panic_flags", "panic_stage", "jump", "run"}

(* The magic word of the page, and the snapshot, from step to step.         *)
StepInv ==
  /\ b.pc = "snap" => /\ Numbered /\ b.boot_count = head.boot_count
                      /\ b.i > 1 => plog.magic
                      /\ CopiedUpTo(b.i - 1)
  /\ b.pc \in {"wipe_rest", "magic"} => ~head.magic
  /\ b.pc \in {"magic", "count"} => head.boot_count = 0
  /\ b.pc = "count" => head.magic
  /\ b.pc \in NumberedPcs => Numbered

(* The summary of the last numbered run is safe in the ring when the page   *)
(* is not that run's, and is still on the page when a boot begins.          *)
KeepInv ==
  /\ ~Numbered => Kept = last
  /\ b.pc \in {"check", "snap"} /\ Numbered => last = Summary
  /\ b.pc \in {"wipe", "wipe_rest", "magic", "count", "append", "show"} => Kept = last
  /\ PreviousRunShown

(* The number that the boot will take.                                      *)
CountInv ==
  /\ b.pc \in {"wipe", "wipe_rest", "magic", "count"} => b.boot_count \in {0, Kept.boot_count}
  /\ b.pc \in {"append", "show"} => head.boot_count \in {1, NextCount(Kept.boot_count)}
  /\ RunsNumbered

(* What the bootloader has built on the formatted page.                     *)
Built(s, f) == [CtlZero EXCEPT !.system_stage = s, !.system_flags = f]
Handoffs    == { {"BOOTLOADER_ACTIVE"}, {"BOOTLOADER_ACTIVE", "WORKER_IMAGE_MISSING"} }

BuiltInv ==
  /\ b.pc \in {"magic", "count", "append", "show", "active"} => ctl = CtlZero
  /\ b.pc = "stage" => ctl = [CtlZero EXCEPT !.system_flags = {"BOOTLOADER_ACTIVE"}]
  /\ b.pc \in {"trace", "kernel_image", "worker_image"}
       => ctl = Built(STAGE_BOOTLOADER, {"BOOTLOADER_ACTIVE"})
  /\ b.pc \in {"images_ready", "kernel_stage"}
       => \E f \in Handoffs : ctl = Built(STAGE_BOOTLOADER, f)
  /\ b.pc \in {"handoff", "jump"}
       => \E f \in Handoffs : ctl = Built(STAGE_KERNEL_ENTRY, f)

-----------------------------------------------------------------------------
(* Most of the bootloader's steps are stores of one word of the page that   *)
(* leave its number, the ring and what has been shown.                      *)
Storing == \/ Bootloader /\ ~Show
           \/ BootPanic
           \/ Trap
           \/ TrapCheck
           \/ TrapPanic /\ ~TrapCheck
           \/ Run

LEMMA Stores ==
  ASSUME TypeOK, Storing
  PROVE  /\ head'.magic = head.magic /\ head'.boot_count = head.boot_count
         /\ shown' = shown
         /\ plog' = plog \/ (b.pc = "run" /\ b'.pc = "run")
         /\ b'.i = b.i /\ b'.boot_count = b.boot_count
<1>0. b \in CoreType /\ head \in HeadType
  BY DEF TypeOK
<1> USE <1>0 DEF Step, PageStays, LogStays, SetStage, SetReason, AddFlags, TraceLog, FaultLog
<1>1. CASE Bootloader /\ ~Show
  BY <1>1
  DEF Bootloader, Active, BootStage, TraceEntry, KernelPresent, KernelMissing, WorkerPresent,
      WorkerMissing, ImagesReady, KernelStage, TraceHandoff, Jump, CoreType, HeadType
<1>2. CASE BootPanic
  BY <1>2 DEF BootPanic, PanicFault, PanicReason, PanicFlags, PanicStage, CoreType, HeadType
<1>3. CASE Trap
  BY <1>3 DEF Trap, CoreType
<1>4. CASE TrapCheck
  BY <1>4 DEF TrapCheck, CoreType
<1>5. CASE TrapPanic /\ ~TrapCheck
  BY <1>5
  DEF TrapPanic, TrapTrace, TrapFault, TrapReason, TrapFlags, TrapStage, CoreType, HeadType
<1>6. CASE Run
  BY <1>6 DEF Run, CoreType, HeadType
<1>7. QED  BY <1>1, <1>2, <1>3, <1>4, <1>5, <1>6 DEF Storing

(* Where they lead.                                                         *)
LEMMA StoresGo ==
  ASSUME TypeOK, Storing
  PROVE  /\ b'.pc \notin InitPcs \cup {"show"} \/ (b'.pc = "check" /\ ~head.magic)
         /\ b'.pc \in NumberedPcs => b.pc \in NumberedPcs
         /\ b'.pc \in (BootPcs \ {"show"}) \cup {"jump", "run"}
              => b.pc \in (BootPcs \ {"show"}) \cup {"jump", "run"}
<1>0. b \in CoreType
  BY DEF TypeOK
<1> USE <1>0 DEF Step, InitPcs, BootPcs, NumberedPcs
<1>1. CASE Bootloader /\ ~Show
  BY <1>1
  DEF Bootloader, Active, BootStage, TraceEntry, KernelPresent, KernelMissing, WorkerPresent,
      WorkerMissing, ImagesReady, KernelStage, TraceHandoff, Jump, CoreType
<1>2. CASE BootPanic
  BY <1>2 DEF BootPanic, PanicFault, PanicReason, PanicFlags, PanicStage, CoreType
<1>3. CASE Trap
  BY <1>3 DEF Trap, CoreType
<1>4. CASE TrapCheck
  BY <1>4 DEF TrapCheck, CoreType
<1>5. CASE TrapPanic /\ ~TrapCheck
  BY <1>5 DEF TrapPanic, TrapTrace, TrapFault, TrapReason, TrapFlags, TrapStage, CoreType
<1>6. CASE Run
  BY <1>6 DEF Run, CoreType
<1>7. QED  BY <1>1, <1>2, <1>3, <1>4, <1>5, <1>6 DEF Storing

LEMMA Steps ==
  ASSUME Next
  PROVE  \/ InitDefaults /\ UNCHANGED <<last, resets>>
         \/ Show /\ UNCHANGED <<last, resets>>
         \/ Storing /\ UNCHANGED <<last, resets>>
         \/ WarmReset \/ PowerLoss
  BY DEF Next, CoreSteps, Storing, TrapPanic, Bootloader

LEMMA StepInvKept ==
  ASSUME TypeOK, StepInv, Next
  PROVE  StepInv'
<1> USE DEF StepInv, Numbered, InitPcs, BootPcs, NumberedPcs
<1>1. CASE Check
  BY <1>1 DEF Check, PageStays, CopiedUpTo, TypeOK, CoreType, HeadType
<1>2. CASE Snap
  <2>1. b.pc = "snap" /\ UNCHANGED <<ctl, head>> /\ b.i \in 1 .. 6 /\ b \in CoreType
    BY <1>2 DEF Snap, PageStays, TypeOK, CoreType
  <2>2. /\ plog'.magic
        /\ \A j \in 1 .. b.i : plog'.last[SnapFields[j]] = Summary[SnapFields[j]]
    BY <1>2, <2>1, SnapStep
  <2>3. Summary' = Summary
    BY <2>1 DEF Summary
  <2>4. CASE b.i < 6
    <3>1. b'.i = b.i + 1 /\ b'.pc = "snap" /\ b'.boot_count = b.boot_count
      BY <1>2, <2>1, <2>4, FieldNames DEF Snap, CoreType
    <3>2. b'.i - 1 = b.i
      BY <2>1, <3>1
    <3>3. CopiedUpTo(b.i - 1)'
      BY <2>2, <2>3, <3>2 DEF CopiedUpTo
    <3>4. QED  BY <2>1, <2>2, <3>1, <3>3
  <2>5. CASE ~(b.i < 6)
    <3>1. b'.pc = "wipe"
      BY <1>2, <2>1, <2>5, FieldNames DEF Snap, CoreType
    <3>2. QED  BY <3>1
  <2>6. QED  BY <2>4, <2>5
<1>3. CASE Wipe \/ WipeRest \/ StoreMagic
  BY <1>3
  DEF Wipe, WipeRest, StoreMagic, Step, TypeOK, CoreType, HeadType, HeadZero
<1>4. CASE StoreCount
  <2>1. NextCount(b.boot_count) # 0
    BY BootModAssumption DEF NextCount, TypeOK, CoreType
  <2>2. QED  BY <1>4, <2>1 DEF StoreCount, Step, TypeOK, CoreType, HeadType
<1>5. CASE FirstAppend \/ Show
  BY <1>5 DEF FirstAppend, Show, Step, PageStays, TypeOK, CoreType
<1>6. CASE Storing
  BY <1>6, Stores, StoresGo DEF TypeOK, CoreType
<1>7. CASE WarmReset \/ PowerLoss
  BY <1>7 DEF WarmReset, PowerLoss, Restarted, Entry
<1>8. QED
  BY <1>1, <1>2, <1>3, <1>4, <1>5, <1>6, <1>7, Steps DEF InitDefaults

(* FirstAppend formats the ring only where nothing is kept in it.           *)
LEMMA EnsuredKeeps ==
  ASSUME TypeOK, FirstAppend
  PROVE  Kept' = Kept
  BY DEF FirstAppend, Kept, Ensured, EmptyLog, Nothing, LogType, TypeOK

(* When the snapshot is complete, the ring keeps the summary of the page.   *)
LEMMA SnapKeeps ==
  ASSUME TypeOK, StepInv, Snap, b'.pc = "wipe"
  PROVE  Kept' = Summary
<1>1. b.pc = "snap" /\ b.i \in 1 .. 6 /\ b \in CoreType
  BY DEF Snap, TypeOK, CoreType
<1>2. b.i = 6
  BY <1>1, FieldNames DEF Snap, CoreType
<1>3. /\ plog' \in LogType /\ plog'.magic
      /\ \A j \in 1 .. 6 : plog'.last[SnapFields[j]] = Summary[SnapFields[j]]
  BY <1>1, <1>2, SnapStep DEF StepInv
<1>4. plog'.last = Summary
  BY <1>3, SnapEnds, SummaryTyped DEF LogType
<1>5. Summary.boot_count # 0
  BY <1>1 DEF StepInv, Numbered, Summary
<1>6. QED  BY <1>3, <1>4, <1>5 DEF Kept

LEMMA KeepInvKept ==
  ASSUME ~LoaderClears, TypeOK, StepInv, KeepInv, Next
  PROVE  KeepInv'
<1>0. b \in CoreType /\ head \in HeadType /\ plog \in LogType
  BY DEF TypeOK
<1> USE <1>0 DEF KeepInv, PreviousRunShown, Shown
<1>1. CASE Check /\ UNCHANGED <<last, resets>>
  BY <1>1 DEF Check, PageStays, LogStays, Numbered, Kept, Summary, BootPcs, CoreType
<1>2. CASE Snap /\ UNCHANGED <<last, resets>>
  <2>1. UNCHANGED <<ctl, head, shown, last>> /\ Numbered /\ last = Summary
    BY <1>2 DEF Snap, PageStays, StepInv
  <2>2. Numbered' /\ Summary' = Summary
    BY <2>1 DEF Numbered, Summary
  <2>3. CASE b'.pc = "snap"
    BY <2>1, <2>2, <2>3 DEF BootPcs
  <2>4. CASE b'.pc = "wipe"
    BY <2>1, <2>2, <2>4, <1>2, SnapKeeps DEF BootPcs
  <2>5. QED  BY <1>2, <2>3, <2>4 DEF Snap, CoreType
<1>3. CASE (Wipe \/ WipeRest \/ StoreMagic \/ StoreCount) /\ UNCHANGED <<last, resets>>
  BY <1>3
  DEF Wipe, WipeRest, StoreMagic, StoreCount, Step, LogStays, Numbered, Kept, BootPcs,
      CoreType, HeadType, HeadZero
<1>4. CASE FirstAppend /\ UNCHANGED <<last, resets>>
  <2>1. Kept' = Kept
    BY <1>4, EnsuredKeeps
  <2>2. QED
    BY <1>4, <2>1 DEF FirstAppend, Step, PageStays, Numbered, BootPcs, CoreType
<1>5. CASE Show /\ UNCHANGED <<last, resets>>
  BY <1>5 DEF Show, Step, PageStays, Numbered, Kept, BootPcs, CoreType
<1>6. CASE Storing /\ UNCHANGED <<last, resets>>
  <2>1. Numbered' <=> Numbered
    BY <1>6, Stores DEF Numbered
  <2>2. ~Numbered => Kept' = Kept
    <3>1. b.pc = "run" => Numbered
      BY DEF StepInv, NumberedPcs
    <3>2. QED  BY <1>6, <3>1, Stores DEF Kept
  <2>3. CASE b'.pc = "check" /\ ~head.magic
    BY <1>6, <2>1, <2>2, <2>3 DEF Numbered, BootPcs
  <2>4. CASE b'.pc \notin InitPcs \cup {"show"}
    BY <1>6, <2>1, <2>2, <2>4, Stores, StoresGo DEF InitPcs
  <2>5. QED  BY <1>6, <2>3, <2>4, StoresGo
<1>7. CASE WarmReset
  <2>1. UNCHANGED <<ctl, head, plog>> /\ b'.pc = "check"
        /\ last' = IF Numbered THEN Summary ELSE last
    BY <1>7 DEF WarmReset, Restarted, Entry, PageStays
  <2>2. (Numbered' <=> Numbered) /\ Summary' = Summary /\ Kept' = Kept
    BY <2>1 DEF Numbered, Summary, Kept
  <2>3. QED  BY <2>1, <2>2 DEF BootPcs
<1>8. CASE PowerLoss
  BY <1>8 DEF PowerLoss, Restarted, Entry, Numbered, Kept, HeadType, LogType, BootPcs
<1>9. QED
  BY <1>1, <1>2, <1>3, <1>4, <1>5, <1>6, <1>7, <1>8, Steps DEF InitDefaults

(* With U-Boot leaving the page alone, every boot shows the run before it,  *)
(* however many resets and power losses there were, and wherever.           *)
THEOREM PreviousRunShownHolds ==
  ASSUME ~LoaderClears
  PROVE  Spec => []PreviousRunShown
<1>1. Init => StepInv /\ KeepInv
  BY DEF Init, Entry, HeadZero, StepInv, KeepInv, PreviousRunShown, Shown, Numbered, Kept,
         BootPcs, NumberedPcs
<1>2. TypeOK /\ StepInv /\ KeepInv /\ [Next]_vars => (StepInv /\ KeepInv)'
  <2>1. StepInv /\ KeepInv /\ UNCHANGED vars => (StepInv /\ KeepInv)'
    BY DEF StepInv, KeepInv, PreviousRunShown, Shown, Numbered, Kept, Summary, CopiedUpTo, vars
  <2>2. QED  BY <2>1, StepInvKept, KeepInvKept
<1>3. KeepInv => PreviousRunShown
  BY DEF KeepInv
<1>4. QED  BY <1>1, <1>2, <1>3, BootTypesHold, PTL DEF Spec

LEMMA CountInvKept ==
  ASSUME TypeOK, StepInv, CountInv, Next
  PROVE  CountInv'
<1>0. b \in CoreType /\ head \in HeadType /\ plog \in LogType
  BY DEF TypeOK
<1>a. Kept.boot_count \in Nat /\ NextCount(0) = 1
  BY <1>0, BootModAssumption DEF Kept, Nothing, LogType, SummaryType, NextCount
<1> USE <1>0 DEF CountInv, RunsNumbered, Shown
<1>1. CASE Check
  BY <1>1 DEF Check, PageStays, LogStays, Numbered, BootPcs, CoreType
<1>2. CASE Snap
  <2>1. UNCHANGED <<ctl, head, shown>> /\ b'.boot_count = b.boot_count
        /\ b.boot_count = head.boot_count
    BY <1>2 DEF Snap, PageStays, StepInv, CoreType
  <2>2. CASE b'.pc = "snap"
    BY <2>2 DEF BootPcs
  <2>3. CASE b'.pc = "wipe"
    <3>1. Kept' = Summary
      BY <1>2, <2>3, SnapKeeps
    <3>2. b'.boot_count = Kept'.boot_count
      BY <2>1, <3>1 DEF Summary
    <3>3. QED  BY <2>3, <3>2 DEF BootPcs
  <2>4. QED  BY <1>2, <2>2, <2>3 DEF Snap, CoreType
<1>3. CASE Wipe \/ WipeRest \/ StoreMagic
  BY <1>3
  DEF Wipe, WipeRest, StoreMagic, Step, LogStays, Kept, BootPcs, CoreType
<1>4. CASE StoreCount
  <2>1. Kept' = Kept /\ b'.pc = "append" /\ head'.boot_count = NextCount(b.boot_count)
        /\ b.pc = "count"
    BY <1>4 DEF StoreCount, Step, LogStays, Kept, CoreType, HeadType
  <2>2. head'.boot_count \in {1, NextCount(Kept.boot_count)}
    BY <1>a, <2>1
  <2>3. QED  BY <2>1, <2>2 DEF BootPcs, NextCount
<1>5. CASE FirstAppend
  <2>1. Kept' = Kept /\ head' = head
    BY <1>5, EnsuredKeeps DEF FirstAppend, PageStays
  <2>2. b.pc = "append" /\ b'.pc \in {"show", "trap_trace"}
    BY <1>5 DEF FirstAppend, Step, CoreType
  <2>3. QED  BY <2>1, <2>2 DEF BootPcs, NextCount
<1>6. CASE Show
  BY <1>6 DEF Show, Step, PageStays, BootPcs, CoreType, NextCount
<1>7. CASE Storing
  BY <1>7, Stores, StoresGo DEF InitPcs, NextCount
<1>8. CASE WarmReset \/ PowerLoss
  BY <1>8 DEF WarmReset, PowerLoss, Restarted, Entry, BootPcs
<1>9. QED
  BY <1>1, <1>2, <1>3, <1>4, <1>5, <1>6, <1>7, <1>8, Steps DEF InitDefaults

(* A boot is numbered after the one it shows, or numbering has begun anew:  *)
(* boot_count passes the wrap of its word without a boot numbered 0.        *)
THEOREM RunsNumberedHolds == Spec => []RunsNumbered
<1>1. Init => StepInv /\ CountInv
  BY DEF Init, Entry, HeadZero, StepInv, CountInv, RunsNumbered, Shown, Numbered, BootPcs,
         NumberedPcs
<1>2. TypeOK /\ StepInv /\ CountInv /\ [Next]_vars => (StepInv /\ CountInv)'
  <2>1. StepInv /\ CountInv /\ UNCHANGED vars => (StepInv /\ CountInv)'
    BY DEF StepInv, CountInv, RunsNumbered, Shown, Numbered, Kept, Summary, CopiedUpTo,
           NextCount, vars
  <2>2. QED  BY <2>1, StepInvKept, CountInvKept
<1>3. CountInv => RunsNumbered
  BY DEF CountInv
<1>4. QED  BY <1>1, <1>2, <1>3, BootTypesHold, PTL DEF Spec

-----------------------------------------------------------------------------
LEMMA BuiltInvKept ==
  ASSUME TypeOK, BuiltInv, Next
  PROVE  BuiltInv'
<1>0. b \in CoreType
  BY DEF TypeOK
<1> USE <1>0 DEF BuiltInv, Step, PageStays
<1>1. CASE InitDefaults
  <2>1. CASE Check \/ Snap \/ Wipe
    BY <1>1, <2>1 DEF Check, Snap, Wipe, CoreType
  <2>2. CASE WipeRest \/ StoreMagic \/ StoreCount
    BY <1>1, <2>2 DEF WipeRest, StoreMagic, StoreCount, CoreType
  <2>3. CASE FirstAppend
    BY <1>1, <2>3 DEF FirstAppend, CoreType
  <2>4. QED  BY <1>1, <2>1, <2>2, <2>3 DEF InitDefaults
<1>2. CASE Show
  BY <1>2 DEF Show, CoreType
<1>3. CASE Active
  <2>1. {} \cup {"BOOTLOADER_ACTIVE"} = {"BOOTLOADER_ACTIVE"}
    OBVIOUS
  <2>2. ctl = CtlZero
    BY <1>3 DEF Active
  <2>3. ctl' = [CtlZero EXCEPT !.system_flags = {"BOOTLOADER_ACTIVE"}]
    <3>1. ctl.system_flags = {}
      BY <2>2 DEF CtlZero
    <3>2. ctl' = [ctl EXCEPT !.system_flags = {"BOOTLOADER_ACTIVE"}]
      BY <1>3, <2>1, <3>1 DEF Active, AddFlags
    <3>3. QED  BY <2>2, <3>2
  <2>4. QED  BY <1>3, <2>3 DEF Active, CoreType
<1>4. CASE BootStage
  BY <1>4 DEF BootStage, SetStage, Built, CtlZero, CoreType
<1>5. CASE TraceEntry \/ KernelPresent \/ KernelMissing
  BY <1>5 DEF TraceEntry, TraceLog, KernelPresent, KernelMissing, CoreType
<1>6. CASE WorkerPresent
  BY <1>6 DEF WorkerPresent, Handoffs, CoreType
<1>7. CASE WorkerMissing
  <2>1. ctl = Built(STAGE_BOOTLOADER, {"BOOTLOADER_ACTIVE"})
    BY <1>7 DEF WorkerMissing
  <2>2. ctl' = Built(STAGE_BOOTLOADER, {"BOOTLOADER_ACTIVE", "WORKER_IMAGE_MISSING"})
    <3>1. {"BOOTLOADER_ACTIVE"} \cup {"WORKER_IMAGE_MISSING"}
            = {"BOOTLOADER_ACTIVE", "WORKER_IMAGE_MISSING"}
      OBVIOUS
    <3>2. ctl.system_flags = {"BOOTLOADER_ACTIVE"}
      BY <2>1 DEF Built, CtlZero
    <3>3. ctl' = [ctl EXCEPT !.system_flags = {"BOOTLOADER_ACTIVE", "WORKER_IMAGE_MISSING"}]
      BY <1>7, <3>1, <3>2 DEF WorkerMissing, AddFlags
    <3>4. QED  BY <2>1, <3>3 DEF Built
  <2>3. \E f \in Handoffs : ctl' = Built(STAGE_BOOTLOADER, f)
    BY <2>2 DEF Handoffs
  <2>4. QED  BY <1>7, <2>3 DEF WorkerMissing, CoreType
<1>8. CASE ImagesReady
  BY <1>8 DEF ImagesReady, TraceLog, CoreType
<1>9. CASE KernelStage
  <2>1. PICK f \in Handoffs : ctl = Built(STAGE_BOOTLOADER, f)
    BY <1>9 DEF KernelStage
  <2>2. ctl' = Built(STAGE_KERNEL_ENTRY, f)
    BY <1>9, <2>1 DEF KernelStage, SetStage, Built, CtlZero
  <2>3. QED  BY <1>9, <2>2 DEF KernelStage, CoreType
<1>10. CASE TraceHandoff \/ Jump
  BY <1>10 DEF TraceHandoff, TraceLog, Jump, CoreType
<1>11. CASE BootPanic \/ Trap
  BY <1>11 DEF BootPanic, PanicFault, PanicReason, PanicFlags, PanicStage, Trap, CoreType
<1>12. CASE TrapPanic
  BY <1>12
  DEF TrapPanic, TrapCheck, TrapTrace, TrapFault, TrapReason, TrapFlags, TrapStage, CoreType
<1>13. CASE Run
  BY <1>13 DEF Run, CoreType
<1>14. CASE WarmReset \/ PowerLoss
  BY <1>14 DEF WarmReset, PowerLoss, Restarted, Entry
<1>15. QED
  BY <1>1, <1>2, <1>3, <1>4, <1>5, <1>6, <1>7, <1>8, <1>9, <1>10, <1>11, <1>12, <1>13, <1>14
  DEF Next, CoreSteps, Bootloader

(* The two flag words a kernel can find.                                    *)
LEMMA HandoffBuilt ==
  ASSUME NEW f \in Handoffs
  PROVE  \E present \in BOOLEAN : Built(STAGE_KERNEL_ENTRY, f) = CtlHandoff(present)
<1>1. CASE f = {"BOOTLOADER_ACTIVE"}
  <2>1. Built(STAGE_KERNEL_ENTRY, f) = CtlHandoff(TRUE)
    BY <1>1 DEF Built, CtlHandoff, CtlZero
  <2>2. QED  BY <2>1
<1>2. CASE f = {"BOOTLOADER_ACTIVE", "WORKER_IMAGE_MISSING"}
  <2>1. Built(STAGE_KERNEL_ENTRY, f) = CtlHandoff(FALSE)
    BY <1>2 DEF Built, CtlHandoff, CtlZero
  <2>2. QED  BY <2>1
<1>3. QED  BY <1>1, <1>2 DEF Handoffs

(* Whatever page the last run, U-Boot or a power loss left, and whatever    *)
(* resets the bootloader has been through: the kernel starts from the page  *)
(* that KrakenSystem assumes.                                               *)
THEOREM HandoffAsAssumedHolds == Spec => []HandoffAsAssumed
<1>1. Init => StepInv /\ BuiltInv
  BY DEF Init, Entry, StepInv, BuiltInv, NumberedPcs, BootPcs
<1>2. TypeOK /\ StepInv /\ BuiltInv /\ [Next]_vars => (StepInv /\ BuiltInv)'
  <2>1. StepInv /\ BuiltInv /\ UNCHANGED vars => (StepInv /\ BuiltInv)'
    BY DEF StepInv, BuiltInv, Numbered, Summary, CopiedUpTo, vars
  <2>2. QED  BY <2>1, StepInvKept, BuiltInvKept
<1>3. StepInv /\ BuiltInv => HandoffAsAssumed
  BY HandoffBuilt DEF StepInv, BuiltInv, HandoffAsAssumed, NumberedPcs
<1>4. QED  BY <1>1, <1>2, <1>3, BootTypesHold, PTL DEF Spec
=============================================================================
