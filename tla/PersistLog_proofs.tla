-------------------------- MODULE PersistLog_proofs --------------------------
(***************************************************************************)
(* Type correctness of PersistLog and the two bounds on record_count, for  *)
(* every capacity and any number of appends.                               *)
(***************************************************************************)
EXTENDS PersistLog, SequenceTheorems, TLAPS

RingOK    == log \in LogType /\ wr \in [Writers -> WriterType] /\ issued \in 0 .. MaxAppends
HistoryOK == /\ done \in Seq(Records) /\ Len(done) <= Capacity
             /\ clean \in 0 .. Len(done)
             /\ dirty \subseteq Writers

(* The mask of write_head always yields a slot of the ring.                 *)
LEMMA SlotOfMask == \A n \in Nat : n % Capacity \in Slots
  BY CapacityAssumption DEF Slots

(* A zeroed ring and a core at rest are well typed.                         *)
LEMMA ZeroTypes == Zeroed \in LogType /\ Resting \in WriterType
<1>1. 0 \in Slots /\ 0 \in 0 .. MaxAppends
  BY CapacityAssumption, BoundsAssumption DEF Slots
<1>2. Blank \in Records  BY <1>1 DEF Blank, Records
<1>3. QED  BY <1>1, <1>2 DEF Zeroed, LogType, Resting, WriterType

(* Every step of an append keeps the ring and the locals well typed.        *)
LEMMA AppendTypes ==
  ASSUME RingOK, NEW p \in Writers, AppendStep(p)
  PROVE  RingOK'
<1>0. /\ log \in LogType /\ wr \in [Writers -> WriterType] /\ wr[p] \in WriterType
      /\ issued \in 0 .. MaxAppends
  BY DEF RingOK
<1>1. wr[p].slot \in Slots /\ wr[p].seq \in Nat /\ wr[p].event \in 0 .. MaxAppends
      /\ wr[p].count \in Nat
  BY <1>0 DEF WriterType
<1>2. /\ log.next_seq \in Nat /\ log.write_head \in Slots /\ log.record_count \in Nat
      /\ log.records \in [Slots -> Records] /\ log.magic \in BOOLEAN
  BY <1>0 DEF LogType
<1>3. \A s \in Slots : s \in Nat /\ s + 1 \in Nat  BY CapacityAssumption DEF Slots
<1>4. /\ log.write_head % Capacity \in Slots /\ (wr[p].slot + 1) % Capacity \in Slots
      /\ log.next_seq + 1 \in Nat /\ wr[p].count + 1 \in Nat
  BY <1>1, <1>2, <1>3, SlotOfMask
<1>5. CASE Begin(p)
  <2>1. issued + 1 \in 0 .. MaxAppends  BY <1>0, <1>5, BoundsAssumption DEF Begin
  <2>2. [Resting EXCEPT !.event = issued + 1,
                        !.pc = IF log.magic THEN "load_head" ELSE "format"] \in WriterType
    BY <2>1, ZeroTypes DEF WriterType, AppendPcs
  <2>3. QED  BY <1>0, <1>5, <2>1, <2>2 DEF Begin, RingOK
<1>6. CASE Format(p)
  BY <1>0, <1>6, ZeroTypes DEF Format, Go, HistoryStays, RingOK, WriterType, AppendPcs
<1>7. CASE StoreMagic(p)
  BY <1>0, <1>7 DEF StoreMagic, Go, HistoryStays, RingOK, WriterType, AppendPcs, LogType
<1>8. CASE LoadHead(p)
  BY <1>0, <1>4, <1>8 DEF LoadHead, HistoryStays, RingOK, WriterType, AppendPcs
<1>9. CASE LoadSeq(p)
  BY <1>0, <1>4, <1>9 DEF LoadSeq, HistoryStays, RingOK, WriterType, AppendPcs
<1>10. CASE StoreNextSeq(p)
  BY <1>0, <1>1, <1>10 DEF StoreNextSeq, Go, HistoryStays, RingOK, WriterType, AppendPcs, LogType
<1>11. CASE StoreRecordSeq(p)
  <2>1. [log.records EXCEPT ![wr[p].slot].seq = wr[p].seq] \in [Slots -> Records]
    BY <1>1, <1>2 DEF Records
  <2>2. QED
    BY <1>0, <2>1, <1>11
    DEF StoreRecordSeq, Go, HistoryStays, RingOK, WriterType, AppendPcs, LogType
<1>12. CASE StoreRecordEvent(p)
  <2>1. [log.records EXCEPT ![wr[p].slot].event = wr[p].event] \in [Slots -> Records]
    BY <1>1, <1>2 DEF Records
  <2>2. QED
    BY <1>0, <2>1, <1>12
    DEF StoreRecordEvent, Go, HistoryStays, RingOK, WriterType, AppendPcs, LogType
<1>13. CASE Advance(p)
  BY <1>0, <1>4, <1>13 DEF Advance, Go, HistoryStays, RingOK, WriterType, AppendPcs, LogType
<1>14. CASE TestCount(p)
  BY <1>0, <1>14 DEF TestCount, Go, HistoryStays, RingOK, WriterType, AppendPcs
<1>15. CASE TestCountFull(p)
  BY <1>0, <1>15, ZeroTypes DEF TestCountFull, End, RingOK
<1>16. CASE LoadCount(p)
  BY <1>0, <1>2, <1>16 DEF LoadCount, HistoryStays, RingOK, WriterType, AppendPcs
<1>17. CASE StoreCount(p)
  BY <1>0, <1>4, <1>17, ZeroTypes DEF StoreCount, End, RingOK, LogType
<1>18. CASE Cut(p)
  BY <1>0, <1>18, ZeroTypes DEF Cut, RingOK
<1>19. QED
  BY <1>5, <1>6, <1>7, <1>8, <1>9, <1>10, <1>11, <1>12, <1>13, <1>14, <1>15, <1>16, <1>17, <1>18
  DEF AppendStep

(* So does a clear.                                                         *)
LEMMA ClearTypes ==
  ASSUME RingOK, Clear \/ ClearMagic
  PROVE  RingOK'
<1>0. /\ log \in LogType /\ wr \in [Writers -> WriterType] /\ issued \in 0 .. MaxAppends
      /\ "kernel" \in Writers
  BY DEF RingOK, Clear, ClearMagic
<1>1. CASE Clear
  <2>1. [wr["kernel"] EXCEPT !.pc = "clear_magic"] \in WriterType  BY <1>0 DEF WriterType
  <2>2. wr' \in [Writers -> WriterType]  BY <1>0, <1>1, <2>1 DEF Clear, Go
  <2>3. QED  BY <1>0, <1>1, <2>2, ZeroTypes DEF Clear, RingOK
<1>2. CASE ClearMagic
  <2>1. [log EXCEPT !.magic = TRUE] \in LogType  BY <1>0 DEF LogType
  <2>2. QED  BY <1>0, <1>2, <2>1, ZeroTypes DEF ClearMagic, RingOK
<1>3. QED  BY <1>1, <1>2

(* The end of an append keeps the history well typed: it holds no more      *)
(* records than the ring.                                                   *)
LEMMA EndTypes ==
  ASSUME RingOK, HistoryOK, NEW p \in Writers, End(p)
  PROVE  HistoryOK'
<1>1. Ended(p) \in Records  BY DEF RingOK, Ended, WriterType, Records
<1> DEFINE s == Append(done, Ended(p))
           n == Fitting(Len(done) + 1)
<1>2. s \in Seq(Records) /\ Len(s) = Len(done) + 1 /\ Len(done) \in Nat
  BY <1>1, AppendProperties, LenProperties DEF HistoryOK
<1>3. n \in 1 .. Capacity /\ n <= Len(s)
  BY <1>2, CapacityAssumption DEF Fitting, HistoryOK
<1>4. \A i \in Len(s) - n + 1 .. Len(s) : s[i] \in Records
  BY <1>2, <1>3, LenProperties
<1>5. Newest(s, n) \in Seq(Records) /\ Len(Newest(s, n)) = n
  <2> HIDE DEF s, n
  <2>1. Len(s) - n + 1 \in Int /\ Len(s) \in Int /\ Len(s) - n + 1 <= Len(s)
        /\ Len(s) - (Len(s) - n + 1) + 1 = n
    BY <1>2, <1>3, CapacityAssumption
  <2>2. QED  BY <1>4, <2>1, SubSeqProperties DEF Newest
<1>6. done' = Newest(s, n)  BY DEF End
<1>7. Len(done) < n \/ n = Capacity  BY <1>2, CapacityAssumption DEF Fitting
<1>8. clean' \in 0 .. n
  BY <1>2, <1>3, <1>7, CapacityAssumption DEF End, HistoryOK, Fitting
<1>9. QED  BY <1>3, <1>5, <1>6, <1>8, CapacityAssumption DEF HistoryOK, End

(* So does every other step of an append.                                   *)
LEMMA AppendHistory ==
  ASSUME RingOK, HistoryOK, NEW p \in Writers, AppendStep(p)
  PROVE  HistoryOK'
<1>1. CASE TestCountFull(p) \/ StoreCount(p)
  BY <1>1, EndTypes DEF TestCountFull, StoreCount
<1>2. CASE Begin(p)  BY <1>2 DEF Begin, Meet, Busy, HistoryOK
<1>3. CASE Cut(p)
  <2>1. Len(done) \in Nat  BY LenProperties DEF HistoryOK
  <2>2. QED  BY <1>3, <2>1 DEF Cut, HistoryOK
<1>4. CASE HistoryStays  BY <1>4 DEF HistoryStays, HistoryOK
<1>5. QED
  BY <1>1, <1>2, <1>3, <1>4
  DEF AppendStep, Format, StoreMagic, LoadHead, LoadSeq, StoreNextSeq, StoreRecordSeq,
      StoreRecordEvent, Advance, TestCount, LoadCount

(* The formatted ring the bootloader leaves is well typed.                  *)
LEMMA InitTypes == Init => TypeOK
<1> SUFFICES ASSUME Init  PROVE TypeOK  OBVIOUS
<1>1. [Zeroed EXCEPT !.magic = TRUE] \in LogType  BY ZeroTypes DEF LogType
<1>2. log \in LogType /\ wr \in [Writers -> WriterType]  BY <1>1, ZeroTypes DEF Init
<1>3. <<>> \in Seq(Records) /\ Len(<<>>) = 0  OBVIOUS
<1>4. QED  BY <1>2, <1>3, CapacityAssumption, BoundsAssumption DEF Init, TypeOK

(* Type correctness: in particular write_head is always a slot of the ring, *)
(* whatever the two cores do to it, so no append writes outside the ring.   *)
THEOREM PersistTypes == Spec => []TypeOK
<1>1. Init => TypeOK  BY InitTypes
<1>2. TypeOK /\ [Next]_vars => TypeOK'
  <2> SUFFICES ASSUME RingOK, HistoryOK, [Next]_vars  PROVE RingOK' /\ HistoryOK'
    BY DEF TypeOK, RingOK, HistoryOK
  <2>1. CASE UNCHANGED vars  BY <2>1 DEF vars, RingOK, HistoryOK
  <2>2. CASE Clear \/ ClearMagic
    <3>1. Busy \subseteq Writers  BY DEF Busy
    <3>2. dirty' \subseteq Writers  BY <2>2, <3>1 DEF Clear, ClearMagic, Meet, HistoryOK
    <3>3. <<>> \in Seq(Records) /\ Len(<<>>) = 0  OBVIOUS
    <3>4. CASE Clear
      <4>1. done' = <<>> /\ clean' = 0  BY <3>4 DEF Clear
      <4>2. QED  BY <2>2, <3>2, <3>3, <4>1, ClearTypes, CapacityAssumption DEF HistoryOK
    <3>5. CASE ClearMagic
      <4>1. UNCHANGED <<done, clean>>  BY <3>5 DEF ClearMagic
      <4>2. QED  BY <2>2, <3>2, <4>1, ClearTypes DEF HistoryOK
    <3>6. QED  BY <2>2, <3>4, <3>5
  <2>3. ASSUME NEW p \in Writers, AppendStep(p)  PROVE RingOK' /\ HistoryOK'
    BY <2>3, AppendTypes, AppendHistory
  <2>4. QED  BY <2>1, <2>2, <2>3 DEF Next
<1>3. QED  BY <1>1, <1>2, PTL DEF Spec

-----------------------------------------------------------------------------
(* CountBounded.  A core that is about to increment record_count, or holds  *)
(* the value it will store, bounds how far the word can still go.           *)
Loading(p) == p \in Writers /\ wr[p].pc = "load_count"
Storing(p) == p \in Writers /\ wr[p].pc = "store_count"
Filling(p) == p \in Writers /\ wr[p].pc \in {"format", "magic"}
Past(p)    == p \in Writers /\ wr[p].pc \in AppendPcs \ {"format", "magic"}
Away(p)    == ~(Loading(p) \/ Storing(p) \/ Filling(p))

CountInv ==
  /\ log.record_count <= Capacity + 2
  /\ Loading("worker") => log.record_count <= Capacity
  /\ Storing("worker") => wr["worker"].count <= Capacity
  /\ Loading("kernel") => log.record_count <= Capacity + 1
  /\ Storing("kernel") => wr["kernel"].count <= Capacity + 1
  /\ Loading("kernel") /\ log.record_count >= Capacity => log.magic /\ Away("worker")
  /\ Storing("kernel") /\ wr["kernel"].count >= Capacity
     => log.magic /\ Away("worker") /\ log.record_count >= Capacity
  /\ ~log.magic => ~(Past("kernel") /\ Past("worker"))

(* What a step of core p leaves alone: the other core's place and locals.   *)
OtherStays(p) == \A q \in Writers \ {p} : wr'[q] = wr[q]

LEMMA OthersStay ==
  ASSUME RingOK, NEW p \in Writers, AppendStep(p) \/ (p = "kernel" /\ (Clear \/ ClearMagic))
  PROVE  OtherStays(p)
  BY DEF RingOK, AppendStep, Begin, Format, StoreMagic, LoadHead, LoadSeq, StoreNextSeq,
         StoreRecordSeq, StoreRecordEvent, Advance, TestCount, TestCountFull, LoadCount,
         StoreCount, Cut, End, Clear, ClearMagic, Go, OtherStays

(* The core's place after an assignment to it.                              *)
LEMMA GoGoes ==
  ASSUME RingOK, NEW p \in Writers, NEW pc, Go(p, pc)
  PROVE  wr'[p].pc = pc
<1>1. wr[p] \in WriterType /\ wr'[p] = [wr[p] EXCEPT !.pc = pc]  BY DEF RingOK, Go
<1>2. QED  BY <1>1 DEF WriterType

(* A step of core p that neither touches the count nor is about to.         *)
LEMMA CountFrame ==
  ASSUME RingOK, CountInv, NEW p \in Writers, OtherStays(p),
         log'.record_count = log.record_count, log'.magic = log.magic,
         wr'[p].pc \notin {"load_count", "store_count"},
         wr'[p].pc \in {"format", "magic"} => ~log.magic \/ wr[p].pc \in {"format", "magic"},
         wr'[p].pc \in AppendPcs \ {"format", "magic"}
         => log.magic \/ wr[p].pc \in AppendPcs \ {"format", "magic"}
  PROVE  CountInv'
<1>1. p \in {"kernel", "worker"}  BY WritersAssumption
<1>2. QED  BY <1>1 DEF CountInv, OtherStays, Away, Loading, Storing, Filling, Past

(* The count invariant is kept by every step of an append ...               *)
LEMMA CountAppend ==
  ASSUME RingOK, CountInv, NEW p \in Writers, AppendStep(p)
  PROVE  CountInv'
<1>0. /\ OtherStays(p) /\ p \in {"kernel", "worker"} /\ p \in DOMAIN wr
      /\ log.record_count \in Nat /\ wr[p].count \in Nat /\ Capacity \in Nat \ {0}
  BY OthersStay, WritersAssumption, CapacityAssumption DEF RingOK, LogType, WriterType
<1>r. log \in LogType /\ wr[p] \in WriterType  BY DEF RingOK
<1>1. CASE Begin(p)
  <2>1. UNCHANGED log /\ wr'[p].pc \in {"load_head", "format"}
        /\ (wr'[p].pc = "load_head" <=> log.magic)
    BY <1>0, <1>1 DEF Begin, Resting
  <2>2. QED  BY <1>0, <2>1, CountFrame DEF AppendPcs
<1>2. CASE Format(p)
  <2>1. log'.record_count = 0 /\ ~log'.magic /\ wr[p].pc = "format" /\ wr'[p].pc = "magic"
    BY <1>2, GoGoes DEF Format, Zeroed, At
  <2>2. QED  BY <1>0, <2>1
       DEF CountInv, OtherStays, Away, Loading, Storing, Filling, Past, AppendPcs
<1>3. CASE StoreMagic(p)
  <2>1. log'.record_count = log.record_count /\ log'.magic
        /\ wr[p].pc = "magic" /\ wr'[p].pc = "load_head"
    BY <1>r, <1>3, GoGoes DEF StoreMagic, At, LogType
  <2>2. QED  BY <1>0, <2>1
       DEF CountInv, OtherStays, Away, Loading, Storing, Filling, Past, AppendPcs
<1>4. CASE \/ LoadHead(p) \/ LoadSeq(p) \/ StoreNextSeq(p) \/ StoreRecordSeq(p)
           \/ StoreRecordEvent(p) \/ Advance(p)
  <2>1. log'.record_count = log.record_count /\ log'.magic = log.magic
    BY <1>r, <1>4
    DEF LoadHead, LoadSeq, StoreNextSeq, StoreRecordSeq, StoreRecordEvent, Advance, LogType
  <2>2. wr[p].pc \in AppendPcs \ {"format", "magic"}
    BY <1>4 DEF LoadHead, LoadSeq, StoreNextSeq, StoreRecordSeq, StoreRecordEvent, Advance, At,
               AppendPcs
  <2>3. wr'[p].pc \in {"load_seq", "next_seq", "record_seq", "record_event", "advance",
                      "test_count"}
    <3>1. CASE LoadHead(p) \/ LoadSeq(p)
      BY <1>0, <1>r, <3>1 DEF LoadHead, LoadSeq, RingOK, WriterType
    <3>2. CASE StoreNextSeq(p) \/ StoreRecordSeq(p) \/ StoreRecordEvent(p) \/ Advance(p)
      BY <3>2, GoGoes DEF StoreNextSeq, StoreRecordSeq, StoreRecordEvent, Advance
    <3>3. QED  BY <1>4, <3>1, <3>2
  <2>4. QED  BY <1>0, <2>1, <2>2, <2>3, CountFrame DEF AppendPcs
<1>5. CASE TestCount(p)
  <2>1. UNCHANGED log /\ log.record_count < Capacity /\ wr[p].pc = "test_count"
        /\ wr'[p].pc = "load_count"
    BY <1>5, GoGoes DEF TestCount, HasRoom, At
  <2>2. QED  BY <1>0, <2>1
       DEF CountInv, OtherStays, Away, Loading, Storing, Filling, Past, AppendPcs
<1>6. CASE TestCountFull(p) \/ Cut(p)
  <2>1. UNCHANGED log /\ wr'[p].pc = "idle"
    BY <1>0, <1>6 DEF TestCountFull, Cut, End, Resting
  <2>2. QED  BY <1>0, <2>1, CountFrame DEF AppendPcs
<1>7. CASE LoadCount(p)
  <2>1. UNCHANGED log /\ wr'[p].count = log.record_count /\ wr[p].pc = "load_count"
        /\ wr'[p].pc = "store_count"
    BY <1>0, <1>7 DEF LoadCount, At, RingOK, WriterType
  <2>2. QED  BY <1>0, <2>1
       DEF CountInv, OtherStays, Away, Loading, Storing, Filling, Past, AppendPcs
<1>8. CASE StoreCount(p)
  <2>1. log'.record_count = wr[p].count + 1 /\ log'.magic = log.magic
        /\ wr[p].pc = "store_count" /\ wr'[p].pc = "idle"
    BY <1>0, <1>8 DEF StoreCount, End, At, Resting, RingOK, LogType
  <2>2. QED  BY <1>0, <2>1
       DEF CountInv, OtherStays, Away, Loading, Storing, Filling, Past, AppendPcs
<1>9. QED  BY <1>1, <1>2, <1>3, <1>4, <1>5, <1>6, <1>7, <1>8 DEF AppendStep

(* ... and by a clear, whose zeroes come while the other core may be in the *)
(* middle of its increment.                                                 *)
LEMMA CountClear ==
  ASSUME RingOK, CountInv, Clear \/ ClearMagic
  PROVE  CountInv'
<1>0. "kernel" \in Writers /\ "kernel" \in DOMAIN wr /\ Capacity \in Nat \ {0}
  BY CapacityAssumption DEF RingOK, Clear, ClearMagic
<1>1. OtherStays("kernel")  BY <1>0, OthersStay
<1>2. CASE Clear
  <2>1. log'.record_count = 0 /\ wr'["kernel"].pc = "clear_magic"
    BY <1>0, <1>2, GoGoes DEF Clear, Zeroed
  <2>2. QED  BY <1>0, <1>1, <2>1
       DEF CountInv, OtherStays, Away, Loading, Storing, Filling, Past, AppendPcs
<1>3. CASE ClearMagic
  <2>1. log'.record_count = log.record_count /\ log'.magic /\ wr'["kernel"].pc = "idle"
    BY <1>0, <1>3 DEF ClearMagic, Resting, RingOK, LogType
  <2>2. QED  BY <1>0, <1>1, <2>1
       DEF CountInv, OtherStays, Away, Loading, Storing, Filling, Past, AppendPcs
<1>4. QED  BY <1>2, <1>3

(* record_count passes the capacity by two at most, whatever the two cores  *)
(* and the console do: print_persist's window never wraps more than that.   *)
THEOREM CountBoundedHolds == Spec => []CountBounded
<1>1. Init => CountInv
  <2> SUFFICES ASSUME Init  PROVE CountInv  OBVIOUS
  <2>1. log.record_count = 0 /\ log.magic  BY DEF Init, Zeroed
  <2>2. \A p \in Writers : wr[p].pc = "idle"  BY DEF Init, Resting
  <2>3. QED
    BY <2>1, <2>2, CapacityAssumption DEF CountInv, Loading, Storing
<1>2. TypeOK /\ CountInv /\ [Next]_vars => CountInv'
  <2> SUFFICES ASSUME RingOK, CountInv, [Next]_vars  PROVE CountInv'  BY DEF TypeOK, RingOK
  <2>1. CASE UNCHANGED vars
    BY <2>1 DEF vars, CountInv, Loading, Storing, Filling, Past, Away
  <2>2. CASE Next  BY <2>2, CountAppend, CountClear DEF Next
  <2>3. QED  BY <2>1, <2>2
<1>3. CountInv => CountBounded  BY DEF CountInv, CountBounded
<1>4. QED  BY <1>1, <1>2, <1>3, PersistTypes, PTL DEF Spec

-----------------------------------------------------------------------------
(* CountFits.  One core appends: what it has tested about record_count      *)
(* still holds when it stores the word.                                     *)
CountSoloInv ==
  /\ log.record_count <= Capacity
  /\ \A p \in Writers : /\ Loading(p) => log.record_count < Capacity
                        /\ Storing(p) => wr[p].count < Capacity

(* Every step of the one core's appends keeps it.                           *)
LEMMA CountSoloAppend ==
  ASSUME RingOK, CountSoloInv, NEW c, Writers = {c}, AppendStep(c)
  PROVE  CountSoloInv'
<1>0. /\ c \in Writers /\ log \in LogType /\ wr[c] \in WriterType
      /\ log.record_count \in Nat /\ wr[c].count \in Nat /\ Capacity \in Nat \ {0}
  BY CapacityAssumption DEF RingOK, LogType, WriterType
<1> DEFINE Keeps == /\ log'.record_count = log.record_count
                    /\ wr'[c].pc \notin {"load_count", "store_count"}
<1>1. CASE Begin(c)
  <2>1. Keeps  BY <1>0, <1>1 DEF Begin, Resting, RingOK
  <2>2. QED  BY <2>1 DEF CountSoloInv, Loading, Storing
<1>2. CASE Format(c)
  <2>1. log'.record_count = 0 /\ wr'[c].pc = "magic"
    BY <1>0, <1>2, GoGoes DEF Format, Zeroed
  <2>2. QED  BY <1>0, <2>1 DEF CountSoloInv, Loading, Storing
<1>3. CASE \/ StoreMagic(c) \/ StoreNextSeq(c) \/ StoreRecordSeq(c)
           \/ StoreRecordEvent(c) \/ Advance(c)
  <2>1. log'.record_count = log.record_count
    BY <1>0, <1>3
    DEF StoreMagic, StoreNextSeq, StoreRecordSeq, StoreRecordEvent, Advance, LogType
  <2>2. wr'[c].pc \in AppendPcs \ {"load_count", "store_count"}
    BY <1>0, <1>3, GoGoes
    DEF StoreMagic, StoreNextSeq, StoreRecordSeq, StoreRecordEvent, Advance, AppendPcs
  <2>3. QED  BY <2>1, <2>2 DEF CountSoloInv, Loading, Storing
<1>4. CASE LoadHead(c) \/ LoadSeq(c)
  <2>1. Keeps  BY <1>0, <1>4 DEF LoadHead, LoadSeq, RingOK, WriterType
  <2>2. QED  BY <2>1 DEF CountSoloInv, Loading, Storing
<1>5. CASE TestCount(c)
  <2>1. UNCHANGED log /\ log.record_count < Capacity /\ wr'[c].pc = "load_count"
    BY <1>0, <1>5, GoGoes DEF TestCount, HasRoom
  <2>2. QED  BY <2>1 DEF CountSoloInv, Loading, Storing
<1>6. CASE TestCountFull(c) \/ Cut(c)
  <2>1. UNCHANGED log /\ wr'[c] = Resting
    BY <1>0, <1>6 DEF TestCountFull, Cut, End, RingOK
  <2>2. Keeps  BY <2>1 DEF Resting
  <2>3. QED  BY <2>2 DEF CountSoloInv, Loading, Storing
<1>7. CASE LoadCount(c)
  <2>1. /\ UNCHANGED log /\ wr[c].pc = "load_count" /\ wr'[c].pc = "store_count"
        /\ wr'[c].count = log.record_count
    BY <1>0, <1>7 DEF LoadCount, At, RingOK, WriterType
  <2>2. log.record_count < Capacity  BY <1>0, <2>1 DEF CountSoloInv, Loading
  <2>3. QED  BY <2>1, <2>2 DEF CountSoloInv, Loading, Storing
<1>8. CASE StoreCount(c)
  <2>1. /\ log'.record_count = wr[c].count + 1 /\ wr[c].pc = "store_count"
        /\ wr'[c].pc = "idle"
    BY <1>0, <1>8 DEF StoreCount, End, At, Resting, RingOK, LogType
  <2>2. QED  BY <1>0, <2>1 DEF CountSoloInv, Loading, Storing
<1>9. QED
  BY <1>1, <1>2, <1>3, <1>4, <1>5, <1>6, <1>7, <1>8 DEF AppendStep

(* It holds at the start.                                                   *)
LEMMA CountSoloInit == Init => CountSoloInv
<1> SUFFICES ASSUME Init  PROVE CountSoloInv  OBVIOUS
<1>1. log.record_count = 0  BY DEF Init, Zeroed
<1>2. \A p \in Writers : wr[p].pc = "idle"  BY DEF Init, Resting
<1>3. QED  BY <1>1, <1>2, CapacityAssumption DEF CountSoloInv, Loading, Storing

(* With a single core appending, record_count never claims more records     *)
(* than the ring has, wherever its appends are cut short and the ring is    *)
(* cleared or formatted anew.                                               *)
THEOREM CountFitsHolds ==
  ASSUME NEW c, Writers = {c}
  PROVE  Spec => []CountFits
<1>1. Init => CountSoloInv  BY CountSoloInit
<1>2. TypeOK /\ CountSoloInv /\ [Next]_vars => CountSoloInv'
  <2> SUFFICES ASSUME RingOK, CountSoloInv, [Next]_vars  PROVE CountSoloInv'
    BY DEF TypeOK, RingOK
  <2>0. /\ c \in Writers /\ log \in LogType /\ wr[c] \in WriterType
        /\ log.record_count \in Nat /\ wr[c].count \in Nat /\ Capacity \in Nat \ {0}
    BY CapacityAssumption DEF RingOK, LogType, WriterType
  <2>1. CASE UNCHANGED vars
    BY <2>1 DEF vars, CountSoloInv, Loading, Storing
  <2>2. CASE Clear \/ ClearMagic
    <3>1. c = "kernel" /\ log'.record_count \in {0, log.record_count}
      BY <2>0, <2>2 DEF Clear, ClearMagic, Zeroed, LogType
    <3>2. wr'[c].pc \in {"clear_magic", "idle"}
      BY <2>0, <2>2, <3>1, GoGoes DEF Clear, ClearMagic, Resting, RingOK
    <3>3. QED  BY <2>0, <3>1, <3>2 DEF CountSoloInv, Loading, Storing
  <2>3. CASE AppendStep(c)  BY <2>3, CountSoloAppend
  <2>4. QED  BY <2>1, <2>2, <2>3 DEF Next
<1>3. CountSoloInv => CountFits  BY DEF CountSoloInv, CountFits
<1>4. QED  BY <1>1, <1>2, <1>3, PersistTypes, PTL DEF Spec
=============================================================================
