------------------------------ MODULE PersistLog ------------------------------
(***************************************************************************)
(* The reset-persistent event ring of shared/shared_state.c: persist_append*)
(* as the kernel and the worker run it, ctl_persist_clear, and the part of *)
(* the ring that the kernel's print_persist shows.  Both cores append to   *)
(* the one ring with no lock, so every load and store of persist_append is *)
(* a step.  A core can be stopped between any two of them (a trap, the     *)
(* reset pulse of restart_worker, a warm reset), and the ring survives.    *)
(***************************************************************************)
EXTENDS Integers, Sequences, FiniteSets

CONSTANTS Capacity,    \* KRAKEN_PERSIST_LOG_CAPACITY, 256
          Writers,     \* the cores that append: "kernel", "worker"
          MayClear,    \* does the console get "persist-clear" lines?
          MaxAppends   \* bound on the events logged in a behaviour

(* The code masks with Capacity - 1 and asserts that Capacity is a power of *)
(* two, which makes the mask a remainder.                                   *)
ASSUME CapacityAssumption == Capacity \in Nat \ {0}
ASSUME PowerAssumption    == \E n \in 0 .. 31 : Capacity = 2 ^ n
ASSUME WritersAssumption  == Writers \subseteq {"kernel", "worker"}
ASSUME BoundsAssumption   == MayClear \in BOOLEAN /\ MaxAppends \in Nat

VARIABLES
  log,     \* the ring in DDR, fields as in kraken_persist_log_t
  wr,      \* per core: the step of persist_append it is at, and its locals
  issued,  \* events so far; event n stands for the fields of the n-th record
  done,    \* history: the last records whose append has ended, as many as fit the ring
  clean,   \* history: how many of them have run undisturbed since anything else did not
  dirty    \* history: the cores whose current append met another one

vars == <<log, wr, issued, done, clean, dirty>>

Slots   == 0 .. Capacity - 1
Blank   == [ seq |-> 0, event |-> 0 ]
Zeroed  == [ magic |-> FALSE, next_seq |-> 0, write_head |-> 0, record_count |-> 0,
             records |-> [s \in Slots |-> Blank] ]

AppendPcs == {"format", "magic", "load_head", "load_seq", "next_seq", "record_seq",
              "record_event", "advance", "test_count", "load_count", "store_count"}
Resting   == [ pc |-> "idle", event |-> 0, slot |-> 0, seq |-> 0, count |-> 0 ]
Busy      == { p \in Writers : wr[p].pc # "idle" }

Records   == [ seq : Nat, event : 0 .. MaxAppends ]
LogType   == [ magic : BOOLEAN, next_seq : Nat, write_head : Slots, record_count : Nat,
               records : [Slots -> Records] ]
WriterType == [ pc : AppendPcs \cup {"idle", "clear_magic"}, event : 0 .. MaxAppends,
                slot : Slots, seq : Nat, count : Nat ]

TypeOK ==
  /\ log \in LogType
  /\ wr \in [Writers -> WriterType]
  /\ issued \in 0 .. MaxAppends
  /\ done \in Seq(Records) /\ Len(done) <= Capacity
  /\ clean \in 0 .. Len(done)
  /\ dirty \subseteq Writers

(* The bootloader, which runs alone, has left a formatted ring.             *)
Init ==
  /\ log = [Zeroed EXCEPT !.magic = TRUE]
  /\ wr = [p \in Writers |-> Resting]
  /\ issued = 0 /\ done = <<>> /\ clean = 0 /\ dirty = {}

-----------------------------------------------------------------------------
(* persist_append, one step per access to the ring.                         *)

At(p, pc)    == wr[p].pc = pc
Go(p, pc)    == wr' = [wr EXCEPT ![p].pc = pc]
HistoryStays == UNCHANGED <<issued, done, clean, dirty>>

(* Appends that overlap in time mark each other.                            *)
Meet(p) == dirty' = IF Busy = {} THEN dirty ELSE dirty \cup Busy \cup {p}

(* persist_ensure looks at the magic word.                                  *)
Begin(p) ==
  /\ At(p, "idle")
  /\ issued < MaxAppends
  /\ issued' = issued + 1
  /\ wr' = [wr EXCEPT ![p] = [Resting EXCEPT !.event = issued + 1,
                                !.pc = IF log.magic THEN "load_head" ELSE "format"]]
  /\ Meet(p)
  /\ UNCHANGED <<log, done, clean>>

(* sg2002_memset of the whole ring, then the magic word.                    *)
Format(p) ==
  /\ At(p, "format")
  /\ log' = Zeroed
  /\ Go(p, "magic")
  /\ HistoryStays

StoreMagic(p) ==
  /\ At(p, "magic")
  /\ log' = [log EXCEPT !.magic = TRUE]
  /\ Go(p, "load_head")
  /\ HistoryStays

LoadHead(p) ==
  /\ At(p, "load_head")
  /\ wr' = [wr EXCEPT ![p].slot = log.write_head % Capacity, ![p].pc = "load_seq"]
  /\ UNCHANGED log /\ HistoryStays

LoadSeqFromSlot(p) ==   \* variant: numbers a record by its place
  /\ At(p, "load_seq")
  /\ wr' = [wr EXCEPT ![p].seq = wr[p].slot + 1, ![p].pc = "next_seq"]
  /\ UNCHANGED log /\ HistoryStays

LoadSeq(p) ==
  /\ At(p, "load_seq")
  /\ wr' = [wr EXCEPT ![p].seq = log.next_seq + 1, ![p].pc = "next_seq"]
  /\ UNCHANGED log /\ HistoryStays

StoreHeaderFirst(p) ==   \* variant: publishes the slot before it is written
  /\ At(p, "next_seq")
  /\ log' = [log EXCEPT !.next_seq = wr[p].seq, !.write_head = (wr[p].slot + 1) % Capacity]
  /\ Go(p, "record_seq")
  /\ HistoryStays

StoreNextSeq(p) ==
  /\ At(p, "next_seq")
  /\ log' = [log EXCEPT !.next_seq = wr[p].seq]
  /\ Go(p, "record_seq")
  /\ HistoryStays

StoreRecordSeq(p) ==
  /\ At(p, "record_seq")
  /\ log' = [log EXCEPT !.records[wr[p].slot].seq = wr[p].seq]
  /\ Go(p, "record_event")
  /\ HistoryStays

StoreRecordEvent(p) ==
  /\ At(p, "record_event")
  /\ log' = [log EXCEPT !.records[wr[p].slot].event = wr[p].event]
  /\ Go(p, "advance")
  /\ HistoryStays

AdvanceUnmasked(p) ==    \* variant: forgets the mask
  /\ At(p, "advance")
  /\ log' = [log EXCEPT !.write_head = wr[p].slot + 1]
  /\ Go(p, "test_count")
  /\ HistoryStays

Advance(p) ==
  /\ At(p, "advance")
  /\ log' = [log EXCEPT !.write_head = (wr[p].slot + 1) % Capacity]
  /\ Go(p, "test_count")
  /\ HistoryStays

(* The append ends: an undisturbed one adds to the clean ones, and one that *)
(* met another breaks their row.                                            *)
Ended(p)     == [seq |-> wr[p].seq, event |-> wr[p].event]
Newest(s, n) == SubSeq(s, Len(s) - n + 1, Len(s))
Fitting(n)   == IF n <= Capacity THEN n ELSE Capacity

End(p) ==
  /\ wr' = [wr EXCEPT ![p] = Resting]
  /\ done' = Newest(Append(done, Ended(p)), Fitting(Len(done) + 1))
  /\ clean' = IF p \in dirty THEN 0 ELSE Fitting(clean + 1)
  /\ dirty' = dirty \ {p}
  /\ UNCHANGED issued

(* The test of record_count, and two variants of it: off by one, and none.  *)
HasRoomEarly  == log.record_count < Capacity - 1
HasRoomAlways == TRUE
HasRoom       == log.record_count < Capacity

TestCount(p) ==
  /\ At(p, "test_count")
  /\ HasRoom
  /\ Go(p, "load_count")
  /\ UNCHANGED log /\ HistoryStays

TestCountFull(p) ==
  /\ At(p, "test_count")
  /\ ~HasRoom
  /\ End(p)
  /\ UNCHANGED log

(* record_count++ on a volatile word: a load and a store.                   *)
LoadCount(p) ==
  /\ At(p, "load_count")
  /\ wr' = [wr EXCEPT ![p].count = log.record_count, ![p].pc = "store_count"]
  /\ UNCHANGED log /\ HistoryStays

StoreCountFromSeq(p) ==   \* variant: counts every event ever numbered
  /\ At(p, "store_count")
  /\ log' = [log EXCEPT !.record_count = wr[p].seq]
  /\ End(p)

StoreCount(p) ==
  /\ At(p, "store_count")
  /\ log' = [log EXCEPT !.record_count = wr[p].count + 1]
  /\ End(p)

(* The core is stopped inside an append: by a trap, whose handler appends   *)
(* anew, by the reset pulse of restart_worker, or by a warm reset.          *)
Cut(p) ==
  /\ ~At(p, "idle")
  /\ wr' = [wr EXCEPT ![p] = Resting]
  /\ clean' = 0
  /\ dirty' = dirty \ {p}
  /\ UNCHANGED <<log, issued, done>>

(* ctl_persist_clear, from the kernel's console: the memset, then the magic *)
(* word.                                                                    *)
Clear ==
  /\ MayClear /\ "kernel" \in Writers
  /\ At("kernel", "idle")
  /\ log' = Zeroed
  /\ Go("kernel", "clear_magic")
  /\ Meet("kernel")
  /\ done' = <<>> /\ clean' = 0
  /\ UNCHANGED issued

ClearMagic ==
  /\ "kernel" \in Writers
  /\ At("kernel", "clear_magic")
  /\ log' = [log EXCEPT !.magic = TRUE]
  /\ wr' = [wr EXCEPT !["kernel"] = Resting]
  /\ dirty' = dirty \ {"kernel"}
  /\ UNCHANGED <<issued, done, clean>>

AppendStep(p) ==
  \/ Begin(p)        \/ Format(p)         \/ StoreMagic(p)       \/ LoadHead(p)
  \/ LoadSeq(p)      \/ StoreNextSeq(p)   \/ StoreRecordSeq(p)   \/ StoreRecordEvent(p)
  \/ Advance(p)      \/ TestCount(p)      \/ TestCountFull(p)    \/ LoadCount(p)
  \/ StoreCount(p)   \/ Cut(p)

Next == (\E p \in Writers : AppendStep(p)) \/ Clear \/ ClearMagic

Spec == Init /\ [][Next]_vars

-----------------------------------------------------------------------------
(* What print_persist shows of a ring that nothing changes meanwhile: the   *)
(* record_count records before write_head.                                  *)
Window ==
  IF log.magic
  THEN [ i \in 1 .. log.record_count |->
           log.records[(log.write_head + Capacity - log.record_count + i - 1) % Capacity] ]
  ELSE <<>>

(* The ring heals: whatever interference it has met (appends that overlap,  *)
(* appends cut short, clears), the appends that have run undisturbed since  *)
(* are shown, in order and intact, as far as they fit.                      *)
CleanAppendsShown ==
  Busy = {} => clean <= Len(Window) /\ Newest(Window, clean) = Newest(done, clean)

(* Sequence numbers of undisturbed appends are consecutive, which is what a *)
(* reader goes by to see that nothing is missing between two records.       *)
CleanSeqConsecutive ==
  \A i \in Len(done) - clean + 2 .. Len(done) : done[i].seq = done[i-1].seq + 1

(* With one core appending, a cut append can only spoil the oldest record   *)
(* shown, and that at any moment: the others are in order, none is half     *)
(* written, none is shown twice.                                            *)
OnlyOldestTorn ==
  \A i \in 2 .. Len(Window) - 1 :
     Window[i].seq < Window[i+1].seq /\ Window[i].event < Window[i+1].event

(* With one core appending, record_count never claims more records than the *)
(* ring has.                                                                *)
CountFits == log.record_count <= Capacity

(* With two, the test and the increment of record_count race: it can pass   *)
(* the capacity, so that print_persist shows the newest record first as     *)
(* well as last, and by two when a clear comes between them.                *)
CountBounded == log.record_count <= Capacity + 2
=============================================================================
