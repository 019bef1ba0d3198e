------------------------- MODULE PersistLog_window -------------------------
(***************************************************************************)
(* What print_persist's window shows, for every capacity and any number of *)
(* appends.  The ring heals: what is appended undisturbed, by either core, *)
(* is shown in order, intact and consecutively numbered, whatever has      *)
(* happened to the ring before.  And with one core appending, the window   *)
(* is in order and whole but for its oldest record, wherever appends are   *)
(* cut short.                                                              *)
(***************************************************************************)
EXTENDS PersistLog_proofs

(* The a-th slot behind head h.                                             *)
SlotAt(h, a) == (h + Capacity - 1 - a) % Capacity

Last == done[Len(done)]

Formatting == {"format", "magic", "clear_magic"}
Numbering  == {"load_head", "load_seq", "next_seq"}
Writing    == {"record_seq", "record_event", "advance"}
Counting   == {"test_count", "load_count", "store_count"}

(* Who has met whom: a core that is inside an append and not marked is      *)
(* alone and on a formatted ring, and nothing clean survives a format.      *)
MeetInv ==
  /\ dirty \subseteq Busy
  /\ \A p, q \in Busy : p # q => p \in dirty
  /\ \A p \in Busy : wr[p].pc \in Formatting => clean = 0
  /\ ~log.magic => clean = 0
  /\ \A p \in Busy \ dirty : wr[p].pc \notin Formatting => log.magic

(* The last clean appends but for the oldest are behind the head, from the  *)
(* shift-th slot on, as far as there is room.                               *)
Kept(shift, room) ==
  \A a \in 0 .. clean - 1 :
     a < room => log.records[SlotAt(log.write_head, a + shift)] = done[Len(done) - a]

(* What a core alone in the ring knows at each of its steps.                *)
SlotKnown(p) ==
  /\ wr[p].pc \in {"load_seq", "next_seq"} \cup Writing => wr[p].slot = log.write_head
  /\ wr[p].pc \in {"record_event", "advance"} => log.records[wr[p].slot].seq = wr[p].seq
  /\ wr[p].pc = "advance" => log.records[wr[p].slot].event = wr[p].event
  /\ wr[p].pc \in Counting => log.records[SlotAt(log.write_head, 0)] = Ended(p)

SeqKnown(p) ==
  /\ wr[p].pc = "next_seq" => wr[p].seq = log.next_seq + 1
  /\ wr[p].pc \in Writing \cup Counting => wr[p].seq = log.next_seq
  /\ clean > 0 /\ wr[p].pc \in Numbering => log.next_seq = Last.seq
  /\ clean > 0 /\ wr[p].pc \in Writing \cup Counting => wr[p].seq = Last.seq + 1

RowKept(p) ==
  /\ wr[p].pc \in Numbering \cup Writing => Kept(0, Capacity - 1)
  /\ wr[p].pc \in Counting => Kept(1, Capacity - 1)
  /\ wr[p].pc = "store_count" => wr[p].count = log.record_count

Resting0 == Kept(0, Capacity) /\ (clean > 0 => log.next_seq = Last.seq)

HealInv ==
  dirty = {} =>
    /\ clean <= log.record_count
    /\ Busy = {} => Resting0
    /\ \A p \in Busy : SlotKnown(p) /\ SeqKnown(p) /\ RowKept(p)

-----------------------------------------------------------------------------
(* The mask on the numbers that occur.                                      *)
LEMMA MaskSmall ==
  ASSUME NEW x \in Int, 0 <= x, x < 2 * Capacity
  PROVE  x % Capacity = IF x < Capacity THEN x ELSE x - Capacity
<1>1. Capacity \in Nat \ {0}  BY CapacityAssumption
<1>2. CASE x < Capacity  BY <1>1, <1>2
<1>3. CASE x >= Capacity
  <2>1. x = (x - Capacity) + Capacity * 1 /\ x - Capacity \in 0 .. Capacity - 1  BY <1>1, <1>3
  <2>2. QED  BY <1>1, <1>3, <2>1
<1>4. QED  BY <1>1, <1>2, <1>3

(* A slot behind the head, without the remainder.                           *)
LEMMA SlotAtIs ==
  ASSUME NEW h \in Slots, NEW a \in 0 .. Capacity - 1
  PROVE  /\ SlotAt(h, a) = IF a < h THEN h - 1 - a ELSE h + Capacity - 1 - a
         /\ SlotAt(h, a) \in Slots
<1>1. Capacity \in Nat \ {0} /\ h \in 0 .. Capacity - 1  BY CapacityAssumption DEF Slots
<1> DEFINE x == h + Capacity - 1 - a
<1>2. x \in Int /\ 0 <= x /\ x < 2 * Capacity  BY <1>1
<1>3. x % Capacity = IF x < Capacity THEN x ELSE x - Capacity  BY <1>2, MaskSmall
<1>4. QED  BY <1>1, <1>3 DEF SlotAt, Slots

(* One step of the head: everything behind it is one slot further back, and *)
(* the slot it has left is the newest.                                      *)
LEMMA HeadMoves ==
  ASSUME NEW h \in Slots
  PROVE  /\ (h + 1) % Capacity \in Slots
         /\ SlotAt((h + 1) % Capacity, 0) = h
         /\ \A a \in 0 .. Capacity - 2 : SlotAt((h + 1) % Capacity, a + 1) = SlotAt(h, a)
<1>1. Capacity \in Nat \ {0} /\ h \in 0 .. Capacity - 1  BY CapacityAssumption DEF Slots
<1>2. (h + 1) % Capacity = IF h + 1 < Capacity THEN h + 1 ELSE h + 1 - Capacity
  BY <1>1, MaskSmall
<1>3. (h + 1) % Capacity \in Slots  BY <1>1, <1>2 DEF Slots
<1>4. SlotAt((h + 1) % Capacity, 0) = h  BY <1>1, <1>2, <1>3, SlotAtIs
<1>5. ASSUME NEW a \in 0 .. Capacity - 2
      PROVE  SlotAt((h + 1) % Capacity, a + 1) = SlotAt(h, a)
  <2>1. a \in 0 .. Capacity - 1 /\ a + 1 \in 0 .. Capacity - 1  BY <1>1
  <2>2. SlotAt(h, a) = IF a < h THEN h - 1 - a ELSE h + Capacity - 1 - a  BY <2>1, SlotAtIs
  <2>3. SlotAt((h + 1) % Capacity, a + 1)
          = IF a + 1 < (h + 1) % Capacity THEN ((h + 1) % Capacity) - 1 - (a + 1)
                                          ELSE ((h + 1) % Capacity) + Capacity - 1 - (a + 1)
    BY <1>3, <2>1, SlotAtIs
  <2>4. QED  BY <1>1, <1>2, <2>1, <2>2, <2>3
<1>6. QED  BY <1>3, <1>4, <1>5

(* The slot of the head itself is the oldest one behind it.                 *)
LEMMA HeadApart ==
  ASSUME NEW h \in Slots, NEW a \in 0 .. Capacity - 2
  PROVE  SlotAt(h, a) # h
<1>1. Capacity \in Nat \ {0} /\ h \in 0 .. Capacity - 1  BY CapacityAssumption DEF Slots
<1>2. a \in 0 .. Capacity - 1  BY <1>1
<1>3. SlotAt(h, a) = IF a < h THEN h - 1 - a ELSE h + Capacity - 1 - a  BY <1>2, SlotAtIs
<1>4. QED  BY <1>1, <1>3

-----------------------------------------------------------------------------
(* MeetInv: a core joins, works inside, or leaves.                          *)
LEMMA BusyAfter ==
  ASSUME NEW p \in Writers, OtherStays(p)
  PROVE  Busy' = IF wr'[p].pc = "idle" THEN Busy \ {p} ELSE Busy \cup {p}
  BY DEF Busy, OtherStays

LEMMA JoinMeets ==
  ASSUME MeetInv, NEW p \in Writers \ Busy, OtherStays(p), Meet(p), wr'[p].pc # "idle",
         clean' \in {0, clean}, ~log'.magic => clean' = 0,
         wr'[p].pc \in Formatting => clean' = 0, wr'[p].pc \notin Formatting => log'.magic
  PROVE  MeetInv'
<1>1. Busy' = Busy \cup {p}  BY BusyAfter
<1>2. \A q \in Busy : q \in Writers \ {p} /\ wr'[q] = wr[q]  BY DEF Busy, OtherStays
<1>3. dirty' \subseteq Busy'  BY <1>1 DEF Meet, MeetInv
<1>4. CASE Busy = {}
  <2>1. dirty' = {} /\ Busy' = {p}  BY <1>1, <1>4 DEF Meet, MeetInv
  <2>2. QED  BY <2>1 DEF MeetInv
<1>5. CASE Busy # {}
  <2>1. Busy' \subseteq dirty'  BY <1>1, <1>5 DEF Meet
  <2>2. \A q \in Busy' : wr'[q].pc \in Formatting => clean' = 0  BY <1>1, <1>2 DEF MeetInv
  <2>3. QED  BY <1>3, <2>1, <2>2 DEF MeetInv
<1>6. QED  BY <1>4, <1>5

LEMMA InsideMeets ==
  ASSUME MeetInv, NEW p \in Busy, OtherStays(p), wr'[p].pc # "idle", HistoryStays,
         wr'[p].pc \in Formatting \/ ~log'.magic => clean = 0,
         p \notin dirty /\ wr'[p].pc \notin Formatting => log'.magic
  PROVE  MeetInv'
<1>0. p \in Writers  BY DEF Busy
<1>1. Busy' = Busy  BY <1>0, BusyAfter
<1>2. \A q \in Busy : q # p => wr'[q] = wr[q] /\ q \in dirty  BY DEF Busy, OtherStays, MeetInv
<1>3. UNCHANGED <<clean, dirty>>  BY DEF HistoryStays
<1>4. QED  BY <1>1, <1>2, <1>3 DEF MeetInv

LEMMA LeaveMeets ==
  ASSUME MeetInv, NEW p \in Busy, OtherStays(p), wr'[p].pc = "idle", dirty' = dirty \ {p},
         p \in dirty => clean' = 0, ~log'.magic => clean' = 0,
         clean' = clean \/ Busy = {p} \/ clean' = 0
  PROVE  MeetInv'
<1>0. p \in Writers  BY DEF Busy
<1>1. Busy' = Busy \ {p}  BY <1>0, BusyAfter
<1>2. \A q \in Busy : q # p => wr'[q] = wr[q] /\ q \in dirty'  BY DEF Busy, OtherStays, MeetInv
<1>3. QED  BY <1>1, <1>2 DEF MeetInv

(* The steps inside an append, and those that end one.                      *)
InsideStep(p) ==
  \/ Format(p) \/ StoreMagic(p) \/ LoadHead(p) \/ LoadSeq(p) \/ StoreNextSeq(p)
  \/ StoreRecordSeq(p) \/ StoreRecordEvent(p) \/ Advance(p) \/ TestCount(p) \/ LoadCount(p)
EndStep(p) == TestCountFull(p) \/ StoreCount(p)

LEMMA Steps ==
  ASSUME NEW p, AppendStep(p)
  PROVE  Begin(p) \/ InsideStep(p) \/ EndStep(p) \/ Cut(p)
  BY DEF AppendStep, InsideStep, EndStep

(* Where each of them goes, and what it does to the magic word.             *)
LEMMA InsideGoes ==
  ASSUME RingOK, NEW p \in Writers, InsideStep(p)
  PROVE  /\ p \in Busy /\ wr'[p].pc # "idle" /\ HistoryStays /\ OtherStays(p)
         /\ \/ wr[p].pc = "format" /\ wr'[p].pc = "magic"
            \/ wr[p].pc = "magic" /\ wr'[p].pc = "load_head" /\ log'.magic
            \/ /\ {wr[p].pc, wr'[p].pc} \subseteq Numbering \cup Writing \cup Counting
               /\ log'.magic = log.magic
<1>0. wr[p] \in WriterType /\ log \in LogType /\ p \in DOMAIN wr  BY DEF RingOK
<1>1. OtherStays(p) /\ HistoryStays
  BY OthersStay DEF InsideStep, AppendStep, Format, StoreMagic, LoadHead, LoadSeq, StoreNextSeq,
     StoreRecordSeq, StoreRecordEvent, Advance, TestCount, LoadCount
<1>2. CASE Format(p)
  BY <1>1, <1>2, GoGoes DEF Format, At, Busy
<1>3. CASE StoreMagic(p)
  BY <1>0, <1>1, <1>3, GoGoes DEF StoreMagic, At, Busy, LogType
<1>4. CASE LoadHead(p) \/ LoadSeq(p) \/ LoadCount(p)
  BY <1>0, <1>1, <1>4
  DEF LoadHead, LoadSeq, LoadCount, At, Busy, WriterType, Numbering, Counting, Writing
<1>5. CASE StoreNextSeq(p) \/ StoreRecordSeq(p) \/ StoreRecordEvent(p) \/ Advance(p) \/ TestCount(p)
  <2>1. log'.magic = log.magic
    BY <1>0, <1>5
    DEF StoreNextSeq, StoreRecordSeq, StoreRecordEvent, Advance, TestCount, LogType
  <2>2. /\ wr[p].pc \in Numbering \cup Writing \cup Counting
        /\ wr'[p].pc \in Numbering \cup Writing \cup Counting
    BY <1>0, <1>5, GoGoes
    DEF StoreNextSeq, StoreRecordSeq, StoreRecordEvent, Advance, TestCount, At,
        Numbering, Counting, Writing
  <2>3. p \in Busy /\ wr'[p].pc # "idle"  BY <2>2 DEF Busy, Numbering, Counting, Writing
  <2>4. QED  BY <1>1, <2>1, <2>2, <2>3
<1>6. QED  BY <1>2, <1>3, <1>4, <1>5 DEF InsideStep

LEMMA EndGoes ==
  ASSUME RingOK, NEW p \in Writers, EndStep(p) \/ Cut(p)
  PROVE  /\ p \in Busy /\ wr'[p].pc = "idle" /\ OtherStays(p) /\ dirty' = dirty \ {p}
         /\ log'.magic = log.magic
         /\ clean' = IF Cut(p) \/ p \in dirty THEN 0 ELSE Fitting(clean + 1)
<1>0. wr[p] \in WriterType /\ log \in LogType /\ p \in DOMAIN wr  BY DEF RingOK
<1>1. OtherStays(p)  BY OthersStay DEF EndStep, AppendStep
<1>2. ~(Cut(p) /\ EndStep(p)) \/ p \in dirty \/ clean' = 0
  BY DEF Cut, EndStep
<1>3. CASE Cut(p)
  BY <1>0, <1>1, <1>3 DEF Cut, At, Busy, Resting
<1>4. CASE EndStep(p)
  <2>1. p \in Busy /\ log'.magic = log.magic
    BY <1>0, <1>4 DEF EndStep, TestCountFull, StoreCount, At, Busy, LogType
  <2>2. End(p)  BY <1>4 DEF EndStep, TestCountFull, StoreCount
  <2>3. wr'[p].pc = "idle"  BY <1>0, <2>2 DEF End, Resting
  <2>4. QED  BY <1>1, <1>2, <2>1, <2>2, <2>3 DEF End, Cut
<1>5. QED  BY <1>3, <1>4

LEMMA AppendMeets ==
  ASSUME TypeOK, MeetInv, NEW p \in Writers, AppendStep(p)
  PROVE  MeetInv'
<1>0. RingOK /\ wr[p] \in WriterType /\ p \in DOMAIN wr /\ clean \in Nat
  <2>1. Len(done) \in Nat  BY LenProperties DEF TypeOK
  <2>2. QED  BY <2>1 DEF TypeOK, RingOK
<1>1. CASE Begin(p)
  <2>1. OtherStays(p)  BY <1>0, OthersStay DEF AppendStep
  <2>2. p \in Writers \ Busy /\ Meet(p) /\ UNCHANGED <<log, clean>>
    BY <1>1 DEF Begin, At, Busy
  <2>3. wr'[p].pc = IF log.magic THEN "load_head" ELSE "format"  BY <1>0, <1>1 DEF Begin, Resting
  <2>4. ~log.magic => clean = 0  BY DEF MeetInv
  <2>5. wr'[p].pc # "idle" /\ (wr'[p].pc \in Formatting <=> ~log.magic)
    BY <2>3 DEF Formatting
  <2>6. QED  BY <2>1, <2>2, <2>4, <2>5, JoinMeets
<1>2. CASE InsideStep(p)
  <2>1. p \in Busy /\ wr'[p].pc # "idle" /\ HistoryStays /\ OtherStays(p)  BY <1>0, <1>2, InsideGoes
  <2>2. wr[p].pc \in Formatting \/ ~log.magic => clean = 0  BY <2>1 DEF MeetInv
  <2>3. p \notin dirty /\ wr[p].pc \notin Formatting => log.magic  BY <2>1 DEF MeetInv
  <2>4. wr'[p].pc \in Formatting \/ ~log'.magic => clean = 0
    BY <1>0, <1>2, <2>2, InsideGoes DEF Formatting, Numbering, Writing, Counting
  <2>5. p \notin dirty /\ wr'[p].pc \notin Formatting => log'.magic
    BY <1>0, <1>2, <2>3, InsideGoes DEF Formatting, Numbering, Writing, Counting
  <2>6. QED  BY <2>1, <2>4, <2>5, InsideMeets
<1>3. CASE EndStep(p) \/ Cut(p)
  <2>1. /\ p \in Busy /\ wr'[p].pc = "idle" /\ OtherStays(p) /\ dirty' = dirty \ {p}
        /\ log'.magic = log.magic /\ (p \in dirty => clean' = 0)
        /\ (p \notin dirty => (Cut(p) /\ clean' = 0) \/ EndStep(p))
    BY <1>0, <1>3, EndGoes
  <2>2. p \notin dirty => Busy = {p}  BY <2>1 DEF MeetInv
  <2>3. EndStep(p) => wr[p].pc \notin Formatting
    BY DEF EndStep, TestCountFull, StoreCount, At, Formatting
  <2>4. ~log'.magic => clean' = 0  BY <2>1, <2>3 DEF MeetInv
  <2>5. QED  BY <2>1, <2>2, <2>4, LeaveMeets
<1>4. QED  BY <1>1, <1>2, <1>3, Steps

LEMMA ClearMeets ==
  ASSUME TypeOK, MeetInv, Clear \/ ClearMagic
  PROVE  MeetInv'
<1> DEFINE p == "kernel"
<1>0. RingOK /\ p \in Writers /\ p \in DOMAIN wr /\ log \in LogType
  BY DEF TypeOK, RingOK, Clear, ClearMagic
<1>1. OtherStays(p)  BY <1>0, OthersStay
<1>2. CASE Clear
  <2>1. wr'[p].pc = "clear_magic" /\ Meet(p) /\ clean' = 0 /\ p \notin Busy
    BY <1>0, <1>2, GoGoes DEF Clear, At, Busy
  <2>2. wr'[p].pc # "idle" /\ wr'[p].pc \in Formatting  BY <2>1 DEF Formatting
  <2>3. QED  BY <1>0, <1>1, <2>1, <2>2, JoinMeets
<1>3. CASE ClearMagic
  <2>1. /\ p \in Busy /\ wr[p].pc \in Formatting /\ wr'[p].pc = "idle"
        /\ dirty' = dirty \ {p} /\ clean' = clean
    BY <1>0, <1>3 DEF ClearMagic, At, Busy, Resting, Formatting
  <2>2. clean' = 0  BY <2>1 DEF MeetInv
  <2>3. QED  BY <1>0, <1>1, <2>1, <2>2, LeaveMeets
<1>4. QED  BY <1>2, <1>3

-----------------------------------------------------------------------------
(* What the steps do to the row of clean records behind the head.           *)
RowStays == UNCHANGED <<done, clean>>

LEMMA KeptStays ==
  ASSUME NEW s, NEW r, Kept(s, r), RowStays,
         log'.records = log.records, log'.write_head = log.write_head
  PROVE  Kept(s, r)'
  BY DEF Kept, RowStays

LEMMA KeptNone ==
  ASSUME NEW s, NEW r, clean' = 0
  PROVE  Kept(s, r)'
  BY DEF Kept

(* A store into the head's slot reaches none of them but the oldest.        *)
LEMMA KeptApart ==
  ASSUME TypeOK, Kept(0, Capacity - 1), RowStays, log'.write_head = log.write_head,
         \A s \in Slots \ {log.write_head} : log'.records[s] = log.records[s]
  PROVE  Kept(0, Capacity - 1)'
<1>1. log.write_head \in Slots /\ Capacity \in Nat \ {0}
  BY CapacityAssumption DEF TypeOK, LogType
<1>2. Len(done) \in Nat /\ clean \in Nat
  <2>1. Len(done) \in Nat  BY LenProperties DEF TypeOK
  <2>2. QED  BY <2>1 DEF TypeOK
<1>3. SUFFICES ASSUME NEW a \in 0 .. clean - 1, a < Capacity - 1
               PROVE  log'.records[SlotAt(log.write_head, a + 0)] = done[Len(done) - a]
  BY DEF Kept, RowStays
<1>4. a \in 0 .. Capacity - 2 /\ a \in 0 .. Capacity - 1 /\ a + 0 = a  BY <1>1, <1>2, <1>3
<1>5. SlotAt(log.write_head, a) \in Slots \ {log.write_head}
  BY <1>1, <1>4, SlotAtIs, HeadApart
<1>6. QED  BY <1>3, <1>4, <1>5 DEF Kept

(* The head's step moves all of them one slot back.                         *)
LEMMA KeptMoves ==
  ASSUME TypeOK, Kept(0, Capacity - 1), RowStays, log'.records = log.records,
         log'.write_head = (log.write_head + 1) % Capacity
  PROVE  Kept(1, Capacity - 1)'
<1>1. log.write_head \in Slots /\ Capacity \in Nat \ {0}
  BY CapacityAssumption DEF TypeOK, LogType
<1>2. clean \in Nat
  <2>1. Len(done) \in Nat  BY LenProperties DEF TypeOK
  <2>2. QED  BY <2>1 DEF TypeOK
<1>3. SUFFICES ASSUME NEW a \in 0 .. clean - 1, a < Capacity - 1
               PROVE  log.records[SlotAt((log.write_head + 1) % Capacity, a + 1)]
                        = done[Len(done) - a]
  BY DEF Kept, RowStays
<1>4. a \in 0 .. Capacity - 2 /\ a + 0 = a  BY <1>1, <1>2, <1>3
<1>5. SlotAt((log.write_head + 1) % Capacity, a + 1) = SlotAt(log.write_head, a)
  BY <1>1, <1>4, HeadMoves
<1>6. QED  BY <1>3, <1>4, <1>5 DEF Kept
-----------------------------------------------------------------------------
(* HealInv inside an append that has met no other: what the core knows.     *)
Knows(p) == clean <= log.record_count /\ SlotKnown(p) /\ SeqKnown(p) /\ RowKept(p)

LEMMA HealInside ==
  ASSUME TypeOK, MeetInv, NEW p \in Writers, Knows(p), InsideStep(p)
  PROVE  Knows(p)'
<1>0. /\ RingOK /\ wr \in [Writers -> WriterType] /\ p \in DOMAIN wr /\ wr[p] \in WriterType
      /\ log \in LogType /\ log.write_head \in Slots /\ log.record_count \in Nat
      /\ log.records \in [Slots -> Records]
  BY DEF TypeOK, RingOK, LogType
<1>1. p \in Busy /\ HistoryStays  BY <1>0, InsideGoes
<1>2. UNCHANGED <<issued, done, clean, dirty>> /\ RowStays  BY <1>1 DEF HistoryStays, RowStays
<1>3. CASE Format(p)
  <2>1. wr[p].pc = "format" /\ wr'[p].pc = "magic" /\ log'.record_count = 0
    BY <1>0, <1>3, GoGoes DEF Format, At, Zeroed
  <2>2. clean' = 0  BY <1>1, <1>2, <2>1 DEF MeetInv, Formatting
  <2>3. QED
    BY <2>1, <2>2 DEF Knows, SlotKnown, SeqKnown, RowKept, Numbering, Writing, Counting
<1>4. CASE StoreMagic(p)
  <2>1. wr[p].pc = "magic" /\ wr'[p].pc = "load_head" /\ log'.record_count = log.record_count
    BY <1>0, <1>4, GoGoes DEF StoreMagic, At, LogType
  <2>2. clean' = 0  BY <1>1, <1>2, <2>1 DEF MeetInv, Formatting
  <2>3. Kept(0, Capacity - 1)'  BY <2>2, KeptNone
  <2>4. QED
    BY <1>0, <2>1, <2>2, <2>3 DEF Knows, SlotKnown, SeqKnown, RowKept, Numbering, Writing, Counting
<1>5. CASE LoadHead(p)
  <2>1. /\ wr[p].pc = "load_head" /\ wr'[p].pc = "load_seq" /\ UNCHANGED log
        /\ wr'[p].slot = log.write_head % Capacity
    BY <1>0, <1>5 DEF LoadHead, At, WriterType
  <2>2. log.write_head % Capacity = log.write_head
    BY <1>0, MaskSmall, CapacityAssumption DEF Slots
  <2>3. Kept(0, Capacity - 1)'  BY <1>2, <2>1, KeptStays DEF Knows, RowKept, Numbering
  <2>4. QED
    BY <1>2, <2>1, <2>2, <2>3
    DEF Knows, SlotKnown, SeqKnown, RowKept, Last, Numbering, Writing, Counting
<1>6. CASE LoadSeq(p)
  <2>1. /\ wr[p].pc = "load_seq" /\ wr'[p].pc = "next_seq" /\ UNCHANGED log
        /\ wr'[p].slot = wr[p].slot /\ wr'[p].seq = log.next_seq + 1
    BY <1>0, <1>6 DEF LoadSeq, At, WriterType
  <2>2. Kept(0, Capacity - 1)'  BY <1>2, <2>1, KeptStays DEF Knows, RowKept, Numbering
  <2>3. QED
    BY <1>2, <2>1, <2>2 DEF Knows, SlotKnown, SeqKnown, RowKept, Last, Numbering, Writing, Counting
<1>7. CASE StoreNextSeq(p)
  <2>1. /\ wr[p].pc = "next_seq" /\ wr'[p] = [wr[p] EXCEPT !.pc = "record_seq"]
        /\ log' = [log EXCEPT !.next_seq = wr[p].seq]
    BY <1>0, <1>7 DEF StoreNextSeq, At, Go
  <2>2. /\ wr'[p].pc = "record_seq" /\ wr'[p].slot = wr[p].slot /\ wr'[p].seq = wr[p].seq
        /\ log'.next_seq = wr[p].seq /\ log'.write_head = log.write_head
        /\ log'.records = log.records /\ log'.record_count = log.record_count
    BY <1>0, <2>1 DEF WriterType, LogType
  <2>3. Kept(0, Capacity - 1)'  BY <1>2, <2>1, <2>2, KeptStays DEF Knows, RowKept, Numbering
  <2>4. clean > 0 => wr[p].seq = Last.seq + 1  BY <2>1 DEF Knows, SeqKnown, Numbering
  <2>5. QED
    BY <1>2, <2>1, <2>2, <2>3, <2>4
    DEF Knows, SlotKnown, SeqKnown, RowKept, Last, Numbering, Writing, Counting
<1>8. CASE StoreRecordSeq(p)
  <2>1. /\ wr[p].pc = "record_seq" /\ wr'[p] = [wr[p] EXCEPT !.pc = "record_event"]
        /\ log' = [log EXCEPT !.records[wr[p].slot].seq = wr[p].seq]
        /\ wr[p].slot = log.write_head
    BY <1>0, <1>8 DEF StoreRecordSeq, At, Go, Knows, SlotKnown, Writing
  <2>2. /\ wr'[p].pc = "record_event" /\ wr'[p].slot = wr[p].slot /\ wr'[p].seq = wr[p].seq
        /\ log'.next_seq = log.next_seq /\ log'.write_head = log.write_head
        /\ log'.record_count = log.record_count
    BY <1>0, <2>1 DEF WriterType, LogType
  <2>3. /\ log'.records[log.write_head].seq = wr[p].seq
        /\ \A s \in Slots \ {log.write_head} : log'.records[s] = log.records[s]
    BY <1>0, <2>1 DEF LogType, Records
  <2>4. Kept(0, Capacity - 1)'
    BY <1>2, <2>1, <2>2, <2>3, KeptApart DEF Knows, RowKept, Writing
  <2>5. QED
    BY <1>2, <2>1, <2>2, <2>3, <2>4
    DEF Knows, SlotKnown, SeqKnown, RowKept, Last, Numbering, Writing, Counting
<1>9. CASE StoreRecordEvent(p)
  <2>1. /\ wr[p].pc = "record_event" /\ wr'[p] = [wr[p] EXCEPT !.pc = "advance"]
        /\ log' = [log EXCEPT !.records[wr[p].slot].event = wr[p].event]
        /\ wr[p].slot = log.write_head /\ log.records[wr[p].slot].seq = wr[p].seq
    BY <1>0, <1>9 DEF StoreRecordEvent, At, Go, Knows, SlotKnown, Writing
  <2>2. /\ wr'[p].pc = "advance" /\ wr'[p].slot = wr[p].slot /\ wr'[p].seq = wr[p].seq
        /\ wr'[p].event = wr[p].event
        /\ log'.next_seq = log.next_seq /\ log'.write_head = log.write_head
        /\ log'.record_count = log.record_count
    BY <1>0, <2>1 DEF WriterType, LogType
  <2>3. /\ log'.records[log.write_head].event = wr[p].event
        /\ log'.records[log.write_head].seq = wr[p].seq
        /\ \A s \in Slots \ {log.write_head} : log'.records[s] = log.records[s]
    BY <1>0, <2>1 DEF LogType, Records
  <2>4. Kept(0, Capacity - 1)'
    BY <1>2, <2>1, <2>2, <2>3, KeptApart DEF Knows, RowKept, Writing
  <2>5. QED
    BY <1>2, <2>1, <2>2, <2>3, <2>4
    DEF Knows, SlotKnown, SeqKnown, RowKept, Last, Numbering, Writing, Counting
<1>10. CASE Advance(p)
  <2>1. /\ wr[p].pc = "advance" /\ wr'[p] = [wr[p] EXCEPT !.pc = "test_count"]
        /\ log' = [log EXCEPT !.write_head = (wr[p].slot + 1) % Capacity]
        /\ wr[p].slot = log.write_head /\ log.records[log.write_head].seq = wr[p].seq
        /\ log.records[log.write_head].event = wr[p].event
    BY <1>0, <1>10 DEF Advance, At, Go, Knows, SlotKnown, Writing
  <2>2. /\ wr'[p].pc = "test_count" /\ wr'[p].seq = wr[p].seq /\ wr'[p].event = wr[p].event
        /\ log'.next_seq = log.next_seq /\ log'.write_head = (log.write_head + 1) % Capacity
        /\ log'.records = log.records /\ log'.record_count = log.record_count
    BY <1>0, <2>1 DEF WriterType, LogType
  <2>3. log.records[log.write_head] = Ended(p)
    <3>1. log.records[log.write_head] \in Records  BY <1>0
    <3>2. QED  BY <2>1, <3>1 DEF Records, Ended
  <2>4. SlotAt((log.write_head + 1) % Capacity, 0) = log.write_head  BY <1>0, HeadMoves
  <2>5. log'.records[SlotAt(log'.write_head, 0)] = Ended(p)  BY <2>2, <2>3, <2>4
  <2>6. Ended(p)' = Ended(p)  BY <2>2 DEF Ended
  <2>7. Kept(1, Capacity - 1)'  BY <1>2, <2>1, <2>2, KeptMoves DEF Knows, RowKept, Writing
  <2>8. SlotAt(log.write_head, 0)' = SlotAt(log'.write_head, 0)  BY DEF SlotAt
  <2>9. SlotKnown(p)'
    BY <2>2, <2>5, <2>6, <2>8 DEF SlotKnown, Writing, Counting
  <2>10. QED
    BY <1>2, <2>1, <2>2, <2>7, <2>9 DEF Knows, SeqKnown, RowKept, Last, Numbering, Writing, Counting
<1>11. CASE TestCount(p) \/ LoadCount(p)
  <2>1. /\ wr[p].pc \in {"test_count", "load_count"} /\ UNCHANGED log
        /\ wr'[p].pc \in {"load_count", "store_count"}
        /\ wr'[p].seq = wr[p].seq /\ wr'[p].event = wr[p].event
        /\ (wr'[p].pc = "store_count" => wr'[p].count = log.record_count)
    BY <1>0, <1>11 DEF TestCount, LoadCount, Go, At, WriterType
  <2>2. Kept(1, Capacity - 1)'  BY <1>2, <2>1, KeptStays DEF Knows, RowKept, Counting
  <2>3. Ended(p)' = Ended(p)  BY <2>1 DEF Ended
  <2>4. SlotKnown(p)'  BY <2>1, <2>3 DEF Knows, SlotKnown, SlotAt, Counting, Writing
  <2>5. QED
    BY <1>2, <2>1, <2>2, <2>4 DEF Knows, SeqKnown, RowKept, Last, Numbering, Writing, Counting
<1>12. QED
  BY <1>3, <1>4, <1>5, <1>6, <1>7, <1>8, <1>9, <1>10, <1>11 DEF InsideStep
(* What the end of an append leaves as the history, counted from its end.   *)
LEMMA DoneAfter ==
  ASSUME TypeOK, NEW p \in Writers, End(p)
  PROVE  /\ Len(done') = Fitting(Len(done) + 1)
         /\ done'[Len(done')] = Ended(p)
         /\ \A a \in 1 .. Len(done') - 1 : done'[Len(done') - a] = done[Len(done) - (a - 1)]
<1>1. Ended(p) \in Records  BY DEF TypeOK, Ended, WriterType, Records
<1> DEFINE s == Append(done, Ended(p))
           n == Fitting(Len(done) + 1)
<1>2. /\ s \in Seq(Records) /\ Len(s) = Len(done) + 1 /\ Len(done) \in Nat
      /\ s[Len(s)] = Ended(p) /\ \A i \in 1 .. Len(done) : s[i] = done[i]
  BY <1>1, AppendProperties, LenProperties DEF TypeOK
<1>3. n \in 1 .. Capacity /\ n <= Len(s)
  BY <1>2, CapacityAssumption DEF Fitting, TypeOK
<1>4. \A i \in Len(s) - n + 1 .. Len(s) : s[i] \in Records
  BY <1>2, <1>3, LenProperties
<1>5. /\ Len(Newest(s, n)) = n
      /\ \A i \in 1 .. n : Newest(s, n)[i] = s[Len(s) - n + i]
  <2> HIDE DEF s, n
  <2>1. Len(s) - n + 1 \in Int /\ Len(s) \in Int /\ Len(s) - n + 1 <= Len(s)
        /\ Len(s) - (Len(s) - n + 1) + 1 = n
    BY <1>2, <1>3, CapacityAssumption
  <2>2. \A i \in 1 .. n : Len(s) - n + 1 + i - 1 = Len(s) - n + i  BY <1>2, <1>3, CapacityAssumption
  <2>3. QED  BY <1>4, <2>1, <2>2, SubSeqProperties DEF Newest
<1>6. done' = Newest(s, n)  BY DEF End
<1> HIDE DEF s, n
<1>7. n \in 1 .. n /\ Len(s) - n + n = Len(s)  BY <1>2, <1>3, CapacityAssumption
<1>8. done'[Len(done')] = Ended(p)  BY <1>2, <1>5, <1>6, <1>7
<1>9. ASSUME NEW a \in 1 .. n - 1  PROVE done'[n - a] = done[Len(done) - (a - 1)]
  <2>1. /\ n - a \in 1 .. n /\ Len(s) - n + (n - a) = Len(done) - (a - 1)
        /\ Len(done) - (a - 1) \in 1 .. Len(done)
    BY <1>2, <1>3, <1>9, CapacityAssumption
  <2>2. QED  BY <1>2, <1>5, <1>6, <2>1
<1>10. QED  BY <1>5, <1>6, <1>8, <1>9 DEF n

(* An append that ends undisturbed leaves its record behind the head, and   *)
(* in front of it those that were clean before.                             *)
LEMMA HealEnd ==
  ASSUME TypeOK, CleanSeqConsecutive, NEW p \in Writers, Knows(p), p \notin dirty, EndStep(p)
  PROVE  clean' <= log'.record_count /\ Resting0' /\ CleanSeqConsecutive'
<1>0. /\ wr[p] \in WriterType /\ log \in LogType /\ log.record_count \in Nat
      /\ Capacity \in Nat \ {0} /\ Len(done) \in Nat /\ clean \in 0 .. Len(done)
  BY LenProperties, CapacityAssumption DEF TypeOK, LogType
<1>1. End(p) /\ wr[p].pc \in {"test_count", "store_count"}
  BY DEF EndStep, TestCountFull, StoreCount, At
<1>2. /\ log'.write_head = log.write_head /\ log'.records = log.records
      /\ log'.next_seq = log.next_seq
  BY <1>0 DEF EndStep, TestCountFull, StoreCount, LogType
<1>3. clean' = Fitting(clean + 1)  BY <1>1 DEF End
<1>4. clean' \in 1 .. clean + 1 /\ clean' <= Capacity /\ clean' <= Fitting(Len(done) + 1)
  BY <1>0, <1>3 DEF Fitting
<1>5. /\ log.records[SlotAt(log.write_head, 0)] = Ended(p) /\ Kept(1, Capacity - 1)
      /\ wr[p].seq = log.next_seq /\ (clean > 0 => wr[p].seq = Last.seq + 1)
  BY <1>1 DEF Knows, SlotKnown, SeqKnown, RowKept, Counting
<1>6. clean' <= log'.record_count
  <2>1. CASE TestCountFull(p)
    <3>1. log' = log /\ ~(log.record_count < Capacity)  BY <2>1 DEF TestCountFull, HasRoom
    <3>2. QED  BY <1>0, <1>4, <3>1
  <2>2. CASE StoreCount(p)
    <3>1. log'.record_count = wr[p].count + 1 /\ wr[p].count = log.record_count
          /\ clean <= log.record_count
      BY <1>0, <2>2 DEF StoreCount, At, LogType, Knows, RowKept
    <3>2. QED  BY <1>0, <1>4, <3>1
  <2>3. QED  BY <2>1, <2>2 DEF EndStep
<1>7. /\ Len(done') = Fitting(Len(done) + 1) /\ done'[Len(done')] = Ended(p)
      /\ \A a \in 1 .. Len(done') - 1 : done'[Len(done') - a] = done[Len(done) - (a - 1)]
  BY <1>1, DoneAfter
<1>8. Len(done') \in Nat /\ clean' <= Len(done')  BY <1>0, <1>4, <1>7 DEF Fitting
<1>9. Kept(0, Capacity)'
  <2> SUFFICES ASSUME NEW a \in Nat, a < clean'
               PROVE  log.records[SlotAt(log.write_head, a + 0)] = done'[Len(done') - a]
    <3>1. \A n \in Int : \A a \in 0 .. n - 1 : a \in Nat /\ a < n  OBVIOUS
    <3>2. clean' \in Int  BY <1>0, <1>4
    <3>3. \A a \in 0 .. clean' - 1 : a \in Nat /\ a < clean'  BY <3>1, <3>2, Zenon
    <3>4. QED  BY <1>2, <3>3 DEF Kept, SlotAt
  <2>1. CASE a = 0  BY <1>5, <1>7, <1>8, <2>1
  <2>2. CASE a # 0
    <3>1. a - 1 \in 0 .. clean - 1 /\ a - 1 < Capacity - 1 /\ (a - 1) + 1 = a + 0
          /\ a \in 1 .. Len(done') - 1
      BY <1>0, <1>4, <1>8, <2>2
    <3>2. log.records[SlotAt(log.write_head, (a - 1) + 1)] = done[Len(done) - (a - 1)]
      BY <1>5, <3>1 DEF Kept
    <3>3. QED  BY <1>7, <3>1, <3>2
  <2>3. QED  BY <2>1, <2>2
<1>10. Ended(p).seq = wr[p].seq  BY DEF Ended
<1>11. Last'.seq = log'.next_seq  BY <1>2, <1>5, <1>7, <1>10 DEF Last
<1>12. CleanSeqConsecutive'
  <2> SUFFICES ASSUME NEW i \in Len(done') - clean' + 2 .. Len(done')
               PROVE  done'[i].seq = done'[i - 1].seq + 1
    BY DEF CleanSeqConsecutive
  <2> DEFINE a == Len(done') - i
  <2>1. a \in 0 .. clean - 1 /\ i = Len(done') - a /\ i - 1 = Len(done') - (a + 1)
        /\ a + 1 \in 1 .. Len(done') - 1
    BY <1>0, <1>4, <1>8
  <2>2. done'[i - 1] = done[Len(done) - a]
    <3>1. (a + 1) - 1 = a  BY <1>0, <2>1
    <3> HIDE DEF a
    <3>2. QED  BY <1>7, <2>1, <3>1
  <2>3. CASE a = 0
    <3>1. i = Len(done') /\ clean > 0 /\ Len(done) - a = Len(done)  BY <1>0, <1>8, <2>1, <2>3
    <3> HIDE DEF a
    <3>2. done'[i] = Ended(p) /\ done'[i - 1] = Last  BY <1>7, <2>2, <3>1 DEF Last
    <3>3. QED  BY <1>5, <1>10, <3>1, <3>2
  <2>4. CASE a # 0
    <3>1. /\ a \in 1 .. Len(done') - 1 /\ Len(done) - (a - 1) \in Len(done) - clean + 2 .. Len(done)
          /\ Len(done) - (a - 1) - 1 = Len(done) - a
      BY <1>0, <1>8, <2>1, <2>4
    <3> HIDE DEF a
    <3>2. done'[i] = done[Len(done) - (a - 1)]  BY <1>7, <2>1, <3>1
    <3>3. QED  BY <2>2, <3>1, <3>2 DEF CleanSeqConsecutive
  <2>5. QED  BY <2>3, <2>4
<1>13. QED  BY <1>6, <1>9, <1>11, <1>12 DEF Resting0
-----------------------------------------------------------------------------
(* The other steps: a core joins an empty ring, leaves one it has not       *)
(* appended to undisturbed, or clears it.                                   *)
Heals == HealInv /\ CleanSeqConsecutive

LEMMA SeqStays ==
  ASSUME CleanSeqConsecutive, RowStays
  PROVE  CleanSeqConsecutive'
  BY DEF CleanSeqConsecutive, RowStays

LEMMA SeqNone ==
  ASSUME TypeOK', clean' = 0
  PROVE  CleanSeqConsecutive'
<1>1. Len(done') \in Nat  BY LenProperties DEF TypeOK
<1>2. QED  BY <1>1 DEF CleanSeqConsecutive

LEMMA HealBegin ==
  ASSUME TypeOK, MeetInv, HealInv, NEW p \in Writers, Begin(p)
  PROVE  HealInv'
<1>0. /\ RingOK /\ wr \in [Writers -> WriterType] /\ p \in DOMAIN wr /\ p \notin Busy
      /\ UNCHANGED <<log, done, clean>> /\ OtherStays(p) /\ Capacity \in Nat \ {0}
  BY OthersStay, CapacityAssumption DEF TypeOK, RingOK, Begin, At, Busy, AppendStep
<1>1. wr'[p].pc = IF log.magic THEN "load_head" ELSE "format"  BY <1>0 DEF Begin, Resting
<1>2. CASE Busy = {}
  <2>1. dirty = {} /\ Busy' = {p} /\ clean <= log.record_count /\ Resting0
    BY <1>0, <1>1, <1>2, BusyAfter DEF MeetInv, HealInv
  <2>2. Kept(0, Capacity - 1)'
    <3>1. Len(done) \in Nat /\ clean \in Nat
      <4>1. Len(done) \in Nat  BY LenProperties DEF TypeOK
      <4>2. QED  BY <4>1 DEF TypeOK
    <3>2. \A a \in 0 .. clean - 1 : a < Capacity - 1 => a < Capacity  BY <1>0, <3>1
    <3>3. QED  BY <1>0, <2>1, <3>2 DEF Kept, Resting0, SlotAt
  <2>3. Knows(p)'
    BY <1>0, <1>1, <2>1, <2>2
    DEF Knows, SlotKnown, SeqKnown, RowKept, Resting0, Last, Numbering, Writing, Counting
  <2>4. QED  BY <2>1, <2>3 DEF HealInv, Knows
<1>3. CASE Busy # {}
  BY <1>3 DEF HealInv, Begin, Meet
<1>4. QED  BY <1>2, <1>3

LEMMA HealEmptied ==
  ASSUME TypeOK', MeetInv, NEW p \in Busy, OtherStays(p), wr'[p].pc = "idle",
         dirty' = dirty \ {p}, clean' = 0
  PROVE  HealInv'
<1>0. p \in Writers  BY DEF Busy
<1>1. Busy' = Busy \ {p}  BY <1>0, BusyAfter
<1>2. dirty' = {} => Busy' = {}  BY <1>1 DEF MeetInv
<1>3. log'.record_count \in Nat  BY DEF TypeOK, LogType
<1>4. Resting0'  BY KeptNone DEF Resting0
<1>5. QED  BY <1>2, <1>3, <1>4 DEF HealInv

LEMMA HealAppend ==
  ASSUME TypeOK, TypeOK', MeetInv, Heals, NEW p \in Writers, AppendStep(p)
  PROVE  Heals'
<1>0. RingOK  BY DEF TypeOK, RingOK
<1>1. CASE Begin(p)
  <2>1. RowStays  BY <1>1 DEF Begin, RowStays
  <2>2. QED  BY <1>1, <2>1, HealBegin, SeqStays DEF Heals
<1>2. CASE InsideStep(p)
  <2>1. /\ p \in Busy /\ HistoryStays /\ OtherStays(p) /\ wr'[p].pc # "idle"
    BY <1>0, <1>2, InsideGoes
  <2>2. RowStays /\ dirty' = dirty /\ Busy' = Busy
    BY <2>1, BusyAfter DEF HistoryStays, RowStays
  <2>3. ASSUME dirty = {}  PROVE HealInv'
    <3>1. Busy = {p}  BY <2>1, <2>3 DEF MeetInv
    <3>2. Knows(p)  BY <2>1, <2>3 DEF Heals, HealInv, Knows
    <3>3. Knows(p)'  BY <1>2, <3>2, HealInside
    <3>4. QED  BY <2>2, <3>1, <3>3 DEF HealInv, Knows
  <2>4. dirty # {} => HealInv'  BY <2>2 DEF HealInv
  <2>5. QED  BY <2>2, <2>3, <2>4, SeqStays DEF Heals
<1>3. CASE EndStep(p) \/ Cut(p)
  <2>1. /\ p \in Busy /\ wr'[p].pc = "idle" /\ OtherStays(p) /\ dirty' = dirty \ {p}
        /\ (Cut(p) \/ p \in dirty => clean' = 0)
    BY <1>0, <1>3, EndGoes
  <2>2. CASE Cut(p) \/ p \in dirty
    BY <2>1, <2>2, HealEmptied, SeqNone DEF Heals
  <2>3. CASE EndStep(p) /\ p \notin dirty
    <3>1. Busy = {p} /\ dirty = {}  BY <2>1, <2>3 DEF MeetInv
    <3>2. Knows(p)  BY <2>1, <3>1 DEF Heals, HealInv, Knows
    <3>3. clean' <= log'.record_count /\ Resting0' /\ CleanSeqConsecutive'
      BY <2>3, <3>2, HealEnd DEF Heals
    <3>4. Busy' = {}  BY <2>1, <3>1, BusyAfter
    <3>5. QED  BY <3>3, <3>4 DEF Heals, HealInv
  <2>4. QED  BY <1>3, <2>2, <2>3
<1>4. QED  BY <1>1, <1>2, <1>3, Steps

(* The ring is formatted and empty at the start.                            *)
LEMMA HealInit == Init => MeetInv /\ Heals
<1> SUFFICES ASSUME Init  PROVE MeetInv /\ Heals  OBVIOUS
<1>1. /\ \A p \in Writers : wr[p].pc = "idle"
      /\ clean = 0 /\ dirty = {} /\ Len(done) = 0 /\ log.magic /\ log.record_count = 0
  BY DEF Init, Resting, Zeroed
<1>2. Busy = {}  BY <1>1 DEF Busy
<1>3. QED
  BY <1>1, <1>2 DEF MeetInv, Heals, HealInv, CleanSeqConsecutive, Resting0, Kept

LEMMA HealClear ==
  ASSUME TypeOK, TypeOK', MeetInv, Heals, Clear \/ ClearMagic
  PROVE  Heals'
<1> DEFINE p == "kernel"
<1>0. RingOK /\ p \in Writers /\ p \in DOMAIN wr /\ OtherStays(p)
  BY OthersStay DEF TypeOK, RingOK, Clear, ClearMagic
<1>1. CASE Clear
  <2>1. wr'[p].pc = "clear_magic" /\ clean' = 0 /\ log'.record_count = 0 /\ Meet(p)
    BY <1>0, <1>1, GoGoes DEF Clear, Zeroed
  <2>2. CASE Busy = {}
    <3>1. Busy' = {p}  BY <1>0, <2>1, <2>2, BusyAfter
    <3>2. Knows(p)'
      BY <2>1 DEF Knows, SlotKnown, SeqKnown, RowKept, Numbering, Writing, Counting
    <3>3. QED  BY <2>1, <3>1, <3>2, SeqNone DEF Heals, HealInv, Knows
  <2>3. CASE Busy # {}
    <3>1. dirty' # {}  BY <2>1, <2>3 DEF Meet
    <3>2. QED  BY <2>1, <3>1, SeqNone DEF Heals, HealInv
  <2>4. QED  BY <2>2, <2>3
<1>2. CASE ClearMagic
  <2>1. /\ p \in Busy /\ wr[p].pc \in Formatting /\ wr'[p].pc = "idle"
        /\ dirty' = dirty \ {p} /\ clean' = clean
    BY <1>0, <1>2 DEF ClearMagic, At, Busy, Resting, Formatting
  <2>2. clean' = 0  BY <2>1 DEF MeetInv
  <2>3. QED  BY <1>0, <2>1, <2>2, HealEmptied, SeqNone DEF Heals
<1>3. QED  BY <1>1, <1>2
-----------------------------------------------------------------------------
(* The ring is formatted and empty at the start, and the invariant holds in *)
(* every state.                                                             *)
LEMMA HealHolds == Spec => [](TypeOK /\ MeetInv /\ Heals)
<1>1. Init => MeetInv /\ Heals  BY HealInit
<1>2. TypeOK /\ TypeOK' /\ MeetInv /\ Heals /\ [Next]_vars => MeetInv' /\ Heals'
  <2> SUFFICES ASSUME TypeOK, TypeOK', MeetInv, Heals, [Next]_vars  PROVE MeetInv' /\ Heals'
    OBVIOUS
  <2>1. CASE UNCHANGED vars
    BY <2>1 DEF vars, MeetInv, Heals, HealInv, Busy, CleanSeqConsecutive, Resting0, Kept, SlotAt,
       SlotKnown, SeqKnown, RowKept, Ended, Last
  <2>2. CASE Next
    BY <2>2, AppendMeets, ClearMeets, HealAppend, HealClear DEF Next
  <2>3. QED  BY <2>1, <2>2
<1>3. QED  BY <1>1, <1>2, PersistTypes, PTL DEF Spec

(* Undisturbed appends are numbered consecutively, for every capacity and   *)
(* both cores: what persist_append loads of next_seq is the last clean      *)
(* record's number, however the ring has been interfered with before.       *)
THEOREM CleanSeqConsecutiveHolds == Spec => []CleanSeqConsecutive
<1>1. Heals => CleanSeqConsecutive  BY DEF Heals
<1>2. QED  BY <1>1, HealHolds, PTL

(* The newest n of a sequence.                                              *)
LEMMA NewestIs ==
  ASSUME NEW S, NEW s \in Seq(S), NEW n \in 0 .. Len(s)
  PROVE  /\ Newest(s, n) \in Seq(S) /\ Len(Newest(s, n)) = n
         /\ \A i \in 1 .. n : Newest(s, n)[i] = s[Len(s) - n + i]
<1>1. Len(s) \in Nat /\ \A i \in 1 .. Len(s) : s[i] \in S  BY LenProperties
<1>2. \A i \in Len(s) - n + 1 .. Len(s) : s[i] \in S  BY <1>1
<1>3. Len(s) - n + 1 \in Int /\ Len(s) \in Int /\ Len(s) - (Len(s) - n + 1) + 1 = n  BY <1>1
<1>4. Newest(s, n) \in Seq(S) /\ \A i \in 1 .. n : Newest(s, n)[i] = s[Len(s) - n + 1 + i - 1]
  BY <1>2, <1>3, SubSeqProperties DEF Newest
<1>5. Len(Newest(s, n)) = n
  <2>1. Len(Newest(s, n)) = IF Len(s) - n + 1 <= Len(s) THEN Len(s) - (Len(s) - n + 1) + 1 ELSE 0
    BY <1>2, <1>3, SubSeqProperties DEF Newest
  <2>2. QED  BY <1>1, <2>1
<1>6. \A i \in 1 .. n : Len(s) - n + 1 + i - 1 = Len(s) - n + i  BY <1>1
<1>7. QED  BY <1>4, <1>5, <1>6

(* The last records of print_persist's window are those behind the head.    *)
LEMMA WindowIs ==
  ASSUME TypeOK, log.magic
  PROVE  /\ Window \in Seq(Records) /\ Len(Window) = log.record_count
         /\ \A j \in 1 .. log.record_count :
              Window[j] = log.records[SlotAt(log.write_head, log.record_count - j)]
<1>1. /\ Capacity \in Nat \ {0} /\ log.record_count \in Nat /\ log.write_head \in Int
      /\ log.records \in [Slots -> Records]
  BY CapacityAssumption DEF TypeOK, LogType, Slots
<1>2. \A x \in Int : x % Capacity \in Slots  BY <1>1 DEF Slots
<1>3. ASSUME NEW j \in 1 .. log.record_count
      PROVE  /\ (log.write_head + Capacity - log.record_count + j - 1) % Capacity \in Slots
             /\ log.write_head + Capacity - log.record_count + j - 1
                  = log.write_head + Capacity - 1 - (log.record_count - j)
  <2>1. /\ log.write_head + Capacity - log.record_count + j - 1 \in Int
        /\ log.write_head + Capacity - log.record_count + j - 1
             = log.write_head + Capacity - 1 - (log.record_count - j)
    BY <1>1
  <2>2. QED  BY <1>2, <2>1, Zenon
<1>4. Window = [ j \in 1 .. log.record_count |->
                   log.records[(log.write_head + Capacity - log.record_count + j - 1) % Capacity] ]
  BY DEF Window
<1>5. Window \in [1 .. log.record_count -> Records]  BY <1>1, <1>3, <1>4
<1>6. Window \in Seq(Records) /\ Len(Window) = log.record_count  BY <1>1, <1>5
<1>7. ASSUME NEW j \in 1 .. log.record_count
      PROVE  Window[j] = log.records[SlotAt(log.write_head, log.record_count - j)]
  <2>1. Window[j] = log.records[(log.write_head + Capacity - log.record_count + j - 1) % Capacity]
    BY <1>4
  <2>2. QED  BY <1>3, <2>1 DEF SlotAt
<1>8. QED  BY <1>6, <1>7

(* What the invariant says of the ring is what the window shows.            *)
LEMMA HealShows == TypeOK /\ MeetInv /\ Heals => CleanAppendsShown
<1> SUFFICES ASSUME TypeOK, MeetInv, HealInv, Busy = {}
             PROVE  clean <= Len(Window) /\ Newest(Window, clean) = Newest(done, clean)
  BY DEF CleanAppendsShown, Heals
<1>1. clean <= log.record_count /\ Kept(0, Capacity)  BY DEF MeetInv, HealInv, Resting0
<1>2. /\ done \in Seq(Records) /\ Len(done) \in Nat /\ clean \in 0 .. Len(done) /\ clean \in Nat
      /\ clean <= Capacity /\ Capacity \in Nat /\ log.record_count \in Nat
  <2>1. Len(done) \in Nat  BY LenProperties DEF TypeOK
  <2>2. QED  BY <2>1, CapacityAssumption DEF TypeOK, LogType
<1>3. /\ Window \in Seq(Records) /\ clean \in 0 .. Len(Window) /\ Len(Window) \in Nat
      /\ \A i \in 1 .. clean : Window[Len(Window) - clean + i] = done[Len(done) - clean + i]
  <2>1. CASE log.magic
    <3>1. Window \in Seq(Records) /\ Len(Window) = log.record_count  BY <2>1, WindowIs
    <3>2. ASSUME NEW i \in 1 .. clean
          PROVE  Window[Len(Window) - clean + i] = done[Len(done) - clean + i]
      <4> DEFINE a == clean - i
                 j == log.record_count - clean + i
      <4>1. /\ a \in 0 .. clean - 1 /\ a < Capacity /\ a + 0 = a
            /\ j \in 1 .. log.record_count /\ log.record_count - j = a
            /\ Len(done) - a = Len(done) - clean + i
        BY <1>1, <1>2
      <4>2. Window[j] = log.records[SlotAt(log.write_head, log.record_count - j)]
        BY <2>1, <4>1, WindowIs
      <4>3. log.records[SlotAt(log.write_head, a + 0)] = done[Len(done) - a]
        BY <1>1, <4>1 DEF Kept
      <4>4. QED  BY <3>1, <4>1, <4>2, <4>3
    <3>3. QED  BY <1>1, <1>2, <3>1, <3>2
  <2>2. CASE ~log.magic
    <3>1. clean = 0  BY <2>2 DEF MeetInv
    <3>2. Window = <<>>  BY <2>2 DEF Window
    <3>3. QED  BY <3>1, <3>2
  <2>3. QED  BY <2>1, <2>2
<1>4. Newest(Window, clean) = Newest(done, clean)
  <2>1. /\ Newest(Window, clean) \in Seq(Records) /\ Len(Newest(Window, clean)) = clean
        /\ \A i \in 1 .. clean : Newest(Window, clean)[i] = Window[Len(Window) - clean + i]
    BY <1>3, NewestIs
  <2>2. /\ Newest(done, clean) \in Seq(Records) /\ Len(Newest(done, clean)) = clean
        /\ \A i \in 1 .. clean : Newest(done, clean)[i] = done[Len(done) - clean + i]
    BY <1>2, NewestIs
  <2>3. \A i \in 1 .. clean : Newest(Window, clean)[i] = Newest(done, clean)[i]
    BY <1>3, <2>1, <2>2
  <2>4. QED  BY <2>1, <2>2, <2>3, SeqEqual
<1>5. QED  BY <1>2, <1>3, <1>4

(* The ring heals, for every capacity, any number of appends and both       *)
(* cores: of the appends that have run undisturbed since the last overlap,  *)
(* cut or clear, print_persist shows as many as fit, in order and intact.   *)
THEOREM CleanAppendsShownHolds == Spec => []CleanAppendsShown
<1>1. TypeOK /\ MeetInv /\ Heals => CleanAppendsShown  BY HealShows
<1>2. QED  BY <1>1, HealHolds, PTL
-----------------------------------------------------------------------------
(* One core appending: the order of the records in the window.              *)
Older(r, s) == r.seq < s.seq /\ r.event < s.event

(* The newest n + 1 records behind the head are in order; the slot of the   *)
(* head itself, which the next append writes, is not one of them.           *)
Ordered(records, head, n) ==
  \A a \in Nat : a < n /\ a + 1 < Capacity - 1 =>
     Older(records[SlotAt(head, a + 1)], records[SlotAt(head, a)])

(* Nothing in the ring is newer than what next_seq and issued say, and what *)
(* core p is about to write is newer than all the rest.                     *)
NoneNewer(p) ==
  \A s \in Slots :
    /\ log.records[s].seq <= log.next_seq /\ log.records[s].event <= issued
    /\ wr[p].pc \in {"format", "magic"} \cup Numbering => log.records[s].event < issued
    /\ wr[p].pc \in Writing /\ s # log.write_head
         => log.records[s].seq < log.next_seq /\ log.records[s].event < issued

InHand(p) ==
  /\ wr[p].pc \in {"format", "magic"} \cup Numbering \cup Writing => wr[p].event = issued
  /\ wr[p].pc = "next_seq" => wr[p].seq = log.next_seq + 1
  /\ wr[p].pc \in Writing => wr[p].seq = log.next_seq
  /\ wr[p].pc \in {"load_seq", "next_seq"} \cup Writing => wr[p].slot = log.write_head
  /\ wr[p].pc \in {"record_event", "advance"} => log.records[log.write_head].seq = wr[p].seq
  /\ wr[p].pc = "advance" => log.records[log.write_head].event = wr[p].event
  /\ wr[p].pc = "store_count" => wr[p].count = log.record_count

InOrder(p) ==
  /\ Ordered(log.records, log.write_head, log.record_count - 2)
  /\ wr[p].pc \in Counting => Ordered(log.records, log.write_head, log.record_count - 1)

OrderInv(p) == NoneNewer(p) /\ InHand(p) /\ InOrder(p)

-----------------------------------------------------------------------------
(* A store into the head's slot leaves what is in order behind it alone.    *)
LEMMA OrderedApart ==
  ASSUME NEW h \in Slots, NEW r1, NEW r2, NEW m \in Int, NEW n \in Int, m <= n,
         Ordered(r1, h, n), \A s \in Slots \ {h} : r2[s] = r1[s]
  PROVE  Ordered(r2, h, m)
<1>1. Capacity \in Nat \ {0}  BY CapacityAssumption
<1>2. SUFFICES ASSUME NEW a \in Nat, a < m, a + 1 < Capacity - 1
               PROVE  Older(r2[SlotAt(h, a + 1)], r2[SlotAt(h, a)])
  BY DEF Ordered
<1>3. /\ a \in 0 .. Capacity - 2 /\ a + 1 \in 0 .. Capacity - 2 /\ a < n
      /\ a \in 0 .. Capacity - 1 /\ a + 1 \in 0 .. Capacity - 1
  BY <1>1, <1>2
<1>4. SlotAt(h, a) \in Slots \ {h}  BY <1>3, SlotAtIs, HeadApart
<1>5. SlotAt(h, a + 1) \in Slots \ {h}  BY <1>3, SlotAtIs, HeadApart
<1>6. QED  BY <1>2, <1>3, <1>4, <1>5 DEF Ordered

(* A step of the head over a record newer than the others adds to it.       *)
LEMMA OrderedMoves ==
  ASSUME NEW h \in Slots, NEW r, NEW n \in Int, Ordered(r, h, n),
         \A s \in Slots \ {h} : Older(r[s], r[h])
  PROVE  Ordered(r, (h + 1) % Capacity, n + 1)
<1>1. Capacity \in Nat \ {0}  BY CapacityAssumption
<1> DEFINE g == (h + 1) % Capacity
<1>2. SUFFICES ASSUME NEW a \in Nat, a < n + 1, a + 1 < Capacity - 1
               PROVE  Older(r[SlotAt(g, a + 1)], r[SlotAt(g, a)])
  BY DEF Ordered
<1> HIDE DEF g
<1>3. a \in 0 .. Capacity - 2 /\ a \in 0 .. Capacity - 1  BY <1>1, <1>2
<1>4. SlotAt(g, a + 1) = SlotAt(h, a)  BY <1>3, HeadMoves DEF g
<1>5. SlotAt(h, a) \in Slots \ {h}  BY <1>3, SlotAtIs, HeadApart
<1>6. CASE a = 0
  <2>1. SlotAt(g, a) = h  BY <1>6, HeadMoves DEF g
  <2>2. QED  BY <1>4, <1>5, <2>1
<1>7. CASE a # 0
  <2> DEFINE b == a - 1
  <2>1. b \in 0 .. Capacity - 2 /\ b \in Nat /\ b < n /\ b + 1 < Capacity - 1 /\ b + 1 = a
    BY <1>1, <1>2, <1>7
  <2> HIDE DEF b
  <2>2. SlotAt(g, a) = SlotAt(h, b)
    <3>1. SlotAt(g, b + 1) = SlotAt(h, b)  BY <2>1, HeadMoves DEF g
    <3>2. QED  BY <2>1, <3>1
  <2>3. Older(r[SlotAt(h, b + 1)], r[SlotAt(h, b)])  BY <2>1 DEF Ordered
  <2>4. QED  BY <1>4, <2>1, <2>2, <2>3
<1>8. QED  BY <1>6, <1>7

(* In a ring of zeroes nothing is shown, and nothing is newer.              *)
LEMMA OrderZeroed ==
  ASSUME NEW p \in Writers, log' = Zeroed, issued' \in Nat,
         wr'[p].pc \in {"magic", "clear_magic"},
         wr'[p].pc = "magic" => issued' > 0 /\ wr'[p].event = issued'
  PROVE  OrderInv(p)'
<1>1. /\ log'.record_count = 0 /\ log'.next_seq = 0
      /\ \A s \in Slots : log'.records[s].seq = 0 /\ log'.records[s].event = 0
  BY DEF Zeroed, Blank
<1>2. NoneNewer(p)'  BY <1>1 DEF NoneNewer, Numbering, Writing
<1>3. InHand(p)'  BY DEF InHand, Numbering, Writing
<1>4. \A n \in Int : n < 1 => Ordered(log'.records, log'.write_head, n)  BY DEF Ordered
<1>5. InOrder(p)'  BY <1>1, <1>4 DEF InOrder, Counting
<1>6. QED  BY <1>2, <1>3, <1>5 DEF OrderInv

(* A core that is cut, or has ended its append, leaves the rest as it is.   *)
LEMMA OrderRests ==
  ASSUME TypeOK, NEW p \in Writers, OrderInv(p), wr'[p].pc = "idle", UNCHANGED issued,
         log'.records = log.records, log'.write_head = log.write_head,
         log'.next_seq = log.next_seq,
         \/ log'.record_count = log.record_count
         \/ log'.record_count = log.record_count + 1 /\ wr[p].pc \in Counting
  PROVE  OrderInv(p)'
<1>1. log.record_count \in Nat /\ log.write_head \in Slots  BY DEF TypeOK, LogType
<1>2. NoneNewer(p)'  BY DEF OrderInv, NoneNewer, Numbering, Writing
<1>3. InHand(p)'  BY DEF InHand, Numbering, Writing
<1>4. Ordered(log.records, log.write_head, log'.record_count - 2)
  <2>1. CASE log'.record_count = log.record_count
    BY <2>1 DEF OrderInv, InOrder
  <2>2. CASE log'.record_count = log.record_count + 1 /\ wr[p].pc \in Counting
    <3>1. log'.record_count - 2 = log.record_count - 1  BY <1>1, <2>2
    <3>2. QED  BY <2>2, <3>1 DEF OrderInv, InOrder
  <2>3. QED  BY <2>1, <2>2
<1>5. InOrder(p)'  BY <1>4 DEF InOrder, Counting
<1>6. QED  BY <1>2, <1>3, <1>5 DEF OrderInv
(* OrderInv is kept by every step of an append.                             *)
LEMMA OrderAppend ==
  ASSUME TypeOK, NEW p \in Writers, OrderInv(p), AppendStep(p)
  PROVE  OrderInv(p)'
<1>0. /\ RingOK /\ p \in DOMAIN wr /\ wr[p] \in WriterType /\ log \in LogType
      /\ issued \in Nat /\ Capacity \in Nat \ {0} /\ log.write_head \in Slots
      /\ log.record_count \in Nat /\ log.next_seq \in Nat
      /\ log.records \in [Slots -> Records]
      /\ \A s \in Slots : log.records[s].seq \in Nat /\ log.records[s].event \in Nat
  BY CapacityAssumption, BoundsAssumption DEF TypeOK, RingOK, LogType, Records
<1> DEFINE same == /\ log'.records = log.records /\ log'.write_head = log.write_head
                   /\ log'.next_seq = log.next_seq /\ log'.record_count = log.record_count
<1>1. CASE Begin(p)
  <2>1. /\ wr'[p].pc \in {"load_head", "format"} /\ wr'[p].event = issued' /\ issued' = issued + 1
        /\ UNCHANGED log
    BY <1>0, <1>1 DEF Begin, Resting
  <2>2. NoneNewer(p)'  BY <1>0, <2>1 DEF OrderInv, NoneNewer, Numbering, Writing
  <2>3. InHand(p)'  BY <2>1 DEF InHand, Numbering, Writing
  <2>4. InOrder(p)'  BY <2>1 DEF OrderInv, InOrder, Counting
  <2>5. QED  BY <2>2, <2>3, <2>4 DEF OrderInv
<1>2. CASE Format(p)
  <2>1. /\ log' = Zeroed /\ wr[p].pc = "format" /\ UNCHANGED issued
        /\ wr'[p] = [wr[p] EXCEPT !.pc = "magic"]
    BY <1>0, <1>2 DEF Format, Go, At, HistoryStays
  <2>2. wr'[p].pc = "magic" /\ wr'[p].event = wr[p].event  BY <1>0, <2>1 DEF WriterType
  <2>3. wr[p].event = issued  BY <2>1 DEF OrderInv, InHand
  <2>4. issued > 0
    <3>1. 0 \in Slots  BY <1>0 DEF Slots
    <3>2. log.records[0].event < issued  BY <2>1, <3>1 DEF OrderInv, NoneNewer
    <3>3. QED  BY <1>0, <3>1, <3>2
  <2>5. QED  BY <1>0, <2>1, <2>2, <2>3, <2>4, OrderZeroed
<1>3. CASE StoreMagic(p)
  <2>1. /\ wr[p].pc = "magic" /\ wr'[p].pc = "load_head" /\ wr'[p].event = wr[p].event
        /\ same /\ UNCHANGED issued
    BY <1>0, <1>3 DEF StoreMagic, Go, At, HistoryStays, LogType, WriterType
  <2>2. NoneNewer(p)'  BY <2>1 DEF OrderInv, NoneNewer, Numbering, Writing
  <2>3. InHand(p)'  BY <2>1 DEF OrderInv, InHand, Numbering, Writing
  <2>4. InOrder(p)'  BY <2>1 DEF OrderInv, InOrder, Counting
  <2>5. QED  BY <2>2, <2>3, <2>4 DEF OrderInv
<1>4. CASE LoadHead(p)
  <2>1. /\ wr[p].pc = "load_head" /\ wr'[p].pc = "load_seq" /\ wr'[p].event = wr[p].event
        /\ wr'[p].slot = log.write_head % Capacity /\ UNCHANGED <<log, issued>>
    BY <1>0, <1>4 DEF LoadHead, At, HistoryStays, WriterType
  <2>2. log.write_head % Capacity = log.write_head  BY <1>0, MaskSmall DEF Slots
  <2>3. NoneNewer(p)'  BY <2>1 DEF OrderInv, NoneNewer, Numbering, Writing
  <2>4. InHand(p)'  BY <2>1, <2>2 DEF OrderInv, InHand, Numbering, Writing
  <2>5. InOrder(p)'  BY <2>1 DEF OrderInv, InOrder, Counting
  <2>6. QED  BY <2>3, <2>4, <2>5 DEF OrderInv
<1>5. CASE LoadSeq(p)
  <2>1. /\ wr[p].pc = "load_seq" /\ wr'[p].pc = "next_seq" /\ wr'[p].event = wr[p].event
        /\ wr'[p].slot = wr[p].slot /\ wr'[p].seq = log.next_seq + 1 /\ UNCHANGED <<log, issued>>
    BY <1>0, <1>5 DEF LoadSeq, At, HistoryStays, WriterType
  <2>2. NoneNewer(p)'  BY <2>1 DEF OrderInv, NoneNewer, Numbering, Writing
  <2>3. InHand(p)'  BY <2>1 DEF OrderInv, InHand, Numbering, Writing
  <2>4. InOrder(p)'  BY <2>1 DEF OrderInv, InOrder, Counting
  <2>5. QED  BY <2>2, <2>3, <2>4 DEF OrderInv
<1>6. CASE StoreNextSeq(p)
  <2>1. /\ wr[p].pc = "next_seq" /\ wr'[p].pc = "record_seq" /\ wr'[p].event = wr[p].event
        /\ wr'[p].slot = wr[p].slot /\ wr'[p].seq = wr[p].seq /\ UNCHANGED issued
        /\ log'.next_seq = wr[p].seq /\ log'.records = log.records
        /\ log'.write_head = log.write_head /\ log'.record_count = log.record_count
    BY <1>0, <1>6 DEF StoreNextSeq, Go, At, HistoryStays, WriterType, LogType
  <2>2. wr[p].seq = log.next_seq + 1  BY <2>1 DEF OrderInv, InHand
  <2>3. NoneNewer(p)'
    BY <1>0, <2>1, <2>2 DEF OrderInv, NoneNewer, Numbering, Writing
  <2>4. InHand(p)'  BY <2>1 DEF OrderInv, InHand, Numbering, Writing
  <2>5. InOrder(p)'  BY <2>1 DEF OrderInv, InOrder, Counting
  <2>6. QED  BY <2>3, <2>4, <2>5 DEF OrderInv
<1>7. CASE StoreRecordSeq(p) \/ StoreRecordEvent(p)
  <2>1. /\ wr[p].pc \in {"record_seq", "record_event"} /\ wr'[p].pc \in {"record_event", "advance"}
        /\ (wr'[p].pc = "advance" => wr[p].pc = "record_event")
        /\ wr'[p].event = wr[p].event /\ wr'[p].slot = wr[p].slot /\ wr'[p].seq = wr[p].seq
        /\ UNCHANGED issued
        /\ log'.next_seq = log.next_seq /\ log'.write_head = log.write_head
        /\ log'.record_count = log.record_count
    BY <1>0, <1>7
    DEF StoreRecordSeq, StoreRecordEvent, Go, At, HistoryStays, WriterType, LogType
  <2>2. /\ wr[p].slot = log.write_head /\ wr[p].seq = log.next_seq /\ wr[p].event = issued
        /\ (wr[p].pc = "record_event" => log.records[log.write_head].seq = wr[p].seq)
    BY <2>1 DEF OrderInv, InHand, Writing
  <2>3. \A s \in Slots \ {log.write_head} : log'.records[s] = log.records[s]
    BY <1>0, <1>7, <2>2 DEF StoreRecordSeq, StoreRecordEvent, LogType, Records
  <2>4. /\ log'.records[log.write_head].seq = wr[p].seq
        /\ log'.records[log.write_head].event \in {log.records[log.write_head].event, wr[p].event}
        /\ (wr'[p].pc = "advance" => log'.records[log.write_head].event = wr[p].event)
    <3>1. CASE StoreRecordSeq(p)
      <4>1. /\ log' = [log EXCEPT !.records[log.write_head].seq = wr[p].seq]
            /\ wr'[p].pc = "record_event"
        BY <1>0, <2>2, <3>1, GoGoes DEF StoreRecordSeq
      <4>2. QED  BY <1>0, <4>1 DEF LogType, Records
    <3>2. CASE StoreRecordEvent(p)
      <4>1. /\ log' = [log EXCEPT !.records[log.write_head].event = wr[p].event]
            /\ wr[p].pc = "record_event"
        BY <2>2, <3>2 DEF StoreRecordEvent, At
      <4>2. QED  BY <1>0, <2>2, <4>1 DEF LogType, Records
    <3>3. QED  BY <1>7, <3>1, <3>2
  <2>5. NoneNewer(p)'
    BY <1>0, <2>1, <2>2, <2>3, <2>4 DEF OrderInv, NoneNewer, Numbering, Writing
  <2>6. InHand(p)'  BY <2>1, <2>2, <2>4 DEF InHand, Numbering, Writing
  <2>7. Ordered(log'.records, log.write_head, log.record_count - 2)
    <3>1. log.record_count - 2 \in Int  BY <1>0
    <3>2. Ordered(log.records, log.write_head, log.record_count - 2)  BY DEF OrderInv, InOrder
    <3>3. QED  BY <1>0, <2>3, <3>1, <3>2, OrderedApart
  <2>8. InOrder(p)'  BY <2>1, <2>7 DEF InOrder, Counting
  <2>9. QED  BY <2>5, <2>6, <2>8 DEF OrderInv
<1>8. CASE Advance(p)
  <2>1. /\ wr[p].pc = "advance" /\ wr'[p].pc = "test_count" /\ UNCHANGED issued
        /\ log'.write_head = (wr[p].slot + 1) % Capacity /\ log'.records = log.records
        /\ log'.next_seq = log.next_seq /\ log'.record_count = log.record_count
    BY <1>0, <1>8 DEF Advance, Go, At, HistoryStays, WriterType, LogType
  <2>2. /\ wr[p].slot = log.write_head /\ wr[p].seq = log.next_seq /\ wr[p].event = issued
        /\ log.records[log.write_head].seq = wr[p].seq
        /\ log.records[log.write_head].event = wr[p].event
    BY <2>1 DEF OrderInv, InHand, Writing
  <2>3. NoneNewer(p)'  BY <2>1 DEF OrderInv, NoneNewer, Numbering, Writing
  <2>4. InHand(p)'  BY <2>1 DEF InHand, Numbering, Writing
  <2>5. \A s \in Slots \ {log.write_head} : Older(log.records[s], log.records[log.write_head])
    BY <2>1, <2>2 DEF OrderInv, NoneNewer, Writing, Older
  <2>6. Ordered(log.records, log'.write_head, log.record_count - 1)
    <3>1. log.record_count - 2 \in Int /\ log.record_count - 2 + 1 = log.record_count - 1  BY <1>0
    <3>2. Ordered(log.records, log.write_head, log.record_count - 2)  BY DEF OrderInv, InOrder
    <3>3. Ordered(log.records, (log.write_head + 1) % Capacity, log.record_count - 2 + 1)
      BY <1>0, <2>5, <3>1, <3>2, OrderedMoves
    <3>4. QED  BY <2>1, <2>2, <3>1, <3>3
  <2>7. Ordered(log.records, log'.write_head, log.record_count - 2)
    BY <1>0, <2>6 DEF Ordered
  <2>8. InOrder(p)'  BY <2>1, <2>6, <2>7 DEF InOrder
  <2>9. QED  BY <2>3, <2>4, <2>8 DEF OrderInv
<1>9. CASE TestCount(p) \/ LoadCount(p)
  <2>1. /\ wr[p].pc \in Counting /\ wr'[p].pc \in {"load_count", "store_count"}
        /\ (wr'[p].pc = "store_count" => wr'[p].count = log.record_count)
        /\ UNCHANGED <<log, issued>>
    BY <1>0, <1>9 DEF TestCount, LoadCount, Go, At, HistoryStays, WriterType, Counting
  <2>2. NoneNewer(p)'  BY <2>1 DEF OrderInv, NoneNewer, Numbering, Writing
  <2>3. InHand(p)'  BY <2>1 DEF InHand, Numbering, Writing
  <2>4. InOrder(p)'  BY <2>1 DEF OrderInv, InOrder
  <2>5. QED  BY <2>2, <2>3, <2>4 DEF OrderInv
<1>10. CASE TestCountFull(p) \/ StoreCount(p) \/ Cut(p)
  <2>1. /\ wr'[p].pc = "idle" /\ UNCHANGED issued
        /\ log'.records = log.records /\ log'.write_head = log.write_head
        /\ log'.next_seq = log.next_seq
    BY <1>0, <1>10 DEF TestCountFull, StoreCount, Cut, End, Resting, LogType
  <2>2. \/ log'.record_count = log.record_count
        \/ log'.record_count = log.record_count + 1 /\ wr[p].pc \in Counting
    <3>1. CASE StoreCount(p)
      <4>1. log'.record_count = wr[p].count + 1 /\ wr[p].pc = "store_count"
        BY <1>0, <3>1 DEF StoreCount, At, LogType
      <4>2. QED  BY <4>1 DEF OrderInv, InHand, Counting
    <3>2. CASE TestCountFull(p) \/ Cut(p)
      BY <3>2 DEF TestCountFull, Cut
    <3>3. QED  BY <1>10, <3>1, <3>2
  <2>3. QED  BY <2>1, <2>2, OrderRests
<1>11. QED
  BY <1>1, <1>2, <1>3, <1>4, <1>5, <1>6, <1>7, <1>8, <1>9, <1>10 DEF AppendStep

(* At the start there are no records to be out of order.                    *)
LEMMA OrderInit ==
  ASSUME NEW c \in Writers
  PROVE  Init => OrderInv(c)
<1> SUFFICES ASSUME Init  PROVE OrderInv(c)  OBVIOUS
<1>1. /\ wr[c].pc = "idle" /\ log.record_count = 0 /\ log.next_seq = 0 /\ issued = 0
      /\ \A s \in Slots : log.records[s].seq = 0 /\ log.records[s].event = 0
  BY DEF Init, Resting, Zeroed, Blank
<1>2. NoneNewer(c) /\ InHand(c)  BY <1>1 DEF NoneNewer, InHand, Numbering, Writing
<1>3. \A n \in Int : n < 1 => Ordered(log.records, log.write_head, n)  BY DEF Ordered
<1>4. InOrder(c)  BY <1>1, <1>3 DEF InOrder, Counting
<1>5. QED  BY <1>2, <1>4 DEF OrderInv

(* Records in order behind the head are a window in order.                  *)
LEMMA OrderShows ==
  ASSUME NEW c \in Writers
  PROVE  TypeOK /\ OrderInv(c) /\ CountFits => OnlyOldestTorn
<1> SUFFICES ASSUME TypeOK, OrderInv(c), CountFits, NEW i \in 2 .. Len(Window) - 1
             PROVE  Window[i].seq < Window[i + 1].seq /\ Window[i].event < Window[i + 1].event
  BY DEF OnlyOldestTorn
<1>1. log.magic
  <2>1. SUFFICES ASSUME ~log.magic  PROVE FALSE  OBVIOUS
  <2>2. Len(Window) = 0  BY <2>1 DEF Window
  <2>3. QED  BY <2>2
<1>2. log.record_count \in Nat /\ Capacity \in Nat /\ log.record_count <= Capacity
  BY CapacityAssumption DEF TypeOK, LogType, CountFits
<1>3. Len(Window) = log.record_count  BY <1>1, WindowIs
<1> DEFINE a == log.record_count - (i + 1)
<1>4. /\ a \in Nat /\ a < log.record_count - 2 /\ a + 1 < Capacity - 1
      /\ log.record_count - i = a + 1
      /\ i \in 1 .. log.record_count /\ i + 1 \in 1 .. log.record_count
  BY <1>2, <1>3
<1>5. /\ Window[i] = log.records[SlotAt(log.write_head, log.record_count - i)]
      /\ Window[i + 1] = log.records[SlotAt(log.write_head, log.record_count - (i + 1))]
  BY <1>1, <1>4, WindowIs
<1>6. Older(log.records[SlotAt(log.write_head, a + 1)], log.records[SlotAt(log.write_head, a)])
  BY <1>4 DEF OrderInv, InOrder, Ordered
<1>7. QED  BY <1>4, <1>5, <1>6 DEF Older

(* With one core appending, whatever cuts its appends short spoils at most  *)
(* the oldest record of print_persist's window: the others are in order,    *)
(* none is half written and none is shown twice.                            *)
THEOREM OnlyOldestTornHolds ==
  ASSUME NEW c, Writers = {c}
  PROVE  Spec => []OnlyOldestTorn
<1>0. c \in Writers  OBVIOUS
<1>1. Init => OrderInv(c)  BY OrderInit
<1>2. TypeOK /\ OrderInv(c) /\ [Next]_vars => OrderInv(c)'
  <2> SUFFICES ASSUME TypeOK, OrderInv(c), [Next]_vars  PROVE OrderInv(c)'  OBVIOUS
  <2>0. RingOK /\ c \in DOMAIN wr /\ log \in LogType /\ issued \in Nat
    BY BoundsAssumption DEF TypeOK, RingOK
  <2>1. CASE UNCHANGED vars
    BY <2>1 DEF vars, OrderInv, NoneNewer, InHand, InOrder
  <2>2. CASE Clear
    <3>1. c = "kernel" /\ log' = Zeroed /\ UNCHANGED issued /\ wr'[c].pc = "clear_magic"
      BY <2>0, <2>2, GoGoes DEF Clear
    <3>2. QED  BY <2>0, <3>1, OrderZeroed
  <2>3. CASE ClearMagic
    <3>1. /\ c = "kernel" /\ wr'[c].pc = "idle" /\ UNCHANGED issued
          /\ log'.records = log.records /\ log'.write_head = log.write_head
          /\ log'.next_seq = log.next_seq /\ log'.record_count = log.record_count
      BY <2>0, <2>3 DEF ClearMagic, Resting, LogType
    <3>2. QED  BY <3>1, OrderRests
  <2>4. CASE AppendStep(c)  BY <2>4, OrderAppend
  <2>5. QED  BY <2>1, <2>2, <2>3, <2>4 DEF Next
<1>3. TypeOK /\ OrderInv(c) /\ CountFits => OnlyOldestTorn  BY OrderShows
<1>4. QED  BY <1>1, <1>2, <1>3, PersistTypes, CountFitsHolds, PTL DEF Spec
=============================================================================
