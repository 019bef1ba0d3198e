---------------------------- MODULE LogDumps_proofs ----------------------------
(***************************************************************************)
(* The dumps of LogDumps, for every size of the rings and any number of    *)
(* events: while the worker logs, and is stopped anywhere in between, the  *)
(* rings and the readers' places stay within bounds, the persistent ring   *)
(* keeps what PersistLog promises of one writer, and every line shows one  *)
(* whole record, the one that belongs there, until the worker comes round  *)
(* to its slot.  Every theorem assumes that the worker is the only core    *)
(* that appends (Writers = {W}): the kernel's own appends are left out.    *)
(***************************************************************************)
EXTENDS LogDumps, PersistLog_window

(* The b-th slot behind head h of a ring of n, and how far head g is past h.*)
Behind(n, h, b) == (h + n - 1 - b) % n
Ahead(n, h, g)  == IF g >= h THEN g - h ELSE g - h + n

(* The persistent ring: what PersistLog's proofs establish for one core,    *)
(* and a ring that is formatted once and never cleared.                     *)
RingInv ==
  /\ TypeOK /\ CountSoloInv /\ MeetInv /\ Heals /\ OrderInv(W)
  /\ log.magic /\ wr[W].pc \notin Formatting

(* The worker inside ctl_trace_log or ctl_fault_log.                        *)
PagerPcs  == {"source", "code", "advance", "test_count", "load_count", "store_count", "persist"}
PagerType == [ pc : PagerPcs \cup {"idle"}, event : 0 .. MaxAppends, slot : PageSlots,
               count : 0 .. PageSize - 1 ]
PageType  == [ head : PageSlots, count : 0 .. PageSize, records : [PageSlots -> PageRecord] ]
Events    == 0 .. MaxAppends

PageInv ==
  /\ page \in PageType /\ pw \in PagerType
  /\ pw.pc # "persist" => At(W, "idle")
  /\ pw.pc # "idle" /\ At(W, "idle") => pw.event = issued + 1 /\ issued < MaxAppends
  /\ pw.pc \in Before => pw.slot = page.head
  /\ pw.pc \in {"code", "advance"} => page.records[pw.slot].source = pw.event
  /\ pw.pc = "advance" => page.records[pw.slot].code = pw.event
  /\ pw.pc = "load_count" => page.count < PageSize

(* The newest of the events s are behind head h, whole, as far as there is  *)
(* room.                                                                    *)
Whole(e) == [ source |-> e, code |-> e ]
Row(records, h, s, room) ==
  \A a \in 0 .. Len(s) - 1 :
    a < room => records[Behind(PageSize, h, a)] = Whole(s[Len(s) - a])

(* The filed events are behind the page's head, but for the oldest while    *)
(* its slot is being written.                                               *)
One(b) == IF b THEN 1 ELSE 0
FiledInv ==
  /\ filed \in Seq(Events) /\ Len(filed) <= PageSize
  /\ Row(page.records, page.head, filed, PageSize - One(pw.pc \in Before))

(* The reader's places.                                                     *)
ReaderType == [ pc : PagePcs \cup PersistPcs \cup {"idle"}, i : Nat, count : Nat, head : Nat,
                line : [ first : Nat, last : Nat ] ]
PageLines    == {"page_first", "page_last", "page_printed"}
PersistLines == {"log_first", "log_last", "log_printed"}

ReaderInv ==
  /\ rd \in ReaderType /\ begun \in 0 .. PageSize + Capacity
  /\ snap \in Seq(Events) /\ Len(snap) <= PageSize
  /\ rd.pc \in PagePcs => rd.count <= PageSize /\ rd.i < rd.count
  /\ rd.pc \in PageLines => rd.head \in PageSlots
  /\ rd.pc \in PersistPcs => rd.i <= log.record_count /\ rd.count <= Capacity
  /\ rd.pc \in PersistPcs \ {"log_head"} => rd.i < log.record_count /\ rd.head \in Slots
  /\ rd.pc \in PersistLines => rd.i < rd.count

(* The worker has not come further round since the head was loaded than the *)
(* appends begun since, the one in progress included.                       *)
Pending == pw.pc # "idle" /\ ~HeadMoved

Close(n, h, g, m, b) == b < n => Ahead(n, h, g) + m <= b

PageAhead ==
  rd.pc \in PageLines => Close(PageSize, rd.head, page.head, One(pw.pc \in Before), begun)
PersistAhead ==
  rd.pc \in PersistPcs \ {"log_head"}
  => Close(Capacity, rd.head, log.write_head, One(Pending), begun)

(* What the dump's head had behind it is there until then.                  *)
SnapInv ==
  rd.pc \in PageLines => Row(page.records, rd.head, snap, PageSize - begun)

(* The line shows what its slot holds.                                      *)
Back == rd.count - rd.i - 1
PageLine ==
  rd.pc \in PageLines /\ Back < Len(snap) /\ begun < PageSize - Back =>
    /\ rd.pc \in {"page_last", "page_printed"} => rd.line.first = snap[Len(snap) - Back]
    /\ rd.pc = "page_printed" => rd.line.last = snap[Len(snap) - Back]
PersistLine ==
  rd.pc \in PersistLines /\ begun < Capacity - Back =>
    /\ rd.pc \in {"log_last", "log_printed"} =>
         rd.line.first = log.records[Behind(Capacity, rd.head, Back)].seq
    /\ rd.pc = "log_printed" =>
         rd.line.last = log.records[Behind(Capacity, rd.head, Back)].event

PageDumpInv    == PageAhead /\ SnapInv /\ PageLine
PersistDumpInv == PersistAhead /\ PersistLine
LogsInv == RingInv /\ PageInv /\ FiledInv /\ ReaderInv /\ PageDumpInv /\ PersistDumpInv

-----------------------------------------------------------------------------
(* The slots of a ring of any size.                                         *)
LEMMA MaskOf ==
  ASSUME NEW n \in Nat \ {0}, NEW x \in 0 .. 2 * n - 1
  PROVE  x % n = IF x < n THEN x ELSE x - n
<1>1. CASE x < n  BY <1>1
<1>2. CASE x >= n
  <2>1. x = (x - n) + n * 1 /\ x - n \in 0 .. n - 1  BY <1>2
  <2>2. QED  BY <1>2, <2>1
<1>3. QED  BY <1>1, <1>2

LEMMA BehindIs ==
  ASSUME NEW n \in Nat \ {0}, NEW h \in 0 .. n - 1, NEW b \in 0 .. n - 1
  PROVE  /\ Behind(n, h, b) = IF b < h THEN h - 1 - b ELSE h + n - 1 - b
         /\ Behind(n, h, b) \in 0 .. n - 1
<1> DEFINE x == h + n - 1 - b
<1>1. x \in 0 .. 2 * n - 1  OBVIOUS
<1>2. x % n = IF x < n THEN x ELSE x - n  BY <1>1, MaskOf
<1>3. QED  BY <1>2 DEF Behind

LEMMA NextHead ==
  ASSUME NEW n \in Nat \ {0}, NEW h \in 0 .. n - 1
  PROVE  /\ h % n = h
         /\ (h + 1) % n = IF h + 1 < n THEN h + 1 ELSE 0
         /\ (h + 1) % n \in 0 .. n - 1
<1> DEFINE x == h + 1
<1>1. h \in 0 .. 2 * n - 1 /\ x \in 0 .. 2 * n - 1 /\ (x >= n => x - n = 0)  OBVIOUS
<1>2. h % n = h  BY <1>1, MaskOf
<1>3. x % n = IF x < n THEN x ELSE x - n
  <2> HIDE DEF x
  <2>1. QED  BY <1>1, MaskOf
<1>4. QED  BY <1>1, <1>2, <1>3

(* A step of the head puts everything one slot further back, and the slot   *)
(* it leaves right behind it.                                               *)
LEMMA BehindMoves ==
  ASSUME NEW n \in Nat \ {0}, NEW h \in 0 .. n - 1
  PROVE  /\ Behind(n, (h + 1) % n, 0) = h
         /\ \A a \in 1 .. n - 1 : Behind(n, (h + 1) % n, a) = Behind(n, h, a - 1)
<1> DEFINE g == (h + 1) % n
<1>1. g = (IF h + 1 < n THEN h + 1 ELSE 0) /\ g \in 0 .. n - 1  BY NextHead
<1> HIDE DEF g
<1>2. Behind(n, g, 0) = h
  <2>1. 0 \in 0 .. n - 1  OBVIOUS
  <2>2. Behind(n, g, 0) = IF 0 < g THEN g - 1 - 0 ELSE g + n - 1 - 0  BY <1>1, <2>1, BehindIs
  <2>3. QED  BY <1>1, <2>2
<1>3. ASSUME NEW a \in 1 .. n - 1
      PROVE  Behind(n, g, a) = Behind(n, h, a - 1)
  <2>1. a \in 0 .. n - 1 /\ a - 1 \in 0 .. n - 1  OBVIOUS
  <2>2. Behind(n, g, a) = IF a < g THEN g - 1 - a ELSE g + n - 1 - a  BY <1>1, <2>1, BehindIs
  <2>3. Behind(n, h, a - 1) = IF a - 1 < h THEN h - 1 - (a - 1) ELSE h + n - 1 - (a - 1)
    BY <2>1, BehindIs
  <2>4. QED  BY <1>1, <2>1, <2>2, <2>3
<1>4. QED  BY <1>2, <1>3 DEF g

(* The head's own slot is the last one behind it.                           *)
LEMMA BehindHead ==
  ASSUME NEW n \in Nat \ {0}, NEW h \in 0 .. n - 1, NEW a \in 0 .. n - 2
  PROVE  Behind(n, h, a) # h
<1>1. a \in 0 .. n - 1  OBVIOUS
<1>2. Behind(n, h, a) = IF a < h THEN h - 1 - a ELSE h + n - 1 - a  BY <1>1, BehindIs
<1>3. QED  BY <1>1, <1>2

(* The worker stays close: a step that moves the head ends what was begun.  *)
LEMMA CloseStays ==
  ASSUME NEW n \in Nat \ {0}, NEW h \in 0 .. n - 1, NEW g \in 0 .. n - 1, NEW g2, NEW b \in Nat,
         NEW m \in Nat, NEW m2 \in Nat, Close(n, h, g, m, b),
         \/ g2 = g /\ m2 <= m
         \/ g2 = (g + 1) % n /\ m = 1 /\ m2 = 0
  PROVE  Close(n, h, g2, m2, b)
<1>1. (g + 1) % n = IF g + 1 < n THEN g + 1 ELSE 0  BY NextHead
<1>2. CASE g2 = g /\ m2 <= m
  BY <1>2 DEF Close, Ahead
<1>3. CASE g2 = (g + 1) % n /\ m = 1 /\ m2 = 0
  BY <1>1, <1>3 DEF Close, Ahead
<1>4. QED  BY <1>2, <1>3

LEMMA CloseBegins ==
  ASSUME NEW n \in Nat \ {0}, NEW h \in 0 .. n - 1, NEW g \in 0 .. n - 1, NEW b \in Nat,
         NEW m \in 0 .. 1, Close(n, h, g, 0, b), NEW b2, b2 = Least(b + 1, n)
  PROVE  Close(n, h, g, m, b2)
BY DEF Close, Ahead, Least

LEMMA CloseHere ==
  ASSUME NEW n \in Nat \ {0}, NEW h \in 0 .. n - 1, NEW m \in 0 .. 1
  PROVE  Close(n, h, h, m, m)
BY DEF Close, Ahead

(* Until then the slot it writes is none of those.                          *)
LEMMA CloseApart ==
  ASSUME NEW n \in Nat \ {0}, NEW h \in 0 .. n - 1, NEW g \in 0 .. n - 1, NEW b \in Nat,
         NEW a \in Nat, Close(n, h, g, 1, b), b < n - a
  PROVE  Behind(n, h, a) # g
<1>1. a \in 0 .. n - 1 /\ b < n  OBVIOUS
<1>2. Ahead(n, h, g) + 1 <= b  BY <1>1 DEF Close
<1>3. Behind(n, h, a) = IF a < h THEN h - 1 - a ELSE h + n - 1 - a  BY <1>1, BehindIs
<1>4. QED  BY <1>1, <1>2, <1>3 DEF Ahead

-----------------------------------------------------------------------------
(* The persistent ring under the worker's appends.                          *)
LEMMA RingInit ==
  ASSUME Writers = {W}
  PROVE  LogsInit => RingInv
<1> SUFFICES ASSUME Init  PROVE RingInv  BY DEF LogsInit
<1>1. W \in Writers  OBVIOUS
<1>2. TypeOK /\ CountSoloInv /\ MeetInv /\ Heals
  BY InitTypes, CountSoloInit, HealInit
<1>3. OrderInv(W)  BY <1>1, OrderInit
<1>4. log.magic /\ wr[W].pc = "idle"  BY <1>1 DEF Init, Zeroed, Resting
<1>5. QED  BY <1>2, <1>3, <1>4 DEF RingInv, Formatting

LEMMA RingQuiet ==
  ASSUME RingInv, UNCHANGED logVars
  PROVE  RingInv'
<1>1. UNCHANGED <<log, wr, issued, done, clean, dirty>>  BY DEF logVars
<1>2. TypeOK' /\ CountSoloInv'
  BY <1>1 DEF RingInv, TypeOK, CountSoloInv, Loading, Storing
<1>3. MeetInv' /\ Heals'
  BY <1>1 DEF RingInv, MeetInv, Heals, HealInv, Busy, CleanSeqConsecutive, Resting0, Kept, SlotAt,
     SlotKnown, SeqKnown, RowKept, Ended, Last
<1>4. OrderInv(W)'  BY <1>1 DEF RingInv, OrderInv, NoneNewer, InHand, InOrder
<1>5. QED  BY <1>1, <1>2, <1>3, <1>4 DEF RingInv

(* An event that got no further than the page leaves its number unused.     *)
LEMMA RingSkip ==
  ASSUME RingInv, Writers = {W}, At(W, "idle"), issued < MaxAppends, issued' = issued + 1,
         UNCHANGED <<log, wr, done, clean, dirty>>
  PROVE  RingInv'
<1>1. issued \in Nat /\ issued' \in 0 .. MaxAppends
  BY BoundsAssumption DEF RingInv, TypeOK
<1>2. TypeOK' /\ CountSoloInv'
  BY <1>1 DEF RingInv, TypeOK, CountSoloInv, Loading, Storing
<1>3. MeetInv' /\ Heals'
  BY DEF RingInv, MeetInv, Heals, HealInv, Busy, CleanSeqConsecutive, Resting0, Kept, SlotAt,
     SlotKnown, SeqKnown, RowKept, Ended, Last
<1>4. OrderInv(W)'
  <2>1. log.records \in [Slots -> Records]  BY DEF RingInv, TypeOK, LogType
  <2>2. \A s \in Slots : log.records[s].event \in Nat
    BY <2>1, BoundsAssumption DEF Records
  <2>3. NoneNewer(W)'
    BY <1>1, <2>2 DEF RingInv, OrderInv, NoneNewer, At, Numbering, Writing
  <2>4. InHand(W)' /\ InOrder(W)'
    BY DEF RingInv, OrderInv, InHand, InOrder, At, Numbering, Writing
  <2>5. QED  BY <2>3, <2>4 DEF OrderInv
<1>5. QED  BY <1>2, <1>3, <1>4 DEF RingInv

(* Where an append of the worker goes: the ring is never formatted anew.    *)
LEMMA AppendGoes ==
  ASSUME RingInv, Writers = {W}, AppendStep(W)
  PROVE  log'.magic /\ wr'[W].pc \notin Formatting
<1>0. W \in Writers /\ RingOK /\ W \in DOMAIN wr  BY DEF RingInv, TypeOK, RingOK
<1>1. CASE Begin(W)
  BY <1>0, <1>1 DEF Begin, Resting, RingInv, Formatting
<1>2. CASE InsideStep(W)
  BY <1>0, <1>2, InsideGoes DEF RingInv, Formatting, Numbering, Writing, Counting
<1>3. CASE EndStep(W) \/ Cut(W)
  BY <1>0, <1>3, EndGoes DEF RingInv, Formatting
<1>4. QED  BY <1>1, <1>2, <1>3, Steps

LEMMA RingAppend ==
  ASSUME RingInv, Writers = {W}, AppendStep(W)
  PROVE  RingInv'
<1>0. W \in Writers /\ RingOK /\ HistoryOK  BY DEF RingInv, TypeOK, RingOK, HistoryOK
<1>1. TypeOK'
  BY <1>0, AppendTypes, AppendHistory DEF TypeOK, RingOK, HistoryOK
<1>2. CountSoloInv'  BY <1>0, CountSoloAppend DEF RingInv
<1>3. MeetInv' /\ Heals'  BY <1>0, <1>1, AppendMeets, HealAppend DEF RingInv
<1>4. OrderInv(W)'  BY <1>0, OrderAppend DEF RingInv
<1>5. QED  BY <1>1, <1>2, <1>3, <1>4, AppendGoes DEF RingInv

-----------------------------------------------------------------------------
(* The worker's steps, with the ring and the page.                          *)
WorkerStep ==
  \/ PageBegin \/ StoreSource \/ StoreCode \/ PageAdvance \/ PageHasRoom \/ PageFull
  \/ PageLoadCount \/ PageStoreCount \/ Persist \/ Die

LEMMA RingWorks ==
  ASSUME RingInv, PageInv, Writers = {W}, WorkerStep
  PROVE  RingInv'
<1>1. CASE Persist  BY <1>1, RingAppend DEF Persist
<1>2. CASE Die
  <2>1. CASE At(W, "idle")
    <3>1. issued < MaxAppends  BY <1>2, <2>1 DEF Die, PageInv
    <3>2. QED  BY <1>2, <2>1, <3>1, RingSkip DEF Die
  <2>2. CASE ~At(W, "idle")
    <3>1. AppendStep(W)  BY <1>2, <2>2 DEF Die, AppendStep
    <3>2. QED  BY <3>1, RingAppend
  <2>3. QED  BY <2>1, <2>2
<1>3. CASE PageBegin  BY <1>3, RingQuiet DEF PageBegin
<1>4. CASE \/ StoreSource \/ StoreCode \/ PageAdvance \/ PageHasRoom \/ PageFull
           \/ PageLoadCount \/ PageStoreCount
  <2>1. UNCHANGED logVars
    BY <1>4 DEF StoreSource, StoreCode, PageAdvance, PageHasRoom, PageFull, PageLoadCount,
       PageStoreCount, PageStep
  <2>2. QED  BY <2>1, RingQuiet
<1>5. QED  BY <1>1, <1>2, <1>3, <1>4 DEF WorkerStep

LEMMA PageSize0 ==
  /\ PageSize \in Nat \ {0} /\ MaxAppends \in Nat /\ Capacity \in Nat \ {0}
  /\ PageSlots = 0 .. PageSize - 1 /\ Slots = 0 .. Capacity - 1 /\ 0 \in PageSlots
  BY PageAssumption, BoundsAssumption, CapacityAssumption DEF PageSlots, Slots

LEMMA PageRestOK == PageRest \in PagerType /\ PageRest.pc = "idle"
  BY PageSize0 DEF PageRest, PagerType

LEMMA PageInit ==
  ASSUME Writers = {W}
  PROVE  LogsInit => PageInv
<1> SUFFICES ASSUME LogsInit  PROVE PageInv  OBVIOUS
<1>1. page = PageZero /\ pw = PageRest  BY DEF LogsInit
<1>2. PageZero \in PageType
  BY PageSize0 DEF PageZero, PageBlank, PageType, PageRecord
<1>3. pw.pc = "idle" /\ pw \in PagerType /\ At(W, "idle")
  BY <1>1, PageRestOK DEF LogsInit, Init, Resting, At
<1>4. QED  BY <1>1, <1>2, <1>3 DEF PageInv, Before

LEMMA PageWorks ==
  ASSUME RingInv, PageInv, Writers = {W}, WorkerStep
  PROVE  PageInv'
<1>0. /\ page \in PageType /\ pw \in PagerType /\ pw.event \in Events /\ pw.slot \in PageSlots
      /\ pw.count \in 0 .. PageSize - 1
      /\ page.head \in 0 .. PageSize - 1 /\ page.count \in 0 .. PageSize
      /\ page.records \in [PageSlots -> PageRecord]
      /\ issued \in 0 .. MaxAppends /\ W \in DOMAIN wr
  BY PageSize0 DEF PageInv, PagerType, PageType, RingInv, TypeOK, Events
<1>1. CASE PageBegin
  <2>1. /\ page.head % PageSize = page.head /\ page.head \in PageSlots
        /\ issued + 1 \in 0 .. MaxAppends
    <3>1. page.head % PageSize = page.head  BY <1>0, PageSize0, NextHead
    <3>2. issued < MaxAppends  BY <1>1 DEF PageBegin
    <3>3. /\ page.head \in 0 .. PageSize - 1 /\ PageSlots = 0 .. PageSize - 1
          /\ issued \in 0 .. MaxAppends /\ MaxAppends \in Nat
      BY <1>0, PageSize0
    <3>4. issued + 1 \in 0 .. MaxAppends  BY ONLY <3>2, <3>3
    <3>5. QED  BY ONLY <3>1, <3>3, <3>4
  <2>2. /\ pw' = [PageRest EXCEPT !.pc = "source", !.event = issued + 1, !.slot = page.head]
        /\ UNCHANGED <<page, issued, wr>> /\ pw.pc = "idle" /\ issued < MaxAppends
    BY <1>1, <2>1 DEF PageBegin, logVars
  <2>3. pw' \in PagerType /\ pw'.pc = "source" /\ pw'.event = issued + 1 /\ pw'.slot = page.head
    BY <2>1, <2>2, PageRestOK DEF PageRest, PagerType, PagerPcs
  <2>4. QED  BY <1>0, <2>2, <2>3 DEF PageInv, At, Before
<1>2. CASE StoreSource
  <2>1. /\ pw' = [pw EXCEPT !.pc = "code"] /\ pw.pc = "source" /\ UNCHANGED <<wr, issued>>
        /\ page' = [page EXCEPT !.records[pw.slot].source = pw.event]
    BY <1>2 DEF StoreSource, PageGo, PageStep, logVars
  <2>2. page' \in PageType /\ page'.head = page.head /\ page'.count = page.count
        /\ page'.records[pw.slot].source = pw.event
    BY <1>0, <2>1 DEF PageType, PageRecord, Events
  <2>3. pw' \in PagerType /\ pw'.pc = "code" /\ pw'.slot = pw.slot /\ pw'.event = pw.event
    BY <1>0, <2>1 DEF PagerType, PagerPcs
  <2>4. QED  BY <2>1, <2>2, <2>3 DEF PageInv, At, Before
<1>3. CASE StoreCode
  <2>1. /\ pw' = [pw EXCEPT !.pc = "advance"] /\ pw.pc = "code" /\ UNCHANGED <<wr, issued>>
        /\ page' = [page EXCEPT !.records[pw.slot].code = pw.event]
    BY <1>3 DEF StoreCode, PageGo, PageStep, logVars
  <2>2. page' \in PageType /\ page'.head = page.head /\ page'.count = page.count
        /\ page'.records[pw.slot].code = pw.event
        /\ page'.records[pw.slot].source = page.records[pw.slot].source
    BY <1>0, <2>1 DEF PageType, PageRecord, Events
  <2>3. pw' \in PagerType /\ pw'.pc = "advance" /\ pw'.slot = pw.slot /\ pw'.event = pw.event
    BY <1>0, <2>1 DEF PagerType, PagerPcs
  <2>4. QED  BY <2>1, <2>2, <2>3 DEF PageInv, At, Before
<1>4. CASE PageAdvance
  <2>1. /\ pw' = [pw EXCEPT !.pc = "test_count"] /\ pw.pc = "advance" /\ UNCHANGED <<wr, issued>>
        /\ page' = [page EXCEPT !.head = (pw.slot + 1) % PageSize]
    BY <1>4 DEF PageAdvance, PageGo, PageStep, logVars
  <2>2. (pw.slot + 1) % PageSize \in PageSlots  BY <1>0, PageSize0, NextHead
  <2>3. page' \in PageType  BY <1>0, <2>1, <2>2 DEF PageType
  <2>4. pw' \in PagerType /\ pw'.pc = "test_count" /\ pw'.event = pw.event
    BY <1>0, <2>1 DEF PagerType, PagerPcs
  <2>5. QED  BY <2>1, <2>3, <2>4 DEF PageInv, At, Before
<1>5. CASE PageHasRoom \/ PageFull
  <2>1. /\ UNCHANGED <<wr, issued, page>> /\ pw.pc = "test_count" /\ pw'.event = pw.event
        /\ pw' \in PagerType /\ pw'.pc \in {"load_count", "persist"}
        /\ (pw'.pc = "load_count" => page.count < PageSize)
    BY <1>0, <1>5 DEF PageHasRoom, PageFull, PageGo, PageStep, logVars, PagerType, PagerPcs
  <2>2. QED  BY <2>1 DEF PageInv, At, Before
<1>6. CASE PageLoadCount
  <2>1. /\ UNCHANGED <<wr, issued, page>> /\ pw.pc = "load_count"
        /\ pw' = [pw EXCEPT !.pc = "store_count", !.count = page.count]
    BY <1>6 DEF PageLoadCount, PageStep, logVars
  <2>2. page.count \in 0 .. PageSize - 1  BY <1>0, <2>1, PageSize0 DEF PageInv
  <2>3. pw' \in PagerType /\ pw'.pc = "store_count" /\ pw'.event = pw.event
    BY <1>0, <2>1, <2>2 DEF PagerType, PagerPcs
  <2>4. QED  BY <2>1, <2>3 DEF PageInv, At, Before
<1>7. CASE PageStoreCount
  <2>1. /\ pw' = [pw EXCEPT !.pc = "persist"] /\ pw.pc = "store_count" /\ UNCHANGED <<wr, issued>>
        /\ page' = [page EXCEPT !.count = pw.count + 1]
    BY <1>7 DEF PageStoreCount, PageGo, PageStep, logVars
  <2>2. pw.count + 1 \in 0 .. PageSize  BY <1>0, PageSize0
  <2>3. page' \in PageType  BY <1>0, <2>1, <2>2 DEF PageType
  <2>4. pw' \in PagerType /\ pw'.pc = "persist" /\ pw'.event = pw.event
    BY <1>0, <2>1 DEF PagerType, PagerPcs
  <2>5. QED  BY <2>1, <2>3, <2>4 DEF PageInv, At, Before
<1>8. CASE Persist
  <2>1. /\ UNCHANGED page /\ pw.pc = "persist" /\ AppendStep(W)
        /\ pw' = IF At(W, "idle") \/ wr'[W].pc # "idle" THEN pw ELSE PageRest
    BY <1>8 DEF Persist
  <2>2. At(W, "idle") => wr'[W].pc # "idle"
    <3>1. At(W, "idle") => Begin(W)
      BY <2>1 DEF At, AppendStep, Format, StoreMagic, LoadHead, LoadSeq, StoreNextSeq,
         StoreRecordSeq, StoreRecordEvent, Advance, TestCount, TestCountFull, LoadCount,
         StoreCount, Cut
    <3>2. Begin(W) => wr'[W].pc # "idle"  BY <1>0 DEF Begin, Resting
    <3>3. QED  BY <3>1, <3>2
  <2>3. CASE wr'[W].pc = "idle"
    <3>1. pw' = PageRest  BY <2>1, <2>2, <2>3
    <3>2. QED  BY <1>0, <2>1, <2>3, <3>1, PageRestOK DEF PageInv, At, Before
  <2>4. CASE wr'[W].pc # "idle"
    BY <1>0, <2>1, <2>4 DEF PageInv, At, Before
  <2>5. QED  BY <2>3, <2>4
<1>9. CASE Die
  <2>1. pw' = PageRest /\ UNCHANGED page  BY <1>9 DEF Die
  <2>2. wr'[W].pc = "idle"
    BY <1>0, <1>9 DEF Die, At, Cut, Resting
  <2>3. QED  BY <1>0, <2>1, <2>2, PageRestOK DEF PageInv, At, Before
<1>10. QED
  BY <1>1, <1>2, <1>3, <1>4, <1>5, <1>6, <1>7, <1>8, <1>9 DEF WorkerStep

-----------------------------------------------------------------------------
(* What a page's log has filed.                                             *)
LEMMA NewestBack ==
  ASSUME NEW S, NEW s \in Seq(S), NEW k \in 0 .. Len(s)
  PROVE  /\ Newest(s, k) \in Seq(S) /\ Len(Newest(s, k)) = k
         /\ \A a \in 0 .. k - 1 : Newest(s, k)[k - a] = s[Len(s) - a]
<1>1. /\ Newest(s, k) \in Seq(S) /\ Len(Newest(s, k)) = k
      /\ \A i \in 1 .. k : Newest(s, k)[i] = s[Len(s) - k + i]
  BY NewestIs
<1>2. ASSUME NEW a \in 0 .. k - 1  PROVE Newest(s, k)[k - a] = s[Len(s) - a]
  <2>1. Len(s) \in Nat  BY LenProperties
  <2>2. k - a \in 1 .. k /\ Len(s) - k + (k - a) = Len(s) - a  BY <2>1
  <2>3. Newest(s, k)[k - a] = s[Len(s) - k + (k - a)]  BY <1>1, <2>2
  <2>4. QED  BY <2>2, <2>3
<1>3. QED  BY <1>1, <1>2

(* A store into slot g leaves a row alone that does not reach there.        *)
LEMMA RowApart ==
  ASSUME NEW R, NEW R2, NEW h, NEW s, NEW r, NEW r2, NEW g, Row(R, h, s, r),
         \A x \in PageSlots \ {g} : R2[x] = R[x],
         \A a \in 0 .. Len(s) - 1 :
           a < r2 => a < r /\ Behind(PageSize, h, a) \in PageSlots \ {g}
  PROVE  Row(R2, h, s, r2)
BY DEF Row

LEMMA RowLess ==
  ASSUME NEW R, NEW h, NEW s, NEW r, NEW r2, Row(R, h, s, r),
         \A a \in 0 .. Len(s) - 1 : a < r2 => a < r
  PROVE  Row(R, h, s, r2)
BY DEF Row

(* A step of the head over a whole event adds it to the row.                *)
LEMMA RowAdvances ==
  ASSUME NEW R, NEW h \in PageSlots, NEW s \in Seq(Events), NEW e \in Events,
         Row(R, h, s, PageSize - 1), R[h] = Whole(e),
         NEW t, t = Newest(Append(s, e), Least(Len(s) + 1, PageSize))
  PROVE  /\ t \in Seq(Events) /\ Len(t) <= PageSize
         /\ Row(R, (h + 1) % PageSize, t, PageSize)
<1> DEFINE k == Least(Len(s) + 1, PageSize)
           u == Append(s, e)
<1>2. PageSize \in Nat \ {0} /\ h \in 0 .. PageSize - 1 /\ Len(s) \in Nat
  BY PageSize0, LenProperties
<1>u. /\ u \in Seq(Events) /\ Len(u) = Len(s) + 1
      /\ u[Len(u)] = e /\ \A i \in 1 .. Len(s) : u[i] = s[i]
  BY AppendProperties, LenProperties
<1>k. k \in 0 .. Len(u) /\ k \in 1 .. PageSize  BY <1>2, <1>u DEF Least
<1> HIDE DEF u, k
<1>t. /\ t \in Seq(Events) /\ Len(t) = k
      /\ \A a \in 0 .. k - 1 : t[k - a] = u[Len(u) - a]
  BY <1>u, <1>k, NewestBack DEF u, k
<1>1. /\ t[k] = e
      /\ \A a \in 1 .. k - 1 : t[k - a] = s[Len(s) - (a - 1)]
  <2>1. 0 \in 0 .. k - 1 /\ k - 0 = k /\ Len(u) - 0 = Len(u)  BY <1>2, <1>u, <1>k
  <2>2. t[k - 0] = u[Len(u) - 0]  BY <1>t, <2>1
  <2>3. ASSUME NEW a \in 1 .. k - 1  PROVE t[k - a] = s[Len(s) - (a - 1)]
    <3>1. /\ a \in 0 .. k - 1 /\ Len(u) - a = Len(s) - (a - 1)
          /\ Len(s) - (a - 1) \in 1 .. Len(s)
      BY <1>2, <1>u, <1>k
    <3>2. t[k - a] = u[Len(u) - a]  BY <1>t, <3>1
    <3>3. QED  BY <1>u, <3>1, <3>2
  <2>4. QED  BY <1>u, <2>1, <2>2, <2>3
<1> DEFINE g == (h + 1) % PageSize
<1>3. /\ Behind(PageSize, g, 0) = h
      /\ \A a \in 1 .. PageSize - 1 : Behind(PageSize, g, a) = Behind(PageSize, h, a - 1)
  BY <1>2, BehindMoves
<1> HIDE DEF g
<1>4. ASSUME NEW a \in 0 .. k - 1  PROVE R[Behind(PageSize, g, a)] = Whole(t[k - a])
  <2>1. CASE a = 0
    <3>1. k - a = k  BY <1>k, <2>1
    <3>2. QED  BY <1>1, <1>3, <2>1, <3>1
  <2>2. CASE a # 0
    <3>1. a \in 1 .. k - 1 /\ a \in 1 .. PageSize - 1 /\ a - 1 \in 0 .. Len(s) - 1
          /\ a - 1 < PageSize - 1
      BY <1>2, <1>u, <1>k, <2>2
    <3>2. R[Behind(PageSize, h, a - 1)] = Whole(s[Len(s) - (a - 1)])  BY <3>1 DEF Row
    <3>3. QED  BY <1>1, <1>3, <3>1, <3>2
  <2>3. QED  BY <2>1, <2>2
<1>5. QED  BY <1>k, <1>t, <1>4 DEF Row, g

LEMMA FiledWorks ==
  ASSUME RingInv, PageInv, FiledInv, WorkerStep
  PROVE  FiledInv'
<1>0. /\ filed \in Seq(Events) /\ Len(filed) \in 0 .. PageSize
      /\ page.head \in PageSlots /\ page.head \in 0 .. PageSize - 1
      /\ page.records \in [PageSlots -> PageRecord] /\ page \in PageType
      /\ pw \in PagerType /\ pw.event \in Events
  BY LenProperties, PageSize0 DEF FiledInv, PageInv, PageType, PagerType, Events
<1>1. PageSize \in Nat \ {0} /\ \A b : One(b) \in {0, 1}  BY PageSize0 DEF One
<1>2. \A a \in 0 .. Len(filed) - 1 : a < PageSize  BY <1>0, <1>1
<1>3. CASE PageBegin
  <2>1. UNCHANGED <<page, filed>> /\ One(pw.pc \in Before) = 0
    BY <1>3 DEF PageBegin, One, Before
  <2>2. QED  BY <1>0, <1>1, <1>2, <2>1, RowLess DEF FiledInv
<1>4. CASE StoreSource \/ StoreCode
  <2>1. /\ One(pw.pc \in Before) = 1 /\ One(pw'.pc \in Before) = 1
        /\ pw.slot = page.head /\ UNCHANGED filed
    BY <1>0, <1>4 DEF StoreSource, StoreCode, PageGo, PageInv, Before, One, PagerType
  <2>2. /\ page'.head = page.head
        /\ \A x \in PageSlots \ {page.head} : page'.records[x] = page.records[x]
    BY <1>0, <1>4, <2>1 DEF StoreSource, StoreCode, PageType
  <2>3. \A a \in 0 .. Len(filed) - 1 : a < PageSize - 1
          => Behind(PageSize, page.head, a) \in PageSlots \ {page.head}
    <3> SUFFICES ASSUME NEW a \in 0 .. Len(filed) - 1, a < PageSize - 1
                 PROVE  Behind(PageSize, page.head, a) \in PageSlots \ {page.head}
      OBVIOUS
    <3>1. a \in 0 .. PageSize - 1 /\ a \in 0 .. PageSize - 2  BY <1>0, <1>1
    <3>2. QED  BY <1>0, <1>1, <3>1, BehindIs, BehindHead, PageSize0
  <2>4. Row(page.records, page.head, filed, PageSize - 1)  BY <2>1 DEF FiledInv
  <2>5. Row(page'.records, page.head, filed, PageSize - 1)  BY <2>2, <2>3, <2>4, RowApart
  <2>6. QED  BY <2>1, <2>2, <2>5 DEF FiledInv
<1>5. CASE PageAdvance
  <2>1. /\ pw.pc = "advance" /\ pw'.pc = "test_count" /\ filed' = Advanced
        /\ pw.slot = page.head /\ page'.head = (page.head + 1) % PageSize
        /\ page'.records = page.records
    BY <1>0, <1>5 DEF PageAdvance, PageGo, PageInv, Before, PagerType, PageType
  <2>2. page.records[page.head] = Whole(pw.event)
    <3>1. page.records[page.head] \in PageRecord  BY <1>0
    <3>2. QED  BY <2>1, <3>1 DEF PageInv, PageRecord, Whole
  <2>3. filed' = Newest(Append(filed, pw.event), Least(Len(filed) + 1, PageSize))
    BY <2>1 DEF Advanced
  <2>5. Row(page.records, page.head, filed, PageSize - 1)
    BY <2>1 DEF FiledInv, One, Before
  <2>6. /\ filed' \in Seq(Events) /\ Len(filed') <= PageSize
        /\ Row(page.records, (page.head + 1) % PageSize, filed', PageSize)
    BY <1>0, <2>2, <2>3, <2>5, RowAdvances
  <2>7. One(pw'.pc \in Before) = 0 /\ PageSize - 0 = PageSize  BY <1>1, <2>1 DEF One, Before
  <2>8. QED  BY <2>1, <2>6, <2>7 DEF FiledInv
<1>6. CASE PageHasRoom \/ PageFull \/ PageLoadCount \/ PageStoreCount \/ Persist
  <2>1. /\ UNCHANGED filed /\ page'.head = page.head /\ page'.records = page.records
        /\ pw.pc \notin Before /\ pw'.pc \notin Before
    <3>1. CASE Persist
      BY <3>1 DEF Persist, Before, PageRest
    <3>2. CASE PageHasRoom \/ PageFull \/ PageLoadCount
      BY <1>0, <3>2 DEF PageHasRoom, PageFull, PageLoadCount, PageGo, PagerType, Before
    <3>3. CASE PageStoreCount
      BY <1>0, <3>3 DEF PageStoreCount, PageGo, PagerType, PageType, Before
    <3>4. QED  BY <1>6, <3>1, <3>2, <3>3
  <2>2. QED  BY <2>1 DEF FiledInv, One
<1>7. CASE Die
  <2>1. UNCHANGED page /\ One(pw'.pc \in Before) = 0  BY <1>7 DEF Die, PageRest, Before, One
  <2>2. CASE pw.pc \notin Before
    <3>1. UNCHANGED filed /\ One(pw.pc \in Before) = 0  BY <1>7, <2>2 DEF Die, One
    <3>2. QED  BY <2>1, <3>1 DEF FiledInv
  <2>3. CASE pw.pc \in Before
    <3>1. filed' = Newest(filed, Least(Len(filed), PageSize - 1)) /\ One(pw.pc \in Before) = 1
      BY <1>7, <2>3 DEF Die, One
    <3>2. /\ filed' \in Seq(Events) /\ Len(filed') \in 0 .. PageSize - 1 /\ Len(filed') <= Len(filed)
          /\ \A a \in 0 .. Len(filed') - 1 : filed'[Len(filed') - a] = filed[Len(filed) - a]
      <4> DEFINE k == Least(Len(filed), PageSize - 1)
      <4>1. k \in 0 .. Len(filed) /\ k \in 0 .. PageSize - 1 /\ filed' = Newest(filed, k)
        BY <1>0, <1>1, <3>1 DEF Least
      <4> HIDE DEF k
      <4>2. /\ filed' \in Seq(Events) /\ Len(filed') = k
            /\ \A a \in 0 .. k - 1 : filed'[k - a] = filed[Len(filed) - a]
        BY <1>0, <4>1, NewestBack
      <4>3. QED  BY <4>1, <4>2
    <3>3. \A a \in 0 .. Len(filed') - 1 : a \in 0 .. Len(filed) - 1 /\ a < PageSize - 1
      BY <1>0, <1>1, <3>2
    <3>4. Row(page.records, page.head, filed', PageSize)
      BY <3>1, <3>2, <3>3 DEF FiledInv, Row
    <3>5. Len(filed') <= PageSize /\ PageSize - 0 = PageSize  BY <1>1, <3>2
    <3>6. QED  BY <2>1, <3>2, <3>4, <3>5 DEF FiledInv
  <2>4. QED  BY <2>2, <2>3
<1>8. QED  BY <1>3, <1>4, <1>5, <1>6, <1>7 DEF WorkerStep

-----------------------------------------------------------------------------
(* What the worker does to the persistent ring that its reader can notice:  *)
(* the count grows, the head moves on at the end of what is pending, and    *)
(* only the head's slot is written.                                         *)
LEMMA AppendMoves ==
  ASSUME RingInv, Writers = {W}, AppendStep(W)
  PROVE  /\ log.record_count <= log'.record_count
         /\ \/ log'.write_head = log.write_head /\ (HeadMoved => wr'[W].pc \in Counting \cup {"idle"})
            \/ ~HeadMoved /\ HeadMoved' /\ log'.write_head = (log.write_head + 1) % Capacity
         /\ \A s \in Slots : log'.records[s] = log.records[s]
                             \/ (s = log.write_head /\ wr[W].pc \in Writing)
<1>0. /\ W \in Writers /\ RingOK /\ W \in DOMAIN wr /\ wr[W] \in WriterType /\ log \in LogType
      /\ log.record_count \in Nat /\ log.records \in [Slots -> Records]
      /\ (wr[W].pc \in Writing => wr[W].slot = log.write_head)
      /\ (wr[W].pc = "store_count" => wr[W].count = log.record_count)
      /\ wr[W].pc \notin Formatting
  BY DEF RingInv, TypeOK, RingOK, LogType, OrderInv, InHand
<1>1. CASE Begin(W)
  BY <1>0, <1>1 DEF Begin, At, HeadMoved
<1>2. CASE Format(W) \/ StoreMagic(W)
  BY <1>0, <1>2 DEF Format, StoreMagic, At, Formatting
<1>3. CASE LoadHead(W) \/ LoadSeq(W) \/ StoreNextSeq(W)
  <2>1. /\ log'.record_count = log.record_count /\ log'.write_head = log.write_head
        /\ log'.records = log.records
    BY <1>0, <1>3 DEF LoadHead, LoadSeq, StoreNextSeq, LogType
  <2>2. ~HeadMoved  BY <1>3 DEF LoadHead, LoadSeq, StoreNextSeq, At, HeadMoved
  <2>3. QED  BY <1>0, <2>1, <2>2
<1>4. CASE StoreRecordSeq(W) \/ StoreRecordEvent(W)
  <2>1. wr[W].pc \in Writing /\ wr[W].slot = log.write_head /\ ~HeadMoved
    BY <1>0, <1>4 DEF StoreRecordSeq, StoreRecordEvent, At, Writing, HeadMoved
  <2>2. /\ log'.record_count = log.record_count /\ log'.write_head = log.write_head
        /\ \A s \in Slots : log'.records[s] = log.records[s] \/ s = log.write_head
    BY <1>0, <1>4, <2>1 DEF StoreRecordSeq, StoreRecordEvent, LogType
  <2>3. QED  BY <1>0, <2>1, <2>2
<1>5. CASE Advance(W)
  <2>1. wr[W].pc = "advance" /\ wr'[W].pc = "test_count" /\ wr[W].slot = log.write_head
    BY <1>0, <1>5, GoGoes DEF Advance, At, Writing
  <2>2. /\ log'.record_count = log.record_count /\ log'.records = log.records
        /\ log'.write_head = (log.write_head + 1) % Capacity
    BY <1>0, <1>5, <2>1 DEF Advance, LogType
  <2>3. QED  BY <1>0, <2>1, <2>2 DEF HeadMoved
<1>6. CASE TestCount(W) \/ LoadCount(W)
  <2>1. UNCHANGED log  BY <1>6 DEF TestCount, LoadCount
  <2>2. wr'[W].pc \in Counting
    BY <1>0, <1>6 DEF TestCount, LoadCount, Go, WriterType, Counting
  <2>3. QED  BY <1>0, <2>1, <2>2
<1>7. CASE TestCountFull(W) \/ Cut(W)
  <2>1. UNCHANGED log /\ wr'[W].pc = "idle"
    BY <1>0, <1>7 DEF TestCountFull, Cut, End, Resting
  <2>2. QED  BY <1>0, <2>1
<1>8. CASE StoreCount(W)
  <2>1. /\ log'.record_count = log.record_count + 1 /\ log'.write_head = log.write_head
        /\ log'.records = log.records /\ wr'[W].pc = "idle"
    BY <1>0, <1>8 DEF StoreCount, End, Resting, At, LogType
  <2>2. QED  BY <1>0, <2>1
<1>9. QED
  BY <1>1, <1>2, <1>3, <1>4, <1>5, <1>6, <1>7, <1>8 DEF AppendStep

LogMoves ==
  /\ log.record_count <= log'.record_count
  /\ \/ PageBegin /\ ~Pending
     \/ UNCHANGED begun /\ log'.write_head = log.write_head /\ (Pending' => Pending)
     \/ /\ UNCHANGED begun /\ log'.write_head = (log.write_head + 1) % Capacity
        /\ Pending /\ ~Pending'
  /\ \A s \in Slots : log'.records[s] = log.records[s] \/ (Pending /\ s = log.write_head)

LEMMA WorkerMoves ==
  ASSUME RingInv, PageInv, Writers = {W}, WorkerStep
  PROVE  LogMoves
<1>0. log.record_count \in Nat /\ pw \in PagerType
  BY DEF RingInv, TypeOK, LogType, PageInv
<1>1. CASE AppendStep(W) /\ (Persist \/ Die)
  <2>1. /\ UNCHANGED begun /\ pw.pc # "idle" /\ (pw' = pw \/ pw' = PageRest)
        /\ (HeadMoved' => wr'[W].pc # "idle")
    BY <1>1 DEF Persist, Die, HeadMoved
  <2>2. wr'[W].pc = "idle" /\ ~At(W, "idle") => pw' = PageRest
    BY <1>1 DEF Persist, Die
  <2>3. HeadMoved => ~At(W, "idle")  BY DEF HeadMoved, At
  <2>4. ~Pending => HeadMoved  BY <2>1 DEF Pending
  <2>5. pw' = PageRest => ~Pending'  BY DEF Pending, PageRest
  <2>6. wr[W].pc \in Writing => Pending  BY <2>1 DEF Pending, HeadMoved, Writing
  <2>7. wr'[W].pc \in Counting => ~Pending'  BY DEF Pending, HeadMoved, Counting
  <2>8. ~HeadMoved => Pending  BY <2>1 DEF Pending
  <2>9. HeadMoved' => ~Pending'  BY DEF Pending
  <2>10. /\ log.record_count <= log'.record_count
         /\ \/ log'.write_head = log.write_head /\ (HeadMoved => wr'[W].pc \in Counting \cup {"idle"})
            \/ ~HeadMoved /\ HeadMoved' /\ log'.write_head = (log.write_head + 1) % Capacity
         /\ \A s \in Slots : log'.records[s] = log.records[s]
                             \/ (s = log.write_head /\ wr[W].pc \in Writing)
    BY <1>1, AppendMoves
  <2>11. HeadMoved /\ wr'[W].pc \in Counting \cup {"idle"} => ~Pending'
    BY <2>2, <2>3, <2>5, <2>7
  <2>12. QED  BY <2>1, <2>4, <2>6, <2>8, <2>9, <2>10, <2>11 DEF LogMoves
<1>2. CASE Die /\ At(W, "idle")
  <2>1. UNCHANGED <<log, begun>> /\ ~Pending'  BY <1>2 DEF Die, PageRest, Pending
  <2>2. QED  BY <1>0, <2>1 DEF LogMoves
<1>3. CASE PageBegin
  <2>1. UNCHANGED log /\ ~Pending  BY <1>3 DEF PageBegin, logVars, Pending
  <2>2. QED  BY <1>0, <1>3, <2>1 DEF LogMoves
<1>4. CASE \/ StoreSource \/ StoreCode \/ PageAdvance \/ PageHasRoom \/ PageFull
           \/ PageLoadCount \/ PageStoreCount
  <2>1. UNCHANGED <<log, wr, begun>> /\ pw.pc # "idle"
    BY <1>4 DEF StoreSource, StoreCode, PageAdvance, PageHasRoom, PageFull, PageLoadCount,
       PageStoreCount, PageStep, PageGo, logVars
  <2>2. QED  BY <1>0, <2>1 DEF LogMoves, Pending, HeadMoved
<1>5. Die => At(W, "idle") \/ AppendStep(W)  BY DEF Die, AppendStep
<1>6. Persist => AppendStep(W)  BY DEF Persist
<1>7. QED  BY <1>1, <1>2, <1>3, <1>4, <1>5, <1>6 DEF WorkerStep

(* And the same of the page's ring.                                         *)
PageMoves ==
  /\ \/ PageBegin /\ pw.pc \notin Before /\ page' = page
     \/ UNCHANGED begun /\ page'.head = page.head /\ (pw'.pc \in Before => pw.pc \in Before)
     \/ /\ UNCHANGED begun /\ page'.head = (page.head + 1) % PageSize
        /\ pw.pc \in Before /\ pw'.pc \notin Before
  /\ \A x \in PageSlots :
       page'.records[x] = page.records[x] \/ (pw.pc \in Before /\ x = page.head)

LEMMA PagerMoves ==
  ASSUME PageInv, WorkerStep
  PROVE  PageMoves
<1>0. page \in PageType /\ pw \in PagerType /\ page.records \in [PageSlots -> PageRecord]
  BY DEF PageInv, PageType
<1>1. CASE PageBegin  BY <1>1 DEF PageBegin, PageMoves, Before
<1>2. CASE StoreSource \/ StoreCode
  <2>1. UNCHANGED begun /\ pw.pc \in Before /\ pw.slot = page.head
    BY <1>2 DEF StoreSource, StoreCode, PageGo, PageStep, PageInv, Before
  <2>2. /\ page'.head = page.head
        /\ \A x \in PageSlots : page'.records[x] = page.records[x] \/ x = page.head
    BY <1>0, <1>2, <2>1 DEF StoreSource, StoreCode, PageType
  <2>3. QED  BY <2>1, <2>2 DEF PageMoves
<1>3. CASE PageAdvance
  BY <1>0, <1>3 DEF PageAdvance, PageGo, PageStep, PageInv, PageMoves, Before, PageType, PagerType
<1>4. CASE PageHasRoom \/ PageFull \/ PageLoadCount
  BY <1>0, <1>4 DEF PageHasRoom, PageFull, PageLoadCount, PageGo, PageStep, PageMoves, Before,
     PagerType
<1>5. CASE PageStoreCount
  BY <1>0, <1>5 DEF PageStoreCount, PageGo, PageStep, PageMoves, Before, PageType, PagerType
<1>6. CASE Persist \/ Die
  <2>1. UNCHANGED <<page, begun>> /\ (pw' = pw \/ pw' = PageRest)
    BY <1>6 DEF Persist, Die
  <2>2. pw' = PageRest => pw'.pc \notin Before  BY DEF PageRest, Before
  <2>3. QED  BY <2>1, <2>2 DEF PageMoves
<1>7. QED
  BY <1>1, <1>2, <1>3, <1>4, <1>5, <1>6 DEF WorkerStep

-----------------------------------------------------------------------------
(* The reader while the worker goes on.                                     *)
LEMMA WorkerWaits ==
  ASSUME WorkerStep
  PROVE  /\ UNCHANGED <<rd, snap>>
         /\ begun' = begun \/ (PageBegin /\ begun' = IF rd.pc = "idle" THEN 0
                                                      ELSE Least(begun + 1, MostBegun))
BY DEF WorkerStep, PageBegin, StoreSource, StoreCode, PageAdvance, PageHasRoom, PageFull,
       PageLoadCount, PageStoreCount, Persist, Die, PageStep, readVars

LEMMA ReaderWorks ==
  ASSUME RingInv, PageInv, ReaderInv, Writers = {W}, WorkerStep
  PROVE  ReaderInv'
<1>1. LogMoves /\ UNCHANGED <<rd, snap>>  BY WorkerMoves, WorkerWaits
<1>2. log.record_count \in Nat /\ log'.record_count \in Nat
  BY RingWorks DEF RingInv, TypeOK, LogType
<1>3. begun' \in 0 .. PageSize + Capacity
  BY PageSize0, WorkerWaits DEF ReaderInv, Least, MostBegun
<1>4. QED  BY <1>1, <1>2, <1>3 DEF ReaderInv, LogMoves, ReaderType

LEMMA PageDumpWorks ==
  ASSUME RingInv, PageInv, ReaderInv, PageDumpInv, Writers = {W}, WorkerStep
  PROVE  PageDumpInv'
<1>0. /\ PageSize \in Nat \ {0} /\ begun \in Nat /\ Len(snap) \in Nat
      /\ page.head \in 0 .. PageSize - 1 /\ UNCHANGED <<rd, snap>> /\ PageMoves
      /\ rd \in ReaderType
  BY PageSize0, LenProperties, PagerMoves, WorkerWaits DEF ReaderInv, PageInv, PageType
<1>1. CASE rd.pc \notin PageLines
  BY <1>0, <1>1 DEF PageDumpInv, PageAhead, SnapInv, PageLine
<1>2. CASE rd.pc \in PageLines
  <2>1. /\ rd.head \in 0 .. PageSize - 1 /\ Back \in Nat
        /\ Close(PageSize, rd.head, page.head, One(pw.pc \in Before), begun)
        /\ Row(page.records, rd.head, snap, PageSize - begun)
        /\ begun' = begun \/ (PageBegin /\ begun' = Least(begun + 1, PageSize))
    <3>1. rd.pc \in PagePcs /\ rd.pc # "idle"  BY <1>2 DEF PageLines, PagePcs
    <3>2. Back \in Nat  BY <3>1 DEF ReaderInv, ReaderType, Back
    <3>3. QED
      BY <1>0, <1>2, <3>1, <3>2, PageSize0, WorkerWaits
      DEF ReaderInv, PageDumpInv, PageAhead, SnapInv, MostBegun
  <2>2. \A a \in Nat : begun' < PageSize - a => begun < PageSize - a
    BY <1>0, <2>1 DEF Least
  <2>3. PageAhead'
    <3>1. CASE PageBegin /\ pw.pc \notin Before /\ page' = page
      <4>1. /\ Close(PageSize, rd.head, page.head, 0, begun)
            /\ page'.head = page.head /\ One(pw'.pc \in Before) \in 0 .. 1
        BY <2>1, <3>1 DEF One
      <4>2. begun' = Least(begun + 1, PageSize)
        BY <1>2, <3>1, WorkerWaits DEF PageBegin, MostBegun, PageLines, PagePcs
      <4>3. QED  BY <1>0, <2>1, <3>1, <4>1, <4>2, CloseBegins DEF PageAhead
    <3>2. CASE ~(PageBegin /\ pw.pc \notin Before /\ page' = page)
      <4>1. /\ UNCHANGED begun
            /\ \/ page'.head = page.head /\ (pw'.pc \in Before => pw.pc \in Before)
               \/ /\ page'.head = (page.head + 1) % PageSize
                  /\ pw.pc \in Before /\ pw'.pc \notin Before
        BY <1>0, <3>2 DEF PageMoves
      <4>2. /\ One(pw.pc \in Before) \in Nat /\ One(pw'.pc \in Before) \in Nat
            /\ \/ page'.head = page.head /\ One(pw'.pc \in Before) <= One(pw.pc \in Before)
               \/ /\ page'.head = (page.head + 1) % PageSize
                  /\ One(pw.pc \in Before) = 1 /\ One(pw'.pc \in Before) = 0
        BY <4>1 DEF One
      <4>3. Close(PageSize, rd.head, page'.head, One(pw'.pc \in Before), begun)
        BY <1>0, <2>1, <4>2, CloseStays
      <4>4. QED  BY <1>0, <4>1, <4>3 DEF PageAhead
    <3>3. QED  BY <3>1, <3>2
  <2>4. SnapInv'
    <3>1. ASSUME NEW a \in 0 .. Len(snap) - 1, a < PageSize - begun'
          PROVE  page'.records[Behind(PageSize, rd.head, a)] = Whole(snap[Len(snap) - a])
      <4>1. a < PageSize - begun /\ a \in Nat /\ begun < PageSize - a /\ a \in 0 .. PageSize - 1
        BY <1>0, <2>1, <2>2, <3>1 DEF Least
      <4>2. Behind(PageSize, rd.head, a) \in PageSlots
        BY <1>0, <2>1, <4>1, BehindIs, PageSize0
      <4>3. pw.pc \in Before => Behind(PageSize, rd.head, a) # page.head
        <5>1. SUFFICES ASSUME pw.pc \in Before  PROVE Behind(PageSize, rd.head, a) # page.head
          OBVIOUS
        <5>2. Close(PageSize, rd.head, page.head, 1, begun)  BY <2>1, <5>1 DEF One
        <5>3. QED  BY <1>0, <2>1, <4>1, <5>2, CloseApart
      <4>4. page'.records[Behind(PageSize, rd.head, a)] = page.records[Behind(PageSize, rd.head, a)]
        BY <1>0, <4>2, <4>3 DEF PageMoves
      <4>5. QED  BY <2>1, <3>1, <4>1, <4>4 DEF Row
    <3>2. QED  BY <1>0, <3>1 DEF SnapInv, Row
  <2>5. PageLine'
    <3>1. UNCHANGED Back  BY <1>0 DEF Back
    <3>2. QED  BY <1>0, <2>1, <2>2, <3>1 DEF PageDumpInv, PageLine
  <2>6. QED  BY <2>3, <2>4, <2>5 DEF PageDumpInv
<1>3. QED  BY <1>1, <1>2

LEMMA PersistDumpWorks ==
  ASSUME RingInv, PageInv, ReaderInv, PersistDumpInv, Writers = {W}, WorkerStep
  PROVE  PersistDumpInv'
<1>0. /\ Capacity \in Nat \ {0} /\ begun \in Nat /\ UNCHANGED <<rd, snap>> /\ LogMoves
      /\ log.write_head \in 0 .. Capacity - 1 /\ rd \in ReaderType
  BY PageSize0, WorkerMoves, WorkerWaits DEF ReaderInv, RingInv, TypeOK, LogType
<1>1. CASE rd.pc \notin PersistPcs \ {"log_head"}
  BY <1>0, <1>1 DEF PersistDumpInv, PersistAhead, PersistLine, PersistLines, PersistPcs
<1>2. CASE rd.pc \in PersistPcs \ {"log_head"}
  <2>1. /\ rd.head \in 0 .. Capacity - 1
        /\ Close(Capacity, rd.head, log.write_head, One(Pending), begun)
        /\ begun' = begun \/ (PageBegin /\ begun' = Least(begun + 1, Capacity))
    <3>1. rd.pc \notin PagePcs /\ rd.pc # "idle"  BY <1>2 DEF PersistPcs, PagePcs
    <3>2. QED
      BY <1>0, <1>2, <3>1, PageSize0, WorkerWaits
      DEF ReaderInv, PersistDumpInv, PersistAhead, MostBegun
  <2>2. \A a \in Nat : begun' < Capacity - a => begun < Capacity - a
    BY <1>0, <2>1 DEF Least
  <2>3. PersistAhead'
    <3>1. CASE PageBegin /\ ~Pending
      <4>1. /\ Close(Capacity, rd.head, log.write_head, 0, begun)
            /\ log'.write_head = log.write_head /\ One(Pending') \in 0 .. 1
        BY <2>1, <3>1 DEF One, PageBegin, logVars
      <4>2. begun' = Least(begun + 1, Capacity)
        BY <1>2, <3>1, WorkerWaits DEF PageBegin, MostBegun, PersistPcs, PagePcs
      <4>3. Close(Capacity, rd.head, log.write_head, One(Pending'), begun')
        BY <1>0, <2>1, <4>1, <4>2, CloseBegins
      <4>4. QED  BY <1>0, <4>1, <4>3 DEF PersistAhead
    <3>2. CASE ~(PageBegin /\ ~Pending)
      <4>1. /\ UNCHANGED begun
            /\ One(Pending) \in Nat /\ One(Pending') \in Nat
            /\ \/ log'.write_head = log.write_head /\ One(Pending') <= One(Pending)
               \/ /\ log'.write_head = (log.write_head + 1) % Capacity
                  /\ One(Pending) = 1 /\ One(Pending') = 0
        BY <1>0, <3>2 DEF LogMoves, One
      <4>2. Close(Capacity, rd.head, log'.write_head, One(Pending'), begun)
        BY <1>0, <2>1, <4>1, CloseStays
      <4>3. QED  BY <1>0, <4>1, <4>2 DEF PersistAhead
    <3>3. QED  BY <3>1, <3>2
  <2>4. PersistLine'
    <3>1. UNCHANGED Back  BY <1>0 DEF Back
    <3>2. SUFFICES ASSUME rd.pc \in PersistLines, begun' < Capacity - Back
                   PROVE  LET s == Behind(Capacity, rd.head, Back)
                          IN  log'.records[s] = log.records[s] /\ begun < Capacity - Back
      BY <1>0, <3>1 DEF PersistDumpInv, PersistLine
    <3>3. Back \in Nat
      <4>1. rd.i < rd.count /\ rd.i \in Nat /\ rd.count \in Nat
        BY <3>2 DEF ReaderInv, ReaderType
      <4>2. QED  BY <4>1 DEF Back
    <3>4. begun < Capacity - Back  BY <2>2, <3>2, <3>3
    <3>5. Behind(Capacity, rd.head, Back) \in Slots
      <4>1. Back \in 0 .. Capacity - 1  BY <1>0, <3>3, <3>4
      <4>2. QED  BY <1>0, <2>1, <4>1, BehindIs, PageSize0
    <3>6. Pending => Behind(Capacity, rd.head, Back) # log.write_head
      <4>1. SUFFICES ASSUME Pending  PROVE Behind(Capacity, rd.head, Back) # log.write_head
        OBVIOUS
      <4>2. Close(Capacity, rd.head, log.write_head, 1, begun)  BY <2>1, <4>1 DEF One
      <4>3. QED  BY <1>0, <2>1, <3>3, <3>4, <4>2, CloseApart
    <3>7. QED  BY <1>0, <3>4, <3>5, <3>6 DEF LogMoves
  <2>5. QED  BY <2>3, <2>4 DEF PersistDumpInv
<1>3. QED  BY <1>1, <1>2

-----------------------------------------------------------------------------
(* The reader's own steps leave the rings alone.                            *)
LEMMA DumpReads ==
  ASSUME Dump
  PROVE  Reads
BY DEF Dump, PrintCount, PrintHead, PrintSource, PrintCode, PrintNext, PrintDone, PersistBegin,
       PersistHead, PersistCount, PersistSeq, PersistEvent, PersistNext, PersistDone, LoadFirst,
       LoadLast

LEMMA QuietInvs ==
  ASSUME RingInv, PageInv, FiledInv, Reads
  PROVE  RingInv' /\ PageInv' /\ FiledInv'
<1>1. RingInv'  BY RingQuiet DEF Reads
<1>2. UNCHANGED <<wr, issued, page, pw, filed>>  BY DEF Reads, logVars, pageVars
<1>3. PageInv'  BY <1>2 DEF PageInv, At
<1>4. FiledInv'  BY <1>2 DEF FiledInv
<1>5. QED  BY <1>1, <1>3, <1>4

(* A line's place in the ring, as the loops compute it.                     *)
LEMMA PlaceIs ==
  ASSUME NEW n \in Nat, rd \in ReaderType
  PROVE  Place(n) = Behind(n, rd.head, Back)
<1>1. rd.head \in Nat /\ rd.count \in Nat /\ rd.i \in Nat  BY DEF ReaderType
<1>2. rd.head + n - rd.count + rd.i = rd.head + n - 1 - (rd.count - rd.i - 1)  BY <1>1
<1>3. QED  BY <1>2 DEF Place, Behind, Back


(* A line is within the ring, and so are the fields it loads.               *)
LEMMA LineThere ==
  ASSUME RingInv, PageInv, ReaderInv
  PROVE  /\ rd.pc \in PageLines =>
              /\ Place(PageSize) = Behind(PageSize, rd.head, Back)
              /\ Back \in Nat /\ page.records[Place(PageSize)] \in PageRecord
         /\ rd.pc \in PersistLines =>
              /\ Place(Capacity) = Behind(Capacity, rd.head, Back)
              /\ Back \in Nat /\ log.records[Place(Capacity)] \in Records
<1>0. /\ rd.i \in Nat /\ rd.count \in Nat
      /\ page.records \in [PageSlots -> PageRecord] /\ log.records \in [Slots -> Records]
  BY DEF ReaderInv, ReaderType, PageInv, PageType, RingInv, TypeOK, LogType
<1>1. CASE rd.pc \in PageLines
  <2>1. /\ rd.head \in 0 .. PageSize - 1 /\ Back \in 0 .. PageSize - 1
    <3>1. rd.i < rd.count /\ rd.count <= PageSize /\ rd.head \in PageSlots
      BY <1>1 DEF ReaderInv, PageLines, PagePcs
    <3>2. QED  BY <1>0, <3>1, PageSize0 DEF Back
  <2>2. Place(PageSize) = Behind(PageSize, rd.head, Back)
    BY PageSize0, PlaceIs DEF ReaderInv
  <2>3. Behind(PageSize, rd.head, Back) \in PageSlots
    BY <2>1, PageSize0, BehindIs
  <2>4. rd.pc \notin PersistLines  BY <1>1 DEF PageLines, PersistLines
  <2>5. QED  BY <1>0, <2>1, <2>2, <2>3, <2>4
<1>2. CASE rd.pc \in PersistLines
  <2>1. /\ rd.head \in 0 .. Capacity - 1 /\ Back \in 0 .. Capacity - 1
    <3>1. rd.i < rd.count /\ rd.count <= Capacity /\ rd.head \in Slots
      BY <1>2 DEF ReaderInv, PersistLines, PersistPcs
    <3>2. QED  BY <1>0, <3>1, PageSize0 DEF Back
  <2>2. Place(Capacity) = Behind(Capacity, rd.head, Back)
    BY PageSize0, PlaceIs DEF ReaderInv
  <2>3. Behind(Capacity, rd.head, Back) \in Slots
    BY <2>1, PageSize0, BehindIs
  <2>4. rd.pc \notin PageLines  BY <1>2 DEF PageLines, PersistLines
  <2>5. QED  BY <1>0, <2>1, <2>2, <2>3, <2>4
<1>3. QED  BY <1>1, <1>2

LEMMA ReadRestOK ==
  /\ ReadRest \in ReaderType /\ ReadRest.pc = "idle" /\ ReadRest.i = 0 /\ ReadRest.count = 0
  /\ NoLine \in [ first : Nat, last : Nat ]
BY DEF ReadRest, ReaderType, NoLine

LEMMA NoReader ==
  /\ "idle" \notin PagePcs /\ "idle" \notin PersistPcs
  /\ "idle" \notin PageLines /\ "idle" \notin PersistLines
BY DEF PagePcs, PersistPcs, PageLines, PersistLines

LEMMA LogHeadIs ==
  /\ "log_head" \notin PagePcs /\ "log_head" \notin PageLines /\ "log_head" \notin PersistLines
BY DEF PagePcs, PageLines, PersistLines

LEMMA ReaderReads ==
  ASSUME RingInv, PageInv, FiledInv, ReaderInv, Dump
  PROVE  ReaderInv'
<1>0. /\ PageSize \in Nat \ {0} /\ Capacity \in Nat \ {0} /\ MaxAppends \in Nat
      /\ rd \in ReaderType /\ rd.i \in Nat /\ rd.count \in Nat /\ rd.head \in Nat
      /\ rd.line \in [ first : Nat, last : Nat ]
      /\ begun \in 0 .. PageSize + Capacity /\ snap \in Seq(Events) /\ Len(snap) <= PageSize
      /\ filed \in Seq(Events) /\ Len(filed) <= PageSize
      /\ page.count \in 0 .. PageSize /\ page.head \in PageSlots
      /\ log.record_count \in Nat /\ log.write_head \in Slots
      /\ 0 \in 0 .. PageSize + Capacity /\ 1 \in 0 .. PageSize + Capacity
  BY PageSize0
  DEF ReaderInv, ReaderType, FiledInv, PageInv, PageType, RingInv, TypeOK, LogType
<1>00. /\ UNCHANGED log /\ page.head \in Nat /\ log.write_head \in Nat /\ page.count \in Nat
       /\ rd.i + 1 \in Nat /\ NoLine \in [ first : Nat, last : Nat ]
  <2>1. UNCHANGED log  BY DumpReads DEF Reads, logVars
  <2>2. /\ PageSlots = 0 .. PageSize - 1 /\ Slots = 0 .. Capacity - 1
        /\ PageSize \in Nat /\ Capacity \in Nat
        /\ page.head \in PageSlots /\ log.write_head \in Slots /\ page.count \in 0 .. PageSize
        /\ rd.i \in Nat
    BY <1>0, PageSize0
  <2>3. page.head \in Nat /\ log.write_head \in Nat /\ page.count \in Nat /\ rd.i + 1 \in Nat
    BY ONLY <2>2
  <2>4. QED  BY <2>1, <2>3, ReadRestOK
<1>01. <<>> \in Seq(Events) /\ Len(<<>>) = 0  OBVIOUS
<1>02. log.record_count <= Capacity
  BY DEF RingInv, CountSoloInv
<1>1. CASE PrintCount
  <2>1. /\ rd' = [ReadRest EXCEPT !.pc = "page_head", !.count = page.count]
        /\ page.count # 0 /\ UNCHANGED <<snap, begun>>
    BY <1>1 DEF PrintCount, Stay
  <2>2. /\ rd' \in ReaderType /\ rd'.pc = "page_head" /\ rd'.i = 0 /\ rd'.count = page.count
    BY <1>00, <2>1 DEF ReaderType, PagePcs, ReadRest, NoLine
  <2>3. QED  BY <1>0, <2>1, <2>2 DEF ReaderInv, PageLines, PagePcs, PersistPcs, PersistLines
<1>2. CASE PrintHead
  <2>1. /\ rd' = [rd EXCEPT !.head = page.head, !.pc = "page_first"]
        /\ rd.pc = "page_head" /\ snap' = filed /\ begun' \in 0 .. PageSize + Capacity
    BY <1>0, <1>2 DEF PrintHead
  <2>2. /\ rd' \in ReaderType /\ rd'.pc = "page_first" /\ rd'.i = rd.i /\ rd'.count = rd.count
        /\ rd'.head = page.head
    BY <1>0, <1>00, <2>1 DEF ReaderType, PagePcs
  <2>3. QED  BY <1>0, <2>1, <2>2 DEF ReaderInv, PageLines, PagePcs, PersistPcs, PersistLines
<1>3. CASE PrintSource \/ PrintCode
  <2>1. /\ rd.pc \in PageLines /\ rd'.pc \in {"page_last", "page_printed"}
        /\ rd'.i = rd.i /\ rd'.count = rd.count /\ rd'.head = rd.head
        /\ UNCHANGED <<snap, begun>>
    BY <1>0, <1>3 DEF PrintSource, PrintCode, LoadFirst, LoadLast, Stay, PageLines, ReaderType
  <2>2. /\ page.records[Place(PageSize)].source \in Nat
        /\ page.records[Place(PageSize)].code \in Nat
    BY <1>0, <2>1, LineThere DEF PageRecord
  <2>3. rd' \in ReaderType
    <3>1. ASSUME NEW v \in Nat, NEW pc \in PagePcs
          PROVE  /\ [rd EXCEPT !.pc = pc, !.line.first = v] \in ReaderType
                 /\ [rd EXCEPT !.pc = pc, !.line.last = v] \in ReaderType
      BY <1>0 DEF ReaderType
    <3>2. "page_last" \in PagePcs /\ "page_printed" \in PagePcs  BY DEF PagePcs
    <3>3. QED  BY <1>3, <2>2, <3>1, <3>2 DEF PrintSource, PrintCode, LoadFirst, LoadLast
  <2>4. QED  BY <1>0, <2>1, <2>3 DEF ReaderInv, PageLines, PagePcs, PersistPcs, PersistLines
<1>4. CASE PrintNext
  <2>1. /\ rd' = [rd EXCEPT !.pc = "page_first", !.i = @ + 1, !.line = NoLine]
        /\ rd.pc = "page_printed" /\ rd.i + 1 < rd.count /\ UNCHANGED <<snap, begun>>
    BY <1>4 DEF PrintNext, Stay
  <2>2. /\ rd' \in ReaderType /\ rd'.pc = "page_first" /\ rd'.i = rd.i + 1
        /\ rd'.count = rd.count /\ rd'.head = rd.head
    BY <1>0, <1>00, <2>1 DEF ReaderType, PagePcs
  <2>3. QED  BY <1>0, <2>1, <2>2 DEF ReaderInv, PageLines, PagePcs, PersistPcs, PersistLines
<1>5. CASE PrintDone \/ PersistDone
  <2>1. /\ rd' = ReadRest
        /\ snap' \in Seq(Events) /\ Len(snap') <= PageSize /\ begun' \in 0 .. PageSize + Capacity
    <3>1. CASE PrintDone  BY <1>0, <1>01, <3>1 DEF PrintDone
    <3>2. CASE PersistDone  BY <1>0, <3>2 DEF PersistDone, Stay
    <3>3. QED  BY <1>5, <3>1, <3>2
  <2>2. QED  BY <2>1, ReadRestOK, NoReader DEF ReaderInv
<1>6. CASE PersistBegin
  <2>1. rd' = [ReadRest EXCEPT !.pc = "log_head"] /\ UNCHANGED <<snap, begun>>
    BY <1>6 DEF PersistBegin, Stay
  <2>2. rd' \in ReaderType /\ rd'.pc = "log_head" /\ rd'.i = 0 /\ rd'.count = 0
    BY <2>1, ReadRestOK DEF ReaderType, PersistPcs, ReadRest
  <2>3. /\ snap' \in Seq(Events) /\ Len(snap') <= PageSize /\ begun' \in 0 .. PageSize + Capacity
        /\ rd'.i <= log'.record_count /\ rd'.count <= Capacity
    BY <1>0, <1>00, <2>1, <2>2
  <2>4. QED  BY ONLY <2>2, <2>3, LogHeadIs DEF ReaderInv
<1>7. CASE PersistHead
  <2>1. /\ rd' = [rd EXCEPT !.head = log.write_head, !.pc = "log_count"]
        /\ rd.pc = "log_head" /\ rd.i < log.record_count /\ UNCHANGED snap
        /\ begun' \in 0 .. PageSize + Capacity
    BY <1>0, <1>7 DEF PersistHead
  <2>2. /\ rd' \in ReaderType /\ rd'.pc = "log_count" /\ rd'.i = rd.i /\ rd'.count = rd.count
        /\ rd'.head = log.write_head
    BY <1>0, <1>00, <2>1 DEF ReaderType, PersistPcs
  <2>3. QED
    BY <1>0, <1>00, <2>1, <2>2 DEF ReaderInv, PageLines, PagePcs, PersistPcs, PersistLines
<1>8. CASE PersistCount
  <2>1. /\ rd' = [rd EXCEPT !.count = log.record_count, !.pc = "log_first"]
        /\ rd.pc = "log_count" /\ UNCHANGED <<snap, begun>>
    BY <1>8 DEF PersistCount, Stay
  <2>2. /\ rd' \in ReaderType /\ rd'.pc = "log_first" /\ rd'.i = rd.i
        /\ rd'.count = log.record_count /\ rd'.head = rd.head
    BY <1>0, <2>1 DEF ReaderType, PersistPcs
  <2>3. QED
    BY <1>0, <1>00, <1>02, <2>1, <2>2
    DEF ReaderInv, PageLines, PagePcs, PersistPcs, PersistLines
<1>9. CASE PersistSeq \/ PersistEvent
  <2>1. /\ rd.pc \in PersistLines /\ rd'.pc \in {"log_last", "log_printed"}
        /\ rd'.i = rd.i /\ rd'.count = rd.count /\ rd'.head = rd.head
        /\ UNCHANGED <<snap, begun>>
    BY <1>0, <1>9 DEF PersistSeq, PersistEvent, LoadFirst, LoadLast, Stay, PersistLines, ReaderType
  <2>2. /\ log.records[Place(Capacity)].seq \in Nat
        /\ log.records[Place(Capacity)].event \in Nat
    BY <1>0, <2>1, LineThere DEF Records
  <2>3. rd' \in ReaderType
    <3>1. ASSUME NEW v \in Nat, NEW pc \in PersistPcs
          PROVE  /\ [rd EXCEPT !.pc = pc, !.line.first = v] \in ReaderType
                 /\ [rd EXCEPT !.pc = pc, !.line.last = v] \in ReaderType
      BY <1>0 DEF ReaderType
    <3>2. "log_last" \in PersistPcs /\ "log_printed" \in PersistPcs  BY DEF PersistPcs
    <3>3. QED  BY <1>9, <2>2, <3>1, <3>2 DEF PersistSeq, PersistEvent, LoadFirst, LoadLast
  <2>4. QED
    BY <1>0, <1>00, <2>1, <2>3 DEF ReaderInv, PageLines, PagePcs, PersistPcs, PersistLines
<1>10. CASE PersistNext
  <2>1. /\ rd' = [ReadRest EXCEPT !.pc = "log_head", !.i = rd.i + 1]
        /\ rd.pc = "log_printed" /\ begun' = 0 /\ UNCHANGED snap
    BY <1>10 DEF PersistNext
  <2>2. rd' \in ReaderType /\ rd'.pc = "log_head" /\ rd'.i = rd.i + 1 /\ rd'.count = 0
    BY <1>00, <2>1 DEF ReaderType, PersistPcs, ReadRest, NoLine
  <2>3. rd.i < log.record_count  BY <2>1 DEF ReaderInv, PersistPcs
  <2>4. /\ snap' \in Seq(Events) /\ Len(snap') <= PageSize /\ begun' \in 0 .. PageSize + Capacity
    BY <1>0, <2>1
  <2>5. rd'.i <= log'.record_count /\ rd'.count <= Capacity
    <3>1. rd.i \in Nat /\ log.record_count \in Nat /\ Capacity \in Nat /\ log' = log  BY <1>0, <1>00
    <3>2. QED  BY ONLY <2>2, <2>3, <3>1
  <2>6. QED  BY ONLY <2>2, <2>4, <2>5, LogHeadIs DEF ReaderInv
<1>11. QED
  BY <1>1, <1>2, <1>3, <1>4, <1>5, <1>6, <1>7, <1>8, <1>9, <1>10 DEF Dump


LEMMA PageDumpReads ==
  ASSUME RingInv, PageInv, FiledInv, ReaderInv, PageDumpInv, Dump
  PROVE  PageDumpInv'
<1>0. /\ PageSize \in Nat \ {0} /\ rd \in ReaderType /\ rd.i \in Nat /\ rd.count \in Nat
      /\ rd.line \in [ first : Nat, last : Nat ] /\ UNCHANGED <<page, pw>>
      /\ begun \in Nat /\ Len(snap) \in Nat /\ Len(filed) \in Nat /\ page.head \in 0 .. PageSize - 1
  BY PageSize0, LenProperties, DumpReads
  DEF ReaderInv, ReaderType, FiledInv, PageInv, PageType, Reads, pageVars
<1>1. CASE rd'.pc \notin PageLines
  BY <1>1 DEF PageDumpInv, PageAhead, SnapInv, PageLine
<1>2. CASE PrintHead
  <2>1. /\ rd' = [rd EXCEPT !.head = page.head, !.pc = "page_first"] /\ snap' = filed
        /\ begun' = One(pw.pc \in Before)
    BY <1>2 DEF PrintHead, One
  <2>2. rd'.pc = "page_first" /\ rd'.head = page.head  BY <1>0, <2>1 DEF ReaderType
  <2>3. begun' \in 0 .. 1 /\ UNCHANGED page /\ begun' = One(pw'.pc \in Before)
    BY <1>0, <2>1 DEF One
  <2>4. PageAhead'
    <3>1. Close(PageSize, page.head, page.head, begun', begun')  BY <1>0, <2>3, CloseHere
    <3>2. QED  BY <2>2, <2>3, <3>1 DEF PageAhead
  <2>5. SnapInv'  BY <2>1, <2>2, <2>3 DEF FiledInv, SnapInv
  <2>6. PageLine'  BY <2>2 DEF PageLine
  <2>7. QED  BY <2>4, <2>5, <2>6 DEF PageDumpInv
<1>3. CASE PrintSource \/ PrintCode
  <2>1. /\ rd.pc \in PageLines /\ rd'.head = rd.head /\ Back' = Back
        /\ UNCHANGED <<snap, begun>>
    BY <1>0, <1>3
    DEF PrintSource, PrintCode, LoadFirst, LoadLast, Stay, PageLines, ReaderType, Back
  <2>2. PageAhead' /\ SnapInv'  BY <1>0, <2>1 DEF PageDumpInv, PageAhead, SnapInv
  <2>3. Back \in Nat /\ Place(PageSize) = Behind(PageSize, rd.head, Back)
    BY <2>1, LineThere
  <2>4. Back < Len(snap) /\ begun < PageSize - Back
        => page.records[Place(PageSize)] = Whole(snap[Len(snap) - Back])
    <3>1. SUFFICES ASSUME Back < Len(snap), begun < PageSize - Back
                   PROVE  page.records[Place(PageSize)] = Whole(snap[Len(snap) - Back])
      OBVIOUS
    <3>2. Back \in 0 .. Len(snap) - 1 /\ Back < PageSize - begun
      BY <1>0, <2>3, <3>1
    <3>3. Row(page.records, rd.head, snap, PageSize - begun)
      BY <2>1 DEF PageDumpInv, SnapInv
    <3>4. QED  BY <2>3, <3>2, <3>3 DEF Row
  <2>5. Back < Len(snap) /\ begun < PageSize - Back
        => /\ page.records[Place(PageSize)].source = snap[Len(snap) - Back]
           /\ page.records[Place(PageSize)].code = snap[Len(snap) - Back]
    BY <2>4 DEF Whole
  <2>6. PageLine'
    <3>1. CASE PrintSource
      <4>1. rd' = [rd EXCEPT !.pc = "page_last", !.line.first = page.records[Place(PageSize)].source]
        BY <3>1 DEF PrintSource, LoadFirst
      <4>2. rd'.pc = "page_last" /\ rd'.line.first = page.records[Place(PageSize)].source
        BY <1>0, <4>1 DEF ReaderType
      <4>3. QED  BY <2>1, <2>5, <4>2 DEF PageLine
    <3>2. CASE PrintCode
      <4>1. /\ rd' = [rd EXCEPT !.pc = "page_printed",
                                !.line.last = page.records[Place(PageSize)].code]
            /\ rd.pc = "page_last"
        BY <3>2 DEF PrintCode, LoadLast
      <4>2. /\ rd'.pc = "page_printed" /\ rd'.line.last = page.records[Place(PageSize)].code
            /\ rd'.line.first = rd.line.first
        BY <1>0, <4>1 DEF ReaderType
      <4>3. QED  BY <2>1, <2>5, <4>1, <4>2 DEF PageLine, PageDumpInv
    <3>3. QED  BY <1>3, <3>1, <3>2
  <2>7. QED  BY <2>2, <2>6 DEF PageDumpInv
<1>4. CASE PrintNext
  <2>1. /\ rd' = [rd EXCEPT !.pc = "page_first", !.i = @ + 1, !.line = NoLine]
        /\ rd.pc = "page_printed" /\ UNCHANGED <<snap, begun>>
    BY <1>4 DEF PrintNext, Stay
  <2>2. rd'.pc = "page_first" /\ rd'.head = rd.head /\ rd.pc \in PageLines
    BY <1>0, <2>1 DEF ReaderType, PageLines
  <2>3. QED
    BY <1>0, <2>1, <2>2 DEF PageDumpInv, PageAhead, SnapInv, PageLine
<1>5. ASSUME PrintCount \/ PrintDone \/ PersistBegin \/ PersistHead \/ PersistCount \/ PersistSeq
              \/ PersistEvent \/ PersistNext \/ PersistDone
      PROVE  rd'.pc \notin PageLines
  <2>1. CASE PrintCount \/ PrintDone \/ PersistBegin \/ PersistNext \/ PersistDone
    <3>1. CASE PrintCount  BY <3>1 DEF PrintCount, ReadRest, PageLines
    <3>2. CASE PrintDone \/ PersistDone  BY <3>2 DEF PrintDone, PersistDone, ReadRest, PageLines
    <3>3. CASE PersistBegin  BY <3>3 DEF PersistBegin, ReadRest, PageLines
    <3>4. CASE PersistNext  BY <3>4 DEF PersistNext, ReadRest, PageLines
    <3>5. QED  BY <2>1, <3>1, <3>2, <3>3, <3>4
  <2>2. CASE PersistHead \/ PersistCount
    BY <1>0, <2>2 DEF PersistHead, PersistCount, ReaderType, PageLines
  <2>3. CASE PersistSeq \/ PersistEvent
    <3>1. rd'.pc \in {"log_last", "log_printed"}
      BY <1>0, <2>3 DEF PersistSeq, PersistEvent, LoadFirst, LoadLast, ReaderType
    <3>2. QED  BY <3>1 DEF PageLines
  <2>4. QED  BY <1>5, <2>1, <2>2, <2>3
<1>6. QED  BY <1>1, <1>2, <1>3, <1>4, <1>5 DEF Dump

LEMMA PersistDumpReads ==
  ASSUME RingInv, PageInv, ReaderInv, PersistDumpInv, Dump
  PROVE  PersistDumpInv'
<1>0. /\ Capacity \in Nat \ {0} /\ rd \in ReaderType /\ rd.i \in Nat /\ rd.count \in Nat
      /\ rd.line \in [ first : Nat, last : Nat ] /\ UNCHANGED <<log, wr, pw>>
      /\ begun \in Nat /\ log.write_head \in 0 .. Capacity - 1
  BY PageSize0, DumpReads
  DEF ReaderInv, ReaderType, RingInv, TypeOK, LogType, Reads, logVars, pageVars
<1>1. CASE rd'.pc \notin PersistPcs \ {"log_head"}
  BY <1>1 DEF PersistDumpInv, PersistAhead, PersistLine, PersistPcs, PersistLines
<1>2. CASE PersistHead
  <2>1. /\ rd' = [rd EXCEPT !.head = log.write_head, !.pc = "log_count"]
        /\ begun' = IF pw.pc \in Before \/ (pw.pc # "idle" /\ ~HeadMoved) THEN 1 ELSE 0
    BY <1>2 DEF PersistHead
  <2>2. rd'.pc = "log_count" /\ rd'.head = log.write_head  BY <1>0, <2>1 DEF ReaderType
  <2>3. pw.pc \in Before => Pending
    BY DEF PageInv, Before, Pending, HeadMoved, At
  <2>4. begun' \in 0 .. 1 /\ begun' = One(Pending) /\ Pending' = Pending
    <3>1. begun' = One(Pending)  BY <2>1, <2>3 DEF One, Pending
    <3>2. Pending' = Pending  BY <1>0 DEF Pending, HeadMoved
    <3>3. QED  BY <3>1, <3>2 DEF One
  <2>5. PersistAhead'
    <3>1. Close(Capacity, log.write_head, log.write_head, begun', begun')
      BY <1>0, <2>4, CloseHere
    <3>2. begun' = One(Pending')  BY <2>4
    <3>3. QED  BY <1>0, <2>2, <3>1, <3>2 DEF PersistAhead
  <2>6. PersistLine'  BY <2>2 DEF PersistLine, PersistLines
  <2>7. QED  BY <2>5, <2>6 DEF PersistDumpInv
<1>3. CASE PersistCount
  <2>1. /\ rd' = [rd EXCEPT !.count = log.record_count, !.pc = "log_first"]
        /\ rd.pc = "log_count" /\ UNCHANGED begun
    BY <1>3 DEF PersistCount, Stay
  <2>2. rd'.pc = "log_first" /\ rd'.head = rd.head /\ rd.pc \in PersistPcs \ {"log_head"}
    BY <1>0, <2>1 DEF ReaderType, PersistPcs
  <2>3. Pending' = Pending  BY <1>0 DEF Pending, HeadMoved
  <2>4. PersistAhead'  BY <1>0, <2>1, <2>2, <2>3 DEF PersistDumpInv, PersistAhead, One
  <2>5. PersistLine'  BY <2>2 DEF PersistLine, PersistLines
  <2>6. QED  BY <2>4, <2>5 DEF PersistDumpInv
<1>4. CASE PersistSeq \/ PersistEvent
  <2>1. /\ rd.pc \in PersistLines /\ rd'.head = rd.head /\ Back' = Back /\ UNCHANGED begun
    BY <1>0, <1>4
    DEF PersistSeq, PersistEvent, LoadFirst, LoadLast, Stay, PersistLines, ReaderType, Back
  <2>2. PersistAhead'
    <3>1. rd.pc \in PersistPcs \ {"log_head"}  BY <2>1 DEF PersistLines, PersistPcs
    <3>2. Pending' = Pending  BY <1>0 DEF Pending, HeadMoved
    <3>3. QED  BY <1>0, <2>1, <3>1, <3>2 DEF PersistDumpInv, PersistAhead, One
  <2>3. Place(Capacity) = Behind(Capacity, rd.head, Back)  BY <2>1, LineThere
  <2>4. PersistLine'
    <3>1. CASE PersistSeq
      <4>1. rd' = [rd EXCEPT !.pc = "log_last", !.line.first = log.records[Place(Capacity)].seq]
        BY <3>1 DEF PersistSeq, LoadFirst
      <4>2. rd'.pc = "log_last" /\ rd'.line.first = log.records[Place(Capacity)].seq
        BY <1>0, <4>1 DEF ReaderType
      <4>3. QED  BY <1>0, <2>1, <2>3, <4>2 DEF PersistLine
    <3>2. CASE PersistEvent
      <4>1. /\ rd' = [rd EXCEPT !.pc = "log_printed",
                                !.line.last = log.records[Place(Capacity)].event]
            /\ rd.pc = "log_last"
        BY <3>2 DEF PersistEvent, LoadLast
      <4>2. /\ rd'.pc = "log_printed" /\ rd'.line.last = log.records[Place(Capacity)].event
            /\ rd'.line.first = rd.line.first
        BY <1>0, <4>1 DEF ReaderType
      <4>3. QED  BY <1>0, <2>1, <2>3, <4>1, <4>2 DEF PersistLine, PersistDumpInv
    <3>3. QED  BY <1>4, <3>1, <3>2
  <2>5. QED  BY <2>2, <2>4 DEF PersistDumpInv
<1>5. ASSUME PrintCount \/ PrintHead \/ PrintSource \/ PrintCode \/ PrintNext \/ PrintDone
              \/ PersistBegin \/ PersistNext \/ PersistDone
      PROVE  rd'.pc \notin PersistPcs \ {"log_head"}
  <2>1. CASE PrintCount \/ PrintDone \/ PersistBegin \/ PersistNext \/ PersistDone
    <3>1. CASE PrintCount  BY <3>1 DEF PrintCount, ReadRest, PersistPcs
    <3>2. CASE PrintDone \/ PersistDone  BY <3>2 DEF PrintDone, PersistDone, ReadRest, PersistPcs
    <3>3. CASE PersistBegin  BY <3>3 DEF PersistBegin, ReadRest, PersistPcs
    <3>4. CASE PersistNext  BY <3>4 DEF PersistNext, ReadRest, PersistPcs
    <3>5. QED  BY <2>1, <3>1, <3>2, <3>3, <3>4
  <2>2. CASE PrintHead \/ PrintNext
    BY <1>0, <2>2 DEF PrintHead, PrintNext, ReaderType, PersistPcs
  <2>3. CASE PrintSource \/ PrintCode
    <3>1. rd'.pc \in {"page_last", "page_printed"}
      BY <1>0, <2>3 DEF PrintSource, PrintCode, LoadFirst, LoadLast, ReaderType
    <3>2. QED  BY <3>1 DEF PersistPcs
  <2>4. QED  BY <1>5, <2>1, <2>2, <2>3
<1>6. QED  BY <1>1, <1>2, <1>3, <1>4, <1>5 DEF Dump


-----------------------------------------------------------------------------
(* The worker and the dump together.                                        *)
LEMMA LogsInvInit ==
  ASSUME Writers = {W}
  PROVE  LogsInit => LogsInv
<1> SUFFICES ASSUME LogsInit  PROVE LogsInv  OBVIOUS
<1>1. RingInv /\ PageInv  BY RingInit, PageInit
<1>2. /\ page = PageZero /\ rd = ReadRest /\ filed = <<>> /\ snap = <<>> /\ begun = 0
      /\ log.record_count \in Nat
  BY <1>1 DEF LogsInit, RingInv, TypeOK, LogType
<1>3. /\ <<>> \in Seq(Events) /\ Len(<<>>) = 0 /\ 0 <= PageSize /\ 0 \in 0 .. PageSize + Capacity
      /\ 0 .. 0 - 1 = {}
  BY PageSize0
<1>4. FiledInv  BY <1>2, <1>3 DEF FiledInv, Row
<1>5. ReaderInv /\ PageDumpInv /\ PersistDumpInv
  BY <1>2, <1>3, ReadRestOK, NoReader
  DEF ReaderInv, PageDumpInv, PageAhead, SnapInv, PageLine, PersistDumpInv, PersistAhead,
      PersistLine
<1>6. QED  BY <1>1, <1>4, <1>5 DEF LogsInv

LEMMA LogsInvKept ==
  ASSUME Writers = {W}, LogsInv, [LogsNext]_allVars
  PROVE  LogsInv'
<1>1. CASE UNCHANGED allVars
  <2>1. UNCHANGED <<log, wr, issued, pw, page, filed, rd, snap, begun>> /\ Reads
    BY <1>1 DEF allVars, pageVars, readVars, logVars, Reads
  <2>2. RingInv' /\ PageInv' /\ FiledInv'  BY <2>1, QuietInvs DEF LogsInv
  <2>3. ReaderInv'  BY <2>1 DEF LogsInv, ReaderInv
  <2>4. PageDumpInv'
    BY <2>1 DEF LogsInv, PageDumpInv, PageAhead, SnapInv, PageLine, Back
  <2>5. PersistDumpInv'
    BY <2>1 DEF LogsInv, PersistDumpInv, PersistAhead, PersistLine, Back, Pending, HeadMoved
  <2>6. QED  BY <2>2, <2>3, <2>4, <2>5 DEF LogsInv
<1>2. CASE WorkerStep
  <2>1. RingInv' /\ PageInv'  BY <1>2, RingWorks, PageWorks DEF LogsInv
  <2>2. FiledInv' /\ ReaderInv'  BY <1>2, FiledWorks, ReaderWorks DEF LogsInv
  <2>3. PageDumpInv' /\ PersistDumpInv'  BY <1>2, PageDumpWorks, PersistDumpWorks DEF LogsInv
  <2>4. QED  BY <2>1, <2>2, <2>3 DEF LogsInv
<1>3. CASE Dump
  <2>1. RingInv' /\ PageInv' /\ FiledInv'  BY <1>3, DumpReads, QuietInvs DEF LogsInv
  <2>2. ReaderInv'  BY <1>3, ReaderReads DEF LogsInv
  <2>3. PageDumpInv' /\ PersistDumpInv'  BY <1>3, PageDumpReads, PersistDumpReads DEF LogsInv
  <2>4. QED  BY <2>1, <2>2, <2>3 DEF LogsInv
<1>4. QED  BY <1>1, <1>2, <1>3 DEF LogsNext, WorkerStep

(* The rings, the worker's place in ctl_trace_log, ctl_fault_log and        *)
(* persist_append, and the place of print_trace, print_faults and           *)
(* print_persist stay as LogsInv says, through every interleaving of one    *)
(* core that appends, the worker, and one that dumps.                       *)
THEOREM LogsInvHolds ==
  ASSUME Writers = {W}
  PROVE  LogsSpec => []LogsInv
<1>1. LogsInit => LogsInv  BY LogsInvInit
<1>2. LogsInv /\ [LogsNext]_allVars => LogsInv'  BY LogsInvKept
<1>3. QED  BY <1>1, <1>2, PTL DEF LogsSpec

(* While the worker is the only core that appends, no dump reads past the   *)
(* end of a ring, and no log writes past it.                                *)
THEOREM LogsTypeOKHolds ==
  ASSUME Writers = {W}
  PROVE  LogsSpec => []LogsTypeOK
<1>1. LogsInv => LogsTypeOK
  <2> SUFFICES ASSUME LogsInv  PROVE LogsTypeOK  OBVIOUS
  <2>1. TypeOK /\ page \in PageType  BY DEF LogsInv, RingInv, PageInv
  <2>2. /\ pw.pc \in PagerPcs \cup {"idle"}
        /\ pw.slot \in PageSlots /\ pw.count \in 0 .. PageSize - 1
    BY DEF LogsInv, PageInv, PagerType
  <2>3. rd.pc \in PagePcs \cup PersistPcs \cup {"idle"} /\ rd.i \in Nat /\ rd.count \in Nat
    BY DEF LogsInv, ReaderInv, ReaderType
  <2>4. rd.pc \in PagePcs => rd.count \in 0 .. PageSize /\ rd.i \in PageSlots
    <3>1. rd.pc \in PagePcs => rd.count <= PageSize /\ rd.i < rd.count
      BY DEF LogsInv, ReaderInv
    <3>2. QED  BY <2>3, <3>1, PageSize0
  <2>5. rd.pc \in PersistPcs => rd.count \in 0 .. Capacity /\ rd.i \in 0 .. Capacity
    <3>1. rd.pc \in PersistPcs => rd.i <= log.record_count /\ rd.count <= Capacity
      BY DEF LogsInv, ReaderInv
    <3>2. log.record_count \in Nat /\ log.record_count <= Capacity
      BY DEF LogsInv, RingInv, TypeOK, LogType, CountSoloInv
    <3>3. QED  BY <2>3, <3>1, <3>2, PageSize0
  <2>6. begun \in 0 .. PageSize + Capacity /\ Len(filed) <= PageSize /\ Len(snap) <= PageSize
    BY DEF LogsInv, FiledInv, ReaderInv
  <2>7. QED
    BY <2>1, <2>2, <2>3, <2>4, <2>5, <2>6 DEF LogsTypeOK, PageType, PagerPcs
<1>2. QED  BY <1>1, LogsInvHolds, PTL

(* A line of print_trace or print_faults is the event that was at its place *)
(* when the dump took the head, source and code of the same event, while    *)
(* the worker, the only core that appends, has not begun to log so many     *)
(* more that it is overwritten.                                             *)
THEOREM PageDumpTrueHolds ==
  ASSUME Writers = {W}
  PROVE  LogsSpec => []PageDumpTrue
<1>1. LogsInv => PageDumpTrue
  <2> SUFFICES ASSUME LogsInv, rd.pc = "page_printed", Len(snap) - Back > 0,
                      begun < PageSize - Back
               PROVE  LET e == snap[Len(snap) - Back] IN rd.line = [first |-> e, last |-> e]
    BY DEF PageDumpTrue, Back
  <2>1. rd.line \in [ first : Nat, last : Nat ] /\ Back \in Int /\ Len(snap) \in Nat
    BY LenProperties DEF LogsInv, ReaderInv, ReaderType, Back
  <2>2. rd.line.first = snap[Len(snap) - Back] /\ rd.line.last = snap[Len(snap) - Back]
    BY <2>1 DEF LogsInv, PageDumpInv, PageLine, PageLines
  <2>3. QED  BY <2>1, <2>2
<1>2. QED  BY <1>1, LogsInvHolds, PTL

(* A line of print_persist is one record, whole, and the ring still has it  *)
(* there when the line is printed, while the worker, the only core that     *)
(* appends, has not begun so many appends since the line's head was loaded  *)
(* that it is overwritten.                                                  *)
THEOREM PersistLineHeldHolds ==
  ASSUME Writers = {W}
  PROVE  LogsSpec => []PersistLineHeld
<1>1. LogsInv => PersistLineHeld
  <2> SUFFICES ASSUME LogsInv, rd.pc = "log_printed", begun <= Capacity - rd.count + rd.i
               PROVE  rd.line = [ first |-> log.records[Place(Capacity)].seq,
                                  last  |-> log.records[Place(Capacity)].event ]
    BY DEF PersistLineHeld
  <2>1. /\ rd.line \in [ first : Nat, last : Nat ] /\ rd.i \in Nat /\ rd.count \in Nat
        /\ begun \in Nat /\ Capacity \in Nat
    BY PageSize0 DEF LogsInv, ReaderInv, ReaderType
  <2>2. begun < Capacity - Back  BY <2>1 DEF Back
  <2>3. Place(Capacity) = Behind(Capacity, rd.head, Back)
    BY <2>1, PlaceIs DEF LogsInv, ReaderInv
  <2>4. /\ rd.line.first = log.records[Place(Capacity)].seq
        /\ rd.line.last = log.records[Place(Capacity)].event
    BY <2>2, <2>3 DEF LogsInv, PersistDumpInv, PersistLine, PersistLines
  <2>5. QED  BY <2>1, <2>4
<1>2. QED  BY <1>1, LogsInvHolds, PTL

(* While the worker is the only core that appends, and the kernel appends   *)
(* nothing: persist_append, as the last part of ctl_trace_log and           *)
(* ctl_fault_log, with the event cut before it comes that far too, never    *)
(* counts more records than the persistent ring has.  With the kernel's     *)
(* appends the count can pass the capacity: CountBounded of PersistLog.     *)
THEOREM SoloCountFitsHolds ==
  ASSUME Writers = {W}
  PROVE  LogsSpec => []CountFits
<1>1. LogsInv => CountFits  BY DEF LogsInv, RingInv, CountSoloInv, CountFits
<1>2. QED  BY <1>1, LogsInvHolds, PTL

(* Under the same assumption, of what print_persist would show at any       *)
(* moment the records after the oldest are in order, none half written and  *)
(* none twice.  With the kernel's appends a torn record can lie anywhere    *)
(* until the ring has healed: CleanAppendsShown of PersistLog.              *)
THEOREM SoloOldestTornHolds ==
  ASSUME Writers = {W}
  PROVE  LogsSpec => []OnlyOldestTorn
<1>1. LogsInv => OnlyOldestTorn
  <2>1. W \in Writers  OBVIOUS
  <2>2. LogsInv => CountFits  BY DEF LogsInv, RingInv, CountSoloInv, CountFits
  <2>3. QED  BY <2>1, <2>2, OrderShows DEF LogsInv, RingInv
<1>2. QED  BY <1>1, LogsInvHolds, PTL
=============================================================================
