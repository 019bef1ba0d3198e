------------------------------- MODULE LogDumps -------------------------------
(***************************************************************************)
(* The event logs as the console shows them.  ctl_trace_log and            *)
(* ctl_fault_log put an event into a ring on the control page and then     *)
(* into the persistent ring of PersistLog; print_trace, print_faults and   *)
(* print_persist walk the rings on the kernel's core, a line at a time,    *)
(* while the worker goes on logging.  The two rings on the page have one   *)
(* shape and one reader's loop; page stands for either.                    *)
(*                                                                         *)
(* Here the worker is the only core that appends.  The kernel logs into the *)
(* same rings; it never does while it dumps them, but what its appends and *)
(* the worker's leave behind when they overlap is the subject of PersistLog *)
(* with two writers, and left out here.                                    *)
(***************************************************************************)
EXTENDS PersistLog

CONSTANT PageSize   \* KRAKEN_TRACE_LOG_SIZE, 32, or KRAKEN_FAULT_LOG_SIZE, 16

ASSUME PageAssumption == PageSize \in Nat \ {0} /\ \E n \in 0 .. 31 : PageSize = 2 ^ n

VARIABLES
  page,    \* a log ring on the control page
  pw,      \* the worker inside ctl_trace_log or ctl_fault_log, and its locals
  rd,      \* the kernel inside one of the print functions, and its locals
  filed,   \* history: the newest events behind the page's head, since the last cut
  snap,    \* history: filed when the dump took its head
  begun    \* history: appends begun, or in progress, since the dump took its head

logVars  == <<log, wr, issued, done, clean, dirty>>
pageVars == <<page, pw, filed>>
readVars == <<rd, snap>>
allVars  == <<logVars, pageVars, readVars, begun>>

W         == "worker"
Least(a, b) == IF a <= b THEN a ELSE b
PageSlots == 0 .. PageSize - 1
PageBlank == [ source |-> 0, code |-> 0 ]
PageZero  == [ head |-> 0, count |-> 0, records |-> [s \in PageSlots |-> PageBlank] ]

PageRest == [ pc |-> "idle", event |-> 0, slot |-> 0, count |-> 0 ]
NoLine   == [ first |-> 0, last |-> 0 ]   \* the fields a line loads first and last
ReadRest == [ pc |-> "idle", i |-> 0, count |-> 0, head |-> 0, line |-> NoLine ]

PagePcs    == {"page_head", "page_first", "page_last", "page_printed"}
PersistPcs == {"log_head", "log_count", "log_first", "log_last", "log_printed"}
Before     == {"source", "code", "advance"}   \* the worker's steps before the head moves

PageRecord == [ source : 0 .. MaxAppends, code : 0 .. MaxAppends ]
LogsTypeOK ==
  /\ TypeOK
  /\ page \in [ head : PageSlots, count : 0 .. PageSize,
                records : [PageSlots -> PageRecord] ]
  /\ pw.pc \in {"idle", "source", "code", "advance", "test_count",
                "load_count", "store_count", "persist"}
  /\ pw.slot \in PageSlots /\ pw.count \in 0 .. PageSize - 1
  /\ rd.pc \in PagePcs \cup PersistPcs \cup {"idle"}
  /\ rd.pc \in PagePcs => rd.count \in 0 .. PageSize /\ rd.i \in PageSlots
  /\ rd.pc \in PersistPcs => rd.count \in 0 .. Capacity /\ rd.i \in 0 .. Capacity
  /\ begun \in 0 .. PageSize + Capacity
  /\ Len(filed) <= PageSize /\ Len(snap) <= PageSize

LogsInit ==
  /\ Init
  /\ page = PageZero /\ pw = PageRest /\ rd = ReadRest
  /\ filed = <<>> /\ snap = <<>> /\ begun = 0

-----------------------------------------------------------------------------
(* ctl_trace_log and ctl_fault_log on the worker.                           *)

PageGo(here, there) == pw.pc = here /\ pw' = [pw EXCEPT !.pc = there]
PageStep            == UNCHANGED <<logVars, readVars, begun>>

(* No property tells more appends than fit the ring apart.                  *)
MostBegun == IF rd.pc \in PagePcs THEN PageSize ELSE Capacity

PageBegin ==
  /\ pw.pc = "idle" /\ issued < MaxAppends
  /\ pw' = [PageRest EXCEPT !.pc = "source", !.event = issued + 1, !.slot = page.head % PageSize]
  /\ begun' = IF rd.pc = "idle" THEN 0 ELSE Least(begun + 1, MostBegun)
  /\ UNCHANGED <<logVars, page, filed, readVars>>

StoreSource ==
  /\ PageGo("source", "code")
  /\ page' = [page EXCEPT !.records[pw.slot].source = pw.event]
  /\ UNCHANGED filed /\ PageStep

StoreCode ==
  /\ PageGo("code", "advance")
  /\ page' = [page EXCEPT !.records[pw.slot].code = pw.event]
  /\ UNCHANGED filed /\ PageStep

Advanced    == Newest(Append(filed, pw.event), Least(Len(filed) + 1, PageSize))

PageAdvanceUnmasked ==   \* variant: forgets the mask
  /\ PageGo("advance", "test_count")
  /\ page' = [page EXCEPT !.head = pw.slot + 1]
  /\ filed' = Advanced
  /\ PageStep

PageAdvance ==
  /\ PageGo("advance", "test_count")
  /\ page' = [page EXCEPT !.head = (pw.slot + 1) % PageSize]
  /\ filed' = Advanced
  /\ PageStep

PageHasRoom ==
  /\ page.count < PageSize
  /\ PageGo("test_count", "load_count")
  /\ UNCHANGED <<page, filed>> /\ PageStep

PageFull ==
  /\ page.count >= PageSize
  /\ PageGo("test_count", "persist")
  /\ UNCHANGED <<page, filed>> /\ PageStep

PageLoadCount ==
  /\ pw.pc = "load_count"
  /\ pw' = [pw EXCEPT !.pc = "store_count", !.count = page.count]
  /\ UNCHANGED <<page, filed>> /\ PageStep

PageStoreCount ==
  /\ PageGo("store_count", "persist")
  /\ page' = [page EXCEPT !.count = pw.count + 1]
  /\ UNCHANGED filed /\ PageStep

(* persist_append, as in PersistLog, for the same event.                    *)
Persist ==
  /\ pw.pc = "persist"
  /\ (AppendStep(W) /\ ~Cut(W))
  /\ pw' = IF At(W, "idle") \/ wr'[W].pc # "idle" THEN pw ELSE PageRest
  /\ UNCHANGED <<page, filed, readVars, begun>>

(* persist_append has moved the head for this event.                        *)
HeadMoved == wr[W].pc \in {"test_count", "load_count", "store_count"}

(* The worker's core is stopped in the middle, by a trap or the reset pulse.*)
Die ==
  /\ pw.pc # "idle"
  /\ IF At(W, "idle") THEN issued' = issued + 1 /\ UNCHANGED <<log, wr, done, clean, dirty>>
                      ELSE Cut(W)
  /\ pw' = PageRest
  /\ filed' = IF pw.pc \in Before THEN Newest(filed, Least(Len(filed), PageSize - 1))
                                                         ELSE filed
  /\ UNCHANGED <<page, readVars, begun>>

-----------------------------------------------------------------------------
(* The loops of print_trace, print_faults and print_persist.  Each shows    *)
(* the records before the head, and computes their places the same way.     *)

Reads == UNCHANGED <<logVars, pageVars>>
Stay  == UNCHANGED <<snap, begun>>

PlaceOfNext(n) == (rd.head + n - rd.count + rd.i + 1) % n   \* variant: a line too far
Place(n)       == (rd.head + n - rd.count + rd.i) % n

LoadFirst(here, there, value) ==
  /\ rd.pc = here
  /\ rd' = [rd EXCEPT !.pc = there, !.line.first = value]
  /\ Stay /\ Reads

LoadLast(here, there, value) ==
  /\ rd.pc = here
  /\ rd' = [rd EXCEPT !.pc = there, !.line.last = value]
  /\ Stay /\ Reads

(* print_trace and print_faults load the count and the head once.           *)
PrintCount ==
  /\ rd.pc = "idle"
  /\ page.count # 0
  /\ rd' = [ReadRest EXCEPT !.pc = "page_head", !.count = page.count]
  /\ Stay /\ Reads

PrintHead ==
  /\ rd.pc = "page_head"
  /\ rd' = [rd EXCEPT !.head = page.head, !.pc = "page_first"]
  /\ snap' = filed
  /\ begun' = IF pw.pc \in Before THEN 1 ELSE 0
  /\ Reads

PrintSource == LoadFirst("page_first", "page_last", page.records[Place(PageSize)].source)
PrintCode   == LoadLast("page_last", "page_printed", page.records[Place(PageSize)].code)

PrintNext ==
  /\ rd.pc = "page_printed"
  /\ rd.i + 1 < rd.count
  /\ rd' = [rd EXCEPT !.pc = "page_first", !.i = @ + 1, !.line = NoLine]
  /\ Stay /\ Reads

PrintDone ==
  /\ rd.pc = "page_printed"
  /\ rd.i + 1 >= rd.count
  /\ rd' = ReadRest /\ snap' = <<>> /\ begun' = 0
  /\ Reads

(* print_persist loads the head and the count anew for every line.  Its     *)
(* loop test, a load of record_count too, is taken together with the head's:*)
(* the worker only lets the count grow, so nothing is lost.                 *)
PersistBegin ==
  /\ rd.pc = "idle"
  /\ log.magic /\ log.record_count > 0
  /\ rd' = [ReadRest EXCEPT !.pc = "log_head"]
  /\ Stay /\ Reads

PersistHead ==
  /\ rd.pc = "log_head"
  /\ rd.i < log.record_count
  /\ rd' = [rd EXCEPT !.head = log.write_head, !.pc = "log_count"]
  /\ begun' = IF pw.pc \in Before \/ (pw.pc # "idle" /\ ~HeadMoved) THEN 1 ELSE 0
  /\ UNCHANGED snap /\ Reads

PersistCount ==
  /\ rd.pc = "log_count"
  /\ rd' = [rd EXCEPT !.count = log.record_count, !.pc = "log_first"]
  /\ Stay /\ Reads

PersistSeq   == LoadFirst("log_first", "log_last", log.records[Place(Capacity)].seq)
PersistEvent == LoadLast("log_last", "log_printed", log.records[Place(Capacity)].event)

PersistNext ==
  /\ rd.pc = "log_printed"
  /\ rd' = [ReadRest EXCEPT !.pc = "log_head", !.i = rd.i + 1]
  /\ begun' = 0
  /\ UNCHANGED snap /\ Reads

PersistDone ==
  /\ rd.pc = "log_head"
  /\ rd.i >= log.record_count
  /\ rd' = ReadRest
  /\ Stay /\ Reads

Dump ==
  \/ PrintCount   \/ PrintHead   \/ PrintSource  \/ PrintCode  \/ PrintNext \/ PrintDone
  \/ PersistBegin \/ PersistHead \/ PersistCount \/ PersistSeq \/ PersistEvent
  \/ PersistNext  \/ PersistDone

LogsNext ==
  \/ PageBegin \/ StoreSource \/ StoreCode \/ PageAdvance \/ PageHasRoom \/ PageFull
  \/ PageLoadCount \/ PageStoreCount \/ Persist \/ Die
  \/ Dump

LogsSpec == LogsInit /\ [][LogsNext]_allVars

-----------------------------------------------------------------------------
(* A line of print_trace or print_faults shows the record that was at its   *)
(* place when the dump took the head, whole, and the newest last; unless so *)
(* many events have been logged since that the record has been overwritten. *)
PageDumpTrue ==
  LET back == rd.count - rd.i - 1   \* records newer than the line's
      kept == Len(snap) - back
  IN  rd.pc = "page_printed" /\ kept > 0 /\ begun < PageSize - back
      => rd.line = [first |-> snap[kept], last |-> snap[kept]]

(* A line of print_persist is one record, as the ring still holds it, for   *)
(* all that the worker appends between its loads; unless it has begun more  *)
(* appends since the head was loaded than there are places between the two. *)
PersistLineHeld ==
  rd.pc = "log_printed" /\ begun <= Capacity - rd.count + rd.i
  => rd.line = [ first |-> log.records[Place(Capacity)].seq,
                 last  |-> log.records[Place(Capacity)].event ]
=============================================================================
