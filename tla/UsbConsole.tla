------------------------------ MODULE UsbConsole ------------------------------
(***************************************************************************)
(* The USB console of the kernel: the two rings of shared/usb_serial.c on  *)
(* the shared page, the two CDC FIFOs of the TinyUSB-shaped class driver,  *)
(* usb_serial_poll, the callbacks, and the line buffer of handle_console.  *)
(* The kernel runs all of it on one core and polls, so a function is       *)
(* interrupted by nothing; the host acts through tud_task.                 *)
(*                                                                         *)
(* Before that, kernel_main decides by the usb_state it finds on the page  *)
(* whether it starts its own USB stack at all.                             *)
(*                                                                         *)
(* The endpoint back end is a scaffold in the code (nothing calls          *)
(* tinyusb_cdc_rx_feed, tinyusb_cdc_tx_take or sets connected): the host's *)
(* actions here are the contract those functions are written for.          *)
(* A byte is its number in the order sent, or printed.                     *)
(***************************************************************************)
EXTENDS Integers, Sequences

CONSTANTS
  RxRing, TxRing,   \* USB_SERIAL_RING_SIZE, 512
  RxSize, TxSize,   \* CFG_TUD_CDC_RX_BUFSIZE, CFG_TUD_CDC_TX_BUFSIZE, 256
  Chunk,       \* the chunk buffers of the two pumps, 32
  ReadLen,     \* the read buffer of handle_console, 32
  LineSize,    \* its line buffer with the NUL, 64
  PageFrom,    \* who may have set up the page the kernel finds
  Bursts,      \* how many bytes are sent, taken or printed at a time
  MaxIn, MaxOut, MaxSessions   \* bounds: bytes sent, bytes printed, ports opened

ASSUME SizesAssumption == /\ {RxSize, TxSize, RxRing, TxRing, LineSize} \subseteq Nat \ {0, 1}
                          /\ RxSize <= RxRing /\ TxSize <= TxRing
                          /\ {Chunk, ReadLen} \subseteq Nat \ {0}
ASSUME PageFromAssumption  == PageFrom \subseteq {"kernel", "bootloader", "plain_bootloader"}
ASSUME UsbBoundsAssumption == /\ Bursts \subseteq Nat \ {0}
                              /\ {MaxIn, MaxOut, MaxSessions} \subseteq Nat

VARIABLES
  rx, tx,          \* the rings on the page
  s_rx, s_tx,      \* the FIFOs of cdc_device.c
  connected,       \* s_connected
  usb_state,
  setup,           \* usb_console_enabled of the page, s_tusb_inited of the kernel
  pc,              \* where the kernel is in its loop
  buf, line,       \* handle_console: bytes read and not yet looked at, the line so far
  kinds,           \* history: what each byte sent was
  got,             \* history: how many bytes the console has read
  ran,             \* history: the last line executed, and the byte that ended it
  printed,         \* history: how many bytes were printed
  port             \* history: the session of the host, and did the last end with a close

inVars  == <<rx, s_rx, kinds, got>>
outVars == <<tx, s_tx, printed>>
conVars == <<buf, line, ran>>
vars    == <<inVars, outVars, conVars, connected, usb_state, setup, pc, port>>

-----------------------------------------------------------------------------
(* Rings: one slot stays free, so that full and empty differ.               *)
Empty(n)   == [ head |-> 0, tail |-> 0, data |-> [i \in 0 .. n - 1 |-> 0] ]
Used(r, n) == IF r.head >= r.tail THEN r.head - r.tail ELSE n - (r.tail - r.head)
Contents(r, n) == [ i \in 1 .. Used(r, n) |-> r.data[(r.tail + i - 1) % n] ]
Least(a, b) == IF a <= b THEN a ELSE b

Free(r, n)     == n - 1 - Used(r, n)

(* A loop that stores until the ring is full, one that loads k bytes.       *)
Pushed(r, s, n) ==
  LET k == Least(Len(s), Free(r, n))
  IN  [ head |-> (r.head + k) % n, tail |-> r.tail,
        data |-> [ i \in 0 .. n - 1 |->
                     LET d == (i + n - r.head) % n IN IF d < k THEN s[d + 1] ELSE r.data[i] ] ]
Popped(r, k, n) == [ r EXCEPT !.tail = (r.tail + Least(k, Used(r, n))) % n ]
Front(r, k, n)  == SubSeq(Contents(r, n), 1, Least(k, Used(r, n)))

RingType(n, max) == [ head : 0 .. n - 1, tail : 0 .. n - 1, data : [0 .. n - 1 -> 0 .. max] ]

Kinds   == {"char", "newline", "return"}
Pcs     == {"start", "task", "pump_rx", "pump_tx", "publish", "read", "line", "main"}
NoLine  == [ bytes |-> <<>>, end |-> 0 ]
Numbers(a, b) == [ i \in 1 .. b - a + 1 |-> a + i - 1 ]

TypeOK ==
  /\ rx \in RingType(RxRing, MaxIn)   /\ s_rx \in RingType(RxSize, MaxIn)
  /\ tx \in RingType(TxRing, MaxOut)  /\ s_tx \in RingType(TxSize, MaxOut)
  /\ connected \in BOOLEAN /\ usb_state \in {"OFF", "READY", "ACTIVE"} /\ pc \in Pcs
  /\ setup \in [enabled : BOOLEAN, inited : BOOLEAN]
  /\ buf \in Seq(1 .. MaxIn) /\ Len(buf) <= ReadLen
  /\ line \in Seq(1 .. MaxIn) /\ Len(line) < LineSize
  /\ kinds \in Seq(Kinds) /\ Len(kinds) <= MaxIn /\ got \in 0 .. MaxIn
  /\ ran \in [bytes : Seq(1 .. MaxIn), end : 0 .. MaxIn]
  /\ printed \in 0 .. MaxOut
  /\ port \in [ sessions : 0 .. MaxSessions, overran : BOOLEAN, lagged : BOOLEAN,
                from : 0 .. MaxOut, closed : BOOLEAN, received : Seq(1 .. MaxOut) ]

(* The kernel is about to look at usb_state.  ctl_init_defaults, of the      *)
(* bootloader or else of the kernel, has stored USB_SERIAL_OFF, and whether  *)
(* its own build has the console; a bootloader whose build has it has then   *)
(* run usb_serial_init, in its own image.                                    *)
Init ==
  /\ \E from \in PageFrom :
       /\ usb_state = IF from = "bootloader" THEN "READY" ELSE "OFF"
       /\ setup = [enabled |-> from # "plain_bootloader", inited |-> FALSE]
  /\ rx = Empty(RxRing) /\ tx = Empty(TxRing)
  /\ s_rx = Empty(RxSize) /\ s_tx = Empty(TxSize)
  /\ connected = FALSE /\ pc = "start"
  /\ buf = <<>> /\ line = <<>>
  /\ kinds = <<>> /\ got = 0 /\ ran = NoLine /\ printed = 0
  /\ port = [ sessions |-> 0, overran |-> FALSE, lagged |-> TRUE, from |-> 0,
              closed |-> FALSE, received |-> <<>> ]

-----------------------------------------------------------------------------
(* The host, while the kernel is in tud_task.                               *)

(* tinyusb_cdc_rx_feed.  The host has overrun the console when the FIFO is  *)
(* full, or when FIFO and ring together have more than the ring can hold.   *)
Feed ==
  /\ pc = "task" /\ connected
  /\ \E n \in Bursts : \E ks \in [1 .. n -> Kinds] :
       /\ Len(kinds) + n <= MaxIn
       /\ kinds' = kinds \o ks
       /\ s_rx' = Pushed(s_rx, Numbers(Len(kinds) + 1, Len(kinds) + n), RxSize)
       /\ port' = [port EXCEPT !.overran =
            \/ @
            \/ Used(s_rx, RxSize) + n > RxSize - 1
            \/ Used(rx, RxRing) + Used(s_rx, RxSize) + n > RxRing - 1]
  /\ UNCHANGED <<rx, got, outVars, conVars, connected, usb_state, setup, pc>>

(* tinyusb_cdc_tx_take                                                      *)
Take ==
  /\ pc = "task" /\ connected
  /\ \E n \in Bursts :
       /\ n <= Used(s_tx, TxSize)
       /\ port' = [port EXCEPT !.received = @ \o Front(s_tx, n, TxSize)]
       /\ s_tx' = Popped(s_tx, n, TxSize)
  /\ UNCHANGED <<inVars, tx, printed, conVars, connected, usb_state, setup, pc>>

(* The host opens the port: connected, and tud_cdc_line_state_cb with DTR.  *)
OpenPort ==
  /\ pc = "task" /\ ~connected
  /\ port.sessions < MaxSessions
  /\ connected' = TRUE /\ usb_state' = "ACTIVE"
  /\ port' = [port EXCEPT !.sessions = @ + 1, !.from = printed,
       !.lagged = Used(tx, TxRing) + Used(s_tx, TxSize) > 0]
  /\ UNCHANGED <<inVars, outVars, conVars, setup, pc>>

(* The callback without DTR drops what is queued on the page, and leaves    *)
(* what tud_cdc_write has taken of it in the FIFO.                          *)
ClosePort ==
  /\ pc = "task" /\ connected
  /\ connected' = FALSE /\ usb_state' = "READY"
  /\ tx' = [tx EXCEPT !.head = tx.tail]
  /\ port' = [port EXCEPT !.lagged = TRUE, !.received = <<>>, !.closed = TRUE]
  /\ UNCHANGED <<inVars, s_tx, printed, conVars, setup, pc>>

(* dcd_int_handler on USBRST, and tud_umount_cb: nothing is dropped.        *)
BusReset ==
  /\ pc = "task"
  /\ connected' = FALSE /\ usb_state' = "READY"
  /\ port' = [port EXCEPT !.lagged = TRUE, !.received = <<>>, !.closed = FALSE]
  /\ UNCHANGED <<inVars, outVars, conVars, setup, pc>>

-----------------------------------------------------------------------------
Go(from, to) == pc = from /\ pc' = to

(* kernel_main: usb_serial_init, with a tusb_init that cannot fail           *)
(* (tinyusb_dwc2_init always ends with initialized = 1), or nothing.         *)
StartUsb ==
  /\ Go("start", "main") /\ usb_state = "OFF"
  /\ rx' = [rx EXCEPT !.head = 0, !.tail = 0] /\ tx' = [tx EXCEPT !.head = 0, !.tail = 0]
  /\ s_rx' = Empty(RxSize) /\ s_tx' = Empty(TxSize)
  /\ connected' = FALSE /\ usb_state' = "READY"
  /\ setup' = [setup EXCEPT !.inited = TRUE]
  /\ UNCHANGED <<kinds, got, printed, conVars, port>>

SkipUsb ==
  /\ Go("start", "main") /\ usb_state # "OFF"
  /\ UNCHANGED <<inVars, outVars, conVars, connected, usb_state, setup, port>>

(* usb_serial_poll                                                          *)

Poll ==
  /\ Go("main", "task") /\ setup.inited
  /\ UNCHANGED <<inVars, outVars, conVars, connected, usb_state, setup, port>>

PollNothing ==
  /\ Go("main", "read") /\ ~setup.inited
  /\ UNCHANGED <<inVars, outVars, conVars, connected, usb_state, setup, port>>

TaskDone == Go("task", "pump_rx")
            /\ UNCHANGED <<inVars, outVars, conVars, connected, usb_state, setup, port>>

(* A turn of pump_rx_from_tinyusb: a chunk leaves the FIFO, and as much of  *)
(* it as fits goes to the ring.                                             *)
MorePending == Used(s_rx, RxSize) > 0 /\ Free(rx, RxRing) > 0

PumpRx ==
  /\ pc = "pump_rx" /\ MorePending /\ UNCHANGED pc
  /\ rx' = Pushed(rx, Front(s_rx, Chunk, RxSize), RxRing)
  /\ s_rx' = Popped(s_rx, Chunk, RxSize)
  /\ UNCHANGED <<kinds, got, outVars, conVars, connected, usb_state, setup, port>>

PumpRxDone ==
  /\ Go("pump_rx", "pump_tx") /\ ~MorePending
  /\ UNCHANGED <<inVars, outVars, conVars, connected, usb_state, setup, port>>

(* A turn of pump_tx_to_tinyusb; a partial write ends the pump.             *)
PumpTxRetrying ==   \* variant: takes only what was written out of the ring, and goes on
  /\ pc = "pump_tx" /\ connected /\ Used(tx, TxRing) > 0
  /\ s_tx' = Pushed(s_tx, Front(tx, Chunk, TxRing), TxSize)
  /\ tx' = Popped(tx, Chunk - 1, TxRing)
  /\ UNCHANGED <<inVars, printed, conVars, connected, usb_state, setup, pc, port>>

PumpTxWhole ==   \* variant: a chunk that does not fit is not written at all
  /\ pc = "pump_tx" /\ connected /\ Used(tx, TxRing) > 0
  /\ LET chunk == Front(tx, Chunk, TxRing)
         whole == Len(chunk) <= Free(s_tx, TxSize)
     IN  /\ tx' = Popped(tx, Chunk, TxRing)
         /\ s_tx' = IF whole THEN Pushed(s_tx, chunk, TxSize) ELSE s_tx
         /\ pc' = IF whole THEN pc ELSE "publish"
  /\ UNCHANGED <<inVars, printed, conVars, connected, usb_state, setup, port>>

PumpTx ==
  /\ pc = "pump_tx" /\ connected /\ Used(tx, TxRing) > 0
  /\ LET chunk == Front(tx, Chunk, TxRing)
     IN  /\ tx' = Popped(tx, Chunk, TxRing)
         /\ s_tx' = Pushed(s_tx, chunk, TxSize)
         /\ pc' = IF Len(chunk) > Free(s_tx, TxSize) THEN "publish" ELSE pc
  /\ UNCHANGED <<inVars, printed, conVars, connected, usb_state, setup, port>>

PumpTxDone ==
  /\ Go("pump_tx", "publish") /\ ~(connected /\ Used(tx, TxRing) > 0)
  /\ UNCHANGED <<inVars, outVars, conVars, connected, usb_state, setup, port>>

Publish ==
  /\ Go("publish", "read")
  /\ usb_state' = IF connected THEN "ACTIVE" ELSE "READY"
  /\ UNCHANGED <<inVars, outVars, conVars, connected, setup, port>>

-----------------------------------------------------------------------------
(* usb_serial_write, from any console_puts.  A host that is more bytes      *)
(* behind than the FIFO holds lags.                                         *)
Write ==
  /\ pc = "main" /\ setup.enabled /\ connected
  /\ \E n \in Bursts :
       /\ printed + n <= MaxOut
       /\ tx' = Pushed(tx, Numbers(printed + 1, printed + n), TxRing)
       /\ printed' = printed + n
       /\ port' = [port EXCEPT !.lagged =
            @ \/ Used(tx, TxRing) + Used(s_tx, TxSize) + n > TxSize - 1]
  /\ UNCHANGED <<inVars, s_tx, conVars, connected, usb_state, setup, pc>>

(* handle_console: usb_serial_read, then one byte after the other.          *)
ReadShort ==   \* variant: keeps the last place of the read buffer for a NUL
  /\ Go("read", "line")
  /\ buf' = Front(rx, ReadLen - 1, RxRing)
  /\ rx' = Popped(rx, ReadLen, RxRing)
  /\ got' = got + Len(buf')
  /\ UNCHANGED <<s_rx, kinds, outVars, line, ran, connected, usb_state, setup, port>>

Read ==
  /\ Go("read", "line")
  /\ buf' = Front(rx, ReadLen, RxRing)
  /\ rx' = Popped(rx, ReadLen, RxRing)
  /\ got' = got + Len(buf')
  /\ UNCHANGED <<s_rx, kinds, outVars, line, ran, connected, usb_state, setup, port>>

Kind == kinds[Head(buf)]

LineCharUnchecked ==   \* variant: lets the line grow into its NUL
  /\ pc = "line" /\ buf # <<>> /\ Kind = "char"
  /\ line' = IF Len(line) < LineSize THEN Append(line, Head(buf)) ELSE line
  /\ buf' = Tail(buf)
  /\ UNCHANGED <<inVars, outVars, ran, connected, usb_state, setup, pc, port>>

LineChar ==
  /\ pc = "line" /\ buf # <<>> /\ Kind = "char"
  /\ line' = IF Len(line) + 1 < LineSize THEN Append(line, Head(buf)) ELSE line
  /\ buf' = Tail(buf)
  /\ UNCHANGED <<inVars, outVars, ran, connected, usb_state, setup, pc, port>>

LineReturn ==
  /\ pc = "line" /\ buf # <<>> /\ Kind = "return"
  /\ buf' = Tail(buf)
  /\ UNCHANGED <<inVars, outVars, line, ran, connected, usb_state, setup, pc, port>>

(* The line is compared with the commands, and the buffer starts over.      *)
LineRunKept ==   \* variant: does not set line_len back after an empty line
  /\ pc = "line" /\ buf # <<>> /\ Kind = "newline"
  /\ ran' = [bytes |-> line, end |-> Head(buf)]
  /\ line' = IF Len(line) < 2 THEN line ELSE <<>>
  /\ buf' = Tail(buf)
  /\ UNCHANGED <<inVars, outVars, connected, usb_state, setup, pc, port>>

LineRun ==
  /\ pc = "line" /\ buf # <<>> /\ Kind = "newline"
  /\ ran' = [bytes |-> line, end |-> Head(buf)]
  /\ line' = <<>>
  /\ buf' = Tail(buf)
  /\ UNCHANGED <<inVars, outVars, connected, usb_state, setup, pc, port>>

LineDone ==
  /\ Go("line", "main") /\ buf = <<>>
  /\ UNCHANGED <<inVars, outVars, conVars, connected, usb_state, setup, port>>

Host   == Feed \/ Take \/ OpenPort \/ ClosePort \/ BusReset
Kernel == \/ StartUsb \/ SkipUsb \/ PollNothing
          \/ Poll  \/ TaskDone \/ PumpRx   \/ PumpRxDone \/ PumpTx  \/ PumpTxDone \/ Publish
          \/ Write \/ Read     \/ LineChar \/ LineReturn \/ LineRun \/ LineDone

Next == Host \/ Kernel
Spec == Init /\ [][Next]_vars

-----------------------------------------------------------------------------
Rising(s) == \A i \in 1 .. Len(s) - 1 : s[i] < s[i+1]

Unread == Contents(rx, RxRing) \o Contents(s_rx, RxSize)
Unsent == Contents(s_tx, TxSize) \o Contents(tx, TxRing)

(* Input is never reordered or repeated, and none is lost on its way        *)
(* through FIFO, chunk, ring and read buffer while the host does not        *)
(* overrun the console.                                                     *)
InputComplete ==
  /\ Rising(buf \o Unread)
  /\ ~port.overran => buf \o Unread = Numbers(got - Len(buf) + 1, Len(kinds))

(* The same of the output, within a session.                                *)
OutputComplete ==
  /\ Rising(port.received \o Unsent)
  /\ ~port.lagged => port.received \o Unsent = Numbers(port.from + 1, printed)

(* A line that is executed is one the host has sent, from its first byte to *)
(* its last, without carriage returns, cut at the buffer's end.             *)
Chars(end) ==
  { i \in 1 .. end - 1 : kinds[i] = "char" /\ \A j \in i .. end - 1 : kinds[j] # "newline" }

IsLine(s, end) ==
  /\ Rising(s)
  /\ \A i \in 1 .. Len(s) : s[i] \in Chars(end)
  /\ \A c \in Chars(end) :
       (\E i \in 1 .. Len(s) : s[i] = c) \/ (Len(s) = LineSize - 1 /\ s[Len(s)] < c)

LinesAsSent == ~port.overran /\ ran # NoLine => IsLine(ran.bytes, ran.end)

(* USB_SERIAL.md: "stale TX data is not replayed after the host closes and   *)
(* reopens the port", and usb_serial.c: "Drop any queued log bytes so a     *)
(* later reconnect does not dump stale data into a fresh TinyUSB session":   *)
(* a session after a close receives nothing that was printed before it.     *)
NothingStale ==
  port.closed => \A i \in 1 .. Len(port.received) : port.received[i] > port.from

(* ARCHITECTURE.md: the kernel "exports a console over UART0 plus the shared *)
(* USB serial rings": a kernel whose build has the console has a stack that *)
(* serves them, once it has looked at what the bootloader left on the page. *)
ConsoleExported == pc # "start" /\ setup.enabled => setup.inited

(* The two directions of the console as channels that lose bytes only while *)
(* they are full, and heal at once: a host that has overrun the console is  *)
(* heard again as soon as it stays within a FIFO, and so is the console by  *)
(* a host that has lagged.  The input outlives a session; of the output,    *)
(* the end of one drops what has not left the page.                         *)
Input  == INSTANCE ByteChannel
            WITH queue <- buf \o Unread, sent <- Len(kinds), out <- got - Len(buf),
                 up <- connected, Room <- RxSize - 1, Drops <- FALSE
Output == INSTANCE ByteChannel
            WITH queue <- Unsent, sent <- printed, out <- Len(port.received),
                 up <- connected, Room <- TxSize - 1, Drops <- TRUE

BytesKept == Input!Spec /\ Output!Spec
=============================================================================
