# SG2002 Kraken in TLA+

Kraken (`project/sg2002_bootable_repo`) is a bare-metal system for the SG2002:
a bootloader and a kernel on the first C906 core, a worker on the second one,
and an 8051 as watchdog. They share one page of DDR (`shared_ctrl_t` at
`SHARED_CTRL_ADDR`) and, behind it, a ring of events that survives a warm reset.
No processor ever takes a lock. This directory holds the TLA+ modules of the
system, the TLC runs that check them and the proofs that TLAPS checks. File and
line references below are relative to `project/sg2002_bootable_repo`.

## 1. The system

| Part | State it keeps | Operations | Talks to the others by |
|---|---|---|---|
| Bootloader `bootloader/main.c` | none of its own | formats the page, snapshots the previous run, checks the images, jumps to the kernel | the page, the persistent ring |
| Kernel `kernel/main.c` | `stale`, `last_worker_hb`, the console line | boots the worker, waits for its acknowledgement, supervises (heartbeat, fault, watchdog flag), runs console commands, restarts the worker, panics | page, reset and enable lines of the worker core, 8051 reset line |
| Worker `worker_rtos/main.c` | loop position, job counter | acknowledges the boot, polls `worker_cmd`, runs the job, stops, faults | page |
| 8051 `watch8051/watchdog.c` | two 16-bit poll counters, last samples | polls `kernel_pet_seq` and `worker_heartbeat`, signals once | page |
| Trap handler `shared/trap.c` | none | records the trap, marks the page, spins for ever | page, persistent ring |
| Persistent ring `shared/shared_state.c` | `write_head`, `record_count`, `next_seq`, 256 records, the previous run's summary | append, format, clear, dump | appended to by bootloader, kernel and worker |
| Staged images `shared/image.c` | none; the load and staging windows of memory | tells whether an image is present, finds the last footer of a window, validates it (type, address, CRC32), copies | called by `bootloader_main` and the kernel's `boot_worker` |
| USB console `shared/usb_serial.c`, `third_party/tinyusb` | two rings on the page, two CDC FIFOs, connection state | start, poll, read, write, line-state callbacks | called by the kernel's loop and by every console output |
| Fault and trace rings on the page | heads, counts, records | append, dump | kernel, worker, bootloader; each append goes on into the persistent ring |
| Platform, cache, UART, mailbox, identity | hardware registers | one-way register sequences | called from everywhere |

What is hard here: three processors rewrite the same words with plain loads and
stores (`system_flags`, `worker_state`, `worker_cmd`, `reset_reason`, the
persistent ring); the kernel resets the worker core at any point of its
program; a trap ends a core between two stores; the counters are compared with
samples taken earlier; the handshake words are cleared by one processor while
the other one, still running its old program, can write them. `PROJECT.json`
lists the hazards one by one, with the properties that look for each.

What makes each part correct:

- handshake: a worker taken for online has booted since the last reset pulse;
- supervisor: a worker that is down is replaced or the kernel ends; a kernel
  that ends leaves a record; the transient flags are clear while it supervises;
- worker: `worker_state` is the truth about it; it drops no command unread;
- watchdog: a reset is asked for only after a real timeout, and then always;
- boot: each boot shows the page of the run before it, in all its words, numbers
  itself after that run, and hands a freshly built page to the kernel, wherever
  resets have cut the boots before;
- USB console: a kernel built with it has one; bytes keep their order, none is
  repeated, none is lost from a host that stays within the buffers, one that has
  overrun them is heard again, a line that runs is one that was sent, and a session
  after a close starts with nothing of the one before;
- staged images: what is released is one whole worker, a staged one is used when
  nothing is loaded, and the flags say why there is none;
- log dumps: a line of a dump is one record, in its place, for all that the worker
  logs while it is printed;
- persistent ring: interference of any kind spoils what it touches, and only
  that; what is appended undisturbed is shown in order and intact.

## 2. The modules

| Module | Models | Notes |
|---|---|---|
| `SharedCtrl` | the page: `shared_ctrl_t`, its enums, what the bootloader leaves in it | state `ctl` |
| `WorkerRtos` | `worker_rtos/main.c` and the trap handler on the worker core | state `w`; one action per access to the page |
| `Watchdog8051` | `watch8051/watchdog.c` | state `d` |
| `Kernel` | `kernel/main.c` with `shared/worker_release.c`, `shared/worker_reset_sg200x.c`, the trap handler on the kernel's core | state `k`, `image`, `core` |
| `KrakenSystem` | the composition: interleaving of the three processors, properties | |
| `SupervisedWorker` | abstract specification of the handshake and the supervisor | refined by `KrakenSystem` (`Supervised`) |
| `KrakenSystem_types`, `KrakenSystem_proofs` | proofs about `KrakenSystem` | |
| `PersistLog` | `persist_ensure`, `persist_append`, `ctl_persist_clear`, `print_persist` | state `log`, `wr`; history in `issued`, `done`, `clean`, `dirty` |
| `PersistLog_proofs`, `PersistLog_window` | proofs about `PersistLog`: types and counts; what interference cannot spoil, and what one writer can | |
| `LogDumps` | `ctl_trace_log`, `ctl_fault_log` on the worker, `print_trace`, `print_faults`, `print_persist` on the kernel; EXTENDS `PersistLog` | state `page`, `pw`, `rd`; history in `filed`, `snap`, `begun` |
| `LogDumps_proofs` | proofs about `LogDumps` | uses the lemmas of `PersistLog_proofs` and `PersistLog_window` |
| `BootFlow` | `bootloader/main.c`, `ctl_init_defaults` with the snapshot of the previous run, `boot_panic`, the trap handler in the bootloader, resets; EXTENDS `SharedCtrl` | state `ctl`, `head`, `plog`, `b`, `shown`; history in `last`, `resets` |
| `BootFlow_proofs` | proofs about `BootFlow` | |
| `StagedImage` | `shared/image.c`, `maybe_stage_worker`, the image tests of the bootloader and of `boot_worker`, the files of `tools/package_images.py` | state `size`, `fits`, `load`, `stage`, `pc`, `found`, `copied`, `missing`, `invalid`; history in `staged`, `placed` |
| `StagedImage_proofs` | proofs about `StagedImage` | |
| `UsbConsole` | `shared/usb_serial.c`, the FIFOs of `cdc_device.c`, the kernel's start of USB, the line buffer of `handle_console` | state `rx`, `tx`, `s_rx`, `s_tx`, `connected`, `usb_state`, `setup`, `pc`, `buf`, `line`; history in the rest |
| `ByteChannel` | abstract specification of one direction of the console | refined by `UsbConsole`, once each way (`Input` and `Output`, together `BytesKept`) |
| `UsbConsole_proofs` | proofs about `UsbConsole` | |

`KrakenSystem` composes the first four modules over the one page. `BootFlow` is
what comes before it: its `HandoffAsAssumed` says that the page it ends with is
one of those `KrakenSystem`'s `Init` begins with. `BootFlow` and `PersistLog`
share the ring: the first has its header's summary, the second its records.
`LogDumps` adds to `PersistLog` the rings on the page that feed it and the console
that reads both. `StagedImage` is what `boot_worker` does before it releases the
core: `Kernel` has its outcome (`image`), `StagedImage` the memory that decides it.
`UsbConsole` yields the console lines that are inputs in `Kernel`.

How state and actions correspond to the code:

- `ctl` keeps the C field names. `system_flags` and `platform_errors` are sets of
  the bits' names. `worker_boot_ack` is a Boolean (equal to `KRAKEN_MAGIC` or
  not). `worker_heartbeat` and `kernel_pet_seq` are free-running 32-bit counters
  that are only compared for inequality with a reader's last sample; they are
  the set of readers that would find them changed. The abstraction is exact as
  long as no reader sleeps for 2^32 increments.
- Each processor has a program counter. One action is the code from one access
  of a word another processor writes to the next. `|=` and `&= ~` on
  `system_flags` are two actions, a load and a store (`Modify`/`KernelOrLoad`
  and `KernelStore`; `WorkerTrapFlags` and `WorkerTrapStore`; `WatchdogSignal`
  and `WatchdogSignalStore`). Words that one processor alone reads and writes
  in a stretch (`platform_errors`, the stage during boot) change in the action
  of the access next to them.
- `restart_worker` calls `boot_worker` again, so the kernel has one set of boot
  actions, and `k.restart` says where `wait_for_worker_ack` returns to.
- `core` is the enable bit and the reset line of the worker core; `Power` says
  what they do to it: held in reset it stands still, out of reset and enabled
  it starts from its entry point.
- Console lines are inputs: in the supervisor loop any number of `run`,
  `panic` and `stop` lines arrive. In today's tree the USB receive path is a
  scaffold (nothing calls `tinyusb_cdc_rx_feed`), so this is the contract of
  `usb_serial_read`, not something the board can do yet.
- `PersistLog` takes one step per load or store of the ring. A core may be
  stopped after any of them (`Cut`), which stands for a trap, the reset pulse
  of `restart_worker` and a warm reset; the ring keeps what was stored.
- `LogDumps` has one writer, the worker, and one reader, the kernel, each taking
  one load or store at a time. The kernel appends to the same rings; it never does
  while it dumps them, and what two writers leave behind is in `PersistLog`. The trace ring and the fault ring have the same
  append and the same printing loop, so that one ring `page` stands for either,
  and an event is the number of its append. A record is the two words that an
  append stores first and last, as a line loads them. The loop test of
  `print_persist` is taken together with the load of the head after it.
- `StagedImage` counts memory in cells of the size of a footer. A window holds, in
  each cell, a word of some build's payload, a footer, or what power-on left there
  (all zero, all ones, noise). The CRC32 is modelled as equality of the cells it
  covers. The loader may read either kind of file in part (`Stage(b, n)`,
  `LoadRaw(b, n)`), whatever it was linked for, in any order and over what lies there:
  the U-Boot scripts chain their loads with `;`. The copy goes cell by cell, and a
  warm reset may come between two of them and keeps both windows.
- `BootFlow` takes one step per store of the page that a later boot can see.
  `sg2002_memset` clears upwards, so the page loses its magic word first
  (`Wipe`) and the rest after it (`WipeRest`); `version` goes with `magic`.
  The trace and fault words, pairs of a source and a code, are one word each:
  a reset between the two stores of a pair is not in the model. `persist_ensure`
  is one step here, since `PersistLog` takes it apart. A run is any
  sequence of single stores (`Run`), of which `KrakenSystem` has the real ones.
  `WarmReset` keeps all memory, unless `LoaderClears`: then the U-Boot script
  zeroes the page, and not the ring, before the bootloader. `PowerLoss` makes
  both magic words wrong.
- `UsbConsole` names a byte by its number, so that a lost, repeated or displaced
  byte shows. A loop over the bytes of a chunk is one step (`Pushed`, `Popped`):
  the kernel polls, and nothing interrupts the loop. It starts at the kernel's look at `usb_state`
  (`kernel/main.c`:422), on a page set up by the kernel itself, by a bootloader
  that has run its own `usb_serial_init`, or by one built without the console
  (`PageFrom`; the last kind drops what is written). Host actions take place in
  `tud_task`. They are the contract of `tinyusb_cdc_rx_feed`,
  `tinyusb_cdc_tx_take`, `tinyusb_cdc_set_connected` and the callbacks, which
  nothing in the scaffolded device controller calls yet, except the bus reset.
- `ByteChannel` has one queue for each direction, in place of ring, FIFO and read
  buffer. A pump is invisible to it unless it drops bytes, and then what is left
  must be in order and at least `Room` long: one place less than the CDC FIFO of that
  direction has. The end of a session leaves the input alone, and of the output the
  bytes that have come furthest.

What the models leave out: wording and layout of output, the LED, `delay_cycles`,
the mailbox doorbell (no receiver reads it), `worker_arg0/1` and
`worker_result`, restart and trap counters, the cache operations (compiled out
by default; memory is coherent). The page's magic word is always valid once the
bootloader has run (`HandoffAsAssumed`), so the re-initialisations in `kernel_main` and
`kraken_trap_panic` are never taken. A trap inside `kernel_panic` or inside the
trap handler is not modelled (the kernel would start its record over). The 8051
reads and writes a 32-bit word byte by byte; the model does it in one step. The
`sg2002_memset` of the persistent ring is one step. In `BootFlow` nobody records
whose trap it is when the bootloader traps before it has cleared the old page:
the next boot shows that page, with the trap in it. A boot cut between the magic
word and the number leaves no run to show. `print_persist` takes the count anew
for each line, so that a dump during which it grows can show a record twice, or the
blank slot before the oldest; nothing in the code promises otherwise, and
`PersistLineHeld` is about each line for itself.
`tusb_init` cannot fail in today's code, and the model has no step where it does.

Limits of the code that the models show and no property calls wrong:

- `sg2002_image_present` takes for an image: power-on noise, an image whose copy a
  reset has cut, and a raw `worker.bin` that was read in part or linked for another
  place. The worker core is released over each of them. `ReleasedWhole` names them as
  its exceptions (`placed = None`, `Spoiled`).
- What is left in the load window keeps a newly staged image from being looked at.
- The comment at `kernel/main.c`:30-36 says the footer lies at byte
  `WORKER_IMAGE_MAX_BYTES`; `tools/package_images.py` writes it right behind the
  payload. The search from the end of the window finds it there, and this is also
  how it finds an older one first (`staged_stale`).
- A bus reset drops neither buffer of the output, so that the session after it begins
  with the log of the one before.
- While the kernel holds a loaded `system_flags`, the 8051 sets
  `SYSF_WATCHDOG_TIMEOUT` and spins; the kernel's store then takes the bit away, and
  the timeout is lost. With today's kernel the 8051 does not run.
- Two cores that load the same `write_head` store their events into one slot, and
  one of them is lost. `CleanAppendsShown` says what is not.

Not modelled:

- `shared/platform.c`, `uart.c`, `mailbox.c`, `timer.c`: register sequences for the
  timers, the mailbox, the LED, the UART and the 8051's power-up. The program reads nothing of it back that steers
  it. `sg2002_boot_8051` also arms the hardware watchdog, which nothing feeds, but it is
  never reached (`WatchdogNeverStarted`).
- `shared/usb_dwc2_board.c`, `shared/usb_descriptors.c`: register writes and constant
  tables. The device controller under them is a scaffold that moves no data.
- `shared/cache.c`: compiled out by default.
- Identity and memory helpers: pure functions and CSR reads. The three `start.S`: a
  stack and a call of `main`.
- Build files, scripts and deployment, except the page clear of the U-Boot script.

## 3. The runs

| Run | Question | Result |
|---|---|---|
| `kraken_faults` | the system as it boots today, with every fault: traps on both cores, register writes that do not latch, all image states, up to two console lines of every kind: is the handshake right, and does everything that waits stop waiting, under fairness | holds |
| `kraken_watchdog` | with the 8051 running from the start and competing for `system_flags`, can a watchdog timeout be forged | holds |
| `persist_shared` | two cores append at once, and clear: what stays right, and how far can the count overshoot | holds |
| `log_dumps` | the worker, alone, logs, stopped anywhere, while the kernel dumps: are the rings and each line right | holds |
| `staged_boot` | files of every kind in both windows, over boots, restarts, resets and power losses: what is copied, released and flagged | holds |
| `boot_resets` | boots in a row, cut anywhere by resets, power losses and exceptions: what do they show, number and hand over | holds |
| `usb_console` | do bytes and lines survive two buffers each way, sessions, bus resets and overruns, and is each direction a channel that heals after a loss (`BytesKept`) | holds |
| `lost_command` | `docs/BOOT_FLOW.md`:39: the worker "services commands" | violated |
| `boot_lost` | `docs/README.md`:107: the ring "survives warm resets long enough for the next boot to snapshot the previous run" | violated |
| `staged_stale` | `docs/BOOT_FLOW.md`:34-36: the kernel "looks for a staged worker image footer, validates the CRC32, copies the exact payload length into place" | violated |
| `usb_stale` | `docs/USB_SERIAL.md`:30: queued TX is dropped "so stale TX data is not replayed after the host closes and reopens the port" | violated |
| `console_dead` | `docs/ARCHITECTURE.md`:19: the kernel "exports a console over UART0 plus the shared USB serial rings" | violated |

The five violations:

- `lost_command`: the worker reads `worker_cmd`, works, and stores `CMD_NONE`. A
  command sent in between is gone.
- `boot_lost`: `boot_full` of the U-Boot script
  (`src/uboot_full/sg2002_full_bundle/uboot/boot_sg2002_full.txt`:26-30, and the
  basic package's script alike) zeroes the page before the bootloader, which
  then finds no run to snapshot; every boot is number 1. The ring's records do
  survive. `boot_resets` shows that the bootloader does its part when the page
  is left alone.
- `staged_stale`: `sg2002_find_staged_image` goes down from the end of the window
  and stops at the first footer. A longer image staged earlier has left its footer
  above that of the one just staged; its CRC32 fails, and the kernel panics with an
  intact image in the window. `StagedUsed` says that this is the only way.
- `usb_stale`: when the port is closed `tud_cdc_line_state_cb` drops the ring on the
  page (`shared/usb_serial.c`:193). What a poll had moved on to the CDC FIFO stays
  there, and the next session receives it first.
- `console_dead`: `kernel_main` calls `usb_serial_init` when `usb_state` is
  `USB_SERIAL_OFF` (`kernel/main.c`:422). A bootloader with USB has left `READY` there
  for a stack in its own image, so the kernel's stack is never started nor polled.

One disagreement is proved instead of run. `docs/ARCHITECTURE.md`:17 says that the kernel
"starts the 8051 watchdog once worker bring-up succeeds". `ensure_watchdog_started`
(`kernel/main.c`:390) does nothing when `system_stage >= STAGE_WATCHDOG_BOOT`, that is 2,
and when it is called the stage is 6: the theorem `WatchdogNeverStarted` has it for every
value of the constants. The hardware watchdog is armed in the same function, so it is
not either.

Bounds. `SeqMod` stands for 2^32. It is 1 in the passing runs: no step of any processor
depends on a sequence number. `JobSteps` 1: the job polls before and after its step. `PollLimit` 1 and `AckSpins` 1 or 2 and
`StaleSpins` 0 or 1: each limit is reached, passed, and reset before it is
reached. `MaxLines` 2 in `kraken_faults`: two lines are enough for a command to meet the
handling of another, a stop to meet a job, at any point of it, and of a restart.
`kraken_watchdog` has no traps and one line: all of it together passes 20 million
states, and its question is about `system_flags` alone. The number of
restarts, heartbeats and turns of every loop is not bounded. In `PersistLog` the
ring has 2 records instead of 256 when two cores share it, and `MaxAppends` 5 lets
more than one whole turn follow the interference. `LogDumps` has 4 records
there (the least that tells the oldest from its neighbours at both ends) and 2
on the page, so that both rings wrap within 5 appends, before, during and after a
dump; it has no clears, which `persist_shared` has. `StagedImage` has two builds
of every pair of sizes up to `MaxCells` 3, with a footer behind either, 2 cells
that are probed, so that an image may be shorter than the probe, and 4 files: a
longer image, a shorter one over it, one cut short, and a raw one, which may be cut
short or foreign too. In `BootFlow` `BootMod` 3 wraps `boot_count` within
the run, and `MaxResets` 3 makes four boots: a run, two boots that are cut
anywhere, and one that shows what is left. A run's stores are one stage, one
reason and one set of flags that the bootloader itself never writes, which is
enough to tell a run's words from a boot's. In `UsbConsole` FIFOs
and rings have 3 places, of which 2 can be used, and `Chunk` 2 and `ReadLen` 1
keep the order of the real sizes (256, 512, 32, 32): a FIFO fits its ring, and a
read takes less than a poll brings, so that the ring fills up; `MaxIn` 4 and
`MaxOut` 3 overrun each of the four buffers, and `LineSize` 3 cuts a line. A
pump's second turn is not reached with a chunk as large as a FIFO; since the host
acts in `tud_task` only, two turns do what one larger chunk does. Two sessions are
enough for one to leave bytes to the next; `usb_stale` and `console_dead` have the
same bounds.

Fairness is assumed in `kraken_faults` only. It is weak fairness of each processor's own steps: three independent
processors execute their next instruction eventually. Nothing is assumed of
traps, of releases that fail, or of console lines. In the supervisor loop the
kernel's step from the console to the sample is always possible, and the lines
are bounded, so no input starves it.

Deadlock checking is on in the two runs of `StagedImage`, where a reset is always
possible, and off in the others: a kernel that has panicked, a worker that
has stopped and an 8051 that has signalled stay so, a bootloader that has panicked spins, and the
bounded inputs of `PersistLog`, `LogDumps`, `BootFlow` and `UsbConsole` run out.

## 4. The proofs

`KrakenSystem_types` proves `TypeOK`, strengthened by `StaleBounded` (the stale
counter passes its limit by one only between the sample and the judgement).

`KrakenSystem_proofs` proves, each from its own inductive invariant:

| Theorem | Invariant and why it is needed |
|---|---|
| `OnlineMeansBootedHolds`, `SupervisedHolds` | `HandshakeInv`: from the clear of the acknowledgement to the reset pulse the old core may still write it; the acknowledgement counts only from the moment the new core leaves reset. Assumes `ResetHook => CoreInReset`: with the reset hook compiled in, the reset is asserted at power-on. |
| `WorkerStateHonestHolds` | `HonestInv`: the kernel's `CORE_BOOTING` is followed by the reset pulse before it supervises again. Same assumption. |
| `ResetOnlyOnWatchdogHolds` | `SignalInv`: no register holding a loaded `system_flags` has the timeout bit unless the 8051 has signalled. |
| `TransientFlagsClearHolds` | `TransientInv`: which loaded copies may still hold the two flags. |
| `EndIsRecordedHolds` | `EndInv`: once a reason is set none is cleared, and the stage is final. |
| `WatchdogNeverStarted` | the stage never falls below `STAGE_KERNEL_ENTRY`. Assumes no earlier code starts the 8051. |

`PersistLog_proofs` proves `PersistTypes` (`TypeOK`), `CountBoundedHolds` for
both writers and `CountFitsHolds` for one, for every power-of-two capacity. On top
of the types, `PersistLog_window` has the contents of the ring:

| Theorem | Invariant and why it is needed |
|---|---|
| `CleanSeqConsecutiveHolds`, `CleanAppendsShownHolds` | `MeetInv`: which writers are inside an append together, so that one that is not marked as disturbed has been alone since it began. `HealInv`: the last `clean` appends lie in the slots behind the head, in order, consecutively numbered, and the next one's number follows. |
| `OnlyOldestTornHolds` | `OrderInv`: no record is newer than the number handed out last, the append in hand writes the slot at the head, and the records behind the head are in order. Assumes one writer. |

`LogDumps_proofs` has one invariant, `LogsInv`, for rings of any size, any number of
events, and a worker that is stopped at any of its steps. `LogsSpec` does not imply
`PersistLog`'s `Spec`: an event whose core dies before it comes to `persist_append`
uses up a number (`Die`), which `Spec` never does. The proof therefore takes the lemmas
of `PersistLog`'s proofs (`AppendTypes`, `CountSoloAppend`, `AppendMeets`, `HealAppend`,
`OrderAppend`), which are about one step of an append, and adds the lost number as one
step more (`RingSkip`). All theorems assume `Writers = {"worker"}`, as the module does
when it names its writer: the kernel's own appends are left out, and with them neither
the bound on the count nor the one torn record would hold (`CountBounded` and
`CleanAppendsShown` are what two writers leave).

| Theorem | Part of `LogsInv` and why it is needed |
|---|---|
| `SoloCountFitsHolds`, `SoloOldestTornHolds` | `RingInv`: the invariants of `PersistLog`'s proofs, of a ring that is formatted before the worker starts and never cleared. |
| `LogsTypeOKHolds` | `PageInv` (the slot of the log in hand is the page's head until the head moves; a loaded count is below the size) and `ReaderInv` (a line's number stays below the count it is computed with, whatever the worker adds). |
| `PageDumpTrueHolds` | `FiledInv`: the filed events lie behind the head, whole, except the oldest while its slot is written. `PageAhead`: the head has not come further past the dump's than the logs begun since. `SnapInv`: so what the dump's head had behind it is still there. |
| `PersistLineHeldHolds` | `PersistAhead`, the same of `write_head` and the appends begun since the line loaded it, and `PersistLine`: a slot that is not overwritten holds what was loaded of it. |

`BootFlow_proofs` proves `BootTypesHold` first. The snapshot is an induction over
its six copies that the invariant carries (`CopiedUpTo`). The other three theorems
rest on `StepInv` (at which steps the page has its magic word and its number, and
what the snapshot has copied) and each on one invariant more:

| Theorem | Invariant and why it is needed |
|---|---|
| `PreviousRunShownHolds` | `KeepInv`: while the page is still the last run's it equals `last`, and whenever it is not a numbered page the ring's summary does; one of the two holds at every cut. Assumes `~LoaderClears`. |
| `RunsNumberedHolds` | `CountInv`: the number being carried over is 0 or that of the summary in the ring. |
| `HandoffAsAssumedHolds` | `BuiltInv`: what the page holds at each step since it was zeroed. |

`StagedImage_proofs` proves `StagedTypesHold`, `ReleasedWholeHolds`, `StagedUsedHolds`,
`CopiesLatestHolds` and `MissingHonestHolds` from one invariant, for windows, images and
probes of every size. Its parts: `StagedThere` (the last file staged lies in the window to
its footer), `Copying` (what is copied so far equals the payload, which is still valid),
`LoadKnown` (what `placed` says of the load window: it holds the whole of a fitting
build; or, `Spoiled`, it begins with some word of one; or nothing was placed, and between
copies it is noisy or blank where it is probed), `RunningPresent`, `Refusal` and `Flags`.

`UsbConsole_proofs` has one invariant, `UsbInv`, for rings, FIFOs, chunks and reads of every
size. Two lemmas say what a ring holds after bytes are pushed and popped (`PushedIs`,
`PoppedIs`). The bytes on their way are then three sequences one behind the other, and
`Moved` and `Grown` say what a pump and a store do to them: further lemmas say that both
keep them rising, and gap-free when none is dropped.

| Theorem | Part of the invariant and why it is needed |
|---|---|
| `UsbTypesHold`, `InputCompleteHolds`, `OutputCompleteHolds` | `StartInv`: what is empty before the start of USB. `InInv`, `OutInv`: the three sequences rise (`Pipe`), and count every number while the host keeps up (`Exact`), which it does as long as ring and FIFO together hold no more than the second of them can: the ring on the way in, the FIFO on the way out. |
| `LinesAsSentHolds` | `LineInv`: the line so far, and the last line that ran, are the characters since the newline before, in order, none left out before the buffer was full. It needs `InInv`: the next byte that is looked at is the next one sent. |
| `BytesKeptHolds` | none beyond `UsbInv`. Every step of the console is a step of each channel or leaves it alone (`ChannelSteps`). `MovedHolds` and `GrownHolds` say that a pump or a store either loses nothing or leaves its ring full, and `FrontGone` that what is read leaves the front of the queue. |

Assumptions on constants are those the modules name: sizes are positive, a run's
stages, reasons and flags are ones of the C enums.

Only model-checked: the three liveness properties `DownWorkerReplaced`, `JobNeverStuck`
and `KernelNeverStuck`, since fairness and `ENABLED` are outside what the prover
supports. Every other property that a passing run checks is a
theorem, under the assumptions named above.

## 5. The plan

Done, in this order: `SharedCtrl`, `WorkerRtos`, `Watchdog8051`, `Kernel`,
`KrakenSystem` with `SupervisedWorker`, their proofs; `PersistLog` and its type
and count proofs; `BootFlow` and its proofs; `UsbConsole`; `StagedImage` and its
proofs; the contents of `PersistLog`'s ring, proved; `LogDumps`; the start of USB, and
the proofs about `UsbConsole`; the proofs about `LogDumps`; `LinesAsSent`, proved;
`ByteChannel`, and the proof that each direction of the console implements it.

Next, the most important first:

1. A theorem that joins two modules: `HandoffAsAssumed` of `BootFlow` with
   `KrakenSystem`'s `Init` as one statement. Today both name `CtlHandoff` of
   `SharedCtrl`, and the reader puts them together.
2. Two cores that log into one ring on the page: its count and head can be torn
   apart as the persistent ring's can, but nothing bounds what that shows.
3. An abstract log for `PersistLog` and `LogDumps`, as `ByteChannel` is for the console.
