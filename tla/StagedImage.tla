------------------------------ MODULE StagedImage ------------------------------
(***************************************************************************)
(* The worker image between the loader and the release of the core:        *)
(* shared/image.c over the two memory windows of maybe_stage_worker, the   *)
(* load window at WORKER_LOAD_ADDR and the staging window at               *)
(* WORKER_STAGING_ADDR, with the files tools/package_images.py makes for   *)
(* them.  Both windows outlive a warm reset, whatever step it comes at.    *)
(*                                                                         *)
(* A cell stands for as many bytes as a footer has.  Offsets are cells, a  *)
(* payload of n cells is what one build of the worker linked to, its first *)
(* words are code (neither all zero nor all ones), and two different       *)
(* ranges of cells never have the same CRC32.                              *)
(***************************************************************************)
EXTENDS Integers

CONSTANTS Builds,      \* builds of the worker, each packaged once
          None,        \* no build
          Spoiled,     \* a torn, cut-short or foreign image
          MaxCells,    \* WORKER_IMAGE_MAX_BYTES
          ProbeCells,  \* WORKER_IMAGE_PROBE_WORDS
          MaxLoads     \* bound on the files the loader writes in a behaviour

ASSUME BuildsAssumption == None \notin Builds /\ Spoiled \notin Builds \cup {None}
ASSUME CellsAssumption  == MaxCells \in Nat \ {0} /\ ProbeCells \in 1 .. MaxCells
ASSUME LoadsAssumption  == MaxLoads \in Nat

VARIABLES
  size,     \* payload_size of each build
  fits,     \* is it a worker image, linked for WORKER_LOAD_ADDR?
  load,     \* the window at WORKER_LOAD_ADDR
  stage,    \* the window at WORKER_STAGING_ADDR
  pc,       \* what runs: the loader, boot code, the copy, the worker
  found,    \* footer of maybe_stage_worker: the build it names
  copied,   \* n in sg2002_copy_image
  missing,  \* SYSF_WORKER_IMAGE_MISSING
  invalid,  \* PLATERR_WORKER_STAGING_INVALID
  loads,    \* files written so far
  staged,   \* history: the build whose file fills the staging window, the last one written
  placed    \* history: what last filled the load window, None being power-on

vars == <<size, fits, load, stage, pc, found, copied, missing, invalid, loads, staged, placed>>

Offsets == 0 .. MaxCells
Fills   == {"zero", "ones", "noise"}     \* what DDR holds after power-on
Cells   == [ what : Fills \cup {"word", "footer"}, build : Builds \cup {None}, at : Offsets ]
Windows == [Offsets -> Cells]

Filled(f)     == [o \in Offsets |-> [what |-> f, build |-> None, at |-> 0]]
Word(b, o)    == [what |-> "word", build |-> b, at |-> o]
Footer(b)     == [what |-> "footer", build |-> b, at |-> size[b]]

TypeOK ==
  /\ size \in [Builds -> 1 .. MaxCells]
  /\ fits \in [Builds -> BOOLEAN]
  /\ load \in Windows /\ stage \in Windows
  /\ pc \in {"loader", "boot", "kernel", "copy", "staged", "running", "panic"}
  /\ found \in Builds \cup {None}
  /\ copied \in 0 .. MaxCells
  /\ missing \in BOOLEAN /\ invalid \in BOOLEAN
  /\ loads \in 0 .. MaxLoads
  /\ staged \in Builds \cup {None} /\ placed \in Builds \cup {None, Spoiled}

Init ==
  /\ size \in [Builds -> 1 .. MaxCells]
  /\ fits \in [Builds -> BOOLEAN]
  /\ \E f \in Fills : load = Filled(f)
  /\ \E f \in Fills : stage = Filled(f)
  /\ pc = "loader" /\ found = None /\ copied = 0
  /\ missing = FALSE /\ invalid = FALSE
  /\ loads = 0 /\ staged = None /\ placed = None

-----------------------------------------------------------------------------
(* shared/image.c                                                           *)

(* load_staged_footer: a footer counts where its payload_size puts it.      *)
FooterAt(w, o) == w[o].what = "footer" /\ w[o].at = o /\ o # 0

(* sg2002_find_staged_image goes down from the end of the window, so the    *)
(* last footer is the one it finds.                                         *)
LastFooterShort(w, o) ==   \* variant: starts one footer too low
  FooterAt(w, o) /\ o # MaxCells /\ \A q \in o + 1 .. MaxCells - 1 : ~FooterAt(w, q)
LastFooter(w, o) == FooterAt(w, o) /\ \A q \in o + 1 .. MaxCells : ~FooterAt(w, q)

Find(w) == IF \E o \in Offsets : LastFooter(w, o)
           THEN w[CHOOSE o \in Offsets : LastFooter(w, o)].build
           ELSE None

(* The window starts with the whole payload of a build: what equality of    *)
(* the CRC32s stands for.                                                   *)
Holds(w, b) == \A o \in 0 .. size[b] - 1 : w[o] = Word(b, o)

(* sg2002_validate_staged_image, for the worker at WORKER_LOAD_ADDR.        *)
ValidUnsummed(b) == b # None /\ fits[b]    \* variant: skips the CRC32
Valid(b)         == b # None /\ fits[b] /\ Holds(stage, b)

(* sg2002_image_present: a footer, or words that are neither all zero nor   *)
(* all ones where the image would start.                                    *)
Present(w) ==
  \/ Find(w) # None
  \/ /\ \E o \in 0 .. ProbeCells - 1 : w[o].what # "zero"
     /\ \E o \in 0 .. ProbeCells - 1 : w[o].what # "ones"

-----------------------------------------------------------------------------
(* The loader, before the bootloader runs.                                  *)

MayLoad == pc = "loader" /\ loads < MaxLoads /\ loads' = loads + 1

(* worker.bin at WORKER_LOAD_ADDR, whatever it was linked for.  The read    *)
(* may end after n cells and leaves the ones behind them: the scripts chain *)
(* their loads with ';'.                                                    *)
LoadRaw(b, n) ==
  /\ MayLoad
  /\ load' = [o \in Offsets |-> IF o < n THEN Word(b, o) ELSE load[o]]
  /\ placed' = IF n = size[b] /\ fits[b] THEN b ELSE Spoiled
  /\ UNCHANGED <<size, fits, stage, pc, found, copied, missing, invalid, staged>>

(* worker_staged.bin, payload and footer, at WORKER_STAGING_ADDR; the read  *)
(* may end after n cells.                                                   *)
Stage(b, n) ==
  /\ MayLoad
  /\ stage' = [o \in Offsets |-> IF o >= n THEN stage[o]
                                 ELSE IF o < size[b] THEN Word(b, o) ELSE Footer(b)]
  /\ staged' = IF n > size[b] THEN b ELSE None
  /\ UNCHANGED <<size, fits, load, pc, found, copied, missing, invalid, placed>>

Start ==
  /\ pc = "loader"
  /\ pc' = "boot"
  /\ UNCHANGED <<size, fits, load, stage, found, copied, missing, invalid, loads, staged, placed>>

-----------------------------------------------------------------------------
(* bootloader_main, maybe_stage_worker and boot_worker.                     *)

Windowless == <<size, fits, load, stage, loads, staged, placed>>

BootloaderLooks ==
  /\ pc = "boot"
  /\ missing' = ~Present(load)
  /\ pc' = "kernel"
  /\ UNCHANGED <<found, copied, invalid>> /\ UNCHANGED Windowless

(* The kernel leaves what it finds at WORKER_LOAD_ADDR.                     *)
KernelKeeps ==
  /\ pc = "kernel"
  /\ Present(load)
  /\ pc' = "staged"
  /\ UNCHANGED <<found, copied, missing, invalid>> /\ UNCHANGED Windowless

KernelStages ==
  /\ pc = "kernel"
  /\ ~Present(load)
  /\ Valid(Find(stage))
  /\ found' = Find(stage) /\ copied' = 0
  /\ pc' = "copy"
  /\ UNCHANGED <<missing, invalid>> /\ UNCHANGED Windowless

KernelRefuses ==
  /\ pc = "kernel"
  /\ ~Present(load)
  /\ ~Valid(Find(stage))
  /\ invalid' = TRUE
  /\ pc' = "staged"
  /\ UNCHANGED <<found, copied, missing>> /\ UNCHANGED Windowless

(* sg2002_copy_image: payload_size cells, and not the footer.               *)
CopyLengthShort(b) == size[b] - 1    \* variant
CopyLength(b)      == size[b]

CopyStepOver ==   \* variant: <= for <
  /\ pc = "copy"
  /\ copied <= CopyLength(found)
  /\ load' = [load EXCEPT ![copied] = stage[copied]]
  /\ copied' = copied + 1
  /\ UNCHANGED <<size, fits, stage, pc, found, missing, invalid, loads, staged, placed>>

CopyStep ==
  /\ pc = "copy"
  /\ copied < CopyLength(found)
  /\ load' = [load EXCEPT ![copied] = stage[copied]]
  /\ copied' = copied + 1
  /\ UNCHANGED <<size, fits, stage, pc, found, missing, invalid, loads, staged, placed>>

CopyDoneQuietly ==   \* variant: leaves the flag
  /\ pc = "copy"
  /\ copied = CopyLength(found)
  /\ placed' = found
  /\ pc' = "staged"
  /\ UNCHANGED <<size, fits, load, stage, found, copied, missing, invalid, loads, staged>>

CopyDone ==
  /\ pc = "copy"
  /\ copied = CopyLength(found)
  /\ placed' = found
  /\ missing' = FALSE
  /\ pc' = "staged"
  /\ UNCHANGED <<size, fits, load, stage, found, copied, invalid, loads, staged>>

Release ==
  /\ pc = "staged"
  /\ Present(load)
  /\ pc' = "running"
  /\ UNCHANGED <<found, copied, missing, invalid>> /\ UNCHANGED Windowless

Panic ==
  /\ pc = "staged"
  /\ ~Present(load)
  /\ missing' = TRUE
  /\ pc' = "panic"
  /\ UNCHANGED <<found, copied, invalid>> /\ UNCHANGED Windowless

(* restart_worker calls boot_worker again.                                  *)
Restart ==
  /\ pc = "running"
  /\ pc' = "kernel"
  /\ UNCHANGED <<found, copied, missing, invalid>> /\ UNCHANGED Windowless

-----------------------------------------------------------------------------
(* ctl_init_defaults of the next boot zeroes the page; the windows stay.    *)
WarmReset ==
  /\ pc # "loader"
  /\ placed' = IF pc # "copy" \/ copied = 0 THEN placed
               ELSE IF copied = size[found] THEN found ELSE Spoiled
  /\ pc' = "loader" /\ found' = None /\ copied' = 0
  /\ missing' = FALSE /\ invalid' = FALSE
  /\ UNCHANGED <<size, fits, load, stage, loads, staged>>

PowerLoss ==
  /\ pc # "loader"
  /\ \E f \in Fills : load' = Filled(f)
  /\ \E f \in Fills : stage' = Filled(f)
  /\ pc' = "loader" /\ found' = None /\ copied' = 0
  /\ missing' = FALSE /\ invalid' = FALSE
  /\ staged' = None /\ placed' = None
  /\ UNCHANGED <<size, fits, loads>>

Loader == \/ \E b \in Builds : \E n \in 1 .. size[b] : LoadRaw(b, n)
          \/ \E b \in Builds : \E n \in 1 .. size[b] + 1 : Stage(b, n)
          \/ Start
Boot   == BootloaderLooks \/ KernelKeeps \/ KernelStages \/ KernelRefuses
          \/ CopyStep \/ CopyDone \/ Release \/ Panic \/ Restart

Next == Loader \/ Boot \/ WarmReset \/ PowerLoss

Spec == Init /\ [][Next]_vars

-----------------------------------------------------------------------------
Noisy(w) == \E o \in 0 .. ProbeCells - 1 : w[o].what = "noise"

(* The worker core is released over the whole of what was placed at         *)
(* WORKER_LOAD_ADDR last, the copy of a staged image or a raw file, linked  *)
(* for where it lies, however many files were staged, cut short or left     *)
(* over from earlier.  Three contents are no build, and image_present tells *)
(* none of them from an image, so a core is released over them too: the     *)
(* noise of a power-on, a copy that a reset has cut, and a raw file that    *)
(* ended early or was linked for another place (Spoiled).                   *)
ReleasedWhole ==
  pc = "running" =>
    \/ placed = Spoiled
    \/ placed = None /\ Noisy(load)
    \/ placed \in Builds /\ fits[placed] /\ Holds(load, placed)

(* The last file staged, if it was read to its end and is a worker image.   *)
Intact(b) == staged = b /\ fits[b]

(* A staged image is used when nothing is at WORKER_LOAD_ADDR, provided no  *)
(* longer image has left its footer behind it in the staging window.        *)
Leftover(b) == \E o \in size[b] + 1 .. MaxCells : FooterAt(stage, o)
StagedUsed ==
  invalid => \A b \in Builds : Intact(b) => Leftover(b)

(* BOOT_FLOW.md: "looks for a staged worker image footer, validates the     *)
(* CRC32, copies the exact payload length into place": it is used whenever  *)
(* there is nothing at WORKER_LOAD_ADDR.                                    *)
StagedAccepted == invalid => \A b \in Builds : ~Intact(b)

(* The kernel copies nothing but the last file staged.                      *)
CopiesLatest == pc = "copy" /\ staged # None => found = staged

(* The page says why a worker is not running, and does not say so of one    *)
(* that is.                                                                 *)
MissingHonest ==
  /\ pc = "running" => ~missing
  /\ pc = "panic" => missing /\ invalid
=============================================================================
