-------------------------- MODULE StagedImage_proofs --------------------------
(***************************************************************************)
(* What is true of the staged worker image for every number of builds,     *)
(* every size of the windows and every sequence of loads and resets.       *)
(***************************************************************************)
EXTENDS StagedImage, TLAPS

(* The staging window holds the file staged last, if it was read whole.     *)
StagedThere ==
  staged # None => Holds(stage, staged) /\ stage[size[staged]] = Footer(staged)

(* What the kernel copies was valid when it looked, and the staging window  *)
(* has not changed since; until the first cell is copied there is nothing   *)
(* in the load window, and then the copied cells are those of the build.    *)
Copying ==
  pc = "copy" =>
    /\ found \in Builds /\ fits[found] /\ Holds(stage, found)
    /\ copied <= size[found]
    /\ \A o \in 0 .. copied - 1 : load[o] = Word(found, o)
    /\ copied = 0 => ~Present(load)

(* What the load window holds, by what was placed there last: a whole build,*)
(* something image_present takes for one, or what power-on left.            *)
LoadKnown ==
  /\ placed \in Builds => fits[placed] /\ Holds(load, placed)
  /\ placed = Spoiled => load[0].what = "word"
  /\ placed = None /\ ~(pc = "copy" /\ copied > 0) => Noisy(load) \/ ~Present(load)
  /\ pc = "copy" => placed = None

RunningPresent == pc = "running" => Present(load)

(* Why the staged file was refused.                                         *)
Refusal == invalid => \A b \in Builds : Intact(b) => Leftover(b)

Flags ==
  /\ invalid => pc \in {"staged", "panic"} /\ ~Present(load)
  /\ pc = "panic" => missing /\ invalid
  /\ pc = "staged" => Present(load) \/ invalid
  /\ pc \in {"staged", "running"} /\ Present(load) => ~missing
  /\ pc = "kernel" /\ Present(load) => ~missing

Inv == TypeOK /\ StagedThere /\ Copying /\ LoadKnown /\ RunningPresent /\ Refusal /\ Flags

USE BuildsAssumption, CellsAssumption, LoadsAssumption

(* The windows after an action are windows.                                 *)
LEMMA WordCell == ASSUME TypeOK, NEW b \in Builds, NEW o \in Offsets PROVE Word(b, o) \in Cells
  BY DEF Word, Cells

LEMMA FooterCell == ASSUME TypeOK, NEW b \in Builds PROVE Footer(b) \in Cells
<1>1. size[b] \in Offsets BY DEF TypeOK, Offsets
<1>2. QED BY <1>1 DEF Footer, Cells

LEMMA FilledWindow == ASSUME NEW f \in Fills PROVE Filled(f) \in Windows
  BY DEF Filled, Windows, Cells, Offsets

LEMMA RawWindow ==
  ASSUME TypeOK, NEW b \in Builds, NEW n \in 1 .. size[b]
  PROVE  [o \in Offsets |-> IF o < n THEN Word(b, o) ELSE load[o]] \in Windows
<1>1. \A o \in Offsets : load[o] \in Cells BY DEF TypeOK, Windows
<1>2. QED BY <1>1, WordCell DEF Windows

LEMMA StagedWindow ==
  ASSUME TypeOK, NEW b \in Builds, NEW n \in 1 .. size[b] + 1
  PROVE  [o \in Offsets |-> IF o >= n THEN stage[o]
                            ELSE IF o < size[b] THEN Word(b, o) ELSE Footer(b)] \in Windows
<1>1. \A o \in Offsets : stage[o] \in Cells BY DEF TypeOK, Windows
<1>2. QED BY <1>1, WordCell, FooterCell DEF Windows

(* What a search finds is a build.                                          *)
LEMMA FindBuild ==
  ASSUME NEW w \in Windows
  PROVE  Find(w) \in Builds \cup {None}
<1>1. \A o \in Offsets : w[o].build \in Builds \cup {None} BY DEF Windows, Cells
<1>2. QED BY <1>1 DEF Find

(* Operators of a window, while it and the sizes do not change.             *)
LEMMA SamePresent ==
  ASSUME UNCHANGED load
  PROVE  (Present(load)' <=> Present(load)) /\ (Noisy(load)' <=> Noisy(load))
  BY DEF Present, Find, LastFooter, FooterAt, Noisy

LEMMA SameHolds ==
  ASSUME UNCHANGED <<size, load>>, NEW b
  PROVE  Holds(load, b)' <=> Holds(load, b)
  BY DEF Holds, Word

(* A window that starts with a word of code passes for an image.            *)
LEMMA WordPresent ==
  ASSUME NEW w, w[0].what = "word"
  PROVE  Present(w)
<1>1. 0 \in 0 .. ProbeCells - 1 OBVIOUS
<1>2. QED BY <1>1 DEF Present

(* A whole build is not nothing.                                            *)
LEMMA PlacedPresent ==
  ASSUME TypeOK, LoadKnown, placed # None
  PROVE  Present(load)
<1>1. CASE placed = Spoiled BY <1>1, WordPresent DEF LoadKnown
<1>2. CASE placed \in Builds
  <2>1. size[placed] \in 1 .. MaxCells BY <1>2 DEF TypeOK
  <2>2. load[0] = Word(placed, 0) BY <1>2, <2>1 DEF LoadKnown, Holds
  <2>3. load[0].what = "word" BY <2>2 DEF Word
  <2>4. QED BY <2>3, WordPresent
<1>3. QED BY <1>1, <1>2 DEF TypeOK

LEMMA SameStage ==
  ASSUME UNCHANGED <<size, fits, stage, staged>>, Refusal, UNCHANGED invalid
  PROVE  Refusal'
  BY DEF Refusal, Intact, Leftover, FooterAt

LEMMA SameStaged ==
  ASSUME UNCHANGED <<size, stage, staged>>, StagedThere
  PROVE  StagedThere'
  BY DEF StagedThere, Holds, Word, Footer

(* Steps between the copies: the windows stay.                              *)
LEMMA QuietStep ==
  ASSUME UNCHANGED Windowless, StagedThere, LoadKnown, pc # "copy",
         pc' # "copy" \/ placed = None
  PROVE  StagedThere' /\ LoadKnown'
<1>1. StagedThere' BY SameStaged DEF Windowless
<1>2. (Present(load)' <=> Present(load)) /\ (Noisy(load)' <=> Noisy(load))
  BY SamePresent DEF Windowless
<1>3. Holds(load, placed)' <=> Holds(load, placed) BY DEF Holds, Word, Windowless
<1>4. QED BY <1>1, <1>2, <1>3 DEF LoadKnown, Windowless

(* A window full of one power-on value is noise or nothing.                 *)
LEMMA FilledKnown ==
  ASSUME NEW f \in Fills
  PROVE  Noisy(Filled(f)) \/ ~Present(Filled(f))
<1>1. \A o \in 0 .. ProbeCells - 1 : o \in Offsets BY DEF Offsets
<1>2. \A o \in Offsets : Filled(f)[o].what = f BY DEF Filled
<1>3. CASE f = "noise" BY <1>1, <1>2, <1>3 DEF Noisy
<1>4. CASE f # "noise"
  <2>1. f = "zero" \/ f = "ones" BY <1>4 DEF Fills
  <2>2. Find(Filled(f)) = None BY <1>2, <2>1 DEF Find, LastFooter, FooterAt
  <2>3. QED BY <1>1, <1>2, <2>1, <2>2 DEF Present
<1>5. QED BY <1>3, <1>4

LEMMA InitInv == ASSUME Init PROVE Inv
<1>1. TypeOK
  <2>1. load \in Windows /\ stage \in Windows BY FilledWindow DEF Init
  <2>2. 0 \in 0 .. MaxCells /\ 0 \in 0 .. MaxLoads OBVIOUS
  <2>3. QED BY <2>1, <2>2 DEF Init, TypeOK
<1>2. StagedThere /\ Copying /\ RunningPresent /\ Refusal /\ Flags
  BY DEF Init, StagedThere, Copying, RunningPresent, Refusal, Flags
<1>3. LoadKnown BY FilledKnown DEF Init, LoadKnown
<1>4. QED BY <1>1, <1>2, <1>3 DEF Inv

-----------------------------------------------------------------------------
(* Steps of the loader and resets.                                          *)
LEMMA LoadRawInv ==
  ASSUME Inv, NEW b \in Builds, NEW n \in 1 .. size[b], LoadRaw(b, n)
  PROVE  Inv'
<1>1. TypeOK'
  <2>1. load' \in Windows BY RawWindow DEF Inv, LoadRaw
  <2>2. loads' \in 0 .. MaxLoads BY DEF Inv, TypeOK, LoadRaw, MayLoad
  <2>3. placed' \in Builds \cup {None, Spoiled} BY DEF LoadRaw
  <2>4. QED BY <2>1, <2>2, <2>3 DEF Inv, TypeOK, LoadRaw
<1>2. StagedThere' BY SameStaged DEF Inv, LoadRaw
<1>3. Refusal' BY SameStage DEF Inv, LoadRaw
<1>4. ~invalid BY DEF Inv, Flags, LoadRaw, MayLoad
<1>5. Copying' /\ RunningPresent' /\ Flags'
  BY <1>4 DEF LoadRaw, MayLoad, Copying, RunningPresent, Flags
<1>6. size[b] \in 1 .. MaxCells BY DEF Inv, TypeOK
<1>7. \A o \in 0 .. n - 1 : load'[o] = Word(b, o) BY <1>6 DEF LoadRaw, Offsets
<1>8. LoadKnown'
  <2>1. pc' = "loader" /\ UNCHANGED <<size, fits>> BY DEF LoadRaw, MayLoad
  <2>2. CASE n = size[b] /\ fits[b]
    <3>1. placed' = b BY <2>2 DEF LoadRaw
    <3>2. Holds(load', b) BY <1>7, <2>2 DEF Holds
    <3>3. Holds(load, placed)' BY <2>1, <3>1, <3>2 DEF Holds, Word
    <3>4. QED BY <2>1, <2>2, <3>1, <3>3, BuildsAssumption DEF LoadKnown
  <2>3. CASE ~(n = size[b] /\ fits[b])
    <3>1. placed' = Spoiled BY <2>3 DEF LoadRaw
    <3>2. load'[0] = Word(b, 0) BY <1>6, <1>7
    <3>3. load'[0].what = "word" BY <3>2 DEF Word
    <3>4. QED BY <2>1, <3>1, <3>3, BuildsAssumption DEF LoadKnown
  <2>4. QED BY <2>2, <2>3
<1>9. QED BY <1>1, <1>2, <1>3, <1>5, <1>8 DEF Inv

LEMMA StageInv == ASSUME Inv, NEW b \in Builds, NEW n \in 1 .. size[b] + 1, Stage(b, n) PROVE Inv'
<1>1. TypeOK'
  <2>1. stage' \in Windows BY StagedWindow DEF Inv, Stage
  <2>2. loads' \in 0 .. MaxLoads BY DEF Inv, TypeOK, Stage, MayLoad
  <2>3. staged' \in Builds \cup {None} BY DEF Stage
  <2>4. QED BY <2>1, <2>2, <2>3 DEF Inv, TypeOK, Stage
<1>2. ~invalid BY DEF Inv, Flags, Stage, MayLoad
<1>3. Refusal' /\ Copying' /\ RunningPresent' /\ Flags'
  BY <1>2 DEF Stage, MayLoad, Refusal, Copying, RunningPresent, Flags
<1>4. StagedThere'
  <2>1. CASE staged' = None BY <2>1 DEF StagedThere
  <2>2. CASE staged' # None
    <3>1. n = size[b] + 1 /\ size[b] \in 1 .. MaxCells /\ staged' = b
      BY <2>2 DEF Stage, Inv, TypeOK
    <3>2. \A o \in 0 .. size[b] : o \in Offsets BY <3>1 DEF Offsets
    <3>3. \A o \in 0 .. size[b] - 1 : stage'[o] = Word(b, o) BY <3>1, <3>2 DEF Stage
    <3>4. stage'[size[b]] = Footer(b) BY <3>1, <3>2 DEF Stage
    <3>5. size' = size BY DEF Stage
    <3>6. QED BY <3>1, <3>3, <3>4, <3>5 DEF StagedThere, Holds, Word, Footer
  <2>3. QED BY <2>1, <2>2
<1>5. LoadKnown'
  <2>1. pc # "copy" BY DEF Stage, MayLoad
  <2>2. (Present(load)' <=> Present(load)) /\ (Noisy(load)' <=> Noisy(load))
    BY SamePresent DEF Stage
  <2>3. Holds(load, placed)' <=> Holds(load, placed) BY DEF Stage, Holds, Word
  <2>4. QED BY <2>1, <2>2, <2>3 DEF Inv, LoadKnown, Stage
<1>6. QED BY <1>1, <1>3, <1>4, <1>5 DEF Inv

LEMMA WarmResetInv == ASSUME Inv, WarmReset PROVE Inv'
<1>1. TypeOK'
  <2>1. copied' \in 0 .. MaxCells BY DEF WarmReset
  <2>2. placed' \in Builds \cup {None, Spoiled} BY DEF WarmReset, Inv, TypeOK, Copying
  <2>3. QED BY <2>1, <2>2 DEF Inv, TypeOK, WarmReset
<1>2. StagedThere' BY SameStaged DEF Inv, WarmReset
<1>3. Refusal' /\ Copying' /\ RunningPresent' /\ Flags'
  BY DEF WarmReset, Refusal, Copying, RunningPresent, Flags
<1>4. LoadKnown'
  <2>1. (Present(load)' <=> Present(load)) /\ (Noisy(load)' <=> Noisy(load))
    BY SamePresent DEF WarmReset
  <2>2. \A b : Holds(load, b)' <=> Holds(load, b) BY SameHolds DEF WarmReset
  <2>3. UNCHANGED <<load, fits>> /\ pc' = "loader" BY DEF WarmReset
  <2>4. CASE pc # "copy" \/ copied = 0
    <3>1. placed' = placed BY <2>4 DEF WarmReset
    <3>2. Holds(load, placed)' <=> Holds(load, placed) BY <3>1 DEF WarmReset, Holds, Word
    <3>3. ~(pc = "copy" /\ copied > 0) BY <2>4
    <3>4. QED BY <2>1, <2>3, <3>1, <3>2, <3>3 DEF Inv, LoadKnown
  <2>5. CASE pc = "copy" /\ copied # 0
    <3>1. found \in Builds /\ fits[found] /\ copied <= size[found]
          /\ \A o \in 0 .. copied - 1 : load[o] = Word(found, o)
      BY <2>5 DEF Inv, Copying
    <3>2. CASE copied = size[found]
      <4>1. placed' = found BY <2>5, <3>2 DEF WarmReset
      <4>2. Holds(load, found) BY <3>1, <3>2 DEF Holds
      <4>3. Holds(load, placed)' BY <4>1, <4>2 DEF WarmReset, Holds, Word
      <4>4. QED BY <2>3, <3>1, <4>1, <4>3, BuildsAssumption DEF LoadKnown
    <3>3. CASE copied # size[found]
      <4>1. placed' = Spoiled BY <2>5, <3>3 DEF WarmReset
      <4>2. 0 \in 0 .. copied - 1 BY <2>5 DEF Inv, TypeOK
      <4>3. load[0] = Word(found, 0) BY <3>1, <4>2
      <4>4. load[0].what = "word" BY <4>3 DEF Word
      <4>5. QED BY <2>3, <4>1, <4>4, BuildsAssumption DEF LoadKnown
    <3>4. QED BY <3>2, <3>3
  <2>6. QED BY <2>4, <2>5
<1>5. QED BY <1>1, <1>2, <1>3, <1>4 DEF Inv

LEMMA PowerLossInv == ASSUME Inv, PowerLoss PROVE Inv'
<1>1. TypeOK'
  <2>1. load' \in Windows /\ stage' \in Windows BY FilledWindow DEF PowerLoss
  <2>2. copied' \in 0 .. MaxCells BY DEF PowerLoss
  <2>3. QED BY <2>1, <2>2 DEF Inv, TypeOK, PowerLoss
<1>2. StagedThere' /\ Refusal' /\ Copying' /\ RunningPresent' /\ Flags'
  BY DEF PowerLoss, StagedThere, Refusal, Copying, RunningPresent, Flags
<1>3. LoadKnown'
  <2>1. PICK f \in Fills : load' = Filled(f) BY DEF PowerLoss
  <2>2. Noisy(load') \/ ~Present(load') BY <2>1, FilledKnown
  <2>3. Noisy(load)' \/ ~Present(load)'
    BY <2>2 DEF Noisy, Present, Find, LastFooter, FooterAt
  <2>4. placed' = None /\ pc' = "loader" BY DEF PowerLoss
  <2>5. QED BY <2>3, <2>4, BuildsAssumption DEF LoadKnown
<1>4. QED BY <1>1, <1>2, <1>3 DEF Inv

-----------------------------------------------------------------------------
(* Steps of the boot code.                                                  *)

(* A step outside the copy that leaves the windows alone keeps all but what *)
(* the flags say.                                                           *)
LEMMA SameRest ==
  ASSUME Inv, UNCHANGED Windowless, pc # "copy", pc' # "copy" \/ placed = None
  PROVE  /\ StagedThere' /\ LoadKnown'
         /\ Present(load)' <=> Present(load)
         /\ UNCHANGED invalid => Refusal'
<1>1. StagedThere' /\ LoadKnown' BY QuietStep DEF Inv
<1>2. Present(load)' <=> Present(load) BY SamePresent DEF Windowless
<1>3. ASSUME UNCHANGED invalid PROVE Refusal' BY <1>3, SameStage DEF Inv, Windowless
<1>4. QED BY <1>1, <1>2, <1>3

LEMMA LookInv ==
  ASSUME Inv, Start \/ BootloaderLooks \/ KernelKeeps \/ Release \/ Panic \/ Restart
  PROVE  Inv'
<1>1. UNCHANGED Windowless /\ pc # "copy" /\ pc' # "copy" /\ UNCHANGED <<copied, found, invalid>>
  BY DEF Start, BootloaderLooks, KernelKeeps, Release, Panic, Restart, Windowless
<1>2. TypeOK'
  BY <1>1 DEF Inv, TypeOK, Windowless, Start, BootloaderLooks, KernelKeeps, Release, Panic, Restart
<1>3. StagedThere' /\ LoadKnown' /\ Refusal' /\ (Present(load)' <=> Present(load))
  BY <1>1, SameRest
<1>4. Copying' BY <1>1 DEF Copying
<1>5. RunningPresent'
  BY <1>3 DEF Inv, RunningPresent, Start, BootloaderLooks, KernelKeeps, Release, Panic, Restart
<1>6. Flags'
  <2>1. CASE Start \/ KernelKeeps \/ Restart BY <1>3, <2>1 DEF Inv, Flags, Start, KernelKeeps, Restart
  <2>2. CASE BootloaderLooks BY <1>3, <2>2 DEF Inv, Flags, BootloaderLooks
  <2>3. CASE Release BY <1>3, <2>3 DEF Inv, Flags, Release
  <2>4. CASE Panic BY <1>3, <2>4 DEF Inv, Flags, Panic
  <2>5. QED BY <2>1, <2>2, <2>3, <2>4
<1>7. QED BY <1>2, <1>3, <1>4, <1>5, <1>6 DEF Inv

LEMMA KernelStagesInv == ASSUME Inv, KernelStages PROVE Inv'
<1>1. UNCHANGED Windowless /\ pc = "kernel" /\ UNCHANGED <<missing, invalid>> /\ ~Present(load)
      /\ Valid(found') /\ copied' = 0 /\ pc' = "copy" /\ placed = None
  BY PlacedPresent DEF KernelStages, Inv
<1>2. found' \in Builds BY <1>1, FindBuild DEF KernelStages, Inv, TypeOK, Valid
<1>3. TypeOK'
  <2>1. copied' \in 0 .. MaxCells BY <1>1
  <2>2. QED BY <1>1, <1>2, <2>1 DEF Inv, TypeOK, Windowless
<1>4. StagedThere' /\ LoadKnown' /\ Refusal' /\ (Present(load)' <=> Present(load))
  BY <1>1, SameRest
<1>5. Copying'
  <2>1. fits'[found'] BY <1>1 DEF Valid, Windowless
  <2>2. size'[found'] \in 1 .. MaxCells BY <1>1, <1>2 DEF Windowless, Inv, TypeOK
  <2>3. copied' = 0 /\ copied' <= size'[found'] BY <1>1, <2>2
  <2>4. Holds(stage, found)' BY <1>1 DEF Valid, Holds, Word, Windowless
  <2>5. \A o \in 0 .. copied' - 1 : load'[o] = Word(found, o)' BY <1>1
  <2>6. QED BY <1>1, <1>2, <1>4, <2>1, <2>3, <2>4, <2>5 DEF Copying
<1>6. RunningPresent' /\ Flags' BY <1>1, <1>4 DEF Inv, RunningPresent, Flags
<1>7. QED BY <1>3, <1>4, <1>5, <1>6 DEF Inv

LEMMA KernelRefusesInv == ASSUME Inv, KernelRefuses PROVE Inv'
<1>1. UNCHANGED Windowless /\ pc = "kernel" /\ UNCHANGED <<copied, found, missing>> /\ ~Present(load)
      /\ invalid' = TRUE /\ pc' = "staged" /\ ~Valid(Find(stage))
  BY DEF KernelRefuses
<1>2. TypeOK' BY <1>1 DEF Inv, TypeOK, Windowless
<1>3. StagedThere' /\ LoadKnown' /\ (Present(load)' <=> Present(load)) BY <1>1, SameRest
<1>4. Copying' /\ RunningPresent' BY <1>1 DEF Copying, RunningPresent
<1>5. Flags' BY <1>1, <1>3 DEF Flags
<1>6. Refusal'
  <2>1. SUFFICES ASSUME NEW b \in Builds, Intact(b), ~Leftover(b) PROVE FALSE
    BY <1>1 DEF Refusal, Intact, Leftover, FooterAt, Windowless
  <2>2. staged = b /\ fits[b] /\ b # None BY <2>1 DEF Intact
  <2>3. Holds(stage, b) /\ stage[size[b]] = Footer(b) BY <2>2 DEF Inv, StagedThere
  <2>4. size[b] \in 1 .. MaxCells /\ size[b] \in Offsets BY DEF Inv, TypeOK, Offsets
  <2>5. FooterAt(stage, size[b]) BY <2>3, <2>4 DEF FooterAt, Footer
  <2>6. LastFooter(stage, size[b]) BY <2>1, <2>5 DEF LastFooter, Leftover
  <2>7. \A o \in Offsets : LastFooter(stage, o) => o = size[b]
    BY <2>4, <2>5, <2>6 DEF LastFooter, Offsets
  <2>8. (CHOOSE o \in Offsets : LastFooter(stage, o)) = size[b] BY <2>4, <2>6, <2>7
  <2>9. Find(stage) = stage[CHOOSE o \in Offsets : LastFooter(stage, o)].build
    BY <2>4, <2>6 DEF Find
  <2>10. Find(stage) = Footer(b).build BY <2>3, <2>8, <2>9
  <2>11. Find(stage) = b BY <2>10 DEF Footer
  <2>12. QED BY <1>1, <2>2, <2>3, <2>11 DEF Valid
<1>7. QED BY <1>2, <1>3, <1>4, <1>5, <1>6 DEF Inv

LEMMA CopyStepInv == ASSUME Inv, CopyStep PROVE Inv'
<1>1. pc = "copy" /\ pc' = "copy" /\ copied < size[found] /\ copied' = copied + 1
      /\ load' = [load EXCEPT ![copied] = stage[copied]]
      /\ UNCHANGED <<size, fits, stage, found, missing, invalid, loads, staged, placed>>
  BY DEF CopyStep, CopyLength
<1>2. found \in Builds /\ fits[found] /\ Holds(stage, found)
      /\ \A o \in 0 .. copied - 1 : load[o] = Word(found, o)
  BY <1>1 DEF Inv, Copying
<1>3. size[found] \in 1 .. MaxCells /\ copied \in 0 .. MaxCells BY <1>2 DEF Inv, TypeOK
<1>4. copied \in Offsets /\ copied' \in 0 .. MaxCells BY <1>1, <1>3 DEF Offsets
<1>5. TypeOK'
  <2>1. load' \in Windows BY <1>1, <1>4 DEF Inv, TypeOK, Windows
  <2>2. QED BY <1>1, <1>4, <2>1 DEF Inv, TypeOK
<1>6. StagedThere' BY <1>1, SameStaged DEF Inv
<1>7. Refusal' BY <1>1, SameStage DEF Inv
<1>8. stage[copied] = Word(found, copied) BY <1>1, <1>2, <1>3 DEF Holds
<1>9. \A o \in 0 .. copied : load'[o] = Word(found, o)
  BY <1>1, <1>2, <1>3, <1>4, <1>8 DEF Inv, TypeOK, Windows, Offsets
<1>10. Holds(stage, found)' BY <1>1, <1>2 DEF Holds, Word
<1>11. \A o \in 0 .. copied' - 1 : load'[o] = Word(found, o)' BY <1>1, <1>3, <1>9 DEF Word
<1>12. copied' <= size'[found'] /\ copied' > 0 BY <1>1, <1>3
<1>13. Copying' BY <1>1, <1>2, <1>10, <1>11, <1>12 DEF Copying
<1>14. LoadKnown' BY <1>1, <1>12, BuildsAssumption DEF Inv, LoadKnown
<1>15. RunningPresent' /\ Flags' BY <1>1 DEF Inv, RunningPresent, Flags
<1>16. QED BY <1>5, <1>6, <1>7, <1>13, <1>14, <1>15 DEF Inv

LEMMA CopyDoneInv == ASSUME Inv, CopyDone PROVE Inv'
<1>1. pc = "copy" /\ pc' = "staged" /\ copied = size[found] /\ missing' = FALSE /\ placed' = found
      /\ UNCHANGED <<size, fits, load, stage, found, copied, invalid, loads, staged>>
  BY DEF CopyDone, CopyLength
<1>2. found \in Builds /\ fits[found] /\ Holds(load, found)
  BY <1>1 DEF Inv, Copying, Holds
<1>3. LoadKnown'
  <2>1. Holds(load, placed)' BY <1>1, <1>2 DEF Holds, Word
  <2>2. QED BY <1>1, <1>2, <2>1, BuildsAssumption DEF LoadKnown
<1>4. ~invalid BY <1>1 DEF Inv, Flags
<1>5. TypeOK' BY <1>1, <1>2 DEF Inv, TypeOK
<1>6. Present(load)'
  <2>1. placed' # None BY <1>1, <1>2, BuildsAssumption
  <2>2. size[found] \in 1 .. MaxCells BY <1>2 DEF Inv, TypeOK
  <2>3. load[0] = Word(found, 0) BY <1>2, <2>2 DEF Holds
  <2>4. load'[0].what = "word" BY <1>1, <2>3 DEF Word
  <2>5. QED BY <1>1, <2>4, WordPresent, SamePresent
<1>7. StagedThere' BY <1>1, SameStaged DEF Inv
<1>8. Refusal' /\ Copying' /\ RunningPresent' /\ Flags'
  BY <1>1, <1>4, <1>6 DEF Refusal, Copying, RunningPresent, Flags
<1>9. QED BY <1>3, <1>5, <1>7, <1>8 DEF Inv

LEMMA StutterInv == ASSUME Inv, UNCHANGED vars PROVE Inv'
<1>1. UNCHANGED <<size, fits, load, stage, staged, invalid>> BY DEF vars
<1>2. TypeOK' BY DEF Inv, TypeOK, vars
<1>3. StagedThere' BY <1>1, SameStaged DEF Inv
<1>4. Refusal' BY <1>1, SameStage DEF Inv
<1>5. (Present(load)' <=> Present(load)) /\ (Noisy(load)' <=> Noisy(load)) BY <1>1, SamePresent
<1>6. Holds(load, placed)' <=> Holds(load, placed) BY DEF Holds, Word, vars
<1>7. LoadKnown' /\ RunningPresent' /\ Flags'
  BY <1>5, <1>6 DEF Inv, LoadKnown, RunningPresent, Flags, vars
<1>8. Copying' BY <1>5 DEF Inv, Copying, Holds, Word, vars
<1>9. QED BY <1>2, <1>3, <1>4, <1>7, <1>8 DEF Inv

THEOREM Invariance == Spec => []Inv
<1>1. Init => Inv BY InitInv
<1>2. Inv /\ [Next]_vars => Inv'
  <2>1. SUFFICES ASSUME Inv, [Next]_vars PROVE Inv' OBVIOUS
  <2>2. CASE Loader BY <2>1, <2>2, LoadRawInv, StageInv, LookInv DEF Loader
  <2>3. CASE Boot
    BY <2>1, <2>3, LookInv, KernelStagesInv, KernelRefusesInv, CopyStepInv, CopyDoneInv DEF Boot
  <2>4. CASE WarmReset BY <2>1, <2>4, WarmResetInv
  <2>5. CASE PowerLoss BY <2>1, <2>5, PowerLossInv
  <2>6. CASE UNCHANGED vars BY <2>1, <2>6, StutterInv
  <2>7. QED BY <2>1, <2>2, <2>3, <2>4, <2>5, <2>6 DEF Next
<1>3. QED BY <1>1, <1>2, PTL DEF Spec

(* The windows, the footer's locals and the flags keep their types.         *)
THEOREM StagedTypesHold == Spec => []TypeOK
<1>1. Inv => TypeOK BY DEF Inv
<1>2. QED BY <1>1, Invariance, PTL

(* A core is released over the whole of the fitting build placed last, but  *)
(* for power-on noise and the torn, cut-short or foreign image that         *)
(* image_present takes for one.                                             *)
THEOREM ReleasedWholeHolds == Spec => []ReleasedWhole
<1>1. Inv => ReleasedWhole
  BY DEF Inv, TypeOK, LoadKnown, RunningPresent, ReleasedWhole
<1>2. QED BY <1>1, Invariance, PTL

(* Only the footer of a longer image keeps a staged image from being used.  *)
THEOREM StagedUsedHolds == Spec => []StagedUsed
<1>1. Inv => StagedUsed BY DEF Inv, Refusal, StagedUsed
<1>2. QED BY <1>1, Invariance, PTL

(* Two builds whose payloads begin the same window are the same build: what *)
(* is copied is the last file staged.                                       *)
THEOREM CopiesLatestHolds == Spec => []CopiesLatest
<1>1. Inv => CopiesLatest
  <2>1. SUFFICES ASSUME Inv, pc = "copy", staged # None PROVE found = staged
    BY DEF CopiesLatest
  <2>2. found \in Builds /\ staged \in Builds BY <2>1 DEF Inv, Copying, TypeOK
  <2>3. size[found] \in 1 .. MaxCells /\ size[staged] \in 1 .. MaxCells
    BY <2>1, <2>2 DEF Inv, TypeOK
  <2>4. stage[0] = Word(found, 0) /\ stage[0] = Word(staged, 0)
    BY <2>1, <2>3 DEF Inv, Copying, StagedThere, Holds
  <2>5. QED BY <2>4 DEF Word
<1>2. QED BY <1>1, Invariance, PTL

(* The missing-image flag is set on the page of a board that panics over it *)
(* and clear while a worker runs.                                           *)
THEOREM MissingHonestHolds == Spec => []MissingHonest
<1>1. Inv => MissingHonest BY DEF Inv, Flags, RunningPresent, MissingHonest
<1>2. QED BY <1>1, Invariance, PTL
===============================================================================
