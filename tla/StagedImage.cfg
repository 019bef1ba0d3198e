SPECIFICATION Spec
CONSTANTS
  Builds = {a, b}
  None = None
  Spoiled = Spoiled
  MaxCells = 3
  ProbeCells = 2
  MaxLoads = 4
INVARIANTS
  TypeOK
  ReleasedWhole
  StagedUsed
  CopiesLatest
  MissingHonest
