CONSTANTS
  RxRing = 3
  TxRing = 3
  RxSize = 3
  TxSize = 3
  Chunk = 2
  ReadLen = 1
  LineSize = 3
  PageFrom = {"kernel", "bootloader", "plain_bootloader"}
  Bursts = {1, 2}
  MaxIn = 4
  MaxOut = 3
  MaxSessions = 2
SPECIFICATION Spec
INVARIANTS TypeOK InputComplete OutputComplete LinesAsSent
PROPERTY BytesKept
CHECK_DEADLOCK FALSE
