SPECIFICATION ApartSpec
CONSTANTS
  Users = {u1, u2, u3}
  First = u1
  MaxBytes = 3
  MaxReads = 3
  MaxErrors = 1
  MaxLines = 4
INVARIANTS
  WriterBreaksOnce
  LinesKeepTogether
  PartsAreWhole
PROPERTIES
  ReadersShareALineQueue
  ReadsReturn
CHECK_DEADLOCK FALSE
