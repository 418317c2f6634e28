CONSTANTS
  MaxLength = 7
  MaxSize = 4
SPECIFICATION Spec
CHECK_DEADLOCK FALSE
INVARIANTS
  TypeOK
  ChunksFit
  NothingLost
  PhrasesWhole
  RepeatsBounded
PROPERTY
  TurnsAdvance
